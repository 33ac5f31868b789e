# TLA+ verification of the VibeVoice transcription service

This directory models the parts of the repository in which concurrency, failure
and ordering decide whether the service is correct, checks them with TLC on small
instances, and proves the central safety properties with TLAPS for every value of
the constants. `PROJECT.json` says for each definition which lines it models, for
each property which run checks it and which mutation of the code it catches, and
lists the hazards that the properties are for.

## 1. The system

```
client/CLI --TLS 1.3, mTLS--> rust_proxy --Unix socket--> FastAPI server --HTTP--> vLLM or Groq
                              (permits, headers,          (route, queue,
                               certificate renewal)        one worker)
```

| component | state | operations | what is hard | what makes it correct |
|---|---|---|---|---|
| queue (`server/queue.py`) | `_jobs`, `_pending`, job fields, worker task, cleanup tasks | `reserve`, `submit`, `cancel`, `_worker`, `_cleanup_job`, `stop` | a worker, a process task, callers and cleanup tasks interleave at every await; cancellation by the client and by `stop` meet | bounded capacity, one job at a time, first come first served, one sentinel, no upload kept, every job ends and is forgotten |
| backends (`server/transcribe.py`, `vllm_client.py`, `groq_client.py`, ffmpeg in `audio.py`) | the process task | start, chunk, return, raise, be cancelled | cancellation takes time (ffmpeg is killed, connections are closed) | as above |
| route (`server/routes/transcribe.py`) | handler, `event_stream` generator, spool directory | reserve, parse, spool, submit, stream | failure, disconnection or cancellation at every await | a place in the queue and an upload on disk always have an owner; the final event is true |
| application (`server/app.py`) | lifespan, HTTPS middleware | start, stop, admit | shutdown with cancellations in flight | stop ends; only requests of the proxy are admitted |
| proxy connections (`rust_proxy/src/main.rs`) | permits, tasks, upstream connections | accept, handshake, handle, drain | a connection may end anywhere, an unjoined task drives the upstream half, the socket path may change between check and connect | permits are accounted for, requests go upstream as their owner's, the upstream learns of the end |
| proxy identity (same file, `scripts/generate_cert.py`) | key, certificate and pin files, configuration in memory | start-up, renewal, script | kills and failures between any two file operations | one identity for ever, the pin is never a wrong one, restarts heal |
| client (`client/client.py`, `cli.py`) | position in upload and stream, `current_event`, the output | connect with a pin, upload, parse, print, exit | the stream is cut, stalls or ends early; two timers race | the text is right and complete when DONE was seen, failures have a cause, the client ends |
| `server/__main__.py`, health route | the socket's path, uploads left on disk | bind, serve, end, be restarted | kills leave things behind | the next start succeeds |
| client certificate scripts (`scripts/generate_client_cert.py`, `validate_client_cert.py`, `generate_client_bundle.py`) | CA, certificate, key and bundle files | generate, validate, bundle | they run at the same time and are killed between two writes | files of one generation, a verdict that can be relied on |
| `setup.sh`, `teardown.sh` | services, credentials, the upload directory | stop, make or judge credentials, purge, start, wait, verify, tear down | any step may fail, any service restart by itself | a later setup succeeds, uploads are neither left nor swept away |
| `config.py`, Dockerfile, deployment example | none | check arguments, build | - | not modelled |

## 2. Modules

| module | models | composes |
|---|---|---|
| `SerialService` | what the queue promises: bounded, serial service in the order of joining, which anyone may leave | - |
| `TranscriptionQueue` | the queue and the process task; callers are open | implements `SerialService` |
| `StreamContract` | what one request is promised: refused, or every chunk and then the truth | - |
| `TranscribeServer` | the route, its streams, the lifespan, over the queue | extends `TranscriptionQueue`, implements `StreamContract` for each job |
| `ClientSession` | the CLI, its parser, the connection and the timers | extends `StreamContract`, the service it talks to |
| `ServerIdentity` | key, certificate, pin, configuration; `main`, `cert_renewal_task`, `_generate_cert` | - |
| `ProxyConnections` | `serve_public`, handlers, headers, admission by FastAPI | - |
| `ClientCredentials` | the client certificate scripts and their files | - |
| `ServerSocket` | the server process under its supervisor, socket path, health | - |
| `Installation` | `setup.sh`, `teardown.sh`, the proxy's client CA | extends `ClientCredentials` and `ServerSocket` |
| `MC*` | instances for TLC | |
| `*Proofs` | theorems | |

**TranscriptionQueue.** One asyncio loop runs everything, so an action is what a
task does between two suspension points. Job fields are functions of the job with
the names of the source. `_jobs` is kept as insertion numbers (`ticket`) because
positions depend on its order; `chunk_queue` holds everything that was ever put,
and readers keep an index. `worker`, `current` and `worker_cancelled` are the
control of the worker task; `process_task` says how far the task of a job is
(created, running, cancelling, returned, raised, cancelled). The end of a process
task and the resumption of the worker are two actions, as in asyncio, where
callbacks of the same loop run in between. The model relies on these facts about
Python 3.12: a task that was cancelled is never resumed normally; a task cancelled
before it starts never runs its body; cancelling a task that awaits another
forwards the cancellation as long as that one is not done; `wait_for` does not
swallow a cancellation. A process task that unwinds raises nothing but
`CancelledError`.

**SerialService** knows of each client where it is and who waits in front of it
(`ahead`): those who were waiting when it joined and have not left the line since.
The queue's `Before(j)`, the queued jobs in front of `j` in `_pending`, is that set,
so cancelled jobs that still lie in `_pending` do not appear in it.

**TranscribeServer.** `handler` is the await at which the handler of a job's
request is suspended. Ownership of the upload passes from `_spool_upload`
(`spool`) to the job (`audio_path`). `read` is how far `event_stream` has got and
`final` is what the client was told. A client that leaves while the generator is
suspended in a `yield` leaves an "abandoned" generator, which the loop closes
later. uvicorn runs without a limit on graceful shutdown, so the lifespan's stop
begins after every handler has ended, and nothing cancels a handler in its finally
block. Left out: wording of events, estimates, `get_queue_info`, and parser spill
files, which are closed by reference counting. The timing of keep-alives is in
`ClientSession`.

**StreamContract** forgets queue, spool and tasks. Its state for one request is how
many chunks were produced and sent, how the job ended, what the client was told and
whether it is still there. `Contract(j)` in `TranscribeServer` is the mapping:
`ImplementsContract` says that every step of the server is a step of the contract of
each job, or none.

**ClientSession.** The client may then be checked against the contract instead of the
server, which keeps the instance small and covers every server that keeps it. `wire`
holds the lines on their way, `tail` what is behind them. `Feed` is one line through
the parser of `transcribe()` and the loop of the CLI; a data line is an event only
with the fields that the branch for `current_event` takes from it, so a parser that
is out of step raises. `Break` may fall between any two lines or inside one and
lose any number of them; where it falls decides what `http.client` makes of it: the
end of the body (between two chunks) or an exception. Time is counted in seconds and
passes only while the client is blocked. With every second the wait of `event_stream`
times out (`WakesUp`), and it writes a keep-alive when it has been silent for 5 s, at
this wake-up or at the next, as its clock rounds. That this is early enough for the
client's socket is checked, not assumed: without the keep-alive the seconds go on
passing, and `TimeoutJustified` fails. The text is the sequence of chunk
numbers.

**ServerIdentity.** A file is what can be read from it: a key, a certificate over
a key, a pin, `Missing` or `Damaged`. Opening for writing truncates and is an action
of its own; `Killed` and `FileFails` may fall between any two. Expiry is chosen
by the environment. rustls refuses a certificate that does not belong to the key.

**ProxyConnections.** `conn` is the place of each connection's task. A header field
is the set of origins of its values, which is all that the rewriting and FastAPI's
admission checks tell apart. `sock` is what is at the socket path; it changes at
any moment, so the path that was validated need not be the one that is connected.
The upstream connection goes from open to closing when the proxy drops its ends and
to closed when its own task has run. Reasons to refuse a socket path are one value;
bodies and status codes are left out.

**ClientCredentials.** Each script is a list of system calls (`Generate`, `Validate`,
`Bundle`), and one action per kind of call executes the next one. One run of the
generator makes all key material of one CA, whose private key is not kept, so the run
itself is the identity of the material (`of`); `by` is the run that opened the file.
A file that was opened is empty until `FillFile`. The issuer name is the same in all
generations, so only signature and public key tell them apart (`Accepts`). Expiry,
damaged contents, modes of files and the pin and URL inside the bundle are left out.
The mode of a directory is kept (`dir`): mkdir leaves it loose, chmod makes it private
in a second step, and a loose one is refused, so a kill between the two stays visible
to every later run of a script or of `setup.sh`.

**ServerSocket.** `srv` walks through `_bind_private_uds`; a kill leaves the path as it
is, an exit removes it. `spool` holds, for every server that ever came up, whether
uploads of it are on disk; what happens to them inside one server's life is
`TranscribeServer`'s business. `engine` is vLLM's answer to the health check.

**Installation.** `at` is the place in the script, whichever of the two runs, and
`Then` the order of the places: each service is stopped in a step of its own, then the
path, the directories, the credentials and so on, and a kill may fall between any two.
A child script is a run of `ClientCredentials`; if setup is killed, the child goes on.
The proxy starts with its own key and a readable client CA, and keeps the CA it read
then or at its last reload (`proxy`). `server_key` is as much of its key as a setup can
meet: none, opened by the first start, left empty by a kill of that start, whole; the
rest of a start is `ServerIdentity`'s. `Verify` asks once, as `setup.sh` does two
seconds after it has enabled the proxy. `Mishap`
bounds everything that goes wrong by itself: kills, crashes, refused inputs, waits that
time out, and a proxy that could start but has not within its two seconds. Builds, environment checks and unit files have no action of their own: all
they can do is fail, which `SetupFails` covers at every place. Docker and systemd are
taken to do what they are told.

## 3. Runs

| run | instance | states | shows |
|---|---|---|---|
| `queue_safety` | 3 jobs, 2 places, 2 chunks, history 2, VibeVoice, symmetry | 387,930 | type, capacity, serial service, uploads, sentinel, `_pending`, cleanup, cancellation is not success, terminal is final but for the late worker, refinement of `SerialService` |
| `queue_cancelled_is_final` | 2 jobs | violation | finding 1 |
| `queue_positions` | 2 jobs | violation | finding 2 |
| `server_safety` | 2 jobs, 2 chunks, VibeVoice, symmetry | 128,310 | owners of places and uploads, honest final event, a connected client is told, refinement of `StreamContract` |
| `server_liveness` | 2 jobs, 1 place, 1 reader, Groq, fair | 26,003 | places are released, queued jobs finish, requests of readers end |
| `server_stop` | 1 job, fair | violation | finding 3 |
| `identity` | 2 keys, 3 certificates, 3 mishaps, fair | 4,109 | one identity, right pin, matching pairs, restarts heal, renewal reloads |
| `identity_reload` | 1 key, 1 mishap, fair | violation | finding 4 |
| `proxy` | 3 connections, 2 permits, 2 identities, fair | 88,488 | permits, ownership and integrity of forwarded requests, upstream learns |
| `client_session` | 2 chunks, 2 pieces, 5 s and 10 s, 1 stall, fair | 599,006 | the text is faithful, failures are justified, a working service is never timed out, the client ends |
| `client_success` | 1 chunk, 1 piece, no stall | violation | finding 5 |
| `installation` | 2 setups, 1 bundle by hand, 1 mishap, 1 removal, fair | 416,558 | one generation on disk, sound verdicts, uploads accounted for, setup succeeds again, a killed server comes back |

Bounds. Three jobs with two places are the least with a job in service, one that
waits and one that is refused or enters later; two jobs suffice where a property
is about one job and its neighbour. Two chunks let a stream be read in part when
the job ends, and leave room for a chunk that a task not really cancelled would put
behind the sentinel. One place for two requests makes a leaked place a lost service.
Other instances passed too, outside the listed runs: the queue with Groq and four jobs
(1.69 million states), liveness of the queue with three (423,676), safety of the server
with three (4.25 million), and its liveness with two places, two chunks and VibeVoice
(256,585).
Three mishaps allow a failure in the repair of a failure in a renewal. Three
connections with two permits have two in service with different identities and a
third that is refused or takes over a permit; the requests cover each reason for a
local answer and client fields of every class, with and without a `Connection`
header that names them, and the header theorems below cover all others. The
client's timers have the values of the code; one stall of any length is enough for
every race between a keep-alive and the timeout, and two chunks for a gap, a
repetition and a cut between them. In the installation two setups let the second meet
what the first left, its generator included, which outlives a killed setup and races
the second one's; the third script makes a bundle beside them (`HandRoles`), and one
removal takes any set of files away; with one mishap everything may be killed or
fail once at any point. Passed too, outside the listed run: a script by hand in any of
the three roles (1,573,766 states), and three setups with two mishaps and no script by
hand (liveness, 968,018). The states in which a second mishap hits the recovery
from the first are covered by the theorems, not by the run.

`CHECK_DEADLOCK FALSE` is used where the system may come to rest: all jobs of the
instance are over or the server has stopped, the client has exited, or all runs of
setup are used up.

Fairness. The event loop and tokio resume every runnable task (`Worker`,
`StopReturns`, `UpstreamCloses`). Backends answer or run into the time-outs of the
HTTP clients (600 s and 300 s) and of ffmpeg (900 s, then killed), so `Process` is
fair; the cleanup sleep of 30 s ends.

Of clients nothing is assumed while they upload: a client may stop sending at any
moment, and it is the server's own 180 s limit that ends such an upload
(`BodyCutOff`, which is fair because it is a timer). A step of a handler or a stream is
fair only where it does not wait for the client (`WaitsForClient`). While an event is
written it does: nothing in the code limits how slowly a client reads, so a reader that
neither reads nor leaves keeps its stream for ever. `Readers` are the jobs whose clients
read what is sent to them or leave, `RequestEnds` is stated for those, and the
liveness run has one such client beside one that owes nothing. `SlotReleased` and
`QueuedJobFinishes` hold for all jobs, whoever reads: a slow reader holds no place in
the queue once its job has ended.

The service manager restarts a proxy that ends (`Restart=always` in `setup.sh`), and a
script that was started goes on. For `SessionEnds` the client process runs, time
passes, and the service answers, ends the job and streams it, as the liveness
properties of `TranscribeServer` say; the network owes nothing, not even the end of a
stall. For `Installation`, started scripts go on, systemd and docker restart what is
wanted (`Restart=always`, `--restart unless-stopped`), and vLLM loads its model. None
is assumed of the handler of a proxy connection, which waits for its client.

`SetupSucceeds` has preconditions that the code makes necessary. The setup is left
alone; it finds no credentials or ones that belong together, because a partial state is
refused by design; and two kinds of leftover are absent (`Spoiled`), because the code
refuses them until the operator steps in and no document promises more: a directory
whose mkdir was not followed by its chmod (`setup.sh` 291-292,
`generate_client_cert.py` 62-63), and a server key that was opened and not written
(`main.rs` 454). The key is looked at when the proxy has been stopped, since the stop
itself may cut the first write short. All of these states are reached in the run, and
so are setups that fail on them; the property is about the rest: a proxy left running
with an older CA, a path, a directory, an upload or a half-stopped service of an
earlier setup spoils nothing.

## 4. Findings

1. `CancelledIsFinal`: a cancel between the end of the process task and the
   resumption of the worker is overwritten with FAILED.
2. `PositionIsServiceOrder`: positions follow the order of `reserve`, service that
   of `submit`.
3. `StopCompletes`: the worker can mistake the cancellation by `stop` for one by the
   client and survive it; shutdown then hangs.
4. `ExpiryHotReloads`: one failure in a renewal after the certificate was written
   leaves the expired one in use.
5. `SuccessMeansComplete`: a connection that ends between two chunks of the response
   looks to the client like the end of the stream: exit status 0, and a partial file
   under `--output`. A user of the library who waits for `EventType.DONE` is safe
   (`TranscriptFaithful`).

## 5. Theorems

Assumptions are those on the constants only, named in the modules that declare them: the sets
are finite where counting needs it, limits are naturals, and positive where the code
makes them so, special values are not members of the sets. Two are about the client:
its upload has at least one piece (`_multipart_body` always yields the headers and the
closing boundary), and the keep-alive interval is below the socket's timeout (5 s and
10 s in the code, with a second to spare). Every invariant and action property that a run checks, and both
refinements, are proved; each strengthening was checked with TLC before it was proved.

- `TranscriptionQueueProofs`: type correctness, `CapacityBound`, `OneJobInService`,
  `AudioWhileNeeded`, `SentinelClosesStream`, `PendingAgrees`,
  `CleanupCoversTerminal`, `CancelledNeverCompletes`, and the action property
  `TerminalStaysTerminal`. None is inductive alone: that a step of the worker keeps
  them depends on which process task exists (`TaskInv`), on registration
  (`RegInv`), on what a client's cancellation left behind (`CancelInv`,
  `LateInv`), and on cleanup and `_pending`. `Inv` is their conjunction. Capacity
  then follows from the one check in `reserve`, because no other step makes a job
  active (`OnlyReserveActivates`). `OutcomeInv` adds how jobs come to their end.
- The same module, `QueueIsSerialService`: the queue implements `SerialService`. Only
  four things the queue does are steps of the service: a reservation (`Admit`), a
  submission (`Join`, because `_pending` is appended to), the worker taking the first
  job that is still queued (`Serve`: who is first in `_pending` has nobody in front,
  and `OneJobInService` gives that nobody is served), and an end by completion,
  failure or cancellation (`Leave`). All others leave status and order of the waiting
  jobs alone (`QuietStep`); among them are the removal of a cancelled job from
  `_pending`, which was in front of nobody, and the late worker's FAILED.
- `TranscribeServerProofs`: every behaviour of the server is one of the queue, so the
  theorems above carry over; and `ActiveJobHasOwner` and `UploadHasOwner`, by
  `OwnerInv`, which ties the status of a job to the place of its handler.
  `FinalEventHonest` and `ConnectedClientIsTold` need `StreamInv`: while its client is
  there nobody has cancelled the job of a stream, and the queue is stopped only when
  no handler is left. With `OutcomeInv` the sentinel then means completed or failed.
- The same module, `ServerKeepsContract`: for each request every step of the server
  is a step of `StreamContract` or none. A step of the request itself is one of the
  contract's (`ContractOwn`), a step of the queue on its job produces or settles
  (`CountStep`, `CancelSettles`), and a step of anyone else changes nothing the
  contract sees (`ContractElsewhere`). Chunks are counted behind the mapping, so the
  cardinality facts are the largest part.
- `ClientSessionProofs`: `TranscriptFaithful`, `FailureJustified` and `TimeoutJustified` for any number of
  chunks, pieces and stalls. The invariant is about the lines on their way: each
  payload comes right behind the event it belongs to (`Framed`, relative to the
  parser's `current_event`), the chunks continue the text (`InOrder`), and a final
  payload comes behind all of them (`Completes`). These are closed under reading the
  first line, cutting the stream anywhere and appending whole frames, which is what
  client, network and service do. `TimeoutJustified` (theorem `TimeoutsAreJustified`):
  the client gives up on a stream only if the network stalled; `ClockInv` bounds the
  silence of a stream that has not by the keep-alive interval and one second, and
  `SecondStep` shows that no second passes that bound.
- `ServerIdentityProofs`: `OneIdentity`, `PinIsServed`, `ValidPairMatches` for any
  number of kills, failures and renewals. `PlaceInv` says what is on disk at each
  place of the code: the step that opens the key file is harmless only because
  nothing was served yet.
- `ProxyConnectionsProofs`: `PermitsAccounted`, `ForwardedAsOwner` and
  `HeadersEndToEnd` for any number of connections and permits and any set of
  requests and answers. `OpenInService` is the strengthening: the upstream half is
  open only while the handler or the response lives, so identity and request beside
  it cannot change.
- `InstallationProofs`: `OneGenerationOnDisk`, `UploadsAccounted` and `VerdictSound`
  for any number of scripts, setups, kills and removals. `OneGenerationOnDisk` is not
  inductive: that a generator which opens the certificate is the one that made the CA
  needs `OwnInv` (past an open, the file is its own, because `O_EXCL` stopped all
  others) and `PlaceInv`. `UploadsAccounted` needs that the server is down, and not
  wanted by its supervisor, from its stop until the purge, through every step in between, also when setup is
  killed and run again (`UploadInv`). `VerdictSound` needs `TrustInv`: as long as nothing is
  removed, what a running script has read is still on disk, complete and as it was
  read, so its judgement at the end is about the files of that moment.

The chain from the queue to the user's text goes through `StreamContract`: the server is
proved to keep it for each request, and the client is proved right against any service
that keeps it. That the composition of both is the system is an argument about the
models, not a theorem.

Only model-checked: the liveness properties `SlotReleased`, `RequestEnds`,
`QueuedJobFinishes`, `RestartHeals`, `RenewalReloads`,
`UpstreamLearns`, `SessionEnds`, `SetupSucceeds` and `ServerComesBack`, because
fairness is beyond the prover; and the findings, which are counterexamples.

## 6. Plan

Done: queue, backends, route, lifespan, identity, proxy connections, client, socket
and health, client credentials, setup and teardown, the contract between route and
client, and proofs of all safety properties and refinements. Next, in order:

1. action properties of the parts that have invariants only, with their proofs: what a
   step of the proxy's drain, of a renewal or of `setup.sh` may never do;
2. the safety facts behind the liveness properties (what holds while something is
   owed), as invariants with proofs, so that only fairness itself is left to TLC;
3. a failing `unlink` in `discard_audio`, inside `cancel` and inside the worker's
   finally block;
4. the WAV header check (`audio.py`) as a pure operator over chunk layouts, against a
   reference definition.

## 7. Not modelled

- Prompts, payloads, model output and cryptography: a key, a certificate or a text is
  what the properties tell apart of it.
- Estimates of waiting times, which nothing depends on.
- `config.py` and argument parsing: refused before anything is changed.
- Image builds, unit files, environment checks, the deployment example and CI: they
  keep no state of their own.
- An outage of docker or systemd while `setup.sh` runs, expiry of the client's
  certificates, and damaged files other than those a kill leaves behind. `systemctl stop`
  and `docker rm` are taken to end what they name.
- Recovery from the two leftovers that `Spoiled` names: the operator's business.
