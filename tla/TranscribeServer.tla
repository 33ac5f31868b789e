-------------------------- MODULE TranscribeServer --------------------------
(***************************************************************************)
(* POST /v1/transcribe (server/routes/transcribe.py) on top of the queue:  *)
(* one request handler per job reserves a slot, receives and spools the    *)
(* upload, submits the job and streams its chunks as server-sent events,   *)
(* while the client may go away at any moment.  The server stops the queue *)
(* (server/app.py, lifespan) when the HTTP server has seen every handler   *)
(* end.                                                                    *)
(*                                                                         *)
(* A handler is suspended in the multipart parser ("parsing"), in          *)
(* _spool_upload ("spooling"), in form.close() of the finally block, with  *)
(* a response ("closing") or without ("failing"), or in event_stream       *)
(* ("streaming").  A generator whose response task was cancelled while it  *)
(* sent is "abandoned" until the event loop closes it.                     *)
(***************************************************************************)
EXTENDS TranscriptionQueue

\* Definitions named Bug... are faulty variants of the one that follows them.

CONSTANT Readers    \* jobs whose client, while it stays, goes on reading its stream

ASSUME ReadersAssumption == Readers \subseteq Jobs

VARIABLES
    handler,     \* where the handler of the job's request is suspended
    spool,       \* jobs whose upload directory belongs to _spool_upload
    connected,   \* the client has not gone away
    read,        \* items that event_stream has taken from chunk_queue
    final        \* how the request ended for the client

serverVars == <<handler, spool, connected, read, final>>
allVars == <<vars, serverVars>>

Uploading == {"parsing", "spooling", "failing"}
Streaming == {"closing", "streaming", "abandoned"}

ServerTypeOK ==
    /\ TypeOK
    /\ handler \in [Jobs -> {"idle", "ended"} \cup Uploading \cup Streaming]
    /\ spool \in SUBSET Jobs
    /\ connected \in [Jobs -> BOOLEAN]
    /\ read \in [Jobs -> Nat]
    /\ final \in [Jobs -> {"none", "refused", "rejected", "done", "error", "silent", "gone"}]

ServerInit ==
    /\ Init
    /\ handler = [j \in Jobs |-> "idle"]
    /\ spool = {}
    /\ connected = [j \in Jobs |-> TRUE]
    /\ read = [j \in Jobs |-> 0]
    /\ final = [j \in Jobs |-> "none"]

Goto(j, place) == handler' = [handler EXCEPT ![j] = place]
Ends(j, how) == Goto(j, "ended") /\ final' = [final EXCEPT ![j] = how]

\* A call of queue.cancel by a handler; without effect on a finished job.
QueueCancel(j) == IF Registered(j) /\ ~Terminal(j) THEN Cancel(j) ELSE UNCHANGED vars

-----------------------------------------------------------------------------
(* transcribe: reserve, receive, spool, submit.                            *)

RequestAccepted(j) ==
    /\ handler[j] = "idle"
    /\ Reserve(j)
    /\ Goto(j, "parsing")
    /\ UNCHANGED <<spool, connected, read, final>>

\* QueueFull becomes 503, before any of the body is read.
RequestRefused(j) ==
    /\ handler[j] = "idle"
    /\ stopping = "no"
    /\ ActiveCount >= MaxSize
    /\ Ends(j, "refused")
    /\ UNCHANGED <<vars, spool, connected, read>>

BugParseKeepsSlot(j) ==
    /\ handler[j] = "parsing"
    /\ Ends(j, "rejected")
    /\ UNCHANGED <<vars, spool, connected, read>>

\* The parser raises (no multipart or a bad one, full disk, client gone) or is
\* cancelled: there is no form to close and the finally block releases the slot.
ParseFails(j) ==
    /\ handler[j] = "parsing"
    /\ QueueCancel(j)
    /\ Ends(j, "rejected")
    /\ UNCHANGED <<spool, connected, read>>

\* The body is awaited without a limit of time or of size.
BugBodyNeverCutOff(j) == FALSE

\* _limited_request_stream gives up on a body of which nothing came for 180 s, or of
\* which too much came.  All that bounds the time a client takes to send one.
BodyCutOff(j) ==
    /\ handler[j] = "parsing"
    /\ QueueCancel(j)
    /\ Ends(j, "rejected")
    /\ UNCHANGED <<spool, connected, read>>

\* The form is complete but one of its fields, or the metadata of the file, is
\* refused before anything is spooled; the job still holds its slot.
FormRejected(j) ==
    /\ handler[j] = "parsing"
    /\ Goto(j, "failing")
    /\ UNCHANGED <<vars, spool, connected, read, final>>

\* _spool_upload creates the private directory and starts to copy.
SpoolStarts(j) ==
    /\ handler[j] = "parsing"
    /\ spool' = spool \cup {j}
    /\ Goto(j, "spooling")
    /\ UNCHANGED <<vars, connected, read, final>>

\* Too large, empty, or storage exhausted: the directory goes, the job is cancelled.
SpoolFails(j) ==
    /\ handler[j] = "spooling"
    /\ spool' = spool \ {j}
    /\ QueueCancel(j)
    /\ Goto(j, "failing")
    /\ UNCHANGED <<connected, read, final>>

BugSpoolCancelledKeepsFile(j) ==
    /\ handler[j] = "spooling"
    /\ Goto(j, "failing")
    /\ UNCHANGED <<vars, spool, connected, read, final>>

\* CancelledError passes the "except Exception" of _transcribe_authenticated: the
\* directory goes, the job is left to the finally block of transcribe.
SpoolCancelled(j) ==
    /\ handler[j] = "spooling"
    /\ spool' = spool \ {j}
    /\ Goto(j, "failing")
    /\ UNCHANGED <<vars, connected, read, final>>

\* The path is handed to the job, the WAV header is refused, and cancel discards it.
WavRejected(j) ==
    /\ handler[j] = "spooling"
    /\ spool' = spool \ {j}
    /\ QueueCancel(j)
    /\ Goto(j, "failing")
    /\ UNCHANGED <<connected, read, final>>

\* The path is handed to the job and the job is submitted.
WavAccepted(j) ==
    /\ handler[j] = "spooling"
    /\ spool' = spool \ {j}
    /\ Submit(j)
    /\ Goto(j, "closing")
    /\ UNCHANGED <<connected, read, final>>

\* The finally block of transcribe without a response, after form.close().
FailureClosed(j) ==
    /\ handler[j] = "failing"
    /\ QueueCancel(j)
    /\ Ends(j, "rejected")
    /\ UNCHANGED <<spool, connected, read>>

\* With a response: event_stream starts and sends its first event.
StreamStarts(j) ==
    /\ handler[j] = "closing"
    /\ Goto(j, "streaming")
    /\ UNCHANGED <<vars, spool, connected, read, final>>

-----------------------------------------------------------------------------
(* event_stream.                                                           *)

Available(j) == read[j] < Len(chunk_queue[j])
NextItem(j) == chunk_queue[j][read[j] + 1]

StreamChunk(j) ==
    /\ handler[j] = "streaming"
    /\ Available(j)
    /\ NextItem(j) # None
    /\ read' = [read EXCEPT ![j] = @ + 1]
    /\ UNCHANGED <<vars, handler, spool, connected, final>>

BugAlwaysDone(j) == IF status[j] = "cancelled" THEN "silent" ELSE "done"
BugRawStatus(j) == status[j]

\* The event behind the last chunk: none for a cancelled job.
FinalEvent(j) ==
    IF status[j] = "cancelled" THEN "silent"
    ELSE IF status[j] = "failed" \/ error_message[j] # "none" THEN "error"
    ELSE "done"

\* The stream ends as soon as the job has, with chunks still unread.
BugStopsWhenTerminal(j) ==
    /\ handler[j] = "streaming"
    /\ Terminal(j)
    /\ Ends(j, FinalEvent(j))
    /\ UNCHANGED <<vars, spool, connected, read>>

\* The sentinel.
StreamFinishes(j) ==
    /\ handler[j] = "streaming"
    /\ Available(j)
    /\ NextItem(j) = None
    /\ read' = [read EXCEPT ![j] = @ + 1]
    /\ Ends(j, FinalEvent(j))
    /\ UNCHANGED <<vars, spool, connected>>

\* A timeout of the wait for a chunk is taken for a disconnect.
BugTimeoutDisconnects(j) ==
    /\ handler[j] = "streaming"
    /\ QueueCancel(j)
    /\ Ends(j, "gone")
    /\ UNCHANGED <<spool, connected, read>>

\* The client is gone: is_disconnected() says so, or the response task is cancelled
\* while the generator waits for a chunk.  Either way the job is cancelled at once.
StreamDisconnected(j) ==
    /\ handler[j] = "streaming"
    /\ ~connected[j]
    /\ QueueCancel(j)
    /\ Ends(j, "gone")
    /\ UNCHANGED <<spool, connected, read>>

\* The client is gone and the response task is cancelled while it sends: the
\* generator, suspended at a yield, is closed by the event loop later.
StreamAbandoned(j) ==
    /\ handler[j] = "streaming"
    /\ ~connected[j]
    /\ Goto(j, "abandoned")
    /\ UNCHANGED <<vars, spool, connected, read, final>>

\* aclose() of the abandoned generator runs its finally block.
StreamClosed(j) ==
    /\ handler[j] = "abandoned"
    /\ QueueCancel(j)
    /\ Ends(j, "gone")
    /\ UNCHANGED <<spool, connected, read>>

\* The client goes away.  Before the body is complete the parser raises for it, which
\* is a case of ParseFails; after that nothing notices before event_stream runs.
Disconnect(j) ==
    /\ handler[j] \in {"spooling", "closing", "streaming"}
    /\ connected[j]
    /\ connected' = [connected EXCEPT ![j] = FALSE]
    /\ UNCHANGED <<vars, handler, spool, read, final>>

-----------------------------------------------------------------------------
(* lifespan: uvicorn lets every handler end before it runs the shutdown.   *)

ServerStop ==
    /\ \A j \in Jobs : handler[j] \in {"idle", "ended"}
    /\ Stop
    /\ UNCHANGED serverVars

QueueStep ==
    /\ \/ \E j \in Jobs : Process(j) \/ CleanupJob(j)
       \/ Worker
       \/ StopReturns
    /\ UNCHANGED serverVars

Request(j) == RequestAccepted(j) \/ RequestRefused(j)

Upload(j) == \/ ParseFails(j)
             \/ BodyCutOff(j)
             \/ FormRejected(j)
             \/ SpoolStarts(j)
             \/ SpoolFails(j)
             \/ SpoolCancelled(j)
             \/ WavRejected(j)
             \/ WavAccepted(j)
             \/ FailureClosed(j)

Stream(j) == \/ StreamStarts(j)
             \/ StreamChunk(j)
             \/ StreamFinishes(j)
             \/ StreamDisconnected(j)
             \/ StreamAbandoned(j)
             \/ StreamClosed(j)

ServerNext == \/ \E j \in Jobs : Request(j) \/ Upload(j) \/ Stream(j) \/ Disconnect(j)
              \/ QueueStep
              \/ ServerStop

ServerSpec == ServerInit /\ [][ServerNext]_allVars

\* The next step of the handler is the client's to bring about: the rest of a body, or
\* the reading of a stream, for which send() waits without a limit of time unless the
\* client goes away.
WaitsForClient(j) ==
    \/ handler[j] = "parsing"
    \/ handler[j] = "streaming" /\ connected[j] /\ j \notin Readers

\* The event loop resumes every runnable task; backends answer or run into the
\* timeouts of the HTTP client and of ffmpeg; the cleanup sleep ends; a body that does
\* not arrive is cut off.  Clients owe nothing: they may stall in the body, never go
\* away, and, but for Readers, never read what is streamed to them.
ServerFairness ==
    /\ WF_allVars(Worker /\ UNCHANGED serverVars)
    /\ WF_allVars(StopReturns /\ UNCHANGED serverVars)
    /\ \A j \in Jobs :
        /\ WF_allVars(Process(j) /\ UNCHANGED serverVars)
        /\ WF_allVars(CleanupJob(j) /\ UNCHANGED serverVars)
        /\ WF_allVars(BodyCutOff(j))
        /\ WF_allVars(~WaitsForClient(j) /\ (Upload(j) \/ Stream(j)))

FairServerSpec == ServerSpec /\ ServerFairness

-----------------------------------------------------------------------------
(* Safety.                                                                 *)

\* No capacity is leaked: a job that counts against max_size has a handler that is
\* still going to submit or cancel it, or a stream that is going to read or cancel
\* it.  Every early return, exception and cancellation of the route has to see to it.
ActiveJobHasOwner ==
    \A j \in ActiveJobs :
        handler[j] \in IF status[j] = "uploading" THEN Uploading ELSE Streaming

\* No audio is retained: every spooled upload, owned by _spool_upload or by the job,
\* belongs to a request that is still being handled.
UploadHasOwner ==
    \A j \in Jobs : j \in spool \/ audio_path[j] => handler[j] \in Uploading \cup Streaming

\* "done" is sent only for a completed job all of whose chunks were sent before, and
\* with VibeVoice at least one; "error" only for a failed one.
FinalEventHonest ==
    \A j \in Jobs :
        /\ final[j] = "done" => /\ status[j] = "completed"
                                /\ read[j] = Len(chunk_queue[j])
                                /\ Backend = "vibevoice" => read[j] > 1
        /\ final[j] = "error" => status[j] = "failed" /\ read[j] = Len(chunk_queue[j])

\* A client that stays is told how its request ended: the stream of a client that is
\* still connected never just stops.
ConnectedClientIsTold ==
    \A j \in Jobs : final[j] \in {"silent", "gone"} => ~connected[j]

-----------------------------------------------------------------------------
(* What a client may rely on.                                              *)

Produced(j) == Cardinality({i \in 1..Len(chunk_queue[j]) : chunk_queue[j][i] # None})
Outcome(j) == IF Terminal(j) THEN status[j] ELSE "none"
Sent(j) == Cardinality({i \in 1..read[j] : chunk_queue[j][i] # None})
Answer(j) == IF handler[j] \in {"streaming", "abandoned"} THEN "streaming"
             ELSE IF final[j] \in {"refused", "rejected"} THEN "refused"
             ELSE IF final[j] \in {"silent", "gone"} THEN "dropped"
             ELSE final[j]

Contract(j) == INSTANCE StreamContract WITH
    produced <- Produced(j), outcome <- Outcome(j), sent <- Sent(j), answer <- Answer(j),
    present <- connected[j]

\* The route keeps its promise to the client of every request: each step of queue,
\* worker, handler and stream is, for each request, a step of StreamContract or none.
\* In particular no chunk is lost, repeated or sent late, and a stream of a client
\* that is still there ends only in a true final event.
ImplementsContract ==
    /\ \A j \in Jobs : Contract(j)!Init
    /\ [][\A j \in Jobs : [Contract(j)!Next]_(Contract(j)!contractVars)]_allVars

-----------------------------------------------------------------------------
(* Liveness.                                                               *)

\* Every admitted request gives its slot back, whatever the client, the backend and
\* the requests before it do: also when its client stalls in the body, for which the
\* 180 s limit of _limited_request_stream is needed, or does not read its stream.
SlotReleased == \A j \in Jobs : j \in ActiveJobs ~> j \notin ActiveJobs

\* Every accepted request of a client that goes on reading its stream (or goes away)
\* comes to an end, whatever the other clients do.  The condition is needed: the code
\* sets no limit to the time that send() waits for a client that does not read.
RequestEnds == \A j \in Readers : handler[j] = "parsing" ~> handler[j] = "ended"
=============================================================================
