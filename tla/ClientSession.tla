---------------------------- MODULE ClientSession ----------------------------
(***************************************************************************)
(* One run of the command line client (client/cli.py, client/client.py)    *)
(* against the service: connect with a pinned key, upload, then parse the  *)
(* event stream line by line.  The service is any one that keeps           *)
(* StreamContract, which TranscribeServer is shown to do.  Between the two *)
(* lies the connection through the proxy, which may stall, and break with  *)
(* or without losing the lines on their way.                               *)
(*                                                                         *)
(* Time passes in seconds while the client is blocked in recv: event_stream*)
(* wakes up every second and sends a keep-alive when it has been silent    *)
(* for KeepAlive of them, the client's socket gives up after SocketTimeout.*)
(***************************************************************************)
EXTENDS StreamContract, Sequences

CONSTANTS
    MaxChunks,       \* bound of the model: chunks the job produces
    BodyPieces,      \* pieces that _multipart_body yields
    KeepAlive,       \* _SSE_KEEPALIVE_SECONDS, 5 in the code
    SocketTimeout,   \* timeout of the client's connection, 10 in the code
    MaxStalls        \* bound of the model: how often the network stalls

\* _multipart_body always yields the part headers and the closing boundary; a wait of
\* one second more than KeepAlive is within the client's timeout.
ASSUME ClientConstants ==
    /\ {MaxChunks, BodyPieces, KeepAlive, SocketTimeout, MaxStalls} \subseteq Nat
    /\ BodyPieces > 0
    /\ KeepAlive + 1 < SocketTimeout

VARIABLES
    command,         \* "transcribe" or "status"
    place,           \* where the client is
    exit,            \* why it ended: "ok" is exit code 0, all others 1
    uploaded,        \* pieces of the body sent
    wire,            \* lines sent by the service and not yet read
    tail,            \* what is behind them: more to come ("open"), the last
                     \* chunk of the encoding ("final"), or the end of a
                     \* connection that broke
    current_event,   \* of the parser
    output,          \* the text printed and written to --output
    told,            \* the client has seen the DONE event
    quiet,           \* seconds since the client last received something
    silent,          \* seconds since event_stream last sent something
    stalled,         \* the network delivers nothing at the moment
    stalls           \* how often it has stalled

clientVars == <<command, place, exit, uploaded, current_event, output, told>>
wireVars == <<wire, tail, stalled, stalls>>
clockVars == <<quiet, silent>>
sessionVars == <<contractVars, clientVars, wireVars, clockVars>>

Breaks == {"boundary", "inside", "reset"}
Exits == {"none", "ok", "startup", "pin", "network", "slow", "timeout", "http", "error", "crash"}
Kinds == {"queue", "data", "error", "done"}
Lines == [kind : {"head"}, val : {"200", "error"}]
         \cup [kind : {"event"}, val : Kinds]
         \cup [kind : {"data"}, val : Kinds, chunk : Nat]
         \cup [kind : {"other"}]

ClientTypeOK ==
    /\ command \in {"transcribe", "status"}
    /\ place \in {"start", "connecting", "sending", "response", "reading", "exited"}
    /\ exit \in Exits
    /\ uploaded \in 0..BodyPieces
    /\ wire \in Seq(Lines)
    /\ tail \in {"open", "final"} \cup Breaks
    /\ current_event \in Kinds
    /\ output \in Seq(1..MaxChunks)
    /\ told \in BOOLEAN
    /\ quiet \in 0..SocketTimeout
    /\ silent \in 0..KeepAlive
    /\ stalled \in BOOLEAN
    /\ stalls \in 0..MaxStalls

ClientInit ==
    /\ Init
    /\ command \in {"transcribe", "status"}
    /\ place = "start"
    /\ exit = "none"
    /\ uploaded = 0
    /\ wire = <<>>
    /\ tail = "open"
    /\ current_event = "data"
    /\ output = <<>>
    /\ told = FALSE
    /\ quiet = 0
    /\ silent = 0
    /\ stalled = FALSE
    /\ stalls = 0

\* Definitions named Bug... are faulty variants of the one that follows them.

\* The process ends; the finally blocks close the output and the connection.
Exits1(why) ==
    /\ place' = "exited"
    /\ exit' = why
    /\ present' = FALSE
    /\ UNCHANGED <<produced, outcome, sent, answer>>

-----------------------------------------------------------------------------
(* The client, up to the response.                                         *)

\* Arguments, files, URL, pin and credentials are in order; --output is opened,
\* which truncates it.
Start ==
    /\ place = "start"
    /\ place' = "connecting"
    /\ UNCHANGED <<contractVars, command, exit, uploaded, current_event, output, told,
                   wireVars, clockVars>>

StartFails ==
    /\ place = "start"
    /\ Exits1("startup")
    /\ UNCHANGED <<command, uploaded, current_event, output, told, wireVars, clockVars>>

\* connect: TLS is up and the peer's key has the expected pin.
Connected ==
    /\ place = "connecting"
    /\ place' = IF command = "status" THEN "response" ELSE "sending"
    /\ UNCHANGED <<contractVars, command, exit, uploaded, current_event, output, told,
                   wireVars, clockVars>>

\* No connection, no handshake, or the peer has another key: nothing was sent.
ConnectFails ==
    /\ place = "connecting"
    /\ Exits1("network") \/ Exits1("pin")
    /\ UNCHANGED <<command, uploaded, current_event, output, told, wireVars, clockVars>>

BugSendsPastEnd ==
    /\ place = "sending"
    /\ ~stalled
    /\ tail = "open"
    /\ uploaded' = uploaded + 1
    /\ place' = IF uploaded = BodyPieces THEN "response" ELSE "sending"
    /\ UNCHANGED <<contractVars, command, exit, current_event, output, told, wireVars,
                   clockVars>>

\* request: the next piece of the body goes out as a chunk.
SendPiece ==
    /\ place = "sending"
    /\ ~stalled
    /\ tail = "open"
    /\ uploaded' = uploaded + 1
    /\ place' = IF uploaded + 1 = BodyPieces THEN "response" ELSE "sending"
    /\ UNCHANGED <<contractVars, command, exit, current_event, output, told, wireVars,
                   clockVars>>

\* A broken pipe, which is also how an early refusal may show: the answer that
\* is on its way is then never read.
SendFails ==
    /\ place = "sending"
    /\ tail # "open" \/ answer = "refused"
    /\ Exits1("network")
    /\ UNCHANGED <<command, uploaded, current_event, output, told, wireVars, clockVars>>

SendTimesOut ==
    /\ place = "sending"
    /\ stalled
    /\ Exits1("slow")
    /\ UNCHANGED <<command, uploaded, current_event, output, told, wireVars, clockVars>>

\* queue_status: the whole body is read, or the read fails.
StatusAnswered ==
    /\ command = "status"
    /\ place = "response"
    /\ \E why \in {"ok", "http", "network", "slow"} : Exits1(why)
    /\ UNCHANGED <<command, uploaded, current_event, output, told, wireVars, clockVars>>

-----------------------------------------------------------------------------
(* The client, reading.                                                    *)

\* The payload has the fields that the branch of current_event takes from it; a
\* queue payload also has the job_id of a done one.
Fits(payload) ==
    current_event = payload \/ (current_event = "done" /\ payload = "queue")

BugEventKept(l) ==
    CASE l.kind = "event" -> /\ current_event' = l.val
                             /\ UNCHANGED <<contractVars, place, exit, output, told>>
      [] l.kind = "data" /\ ~Fits(l.val) -> /\ Exits1("crash")
                                            /\ UNCHANGED <<current_event, output, told>>
      [] l.kind = "data" /\ Fits(l.val) ->
            /\ output' = IF current_event = "data" THEN Append(output, l.chunk) ELSE output
            /\ told' = (told \/ current_event = "done")
            /\ IF current_event = "error" THEN Exits1("error")
               ELSE UNCHANGED <<contractVars, place, exit>>
            /\ UNCHANGED current_event
      [] OTHER -> UNCHANGED <<contractVars, place, exit, current_event, output, told>>

\* One line of the stream, through the parser of transcribe() and the loop of
\* _transcribe.  An event line sets current_event; a data line yields the event, or
\* raises KeyError, and resets it; comments, blank lines and payloads that are not
\* JSON objects are skipped.
Feed(l) ==
    CASE l.kind = "event" -> /\ current_event' = l.val
                             /\ UNCHANGED <<contractVars, place, exit, output, told>>
      [] l.kind = "data" /\ ~Fits(l.val) -> /\ Exits1("crash")
                                            /\ UNCHANGED <<current_event, output, told>>
      [] l.kind = "data" /\ Fits(l.val) ->
            /\ output' = IF current_event = "data" THEN Append(output, l.chunk) ELSE output
            /\ told' = (told \/ current_event = "done")
            /\ IF current_event = "error" THEN Exits1("error")
               ELSE UNCHANGED <<contractVars, place, exit>>
            /\ current_event' = "data"
      [] OTHER -> UNCHANGED <<contractVars, place, exit, current_event, output, told>>

\* getresponse: the stream is read only after a 200.
ReadHead(l) ==
    /\ IF l.val = "200" THEN place' = "reading" /\ UNCHANGED <<contractVars, exit>>
       ELSE Exits1("http")
    /\ UNCHANGED <<current_event, output, told>>

ReadLine ==
    /\ place \in {"response", "reading"}
    /\ ~stalled
    /\ wire # <<>>
    /\ IF place = "response" THEN ReadHead(Head(wire)) ELSE Feed(Head(wire))
    /\ wire' = Tail(wire)
    /\ quiet' = 0
    /\ UNCHANGED <<command, uploaded, tail, stalled, stalls, silent>>

BugEndIsDone ==
    /\ place = "reading"
    /\ ~stalled
    /\ wire = <<>>
    /\ tail # "open"
    /\ Exits1("ok")
    /\ told' = TRUE
    /\ UNCHANGED <<command, uploaded, current_event, output, wireVars, clockVars>>

\* The end of the stream.  readline() of http.client returns the empty line for the
\* last chunk, and also for a connection that ends between two chunks; it raises
\* when the connection ends inside a chunk or is reset.
ReadEnd ==
    /\ place = "reading"
    /\ ~stalled
    /\ wire = <<>>
    /\ tail # "open"
    /\ Exits1(IF tail \in {"final", "boundary"} THEN "ok" ELSE "network")
    /\ UNCHANGED <<command, uploaded, current_event, output, told, wireVars, clockVars>>

\* The connection ends before the status line.
NoResponse ==
    /\ command = "transcribe"
    /\ place = "response"
    /\ ~stalled
    /\ wire = <<>>
    /\ tail # "open"
    /\ Exits1("network")
    /\ UNCHANGED <<command, uploaded, current_event, output, told, wireVars, clockVars>>

BugNoTimeout == FALSE /\ UNCHANGED sessionVars

\* recv has waited for SocketTimeout.
TimesOut ==
    /\ command = "transcribe"
    /\ place \in {"response", "reading"}
    /\ quiet >= SocketTimeout
    /\ Exits1(IF place = "reading" THEN "timeout" ELSE "slow")
    /\ UNCHANGED <<command, uploaded, current_event, output, told, wireVars, clockVars>>

-----------------------------------------------------------------------------
(* The service, as far as StreamContract lets it.                          *)

Other == [kind |-> "other"]
Frame(event, chunk) ==
    (IF event = "data" THEN <<>> ELSE <<[kind |-> "event", val |-> event]>>)
    \o <<[kind |-> "data", val |-> event, chunk |-> chunk]>>
Comment == <<Other>>
Status(code) == [kind |-> "head", val |-> code]

\* Nothing reaches a client that has closed, or that the connection has lost.
Emit(lines, end) ==
    IF present /\ tail = "open" THEN wire' = wire \o lines /\ tail' = end
    ELSE UNCHANGED <<wire, tail>>

\* What the service does after the client has ended is TranscribeServer's business.
Requested == command = "transcribe" /\ place \in {"sending", "response", "reading"}

\* From the first byte of the request on: queue full, bad or stalled body, no room.
ServiceRefuses ==
    /\ Requested
    /\ Refuse
    /\ Emit(<<Status("error")>>, "final")
    /\ UNCHANGED <<clientVars, stalled, stalls, clockVars>>

\* After the whole body: the queue position, or a comment.
ServiceAccepts ==
    /\ Requested
    /\ uploaded = BodyPieces
    /\ Accept
    /\ \E first \in {Frame("queue", 0), Comment} : Emit(<<Status("200")>> \o first, "open")
    /\ silent' = 0
    /\ UNCHANGED <<clientVars, stalled, stalls, quiet>>

JobProceeds ==
    /\ Requested
    /\ uploaded = BodyPieces
    /\ (Produce /\ produced < MaxChunks) \/ Settle
    /\ UNCHANGED <<clientVars, wireVars, clockVars>>

ServiceSends ==
    /\ Requested
    /\ Send
    /\ Emit(Frame("data", sent + 1), "open")
    /\ silent' = 0
    /\ UNCHANGED <<clientVars, stalled, stalls, quiet>>

ServiceFinishes ==
    /\ Requested
    /\ Finish
    /\ Emit(Frame(answer', 0), "final")
    /\ UNCHANGED <<clientVars, stalled, stalls, clockVars>>

ServiceDrops ==
    /\ Requested
    /\ Drop
    /\ UNCHANGED <<clientVars, wireVars, clockVars>>

-----------------------------------------------------------------------------
(* Network and time.                                                       *)

\* The connection breaks, because of the network, of a proxy that is shut down or
\* killed, or of a server that is.  Lines on their way may be lost; a line that arrives
\* in part is never parsed, because readline() raises.  The service takes the client for gone.
Break ==
    /\ Requested
    /\ tail \in {"open", "final"}
    /\ tail' \in Breaks
    /\ \E k \in 0..Len(wire) :
        /\ wire' = SubSeq(wire, 1, k)
        /\ tail' = "boundary" /\ k > 0 => wire[k].kind # "event"
    /\ present' = FALSE
    /\ UNCHANGED <<produced, outcome, sent, answer, clientVars, stalled, stalls, clockVars>>

Stall ==
    /\ command = "transcribe"
    /\ place \in {"sending", "response", "reading"}
    /\ ~stalled
    /\ stalls < MaxStalls
    /\ stalled' = TRUE
    /\ stalls' = stalls + 1
    /\ UNCHANGED <<contractVars, clientVars, wire, tail, clockVars>>

Unstall ==
    /\ stalled
    /\ place # "exited"
    /\ stalled' = FALSE
    /\ UNCHANGED <<contractVars, clientVars, wire, tail, stalls, clockVars>>

\* event_stream has nothing to send and waits in chunk_queue.get().
Waiting ==
    /\ answer = "streaming"
    /\ sent = produced
    /\ outcome \notin {"completed", "failed"}

BugNoKeepAlive ==
    /\ silent' = IF Waiting /\ silent < KeepAlive THEN silent + 1 ELSE silent
    /\ UNCHANGED <<wire, tail>>

\* The wait of event_stream times out after a second: it sends a keep-alive if it has
\* been silent for KeepAlive, and waits again.  The clock may show just less than that
\* at the wake-up that should be the one, so that the next one is.
WakesUp ==
    \/ /\ Waiting
       /\ silent + 1 >= KeepAlive
       /\ Emit(Comment, "open")
       /\ silent' = 0
    \/ /\ Waiting => silent < KeepAlive
       /\ silent' = IF Waiting THEN silent + 1 ELSE silent
       /\ UNCHANGED <<wire, tail>>

\* A second passes in which the client receives nothing, because the network delivers
\* nothing or because there is nothing: event_stream sends at once what it has.
Second ==
    /\ command = "transcribe"
    /\ place \in {"response", "reading"}
    /\ quiet < SocketTimeout
    /\ \/ stalled
       \/ wire = <<>> /\ tail = "open" /\ (answer = "streaming" => Waiting)
    /\ quiet' = quiet + 1
    /\ WakesUp
    /\ UNCHANGED <<contractVars, clientVars, stalled, stalls>>

-----------------------------------------------------------------------------
Client == \/ Start \/ StartFails \/ Connected \/ ConnectFails
          \/ SendPiece \/ SendFails \/ SendTimesOut \/ StatusAnswered
          \/ ReadLine \/ ReadEnd \/ NoResponse \/ TimesOut

Service == \/ ServiceRefuses \/ ServiceAccepts \/ JobProceeds \/ ServiceSends
           \/ ServiceFinishes \/ ServiceDrops

ClientNext == Client \/ Service \/ Break \/ Stall \/ Unstall \/ Second

ClientSpec == ClientInit /\ [][ClientNext]_sessionVars

\* The client process runs, time passes, and the service does what the liveness
\* properties of TranscribeServer say: it answers, ends the job and streams it.
SessionFairness ==
    /\ WF_sessionVars(Client)
    /\ WF_sessionVars(Second)
    /\ WF_sessionVars(ServiceRefuses \/ ServiceAccepts)
    /\ WF_sessionVars(JobProceeds /\ outcome' # outcome)
    /\ WF_sessionVars(ServiceSends \/ ServiceFinishes)

FairClientSpec == ClientSpec /\ SessionFairness

-----------------------------------------------------------------------------
(* Safety.                                                                 *)

\* The text that the user has is always the beginning of the transcript, without gap
\* or repetition, and all of it once DONE was seen, which only a completed job brings
\* about: neither the parser nor a break of the connection, between any two lines or
\* inside one, can make partial text look complete to a reader of DONE.
TranscriptFaithful ==
    /\ output = [i \in 1..Len(output) |-> i]
    /\ Len(output) <= sent
    /\ told => outcome = "completed" /\ Len(output) = produced

\* A failing client has a reason to fail: ERROR only for a job that failed after its
\* last chunk, and an HTTP error only for a refused request.  No stream of the service
\* makes the parser raise.
FailureJustified ==
    command = "transcribe" =>
        /\ exit # "crash"
        /\ exit = "error" => outcome = "failed" /\ Len(output) = produced
        /\ exit = "http" => answer = "refused"

\* The client gives up on a stream only when the network stalled: however long the job
\* waits and runs, event_stream's keep-alives come before the socket's timeout.
TimeoutJustified == command = "transcribe" /\ exit = "timeout" => stalls > 0

\* Not true of the code: exit code 0 means that the transcript is complete.
SuccessMeansComplete == command = "transcribe" /\ exit = "ok" => told

-----------------------------------------------------------------------------
(* Liveness.                                                               *)

\* The client ends, as long as the service ends the job and streams it, which are
\* properties of TranscribeServer.  The network owes nothing: it may stall or break at
\* any place, and for a stall that lasts there is the socket's timeout.
SessionEnds == place # "start" ~> place = "exited"
=============================================================================
