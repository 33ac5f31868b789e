----------------------- MODULE TranscribeServerProofs -----------------------
(***************************************************************************)
(* Theorems about TranscribeServer: it uses the queue only as the queue    *)
(* expects, so the theorems about the queue hold in it, and no request     *)
(* leaves a slot or an upload behind.                                      *)
(***************************************************************************)
EXTENDS TranscribeServer, TranscriptionQueueProofs

\* Every step of the server is a step of the queue or leaves the queue alone.
LEMMA ServerStep == [ServerNext]_allVars => [Next]_vars
<1> SUFFICES ASSUME [ServerNext]_allVars PROVE [Next]_vars
  OBVIOUS
<1>1. ASSUME NEW j \in Jobs, QueueCancel(j) PROVE [Next]_vars
  BY <1>1 DEF QueueCancel, Next, Caller
<1>2. ASSUME NEW j \in Jobs, Request(j) PROVE [Next]_vars
  BY <1>2 DEF Request, RequestAccepted, RequestRefused, Next, Caller
<1>3. ASSUME NEW j \in Jobs, Upload(j) PROVE [Next]_vars
  BY <1>1, <1>3 DEF Upload, ParseFails, BodyCutOff, FormRejected, SpoolStarts, SpoolFails,
     SpoolCancelled,
                    WavRejected, WavAccepted, FailureClosed, Next, Caller
<1>4. ASSUME NEW j \in Jobs, Stream(j) PROVE [Next]_vars
  BY <1>1, <1>4 DEF Stream, StreamStarts, StreamChunk, StreamFinishes, StreamDisconnected,
                    StreamAbandoned, StreamClosed
<1>5. ASSUME NEW j \in Jobs, Disconnect(j) PROVE [Next]_vars
  BY <1>5 DEF Disconnect
<1>6. CASE QueueStep
  BY <1>6 DEF QueueStep, Next
<1>7. CASE ServerStop
  BY <1>7 DEF ServerStop, Next
<1>8. CASE UNCHANGED allVars
  BY <1>8 DEF allVars
<1> QED
  BY <1>2, <1>3, <1>4, <1>5, <1>6, <1>7, <1>8 DEF ServerNext

\* The server with its handlers implements the open specification of the queue.
THEOREM ServerImplementsQueue == ServerSpec => Spec
<1>1. ServerInit => Init
  BY DEF ServerInit
<1> QED
  BY <1>1, ServerStep, PTL DEF ServerSpec, Spec

\* The bound on active jobs holds in the server.
THEOREM ServerCapacity == ServerSpec => []CapacityBound
  BY ServerImplementsQueue, CapacityHolds, PTL

-----------------------------------------------------------------------------
(* Ownership.                                                              *)

\* Where the handler of a job can be, from the status of the job; and the handler that
\* still owns an upload directory is in _spool_upload.
OwnerInv ==
    /\ handler \in [Jobs -> {"idle", "ended"} \cup Uploading \cup Streaming]
    /\ \A j \in Jobs :
        /\ status[j] = "uploading" => handler[j] \in Uploading
        /\ status[j] \in {"queued", "processing", "streaming"} => handler[j] \in Streaming
        /\ j \in spool => handler[j] = "spooling"

\* A call of cancel leaves the job in no active state and the other jobs as they are.
LEMMA CancelFacts ==
    ASSUME Inv, NEW j \in Jobs, QueueCancel(j)
    PROVE  /\ status'[j] \notin ActiveStates
           /\ \A k \in Jobs : k # j => status'[k] = status[k]
<1>1. CASE Registered(j) /\ ~Terminal(j)
  BY <1>1 DEF QueueCancel, Cancel, Inv, TypeOK, ActiveStates
<1>2. CASE ~(Registered(j) /\ ~Terminal(j))
  BY <1>2 DEF QueueCancel, vars, jobVars, Inv, RegInv, Terminal, TerminalStates, ActiveStates
<1> QED
  BY <1>1, <1>2

\* A step of the queue moves a job only between submitted states or to its end.
LEMMA QueueStepFacts ==
    ASSUME Inv, QueueStep \/ ServerStop, NEW k \in Jobs
    PROVE  /\ status'[k] = "uploading" => status[k] = "uploading"
           /\ status'[k] \in {"queued", "processing", "streaming"} =>
                 status[k] \in {"queued", "processing", "streaming"}
<1> DEFINE Goal == /\ status'[k] = "uploading" => status[k] = "uploading"
                   /\ status'[k] \in {"queued", "processing", "streaming"} =>
                         status[k] \in {"queued", "processing", "streaming"}
<1> USE DEF Inv, TypeOK, jobVars, queueVars, controlVars
<1>1. ASSUME NEW j \in Jobs, Process(j) PROVE Goal
  BY <1>1 DEF Process, ProcessStart, ProcessChunk, ProcessReturn, ProcessRaise,
              ProcessCancelled, TaskInv
<1>2. ASSUME NEW j \in Jobs, CleanupJob(j) PROVE Goal
  BY <1>2 DEF CleanupJob
<1>3. ASSUME WorkerSkip PROVE Goal
  BY <1>3 DEF WorkerSkip
<1>4. ASSUME WorkerTake PROVE Goal
  BY <1>4 DEF WorkerTake, StartHead, PendInv, PendingAgrees
<1>5. ASSUME NEW j \in Jobs, WorkerReturned(j) \/ WorkerRaised(j) \/ WorkerCancelled(j)
      PROVE  Goal
  BY <1>5 DEF WorkerReturned, WorkerRaised, WorkerCancelled, Finish
<1>6. ASSUME Stop PROVE Goal
  BY <1>6 DEF Stop
<1>7. ASSUME StopReturns PROVE Goal
  BY <1>7 DEF StopReturns
<1> HIDE DEF Inv, TypeOK, Goal
<1>8. Goal
  BY <1>1, <1>2, <1>3, <1>4, <1>5, <1>6, <1>7 DEF QueueStep, ServerStop, Worker
<1> QED
  BY <1>8 DEF Goal

\* The sentinel that ends a stream is read only when the job is terminal.
LEMMA SentinelMeansTerminal ==
    ASSUME Inv, NEW j \in Jobs, read \in [Jobs -> Nat], Available(j), NextItem(j) = None
    PROVE  status[j] \notin ActiveStates
<1>1. read[j] + 1 \in DOMAIN chunk_queue[j]
  BY DEF Inv, TypeOK, Available
<1>2. Terminal(j)
  BY <1>1 DEF Inv, SentinelClosesStream, NextItem
<1> QED
  BY <1>2 DEF Terminal, TerminalStates, ActiveStates

\* Ownership is kept by every step.
LEMMA OwnerStep ==
    ASSUME Inv, OwnerInv, read \in [Jobs -> Nat], [ServerNext]_allVars
    PROVE  OwnerInv'
<1> USE DEF OwnerInv, Goto, Ends, Uploading, Streaming
<1>1. ASSUME NEW j \in Jobs, RequestAccepted(j) PROVE OwnerInv'
  BY <1>1 DEF RequestAccepted, Reserve, Inv, TypeOK
<1>2. ASSUME NEW j \in Jobs, RequestRefused(j) PROVE OwnerInv'
  BY <1>2 DEF RequestRefused, vars, jobVars
<1>3. ASSUME NEW j \in Jobs,
             ParseFails(j) \/ BodyCutOff(j) \/ FailureClosed(j) \/ StreamDisconnected(j)
             \/ StreamClosed(j)
      PROVE  OwnerInv'
  BY <1>3, CancelFacts DEF ParseFails, BodyCutOff, FailureClosed, StreamDisconnected, StreamClosed,
                           ActiveStates
<1>4. ASSUME NEW j \in Jobs, FormRejected(j) PROVE OwnerInv'
  BY <1>4 DEF FormRejected, vars, jobVars
<1>5. ASSUME NEW j \in Jobs, SpoolStarts(j) PROVE OwnerInv'
  BY <1>5 DEF SpoolStarts, vars, jobVars
<1>6. ASSUME NEW j \in Jobs, SpoolFails(j) \/ WavRejected(j) PROVE OwnerInv'
  BY <1>6, CancelFacts DEF SpoolFails, WavRejected, ActiveStates
<1>7. ASSUME NEW j \in Jobs, SpoolCancelled(j) PROVE OwnerInv'
  BY <1>7 DEF SpoolCancelled, vars, jobVars
<1>8. ASSUME NEW j \in Jobs, WavAccepted(j) PROVE OwnerInv'
  BY <1>8 DEF WavAccepted, Submit, PutPending, Inv, TypeOK
<1>9. ASSUME NEW j \in Jobs, StreamStarts(j) \/ StreamAbandoned(j) PROVE OwnerInv'
  BY <1>9 DEF StreamStarts, StreamAbandoned, vars, jobVars
<1>10. ASSUME NEW j \in Jobs, StreamChunk(j) \/ Disconnect(j) PROVE OwnerInv'
  BY <1>10 DEF StreamChunk, Disconnect, vars, jobVars
<1>11. ASSUME NEW j \in Jobs, StreamFinishes(j) PROVE OwnerInv'
  <2>1. status[j] \notin ActiveStates
    BY <1>11, SentinelMeansTerminal DEF StreamFinishes
  <2> QED
    BY <1>11, <2>1 DEF StreamFinishes, vars, jobVars, ActiveStates
<1>12. CASE QueueStep \/ ServerStop
  <2>1. UNCHANGED <<handler, spool>>
    BY <1>12 DEF QueueStep, ServerStop, serverVars
  <2> QED
    BY <1>12, <2>1, QueueStepFacts
<1>13. CASE UNCHANGED allVars
  BY <1>13 DEF allVars, vars, jobVars, serverVars
<1> QED
  BY <1>1, <1>2, <1>3, <1>4, <1>5, <1>6, <1>7, <1>8, <1>9, <1>10, <1>11, <1>12, <1>13
     DEF ServerNext, Request, Upload, Stream

\* The reader's index is a number.
ReadType == read \in [Jobs -> Nat]

\* It stays one.
LEMMA ReadStep == ReadType /\ [ServerNext]_allVars => ReadType'
<1> SUFFICES ASSUME read \in [Jobs -> Nat], [ServerNext]_allVars PROVE read' \in [Jobs -> Nat]
  BY DEF ReadType
<1>1. ASSUME NEW j \in Jobs, StreamChunk(j) \/ StreamFinishes(j) PROVE read' \in [Jobs -> Nat]
  BY <1>1 DEF StreamChunk, StreamFinishes
<1> QED
  BY <1>1 DEF ServerNext, Request, RequestAccepted, RequestRefused, Upload, ParseFails, BodyCutOff,
     FormRejected, SpoolStarts, SpoolFails, SpoolCancelled, WavRejected, WavAccepted,
     FailureClosed, Stream, StreamStarts, StreamDisconnected, StreamAbandoned, StreamClosed,
     Disconnect, QueueStep, ServerStop, serverVars, allVars

\* Ownership holds throughout.
THEOREM OwnershipInvariant == ServerSpec => [](Inv /\ OwnerInv)
<1>1. ServerInit => OwnerInv /\ ReadType
  BY DEF ServerInit, Init, OwnerInv, ReadType
<1>2. ServerSpec => []Inv
  BY ServerImplementsQueue, Invariance, PTL
<1>3. Inv /\ OwnerInv /\ ReadType /\ [ServerNext]_allVars => OwnerInv' /\ ReadType'
  BY OwnerStep, ReadStep DEF ReadType
<1> QED
  BY <1>1, <1>2, <1>3, PTL DEF ServerSpec

\* No capacity leaks: each job that counts against max_size has a handler or a stream
\* that will still end it.
THEOREM NoSlotLeaks == ServerSpec => []ActiveJobHasOwner
<1>1. Inv /\ OwnerInv => ActiveJobHasOwner
  BY DEF OwnerInv, ActiveJobHasOwner, ActiveJobs, ActiveStates
<1> QED
  BY <1>1, OwnershipInvariant, PTL

\* No upload outlives its request.
THEOREM NoUploadLeaks == ServerSpec => []UploadHasOwner
<1>1. Inv /\ OwnerInv => UploadHasOwner
  BY DEF Inv, OwnerInv, UploadHasOwner, AudioWhileNeeded, Uploading
<1> QED
  BY <1>1, OwnershipInvariant, PTL

-----------------------------------------------------------------------------
(* What the client is told.                                                *)

ServerVarsType ==
    /\ handler \in [Jobs -> {"idle", "ended"} \cup Uploading \cup Streaming]
    /\ spool \in SUBSET Jobs
    /\ connected \in [Jobs -> BOOLEAN]
    /\ read \in [Jobs -> Nat]
    /\ final \in [Jobs -> {"none", "refused", "rejected", "done", "error", "silent", "gone"}]

\* Why a stream that stops has a reason: the queue is stopped only when no handler is
\* left; event_stream is never ahead of the queue; the answer is given when the handler
\* ends; and while its client is there nobody has cancelled the job of a stream.
StreamKept(j) ==
    /\ stopping # "no" => handler[j] \in {"idle", "ended"}
    /\ read[j] <= Len(chunk_queue[j])
    /\ final[j] = "none" <=> handler[j] # "ended"
    /\ handler[j] = "abandoned" => ~connected[j]
    /\ handler[j] \in Streaming /\ connected[j] =>
          ~cancel_requested[j] /\ status[j] # "cancelled"

StreamInv == \A j \in Jobs : StreamKept(j)

\* The steps that a request takes itself.
OwnStep(k) == Request(k) \/ Upload(k) \/ Stream(k) \/ Disconnect(k)

\* The variables of the server keep their types.
LEMMA ServerVarsStep == ServerVarsType /\ [ServerNext]_allVars => ServerVarsType'
<1> SUFFICES ASSUME ServerVarsType, [ServerNext]_allVars PROVE ServerVarsType'
  OBVIOUS
<1> USE DEF ServerVarsType, Goto, Ends, Uploading, Streaming
<1>1. ASSUME NEW j \in Jobs, Request(j) PROVE ServerVarsType'
  BY <1>1 DEF Request, RequestAccepted, RequestRefused
<1>2. ASSUME NEW j \in Jobs, ParseFails(j) \/ BodyCutOff(j) \/ FormRejected(j)
             \/ SpoolStarts(j) \/ SpoolFails(j)
      PROVE  ServerVarsType'
  BY <1>2 DEF ParseFails, BodyCutOff, FormRejected, SpoolStarts, SpoolFails
<1>3. ASSUME NEW j \in Jobs,
             SpoolCancelled(j) \/ WavRejected(j) \/ WavAccepted(j) \/ FailureClosed(j)
      PROVE  ServerVarsType'
  BY <1>3 DEF SpoolCancelled, WavRejected, WavAccepted, FailureClosed
<1>4. ASSUME NEW j \in Jobs, StreamStarts(j) \/ StreamChunk(j) \/ StreamAbandoned(j)
      PROVE  ServerVarsType'
  BY <1>4 DEF StreamStarts, StreamChunk, StreamAbandoned
<1>5. ASSUME NEW j \in Jobs, StreamFinishes(j) PROVE ServerVarsType'
  BY <1>5 DEF StreamFinishes, FinalEvent
<1>6. ASSUME NEW j \in Jobs, StreamDisconnected(j) \/ StreamClosed(j) \/ Disconnect(j)
      PROVE  ServerVarsType'
  BY <1>6 DEF StreamDisconnected, StreamClosed, Disconnect
<1>7. CASE QueueStep \/ ServerStop \/ UNCHANGED allVars
  BY <1>7 DEF QueueStep, ServerStop, serverVars, allVars
<1> QED
  BY <1>1, <1>2, <1>3, <1>4, <1>5, <1>6, <1>7 DEF ServerNext, Upload, Stream

\* A step of the queue itself cancels no job for its client, and makes one CANCELLED only
\* if its client has cancelled it before or the queue is stopping.
LEMMA QueueStepCancels ==
    ASSUME Inv, OutcomeInv, QueueStep \/ ServerStop, NEW k \in Jobs
    PROVE  /\ cancel_requested'[k] = cancel_requested[k]
           /\ status'[k] = "cancelled" =>
                 \/ status[k] = "cancelled"
                 \/ cancel_requested[k]
                 \/ stopping # "no" /\ status[k] # "new"
<1> DEFINE Goal == /\ cancel_requested'[k] = cancel_requested[k]
                   /\ status'[k] = "cancelled" =>
                         \/ status[k] = "cancelled"
                         \/ cancel_requested[k]
                         \/ stopping # "no" /\ status[k] # "new"
<1> USE DEF Inv, TypeOK, jobVars, queueVars, controlVars
<1>1. ASSUME NEW j \in Jobs, Process(j) PROVE Goal
  BY <1>1 DEF Process, ProcessStart, ProcessChunk, ProcessReturn, ProcessRaise,
              ProcessCancelled
<1>2. ASSUME NEW j \in Jobs, CleanupJob(j) PROVE Goal
  BY <1>2 DEF CleanupJob
<1>3. ASSUME WorkerSkip \/ WorkerTake PROVE Goal
  BY <1>3 DEF WorkerSkip, WorkerTake, StartHead
<1>4. ASSUME NEW j \in Jobs, WorkerReturned(j) \/ WorkerRaised(j) \/ WorkerCancelled(j)
      PROVE  Goal
  <2>1. /\ cancel_requested' = cancel_requested
        /\ \A i \in Jobs : i # j => status'[i] = status[i]
    BY <1>4 DEF WorkerReturned, WorkerRaised, WorkerCancelled, Finish, WorkerFinally
  <2>2. status'[j] = "cancelled" => cancel_requested[j] \/ stopping # "no"
    BY <1>4, FinishOutcome
  <2>3. status[j] # "new"
    BY <1>4 DEF WorkerReturned, WorkerRaised, WorkerCancelled, WorkerSees, DoneTask, TaskInv
  <2> QED
    BY <2>1, <2>2, <2>3
<1>5. ASSUME Stop \/ StopReturns PROVE Goal
  BY <1>5 DEF Stop, StopReturns
<1> HIDE DEF Inv, TypeOK, Goal
<1>6. Goal
  BY <1>1, <1>2, <1>3, <1>4, <1>5 DEF QueueStep, ServerStop, Worker
<1> QED
  BY <1>6 DEF Goal

\* A call of cancel for one job does nothing to another.
LEMMA CancelLocal ==
    ASSUME Inv, NEW j \in Jobs, QueueCancel(j), NEW k \in Jobs, k # j
    PROVE  cancel_requested'[k] = cancel_requested[k] /\ status'[k] = status[k]
  BY DEF QueueCancel, Cancel, vars, jobVars, Inv, TypeOK

\* What a step that is not the request's own does to it.
Elsewhere(k) ==
    /\ handler'[k] = handler[k]
    /\ connected'[k] = connected[k]
    /\ read'[k] = read[k]
    /\ final'[k] = final[k]
    /\ cancel_requested'[k] = cancel_requested[k]
    /\ status'[k] = "cancelled" =>
          \/ status[k] = "cancelled"
          \/ cancel_requested[k]
          \/ stopping # "no" /\ status[k] # "new"

\* Handlers do not touch one another, and the queue touches none of them.
LEMMA OtherSteps ==
    ASSUME Inv, OutcomeInv, ServerVarsType, [ServerNext]_allVars, NEW k \in Jobs, ~OwnStep(k)
    PROVE  Elsewhere(k)
<1> USE DEF ServerVarsType, Elsewhere, Goto, Ends
<1>1. ASSUME NEW j \in Jobs, j # k, Request(j) PROVE Elsewhere(k)
  BY <1>1 DEF Request, RequestAccepted, RequestRefused, Reserve, Inv, TypeOK, vars, jobVars
<1>2. ASSUME NEW j \in Jobs, j # k, ParseFails(j) \/ BodyCutOff(j) \/ SpoolFails(j)
             \/ WavRejected(j) \/ FailureClosed(j)
      PROVE  Elsewhere(k)
  BY <1>2, CancelLocal DEF ParseFails, BodyCutOff, SpoolFails, WavRejected, FailureClosed
<1>3. ASSUME NEW j \in Jobs, j # k, FormRejected(j) \/ SpoolStarts(j) \/ SpoolCancelled(j)
      PROVE  Elsewhere(k)
  BY <1>3 DEF FormRejected, SpoolStarts, SpoolCancelled, vars, jobVars
<1>4. ASSUME NEW j \in Jobs, j # k, WavAccepted(j) PROVE Elsewhere(k)
  BY <1>4 DEF WavAccepted, Submit, PutPending, Inv, TypeOK
<1>5. ASSUME NEW j \in Jobs, j # k, StreamDisconnected(j) \/ StreamClosed(j) PROVE Elsewhere(k)
  BY <1>5, CancelLocal DEF StreamDisconnected, StreamClosed
<1>6. ASSUME NEW j \in Jobs, j # k,
             StreamStarts(j) \/ StreamChunk(j) \/ StreamFinishes(j) \/ StreamAbandoned(j) \/ Disconnect(j)
      PROVE  Elsewhere(k)
  BY <1>6 DEF StreamStarts, StreamChunk, StreamFinishes, StreamAbandoned, Disconnect, vars,
              jobVars
<1>7. CASE QueueStep \/ ServerStop
  BY <1>7, QueueStepCancels DEF QueueStep, ServerStop, serverVars
<1>8. CASE UNCHANGED allVars
  BY <1>8 DEF allVars, vars, jobVars, serverVars
<1> QED
  BY <1>1, <1>2, <1>3, <1>4, <1>5, <1>6, <1>7, <1>8 DEF ServerNext, Upload, Stream, OwnStep

\* Only ServerStop, which waits for the handlers, makes the queue stop.
LEMMA OnlyServerStops ==
    ASSUME [ServerNext]_allVars, stopping = "no", stopping' # "no", NEW k \in Jobs
    PROVE  handler[k] \in {"idle", "ended"} /\ handler'[k] = handler[k]
<1> USE DEF controlVars
<1>1. ASSUME NEW j \in Jobs, QueueCancel(j) PROVE FALSE
  BY <1>1 DEF QueueCancel, Cancel, vars
<1>2. ASSUME NEW j \in Jobs, OwnStep(j) PROVE FALSE
  BY <1>1, <1>2 DEF OwnStep, Request, RequestAccepted, RequestRefused, Reserve, Upload,
     ParseFails, BodyCutOff, FormRejected, SpoolStarts, SpoolFails, SpoolCancelled, WavRejected,
     WavAccepted, Submit, PutPending, FailureClosed, Stream, StreamStarts, StreamChunk,
     StreamFinishes, StreamDisconnected, StreamAbandoned, StreamClosed, Disconnect, vars
<1>3. ASSUME QueueStep PROVE FALSE
  BY <1>3 DEF QueueStep, Process, ProcessStart, ProcessChunk, ProcessReturn, ProcessRaise,
     ProcessCancelled, CleanupJob, Worker, WorkerSkip, WorkerTake, StartHead,
     WorkerReturned, WorkerRaised, WorkerCancelled, Finish, WorkerFinally, StopReturns
<1>4. CASE ServerStop
  BY <1>4 DEF ServerStop, serverVars
<1>5. ASSUME UNCHANGED allVars PROVE FALSE
  BY <1>5 DEF allVars, vars
<1> QED
  BY <1>2, <1>3, <1>4, <1>5 DEF ServerNext, OwnStep

\* A request's own steps keep its stream in order.
LEMMA StreamOwn ==
    ASSUME Inv, ServerVarsType, StreamInv, [ServerNext]_allVars, NEW k \in Jobs, OwnStep(k)
    PROVE  StreamKept(k)'
<1>1. /\ StreamKept(k)
      /\ Len(chunk_queue[k]) \in Nat
      /\ Len(chunk_queue'[k]) \in Nat
      /\ Len(chunk_queue[k]) <= Len(chunk_queue'[k])
      /\ read[k] \in Nat
  BY ItemsGrow, ServerStep DEF StreamInv, ServerVarsType
<1>2. handler[k] \notin {"idle", "ended"} => stopping = "no" /\ stopping' = "no"
  BY <1>1, OnlyServerStops DEF StreamKept
<1>3. read[k] <= Len(chunk_queue'[k])
  BY <1>1 DEF StreamKept
<1>4. CASE RequestAccepted(k)
  BY <1>1, <1>3, <1>4 DEF RequestAccepted, Reserve, controlVars, StreamKept, Goto, ServerVarsType, Streaming
<1>5. ASSUME \/ RequestRefused(k) \/ ParseFails(k) \/ BodyCutOff(k) \/ FailureClosed(k)
             \/ StreamDisconnected(k)
             \/ StreamClosed(k)
      PROVE  StreamKept(k)'
  BY <1>3, <1>5 DEF RequestRefused, ParseFails, BodyCutOff, FailureClosed, StreamDisconnected,
                    StreamClosed, StreamKept, Goto, Ends, ServerVarsType, Streaming
<1>6. ASSUME \/ FormRejected(k) \/ SpoolStarts(k) \/ SpoolFails(k) \/ SpoolCancelled(k)
             \/ WavRejected(k)
      PROVE  StreamKept(k)'
  BY <1>1, <1>2, <1>3, <1>6 DEF FormRejected, SpoolStarts, SpoolFails, SpoolCancelled, WavRejected,
                    StreamKept, Goto, ServerVarsType, Streaming
<1>7. CASE WavAccepted(k)
  <2>1. ~cancel_requested'[k] /\ status'[k] = "queued"
    BY <1>7 DEF WavAccepted, Submit, PutPending, Inv, TypeOK, CancelInv
  <2> QED
    BY <1>1, <1>2, <1>3, <1>7, <2>1 DEF WavAccepted, StreamKept, Goto, ServerVarsType, Streaming
<1>8. ASSUME StreamStarts(k) \/ StreamAbandoned(k) \/ Disconnect(k) PROVE StreamKept(k)'
  BY <1>1, <1>2, <1>3, <1>8 DEF StreamStarts, StreamAbandoned, Disconnect, StreamKept, Goto,
     ServerVarsType, Streaming, vars, jobVars
<1>9. ASSUME StreamChunk(k) \/ StreamFinishes(k) PROVE StreamKept(k)'
  <2>1. read'[k] = read[k] + 1 /\ read[k] + 1 <= Len(chunk_queue'[k])
    BY <1>1, <1>9 DEF StreamChunk, StreamFinishes, Available, ServerVarsType, vars, jobVars
  <2>2. CASE StreamChunk(k)
    BY <1>1, <1>2, <2>1, <2>2 DEF StreamChunk, StreamKept, vars, jobVars
  <2>3. CASE StreamFinishes(k)
    BY <1>1, <1>2, <2>1, <2>3 DEF StreamFinishes, FinalEvent, StreamKept, Goto, Ends,
       ServerVarsType, Streaming
  <2> QED
    BY <1>9, <2>2, <2>3
<1> QED
  BY <1>4, <1>5, <1>6, <1>7, <1>8, <1>9 DEF OwnStep, Request, Upload, Stream

\* Every step does.
LEMMA StreamStep ==
    ASSUME Inv, OutcomeInv, ServerVarsType, StreamInv, [ServerNext]_allVars
    PROVE  StreamInv'
<1> SUFFICES ASSUME NEW k \in Jobs PROVE StreamKept(k)'
  BY DEF StreamInv
<1>1. CASE OwnStep(k)
  BY <1>1, StreamOwn
<1>2. CASE ~OwnStep(k)
  <2>1. StreamKept(k) /\ Elsewhere(k)
    BY <1>2, OtherSteps DEF StreamInv
  <2>2. read'[k] <= Len(chunk_queue'[k])
    <3>1. Len(chunk_queue[k]) \in Nat /\ Len(chunk_queue'[k]) \in Nat /\ read[k] \in Nat
      BY ItemsGrow, ServerStep DEF ServerVarsType
    <3>2. Len(chunk_queue[k]) <= Len(chunk_queue'[k])
      BY ItemsGrow, ServerStep
    <3> QED
      BY <2>1, <3>1, <3>2 DEF StreamKept, Elsewhere
  <2>3. stopping' # "no" => handler'[k] \in {"idle", "ended"}
    BY <2>1, OnlyServerStops DEF StreamKept, Elsewhere
  <2>4. handler[k] \in Streaming => stopping = "no"
    BY <2>1 DEF StreamKept, Streaming
  <2> QED
    BY <2>1, <2>2, <2>3, <2>4 DEF StreamKept, Elsewhere
<1> QED
  BY <1>1, <1>2

\* What reading the sentinel means: the job is terminal, everything before has been read,
\* and the event that is sent states the job's outcome.
LEMMA SentinelRead ==
    ASSUME Inv, OutcomeInv, ServerVarsType, NEW k \in Jobs, Available(k), NextItem(k) = None
    PROVE  /\ Terminal(k)
           /\ read[k] + 1 = Len(chunk_queue[k])
           /\ FinalEvent(k) = IF status[k] = "cancelled" THEN "silent"
                              ELSE IF status[k] = "failed" THEN "error" ELSE "done"
           /\ FinalEvent(k) = "done" => status[k] = "completed"
<1>1. read[k] + 1 \in DOMAIN chunk_queue[k]
  BY DEF Inv, TypeOK, Available, ServerVarsType
<1>2. Terminal(k) /\ read[k] + 1 = Len(chunk_queue[k])
  BY <1>1 DEF Inv, SentinelClosesStream, NextItem
<1> QED
  BY <1>2 DEF FinalEvent, OutcomeInv, Terminal, TerminalStates

\* The final events stay honest.
LEMMA HonestStep ==
    ASSUME Inv, OutcomeInv, ServerVarsType, StreamInv, FinalEventHonest, [ServerNext]_allVars
    PROVE  FinalEventHonest'
<1> DEFINE Honest(k) ==
             /\ final[k] = "done" => /\ status[k] = "completed"
                                     /\ read[k] = Len(chunk_queue[k])
                                     /\ Backend = "vibevoice" => read[k] > 1
             /\ final[k] = "error" => status[k] = "failed" /\ read[k] = Len(chunk_queue[k])
<1> SUFFICES ASSUME NEW k \in Jobs PROVE Honest(k)'
  BY DEF FinalEventHonest
<1>1. Honest(k)
  BY DEF FinalEventHonest
<1>2. CASE final'[k] = final[k] /\ read'[k] = read[k]
  <2>1. CASE final[k] \in {"done", "error"}
    <3>1. status[k] \in {"completed", "failed"} /\ Terminal(k)
      BY <1>1, <2>1 DEF Terminal, TerminalStates
    <3>2. status'[k] = status[k]
      BY <3>1, TerminalStepHolds, ServerStep DEF TerminalStep
    <3>3. chunk_queue'[k] = chunk_queue[k]
      BY <3>1, ItemsGrow, ServerStep
    <3> QED
      BY <1>1, <1>2, <3>2, <3>3
  <2>2. CASE final[k] \notin {"done", "error"}
    BY <1>2, <2>2
  <2> QED
    BY <2>1, <2>2
<1>3. CASE StreamFinishes(k)
  <2>1. /\ final'[k] = FinalEvent(k)
        /\ read'[k] = read[k] + 1
        /\ status' = status /\ chunk_queue' = chunk_queue
    BY <1>3 DEF StreamFinishes, Ends, ServerVarsType, vars, jobVars
  <2>2. /\ read'[k] = Len(chunk_queue'[k])
        /\ final'[k] = "done" => status'[k] = "completed"
        /\ final'[k] = "error" => status'[k] = "failed"
    BY <1>3, <2>1, SentinelRead DEF StreamFinishes
  <2>3. status'[k] = "completed" /\ Backend = "vibevoice" => Len(chunk_queue'[k]) > 1
    BY <2>1 DEF OutcomeInv
  <2> QED
    BY <2>2, <2>3
<1>4. CASE final'[k] \notin {"done", "error"}
  BY <1>4
<1>5. CASE StreamChunk(k)
  <2>1. final'[k] = "none"
    BY <1>5 DEF StreamChunk, StreamInv, StreamKept
  <2> QED
    BY <2>1, <1>4
<1>6. CASE OwnStep(k) /\ ~StreamFinishes(k) /\ ~StreamChunk(k)
  BY <1>2, <1>4, <1>6 DEF OwnStep, Request, RequestAccepted, RequestRefused, Upload,
     ParseFails, BodyCutOff, FormRejected, SpoolStarts, SpoolFails, SpoolCancelled, WavRejected,
     WavAccepted, FailureClosed, Stream, StreamStarts, StreamDisconnected, StreamAbandoned,
     StreamClosed, Disconnect, Ends, ServerVarsType
<1>7. CASE ~OwnStep(k)
  BY <1>2, <1>7, OtherSteps DEF Elsewhere
<1> QED
  BY <1>3, <1>5, <1>6, <1>7

\* A client that stays is still told.
LEMMA ToldStep ==
    ASSUME Inv, OutcomeInv, ServerVarsType, StreamInv, ConnectedClientIsTold,
           [ServerNext]_allVars
    PROVE  ConnectedClientIsTold'
<1> SUFFICES ASSUME NEW k \in Jobs, final'[k] \in {"silent", "gone"} PROVE ~connected'[k]
  BY DEF ConnectedClientIsTold
<1>1. final[k] \in {"silent", "gone"} => ~connected[k]
  BY DEF ConnectedClientIsTold
<1>2. StreamKept(k)
  BY DEF StreamInv
<1>3. CASE StreamFinishes(k)
  <2>1. final'[k] = FinalEvent(k) /\ handler[k] = "streaming" /\ connected' = connected
    BY <1>3 DEF StreamFinishes, Ends, ServerVarsType
  <2>2. status[k] = "cancelled"
    BY <2>1 DEF FinalEvent
  <2> QED
    BY <1>2, <2>1, <2>2 DEF StreamKept, Streaming
<1>4. CASE StreamDisconnected(k) \/ StreamClosed(k)
  BY <1>2, <1>4 DEF StreamDisconnected, StreamClosed, StreamKept
<1>5. CASE OwnStep(k) /\ ~StreamFinishes(k) /\ ~StreamDisconnected(k) /\ ~StreamClosed(k)
  BY <1>1, <1>5 DEF OwnStep, Request, RequestAccepted, RequestRefused, Upload,
     ParseFails, BodyCutOff, FormRejected, SpoolStarts, SpoolFails, SpoolCancelled, WavRejected,
     WavAccepted, FailureClosed, Stream, StreamStarts, StreamChunk, StreamAbandoned,
     Disconnect, Ends, ServerVarsType
<1>6. CASE ~OwnStep(k)
  BY <1>1, <1>6, OtherSteps DEF Elsewhere
<1> QED
  BY <1>3, <1>4, <1>5, <1>6

\* All of it together, inductive relative to the invariant of the queue.
ServerInv ==
    /\ ServerVarsType
    /\ StreamInv
    /\ FinalEventHonest
    /\ ConnectedClientIsTold

\* The server's invariant holds throughout.
THEOREM ServerInvariance == ServerSpec => [](Inv /\ OutcomeInv /\ ServerInv)
<1>1. ServerInit => ServerInv
  <2> SUFFICES ASSUME ServerInit PROVE ServerInv
    OBVIOUS
  <2>1. \A j \in Jobs : Len(chunk_queue[j]) = 0
    BY DEF ServerInit, Init
  <2>2. ServerVarsType
    BY DEF ServerInit, ServerVarsType
  <2>3. StreamInv
    BY <2>1 DEF ServerInit, Init, StreamInv, StreamKept, Streaming
  <2> QED
    BY <2>2, <2>3 DEF ServerInit, ServerInv, FinalEventHonest, ConnectedClientIsTold
<1>2. ServerSpec => [](Inv /\ OutcomeInv)
  BY ServerImplementsQueue, Invariance, OutcomeInvariance, PTL
<1>3. Inv /\ OutcomeInv /\ ServerInv /\ [ServerNext]_allVars => ServerInv'
  BY ServerVarsStep, StreamStep, HonestStep, ToldStep DEF ServerInv
<1> QED
  BY <1>1, <1>2, <1>3, PTL DEF ServerSpec

\* The types of the server's variables.
THEOREM ServerTypeCorrect == ServerSpec => []ServerTypeOK
<1>1. Inv /\ ServerInv => ServerTypeOK
  BY DEF Inv, ServerInv, ServerVarsType, ServerTypeOK
<1> QED
  BY <1>1, ServerInvariance, PTL

\* The last event of a stream is true: "done" after all the chunks of a completed job,
\* "error" after all those of a failed one, whatever the other requests, the worker and
\* the backend do in between.
THEOREM FinalEventsAreHonest == ServerSpec => []FinalEventHonest
  BY ServerInvariance, PTL DEF ServerInv

\* No stream just stops while its client is there.
THEOREM StayingClientIsTold == ServerSpec => []ConnectedClientIsTold
  BY ServerInvariance, PTL DEF ServerInv

-----------------------------------------------------------------------------
(* The contract of every request.                                          *)

\* The chunks among the first n items of a queue that holds the sentinel last, if at all.
LEMMA ChunksCounted ==
    ASSUME NEW q \in Seq(Nat), NEW n \in 0 .. Len(q),
           \A i \in 1 .. Len(q) : q[i] = None => i = Len(q)
    PROVE  Cardinality({i \in 1 .. n : q[i] # None})
              = IF n > 0 /\ n = Len(q) /\ q[n] = None THEN n - 1 ELSE n
<1>1. n \in Nat /\ Len(q) \in Nat /\ n <= Len(q)
  OBVIOUS
<1>2. \A m \in Nat : Cardinality(1 .. m) = m
  <2> TAKE m \in Nat
  <2>1. 1 \in Int /\ m \in Int
    OBVIOUS
  <2>2. Cardinality(1 .. m) = IF 1 > m THEN 0 ELSE m - 1 + 1
    BY <2>1, FS_Interval, Zenon
  <2> QED
    BY <2>2
<1>3. CASE n > 0 /\ n = Len(q) /\ q[n] = None
  <2>1. {i \in 1 .. n : q[i] # None} = 1 .. (n - 1)
    BY <1>1, <1>3
  <2>2. n - 1 \in Nat
    BY <1>1, <1>3
  <2> QED
    BY <1>2, <1>3, <2>1, <2>2
<1>4. CASE ~(n > 0 /\ n = Len(q) /\ q[n] = None)
  <2>1. {i \in 1 .. n : q[i] # None} = 1 .. n
    BY <1>1, <1>4
  <2> QED
    BY <1>1, <1>2, <1>4, <2>1
<1> QED
  BY <1>3, <1>4

\* What produced and sent count: all items but the sentinel.
LEMMA ChunkValues ==
    ASSUME NEW q \in Seq(Nat), NEW n \in Nat, n <= Len(q), NEW closed \in BOOLEAN,
           closed <=> \E i \in DOMAIN q : q[i] = None,
           \A i \in DOMAIN q : q[i] = None => i = Len(q)
    PROVE  /\ Cardinality({i \in 1 .. Len(q) : q[i] # None})
                 = IF closed THEN Len(q) - 1 ELSE Len(q)
           /\ Cardinality({i \in 1 .. n : q[i] # None})
                 = IF closed /\ n = Len(q) THEN Len(q) - 1 ELSE n
           /\ closed => Len(q) > 0
<1>1. Len(q) \in Nat /\ DOMAIN q = 1 .. Len(q)
  OBVIOUS
<1>2. closed => Len(q) > 0 /\ q[Len(q)] = None
  BY <1>1
<1>3. ~closed => \A m \in 1 .. Len(q) : q[m] # None
  BY <1>1
<1>4. \A i \in 1 .. Len(q) : q[i] = None => i = Len(q)
  BY <1>1
<1>5. \A m \in 0 .. Len(q) : Cardinality({i \in 1 .. m : q[i] # None})
                                = IF m > 0 /\ m = Len(q) /\ q[m] = None THEN m - 1 ELSE m
  BY <1>4, ChunksCounted
<1>6. n \in 0 .. Len(q) /\ Len(q) \in 0 .. Len(q)
  BY <1>1
<1>7. \A m \in 0 .. Len(q) : (m > 0 /\ m = Len(q) /\ q[m] = None) <=> (closed /\ m = Len(q))
  <2> TAKE m \in 0 .. Len(q)
  <2>1. CASE closed /\ m = Len(q)
    BY <1>1, <1>2, <2>1
  <2>2. CASE ~closed /\ m > 0
    <3>1. q[m] # None
      BY <1>1, <1>3, <2>2
    <3> QED
      BY <2>2, <3>1
  <2>3. CASE m # Len(q) \/ (~closed /\ ~(m > 0))
    BY <2>3
  <2> QED
    BY <2>1, <2>2, <2>3
<1> QED
  BY <1>1, <1>2, <1>5, <1>6, <1>7

\* How a step changes the counts: a chunk is produced only while the job is not terminal,
\* and what a stream has sent changes only when it reads.
LEMMA CountStep ==
    ASSUME Inv, Inv', ServerInv, ServerInv', [ServerNext]_allVars, NEW k \in Jobs
    PROVE  /\ Produced(k) = IF Terminal(k) THEN Len(chunk_queue[k]) - 1 ELSE Len(chunk_queue[k])
           /\ Sent(k) = IF Terminal(k) /\ read[k] = Len(chunk_queue[k]) THEN Len(chunk_queue[k]) - 1
                        ELSE read[k]
           /\ Sent(k)' = IF Terminal(k)' /\ read'[k] = Len(chunk_queue'[k]) THEN Len(chunk_queue'[k]) - 1
                         ELSE read'[k]
           /\ \/ Produced(k)' = Produced(k)
              \/ Produced(k)' = Produced(k) + 1 /\ ~Terminal(k) /\ ~Terminal(k)'
           /\ chunk_queue'[k] = chunk_queue[k] => Produced(k)' = Produced(k)
           /\ read'[k] = read[k] => Sent(k)' = Sent(k)
<1>1. /\ Produced(k) = IF Terminal(k) THEN Len(chunk_queue[k]) - 1 ELSE Len(chunk_queue[k])
      /\ Sent(k) = IF Terminal(k) /\ read[k] = Len(chunk_queue[k]) THEN Len(chunk_queue[k]) - 1
                   ELSE read[k]
  <2>1. /\ chunk_queue[k] \in Seq(Nat)
        /\ read[k] \in Nat
        /\ read[k] <= Len(chunk_queue[k])
        /\ Terminal(k) \in BOOLEAN
    BY DEF Inv, TypeOK, ServerInv, ServerVarsType, StreamInv, StreamKept, Terminal
  <2>2. /\ Terminal(k) <=> \E i \in DOMAIN chunk_queue[k] : chunk_queue[k][i] = None
        /\ \A i \in DOMAIN chunk_queue[k] : chunk_queue[k][i] = None => i = Len(chunk_queue[k])
    BY DEF Inv, SentinelClosesStream
  <2> QED
    BY <2>1, <2>2, ChunkValues DEF Produced, Sent
<1>2. /\ Produced(k)' = IF Terminal(k)' THEN Len(chunk_queue'[k]) - 1 ELSE Len(chunk_queue'[k])
      /\ Sent(k)' = IF Terminal(k)' /\ read'[k] = Len(chunk_queue'[k]) THEN Len(chunk_queue'[k]) - 1
                    ELSE read'[k]
  <2>1. /\ chunk_queue'[k] \in Seq(Nat)
        /\ read'[k] \in Nat
        /\ read'[k] <= Len(chunk_queue'[k])
        /\ Terminal(k)' \in BOOLEAN
    BY DEF Inv, TypeOK, ServerInv, ServerVarsType, StreamInv, StreamKept, Terminal
  <2>2. /\ Terminal(k)' <=> \E i \in DOMAIN chunk_queue'[k] : chunk_queue'[k][i] = None
        /\ \A i \in DOMAIN chunk_queue'[k] : chunk_queue'[k][i] = None => i = Len(chunk_queue'[k])
    BY DEF Inv, SentinelClosesStream
  <2> QED
    BY <2>1, <2>2, ChunkValues DEF Produced, Sent
<1>3. ItemStep(k)
  BY ItemStepHolds, ServerStep
<1>4. /\ Len(chunk_queue[k]) \in Nat
      /\ read[k] \in Nat
      /\ read[k] <= Len(chunk_queue[k])
      /\ \A c \in Nat : Len(Append(chunk_queue[k], c)) = Len(chunk_queue[k]) + 1
  BY AppendFacts DEF Inv, TypeOK, ServerInv, ServerVarsType, StreamInv, StreamKept
<1>5. CASE chunk_queue'[k] = chunk_queue[k] /\ (Terminal(k)' <=> Terminal(k))
  BY <1>1, <1>2, <1>5
<1>6. CASE /\ ~Terminal(k) /\ ~Terminal(k)'
           /\ \E c \in Nat \ {None} : chunk_queue'[k] = Append(chunk_queue[k], c)
  BY <1>1, <1>2, <1>4, <1>6
<1>7. CASE /\ ~Terminal(k) /\ Terminal(k)'
           /\ chunk_queue'[k] = Append(chunk_queue[k], None)
  BY <1>1, <1>2, <1>4, <1>7 DEF None
<1> QED
  BY <1>1, <1>2, <1>3, <1>5, <1>6, <1>7 DEF ItemStep

\* What a step of the queue, or of another request, is for this one: a chunk produced, its
\* job settled, or nothing.
LEMMA ContractElsewhere ==
    ASSUME Inv, Inv', OutcomeInv, ServerInv, ServerInv', OwnerInv, [ServerNext]_allVars,
           NEW k \in Jobs, ~OwnStep(k)
    PROVE  [Contract(k)!Next]_(Contract(k)!contractVars)
<1>1. Elsewhere(k)
  BY OtherSteps DEF ServerInv
<1>2. Sent(k)' = Sent(k) /\ Answer(k)' = Answer(k) /\ connected'[k] = connected[k]
  BY <1>1, CountStep DEF Elsewhere, Answer
<1>3. CASE Produced(k)' # Produced(k)
  <2>1. Produced(k)' = Produced(k) + 1 /\ Outcome(k) = "none" /\ Outcome(k)' = "none"
    BY <1>3, CountStep DEF Outcome
  <2> QED
    BY <1>2, <2>1 DEF Contract!Next, Contract!Produce
<1>4. CASE Produced(k)' = Produced(k) /\ Terminal(k)
  <2>1. \/ status'[k] = status[k]
        \/ status[k] = "cancelled" /\ status'[k] = "failed"
    BY <1>4, TerminalStepHolds, ServerStep DEF TerminalStep
  <2>2. \/ Outcome(k)' = Outcome(k)
        \/ Outcome(k) = "cancelled" /\ Outcome(k)' = "failed"
    BY <1>4, <2>1 DEF Outcome, Terminal, TerminalStates
  <2> QED
    BY <1>2, <1>4, <2>2 DEF Contract!Next, Contract!Settle, Contract!Settles
<1>5. CASE Produced(k)' = Produced(k) /\ ~Terminal(k)
  <2>1. status'[k] # "cancelled"
    <3>1. ~cancel_requested[k] /\ status[k] # "cancelled"
      BY <1>5 DEF Inv, CancelInv, Terminal, TerminalStates
    <3>2. status[k] # "new" => handler[k] \in Uploading \cup Streaming
      BY <1>5 DEF Inv, TypeOK, OwnerInv, Terminal, ActiveStates
    <3>3. stopping # "no" => handler[k] \in {"idle", "ended"}
      BY DEF ServerInv, StreamInv, StreamKept
    <3> QED
      BY <1>1, <3>1, <3>2, <3>3 DEF Elsewhere, Uploading, Streaming
  <2>2. Outcome(k) = "none" /\ Outcome(k)' \in {"none", "completed", "failed"}
    BY <1>5, <2>1 DEF Outcome, Terminal, TerminalStates
  <2> QED
    BY <1>2, <1>5, <2>2 DEF Contract!Next, Contract!Settle, Contract!Settles
<1> QED
  BY <1>3, <1>4, <1>5

\* A handler that calls cancel settles the job as cancelled, or finds it settled.
LEMMA CancelSettles ==
    ASSUME Inv, Inv', ServerInv, ServerInv', [ServerNext]_allVars, NEW k \in Jobs,
           QueueCancel(k)
    PROVE  /\ Produced(k)' = Produced(k)
           /\ \/ Outcome(k)' = Outcome(k)
              \/ Outcome(k) = "none" /\ Outcome(k)' = "cancelled"
<1>1. CASE Registered(k) /\ ~Terminal(k)
  <2>1. status'[k] = "cancelled"
    BY <1>1 DEF QueueCancel, Cancel, Inv, TypeOK
  <2>2. Terminal(k)' /\ Outcome(k) = "none" /\ Outcome(k)' = "cancelled"
    BY <1>1, <2>1 DEF Terminal, TerminalStates, Outcome
  <2> QED
    BY <2>2, CountStep
<1>2. CASE ~(Registered(k) /\ ~Terminal(k))
  <2>1. chunk_queue'[k] = chunk_queue[k] /\ status'[k] = status[k]
    BY <1>2 DEF QueueCancel, vars, jobVars
  <2> QED
    BY <2>1, CountStep DEF Outcome, Terminal
<1> QED
  BY <1>1, <1>2

\* What each own step of a request is for its contract.
LEMMA ContractOwn ==
    ASSUME Inv, Inv', OutcomeInv, ServerInv, ServerInv', [ServerNext]_allVars,
           NEW k \in Jobs, OwnStep(k)
    PROVE  [Contract(k)!Next]_(Contract(k)!contractVars)
<1> DEFINE Goal == [Contract(k)!Next]_(Contract(k)!contractVars)
<1> USE DEF Contract!Next, Contract!contractVars
<1>1. ServerVarsType /\ StreamKept(k)
  BY DEF ServerInv, StreamInv
<1>2. ASSUME RequestAccepted(k) PROVE Goal
  <2>1. chunk_queue'[k] = chunk_queue[k] /\ status'[k] = "uploading" /\ status[k] = "new"
    BY <1>2 DEF RequestAccepted, Reserve, Inv, TypeOK
  <2>2. Produced(k)' = Produced(k) /\ Sent(k)' = Sent(k) /\ Outcome(k)' = Outcome(k)
    BY <1>2, <2>1, CountStep DEF RequestAccepted, Outcome, Terminal, TerminalStates
  <2>3. Answer(k)' = Answer(k) /\ connected'[k] = connected[k]
    BY <1>1, <1>2 DEF RequestAccepted, Goto, Answer, ServerVarsType
  <2> QED
    BY <2>2, <2>3
<1>3. ASSUME WavAccepted(k) PROVE Goal
  <2>1. chunk_queue'[k] = chunk_queue[k] /\ status'[k] = "queued" /\ status[k] = "uploading"
    BY <1>3 DEF WavAccepted, Submit, PutPending, Inv, TypeOK
  <2>2. Produced(k)' = Produced(k) /\ Sent(k)' = Sent(k) /\ Outcome(k)' = Outcome(k)
    BY <1>3, <2>1, CountStep DEF WavAccepted, Outcome, Terminal, TerminalStates
  <2>3. Answer(k)' = Answer(k) /\ connected'[k] = connected[k]
    BY <1>1, <1>3 DEF WavAccepted, Goto, Answer, ServerVarsType
  <2> QED
    BY <2>2, <2>3
<1>4. ASSUME UNCHANGED <<vars, read>>
      PROVE  Produced(k)' = Produced(k) /\ Sent(k)' = Sent(k) /\ Outcome(k)' = Outcome(k)
  BY <1>4, CountStep DEF vars, jobVars, Outcome, Terminal
<1>5. ASSUME FormRejected(k) \/ SpoolStarts(k) \/ SpoolCancelled(k) \/ StreamAbandoned(k)
      PROVE  Goal
  <2>1. Answer(k)' = Answer(k) /\ connected'[k] = connected[k]
    BY <1>1, <1>5 DEF FormRejected, SpoolStarts, SpoolCancelled, StreamAbandoned, Goto,
                      Answer, ServerVarsType
  <2> QED
    BY <1>4, <1>5, <2>1 DEF FormRejected, SpoolStarts, SpoolCancelled, StreamAbandoned
<1>6. ASSUME RequestRefused(k) PROVE Goal
  <2>1. Answer(k) = "none" /\ Answer(k)' = "refused" /\ connected'[k] = connected[k]
    BY <1>1, <1>6 DEF RequestRefused, Goto, Ends, Answer, ServerVarsType, StreamKept
  <2> QED
    BY <1>4, <1>6, <2>1 DEF RequestRefused, Contract!Refuse, Contract!Settles
<1>7. ASSUME ParseFails(k) \/ BodyCutOff(k) \/ FailureClosed(k) PROVE Goal
  <2>1. Answer(k) = "none" /\ Answer(k)' = "refused" /\ connected'[k] = connected[k]
    BY <1>1, <1>7 DEF ParseFails, BodyCutOff, FailureClosed, Goto, Ends, Answer,
       ServerVarsType, StreamKept
  <2>2. Sent(k)' = Sent(k) /\ QueueCancel(k)
    BY <1>7, CountStep DEF ParseFails, BodyCutOff, FailureClosed
  <2> QED
    BY <2>1, <2>2, CancelSettles DEF Contract!Refuse, Contract!Settles
<1>8. ASSUME SpoolFails(k) \/ WavRejected(k) PROVE Goal
  <2>1. Answer(k) = "none" /\ Answer(k)' = "none" /\ connected'[k] = connected[k]
    BY <1>1, <1>8 DEF SpoolFails, WavRejected, Goto, Answer, ServerVarsType, StreamKept
  <2>2. Sent(k)' = Sent(k) /\ QueueCancel(k)
    BY <1>8, CountStep DEF SpoolFails, WavRejected
  <2> QED
    BY <2>1, <2>2, CancelSettles DEF Contract!Settle, Contract!Settles
<1>9. ASSUME StreamStarts(k) PROVE Goal
  <2>1. Answer(k) = "none" /\ Answer(k)' = "streaming" /\ connected'[k] = connected[k]
    BY <1>1, <1>9 DEF StreamStarts, Goto, Answer, ServerVarsType, StreamKept
  <2>2. Outcome(k) = "cancelled" => ~connected[k]
    BY <1>1, <1>9 DEF StreamStarts, StreamKept, Streaming, Outcome
  <2> QED
    BY <1>4, <1>9, <2>1, <2>2 DEF StreamStarts, Contract!Accept
<1>10. ASSUME StreamChunk(k) PROVE Goal
  <2>1. /\ chunk_queue'[k] = chunk_queue[k] /\ status'[k] = status[k]
        /\ handler' = handler /\ final' = final /\ connected' = connected
        /\ read'[k] = read[k] + 1
    BY <1>1, <1>10 DEF StreamChunk, ServerVarsType, vars, jobVars
  <2>2. Answer(k) = "streaming" /\ Answer(k)' = "streaming" /\ Outcome(k)' = Outcome(k)
    BY <1>10, <2>1 DEF StreamChunk, Answer, Outcome, Terminal
  <2>3. /\ Len(chunk_queue[k]) \in Nat
        /\ read[k] \in Nat
        /\ read[k] < Len(chunk_queue[k])
        /\ Terminal(k) => read[k] + 1 # Len(chunk_queue[k])
    <3>1. chunk_queue[k] \in Seq(Nat) /\ read[k] \in Nat
      BY <1>1 DEF Inv, TypeOK, ServerVarsType
    <3>2. read[k] < Len(chunk_queue[k]) /\ chunk_queue[k][read[k] + 1] # None
      BY <1>10 DEF StreamChunk, Available, NextItem
    <3>3. Terminal(k) => \E i \in DOMAIN chunk_queue[k] :
                            chunk_queue[k][i] = None /\ i = Len(chunk_queue[k])
      BY DEF Inv, SentinelClosesStream
    <3> QED
      BY <3>1, <3>2, <3>3
  <2>4. Terminal(k)' <=> Terminal(k)
    BY <2>1 DEF Terminal
  <2>5. /\ Produced(k)' = Produced(k)
        /\ Produced(k) = IF Terminal(k) THEN Len(chunk_queue[k]) - 1 ELSE Len(chunk_queue[k])
        /\ Sent(k) = read[k]
        /\ Sent(k)' = read[k] + 1
    BY <2>1, <2>3, <2>4, CountStep
  <2>6. Sent(k) < Produced(k) /\ Sent(k)' = Sent(k) + 1
    BY <2>3, <2>5
  <2> QED
    BY <2>1, <2>2, <2>5, <2>6 DEF Contract!Send
<1>11. ASSUME StreamFinishes(k) PROVE Goal
  <2>1. /\ chunk_queue'[k] = chunk_queue[k] /\ status'[k] = status[k]
        /\ handler[k] = "streaming" /\ handler'[k] = "ended" /\ connected' = connected
        /\ final'[k] = FinalEvent(k)
        /\ read'[k] = read[k] + 1
    BY <1>1, <1>11 DEF StreamFinishes, Goto, Ends, ServerVarsType, vars, jobVars
  <2>2. /\ Terminal(k)
        /\ read[k] + 1 = Len(chunk_queue[k])
        /\ FinalEvent(k) = IF status[k] = "cancelled" THEN "silent"
                           ELSE IF status[k] = "failed" THEN "error" ELSE "done"
        /\ FinalEvent(k) = "done" => status[k] = "completed"
    BY <1>1, <1>11, SentinelRead DEF StreamFinishes
  <2>3. Terminal(k)' /\ Outcome(k) = status[k] /\ Outcome(k)' = status[k]
    BY <2>1, <2>2 DEF Terminal, Outcome
  <2>4. /\ Produced(k)' = Produced(k)
        /\ Sent(k) = Produced(k)
        /\ Sent(k)' = Sent(k)
    <3>1. Len(chunk_queue[k]) \in Nat /\ read[k] \in Nat
      BY <1>1 DEF Inv, TypeOK, ServerVarsType
    <3> QED
      BY <2>1, <2>2, <2>3, <3>1, CountStep
  <2>5. Answer(k) = "streaming" /\ Answer(k)' = IF status[k] = "cancelled" THEN "dropped"
                                                ELSE IF status[k] = "failed" THEN "error"
                                                ELSE "done"
    BY <2>1, <2>2 DEF Answer
  <2>6. status[k] = "cancelled" => ~connected[k]
    BY <1>1, <2>1 DEF StreamKept, Streaming
  <2>7. status[k] \in {"completed", "failed", "cancelled"}
    BY <2>2 DEF Terminal, TerminalStates
  <2> QED
    BY <2>1, <2>3, <2>4, <2>5, <2>6, <2>7 DEF Contract!Finish, Contract!Drop, Contract!Settles
<1>12. ASSUME StreamDisconnected(k) \/ StreamClosed(k) PROVE Goal
  <2>1. /\ Answer(k) = "streaming" /\ Answer(k)' = "dropped"
        /\ ~connected[k] /\ connected'[k] = connected[k]
    BY <1>1, <1>12 DEF StreamDisconnected, StreamClosed, Goto, Ends, Answer, ServerVarsType,
                       StreamKept
  <2>2. Sent(k)' = Sent(k) /\ QueueCancel(k)
    BY <1>12, CountStep DEF StreamDisconnected, StreamClosed
  <2> QED
    BY <2>1, <2>2, CancelSettles DEF Contract!Drop, Contract!Settles
<1>13. ASSUME Disconnect(k) PROVE Goal
  <2>1. Answer(k)' = Answer(k) /\ connected[k] /\ connected'[k] = FALSE
    BY <1>1, <1>13 DEF Disconnect, Answer, ServerVarsType
  <2> QED
    BY <1>4, <1>13, <2>1 DEF Disconnect, Contract!Leave
<1> QED
  BY <1>2, <1>3, <1>5, <1>6, <1>7, <1>8, <1>9, <1>10, <1>11, <1>12, <1>13
     DEF OwnStep, Request, Upload, Stream

\* The route keeps its contract with every client, for any number of jobs and requests:
\* initially, and then each step of the server is a step of each contract or none.
THEOREM ServerKeepsContract == ServerSpec => ImplementsContract
<1>1. ServerInit => \A j \in Jobs : Contract(j)!Init
  <2> SUFFICES ASSUME ServerInit, NEW j \in Jobs PROVE Contract(j)!Init
    OBVIOUS
  <2>1. chunk_queue[j] = <<>> /\ read[j] = 0
    BY DEF ServerInit, Init
  <2>2. Produced(j) = 0 /\ Sent(j) = 0
    <3>1. {i \in 1 .. Len(chunk_queue[j]) : chunk_queue[j][i] # None} = {}
      BY <2>1
    <3>2. {i \in 1 .. read[j] : chunk_queue[j][i] # None} = {}
      BY <2>1
    <3> QED
      BY <3>1, <3>2, FS_EmptySet DEF Produced, Sent
  <2>3. Outcome(j) = "none" /\ Answer(j) = "none" /\ connected[j] = TRUE
    BY DEF ServerInit, Init, Outcome, Answer, Terminal, TerminalStates
  <2> QED
    BY <2>2, <2>3 DEF Contract!Init
<1>2. /\ Inv /\ OutcomeInv /\ ServerInv /\ OwnerInv
      /\ Inv' /\ ServerInv'
      /\ [ServerNext]_allVars
      => [\A j \in Jobs : [Contract(j)!Next]_(Contract(j)!contractVars)]_allVars
  BY ContractElsewhere, ContractOwn
<1> QED
  BY <1>1, <1>2, ServerInvariance, OwnershipInvariant, PTL DEF ServerSpec, ImplementsContract
=============================================================================
