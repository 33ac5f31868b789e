------------------------- MODULE TranscriptionQueue -------------------------
(***************************************************************************)
(* The bounded transcription queue of server/queue.py together with the    *)
(* process task that its worker starts for every job (server/transcribe.py *)
(* behind it).  One asyncio event loop runs the callers of the queue, the  *)
(* worker, the process task, the 30 s cleanup tasks and stop(); an action  *)
(* is what one of them does between two points at which it gives up the    *)
(* loop.                                                                   *)
(*                                                                         *)
(* A task cancelled with Task.cancel() is never resumed normally again: an *)
(* unstarted one never runs its body, a suspended one sees CancelledError  *)
(* at its await.  Awaiting a task forwards a cancellation to it as long as *)
(* it is not done.  The callers are left open here: any job may be         *)
(* reserved, submitted and cancelled at any moment.  TranscribeServer      *)
(* closes the system with the request handlers.                            *)
(***************************************************************************)
EXTENDS Naturals, Sequences, FiniteSets

CONSTANTS
    Jobs,        \* the job objects that the run creates (uuid4 ids, never reused)
    NoJob,       \* the value of "current" while the worker has no job
    MaxSize,     \* max_size of the queue
    MaxHistory,  \* _max_history, 20 in the code
    MaxChunks,   \* bound of the model: chunks a backend yields for one job
    Backend      \* config.asr_backend

ASSUME JobsFinite == IsFiniteSet(Jobs)
ASSUME NoJobIsNoJob == NoJob \notin Jobs
ASSUME MaxSizePositive == MaxSize \in Nat \ {0}
ASSUME MaxHistoryPositive == MaxHistory \in Nat \ {0}
ASSUME MaxChunksPositive == MaxChunks \in Nat \ {0}
ASSUME BackendKnown == Backend \in {"vibevoice", "groq"}

VARIABLES
    \* fields of the TranscriptionJob objects
    status,             \* "new" before the object is reserved, then JobStatus
    audio_path,         \* TRUE while the job owns its spooled upload
    error_message,      \* what was last stored there, "none" for None
    cancel_requested,
    process_task,       \* "none", or how far the job's process task is
    terminal_notified,
    cleanup_scheduled,
    chunk_queue,        \* everything put so far; readers keep an index
    \* fields of the TranscriptionQueue object
    ticket,             \* _jobs: insertion number of a registered job, else 0
    inserted,           \* number of insertions into _jobs so far
    pending,            \* _pending: ids in the order of submission
    history,            \* _processing_times: the jobs whose time it holds
    cleanup_tasks,      \* _cleanup_tasks: jobs whose cleanup task sleeps
    \* control of the worker task and of stop()
    worker,             \* "idle" in _pending.get, "awaiting" a job, "ended"
    current,            \* the job that the worker awaits, else NoJob
    worker_cancelled,   \* CancelledError is thrown when the worker resumes
    stopping            \* "no", "stopping" (stop awaits the worker), "stopped"

jobVars == <<status, audio_path, error_message, cancel_requested, process_task,
             terminal_notified, cleanup_scheduled, chunk_queue>>
queueVars == <<ticket, inserted, pending, history, cleanup_tasks>>
controlVars == <<worker, current, worker_cancelled, stopping>>
vars == <<jobVars, queueVars, controlVars>>

None == 0                        \* the sentinel of chunk_queue; chunks are 1, 2, ...

ActiveStates == {"uploading", "queued", "processing", "streaming"}
TerminalStates == {"completed", "failed", "cancelled"}
Errors == {"none", "Job cancelled", "Queue stopped", "failure"}
LiveTask == {"created", "running", "cancelling"}
DoneTask == {"returned", "raised", "cancelled"}

Terminal(j) == status[j] \in TerminalStates
Registered(j) == ticket[j] > 0
ActiveJobs == {j \in Jobs : Registered(j) /\ status[j] \in ActiveStates}

\* _active_count
ActiveCount == Cardinality(ActiveJobs)

TypeOK ==
    /\ status \in [Jobs -> {"new"} \cup ActiveStates \cup TerminalStates]
    /\ audio_path \in [Jobs -> BOOLEAN]
    /\ error_message \in [Jobs -> Errors]
    /\ cancel_requested \in [Jobs -> BOOLEAN]
    /\ process_task \in [Jobs -> {"none"} \cup LiveTask \cup DoneTask]
    /\ terminal_notified \in [Jobs -> BOOLEAN]
    /\ cleanup_scheduled \in [Jobs -> BOOLEAN]
    /\ chunk_queue \in [Jobs -> Seq(Nat)]
    /\ ticket \in [Jobs -> Nat]
    /\ inserted \in Nat
    /\ pending \in Seq(Jobs)
    /\ history \in Seq(Jobs)
    /\ cleanup_tasks \in SUBSET Jobs
    /\ worker \in {"idle", "awaiting", "ended"}
    /\ current \in Jobs \cup {NoJob}
    /\ worker_cancelled \in BOOLEAN
    /\ stopping \in {"no", "stopping", "stopped"}

\* TranscriptionJob's defaults, TranscriptionQueue.__init__ and start_worker.
Init ==
    /\ status = [j \in Jobs |-> "new"]
    /\ audio_path = [j \in Jobs |-> FALSE]
    /\ error_message = [j \in Jobs |-> "none"]
    /\ cancel_requested = [j \in Jobs |-> FALSE]
    /\ process_task = [j \in Jobs |-> "none"]
    /\ terminal_notified = [j \in Jobs |-> FALSE]
    /\ cleanup_scheduled = [j \in Jobs |-> FALSE]
    /\ chunk_queue = [j \in Jobs |-> <<>>]
    /\ ticket = [j \in Jobs |-> 0]
    /\ inserted = 0
    /\ pending = <<>>
    /\ history = <<>>
    /\ cleanup_tasks = {}
    /\ worker = "idle"
    /\ current = NoJob
    /\ worker_cancelled = FALSE
    /\ stopping = "no"

-----------------------------------------------------------------------------
(* What several operations share.                                          *)

(* Definitions named Bug... are faulty variants of the one that follows    *)
(* them; no action uses them, they show that a property can fail.          *)

BugDiscardNothing(j) == UNCHANGED audio_path

\* discard_audio: the path is forgotten and the private upload directory
\* removed, both or neither.
DiscardAudio(j) == audio_path' = [audio_path EXCEPT ![j] = FALSE]

BugNotifyAgain(j) ==
    /\ terminal_notified' = [terminal_notified EXCEPT ![j] = TRUE]
    /\ chunk_queue' = [chunk_queue EXCEPT ![j] = Append(@, None)]

\* _notify_terminal: the sentinel is put once.
NotifyTerminal(j) ==
    /\ terminal_notified' = [terminal_notified EXCEPT ![j] = TRUE]
    /\ chunk_queue' = IF terminal_notified[j] THEN chunk_queue
                      ELSE [chunk_queue EXCEPT ![j] = Append(@, None)]

\* The task is created but nothing keeps it from being collected.
BugCleanupUnreferenced(j) ==
    /\ cleanup_scheduled' = [cleanup_scheduled EXCEPT ![j] = TRUE]
    /\ UNCHANGED cleanup_tasks

\* _schedule_cleanup: one cleanup task per job, none for a job already popped.
ScheduleCleanup(j) ==
    IF Registered(j) /\ ~cleanup_scheduled[j]
    THEN /\ cleanup_scheduled' = [cleanup_scheduled EXCEPT ![j] = TRUE]
         /\ cleanup_tasks' = cleanup_tasks \cup {j}
    ELSE UNCHANGED <<cleanup_scheduled, cleanup_tasks>>

BugTaskRunsOn(j) == UNCHANGED process_task

\* Task.cancel() on the job's process task, without effect on a done one.
CancelTask(j) ==
    process_task' = [process_task EXCEPT ![j] = IF @ \in LiveTask THEN "cancelling" ELSE @]

\* _get_position: rank among the QUEUED jobs in the order of _jobs; 0 is None.
GetPosition(j) ==
    IF Registered(j) /\ status[j] = "queued"
    THEN Cardinality({k \in Jobs : /\ Registered(k)
                                   /\ status[k] = "queued"
                                   /\ ticket[k] <= ticket[j]})
    ELSE 0

-----------------------------------------------------------------------------
(* The callers.                                                            *)

\* reserve: the caller sees QueueFull, and nothing changes, when the guard on
\* the count fails.
Reserve(j) ==
    /\ stopping = "no"
    /\ status[j] = "new"
    /\ ActiveCount < MaxSize
    /\ status' = [status EXCEPT ![j] = "uploading"]
    /\ ticket' = [ticket EXCEPT ![j] = inserted + 1]
    /\ inserted' = inserted + 1
    /\ UNCHANGED <<audio_path, error_message, cancel_requested, process_task,
                   terminal_notified, cleanup_scheduled, chunk_queue, pending,
                   history, cleanup_tasks, controlVars>>

\* The job becomes QUEUED and _pending the given sequence; its caller has assigned
\* job.audio_path just before, without an await in between.
PutPending(j, ids) ==
    /\ status' = [status EXCEPT ![j] = "queued"]
    /\ audio_path' = [audio_path EXCEPT ![j] = TRUE]
    /\ pending' = ids
    /\ UNCHANGED <<error_message, cancel_requested, process_task,
                   terminal_notified, cleanup_scheduled, chunk_queue, ticket,
                   inserted, history, cleanup_tasks, controlVars>>

BugSubmitTwice(j) ==
    /\ stopping = "no" /\ Registered(j) /\ status[j] \in {"uploading", "queued"}
    /\ PutPending(j, Append(pending, j))

BugSubmitInFront(j) ==
    /\ stopping = "no" /\ Registered(j) /\ status[j] = "uploading"
    /\ PutPending(j, <<j>> \o pending)

\* submit: KeyError or RuntimeError, and nothing changes, when a guard fails.
Submit(j) ==
    /\ stopping = "no"
    /\ Registered(j)
    /\ status[j] = "uploading"
    /\ PutPending(j, Append(pending, j))

\* cancel, where it returns True.
Cancel(j) ==
    /\ stopping # "stopped"
    /\ Registered(j)
    /\ ~Terminal(j)
    /\ cancel_requested' = [cancel_requested EXCEPT ![j] = TRUE]
    /\ status' = [status EXCEPT ![j] = "cancelled"]
    /\ error_message' = [error_message EXCEPT ![j] = "Job cancelled"]
    /\ CancelTask(j)
    /\ DiscardAudio(j)
    /\ NotifyTerminal(j)
    /\ ScheduleCleanup(j)
    /\ UNCHANGED <<ticket, inserted, pending, history, controlVars>>

-----------------------------------------------------------------------------
(* The worker.                                                             *)

\* The head of _pending is dropped: its job is gone or was cancelled.
WorkerSkip ==
    /\ worker = "idle"
    /\ pending # <<>>
    /\ ~Registered(Head(pending)) \/ status[Head(pending)] = "cancelled"
    /\ pending' = Tail(pending)
    /\ UNCHANGED <<jobVars, ticket, inserted, history, cleanup_tasks, controlVars>>

\* The head of _pending becomes PROCESSING and its process task is created.
StartHead ==
    /\ pending # <<>>
    /\ LET j == Head(pending) IN
       /\ Registered(j)
       /\ status[j] # "cancelled"
       /\ status' = [status EXCEPT ![j] = "processing"]
       /\ process_task' = [process_task EXCEPT ![j] = "created"]
       /\ current' = j
    /\ pending' = Tail(pending)
    /\ worker' = "awaiting"
    /\ UNCHANGED <<audio_path, error_message, cancel_requested, terminal_notified,
                   cleanup_scheduled, chunk_queue, ticket, inserted, history,
                   cleanup_tasks, worker_cancelled, stopping>>

\* As if the worker did not await the job that it has started.
BugTakeWhileBusy == worker # "ended" /\ StartHead

WorkerTake == worker = "idle" /\ StartHead

\* The finally block: the time of a completed or failed job enters the bounded
\* history, the task is dropped, the upload is deleted, the reader is notified.
WorkerFinally(j) ==
    /\ history' = IF status'[j] \notin {"completed", "failed"} THEN history
                  ELSE IF Len(history) < MaxHistory THEN Append(history, j)
                  ELSE Tail(Append(history, j))
    /\ process_task' = [process_task EXCEPT ![j] = "none"]
    /\ DiscardAudio(j)
    /\ NotifyTerminal(j)
    /\ ScheduleCleanup(j)
    /\ current' = NoJob
    /\ worker_cancelled' = FALSE
    /\ UNCHANGED <<cancel_requested, ticket, inserted, pending, stopping>>

\* The worker resumes with what awaiting the process task raises: its own
\* cancellation takes precedence over the outcome of the task.
WorkerSees(j, outcome) ==
    /\ worker = "awaiting"
    /\ current = j
    /\ process_task[j] \in DoneTask
    /\ outcome = IF worker_cancelled THEN "cancelled" ELSE process_task[j]

\* The worker leaves the try statement with this status and message, and goes on or
\* ends.
Finish(j, end, message, next) ==
    /\ status' = [status EXCEPT ![j] = end]
    /\ error_message' = [error_message EXCEPT ![j] = message]
    /\ worker' = next
    /\ WorkerFinally(j)

BugReturnedCompletes(j) ==
    WorkerSees(j, "returned") /\ Finish(j, "completed", error_message[j], "idle")

\* No exception: error_message decides between FAILED and COMPLETED.
WorkerReturned(j) ==
    /\ WorkerSees(j, "returned")
    /\ Finish(j, IF error_message[j] # "none" THEN "failed" ELSE "completed",
              error_message[j], "idle")

\* str(exc) of an exception without a message.
BugRaisedEmptyMessage(j) == WorkerSees(j, "raised") /\ Finish(j, "failed", "", "idle")

\* except Exception.
WorkerRaised(j) == WorkerSees(j, "raised") /\ Finish(j, "failed", "failure", "idle")

BugCancelledEndsWorker(j) ==
    WorkerSees(j, "cancelled") /\ Finish(j, "cancelled", "Job cancelled", "ended")

\* except CancelledError.  A cancellation of the job that its client asked for
\* is consumed and the loop goes on; any other one ends the worker.  The process
\* task is always done here, so the code that drains it (213-224) has no case.
WorkerCancelled(j) ==
    /\ WorkerSees(j, "cancelled")
    /\ IF cancel_requested[j] THEN Finish(j, "cancelled", "Job cancelled", "idle")
       ELSE Finish(j, "cancelled", "Queue stopped", "ended")

-----------------------------------------------------------------------------
(* The process task of the job: process_vibevoice_job, process_groq_job.   *)

\* The first step, up to the first await on a backend.  The upload is read here;
\* a job without one raises in require_audio_path.
ProcessStart(j) ==
    /\ process_task[j] = "created"
    /\ process_task' = [process_task EXCEPT ![j] = IF audio_path[j] THEN "running"
                                                   ELSE "raised"]
    /\ status' = IF Backend = "groq" THEN [status EXCEPT ![j] = "streaming"] ELSE status
    /\ UNCHANGED <<audio_path, error_message, cancel_requested, terminal_notified,
                   cleanup_scheduled, chunk_queue, queueVars, controlVars>>

\* vLLM yields one more piece of text, which is put on the job's queue.
ProcessChunk(j) ==
    /\ Backend = "vibevoice"
    /\ process_task[j] = "running"
    /\ Len(chunk_queue[j]) < MaxChunks
    /\ status' = [status EXCEPT ![j] = "streaming"]
    /\ chunk_queue' = [chunk_queue EXCEPT ![j] = Append(@, Len(@) + 1)]
    /\ UNCHANGED <<audio_path, error_message, cancel_requested, process_task,
                   terminal_notified, cleanup_scheduled, queueVars, controlVars>>

\* The stream has ended and its text is a list of segments; empty output is not.
VibeVoiceReturns(j) ==
    /\ Backend = "vibevoice"
    /\ chunk_queue[j] # <<>>
    /\ UNCHANGED chunk_queue

\* Groq has answered; the text is put as one chunk unless it is empty.
GroqReturns(j) ==
    /\ Backend = "groq"
    /\ chunk_queue' \in {chunk_queue, [chunk_queue EXCEPT ![j] = Append(@, 1)]}

ProcessReturn(j) ==
    /\ process_task[j] = "running"
    /\ VibeVoiceReturns(j) \/ GroqReturns(j)
    /\ process_task' = [process_task EXCEPT ![j] = "returned"]
    /\ UNCHANGED <<status, audio_path, error_message, cancel_requested,
                   terminal_notified, cleanup_scheduled, queueVars, controlVars>>

\* A vLLM error or timeout, or output that fails validation, which stores its
\* diagnosis in error_message before it raises.
VibeVoiceRaises(j) ==
    /\ Backend = "vibevoice"
    /\ \E e \in {error_message[j], "failure"} :
          error_message' = [error_message EXCEPT ![j] = e]

\* ffmpeg or the Groq API fails or times out.
GroqRaises == Backend = "groq" /\ UNCHANGED error_message

ProcessRaise(j) ==
    /\ process_task[j] = "running"
    /\ VibeVoiceRaises(j) \/ GroqRaises
    /\ process_task' = [process_task EXCEPT ![j] = "raised"]
    /\ UNCHANGED <<status, audio_path, cancel_requested, terminal_notified,
                   cleanup_scheduled, chunk_queue, queueVars, controlVars>>

\* The cancelled task has unwound: connection closed, ffmpeg killed and drained.
ProcessCancelled(j) ==
    /\ process_task[j] = "cancelling"
    /\ process_task' = [process_task EXCEPT ![j] = "cancelled"]
    /\ UNCHANGED <<status, audio_path, error_message, cancel_requested,
                   terminal_notified, cleanup_scheduled, chunk_queue, queueVars,
                   controlVars>>

-----------------------------------------------------------------------------
(* Cleanup and shutdown.                                                   *)

\* _cleanup_job after its sleep: the job is popped and its upload discarded.
CleanupJob(j) ==
    /\ j \in cleanup_tasks
    /\ cleanup_tasks' = cleanup_tasks \ {j}
    /\ ticket' = [ticket EXCEPT ![j] = 0]
    /\ audio_path' = IF Registered(j) THEN [audio_path EXCEPT ![j] = FALSE] ELSE audio_path
    /\ UNCHANGED <<status, error_message, cancel_requested, process_task,
                   terminal_notified, cleanup_scheduled, chunk_queue, inserted,
                   pending, history, controlVars>>

\* stop, up to the await of the worker: an idle worker ends, a busy one hands the
\* cancellation on to its process task unless that is done already.
Stop ==
    /\ stopping = "no"
    /\ stopping' = "stopping"
    /\ worker' = IF worker = "idle" THEN "ended" ELSE worker
    /\ IF worker = "awaiting" /\ process_task[current] \in LiveTask
       THEN CancelTask(current) /\ UNCHANGED worker_cancelled
       ELSE worker_cancelled' = (worker = "awaiting") /\ UNCHANGED process_task
    /\ UNCHANGED <<status, audio_path, error_message, cancel_requested,
                   terminal_notified, cleanup_scheduled, chunk_queue, queueVars,
                   current>>

\* stop after the worker has ended: the sleeping cleanup tasks are cancelled.
StopReturns ==
    /\ stopping = "stopping"
    /\ worker = "ended"
    /\ stopping' = "stopped"
    /\ cleanup_tasks' = {}
    /\ UNCHANGED <<jobVars, ticket, inserted, pending, history, worker, current,
                   worker_cancelled>>

-----------------------------------------------------------------------------
Worker == \/ WorkerSkip
          \/ WorkerTake
          \/ \E j \in Jobs : WorkerReturned(j) \/ WorkerRaised(j) \/ WorkerCancelled(j)

Process(j) == \/ ProcessStart(j)
              \/ ProcessChunk(j)
              \/ ProcessReturn(j)
              \/ ProcessRaise(j)
              \/ ProcessCancelled(j)

Caller(j) == Reserve(j) \/ Submit(j) \/ Cancel(j)

Next == \/ \E j \in Jobs : Caller(j) \/ Process(j) \/ CleanupJob(j)
        \/ Worker
        \/ Stop
        \/ StopReturns

Spec == Init /\ [][Next]_vars

-----------------------------------------------------------------------------
(* Safety.                                                                 *)

\* At most MaxSize jobs are uploading, queued or in work, whatever the order in
\* which uploads, cancellations, the worker and late process tasks run: the check
\* in reserve is the only one, so no later step may bring a job back to life.
CapacityBound == ActiveCount <= MaxSize

\* Single-request processing: a job that is PROCESSING or STREAMING, or whose
\* process task still exists (a cancelled one being killed included), is the one
\* that the worker awaits.
OneJobInService ==
    \A j \in Jobs : status[j] \in {"processing", "streaming"} \/ process_task[j] # "none"
                       => worker = "awaiting" /\ current = j

\* The upload is on disk exactly while somebody may still read it: a job that is
\* queued or in work has it, so that require_audio_path never fails in the process
\* task, and no completed, failed or cancelled job keeps it.
AudioWhileNeeded ==
    \A j \in Jobs : audio_path[j] <=> status[j] \in {"queued", "processing", "streaming"}

\* The reader of chunk_queue gets the sentinel exactly once, as the last item, and
\* from the moment the job is terminal: no chunk is put behind it by a process task
\* that outlives its cancellation, and none is missing when the worker gives up.
SentinelClosesStream ==
    \A j \in Jobs :
        /\ Terminal(j) <=> terminal_notified[j]
        /\ terminal_notified[j] <=> \E i \in DOMAIN chunk_queue[j] : chunk_queue[j][i] = None
        /\ \A i \in DOMAIN chunk_queue[j] :
                chunk_queue[j][i] = None => i = Len(chunk_queue[j])

\* _pending and the states agree: a QUEUED job is in _pending, once, so it is
\* neither forgotten nor run twice, and what else is in there was cancelled and
\* will be skipped.
PendingAgrees ==
    /\ \A j \in Jobs : status[j] = "queued" => \E i \in DOMAIN pending : pending[i] = j
    /\ \A i \in DOMAIN pending : status[pending[i]] \in {"queued", "cancelled"}
    /\ \A i, k \in DOMAIN pending : pending[i] = pending[k] => i = k

\* Until stop() has returned, the jobs that wait for their cleanup are exactly the
\* terminal jobs still in _jobs: none stays there for ever, and no job is popped
\* while it holds capacity.
CleanupCoversTerminal ==
    stopping # "stopped" =>
        cleanup_tasks = {j \in Jobs : Registered(j) /\ Terminal(j)}

\* A job that its client cancelled is never reported as completed, even when the
\* process task had already returned and the worker not yet resumed.
CancelledNeverCompletes == \A j \in Jobs : cancel_requested[j] => status[j] # "completed"

\* A terminal status is never left for an active one, and the only change between
\* terminal ones is CANCELLED to FAILED, by the worker that resumes late.
TerminalStaysTerminal ==
    [][\A j \in Jobs : Terminal(j) =>
          \/ status'[j] = status[j]
          \/ status[j] = "cancelled" /\ status'[j] = "failed" /\ current = j]_vars

\* Stronger, and not true of the code: a job once CANCELLED stays CANCELLED.
CancelledIsFinal ==
    [][\A j \in Jobs : status[j] = "cancelled" => status'[j] = "cancelled"]_vars

\* Not true of the code: the job with the smaller reported position is the one that
\* the worker takes first.  Positions follow reserve, the worker follows submit.
PositionIsServiceOrder ==
    \A i, k \in DOMAIN pending :
        (/\ i < k
         /\ GetPosition(pending[i]) > 0
         /\ GetPosition(pending[k]) > 0) => GetPosition(pending[i]) < GetPosition(pending[k])

-----------------------------------------------------------------------------
(* Liveness.                                                               *)

\* The worker gets to every submitted job and brings it to a terminal state, across
\* failures and cancellations of the jobs before it, unless the queue is stopped.
QueuedJobFinishes ==
    \A j \in Jobs : status[j] = "queued" ~> (Terminal(j) \/ stopping # "no")

\* Not true of the code: stop() returns once it has been called.
StopCompletes == stopping = "stopping" ~> stopping = "stopped"

-----------------------------------------------------------------------------
(* What the queue promises: first come, first served, one at a time.       *)

Phase(j) == CASE status[j] = "new" -> "new"
              [] status[j] = "uploading" -> "admitted"
              [] status[j] = "queued" -> "waiting"
              [] status[j] \in {"processing", "streaming"} -> "served"
              [] OTHER -> "over"

InFront(ids, k, j) == \E m, n \in DOMAIN ids : m < n /\ ids[m] = k /\ ids[n] = j

\* The queued jobs that come before the job in _pending.
Before(j) == {k \in Jobs : /\ status[k] = "queued"
                           /\ status[j] = "queued"
                           /\ InFront(pending, k, j)}

Service == INSTANCE SerialService WITH
    Clients <- Jobs, Places <- MaxSize,
    phase <- [j \in Jobs |-> Phase(j)], ahead <- [j \in Jobs |-> Before(j)]

\* Every behaviour of the queue is one of the serial service.
ImplementsSerialService == Service!Spec
=============================================================================
