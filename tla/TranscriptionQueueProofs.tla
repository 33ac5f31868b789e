---------------------- MODULE TranscriptionQueueProofs ----------------------
(***************************************************************************)
(* Theorems about TranscriptionQueue, for any finite set of jobs and any   *)
(* bounds.                                                                 *)
(***************************************************************************)
EXTENDS TranscriptionQueue, FiniteSetTheorems, SequenceTheorems, TLAPS

-----------------------------------------------------------------------------
(* Typing.                                                                 *)

\* What appending does to a sequence.
LEMMA AppendFacts ==
    ASSUME NEW S, NEW s \in Seq(S), NEW e \in S
    PROVE  /\ Append(s, e) \in Seq(S)
           /\ Tail(Append(s, e)) \in Seq(S)
           /\ Len(s) \in Nat
           /\ DOMAIN s = 1 .. Len(s)
           /\ Len(Append(s, e)) = Len(s) + 1
           /\ DOMAIN Append(s, e) = 1 .. Len(s) + 1
           /\ \A i \in 1 .. Len(s) : Append(s, e)[i] = s[i]
           /\ Append(s, e)[Len(s) + 1] = e
  BY AppendProperties, HeadTailProperties

\* What taking the head off a sequence does.
LEMMA TailFacts ==
    ASSUME NEW S, NEW s \in Seq(S), s # <<>>
    PROVE  /\ Len(s) \in Nat \ {0}
           /\ DOMAIN s = 1 .. Len(s)
           /\ Tail(s) \in Seq(S)
           /\ DOMAIN Tail(s) = 1 .. Len(s) - 1
           /\ \A i \in 1 .. Len(s) - 1 : Tail(s)[i] = s[i + 1]
           /\ Head(s) = s[1]
           /\ Head(s) \in S
  BY HeadTailProperties, EmptySeq

\* In a sequence without duplicates the tail holds the other elements, once each.
LEMMA TailDistinct ==
    ASSUME NEW S, NEW s \in Seq(S), s # <<>>,
           \A i, k \in DOMAIN s : s[i] = s[k] => i = k
    PROVE  /\ Head(s) \in S
           /\ \E m \in DOMAIN s : Head(s) = s[m]
           /\ \A i \in DOMAIN Tail(s) : /\ Tail(s)[i] \in S
                                        /\ Tail(s)[i] # Head(s)
                                        /\ \E m \in DOMAIN s : Tail(s)[i] = s[m]
           /\ \A i, k \in DOMAIN Tail(s) : Tail(s)[i] = Tail(s)[k] => i = k
           /\ \A m \in DOMAIN s : s[m] # Head(s) => \E i \in DOMAIN Tail(s) : Tail(s)[i] = s[m]
<1>1. /\ Len(s) \in Nat \ {0}
      /\ DOMAIN s = 1 .. Len(s)
      /\ Tail(s) \in Seq(S)
      /\ DOMAIN Tail(s) = 1 .. Len(s) - 1
      /\ \A i \in 1 .. Len(s) - 1 : Tail(s)[i] = s[i + 1]
      /\ Head(s) = s[1]
      /\ Head(s) \in S
  BY TailFacts
<1>2. \A i \in DOMAIN Tail(s) : i \in Nat /\ i + 1 \in DOMAIN s /\ i + 1 # 1
  BY <1>1
<1>3. 1 \in DOMAIN s
  BY <1>1
<1>4. \A i \in DOMAIN Tail(s) : Tail(s)[i] \in S /\ Tail(s)[i] # Head(s)
  BY <1>1, <1>2, <1>3
<1>5. \A i, k \in DOMAIN Tail(s) : Tail(s)[i] = Tail(s)[k] => i = k
  <2> TAKE i, k \in DOMAIN Tail(s)
  <2> HAVE Tail(s)[i] = Tail(s)[k]
  <2>1. i + 1 = k + 1
    BY <1>1, <1>2
  <2> QED
    BY <1>2, <2>1
<1>6. ASSUME NEW m \in DOMAIN s, s[m] # Head(s)
      PROVE  \E i \in DOMAIN Tail(s) : Tail(s)[i] = s[m]
  <2>1. m - 1 \in DOMAIN Tail(s) /\ Tail(s)[m - 1] = s[m]
    BY <1>1, <1>6
  <2> QED
    BY <2>1
<1> QED
  BY <1>1, <1>2, <1>3, <1>4, <1>5, <1>6

\* Typing is preserved by the finally block of the worker once the status of the job
\* has been set to a terminal one.
LEMMA FinallyTypes ==
    ASSUME TypeOK, NEW j \in Jobs, WorkerFinally(j)
    PROVE  /\ audio_path' \in [Jobs -> BOOLEAN]
           /\ cancel_requested' \in [Jobs -> BOOLEAN]
           /\ process_task' \in [Jobs -> {"none"} \cup LiveTask \cup DoneTask]
           /\ terminal_notified' \in [Jobs -> BOOLEAN]
           /\ cleanup_scheduled' \in [Jobs -> BOOLEAN]
           /\ chunk_queue' \in [Jobs -> Seq(Nat)]
           /\ ticket' \in [Jobs -> Nat]
           /\ inserted' \in Nat
           /\ pending' \in Seq(Jobs)
           /\ history' \in Seq(Jobs)
           /\ cleanup_tasks' \in SUBSET Jobs
           /\ current' \in Jobs \cup {NoJob}
           /\ worker_cancelled' \in BOOLEAN
           /\ stopping' \in {"no", "stopping", "stopped"}
<1>1. history' \in Seq(Jobs)
  <2>1. history \in Seq(Jobs)
    BY DEF TypeOK
  <2>2. Append(history, j) \in Seq(Jobs) /\ Tail(Append(history, j)) \in Seq(Jobs)
    BY <2>1, AppendFacts
  <2> QED
    BY <2>1, <2>2 DEF WorkerFinally
<1>2. chunk_queue' \in [Jobs -> Seq(Nat)] /\ terminal_notified' \in [Jobs -> BOOLEAN]
  BY AppendFacts DEF TypeOK, WorkerFinally, NotifyTerminal, None
<1>3. cleanup_scheduled' \in [Jobs -> BOOLEAN] /\ cleanup_tasks' \in SUBSET Jobs
  BY DEF TypeOK, WorkerFinally, ScheduleCleanup
<1>4. process_task' \in [Jobs -> {"none"} \cup LiveTask \cup DoneTask]
  BY DEF TypeOK, WorkerFinally
<1> QED
  BY <1>1, <1>2, <1>3, <1>4 DEF TypeOK, WorkerFinally, DiscardAudio

\* Every step of the queue preserves its type invariant.
LEMMA TypeStep == TypeOK /\ [Next]_vars => TypeOK'
<1> SUFFICES ASSUME TypeOK, [Next]_vars PROVE TypeOK'
  OBVIOUS
<1> USE DEF TypeOK, jobVars, queueVars, controlVars
<1>1. ASSUME NEW j \in Jobs, Reserve(j) PROVE TypeOK'
  BY <1>1 DEF Reserve, ActiveStates
<1>2. ASSUME NEW j \in Jobs, Submit(j) PROVE TypeOK'
  BY <1>2 DEF Submit, PutPending, ActiveStates
<1>3. ASSUME NEW j \in Jobs, Cancel(j) PROVE TypeOK'
  <2> USE <1>3 DEF Cancel
  <2>1. process_task' \in [Jobs -> {"none"} \cup LiveTask \cup DoneTask]
    BY DEF CancelTask, LiveTask
  <2>2. terminal_notified' \in [Jobs -> BOOLEAN] /\ chunk_queue' \in [Jobs -> Seq(Nat)]
    <3>1. Append(chunk_queue[j], None) \in Seq(Nat)
      BY AppendFacts DEF None
    <3> QED
      BY <3>1 DEF NotifyTerminal
  <2>3. cleanup_scheduled' \in [Jobs -> BOOLEAN] /\ cleanup_tasks' \in SUBSET Jobs
    BY DEF ScheduleCleanup
  <2>4. status' \in [Jobs -> {"new"} \cup ActiveStates \cup TerminalStates]
    BY DEF TerminalStates
  <2>5. error_message' \in [Jobs -> Errors]
    BY DEF Errors
  <2> QED
    BY <2>1, <2>2, <2>3, <2>4, <2>5 DEF DiscardAudio
<1>4. CASE WorkerSkip
  BY <1>4 DEF WorkerSkip
<1>5. CASE WorkerTake
  BY <1>5 DEF WorkerTake, StartHead, ActiveStates, LiveTask
<1>6. ASSUME NEW j \in Jobs, WorkerReturned(j) PROVE TypeOK'
  BY <1>6, FinallyTypes DEF WorkerReturned, Finish, TerminalStates
<1>7. ASSUME NEW j \in Jobs, WorkerRaised(j) PROVE TypeOK'
  BY <1>7, FinallyTypes DEF WorkerRaised, Finish, TerminalStates, Errors
<1>8. ASSUME NEW j \in Jobs, WorkerCancelled(j) PROVE TypeOK'
  BY <1>8, FinallyTypes DEF WorkerCancelled, Finish, TerminalStates, Errors
<1>9. ASSUME NEW j \in Jobs, ProcessStart(j) PROVE TypeOK'
  BY <1>9 DEF ProcessStart, ActiveStates, LiveTask, DoneTask
<1>10. ASSUME NEW j \in Jobs, ProcessChunk(j) PROVE TypeOK'
  BY <1>10 DEF ProcessChunk, ActiveStates
<1>11. ASSUME NEW j \in Jobs, ProcessReturn(j) PROVE TypeOK'
  <2>1. chunk_queue' \in [Jobs -> Seq(Nat)]
    <3>1. \A i \in Jobs : Append(chunk_queue[i], 1) \in Seq(Nat)
      OBVIOUS
    <3> QED
      BY <1>11, <3>1 DEF ProcessReturn, VibeVoiceReturns, GroqReturns
  <2>2. process_task' \in [Jobs -> {"none"} \cup LiveTask \cup DoneTask]
    BY <1>11 DEF ProcessReturn, VibeVoiceReturns, GroqReturns, DoneTask
  <2> QED
    BY <1>11, <2>1, <2>2 DEF ProcessReturn, VibeVoiceReturns, GroqReturns
<1>12. ASSUME NEW j \in Jobs, ProcessRaise(j) PROVE TypeOK'
  BY <1>12 DEF ProcessRaise, VibeVoiceRaises, GroqRaises, DoneTask, Errors
<1>13. ASSUME NEW j \in Jobs, ProcessCancelled(j) PROVE TypeOK'
  BY <1>13 DEF ProcessCancelled, DoneTask
<1>14. ASSUME NEW j \in Jobs, CleanupJob(j) PROVE TypeOK'
  BY <1>14 DEF CleanupJob
<1>15. CASE Stop
  BY <1>15 DEF Stop, CancelTask, LiveTask
<1>16. CASE StopReturns
  BY <1>16 DEF StopReturns
<1>17. CASE UNCHANGED vars
  BY <1>17 DEF vars
<1> QED
  BY <1>1, <1>2, <1>3, <1>4, <1>5, <1>6, <1>7, <1>8, <1>9, <1>10, <1>11, <1>12, <1>13,
     <1>14, <1>15, <1>16, <1>17 DEF Next, Caller, Process, Worker

\* The initial state is typed.
LEMMA TypeInit == Init => TypeOK
<1> SUFFICES ASSUME Init PROVE TypeOK
  OBVIOUS
<1>1. <<>> \in Seq(Nat) /\ <<>> \in Seq(Jobs)
  OBVIOUS
<1>2. chunk_queue \in [Jobs -> Seq(Nat)] /\ pending \in Seq(Jobs) /\ history \in Seq(Jobs)
  BY <1>1 DEF Init
<1> QED
  BY <1>2 DEF Init, TypeOK, Errors

\* The type invariant of the queue holds for any number of jobs.
THEOREM TypeCorrect == Spec => []TypeOK
  BY TypeInit, TypeStep, PTL DEF Spec

-----------------------------------------------------------------------------
(* The inductive invariant.                                                *)

\* A process task exists only for the job that the worker awaits; until it is
\* cancelled or done its job is in service.
TaskInv ==
    /\ worker = "awaiting" => current \in Jobs /\ process_task[current] # "none"
    /\ \A j \in Jobs :
        /\ process_task[j] # "none" =>
              /\ worker = "awaiting"
              /\ current = j
              /\ status[j] \in {"processing", "streaming", "cancelled"}
        /\ status[j] \in {"processing", "streaming"} => process_task[j] # "none"
        /\ process_task[j] \in {"created", "running"} => status[j] \in {"processing", "streaming"}

\* Active jobs are registered; the others are not yet, still or no longer.
RegInv ==
    \A j \in Jobs : /\ status[j] = "new" => ~Registered(j)
                    /\ status[j] \in ActiveStates => Registered(j)

\* A job that its client cancelled stays terminal, with an error message.
CancelInv ==
    \A j \in Jobs : cancel_requested[j] =>
        status[j] \in {"cancelled", "failed"} /\ error_message[j] # "none"

\* A process task that outlives its job's end is that of a job cancelled by its client.
LateInv == \A j \in Jobs : process_task[j] # "none" /\ Terminal(j) => cancel_requested[j]

\* Cleanup is scheduled when the job becomes terminal and stays so.
CleanInv ==
    /\ CleanupCoversTerminal
    /\ stopping = "stopped" => worker = "ended" /\ cleanup_tasks = {}
    /\ \A j \in Jobs : cleanup_scheduled[j] <=> Terminal(j)

\* The jobs in _pending have no process task.
PendInv ==
    /\ PendingAgrees
    /\ \A i \in DOMAIN pending : process_task[pending[i]] = "none"

Inv == /\ TypeOK
       /\ TaskInv
       /\ RegInv
       /\ CancelInv
       /\ LateInv
       /\ CleanInv
       /\ PendInv
       /\ AudioWhileNeeded
       /\ SentinelClosesStream

\* What the three ways in which the worker finishes a job have in common.
Finishes(j) ==
    /\ worker = "awaiting"
    /\ current = j
    /\ process_task[j] \in DoneTask
    /\ \E s \in TerminalStates, e \in Errors :
          /\ status' = [status EXCEPT ![j] = s]
          /\ error_message' = [error_message EXCEPT ![j] = e]
          /\ cancel_requested[j] => s # "completed" /\ e # "none"
    /\ worker' \in {"idle", "ended"}
    /\ WorkerFinally(j)

\* Each of them finishes the job; one that its client cancelled keeps an error message
\* and so does not become completed.
LEMMA FinishFacts ==
    ASSUME Inv, NEW j \in Jobs,
           WorkerReturned(j) \/ WorkerRaised(j) \/ WorkerCancelled(j)
    PROVE  Finishes(j)
<1>1. CASE WorkerReturned(j)
  <2> DEFINE s == IF error_message[j] # "none" THEN "failed" ELSE "completed"
  <2>1. s \in TerminalStates /\ error_message[j] \in Errors
    BY DEF Inv, TypeOK, TerminalStates
  <2>2. cancel_requested[j] => s # "completed" /\ error_message[j] # "none"
    BY DEF Inv, CancelInv
  <2> QED
    BY <1>1, <2>1, <2>2 DEF WorkerReturned, WorkerSees, Finish, Finishes
<1>2. CASE WorkerRaised(j)
  BY <1>2 DEF WorkerRaised, WorkerSees, Finish, Finishes, TerminalStates, Errors
<1>3. CASE WorkerCancelled(j)
  BY <1>3 DEF WorkerCancelled, WorkerSees, Finish, Finishes, TerminalStates, Errors
<1> QED
  BY <1>1, <1>2, <1>3

\* The cases of a step, those of the worker's end of a job taken together.
LEMMA NextCases ==
    ASSUME Inv, [Next]_vars
    PROVE  \/ \E j \in Jobs : Reserve(j)
           \/ \E j \in Jobs : Submit(j)
           \/ \E j \in Jobs : Cancel(j)
           \/ WorkerSkip
           \/ WorkerTake
           \/ \E j \in Jobs : Finishes(j)
           \/ \E j \in Jobs : ProcessStart(j)
           \/ \E j \in Jobs : ProcessChunk(j)
           \/ \E j \in Jobs : ProcessReturn(j)
           \/ \E j \in Jobs : ProcessRaise(j)
           \/ \E j \in Jobs : ProcessCancelled(j)
           \/ \E j \in Jobs : CleanupJob(j)
           \/ Stop
           \/ StopReturns
           \/ UNCHANGED vars
  BY FinishFacts DEF Next, Caller, Process, Worker

\* The process task belongs to the awaited job.
LEMMA TaskStep == Inv /\ [Next]_vars => TaskInv'
<1> SUFFICES ASSUME Inv, [Next]_vars PROVE TaskInv'
  OBVIOUS
<1> USE DEF Inv, TypeOK, TaskInv, jobVars, queueVars, controlVars
<1>1. ASSUME NEW j \in Jobs, Reserve(j) PROVE TaskInv'
  BY <1>1 DEF Reserve
<1>2. ASSUME NEW j \in Jobs, Submit(j) PROVE TaskInv'
  BY <1>2 DEF Submit, PutPending
<1>3. ASSUME NEW j \in Jobs, Cancel(j) PROVE TaskInv'
  BY <1>3 DEF Cancel, CancelTask, LiveTask
<1>4. CASE WorkerSkip
  BY <1>4 DEF WorkerSkip
<1>5. CASE WorkerTake
  BY <1>5 DEF WorkerTake, StartHead, PendInv
<1>6. ASSUME NEW j \in Jobs, Finishes(j) PROVE TaskInv'
  BY <1>6 DEF Finishes, WorkerFinally, TerminalStates
<1>7. ASSUME NEW j \in Jobs, ProcessStart(j) PROVE TaskInv'
  BY <1>7 DEF ProcessStart
<1>8. ASSUME NEW j \in Jobs, ProcessChunk(j) PROVE TaskInv'
  BY <1>8 DEF ProcessChunk
<1>9. ASSUME NEW j \in Jobs, ProcessReturn(j) PROVE TaskInv'
  BY <1>9 DEF ProcessReturn, VibeVoiceReturns, GroqReturns
<1>10. ASSUME NEW j \in Jobs, ProcessRaise(j) PROVE TaskInv'
  BY <1>10 DEF ProcessRaise, VibeVoiceRaises, GroqRaises
<1>11. ASSUME NEW j \in Jobs, ProcessCancelled(j) PROVE TaskInv'
  BY <1>11 DEF ProcessCancelled
<1>12. ASSUME NEW j \in Jobs, CleanupJob(j) PROVE TaskInv'
  BY <1>12 DEF CleanupJob
<1>13. CASE Stop
  BY <1>13 DEF Stop, CancelTask, LiveTask
<1>14. CASE StopReturns
  BY <1>14 DEF StopReturns
<1>15. CASE UNCHANGED vars
  BY <1>15 DEF vars
<1> QED
  BY <1>1, <1>2, <1>3, <1>4, <1>5, <1>6, <1>7, <1>8, <1>9, <1>10, <1>11, <1>12, <1>13,
     <1>14, <1>15, NextCases

\* Active jobs stay registered: only terminal ones are popped.
LEMMA RegStep == Inv /\ [Next]_vars => RegInv'
<1> SUFFICES ASSUME Inv, [Next]_vars PROVE RegInv'
  OBVIOUS
<1> USE DEF Inv, TypeOK, RegInv, Registered, ActiveStates, jobVars, queueVars, controlVars
<1>1. ASSUME NEW j \in Jobs, Reserve(j) PROVE RegInv'
  BY <1>1 DEF Reserve
<1>2. ASSUME NEW j \in Jobs, Submit(j) PROVE RegInv'
  BY <1>2 DEF Submit, PutPending
<1>3. ASSUME NEW j \in Jobs, Cancel(j) PROVE RegInv'
  BY <1>3 DEF Cancel, Terminal, TerminalStates
<1>4. CASE WorkerSkip
  BY <1>4 DEF WorkerSkip
<1>5. CASE WorkerTake
  BY <1>5 DEF WorkerTake, StartHead
<1>6. ASSUME NEW j \in Jobs, Finishes(j) PROVE RegInv'
  BY <1>6 DEF Finishes, WorkerFinally, TerminalStates, TaskInv
<1>7. ASSUME NEW j \in Jobs, ProcessStart(j) PROVE RegInv'
  BY <1>7 DEF ProcessStart, TaskInv
<1>8. ASSUME NEW j \in Jobs, ProcessChunk(j) PROVE RegInv'
  BY <1>8 DEF ProcessChunk, TaskInv
<1>9. ASSUME NEW j \in Jobs, ProcessReturn(j) PROVE RegInv'
  BY <1>9 DEF ProcessReturn, VibeVoiceReturns, GroqReturns
<1>10. ASSUME NEW j \in Jobs, ProcessRaise(j) PROVE RegInv'
  BY <1>10 DEF ProcessRaise, VibeVoiceRaises, GroqRaises
<1>11. ASSUME NEW j \in Jobs, ProcessCancelled(j) PROVE RegInv'
  BY <1>11 DEF ProcessCancelled
<1>12. ASSUME NEW j \in Jobs, CleanupJob(j) PROVE RegInv'
  BY <1>12 DEF CleanupJob, CleanInv, CleanupCoversTerminal, Terminal, TerminalStates
<1>13. CASE Stop
  BY <1>13 DEF Stop
<1>14. CASE StopReturns
  BY <1>14 DEF StopReturns
<1>15. CASE UNCHANGED vars
  BY <1>15 DEF vars
<1> QED
  BY <1>1, <1>2, <1>3, <1>4, <1>5, <1>6, <1>7, <1>8, <1>9, <1>10, <1>11, <1>12, <1>13,
     <1>14, <1>15, NextCases

\* A job cancelled by its client keeps its end and its message.
LEMMA CancelStep == Inv /\ [Next]_vars => CancelInv'
<1> SUFFICES ASSUME Inv, [Next]_vars PROVE CancelInv'
  OBVIOUS
<1> USE DEF Inv, TypeOK, CancelInv, jobVars, queueVars, controlVars
<1>1. ASSUME NEW j \in Jobs, Reserve(j) PROVE CancelInv'
  BY <1>1 DEF Reserve
<1>2. ASSUME NEW j \in Jobs, Submit(j) PROVE CancelInv'
  BY <1>2 DEF Submit, PutPending
<1>3. ASSUME NEW j \in Jobs, Cancel(j) PROVE CancelInv'
  BY <1>3 DEF Cancel
<1>4. CASE WorkerSkip
  BY <1>4 DEF WorkerSkip
<1>5. CASE WorkerTake
  BY <1>5 DEF WorkerTake, StartHead, PendInv, PendingAgrees
<1>6. ASSUME NEW j \in Jobs, Finishes(j) PROVE CancelInv'
  BY <1>6 DEF Finishes, WorkerFinally, TerminalStates
<1>7. ASSUME NEW j \in Jobs, ProcessStart(j) PROVE CancelInv'
  BY <1>7 DEF ProcessStart, TaskInv
<1>8. ASSUME NEW j \in Jobs, ProcessChunk(j) PROVE CancelInv'
  BY <1>8 DEF ProcessChunk, TaskInv
<1>9. ASSUME NEW j \in Jobs, ProcessReturn(j) PROVE CancelInv'
  BY <1>9 DEF ProcessReturn, VibeVoiceReturns, GroqReturns
<1>10. ASSUME NEW j \in Jobs, ProcessRaise(j) PROVE CancelInv'
  BY <1>10 DEF ProcessRaise, VibeVoiceRaises, GroqRaises
<1>11. ASSUME NEW j \in Jobs, ProcessCancelled(j) PROVE CancelInv'
  BY <1>11 DEF ProcessCancelled
<1>12. ASSUME NEW j \in Jobs, CleanupJob(j) PROVE CancelInv'
  BY <1>12 DEF CleanupJob
<1>13. CASE Stop
  BY <1>13 DEF Stop
<1>14. CASE StopReturns
  BY <1>14 DEF StopReturns
<1>15. CASE UNCHANGED vars
  BY <1>15 DEF vars
<1> QED
  BY <1>1, <1>2, <1>3, <1>4, <1>5, <1>6, <1>7, <1>8, <1>9, <1>10, <1>11, <1>12, <1>13,
     <1>14, <1>15, NextCases

\* Only cancel makes a job terminal before its process task is gone.
LEMMA LateStep == Inv /\ [Next]_vars => LateInv'
<1> SUFFICES ASSUME Inv, [Next]_vars PROVE LateInv'
  OBVIOUS
<1> USE DEF Inv, TypeOK, LateInv, Terminal, TerminalStates, jobVars, queueVars, controlVars
<1>1. ASSUME NEW j \in Jobs, Reserve(j) PROVE LateInv'
  BY <1>1 DEF Reserve
<1>2. ASSUME NEW j \in Jobs, Submit(j) PROVE LateInv'
  BY <1>2 DEF Submit, PutPending
<1>3. ASSUME NEW j \in Jobs, Cancel(j) PROVE LateInv'
  BY <1>3 DEF Cancel, CancelTask, LiveTask
<1>4. CASE WorkerSkip
  BY <1>4 DEF WorkerSkip
<1>5. CASE WorkerTake
  BY <1>5 DEF WorkerTake, StartHead
<1>6. ASSUME NEW j \in Jobs, Finishes(j) PROVE LateInv'
  BY <1>6 DEF Finishes, WorkerFinally
<1>7. ASSUME NEW j \in Jobs, ProcessStart(j) PROVE LateInv'
  BY <1>7 DEF ProcessStart
<1>8. ASSUME NEW j \in Jobs, ProcessChunk(j) PROVE LateInv'
  BY <1>8 DEF ProcessChunk
<1>9. ASSUME NEW j \in Jobs, ProcessReturn(j) PROVE LateInv'
  BY <1>9 DEF ProcessReturn, VibeVoiceReturns, GroqReturns
<1>10. ASSUME NEW j \in Jobs, ProcessRaise(j) PROVE LateInv'
  BY <1>10 DEF ProcessRaise, VibeVoiceRaises, GroqRaises
<1>11. ASSUME NEW j \in Jobs, ProcessCancelled(j) PROVE LateInv'
  BY <1>11 DEF ProcessCancelled
<1>12. ASSUME NEW j \in Jobs, CleanupJob(j) PROVE LateInv'
  BY <1>12 DEF CleanupJob
<1>13. CASE Stop
  BY <1>13 DEF Stop, CancelTask, LiveTask
<1>14. CASE StopReturns
  BY <1>14 DEF StopReturns
<1>15. CASE UNCHANGED vars
  BY <1>15 DEF vars
<1> QED
  BY <1>1, <1>2, <1>3, <1>4, <1>5, <1>6, <1>7, <1>8, <1>9, <1>10, <1>11, <1>12, <1>13,
     <1>14, <1>15, NextCases

\* The terminal jobs in _jobs are those with a cleanup task.
LEMMA CleanStep == Inv /\ [Next]_vars => CleanInv'
<1> SUFFICES ASSUME Inv, [Next]_vars PROVE CleanInv'
  OBVIOUS
<1> USE DEF Inv, TypeOK, CleanInv, CleanupCoversTerminal, Terminal, TerminalStates,
            Registered, jobVars, queueVars, controlVars
<1>1. ASSUME NEW j \in Jobs, Reserve(j) PROVE CleanInv'
  BY <1>1 DEF Reserve, RegInv
<1>2. ASSUME NEW j \in Jobs, Submit(j) PROVE CleanInv'
  BY <1>2 DEF Submit, PutPending
<1>3. ASSUME NEW j \in Jobs, Cancel(j) PROVE CleanInv'
  <2>1. Registered(j) /\ ~cleanup_scheduled[j]
    BY <1>3 DEF Cancel
  <2>2. /\ cleanup_scheduled' = [cleanup_scheduled EXCEPT ![j] = TRUE]
        /\ cleanup_tasks' = cleanup_tasks \cup {j}
    BY <1>3, <2>1 DEF Cancel, ScheduleCleanup
  <2>3. status' = [status EXCEPT ![j] = "cancelled"] /\ UNCHANGED <<ticket, stopping, worker>>
    BY <1>3 DEF Cancel
  <2>4. stopping # "stopped" /\ stopping' # "stopped"
    BY <1>3 DEF Cancel
  <2>5. cleanup_tasks' = {k \in Jobs : ticket'[k] > 0 /\ status'[k] \in TerminalStates}
    BY <2>1, <2>2, <2>3, <2>4
  <2> QED
    BY <2>2, <2>3, <2>4, <2>5
<1>4. CASE WorkerSkip
  BY <1>4 DEF WorkerSkip
<1>5. CASE WorkerTake
  BY <1>5 DEF WorkerTake, StartHead, PendInv, PendingAgrees
<1>6. ASSUME NEW j \in Jobs, Finishes(j) PROVE CleanInv'
  <2>1. PICK s \in TerminalStates : status' = [status EXCEPT ![j] = s]
    BY <1>6 DEF Finishes
  <2>2. UNCHANGED <<ticket, stopping>> /\ ScheduleCleanup(j)
    BY <1>6 DEF Finishes, WorkerFinally
  <2>3. stopping # "stopped" /\ stopping' # "stopped"
    BY <1>6, <2>2 DEF Finishes
  <2>4. status[j] \in {"processing", "streaming", "cancelled"}
    BY <1>6 DEF Finishes, TaskInv, DoneTask
  <2>5. CASE Terminal(j)
    <3>1. UNCHANGED <<cleanup_scheduled, cleanup_tasks>>
      BY <2>2, <2>5 DEF ScheduleCleanup
    <3>2. cleanup_tasks' = {k \in Jobs : ticket'[k] > 0 /\ status'[k] \in TerminalStates}
      BY <2>1, <2>2, <2>3, <2>5, <3>1
    <3>3. \A k \in Jobs : cleanup_scheduled'[k] <=> status'[k] \in TerminalStates
      BY <2>1, <2>5, <3>1
    <3> QED
      BY <2>3, <3>2, <3>3
  <2>6. CASE ~Terminal(j)
    <3>1. Registered(j) /\ ~cleanup_scheduled[j]
      BY <2>4, <2>6 DEF RegInv, ActiveStates
    <3>2. /\ cleanup_scheduled' = [cleanup_scheduled EXCEPT ![j] = TRUE]
          /\ cleanup_tasks' = cleanup_tasks \cup {j}
      BY <2>2, <3>1 DEF ScheduleCleanup
    <3>3. cleanup_tasks' = {k \in Jobs : ticket'[k] > 0 /\ status'[k] \in TerminalStates}
      BY <2>1, <2>2, <2>3, <3>1, <3>2
    <3>4. \A k \in Jobs : cleanup_scheduled'[k] <=> status'[k] \in TerminalStates
      BY <2>1, <3>2
    <3> QED
      BY <2>3, <3>3, <3>4
  <2> QED
    BY <2>5, <2>6
<1>7. ASSUME NEW j \in Jobs, ProcessStart(j) PROVE CleanInv'
  BY <1>7 DEF ProcessStart, TaskInv
<1>8. ASSUME NEW j \in Jobs, ProcessChunk(j) PROVE CleanInv'
  BY <1>8 DEF ProcessChunk, TaskInv
<1>9. ASSUME NEW j \in Jobs, ProcessReturn(j) PROVE CleanInv'
  BY <1>9 DEF ProcessReturn, VibeVoiceReturns, GroqReturns
<1>10. ASSUME NEW j \in Jobs, ProcessRaise(j) PROVE CleanInv'
  BY <1>10 DEF ProcessRaise, VibeVoiceRaises, GroqRaises
<1>11. ASSUME NEW j \in Jobs, ProcessCancelled(j) PROVE CleanInv'
  BY <1>11 DEF ProcessCancelled
<1>12. ASSUME NEW j \in Jobs, CleanupJob(j) PROVE CleanInv'
  BY <1>12 DEF CleanupJob
<1>13. CASE Stop
  BY <1>13 DEF Stop
<1>14. CASE StopReturns
  BY <1>14 DEF StopReturns
<1>15. CASE UNCHANGED vars
  BY <1>15 DEF vars
<1> QED
  BY <1>1, <1>2, <1>3, <1>4, <1>5, <1>6, <1>7, <1>8, <1>9, <1>10, <1>11, <1>12, <1>13,
     <1>14, <1>15, NextCases

\* _pending agrees with the states.
LEMMA PendStep == Inv /\ [Next]_vars => PendInv'
<1> SUFFICES ASSUME Inv, [Next]_vars PROVE PendInv'
  OBVIOUS
<1> USE DEF Inv, TypeOK, PendInv, PendingAgrees, jobVars, queueVars, controlVars
<1>1. ASSUME NEW j \in Jobs, Reserve(j) PROVE PendInv'
  BY <1>1 DEF Reserve
<1>2. ASSUME NEW j \in Jobs, Submit(j) PROVE PendInv'
  <2>1. /\ pending \in Seq(Jobs)
        /\ pending' = Append(pending, j)
        /\ status' = [status EXCEPT ![j] = "queued"]
        /\ status[j] = "uploading"
        /\ process_task' = process_task
    BY <1>2 DEF Submit, PutPending
  <2>2. /\ Len(pending') = Len(pending) + 1
        /\ DOMAIN pending = 1 .. Len(pending)
        /\ DOMAIN pending' = 1 .. Len(pending) + 1
        /\ \A i \in 1 .. Len(pending) : pending'[i] = pending[i]
        /\ pending'[Len(pending) + 1] = j
        /\ Len(pending) \in Nat
    BY <2>1, AppendFacts
  <2>3. \A i \in DOMAIN pending : pending[i] # j
    BY <2>1
  <2>4. process_task[j] = "none"
    BY <2>1 DEF TaskInv
  <2>5. \A k \in Jobs : status'[k] = "queued" => \E i \in DOMAIN pending' : pending'[i] = k
    <3> TAKE k \in Jobs
    <3> HAVE status'[k] = "queued"
    <3>1. CASE k = j
      <4>1. Len(pending) + 1 \in DOMAIN pending'
        BY <2>2
      <4> QED
        BY <2>2, <3>1, <4>1
    <3>2. CASE k # j
      <4>1. PICK i \in DOMAIN pending : pending[i] = k
        BY <2>1, <3>2
      <4> QED
        BY <2>2, <4>1
    <3> QED
      BY <3>1, <3>2
  <2>6. \A i \in DOMAIN pending' : status'[pending'[i]] \in {"queued", "cancelled"}
    BY <2>1, <2>2, <2>3
  <2>7. \A i, k \in DOMAIN pending' : pending'[i] = pending'[k] => i = k
    BY <2>1, <2>2, <2>3
  <2>8. \A i \in DOMAIN pending' : process_task'[pending'[i]] = "none"
    BY <2>1, <2>2, <2>3, <2>4
  <2> QED
    BY <2>5, <2>6, <2>7, <2>8
<1>3. ASSUME NEW j \in Jobs, Cancel(j) PROVE PendInv'
  <2>1. /\ pending' = pending
        /\ status' = [status EXCEPT ![j] = "cancelled"]
    BY <1>3 DEF Cancel
  <2>2. \A i \in DOMAIN pending : pending[i] \in Jobs
    OBVIOUS
  <2>3. \A k \in Jobs : process_task[k] = "none" => process_task'[k] = "none"
    BY <1>3 DEF Cancel, CancelTask, LiveTask
  <2>4. \A k \in Jobs : status'[k] = "queued" => status[k] = "queued"
    BY <2>1
  <2>5. \A i \in DOMAIN pending : status'[pending[i]] \in {"queued", "cancelled"}
    BY <2>1, <2>2
  <2> QED
    BY <2>1, <2>2, <2>3, <2>4, <2>5
<1>4. CASE WorkerSkip
  <2>1. /\ pending \in Seq(Jobs)
        /\ pending # <<>>
        /\ pending' = Tail(pending)
        /\ \A i, k \in DOMAIN pending : pending[i] = pending[k] => i = k
    BY <1>4 DEF WorkerSkip
  <2>2. /\ Head(pending) \in Jobs
        /\ \A i \in DOMAIN pending' : /\ pending'[i] \in Jobs
                                      /\ pending'[i] # Head(pending)
                                      /\ \E m \in DOMAIN pending : pending'[i] = pending[m]
        /\ \A i, k \in DOMAIN pending' : pending'[i] = pending'[k] => i = k
        /\ \A m \in DOMAIN pending : pending[m] # Head(pending) =>
                \E i \in DOMAIN pending' : pending'[i] = pending[m]
    <3> HIDE DEF Inv, TypeOK, PendInv, PendingAgrees
    <3> QED
      BY <2>1, TailDistinct
  <2>3. status' = status /\ process_task' = process_task
    BY <1>4 DEF WorkerSkip
  <2>4. status'[Head(pending)] # "queued"
    BY <1>4, <2>2 DEF WorkerSkip, RegInv, ActiveStates, Registered
  <2>5. \A k \in Jobs : status'[k] = "queued" => \E i \in DOMAIN pending' : pending'[i] = k
    <3> TAKE k \in Jobs
    <3> HAVE status'[k] = "queued"
    <3>1. status[k] = "queued" /\ k # Head(pending)
      BY <2>2, <2>3, <2>4
    <3>2. PICK m \in DOMAIN pending : pending[m] = k
      BY <3>1
    <3> QED
      BY <2>2, <3>1, <3>2
  <2>6. \A i \in DOMAIN pending' : status'[pending'[i]] \in {"queued", "cancelled"}
                                /\ process_task'[pending'[i]] = "none"
    BY <2>2, <2>3
  <2> QED
    BY <2>2, <2>5, <2>6
<1>5. CASE WorkerTake
  <2>1. /\ pending \in Seq(Jobs)
        /\ pending # <<>>
        /\ pending' = Tail(pending)
        /\ \A i, k \in DOMAIN pending : pending[i] = pending[k] => i = k
    BY <1>5 DEF WorkerTake, StartHead
  <2>2. /\ Head(pending) \in Jobs
        /\ \A i \in DOMAIN pending' : /\ pending'[i] \in Jobs
                                      /\ pending'[i] # Head(pending)
                                      /\ \E m \in DOMAIN pending : pending'[i] = pending[m]
        /\ \A i, k \in DOMAIN pending' : pending'[i] = pending'[k] => i = k
        /\ \A m \in DOMAIN pending : pending[m] # Head(pending) =>
                \E i \in DOMAIN pending' : pending'[i] = pending[m]
    <3> HIDE DEF Inv, TypeOK, PendInv, PendingAgrees
    <3> QED
      BY <2>1, TailDistinct
  <2>3. /\ status' = [status EXCEPT ![Head(pending)] = "processing"]
        /\ process_task' = [process_task EXCEPT ![Head(pending)] = "created"]
    BY <1>5 DEF WorkerTake, StartHead
  <2>4. status'[Head(pending)] # "queued"
    BY <2>2, <2>3
  <2>5. \A k \in Jobs : status'[k] = "queued" => \E i \in DOMAIN pending' : pending'[i] = k
    <3> TAKE k \in Jobs
    <3> HAVE status'[k] = "queued"
    <3>1. status[k] = "queued" /\ k # Head(pending)
      BY <2>2, <2>3, <2>4
    <3>2. PICK m \in DOMAIN pending : pending[m] = k
      BY <3>1
    <3> QED
      BY <2>2, <3>1, <3>2
  <2>6. \A i \in DOMAIN pending' : status'[pending'[i]] \in {"queued", "cancelled"}
                                /\ process_task'[pending'[i]] = "none"
    BY <2>2, <2>3
  <2> QED
    BY <2>2, <2>5, <2>6
<1>6. ASSUME NEW j \in Jobs, Finishes(j) PROVE PendInv'
  BY <1>6 DEF Finishes, WorkerFinally, TerminalStates, TaskInv
<1>7. ASSUME NEW j \in Jobs, ProcessStart(j) PROVE PendInv'
  BY <1>7 DEF ProcessStart, TaskInv
<1>8. ASSUME NEW j \in Jobs, ProcessChunk(j) PROVE PendInv'
  BY <1>8 DEF ProcessChunk, TaskInv
<1>9. ASSUME NEW j \in Jobs, ProcessReturn(j) PROVE PendInv'
  BY <1>9 DEF ProcessReturn, VibeVoiceReturns, GroqReturns
<1>10. ASSUME NEW j \in Jobs, ProcessRaise(j) PROVE PendInv'
  BY <1>10 DEF ProcessRaise, VibeVoiceRaises, GroqRaises
<1>11. ASSUME NEW j \in Jobs, ProcessCancelled(j) PROVE PendInv'
  BY <1>11 DEF ProcessCancelled
<1>12. ASSUME NEW j \in Jobs, CleanupJob(j) PROVE PendInv'
  BY <1>12 DEF CleanupJob
<1>13. CASE Stop
  BY <1>13 DEF Stop, CancelTask, TaskInv, LiveTask
<1>14. CASE StopReturns
  BY <1>14 DEF StopReturns
<1>15. CASE UNCHANGED vars
  BY <1>15 DEF vars
<1> QED
  BY <1>1, <1>2, <1>3, <1>4, <1>5, <1>6, <1>7, <1>8, <1>9, <1>10, <1>11, <1>12, <1>13,
     <1>14, <1>15, NextCases

\* The upload exists exactly while it may be read.
LEMMA AudioStep == Inv /\ [Next]_vars => AudioWhileNeeded'
<1> SUFFICES ASSUME Inv, [Next]_vars PROVE AudioWhileNeeded'
  OBVIOUS
<1> USE DEF Inv, TypeOK, AudioWhileNeeded, jobVars, queueVars, controlVars
<1>1. ASSUME NEW j \in Jobs, Reserve(j) PROVE AudioWhileNeeded'
  BY <1>1 DEF Reserve
<1>2. ASSUME NEW j \in Jobs, Submit(j) PROVE AudioWhileNeeded'
  BY <1>2 DEF Submit, PutPending
<1>3. ASSUME NEW j \in Jobs, Cancel(j) PROVE AudioWhileNeeded'
  BY <1>3 DEF Cancel, DiscardAudio
<1>4. CASE WorkerSkip
  BY <1>4 DEF WorkerSkip
<1>5. CASE WorkerTake
  BY <1>5 DEF WorkerTake, StartHead, PendInv, PendingAgrees
<1>6. ASSUME NEW j \in Jobs, Finishes(j) PROVE AudioWhileNeeded'
  BY <1>6 DEF Finishes, WorkerFinally, DiscardAudio, TerminalStates
<1>7. ASSUME NEW j \in Jobs, ProcessStart(j) PROVE AudioWhileNeeded'
  BY <1>7 DEF ProcessStart, TaskInv
<1>8. ASSUME NEW j \in Jobs, ProcessChunk(j) PROVE AudioWhileNeeded'
  BY <1>8 DEF ProcessChunk, TaskInv
<1>9. ASSUME NEW j \in Jobs, ProcessReturn(j) PROVE AudioWhileNeeded'
  BY <1>9 DEF ProcessReturn, VibeVoiceReturns, GroqReturns
<1>10. ASSUME NEW j \in Jobs, ProcessRaise(j) PROVE AudioWhileNeeded'
  BY <1>10 DEF ProcessRaise, VibeVoiceRaises, GroqRaises
<1>11. ASSUME NEW j \in Jobs, ProcessCancelled(j) PROVE AudioWhileNeeded'
  BY <1>11 DEF ProcessCancelled
<1>12. ASSUME NEW j \in Jobs, CleanupJob(j) PROVE AudioWhileNeeded'
  BY <1>12 DEF CleanupJob, CleanInv, CleanupCoversTerminal, Terminal, TerminalStates
<1>13. CASE Stop
  BY <1>13 DEF Stop
<1>14. CASE StopReturns
  BY <1>14 DEF StopReturns
<1>15. CASE UNCHANGED vars
  BY <1>15 DEF vars
<1> QED
  BY <1>1, <1>2, <1>3, <1>4, <1>5, <1>6, <1>7, <1>8, <1>9, <1>10, <1>11, <1>12, <1>13,
     <1>14, <1>15, NextCases

\* Putting the sentinel for a job that becomes terminal keeps it last and unique.
LEMMA NotifyFacts ==
    ASSUME Inv, NEW j \in Jobs, NotifyTerminal(j), NEW s \in TerminalStates,
           status' = [status EXCEPT ![j] = s]
    PROVE  SentinelClosesStream'
<1> DEFINE Closed(k, q) == /\ \E i \in DOMAIN q : q[i] = None
                           /\ \A i \in DOMAIN q : q[i] = None => i = Len(q)
<1>1. /\ terminal_notified' = [terminal_notified EXCEPT ![j] = TRUE]
      /\ \A k \in Jobs : k # j => chunk_queue'[k] = chunk_queue[k] /\ status'[k] = status[k]
      /\ status'[j] \in TerminalStates
  BY DEF Inv, TypeOK, NotifyTerminal
<1>2. Closed(j, chunk_queue'[j])
  <2>1. CASE terminal_notified[j]
    BY <2>1 DEF Inv, NotifyTerminal, SentinelClosesStream
  <2>2. CASE ~terminal_notified[j]
    <3>1. chunk_queue[j] \in Seq(Nat) /\ chunk_queue'[j] = Append(chunk_queue[j], None)
      BY <2>2 DEF Inv, TypeOK, NotifyTerminal
    <3>2. /\ DOMAIN chunk_queue[j] = 1 .. Len(chunk_queue[j])
          /\ DOMAIN chunk_queue'[j] = 1 .. Len(chunk_queue[j]) + 1
          /\ Len(chunk_queue'[j]) = Len(chunk_queue[j]) + 1
          /\ \A i \in 1 .. Len(chunk_queue[j]) : chunk_queue'[j][i] = chunk_queue[j][i]
          /\ chunk_queue'[j][Len(chunk_queue[j]) + 1] = None
          /\ Len(chunk_queue[j]) \in Nat
      BY <3>1, AppendFacts DEF None
    <3>3. \A i \in DOMAIN chunk_queue[j] : chunk_queue[j][i] # None
      BY <2>2 DEF Inv, SentinelClosesStream
    <3> QED
      BY <3>2, <3>3
  <2> QED
    BY <2>1, <2>2
<1>3. ASSUME NEW k \in Jobs
      PROVE  /\ Terminal(k)' <=> terminal_notified'[k]
             /\ terminal_notified'[k] <=>
                  \E i \in DOMAIN chunk_queue'[k] : chunk_queue'[k][i] = None
             /\ \A i \in DOMAIN chunk_queue'[k] :
                  chunk_queue'[k][i] = None => i = Len(chunk_queue'[k])
  <2>1. CASE k = j
    BY <1>1, <1>2, <2>1 DEF Inv, TypeOK, Terminal
  <2>2. CASE k # j
    BY <1>1, <2>2 DEF Inv, TypeOK, SentinelClosesStream, Terminal
  <2> QED
    BY <2>1, <2>2
<1> QED
  BY <1>3 DEF SentinelClosesStream

\* The sentinel is put once and last.
LEMMA SentinelStep == Inv /\ [Next]_vars => SentinelClosesStream'
<1> SUFFICES ASSUME Inv, [Next]_vars PROVE SentinelClosesStream'
  OBVIOUS
<1> USE DEF Inv, TypeOK, SentinelClosesStream, Terminal, TerminalStates, None, jobVars,
            queueVars, controlVars
<1>1. ASSUME NEW j \in Jobs, Reserve(j) PROVE SentinelClosesStream'
  BY <1>1 DEF Reserve
<1>2. ASSUME NEW j \in Jobs, Submit(j) PROVE SentinelClosesStream'
  BY <1>2 DEF Submit, PutPending
<1>3. ASSUME NEW j \in Jobs, Cancel(j) PROVE SentinelClosesStream'
  BY <1>3, NotifyFacts DEF Cancel
<1>4. CASE WorkerSkip
  BY <1>4 DEF WorkerSkip
<1>5. CASE WorkerTake
  BY <1>5 DEF WorkerTake, StartHead, PendInv, PendingAgrees
<1>6. ASSUME NEW j \in Jobs, Finishes(j) PROVE SentinelClosesStream'
  BY <1>6, NotifyFacts DEF Finishes, WorkerFinally
<1>7. ASSUME NEW j \in Jobs, ProcessStart(j) PROVE SentinelClosesStream'
  BY <1>7 DEF ProcessStart, TaskInv
<1>8. ASSUME NEW j \in Jobs, ProcessChunk(j) PROVE SentinelClosesStream'
  BY <1>8 DEF ProcessChunk, TaskInv
<1>9. ASSUME NEW j \in Jobs, ProcessReturn(j) PROVE SentinelClosesStream'
  <2>1. status' = status /\ terminal_notified' = terminal_notified
    BY <1>9 DEF ProcessReturn, VibeVoiceReturns, GroqReturns
  <2>2. ~terminal_notified[j] /\ status[j] \notin TerminalStates
    BY <1>9 DEF ProcessReturn, VibeVoiceReturns, GroqReturns, TaskInv
  <2>3. \A k \in Jobs : k # j => chunk_queue'[k] = chunk_queue[k]
    BY <1>9 DEF ProcessReturn, VibeVoiceReturns, GroqReturns
  <2>4. \A i \in DOMAIN chunk_queue[j] : chunk_queue[j][i] # 0
    BY <2>2
  <2>5. chunk_queue'[j] = chunk_queue[j] \/ chunk_queue'[j] = Append(chunk_queue[j], 1)
    BY <1>9 DEF ProcessReturn, VibeVoiceReturns, GroqReturns
  <2>6. \A i \in DOMAIN chunk_queue'[j] : chunk_queue'[j][i] # 0
    <3>1. /\ DOMAIN Append(chunk_queue[j], 1) = 1 .. Len(chunk_queue[j]) + 1
          /\ DOMAIN chunk_queue[j] = 1 .. Len(chunk_queue[j])
          /\ \A i \in 1 .. Len(chunk_queue[j]) :
                Append(chunk_queue[j], 1)[i] = chunk_queue[j][i]
          /\ Append(chunk_queue[j], 1)[Len(chunk_queue[j]) + 1] = 1
          /\ Len(chunk_queue[j]) \in Nat
      BY AppendFacts
    <3>2. CASE chunk_queue'[j] = chunk_queue[j]
      BY <2>4, <3>2
    <3>3. CASE chunk_queue'[j] = Append(chunk_queue[j], 1)
      <4> TAKE i \in DOMAIN chunk_queue'[j]
      <4>1. CASE i \in 1 .. Len(chunk_queue[j])
        BY <2>4, <3>1, <3>3, <4>1
      <4>2. CASE i = Len(chunk_queue[j]) + 1
        BY <3>1, <3>3, <4>2
      <4> QED
        BY <3>1, <3>3, <4>1, <4>2
    <3> QED
      BY <2>5, <3>2, <3>3
  <2>7. ASSUME NEW k \in Jobs
        PROVE  /\ Terminal(k)' <=> terminal_notified'[k]
               /\ terminal_notified'[k] <=>
                    \E i \in DOMAIN chunk_queue'[k] : chunk_queue'[k][i] = 0
               /\ \A i \in DOMAIN chunk_queue'[k] :
                    chunk_queue'[k][i] = 0 => i = Len(chunk_queue'[k])
    <3>1. CASE k = j
      BY <2>1, <2>2, <2>6, <3>1
    <3>2. CASE k # j
      BY <2>1, <2>3, <3>2
    <3> QED
      BY <3>1, <3>2
  <2> QED
    BY <2>7
<1>10. ASSUME NEW j \in Jobs, ProcessRaise(j) PROVE SentinelClosesStream'
  BY <1>10 DEF ProcessRaise, VibeVoiceRaises, GroqRaises
<1>11. ASSUME NEW j \in Jobs, ProcessCancelled(j) PROVE SentinelClosesStream'
  BY <1>11 DEF ProcessCancelled
<1>12. ASSUME NEW j \in Jobs, CleanupJob(j) PROVE SentinelClosesStream'
  BY <1>12 DEF CleanupJob
<1>13. CASE Stop
  BY <1>13 DEF Stop
<1>14. CASE StopReturns
  BY <1>14 DEF StopReturns
<1>15. CASE UNCHANGED vars
  BY <1>15 DEF vars
<1> QED
  BY <1>1, <1>2, <1>3, <1>4, <1>5, <1>6, <1>7, <1>8, <1>9, <1>10, <1>11, <1>12, <1>13,
     <1>14, <1>15, NextCases

-----------------------------------------------------------------------------
(* The theorems.                                                           *)

\* The inductive invariant holds throughout.
THEOREM Invariance == Spec => []Inv
<1>1. Init => Inv
  <2> SUFFICES ASSUME Init PROVE Inv
    OBVIOUS
  <2>1. TypeOK
    BY TypeInit
  <2>2. TaskInv /\ RegInv /\ CancelInv /\ LateInv
    BY DEF Init, TaskInv, RegInv, CancelInv, LateInv, Registered, ActiveStates
  <2>3. CleanInv
    BY DEF Init, CleanInv, CleanupCoversTerminal, Registered, Terminal, TerminalStates
  <2>4. PendInv
    BY DEF Init, PendInv, PendingAgrees
  <2>5. AudioWhileNeeded
    BY DEF Init, AudioWhileNeeded
  <2>6. SentinelClosesStream
    BY DEF Init, SentinelClosesStream, Terminal, TerminalStates
  <2> QED
    BY <2>1, <2>2, <2>3, <2>4, <2>5, <2>6 DEF Inv
<1>2. Inv /\ [Next]_vars => Inv'
  <2> SUFFICES ASSUME Inv, [Next]_vars PROVE Inv'
    OBVIOUS
  <2>1. TypeOK'
    BY TypeStep DEF Inv
  <2> QED
    BY <2>1, TaskStep, RegStep, CancelStep, LateStep, CleanStep, PendStep, AudioStep,
       SentinelStep DEF Inv
<1> QED
  BY <1>1, <1>2, PTL DEF Spec

\* Only reserve makes a job active: no other step brings a finished job back.
LEMMA OnlyReserveActivates ==
    ASSUME Inv, [Next]_vars, \A j \in Jobs : ~Reserve(j)
    PROVE  \A j \in Jobs : status'[j] \in ActiveStates => status[j] \in ActiveStates
<1> DEFINE Goal == \A j \in Jobs : status'[j] \in ActiveStates => status[j] \in ActiveStates
<1> USE DEF Inv, TypeOK, ActiveStates, jobVars, queueVars, controlVars
<1>1. ASSUME NEW j \in Jobs, Submit(j) PROVE Goal
  BY <1>1 DEF Submit, PutPending
<1>2. ASSUME NEW j \in Jobs, Cancel(j) PROVE Goal
  BY <1>2 DEF Cancel, TerminalStates
<1>3. ASSUME WorkerSkip PROVE Goal
  BY <1>3 DEF WorkerSkip
<1>4. ASSUME WorkerTake PROVE Goal
  BY <1>4 DEF WorkerTake, StartHead, PendInv, PendingAgrees
<1>5. ASSUME NEW j \in Jobs, Finishes(j) PROVE Goal
  BY <1>5 DEF Finishes, WorkerFinally, TerminalStates
<1>6. ASSUME NEW j \in Jobs, ProcessStart(j) PROVE Goal
  BY <1>6 DEF ProcessStart, TaskInv
<1>7. ASSUME NEW j \in Jobs, ProcessChunk(j) PROVE Goal
  BY <1>7 DEF ProcessChunk, TaskInv
<1>8. ASSUME NEW j \in Jobs, ProcessReturn(j) PROVE Goal
  BY <1>8 DEF ProcessReturn, VibeVoiceReturns, GroqReturns
<1>9. ASSUME NEW j \in Jobs, ProcessRaise(j) PROVE Goal
  BY <1>9 DEF ProcessRaise, VibeVoiceRaises, GroqRaises
<1>10. ASSUME NEW j \in Jobs, ProcessCancelled(j) PROVE Goal
  BY <1>10 DEF ProcessCancelled
<1>11. ASSUME NEW j \in Jobs, CleanupJob(j) PROVE Goal
  BY <1>11 DEF CleanupJob
<1>12. ASSUME Stop PROVE Goal
  BY <1>12 DEF Stop
<1>13. ASSUME StopReturns PROVE Goal
  BY <1>13 DEF StopReturns
<1>14. ASSUME UNCHANGED vars PROVE Goal
  BY <1>14 DEF vars
<1> HIDE DEF Inv, TypeOK, ActiveStates, Goal
<1>15. Goal
  BY <1>1, <1>2, <1>3, <1>4, <1>5, <1>6, <1>7, <1>8, <1>9, <1>10, <1>11, <1>12, <1>13,
     <1>14, NextCases
<1> QED
  BY <1>15 DEF Goal

\* The bound on the jobs in the system: of all the steps that interleave with reserve,
\* none adds to the number that reserve has checked.
THEOREM CapacityHolds == Spec => []CapacityBound
<1>1. Init => CapacityBound
  <2> SUFFICES ASSUME Init PROVE CapacityBound
    OBVIOUS
  <2>1. ActiveJobs = {}
    BY DEF Init, ActiveJobs, Registered
  <2> QED
    BY <2>1, FS_EmptySet, MaxSizePositive DEF CapacityBound, ActiveCount
<1>2. CapacityBound /\ Inv /\ Inv' /\ [Next]_vars => CapacityBound'
  <2> SUFFICES ASSUME CapacityBound, Inv, Inv', [Next]_vars PROVE CapacityBound'
    OBVIOUS
  <2>1. IsFiniteSet(ActiveJobs) /\ IsFiniteSet(ActiveJobs')
    BY FS_Subset, JobsFinite DEF ActiveJobs
  <2>2. /\ ActiveJobs = {j \in Jobs : status[j] \in ActiveStates}
        /\ ActiveJobs' = {j \in Jobs : status'[j] \in ActiveStates}
    BY DEF ActiveJobs, Inv, RegInv
  <2>3. Cardinality(ActiveJobs) \in Nat /\ Cardinality(ActiveJobs') \in Nat
    BY <2>1, FS_CardinalityType
  <2>4. ASSUME NEW j \in Jobs, Reserve(j) PROVE CapacityBound'
    <3>1. ActiveJobs' = ActiveJobs \cup {j}
      BY <2>2, <2>4 DEF Reserve, ActiveStates, Inv, TypeOK
    <3>2. Cardinality(ActiveJobs') <= Cardinality(ActiveJobs) + 1
      BY <2>1, <2>3, <3>1, FS_AddElement
    <3>3. Cardinality(ActiveJobs) < MaxSize
      BY <2>4 DEF Reserve, ActiveCount
    <3> QED
      BY <2>3, <3>2, <3>3, MaxSizePositive DEF CapacityBound, ActiveCount
  <2>5. CASE \A j \in Jobs : ~Reserve(j)
    <3>1. ActiveJobs' \subseteq ActiveJobs
      BY <2>2, <2>5, OnlyReserveActivates
    <3>2. Cardinality(ActiveJobs') <= Cardinality(ActiveJobs)
      BY <2>1, <3>1, FS_Subset
    <3> QED
      BY <2>3, <3>2, MaxSizePositive DEF CapacityBound, ActiveCount
  <2> QED
    BY <2>4, <2>5
<1> QED
  BY <1>1, <1>2, Invariance, PTL DEF Spec

\* One job is in service at a time, and it is the one that the worker awaits.
THEOREM ServiceIsSerial == Spec => []OneJobInService
<1>1. Inv => OneJobInService
  BY DEF Inv, TaskInv, OneJobInService
<1> QED
  BY <1>1, Invariance, PTL

\* The upload is on disk exactly from submission to the end of the job.
THEOREM AudioHeldExactly == Spec => []AudioWhileNeeded
<1>1. Inv => AudioWhileNeeded
  BY DEF Inv
<1> QED
  BY <1>1, Invariance, PTL

\* The stream of chunks is closed once, last, and whenever the job is terminal.
THEOREM StreamIsClosed == Spec => []SentinelClosesStream
<1>1. Inv => SentinelClosesStream
  BY DEF Inv
<1> QED
  BY <1>1, Invariance, PTL

\* No submitted job is forgotten or run twice.
THEOREM PendingIsExact == Spec => []PendingAgrees
<1>1. Inv => PendingAgrees
  BY DEF Inv, PendInv
<1> QED
  BY <1>1, Invariance, PTL

\* Terminal jobs wait for their cleanup, and only they are ever popped.
THEOREM CleanupIsExact == Spec => []CleanupCoversTerminal
<1>1. Inv => CleanupCoversTerminal
  BY DEF Inv, CleanInv
<1> QED
  BY <1>1, Invariance, PTL

\* A job that its client cancelled is never reported as completed.
THEOREM CancellationSticks == Spec => []CancelledNeverCompletes
<1>1. Inv => CancelledNeverCompletes
  BY DEF Inv, CancelInv, CancelledNeverCompletes
<1> QED
  BY <1>1, Invariance, PTL

\* A step on the status of a terminal job: none, or the late worker's from CANCELLED to
\* FAILED.
TerminalStep ==
    \A j \in Jobs : Terminal(j) =>
        \/ status'[j] = status[j]
        \/ status[j] = "cancelled" /\ status'[j] = "failed" /\ current = j

\* Every step treats terminal jobs so.
LEMMA TerminalStepHolds == Inv /\ [Next]_vars => TerminalStep
<1> SUFFICES ASSUME Inv, [Next]_vars PROVE TerminalStep
  OBVIOUS
<1> USE DEF Inv, TypeOK, TerminalStep, Terminal, TerminalStates, jobVars, queueVars,
            controlVars
<1>1. ASSUME NEW j \in Jobs, Reserve(j) PROVE TerminalStep
  BY <1>1 DEF Reserve
<1>2. ASSUME NEW j \in Jobs, Submit(j) PROVE TerminalStep
  BY <1>2 DEF Submit, PutPending
<1>3. ASSUME NEW j \in Jobs, Cancel(j) PROVE TerminalStep
  BY <1>3 DEF Cancel
<1>4. CASE WorkerSkip
  BY <1>4 DEF WorkerSkip
<1>5. CASE WorkerTake
  BY <1>5 DEF WorkerTake, StartHead, PendInv, PendingAgrees
<1>6. ASSUME NEW j \in Jobs, Finishes(j) PROVE TerminalStep
  BY <1>6 DEF Finishes, WorkerFinally, TaskInv, LateInv
<1>7. ASSUME NEW j \in Jobs, ProcessStart(j) PROVE TerminalStep
  BY <1>7 DEF ProcessStart, TaskInv
<1>8. ASSUME NEW j \in Jobs, ProcessChunk(j) PROVE TerminalStep
  BY <1>8 DEF ProcessChunk, TaskInv
<1>9. ASSUME NEW j \in Jobs, ProcessReturn(j) PROVE TerminalStep
  BY <1>9 DEF ProcessReturn, VibeVoiceReturns, GroqReturns
<1>10. ASSUME NEW j \in Jobs, ProcessRaise(j) PROVE TerminalStep
  BY <1>10 DEF ProcessRaise, VibeVoiceRaises, GroqRaises
<1>11. ASSUME NEW j \in Jobs, ProcessCancelled(j) PROVE TerminalStep
  BY <1>11 DEF ProcessCancelled
<1>12. ASSUME NEW j \in Jobs, CleanupJob(j) PROVE TerminalStep
  BY <1>12 DEF CleanupJob
<1>13. CASE Stop
  BY <1>13 DEF Stop
<1>14. CASE StopReturns
  BY <1>14 DEF StopReturns
<1>15. CASE UNCHANGED vars
  BY <1>15 DEF vars
<1> QED
  BY <1>1, <1>2, <1>3, <1>4, <1>5, <1>6, <1>7, <1>8, <1>9, <1>10, <1>11, <1>12, <1>13,
     <1>14, <1>15, NextCases

\* A terminal job never becomes active again and never changes from one outcome to
\* another, but for the one race that turns CANCELLED into FAILED.
THEOREM TerminalIsFinal == Spec => TerminalStaysTerminal
<1>1. Inv /\ [Next]_vars => [TerminalStep]_vars
  BY TerminalStepHolds
<1> QED
  BY <1>1, Invariance, PTL DEF Spec, TerminalStaysTerminal, TerminalStep

-----------------------------------------------------------------------------
(* What is put on a job's queue, and how the job ended.                    *)

\* What a step may do to the queue of a job: nothing; put a chunk while the job is not
\* terminal; put the sentinel in the step that makes it terminal.
ItemStep(k) ==
    \/ /\ chunk_queue'[k] = chunk_queue[k]
       /\ Terminal(k)' <=> Terminal(k)
    \/ /\ ~Terminal(k) /\ ~Terminal(k)'
       /\ \E c \in Nat \ {None} : chunk_queue'[k] = Append(chunk_queue[k], c)
    \/ /\ ~Terminal(k) /\ Terminal(k)'
       /\ chunk_queue'[k] = Append(chunk_queue[k], None)

\* Notifying the reader of a job that becomes, or was, terminal does just that.
LEMMA NotifyItem ==
    ASSUME Inv, NEW j \in Jobs, NotifyTerminal(j), NEW s \in TerminalStates,
           status' = [status EXCEPT ![j] = s], NEW k \in Jobs
    PROVE  ItemStep(k)
<1>1. Terminal(k) <=> terminal_notified[k]
  BY DEF Inv, SentinelClosesStream
<1>2. CASE k # j \/ terminal_notified[k]
  <2>1. chunk_queue'[k] = chunk_queue[k]
    BY <1>2 DEF Inv, TypeOK, NotifyTerminal
  <2>2. Terminal(k)' <=> Terminal(k)
    BY <1>1, <1>2 DEF Inv, TypeOK, Terminal
  <2> QED
    BY <2>1, <2>2 DEF ItemStep
<1>3. CASE k = j /\ ~terminal_notified[k]
  <2>1. chunk_queue'[k] = Append(chunk_queue[k], None)
    BY <1>3 DEF Inv, TypeOK, NotifyTerminal
  <2>2. Terminal(k)' /\ ~Terminal(k)
    BY <1>1, <1>3 DEF Inv, TypeOK, Terminal
  <2> QED
    BY <2>1, <2>2 DEF ItemStep
<1> QED
  BY <1>2, <1>3

\* Every step does just that: what a reader has taken stays what it was, and nothing
\* follows the sentinel.
LEMMA ItemStepHolds == ASSUME Inv, [Next]_vars, NEW k \in Jobs PROVE ItemStep(k)
<1> USE DEF Inv, TypeOK, ItemStep, Terminal, TerminalStates, None, jobVars, queueVars,
            controlVars
<1>1. ASSUME NEW j \in Jobs, Reserve(j) PROVE ItemStep(k)
  BY <1>1 DEF Reserve
<1>2. ASSUME NEW j \in Jobs, Submit(j) PROVE ItemStep(k)
  BY <1>2 DEF Submit, PutPending
<1>3. ASSUME NEW j \in Jobs, Cancel(j) PROVE ItemStep(k)
  BY <1>3, NotifyItem DEF Cancel
<1>4. CASE WorkerSkip
  BY <1>4 DEF WorkerSkip
<1>5. CASE WorkerTake
  BY <1>5 DEF WorkerTake, StartHead, PendInv, PendingAgrees
<1>6. ASSUME NEW j \in Jobs, Finishes(j) PROVE ItemStep(k)
  BY <1>6, NotifyItem DEF Finishes, WorkerFinally
<1>7. ASSUME NEW j \in Jobs, ProcessStart(j) PROVE ItemStep(k)
  BY <1>7 DEF ProcessStart, TaskInv
<1>8. ASSUME NEW j \in Jobs, ProcessChunk(j) PROVE ItemStep(k)
  <2>1. Len(chunk_queue[j]) + 1 \in Nat \ {None}
    OBVIOUS
  <2>2. /\ ~Terminal(j)
        /\ chunk_queue' = [chunk_queue EXCEPT ![j] = Append(@, Len(@) + 1)]
        /\ status' = [status EXCEPT ![j] = "streaming"]
    BY <1>8 DEF ProcessChunk, TaskInv
  <2>3. CASE k = j
    <3>1. chunk_queue'[k] = Append(chunk_queue[k], Len(chunk_queue[j]) + 1)
      BY <2>2, <2>3
    <3>2. ~Terminal(k) /\ ~Terminal(k)'
      BY <2>2, <2>3
    <3> HIDE DEF Inv, TypeOK, Terminal, TerminalStates, None
    <3> QED
      BY <2>1, <3>1, <3>2
  <2>4. CASE k # j
    BY <2>2, <2>4
  <2> QED
    BY <2>3, <2>4
<1>9. ASSUME NEW j \in Jobs, ProcessReturn(j) PROVE ItemStep(k)
  <2>1. /\ ~Terminal(j)
        /\ status' = status
        /\ \/ chunk_queue' = chunk_queue
           \/ chunk_queue' = [chunk_queue EXCEPT ![j] = Append(@, 1)]
    BY <1>9 DEF ProcessReturn, VibeVoiceReturns, GroqReturns, TaskInv
  <2>2. CASE k = j /\ chunk_queue' # chunk_queue
    <3>1. chunk_queue'[k] = Append(chunk_queue[k], 1)
      BY <2>1, <2>2
    <3>2. ~Terminal(k) /\ ~Terminal(k)' /\ 1 \in Nat \ {None}
      BY <2>1, <2>2
    <3> HIDE DEF Inv, TypeOK, Terminal, TerminalStates, None
    <3> QED
      BY <3>1, <3>2
  <2>3. CASE k # j \/ chunk_queue' = chunk_queue
    BY <2>1, <2>3
  <2> QED
    BY <2>2, <2>3
<1>10. ASSUME NEW j \in Jobs, ProcessRaise(j) PROVE ItemStep(k)
  BY <1>10 DEF ProcessRaise, VibeVoiceRaises, GroqRaises
<1>11. ASSUME NEW j \in Jobs, ProcessCancelled(j) PROVE ItemStep(k)
  BY <1>11 DEF ProcessCancelled
<1>12. ASSUME NEW j \in Jobs, CleanupJob(j) PROVE ItemStep(k)
  BY <1>12 DEF CleanupJob
<1>13. CASE Stop
  BY <1>13 DEF Stop
<1>14. CASE StopReturns
  BY <1>14 DEF StopReturns
<1>15. CASE UNCHANGED vars
  BY <1>15 DEF vars
<1> QED
  BY <1>1, <1>2, <1>3, <1>4, <1>5, <1>6, <1>7, <1>8, <1>9, <1>10, <1>11, <1>12, <1>13,
     <1>14, <1>15, NextCases

\* How a job comes to its end.  A process task is cancelled only for a client that asked
\* for it or by stop(); one that returns has output, with VibeVoice; a completed job has
\* no error message, and with VibeVoice at least one chunk before the sentinel.
OutcomeInv ==
    /\ worker_cancelled => stopping # "no"
    /\ \A j \in Jobs :
        /\ process_task[j] \in {"cancelling", "cancelled"} =>
              cancel_requested[j] \/ stopping # "no"
        /\ Backend = "vibevoice" /\ process_task[j] = "returned" => chunk_queue[j] # <<>>
        /\ status[j] = "completed" =>
              /\ error_message[j] = "none"
              /\ Backend = "vibevoice" => Len(chunk_queue[j]) > 1

\* How the worker's three ways to finish a job set its outcome: CANCELLED only for a job
\* that was cancelled before or when the queue stops, COMPLETED only for one whose task
\* returned and left no error message.
LEMMA FinishOutcome ==
    ASSUME Inv, OutcomeInv, NEW j \in Jobs,
           WorkerReturned(j) \/ WorkerRaised(j) \/ WorkerCancelled(j)
    PROVE  /\ status'[j] = "cancelled" => cancel_requested[j] \/ stopping # "no"
           /\ status'[j] = "completed" =>
                 /\ process_task[j] = "returned"
                 /\ ~cancel_requested[j]
                 /\ error_message'[j] = "none"
<1> USE DEF Inv, TypeOK, OutcomeInv, CancelInv, WorkerSees, Finish
<1>1. CASE WorkerReturned(j)
  BY <1>1 DEF WorkerReturned
<1>2. CASE WorkerRaised(j)
  BY <1>2 DEF WorkerRaised
<1>3. CASE WorkerCancelled(j)
  BY <1>3 DEF WorkerCancelled
<1> QED
  BY <1>1, <1>2, <1>3

\* The queue of a job only grows.
LEMMA ItemsGrow ==
    ASSUME Inv, [Next]_vars, NEW k \in Jobs
    PROVE  /\ Len(chunk_queue[k]) \in Nat
           /\ Len(chunk_queue'[k]) \in Nat
           /\ Len(chunk_queue[k]) <= Len(chunk_queue'[k])
           /\ \A i \in 1 .. Len(chunk_queue[k]) : chunk_queue'[k][i] = chunk_queue[k][i]
           /\ Terminal(k) => chunk_queue'[k] = chunk_queue[k]
           /\ ~Terminal(k) /\ Terminal(k)' => Len(chunk_queue'[k]) = Len(chunk_queue[k]) + 1
<1>1. chunk_queue[k] \in Seq(Nat)
  BY DEF Inv, TypeOK
<1>2. ItemStep(k)
  BY ItemStepHolds
<1>3. \A c \in Nat : /\ Len(Append(chunk_queue[k], c)) = Len(chunk_queue[k]) + 1
                     /\ \A i \in 1 .. Len(chunk_queue[k]) :
                           Append(chunk_queue[k], c)[i] = chunk_queue[k][i]
  BY <1>1, AppendFacts
<1>4. Len(chunk_queue[k]) \in Nat
  BY <1>1
<1>5. CASE chunk_queue'[k] = chunk_queue[k] /\ (Terminal(k)' <=> Terminal(k))
  BY <1>4, <1>5
<1>6. ASSUME ~Terminal(k), NEW c \in Nat, chunk_queue'[k] = Append(chunk_queue[k], c)
      PROVE  /\ Len(chunk_queue'[k]) \in Nat
             /\ Len(chunk_queue[k]) <= Len(chunk_queue'[k])
             /\ \A i \in 1 .. Len(chunk_queue[k]) : chunk_queue'[k][i] = chunk_queue[k][i]
             /\ Len(chunk_queue'[k]) = Len(chunk_queue[k]) + 1
  BY <1>3, <1>4, <1>6
<1> QED
  BY <1>2, <1>4, <1>5, <1>6 DEF ItemStep, None

\* The outcome of every job is accounted for.
LEMMA OutcomeStep == Inv /\ OutcomeInv /\ [Next]_vars => OutcomeInv'
<1> SUFFICES ASSUME Inv, OutcomeInv, [Next]_vars PROVE OutcomeInv'
  OBVIOUS
<1>1. worker_cancelled' => stopping' # "no"
  BY DEF Inv, TypeOK, OutcomeInv, Next, Caller, Process, Worker, Reserve, Submit, PutPending,
         Cancel, WorkerSkip, WorkerTake, StartHead, WorkerReturned, WorkerRaised,
         WorkerCancelled, Finish, WorkerFinally, ProcessStart, ProcessChunk, ProcessReturn,
         ProcessRaise, ProcessCancelled, CleanupJob, Stop, StopReturns, vars, controlVars
<1>2. ASSUME NEW k \in Jobs
      PROVE  process_task'[k] \in {"cancelling", "cancelled"} =>
                cancel_requested'[k] \/ stopping' # "no"
  <2> DEFINE Asked == process_task'[k] \in {"cancelling", "cancelled"} =>
                         cancel_requested'[k] \/ stopping' # "no"
  <2> USE DEF Inv, TypeOK, OutcomeInv, jobVars, queueVars, controlVars
  <2>1. ASSUME NEW j \in Jobs, Reserve(j) \/ Submit(j) PROVE Asked
    BY <2>1 DEF Reserve, Submit, PutPending
  <2>2. ASSUME NEW j \in Jobs, Cancel(j) PROVE Asked
    BY <2>2 DEF Cancel, CancelTask
  <2>3. ASSUME WorkerSkip PROVE Asked
    BY <2>3 DEF WorkerSkip
  <2>4. ASSUME WorkerTake PROVE Asked
    BY <2>4 DEF WorkerTake, StartHead
  <2>5. ASSUME NEW j \in Jobs, Finishes(j) PROVE Asked
    BY <2>5 DEF Finishes, WorkerFinally
  <2>6. ASSUME NEW j \in Jobs, ProcessStart(j) \/ ProcessChunk(j) \/ ProcessReturn(j) PROVE Asked
    BY <2>6 DEF ProcessStart, ProcessChunk, ProcessReturn
  <2>7. ASSUME NEW j \in Jobs, ProcessRaise(j) \/ ProcessCancelled(j) PROVE Asked
    BY <2>7 DEF ProcessRaise, ProcessCancelled
  <2>8. ASSUME NEW j \in Jobs, CleanupJob(j) PROVE Asked
    BY <2>8 DEF CleanupJob
  <2>9. ASSUME Stop PROVE Asked
    BY <2>9 DEF Stop
  <2>10. ASSUME StopReturns PROVE Asked
    BY <2>10 DEF StopReturns
  <2>11. ASSUME UNCHANGED vars PROVE Asked
    BY <2>11 DEF vars
  <2> HIDE DEF Inv, TypeOK, OutcomeInv, Asked
  <2>12. Asked
    BY <2>1, <2>2, <2>3, <2>4, <2>5, <2>6, <2>7, <2>8, <2>9, <2>10, <2>11, NextCases
  <2> QED
    BY <2>12 DEF Asked
<1>3. ASSUME NEW k \in Jobs, Backend = "vibevoice"
      PROVE  process_task'[k] = "returned" => chunk_queue'[k] # <<>>
  <2>1. chunk_queue[k] # <<>> => chunk_queue'[k] # <<>>
    <3>1. chunk_queue[k] \in Seq(Nat) /\ chunk_queue'[k] \in Seq(Nat)
      BY TypeStep DEF Inv, TypeOK
    <3>2. Len(chunk_queue[k]) <= Len(chunk_queue'[k])
      BY ItemsGrow
    <3> QED
      BY <3>1, <3>2, EmptySeq
  <2> DEFINE Output == \/ process_task'[k] # "returned"
                       \/ process_task[k] = "returned"
                       \/ chunk_queue[k] # <<>>
  <2> USE DEF Inv, TypeOK, jobVars, queueVars, controlVars
  <2>2. ASSUME NEW j \in Jobs, Reserve(j) \/ Submit(j) PROVE Output
    BY <2>2 DEF Reserve, Submit, PutPending
  <2>3. ASSUME NEW j \in Jobs, Cancel(j) PROVE Output
    BY <2>3 DEF Cancel, CancelTask
  <2>4. ASSUME WorkerSkip PROVE Output
    BY <2>4 DEF WorkerSkip
  <2>5. ASSUME WorkerTake PROVE Output
    BY <2>5 DEF WorkerTake, StartHead
  <2>6. ASSUME NEW j \in Jobs, Finishes(j) PROVE Output
    BY <2>6 DEF Finishes, WorkerFinally
  <2>7. ASSUME NEW j \in Jobs, ProcessStart(j) \/ ProcessChunk(j) PROVE Output
    BY <2>7 DEF ProcessStart, ProcessChunk
  <2>8. ASSUME NEW j \in Jobs, ProcessReturn(j) PROVE Output
    BY <1>3, <2>8 DEF ProcessReturn, VibeVoiceReturns, GroqReturns
  <2>9. ASSUME NEW j \in Jobs, ProcessRaise(j) \/ ProcessCancelled(j) PROVE Output
    BY <2>9 DEF ProcessRaise, ProcessCancelled
  <2>10. ASSUME NEW j \in Jobs, CleanupJob(j) PROVE Output
    BY <2>10 DEF CleanupJob
  <2>11. ASSUME Stop PROVE Output
    BY <2>11 DEF Stop, CancelTask
  <2>12. ASSUME StopReturns PROVE Output
    BY <2>12 DEF StopReturns
  <2>13. ASSUME UNCHANGED vars PROVE Output
    BY <2>13 DEF vars
  <2> HIDE DEF Inv, TypeOK, Output
  <2>14. Output
    BY <2>2, <2>3, <2>4, <2>5, <2>6, <2>7, <2>8, <2>9, <2>10, <2>11, <2>12, <2>13, NextCases
  <2> QED
    BY <1>3, <2>1, <2>14 DEF Output, OutcomeInv
<1>4. ASSUME NEW k \in Jobs, status'[k] = "completed"
      PROVE  /\ error_message'[k] = "none"
             /\ Backend = "vibevoice" => Len(chunk_queue'[k]) > 1
  <2>1. CASE WorkerReturned(k) \/ WorkerRaised(k) \/ WorkerCancelled(k)
    <3>1. process_task[k] = "returned" /\ ~cancel_requested[k] /\ error_message'[k] = "none"
      BY <1>4, <2>1, FinishOutcome
    <3>2. ~Terminal(k) /\ Terminal(k)'
      BY <1>4, <3>1 DEF Inv, LateInv, Terminal, TerminalStates
    <3>3. Len(chunk_queue'[k]) = Len(chunk_queue[k]) + 1 /\ Len(chunk_queue[k]) \in Nat
      BY <3>2, ItemsGrow
    <3>4. Backend = "vibevoice" => Len(chunk_queue[k]) # 0
      <4>1. Backend = "vibevoice" => chunk_queue[k] # <<>>
        BY <3>1 DEF OutcomeInv
      <4>2. chunk_queue[k] \in Seq(Nat)
        BY DEF Inv, TypeOK
      <4> QED
        BY <4>1, <4>2, EmptySeq
    <3> QED
      BY <3>1, <3>3, <3>4
  <2>2. CASE status[k] = "completed" /\ error_message'[k] = error_message[k]
    <3>1. chunk_queue'[k] = chunk_queue[k]
      BY <2>2, ItemsGrow DEF Terminal, TerminalStates
    <3> QED
      BY <2>2, <3>1 DEF OutcomeInv
  <2> DEFINE Was == status[k] = "completed" /\ error_message'[k] = error_message[k]
  <2> USE DEF Inv, TypeOK, jobVars, queueVars, controlVars
  <2>3. ASSUME NEW j \in Jobs, Reserve(j) \/ Submit(j) PROVE Was
    BY <1>4, <2>3 DEF Reserve, Submit, PutPending
  <2>4. ASSUME NEW j \in Jobs, Cancel(j) PROVE Was
    BY <1>4, <2>4 DEF Cancel
  <2>5. ASSUME WorkerSkip \/ WorkerTake PROVE Was
    BY <1>4, <2>5 DEF WorkerSkip, WorkerTake, StartHead
  <2>6. ASSUME NEW j \in Jobs, j # k, Finishes(j) PROVE Was
    BY <1>4, <2>6 DEF Finishes
  <2>7. ASSUME NEW j \in Jobs, ProcessStart(j) \/ ProcessChunk(j) \/ ProcessReturn(j) PROVE Was
    BY <1>4, <2>7 DEF ProcessStart, ProcessChunk, ProcessReturn
  <2>8. ASSUME NEW j \in Jobs, ProcessRaise(j) PROVE Was
    BY <1>4, <2>8 DEF ProcessRaise, VibeVoiceRaises, GroqRaises, TaskInv
  <2>9. ASSUME NEW j \in Jobs, ProcessCancelled(j) \/ CleanupJob(j) PROVE Was
    BY <1>4, <2>9 DEF ProcessCancelled, CleanupJob
  <2>10. ASSUME Stop \/ StopReturns PROVE Was
    BY <1>4, <2>10 DEF Stop, StopReturns
  <2>11. ASSUME UNCHANGED vars PROVE Was
    BY <1>4, <2>11 DEF vars
  <2> HIDE DEF Inv, TypeOK, Was
  <2>12. Was \/ WorkerReturned(k) \/ WorkerRaised(k) \/ WorkerCancelled(k)
    BY <2>3, <2>4, <2>5, <2>6, <2>7, <2>8, <2>9, <2>10, <2>11, FinishFacts
       DEF Next, Caller, Process, Worker
  <2> QED
    BY <2>1, <2>2, <2>12 DEF Was
<1> QED
  BY <1>1, <1>2, <1>3, <1>4 DEF OutcomeInv

\* Outcomes are accounted for throughout.
THEOREM OutcomeInvariance == Spec => []OutcomeInv
<1>1. Init => OutcomeInv
  BY DEF Init, OutcomeInv
<1> QED
  BY <1>1, OutcomeStep, Invariance, PTL DEF Spec

-----------------------------------------------------------------------------
(* The queue implements the serial service.                                *)

\* Who is inside the service, waits or is served.
LEMMA WhoIsWhere ==
    ASSUME Inv
    PROVE  /\ Service!Inside = ActiveJobs
           /\ Service!Waiting = {j \in Jobs : status[j] = "queued"}
           /\ \A j \in Jobs : Phase(j) = "served" => process_task[j] # "none"
<1>1. \A j \in Jobs : status[j] \in {"new"} \cup ActiveStates \cup TerminalStates
  BY DEF Inv, TypeOK
<1>2. \A j \in Jobs : Phase(j) \in {"admitted", "waiting", "served"} <=> status[j] \in ActiveStates
  BY <1>1 DEF Phase, ActiveStates, TerminalStates
<1>3. \A j \in Jobs : Phase(j) = "waiting" <=> status[j] = "queued"
  BY <1>1 DEF Phase, ActiveStates, TerminalStates
<1>4. \A j \in Jobs : Phase(j) = "served" => status[j] \in {"processing", "streaming"}
  BY <1>1 DEF Phase, ActiveStates, TerminalStates
<1>5. \A j \in Jobs : status[j] \in ActiveStates => Registered(j)
  BY DEF Inv, RegInv
<1>6. Service!Inside = ActiveJobs
  BY <1>2, <1>5 DEF Service!Inside, ActiveJobs
<1>7. Service!Waiting = {j \in Jobs : status[j] = "queued"}
  BY <1>3 DEF Service!Waiting
<1>8. \A j \in Jobs : Phase(j) = "served" => process_task[j] # "none"
  BY <1>4 DEF Inv, TaskInv
<1> QED
  BY <1>6, <1>7, <1>8

\* Taking the head away does not change the order of the others.
LEMMA TailOrder ==
    ASSUME NEW S, NEW s \in Seq(S), s # <<>>, NEW k, NEW d, k # Head(s)
    PROVE  InFront(Tail(s), k, d) <=> InFront(s, k, d)
<1>1. /\ Len(s) \in Nat \ {0}
      /\ DOMAIN s = 1 .. Len(s)
      /\ DOMAIN Tail(s) = 1 .. Len(s) - 1
      /\ \A i \in 1 .. Len(s) - 1 : Tail(s)[i] = s[i + 1]
      /\ Head(s) = s[1]
  BY TailFacts
<1>2. ASSUME InFront(Tail(s), k, d) PROVE InFront(s, k, d)
  <2>1. PICK m, n \in DOMAIN Tail(s) : m < n /\ Tail(s)[m] = k /\ Tail(s)[n] = d
    BY <1>2 DEF InFront
  <2>2. m + 1 \in DOMAIN s /\ n + 1 \in DOMAIN s /\ m + 1 < n + 1
    BY <1>1, <2>1
  <2>3. s[m + 1] = k /\ s[n + 1] = d
    BY <1>1, <2>1
  <2> QED
    BY <2>2, <2>3 DEF InFront
<1>3. ASSUME InFront(s, k, d) PROVE InFront(Tail(s), k, d)
  <2>1. PICK m, n \in DOMAIN s : m < n /\ s[m] = k /\ s[n] = d
    BY <1>3 DEF InFront
  <2>2. m # 1
    BY <1>1, <2>1
  <2>3. m - 1 \in DOMAIN Tail(s) /\ n - 1 \in DOMAIN Tail(s) /\ m - 1 < n - 1
    BY <1>1, <2>1, <2>2
  <2>4. Tail(s)[m - 1] = s[m - 1 + 1] /\ Tail(s)[n - 1] = s[n - 1 + 1]
    BY <1>1, <2>3
  <2>5. Tail(s)[m - 1] = k /\ Tail(s)[n - 1] = d
    BY <1>1, <2>1, <2>4
  <2> QED
    BY <2>3, <2>5 DEF InFront
<1> QED
  BY <1>2, <1>3

\* Who is appended is behind everybody else, and in front of nobody.
LEMMA AppendOrder ==
    ASSUME NEW S, NEW s \in Seq(S), NEW j \in S, \A i \in DOMAIN s : s[i] # j, NEW k, NEW d
    PROVE  /\ d # j => (InFront(Append(s, j), k, d) <=> InFront(s, k, d))
           /\ InFront(Append(s, j), k, j) <=> \E i \in DOMAIN s : s[i] = k
           /\ ~InFront(Append(s, j), j, d)
<1> DEFINE t == Append(s, j)
<1>1. /\ Len(s) \in Nat
      /\ DOMAIN s = 1 .. Len(s)
      /\ DOMAIN t = 1 .. Len(s) + 1
      /\ \A i \in 1 .. Len(s) : t[i] = s[i]
      /\ t[Len(s) + 1] = j
  BY AppendFacts
<1> HIDE DEF t
<1>2. \A i \in DOMAIN t : (i \in DOMAIN s /\ t[i] = s[i]) \/ i = Len(s) + 1
  BY <1>1
<1>3. \A m, n \in DOMAIN t : m < n => m \in DOMAIN s /\ t[m] = s[m]
  BY <1>1
<1>4. DOMAIN s \subseteq DOMAIN t
  BY <1>1
<1>5. \A i \in DOMAIN s : i < Len(s) + 1 /\ Len(s) + 1 \in DOMAIN t
  BY <1>1
<1>6. d # j => (InFront(t, k, d) <=> InFront(s, k, d))
  BY <1>1, <1>2, <1>3, <1>4 DEF InFront
<1>7. InFront(t, k, j) <=> \E i \in DOMAIN s : s[i] = k
  BY <1>1, <1>3, <1>4, <1>5 DEF InFront
<1>8. ~InFront(t, j, d)
  BY <1>3 DEF InFront
<1> QED
  BY <1>6, <1>7, <1>8 DEF t

\* A job that leaves the state QUEUED, or was not in it, is out of the line; the order of
\* the others stays, and stays the same if it was not in the line.
LEMMA OutOfLine ==
    ASSUME TypeOK, NEW j \in Jobs, NEW s, s # "queued", status' = [status EXCEPT ![j] = s],
           \A k, d \in Jobs : k # j /\ d # j => (InFront(pending', k, d) <=> InFront(pending, k, d)),
           NEW d \in Jobs
    PROVE  /\ Before(d)' = IF d = j THEN {} ELSE Before(d) \ {j}
           /\ status[j] # "queued" => Before(d)' = Before(d)
<1>1. status'[j] # "queued" /\ \A k \in Jobs : k # j => status'[k] = status[k]
  BY DEF TypeOK
<1>2. CASE d = j
  BY <1>1, <1>2 DEF Before
<1>3. CASE d # j
  BY <1>1, <1>3 DEF Before
<1> QED
  BY <1>2, <1>3

\* A step in which no status and no order among the queued changes is none of the service.
LEMMA QuietStep ==
    ASSUME \A d \in Jobs : Phase(d)' = Phase(d) /\ Before(d)' = Before(d)
    PROVE  UNCHANGED Service!serviceVars
  BY DEF Service!serviceVars

\* A job that becomes terminal leaves the service; one that was so before does nothing.
LEMMA EndLeaves ==
    ASSUME Inv, NEW j \in Jobs, status[j] # "new", NEW s \in TerminalStates,
           status' = [status EXCEPT ![j] = s], pending' = pending
    PROVE  [Service!Next]_(Service!serviceVars)
<1>1. TypeOK /\ status[j] \in {"new"} \cup ActiveStates \cup TerminalStates
  BY DEF Inv, TypeOK
<1>2. status'[j] = s /\ \A d \in Jobs : d # j => status'[d] = status[d]
  BY <1>1 DEF TypeOK
<1>3. Phase(j)' = "over" /\ \A d \in Jobs : d # j => Phase(d)' = Phase(d)
  BY <1>2 DEF Phase, TerminalStates
<1>4. \A d \in Jobs : /\ Before(d)' = IF d = j THEN {} ELSE Before(d) \ {j}
                      /\ status[j] # "queued" => Before(d)' = Before(d)
  BY <1>1, OutOfLine DEF TerminalStates
<1>5. CASE status[j] \in ActiveStates
  <2>1. j \in Service!Inside
    BY <1>5, WhoIsWhere DEF ActiveJobs, Inv, RegInv
  <2>2. Service!Leave(j)
    BY <1>3, <1>4, <2>1 DEF Service!Leave, Service!StepsOut
  <2> QED
    BY <2>2 DEF Service!Next
<1>6. CASE status[j] \in TerminalStates
  <2>1. Phase(j) = "over" /\ status[j] # "queued"
    BY <1>6 DEF Phase, TerminalStates
  <2> QED
    BY <1>3, <1>4, <2>1, QuietStep
<1> QED
  BY <1>1, <1>5, <1>6

\* A step that leaves _pending and who is QUEUED alone, and moves no job to another phase.
LEMMA QuietUnless ==
    ASSUME pending' = pending,
           \A d \in Jobs : Phase(d)' = Phase(d) /\ (status'[d] = "queued" <=> status[d] = "queued")
    PROVE  UNCHANGED Service!serviceVars
<1>1. \A d \in Jobs : Before(d)' = Before(d)
  BY DEF Before
<1> QED
  BY <1>1, QuietStep

\* Every step of the queue is a step of the serial service or none.
LEMMA ServiceStep == Inv /\ [Next]_vars => [Service!Next]_(Service!serviceVars)
<1> SUFFICES ASSUME Inv, [Next]_vars PROVE [Service!Next]_(Service!serviceVars)
  OBVIOUS
<1> DEFINE Goal == [Service!Next]_(Service!serviceVars)
<1>0. TypeOK
  BY DEF Inv
<1>1. ASSUME NEW j \in Jobs, Reserve(j) PROVE Goal
  <2>1. status[j] = "new" /\ status' = [status EXCEPT ![j] = "uploading"] /\ pending' = pending
    BY <1>1 DEF Reserve
  <2>2. /\ Phase(j) = "new" /\ Phase(j)' = "admitted"
        /\ \A d \in Jobs : d # j => Phase(d)' = Phase(d)
    BY <1>0, <2>1 DEF TypeOK, Phase
  <2>3. \A d \in Jobs : Before(d)' = Before(d)
    BY <1>0, <2>1, OutOfLine
  <2>4. Service!Cardinality(Service!Inside) < MaxSize
    <3>1. Service!Cardinality(ActiveJobs) = Cardinality(ActiveJobs)
      BY DEF Service!Cardinality, Cardinality
    <3> QED
      BY <1>1, <3>1, WhoIsWhere DEF Reserve, ActiveCount
  <2>5. Service!Admit(j)
    <3>1. [d \in Jobs |-> Phase(d)]' = [[d \in Jobs |-> Phase(d)] EXCEPT ![j] = "admitted"]
      BY <2>2
    <3>2. [d \in Jobs |-> Before(d)]' = [d \in Jobs |-> Before(d)]
      BY <2>3
    <3> QED
      BY <2>2, <2>4, <3>1, <3>2 DEF Service!Admit
  <2> QED
    BY <2>5 DEF Service!Next
<1>2. ASSUME NEW j \in Jobs, Submit(j) PROVE Goal
  <2>1. /\ status[j] = "uploading" /\ status' = [status EXCEPT ![j] = "queued"]
        /\ pending' = Append(pending, j)
        /\ pending \in Seq(Jobs)
    BY <1>0, <1>2 DEF Submit, PutPending, TypeOK
  <2>2. /\ Phase(j) = "admitted" /\ Phase(j)' = "waiting"
        /\ status'[j] = "queued"
        /\ \A d \in Jobs : d # j => Phase(d)' = Phase(d) /\ status'[d] = status[d]
    BY <1>0, <2>1 DEF TypeOK, Phase
  <2>3. \A i \in DOMAIN pending : pending[i] # j
    BY <2>1 DEF Inv, PendInv, PendingAgrees
  <2>4. ASSUME NEW k \in Jobs, NEW d \in Jobs
        PROVE  /\ d # j => (InFront(pending', k, d) <=> InFront(pending, k, d))
               /\ InFront(pending', k, j) <=> \E i \in DOMAIN pending : pending[i] = k
               /\ ~InFront(pending', j, d)
    BY <2>1, <2>3, AppendOrder
  <2>5. \A k \in Jobs : status[k] = "queued" => \E i \in DOMAIN pending : pending[i] = k
    BY DEF Inv, PendInv, PendingAgrees
  <2>6. Before(j)' = {k \in Jobs : status[k] = "queued"}
    BY <2>1, <2>2, <2>4, <2>5 DEF Before
  <2>7. ASSUME NEW d \in Jobs, d # j PROVE Before(d)' = Before(d)
    <3>1. \A k \in Jobs : k # j => (InFront(pending', k, d) <=> InFront(pending, k, d))
      BY <2>4, <2>7
    <3>2. ~InFront(pending', j, d)
      BY <2>4
    <3> QED
      BY <2>1, <2>2, <2>7, <3>1, <3>2 DEF Before
  <2>8. Service!Join(j)
    BY <2>2, <2>6, <2>7, WhoIsWhere DEF Service!Join
  <2> QED
    BY <2>8 DEF Service!Next
<1>3. ASSUME NEW j \in Jobs, Cancel(j) PROVE Goal
  <2>1. status[j] # "new" /\ "cancelled" \in TerminalStates
    BY <1>3 DEF Cancel, Inv, RegInv, TerminalStates
  <2> QED
    BY <1>3, <2>1, EndLeaves DEF Cancel
<1>4. ASSUME WorkerSkip PROVE Goal
  <2>0. PICK h \in Jobs : h = Head(pending)
    BY <1>0, <1>4, TailFacts DEF WorkerSkip, TypeOK
  <2>1. /\ pending \in Seq(Jobs) /\ pending # <<>> /\ pending' = Tail(pending)
        /\ status' = status
    BY <1>0, <1>4 DEF WorkerSkip, TypeOK, jobVars
  <2>2. status[h] # "queued"
    BY <1>4, <2>0 DEF WorkerSkip, Inv, RegInv, ActiveStates
  <2>3. \A k, d \in Jobs : k # h => (InFront(pending', k, d) <=> InFront(pending, k, d))
    BY <2>1, <2>0, TailOrder
  <2>4. \A d \in Jobs : Phase(d)' = Phase(d) /\ Before(d)' = Before(d)
    BY <2>1, <2>2, <2>3 DEF Phase, Before
  <2> QED
    BY <2>4, QuietStep
<1>5. ASSUME WorkerTake PROVE Goal
  <2>0. PICK h \in Jobs : h = Head(pending)
    BY <1>0, <1>5, TailFacts DEF WorkerTake, StartHead, TypeOK
  <2>1. /\ pending \in Seq(Jobs) /\ pending # <<>> /\ pending' = Tail(pending)
        /\ h = pending[1]
        /\ DOMAIN pending = 1 .. Len(pending)
        /\ Len(pending) \in Nat \ {0}
    BY <1>0, <1>5, <2>0, TailFacts DEF WorkerTake, StartHead, TypeOK
  <2>2. status[h] = "queued"
    <3>1. status[pending[1]] \in {"queued", "cancelled"}
      BY <2>1 DEF Inv, PendInv, PendingAgrees
    <3> QED
      BY <1>5, <2>0, <2>1, <3>1 DEF WorkerTake, StartHead
  <2>3. status' = [status EXCEPT ![h] = "processing"]
    BY <1>5, <2>0 DEF WorkerTake, StartHead
  <2>4. \A k \in Jobs : ~InFront(pending, k, h)
    <3>1. \A i, k \in DOMAIN pending : pending[i] = pending[k] => i = k
      BY DEF Inv, PendInv, PendingAgrees
    <3>2. \A n \in DOMAIN pending : pending[n] = h => n = 1
      BY <2>1, <3>1
    <3> QED
      BY <2>1, <3>2 DEF InFront
  <2>5. \A k, d \in Jobs : k # h => (InFront(pending', k, d) <=> InFront(pending, k, d))
    BY <2>1, <2>0, TailOrder
  <2>6. \A d \in Jobs : Before(d)' = IF d = h THEN {} ELSE Before(d) \ {h}
    BY <1>0, <2>1, <2>3, <2>5, OutOfLine
  <2>7. /\ Phase(h) = "waiting" /\ Phase(h)' = "served"
        /\ \A d \in Jobs : d # h => Phase(d)' = Phase(d)
    <3>1. status'[h] = "processing" /\ \A d \in Jobs : d # h => status'[d] = status[d]
      BY <1>0, <2>1, <2>3 DEF TypeOK
    <3> QED
      BY <2>2, <3>1 DEF Phase
  <2>8. \A d \in Jobs : Phase(d) # "served"
    BY <1>5, WhoIsWhere DEF WorkerTake, Inv, TaskInv
  <2>9. Before(h) = {}
    BY <2>4 DEF Before
  <2>10. Service!Serve(h)
    <3>1. [d \in Jobs |-> Phase(d)]' = [[d \in Jobs |-> Phase(d)] EXCEPT ![h] = "served"]
      BY <2>1, <2>7
    <3>2. [d \in Jobs |-> Before(d)]' = [d \in Jobs |-> IF d = h THEN {} ELSE Before(d) \ {h}]
      BY <2>6
    <3> QED
      BY <2>1, <2>7, <2>8, <2>9, <3>1, <3>2 DEF Service!Serve, Service!StepsOut
  <2> QED
    BY <2>1, <2>10 DEF Service!Next
<1>6. ASSUME NEW j \in Jobs, Finishes(j) PROVE Goal
  <2>1. status[j] # "new"
    BY <1>6 DEF Finishes, DoneTask, Inv, TaskInv
  <2> QED
    BY <1>6, <2>1, EndLeaves DEF Finishes, WorkerFinally
<1>7. ASSUME NEW j \in Jobs, ProcessStart(j) \/ ProcessChunk(j) PROVE Goal
  <2>1. /\ pending' = pending
        /\ status[j] \in {"processing", "streaming"}
        /\ status' = status \/ status' = [status EXCEPT ![j] = "streaming"]
    BY <1>7 DEF ProcessStart, ProcessChunk, queueVars, Inv, TaskInv
  <2>2. \A d \in Jobs : Phase(d)' = Phase(d) /\ (status'[d] = "queued" <=> status[d] = "queued")
    BY <1>0, <2>1 DEF TypeOK, Phase
  <2> QED
    BY <2>1, <2>2, QuietUnless
<1>8. ASSUME status' = status, pending' = pending PROVE Goal
  <2>1. \A d \in Jobs : Phase(d)' = Phase(d)
    BY <1>8 DEF Phase
  <2> QED
    BY <1>8, <2>1, QuietUnless
<1>9. ASSUME NEW j \in Jobs,
             ProcessReturn(j) \/ ProcessRaise(j) \/ ProcessCancelled(j) \/ CleanupJob(j)
      PROVE  Goal
  BY <1>8, <1>9 DEF ProcessReturn, ProcessRaise, ProcessCancelled, CleanupJob, queueVars
<1>10. ASSUME Stop \/ StopReturns \/ UNCHANGED vars PROVE Goal
  BY <1>8, <1>10 DEF Stop, StopReturns, vars, jobVars, queueVars
<1> HIDE DEF Goal
<1>11. Goal
  BY <1>1, <1>2, <1>3, <1>4, <1>5, <1>6, <1>7, <1>9, <1>10, NextCases
<1> QED
  BY <1>11 DEF Goal

\* The queue, with its ids, tasks, cancellations and cleanups, implements the serial
\* service: bounded, one at a time, first come first served, and nobody comes back.
THEOREM QueueIsSerialService == Spec => ImplementsSerialService
<1>1. Init => Service!Init
  <2> SUFFICES ASSUME Init PROVE Service!Init
    OBVIOUS
  <2>1. \A j \in Jobs : Phase(j) = "new" /\ Before(j) = {}
    BY DEF Init, Phase, Before
  <2> QED
    BY <2>1 DEF Service!Init
<1> QED
  BY <1>1, ServiceStep, Invariance, PTL DEF Spec, ImplementsSerialService, Service!Spec
=============================================================================
