--------------------------- MODULE StreamContract ---------------------------
(***************************************************************************)
(* What POST /v1/transcribe promises the client of one request, without    *)
(* queue, spool or tasks: the request is refused, or answered by a stream  *)
(* that passes on every chunk the job produces, in order, and then says    *)
(* truthfully how the job ended; only a client that has left may find its  *)
(* stream dropped.                                                         *)
(***************************************************************************)
EXTENDS Naturals

VARIABLES
    produced,   \* chunks that the job has produced
    outcome,    \* how the job ended, "none" before
    sent,       \* chunks that the stream has passed on
    answer,     \* "none", "refused", "streaming", "done", "error", "dropped"
    present     \* the client has not left

contractVars == <<produced, outcome, sent, answer, present>>

Init == /\ produced = 0
        /\ outcome = "none"
        /\ sent = 0
        /\ answer = "none"
        /\ present = TRUE

\* A job ends once, but for a cancelled one that is recorded as failed in the end; it
\* is not cancelled under a client that waits for its stream.
Settles == \/ UNCHANGED outcome
           \/ outcome = "none" /\ outcome' \in {"completed", "failed"}
           \/ outcome = "none" /\ outcome' = "cancelled" /\ (answer = "none" \/ ~present)
           \/ outcome = "cancelled" /\ outcome' = "failed"

Refuse == /\ answer = "none"
          /\ answer' = "refused"
          /\ Settles
          /\ UNCHANGED <<produced, sent, present>>

Accept == /\ answer = "none"
          /\ outcome = "cancelled" => ~present
          /\ answer' = "streaming"
          /\ UNCHANGED <<produced, outcome, sent, present>>

Produce == /\ outcome = "none"
           /\ produced' = produced + 1
           /\ UNCHANGED <<outcome, sent, answer, present>>

Settle == /\ Settles
          /\ UNCHANGED <<produced, sent, answer, present>>

Send == /\ answer = "streaming"
        /\ sent < produced
        /\ sent' = sent + 1
        /\ UNCHANGED <<produced, outcome, answer, present>>

Finish == /\ answer = "streaming"
          /\ sent = produced
          /\ \/ outcome = "completed" /\ answer' = "done"
             \/ outcome = "failed" /\ answer' = "error"
          /\ UNCHANGED <<produced, outcome, sent, present>>

Leave == /\ present
         /\ present' = FALSE
         /\ UNCHANGED <<produced, outcome, sent, answer>>

Drop == /\ answer = "streaming"
        /\ ~present
        /\ answer' = "dropped"
        /\ Settles
        /\ UNCHANGED <<produced, sent, present>>

Next == Refuse \/ Accept \/ Produce \/ Settle \/ Send \/ Finish \/ Leave \/ Drop

Spec == Init /\ [][Next]_contractVars
=============================================================================
