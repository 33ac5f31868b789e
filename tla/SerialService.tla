---------------------------- MODULE SerialService ----------------------------
(***************************************************************************)
(* What the transcription queue promises its clients, without any of its   *)
(* machinery: a bounded number of clients inside, one served at a time, in *)
(* the order in which they joined the line; anyone inside may leave at any *)
(* time, and whoever has left does not come back.                          *)
(***************************************************************************)
EXTENDS Naturals, FiniteSets

CONSTANTS Clients,   \* everyone who may ever ask for service
          Places     \* how many may be inside at once

VARIABLES phase,     \* where each client is
          ahead      \* who waits in front of each client: was waiting when it joined

serviceVars == <<phase, ahead>>

Inside == {c \in Clients : phase[c] \in {"admitted", "waiting", "served"}}
Waiting == {c \in Clients : phase[c] = "waiting"}

Init == /\ phase = [c \in Clients |-> "new"]
        /\ ahead = [c \in Clients |-> {}]

Admit(c) == /\ phase[c] = "new"
            /\ Cardinality(Inside) < Places
            /\ phase' = [phase EXCEPT ![c] = "admitted"]
            /\ UNCHANGED ahead

Join(c) == /\ phase[c] = "admitted"
           /\ phase' = [phase EXCEPT ![c] = "waiting"]
           /\ ahead' = [ahead EXCEPT ![c] = Waiting]

\* The client is no longer in the line, if it was.
StepsOut(c) == ahead' = [d \in Clients |-> IF d = c THEN {} ELSE ahead[d] \ {c}]

Serve(c) == /\ phase[c] = "waiting"
            /\ ahead[c] = {}
            /\ \A d \in Clients : phase[d] # "served"
            /\ phase' = [phase EXCEPT ![c] = "served"]
            /\ StepsOut(c)

Leave(c) == /\ c \in Inside
            /\ phase' = [phase EXCEPT ![c] = "over"]
            /\ StepsOut(c)

Next == \E c \in Clients : Admit(c) \/ Join(c) \/ Serve(c) \/ Leave(c)

Spec == Init /\ [][Next]_serviceVars
=============================================================================
