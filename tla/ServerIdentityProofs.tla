------------------------ MODULE ServerIdentityProofs ------------------------
(***************************************************************************)
(* The server's identity is stable and its pin is never a wrong one, for   *)
(* every set of keys and any number of kills, failures and renewals.       *)
(*                                                                         *)
(* OneIdentity is not inductive: the step that opens the key file for      *)
(* writing preserves it only because nothing was served yet, and the step  *)
(* that writes a pin takes it from the certificate, which has to belong to *)
(* the key.  IdentityInv says what holds at each place of the code.        *)
(***************************************************************************)
EXTENDS ServerIdentity, TLAPS

\* What is on disk at each place of main, the renewal and the script.
PlaceInv ==
    /\ pc \in {"key", "writekey"} => ~CertValid
    /\ pc = "writekey" => key_file = Damaged
    /\ pc \in {"cert", "writecert"} => key_file \in Keys
    /\ pc \in {"pin", "writepin", "load"} => cert_file.key \in Keys
    /\ pc = "load" => pin_file = cert_file.key
    /\ Loaded => config.key \in served
    /\ script # "idle" => pc = "down" /\ script_key \in Keys /\ key_file \notin Keys
    /\ script \in {"openpin", "pin", "openkey", "key"} => cert_file.key = script_key

\* Once something was served, the certificate and the pin are those of the key.
ServedInv ==
    served # {} => /\ cert_file.key \in {key_file, Damaged}
                   /\ pin_file \in {key_file, Damaged}

IdentityInv ==
    /\ IdentityTypeOK
    /\ PlaceInv
    /\ OneIdentity
    /\ ServedInv
    /\ ValidPairMatches

USE FileStates

\* The initial state satisfies the invariant.
LEMMA InitIdentity == Init => IdentityInv
BY MaxMishapsNat
   DEF Init, IdentityInv, IdentityTypeOK, PlaceInv, OneIdentity, ServedInv,
       ValidPairMatches, CertValid, Loaded, Nothing, Certificate, File, Working

\* Every step of the proxy, the script and the environment preserves it.
LEMMA StepIdentity == IdentityInv /\ [Next]_vars => IdentityInv'
<1> SUFFICES ASSUME IdentityInv, [Next]_vars PROVE IdentityInv'
    OBVIOUS
<1> USE DEF IdentityInv, IdentityTypeOK, PlaceInv, OneIdentity, ServedInv,
            ValidPairMatches, CertValid, Loaded, File, Working, vars, files
<1>1. CASE Start
      BY <1>1 DEF Start
<1>2. CASE Tick
      BY <1>2 DEF Tick
<1>3. CASE Check
      BY <1>3 DEF Check, CheckLeadsTo
<1>4. CASE GenerateKey
      BY <1>4 DEF GenerateKey, CreateOrReadKey, GiveUp
<1>5. CASE WriteKey
      BY <1>5 DEF WriteKey
<1>6. CASE OpenCert
      BY <1>6 DEF OpenCert, Unreadable, Certificate
<1>7. CASE WriteCert
      BY <1>7 DEF WriteCert, Certificate
<1>8. CASE OpenPin
      BY <1>8 DEF OpenPin
<1>9. CASE WritePin
      BY <1>9 DEF WritePin
<1>10. CASE Load
      BY <1>10 DEF Load, GiveUp
<1>11. CASE ScriptBegins
      BY <1>11 DEF ScriptBegins, Unreadable, Nothing, Certificate
<1>12. CASE ScriptWritesCert
      BY <1>12 DEF ScriptWritesCert, Certificate
<1>13. CASE ScriptWritesPin
      BY <1>13 DEF ScriptWritesPin
<1>14. CASE ScriptWritesKey
      BY <1>14 DEF ScriptWritesKey
<1>15. CASE FileFails
      BY <1>15, MaxMishapsNat DEF FileFails, GiveUp
<1>16. CASE Killed
      BY <1>16, MaxMishapsNat DEF Killed, Nothing, Certificate
<1>17. CASE Expire
      BY <1>17 DEF Expire
<1>18. CASE UNCHANGED vars
      BY <1>18
<1>19. QED
      BY <1>1, <1>2, <1>3, <1>4, <1>5, <1>6, <1>7, <1>8, <1>9, <1>10, <1>11, <1>12,
         <1>13, <1>14, <1>15, <1>16, <1>17, <1>18 DEF Next, Proxy, Script

\* The inductive invariant holds in every reachable state.
THEOREM IdentityInvariance == Spec => []IdentityInv
<1>1. Init => IdentityInv
      BY InitIdentity
<1>2. IdentityInv /\ [Next]_vars => IdentityInv'
      BY StepIdentity
<1>3. QED
      BY <1>1, <1>2, PTL DEF Spec

\* Every variable keeps its type.
THEOREM IdentityTyped == Spec => []IdentityTypeOK
<1>1. IdentityInv => IdentityTypeOK
      BY DEF IdentityInv
<1>2. QED
      BY <1>1, IdentityInvariance, PTL

\* cert_renewal_task and restarts never change the key that pinned clients know.
THEOREM IdentityIsStable == Spec => []OneIdentity
<1>1. IdentityInv => OneIdentity
      BY DEF IdentityInv
<1>2. QED
      BY <1>1, IdentityInvariance, PTL

\* write_server_spki_pin never leaves the pin of another key once one is served.
THEOREM PinIsRight == Spec => []PinIsServed
<1>1. IdentityInv => PinIsServed
      <2> SUFFICES ASSUME IdentityInv, served # {} PROVE pin_file \in served \cup {Damaged}
          BY DEF PinIsServed
      <2>1. PICK k \in served : key_file = k
            BY DEF IdentityInv, OneIdentity
      <2>2. QED
            BY <2>1 DEF IdentityInv, ServedInv
<1>2. QED
      BY <1>1, IdentityInvariance, PTL

\* No kill leaves a valid certificate next to a key that is not its own.
THEOREM PairsMatch == Spec => []ValidPairMatches
<1>1. IdentityInv => ValidPairMatches
      BY DEF IdentityInv
<1>2. QED
      BY <1>1, IdentityInvariance, PTL
=============================================================================
