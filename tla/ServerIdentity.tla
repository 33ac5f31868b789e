--------------------------- MODULE ServerIdentity ---------------------------
(***************************************************************************)
(* The TLS identity of the proxy (rust_proxy/src/main.rs): a private key,  *)
(* the self-signed certificate over it and the exported pin of the key are *)
(* three files, and a fourth copy is the configuration in memory that new  *)
(* connections use.  main brings them in line at start-up and              *)
(* cert_renewal_task once the certificate has expired; before the first    *)
(* start scripts/generate_cert.py may have written the files.  Clients     *)
(* know the server by its pin only, so the key must never change.          *)
(*                                                                         *)
(* Opening a file for writing empties it, so an action is one of opening,  *)
(* writing or reading a file.  The process may be killed and any operation *)
(* on a file may fail in between; systemd restarts a proxy that has ended. *)
(***************************************************************************)
EXTENDS Naturals

CONSTANTS
    Keys,        \* the private keys; a public key and its pin stand for the key
    Missing,     \* no such file; as a configuration: nothing loaded
    Damaged,     \* a file that is empty, truncated or not readable as PEM
    MaxCerts,    \* bound of the model: certificates that may be issued
    MaxMishaps   \* bound of the model: kills and failed file operations

ASSUME FileStates == Missing \notin Keys /\ Damaged \notin Keys /\ Missing # Damaged
ASSUME MaxCertsNat == MaxCerts \in Nat
ASSUME MaxMishapsNat == MaxMishaps \in Nat

VARIABLES
    key_file,    \* the key in it, Missing or Damaged
    cert_file,   \* [key, serial]: the certified key, or Missing or Damaged
    pin_file,    \* the key whose pin it holds, Missing or Damaged
    config,      \* the certificate that tls_config holds
    pc,          \* where main or cert_renewal_task is; "serving" while it sleeps
    script,      \* where _generate_cert is, and
    script_key,  \* the key that it has generated
    issued,      \* number of certificates issued so far
    expired,     \* serials whose validity has ended
    served,      \* history: the keys that any configuration has used
    mishaps      \* kills and failures so far

files == <<key_file, cert_file, pin_file>>
vars == <<files, config, pc, script, script_key, issued, expired, served, mishaps>>

Certificate(k, n) == [key |-> k, serial |-> n]
Nothing == Certificate(Missing, 0)
Unreadable == Certificate(Damaged, 0)

File == Keys \cup {Missing, Damaged}

\* The places of main and cert_renewal_task that work on files.
Working == {"key", "writekey", "cert", "writecert", "pin", "writepin", "load"}

\* The state is well formed; in particular main comes to serve only with a
\* configuration in tls_config, whatever failed before.
IdentityTypeOK ==
    /\ key_file \in File
    /\ cert_file \in [key : File, serial : 0 .. issued]
    /\ pin_file \in File
    /\ config \in [key : Keys \cup {Missing}, serial : 0 .. issued]
    /\ pc \in {"down", "check", "serving"} \cup Working
    /\ pc = "serving" => config.key \in Keys
    /\ script \in {"idle", "cert", "openpin", "pin", "openkey", "key"}
    /\ script_key \in Keys \cup {Missing}
    /\ issued \in Nat
    /\ expired \in SUBSET (1 .. issued)
    /\ served \in SUBSET Keys
    /\ mishaps \in 0 .. MaxMishaps

\* A host on which nothing was generated yet.
Init ==
    /\ key_file = Missing
    /\ cert_file = Nothing
    /\ pin_file = Missing
    /\ config = Nothing
    /\ pc = "down"
    /\ script = "idle"
    /\ script_key = Missing
    /\ issued = 0
    /\ expired = {}
    /\ served = {}
    /\ mishaps = 0

Loaded == config.key # Missing

-----------------------------------------------------------------------------
(* main until it serves, and one round of cert_renewal_task.               *)

\* Definitions named Bug... are faulty variants of the one that follows them.

Start ==
    /\ pc = "down"
    /\ script = "idle"
    /\ pc' = "check"
    /\ UNCHANGED <<files, config, script, script_key, issued, expired, served, mishaps>>

Tick ==
    /\ pc = "serving"
    /\ pc' = "check"
    /\ UNCHANGED <<files, config, script, script_key, issued, expired, served, mishaps>>

\* check_cert_expiry: Some for a readable certificate that has not expired.
CertValid == cert_file.key \in Keys /\ cert_file.serial \notin expired

CheckLeadsTo(place) ==
    /\ pc = "check"
    /\ pc' = place
    /\ UNCHANGED <<files, config, script, script_key, issued, expired, served, mishaps>>

BugPinOnlyWithNewCert ==
    CheckLeadsTo(IF ~CertValid THEN "key" ELSE IF Loaded THEN "serving" ELSE "load")
BugUnreadableIsValid ==
    CheckLeadsTo(IF cert_file.serial \in expired \/ cert_file.key = Missing THEN "key"
                 ELSE IF Loaded THEN "serving" ELSE "pin")
BugNeverExpires ==
    CheckLeadsTo(IF cert_file.key \notin Keys THEN "key" ELSE IF Loaded THEN "serving" ELSE "pin")
BugAlwaysRenews == CheckLeadsTo("key")

\* A valid file is all that the renewal asks for; main goes on with pin and load.
Check == CheckLeadsTo(IF ~CertValid THEN "key" ELSE IF Loaded THEN "serving" ELSE "pin")

\* main logs the error and goes on, as the renewal task does.
BugErrorIsLogged == pc' = "serving"

\* An error panics in main and ends the round of the renewal task.
GiveUp == pc' = IF Loaded THEN "serving" ELSE "down"

BugNewKeyForNewCert == key_file' = Damaged /\ pc' = "writekey"

\* generate_self_signed_cert opens the key file to create it, or reads it.
CreateOrReadKey ==
    /\ key_file' = IF key_file = Missing THEN Damaged ELSE key_file
    /\ pc' = IF key_file = Missing THEN "writekey" ELSE "cert"

\* An existing key is used again; one that cannot be parsed is an error.
GenerateKey ==
    /\ pc = "key"
    /\ IF key_file = Damaged THEN GiveUp /\ UNCHANGED key_file ELSE CreateOrReadKey
    /\ UNCHANGED <<cert_file, pin_file, config, script, script_key, issued, expired,
                   served, mishaps>>

WriteKey ==
    /\ pc = "writekey"
    /\ \E k \in Keys : key_file' = k
    /\ pc' = "cert"
    /\ UNCHANGED <<cert_file, pin_file, config, script, script_key, issued, expired,
                   served, mishaps>>

OpenCert ==
    /\ pc = "cert"
    /\ cert_file' = Unreadable
    /\ pc' = "writecert"
    /\ UNCHANGED <<key_file, pin_file, config, script, script_key, issued, expired,
                   served, mishaps>>

WriteCert ==
    /\ pc = "writecert"
    /\ cert_file' = Certificate(key_file, issued + 1)
    /\ issued' = issued + 1
    /\ pc' = "pin"
    /\ UNCHANGED <<key_file, pin_file, config, script, script_key, expired, served, mishaps>>

\* write_server_spki_pin, with the key of the certificate on disk.
OpenPin ==
    /\ pc = "pin"
    /\ pin_file' = Damaged
    /\ pc' = "writepin"
    /\ UNCHANGED <<key_file, cert_file, config, script, script_key, issued, expired,
                   served, mishaps>>

WritePin ==
    /\ pc = "writepin"
    /\ pin_file' = cert_file.key
    /\ pc' = "load"
    /\ UNCHANGED <<key_file, cert_file, config, script, script_key, issued, expired,
                   served, mishaps>>

\* build_tls_config refuses a key that is not there, not readable or not the one
\* of the certificate; otherwise the configuration is swapped.
Load ==
    /\ pc = "load"
    /\ IF key_file = cert_file.key
       THEN /\ config' = cert_file
            /\ served' = served \cup {key_file}
            /\ pc' = "serving"
       ELSE GiveUp /\ UNCHANGED <<config, served>>
    /\ UNCHANGED <<files, script, script_key, issued, expired, mishaps>>

-----------------------------------------------------------------------------
(* scripts/generate_cert.py, run by the operator before the first start.   *)

ScriptBegins ==
    /\ pc = "down"
    /\ script = "idle"
    /\ key_file = Missing /\ cert_file = Nothing /\ pin_file = Missing
    /\ script_key' \in Keys
    /\ cert_file' = Unreadable
    /\ script' = "cert"
    /\ UNCHANGED <<key_file, pin_file, config, pc, issued, expired, served, mishaps>>

ScriptWritesCert ==
    /\ script = "cert"
    /\ cert_file' = Certificate(script_key, issued + 1)
    /\ issued' = issued + 1
    /\ script' = "openpin"
    /\ UNCHANGED <<key_file, pin_file, config, pc, script_key, expired, served, mishaps>>

ScriptWritesPin ==
    /\ \/ script = "openpin" /\ script' = "pin" /\ pin_file' = Damaged
       \/ script = "pin" /\ script' = "openkey" /\ pin_file' = script_key
    /\ UNCHANGED <<key_file, cert_file, config, pc, script_key, issued, expired,
                   served, mishaps>>

ScriptWritesKey ==
    /\ \/ script = "openkey" /\ script' = "key" /\ key_file' = Damaged
       \/ script = "key" /\ script' = "idle" /\ key_file' = script_key
    /\ UNCHANGED <<cert_file, pin_file, config, pc, script_key, issued, expired,
                   served, mishaps>>

-----------------------------------------------------------------------------
(* The environment.                                                        *)

\* The operation at hand fails: disk full, permissions, an unreadable client CA.
FileFails ==
    /\ pc \in Working
    /\ mishaps < MaxMishaps
    /\ mishaps' = mishaps + 1
    /\ GiveUp
    /\ UNCHANGED <<files, config, script, script_key, issued, expired, served>>

Killed ==
    /\ mishaps < MaxMishaps
    /\ mishaps' = mishaps + 1
    /\ \/ pc # "down" /\ pc' = "down" /\ config' = Nothing /\ UNCHANGED script
       \/ script # "idle" /\ script' = "idle" /\ UNCHANGED <<pc, config>>
    /\ UNCHANGED <<files, script_key, issued, expired, served>>

Expire ==
    /\ issued < MaxCerts
    /\ \E n \in (1 .. issued) \ expired : expired' = expired \cup {n}
    /\ UNCHANGED <<files, config, pc, script, script_key, issued, served, mishaps>>

-----------------------------------------------------------------------------
Proxy == \/ Start
         \/ Tick
         \/ Check
         \/ GenerateKey
         \/ WriteKey
         \/ OpenCert
         \/ WriteCert
         \/ OpenPin
         \/ WritePin
         \/ Load

Script == ScriptWritesCert \/ ScriptWritesPin \/ ScriptWritesKey

Next == Proxy \/ ScriptBegins \/ Script \/ FileFails \/ Killed \/ Expire

\* systemd restarts the proxy, its sleep ends, and a script that was started goes on.
Spec == Init /\ [][Next]_vars
FairSpec == Spec /\ WF_vars(Proxy) /\ WF_vars(Script)

-----------------------------------------------------------------------------
(* Safety.                                                                 *)

\* A client that has pinned the server recognises it for ever: whatever key the proxy
\* has ever served with is the one in the key file, through renewals, failures in the
\* middle of them, kills and restarts.
OneIdentity == \A k \in served : key_file = k

\* The pin that generate_client_bundle would export is the one of the key in use,
\* or no pin at all; a pin left by an earlier, unfinished generation is replaced
\* before anything is served.
PinIsServed == served # {} => pin_file \in served \cup {Damaged}

\* A certificate that passes the check belongs to the key next to it, if there is one,
\* so no kill leaves a readable pair that build_tls_config refuses for ever.
ValidPairMatches == CertValid /\ key_file \in Keys => cert_file.key = key_file

-----------------------------------------------------------------------------
(* Liveness.                                                               *)

\* With the key on disk, a proxy that has ended comes to serve again, whatever state
\* the other files were left in.
RestartHeals == pc = "down" /\ key_file \in Keys ~> pc = "serving"

ServesExpired == Loaded /\ config.serial \in expired

\* Without a failure, an expired certificate in use is replaced.
RenewalReloads == ServesExpired ~> (~ServesExpired \/ mishaps > 0)

\* Not true of the code: the same in spite of a failure that passes.  The renewal
\* looks at the file on disk and not at the configuration in use.
ExpiryHotReloads == ServesExpired ~> ~ServesExpired
=============================================================================
