-------------------------- MODULE ClientCredentials --------------------------
(***************************************************************************)
(* The scripts that make and judge the client's credentials                *)
(* (scripts/generate_client_cert.py, validate_client_cert.py and           *)
(* generate_client_bundle.py).  Any of them may run at the same time, be   *)
(* killed between two system calls, and find files that the operator has   *)
(* removed meanwhile.                                                      *)
(*                                                                         *)
(* A run of the generator makes one CA, one certificate and one key, so    *)
(* the run itself stands for its generation of key material.  The CA's key *)
(* is not stored: certificate and key can only come from the CA's own run. *)
(* Expiry (ten years) and damaged contents are left out.                   *)
(***************************************************************************)
EXTENDS Naturals, Sequences

CONSTANTS
    Scripts,        \* runs of the scripts
    NoFile,         \* there is no file of that name
    MaxDeletions    \* bound of the model: removals by the operator

ASSUME CredentialConstants ==
    /\ NoFile \notin [by : Scripts, of : Scripts, whole : BOOLEAN]
    /\ MaxDeletions \in Nat

VARIABLES
    file,           \* what is on disk under each name
    role,           \* what each script does, "none" before it is started
    pc,             \* its position in the program of its role
    got,            \* generations of the files it has read
    verdict,        \* "none" while it runs, then its exit status
    undisturbed,    \* scripts that have not failed, and since whose start no file was removed
    deletions,
    dir             \* whether each directory is there, and its mode

\* The generator shares its directories with setup.sh, which makes some of them itself.
credVars == <<file, role, pc, got, verdict, undisturbed, deletions>>

Credentials == {"ca", "cert", "key"}
Names == Credentials \cup {"bundle"}
Files == [by : Scripts, of : Scripts, whole : BOOLEAN]
Roles == {"generate", "validate", "bundle"}

\* The directories of the CA and of certificate and key; "run" stands for the ones that
\* setup.sh makes for configuration, socket and uploads.
Dirs == {"certs", "keys", "run"}
Modes == {"none", "loose", "private"}

\* The system calls of each script, in order.
Step(op, name) == [op |-> op, name |-> name]

\* _generate_client_auth_artifacts, which ends with a validation of what it wrote.
Generate == <<Step("check", "ca"),
              Step("mkdir", "certs"), Step("chmod", "certs"),
              Step("mkdir", "keys"), Step("chmod", "keys"),
              Step("open", "ca"), Step("fill", "ca"),
              Step("open", "cert"), Step("fill", "cert"),
              Step("open", "key"), Step("fill", "key"),
              Step("stat", "ca"), Step("read", "ca"), Step("read", "cert"),
              Step("read", "key"), Step("judge", "ca")>>

\* validate_client_auth_artifacts
Validate == <<Step("stat", "ca"), Step("read", "ca"), Step("read", "cert"),
              Step("read", "key"), Step("judge", "ca")>>

\* write_client_bundle_file, where every file is checked just before it is read.
Bundle == <<Step("read", "ca"), Step("read", "cert"), Step("read", "key"),
            Step("judge", "ca"), Step("open", "bundle"), Step("fill", "bundle")>>

Program == [generate |-> Generate, validate |-> Validate, bundle |-> Bundle]

CredTypeOK ==
    /\ file \in [Names -> Files \cup {NoFile}]
    /\ role \in [Scripts -> Roles \cup {"none"}]
    /\ pc \in [Scripts -> 0..16]
    /\ got \in [Scripts -> [Credentials -> Scripts]]
    /\ verdict \in [Scripts -> {"none", "ok", "failed"}]
    /\ undisturbed \subseteq Scripts
    /\ deletions \in 0..MaxDeletions

CredInit ==
    /\ file = [n \in Names |-> NoFile]
    /\ role = [s \in Scripts |-> "none"]
    /\ pc = [s \in Scripts |-> 0]
    /\ got = [s \in Scripts |-> [n \in Credentials |-> s]]
    /\ verdict = [s \in Scripts |-> "none"]
    /\ undisturbed = {}
    /\ deletions = 0
    /\ dir = [d \in Dirs |-> "none"]

Running(s) == role[s] # "none" /\ verdict[s] = "none"
At(s, op) == Running(s) /\ Program[role[s]][pc[s]].op = op
Name(s) == Program[role[s]][pc[s]].name

\* Definitions named Bug... are faulty variants of the one that follows them.

Ends(s, status) ==
    /\ verdict' = [verdict EXCEPT ![s] = status]
    /\ pc' = [pc EXCEPT ![s] = 0]
    /\ got' = [got EXCEPT ![s] = [n \in Credentials |-> s]]
    /\ undisturbed' = IF status = "ok" THEN undisturbed ELSE undisturbed \ {s}

\* The step is done; after the last one the script exits with status 0.
Continues(s) ==
    IF pc[s] = Len(Program[role[s]]) THEN Ends(s, "ok")
    ELSE pc' = [pc EXCEPT ![s] = @ + 1] /\ UNCHANGED <<verdict, got, undisturbed>>

Launch(s, r) ==
    /\ role[s] = "none"
    /\ role' = [role EXCEPT ![s] = r]
    /\ pc' = [pc EXCEPT ![s] = 1]
    /\ undisturbed' = undisturbed \cup {s}
    /\ UNCHANGED <<file, got, verdict, deletions>>

\* The generator starts only from nothing.
Check(s) ==
    /\ At(s, "check")
    /\ IF \A n \in Credentials : file[n] = NoFile THEN Continues(s) ELSE Ends(s, "failed")
    /\ UNCHANGED <<file, role, deletions>>

\* A subject, a validity, a URL or a pin is refused before the first write, where among
\* the reads makes no difference; or a directory appears between exists() and mkdir().
InputRefused(s) ==
    /\ Running(s)
    /\ pc[s] = 1 \/ At(s, "mkdir")
    /\ role[s] # "validate"
    /\ Ends(s, "failed")
    /\ UNCHANGED <<file, role, deletions>>

\* What exists has to be private already; what does not is created with the mode that
\* the umask leaves, and given its own in a second step.
Acceptable(d) == dir[d] # "loose"
Made(d) == dir' = [dir EXCEPT ![d] = IF @ = "none" THEN "loose" ELSE @]
Restricted(d) == dir' = [dir EXCEPT ![d] = "private"]

\* _create_or_validate_directory; its second step has nothing to do for a directory that
\* was there.
MakeDir(s) ==
    /\ At(s, "mkdir")
    /\ Made(Name(s))
    /\ IF Acceptable(Name(s)) THEN Continues(s) ELSE Ends(s, "failed")
    /\ UNCHANGED <<file, role, deletions>>

ChmodDir(s) ==
    /\ At(s, "chmod")
    /\ Restricted(Name(s))
    /\ Continues(s)
    /\ UNCHANGED <<file, role, deletions>>

BugOpenTruncates(s) ==
    /\ At(s, "open")
    /\ file' = [file EXCEPT ![Name(s)] =
                    [by |-> s, of |-> IF role[s] = "bundle" THEN got[s]["cert"] ELSE s,
                     whole |-> FALSE]]
    /\ Continues(s)
    /\ UNCHANGED <<role, deletions>>

\* os.open with O_CREAT and O_EXCL: an empty file, or FileExistsError.
OpenFile(s) ==
    /\ At(s, "open")
    /\ IF file[Name(s)] = NoFile
       THEN /\ file' = [file EXCEPT ![Name(s)] =
                            [by |-> s, of |-> IF role[s] = "bundle" THEN got[s]["cert"] ELSE s,
                             whole |-> FALSE]]
            /\ Continues(s)
       ELSE Ends(s, "failed") /\ UNCHANGED file
    /\ UNCHANGED <<role, deletions>>

\* Write, close and chmod.  The data goes to the file that was opened, whatever the
\* name means by now; chmod goes to the name and raises when there is none.
FillFile(s) ==
    LET f == file[Name(s)] IN
    /\ At(s, "fill")
    /\ file' = IF f # NoFile /\ f.by = s THEN [file EXCEPT ![Name(s)].whole = TRUE] ELSE file
    /\ IF f = NoFile THEN Ends(s, "failed") ELSE Continues(s)
    /\ UNCHANGED <<role, deletions>>

\* _validate_directory and _validate_file for all of them, before any is read.
StatFiles(s) ==
    /\ At(s, "stat")
    /\ IF /\ dir["certs"] = "private" /\ dir["keys"] = "private"
          /\ \A n \in Credentials : file[n] # NoFile
       THEN Continues(s) ELSE Ends(s, "failed")
    /\ UNCHANGED <<file, role, deletions>>

\* An empty file does not parse.
Readable(n) == file[n] # NoFile /\ file[n].whole

ReadFile(s) ==
    /\ At(s, "read")
    /\ IF Readable(Name(s))
       THEN /\ got' = [got EXCEPT ![s][Name(s)] = file[Name(s)].of]
            /\ pc' = [pc EXCEPT ![s] = @ + 1]
            /\ UNCHANGED <<verdict, undisturbed>>
       ELSE Ends(s, "failed")
    /\ UNCHANGED <<file, role, deletions>>

BugNoSignatureCheck(g) == g["key"] = g["cert"]

\* The key belongs to the certificate and the CA has signed it.  The issuer name says
\* nothing: it is the same in every generation.
Accepts(g) == g["key"] = g["cert"] /\ g["cert"] = g["ca"]

Judge(s) ==
    /\ At(s, "judge")
    /\ IF Accepts(got[s]) THEN Continues(s) ELSE Ends(s, "failed")
    /\ UNCHANGED <<file, role, deletions>>

FileStep(s) == \/ Check(s) \/ OpenFile(s) \/ FillFile(s)
               \/ StatFiles(s) \/ ReadFile(s) \/ Judge(s)

ScriptStep(s) == \/ FileStep(s) /\ UNCHANGED dir
                 \/ MakeDir(s) \/ ChmodDir(s)

KillScript(s) ==
    /\ Running(s)
    /\ Ends(s, "failed")
    /\ UNCHANGED <<file, role, deletions>>

\* The operator removes files, as a refused partial state asks for.
Delete(names) ==
    /\ names # {}
    /\ \A n \in names : file[n] # NoFile
    /\ deletions < MaxDeletions
    /\ file' = [n \in Names |-> IF n \in names THEN NoFile ELSE file[n]]
    /\ deletions' = deletions + 1
    /\ undisturbed' = {}
    /\ UNCHANGED <<role, pc, got, verdict>>

-----------------------------------------------------------------------------
OneGeneration ==
    \E g \in Scripts : \A n \in Credentials : Readable(n) /\ file[n].of = g

\* Whatever number of generators run at once and wherever they are killed, the files
\* on disk come from one run of _generate_client_auth_artifacts, and are there in the
\* order in which that run writes them, as long as nobody removes one: O_EXCL on the
\* CA, which is written first, decides who goes on.
OneGenerationOnDisk ==
    deletions = 0 =>
        \A n \in Credentials :
            file[n] # NoFile =>
                /\ file["ca"] # NoFile
                /\ file["ca"].by = file[n].by
                /\ n = "key" => file["cert"] # NoFile /\ file["cert"].whole

\* The exit status 0 of a script can be relied on: from then until a file is removed,
\* CA, certificate and key are complete and belong together, and the bundle written
\* by the script holds just that certificate and key.  Files that other runs leave
\* behind, also around removals before the script's start, never pass.
VerdictSound ==
    \A s \in undisturbed :
        verdict[s] = "ok" =>
            /\ OneGeneration
            /\ role[s] = "bundle" =>
                /\ Readable("bundle") /\ file["bundle"].by = s
                /\ file["bundle"].of = file["ca"].of
=============================================================================
