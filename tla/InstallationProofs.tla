-------------------------- MODULE InstallationProofs --------------------------
(***************************************************************************)
(* For any number of scripts, removals and mishaps: the credentials on     *)
(* disk come from one generator, and the upload directory is accounted for.*)
(***************************************************************************)
EXTENDS Installation, TLAPS

(***************************************************************************)
(* What the proofs need to know of the three programs: where they write.   *)
(***************************************************************************)

LengthOf(r) == IF r = "generate" THEN 16 ELSE IF r = "validate" THEN 5 ELSE 6

\* The number of steps of each program.
LEMMA ProgramLength == \A r \in Roles : Len(Program[r]) = LengthOf(r)
  <1>1. Len(Program["generate"]) = 16 BY DEF Program, Generate, Validate, Bundle
  <1>2. Len(Program["validate"]) = 5 BY DEF Program, Generate, Validate, Bundle
  <1>3. Len(Program["bundle"]) = 6 BY DEF Program, Generate, Validate, Bundle
  <1>4. QED BY <1>1, <1>2, <1>3 DEF Roles, LengthOf

\* os.open is called for CA, certificate and key in this order, and for the bundle.
LEMMA ProgramOpens ==
    ASSUME NEW r \in Roles, NEW i \in 1..LengthOf(r), Program[r][i].op = "open"
    PROVE  \/ r = "generate" /\ i = 6 /\ Program[r][i].name = "ca"
           \/ r = "generate" /\ i = 8 /\ Program[r][i].name = "cert"
           \/ r = "generate" /\ i = 10 /\ Program[r][i].name = "key"
           \/ r = "bundle" /\ i = 5 /\ Program[r][i].name = "bundle"
  <1>1. CASE r = "generate" BY <1>1 DEF Program, Generate, Validate, Bundle, Step, LengthOf
  <1>2. CASE r = "validate" BY <1>2 DEF Program, Generate, Validate, Bundle, Step, LengthOf
  <1>3. CASE r = "bundle" BY <1>3 DEF Program, Generate, Validate, Bundle, Step, LengthOf
  <1>4. QED BY <1>1, <1>2, <1>3 DEF Roles

\* Every write follows the open of the same file.
LEMMA ProgramFills ==
    ASSUME NEW r \in Roles, NEW i \in 1..LengthOf(r), Program[r][i].op = "fill"
    PROVE  \/ r = "generate" /\ i = 7 /\ Program[r][i].name = "ca"
           \/ r = "generate" /\ i = 9 /\ Program[r][i].name = "cert"
           \/ r = "generate" /\ i = 11 /\ Program[r][i].name = "key"
           \/ r = "bundle" /\ i = 6 /\ Program[r][i].name = "bundle"
  <1>1. CASE r = "generate" BY <1>1 DEF Program, Generate, Validate, Bundle, Step, LengthOf
  <1>2. CASE r = "validate" BY <1>2 DEF Program, Generate, Validate, Bundle, Step, LengthOf
  <1>3. CASE r = "bundle" BY <1>3 DEF Program, Generate, Validate, Bundle, Step, LengthOf
  <1>4. QED BY <1>1, <1>2, <1>3 DEF Roles

\* The steps that leave the files as they are.
Looks == {"check", "mkdir", "chmod", "stat", "read", "judge"}

\* The generator makes its directories before the first write, and reads and judges
\* after the last one.
LEMMA ProgramReads ==
    ASSUME NEW i \in 1..16, Program["generate"][i].op \in Looks
    PROVE  i <= 5 \/ i >= 12
  BY DEF Program, Generate, Validate, Bundle, Step, Looks

\* A file is read before the last step.
LEMMA ProgramReadsFiles ==
    ASSUME NEW r \in Roles, NEW i \in 1..LengthOf(r), Program[r][i].op = "read"
    PROVE  Program[r][i].name \in Credentials /\ i + 1 \in 1..LengthOf(r)
  <1>1. CASE r = "generate" BY <1>1 DEF Program, Generate, Validate, Bundle, Step, LengthOf, Credentials
  <1>2. CASE r = "validate" BY <1>2 DEF Program, Generate, Validate, Bundle, Step, LengthOf, Credentials
  <1>3. CASE r = "bundle" BY <1>3 DEF Program, Generate, Validate, Bundle, Step, LengthOf, Credentials
  <1>4. QED BY <1>1, <1>2, <1>3 DEF Roles

(***************************************************************************)
(* Credentials.                                                            *)
(***************************************************************************)

\* A generator past an open owns the file, and certificates are whole before the key
\* is opened.
OwnInv ==
    deletions = 0 =>
        \A s \in Scripts :
            Running(s) /\ role[s] = "generate" =>
                /\ pc[s] >= 7 => file["ca"] # NoFile /\ file["ca"].by = s
                /\ pc[s] >= 9 => file["cert"] # NoFile /\ file["cert"].by = s
                /\ pc[s] >= 10 => file["cert"].whole

PlaceInv == \A s \in Scripts : Running(s) => pc[s] \in 1..LengthOf(role[s])

CredInv == CredTypeOK /\ PlaceInv /\ OwnInv /\ OneGenerationOnDisk

\* Nothing is on disk and no script runs at first.
LEMMA CredInitial == CredInit => CredInv
  BY CredentialConstants
  DEF CredInit, CredInv, CredTypeOK, PlaceInv, OwnInv, OneGenerationOnDisk, Running, Files,
      Names, Credentials, Roles

\* A script may end anywhere.
LEMMA EndKeeps ==
    ASSUME CredInv, NEW s \in Scripts, NEW status \in {"ok", "failed"}, Ends(s, status),
           UNCHANGED <<file, role, deletions>>
    PROVE  CredInv'
  <1>1. CredTypeOK'
    <2>1. [n \in Credentials |-> s] \in [Credentials -> Scripts] OBVIOUS
    <2>2. QED BY <2>1 DEF CredInv, CredTypeOK, Ends
  <1>2. \A t \in Scripts : Running(t)' => t # s /\ Running(t) /\ pc'[t] = pc[t]
    BY DEF CredInv, CredTypeOK, Ends, Running
  <1>3. PlaceInv'
    BY <1>2 DEF CredInv, Ends, PlaceInv
  <1>4. OwnInv' /\ OneGenerationOnDisk'
    BY <1>2 DEF CredInv, OwnInv, OneGenerationOnDisk, Readable
  <1>5. QED BY <1>1, <1>3, <1>4 DEF CredInv

\* A step that moves a script on which has nothing to write.
LEMMA QuietStep ==
    ASSUME CredInv, NEW s \in Scripts, Running(s), UNCHANGED <<file, role, deletions>>,
           pc' = [pc EXCEPT ![s] = @ + 1],
           pc[s] + 1 \in 1..LengthOf(role[s]),
           role[s] = "generate" => pc[s] <= 5 \/ pc[s] >= 12,
           UNCHANGED <<verdict, undisturbed>>,
           got' \in [Scripts -> [Credentials -> Scripts]]
    PROVE  CredInv'
  <1>0. pc[s] \in 0..16 /\ pc'[s] = pc[s] + 1
    BY DEF CredInv, CredTypeOK
  <1>1. pc[s] + 1 \in 0..16
    BY <1>0 DEF LengthOf
  <1>2. CredTypeOK'
    BY <1>1 DEF CredInv, CredTypeOK
  <1>3. PlaceInv'
    BY DEF CredInv, CredTypeOK, PlaceInv, Running
  <1>4. OwnInv'
    <2>1. SUFFICES ASSUME deletions = 0, NEW t \in Scripts, Running(t), role[t] = "generate"
                   PROVE  /\ pc'[t] >= 7 => file["ca"] # NoFile /\ file["ca"].by = t
                          /\ pc'[t] >= 9 => file["cert"] # NoFile /\ file["cert"].by = t
                          /\ pc'[t] >= 10 => file["cert"].whole
      BY DEF OwnInv, Running
    <2>2. /\ pc[t] >= 7 => file["ca"] # NoFile /\ file["ca"].by = t
          /\ pc[t] >= 9 => file["cert"] # NoFile /\ file["cert"].by = t
          /\ pc[t] >= 10 => file["cert"].whole
      BY <2>1 DEF CredInv, OwnInv
    <2>3. CASE t = s
      <3>1. pc[s] <= 5 \/ pc[s] >= 12
        BY <2>1, <2>3
      <3>2. QED BY <1>0, <3>1, <2>2, <2>3
    <2>4. CASE t # s
      BY <2>2, <2>4 DEF CredInv, CredTypeOK
    <2>5. QED BY <2>3, <2>4
  <1>5. OneGenerationOnDisk'
    BY DEF CredInv, OneGenerationOnDisk, Readable
  <1>6. QED BY <1>2, <1>3, <1>4, <1>5 DEF CredInv

\* A script that starts has opened and written nothing.
LEMMA LaunchKeeps ==
    ASSUME CredInv, NEW s \in Scripts, NEW r \in Roles, Launch(s, r)
    PROVE  CredInv'
  <1>1. CredTypeOK'
    BY DEF CredInv, CredTypeOK, Launch
  <1>2. PlaceInv'
    BY DEF CredInv, CredTypeOK, Launch, PlaceInv, LengthOf, Running
  <1>3. OwnInv' /\ OneGenerationOnDisk'
    BY DEF CredInv, CredTypeOK, Launch, OwnInv, OneGenerationOnDisk, Readable, Running
  <1>4. QED BY <1>1, <1>2, <1>3 DEF CredInv

\* A running script has one of the three programs.
LEMMA RunningRole == CredInv => \A s \in Scripts : Running(s) => role[s] \in Roles
  BY DEF CredInv, CredTypeOK, Running

\* A step that only moves on keeps the invariant, if the next place is justified.
LEMMA ContinueKeeps ==
    ASSUME CredInv, NEW s \in Scripts, Running(s), Continues(s),
           role[s] = "generate" => pc[s] <= 5 \/ pc[s] >= 12,
           UNCHANGED <<file, role, deletions>>
    PROVE  CredInv'
  <1>1. Len(Program[role[s]]) = LengthOf(role[s]) /\ pc[s] \in 1..LengthOf(role[s])
    BY RunningRole, ProgramLength DEF CredInv, PlaceInv
  <1>2. CASE pc[s] = Len(Program[role[s]])
    BY <1>2, EndKeeps DEF Continues
  <1>3. CASE pc[s] # Len(Program[role[s]])
    <2>1. /\ pc' = [pc EXCEPT ![s] = @ + 1]
          /\ UNCHANGED <<verdict, got, undisturbed>>
      BY <1>3 DEF Continues
    <2>2. LengthOf(role[s]) \in Nat
      BY DEF LengthOf
    <2>3. pc[s] + 1 \in 1..LengthOf(role[s])
      BY <1>1, <1>3, <2>2
    <2>4. got' \in [Scripts -> [Credentials -> Scripts]]
      BY <2>1 DEF CredInv, CredTypeOK
    <2>5. QED BY <2>1, <2>3, <2>4, QuietStep
  <1>4. QED BY <1>2, <1>3

\* Where a script looks, reads or judges.
LEMMA LooksOutside ==
    ASSUME CredInv, NEW s \in Scripts, Running(s),
           Program[role[s]][pc[s]].op \in Looks,
           role[s] = "generate"
    PROVE  pc[s] <= 5 \/ pc[s] >= 12
  <1>1. pc[s] \in 1..16
    BY DEF CredInv, PlaceInv, LengthOf
  <1>2. QED BY <1>1, ProgramReads

\* Checks, looks and verdicts change no file, and neither does a directory.
LEMMA LookKeeps ==
    ASSUME CredInv, NEW s \in Scripts,
           Check(s) \/ StatFiles(s) \/ Judge(s) \/ MakeDir(s) \/ ChmodDir(s)
    PROVE  CredInv'
  <1>1. /\ Running(s)
        /\ Program[role[s]][pc[s]].op \in Looks
        /\ UNCHANGED <<file, role, deletions>>
        /\ Continues(s) \/ Ends(s, "failed")
    BY DEF Check, StatFiles, Judge, MakeDir, ChmodDir, At, Looks
  <1>2. QED BY <1>1, LooksOutside, ContinueKeeps, EndKeeps

\* Reading changes no file.
LEMMA ReadKeeps ==
    ASSUME CredInv, NEW s \in Scripts, ReadFile(s)
    PROVE  CredInv'
  <1>1. /\ Running(s)
        /\ Program[role[s]][pc[s]].op = "read"
        /\ UNCHANGED <<file, role, deletions>>
    BY DEF ReadFile, At
  <1>2. CASE ~Readable(Name(s))
    BY <1>1, <1>2, EndKeeps DEF ReadFile
  <1>3. CASE Readable(Name(s))
    <2>1. /\ got' = [got EXCEPT ![s][Name(s)] = file[Name(s)].of]
          /\ pc' = [pc EXCEPT ![s] = @ + 1]
          /\ UNCHANGED <<verdict, undisturbed>>
      BY <1>3 DEF ReadFile
    <2>2. role[s] \in Roles /\ pc[s] \in 1..LengthOf(role[s])
      BY <1>1, RunningRole DEF CredInv, PlaceInv
    <2>3. Name(s) \in Credentials /\ pc[s] + 1 \in 1..LengthOf(role[s])
      BY <1>1, <2>2, ProgramReadsFiles DEF Name
    <2>4. file[Name(s)].of \in Scripts
      BY <1>3, <2>3 DEF CredInv, CredTypeOK, Readable, Files, Names
    <2>5. got' \in [Scripts -> [Credentials -> Scripts]]
      BY <2>1, <2>3, <2>4 DEF CredInv, CredTypeOK
    <2>6. role[s] = "generate" => pc[s] <= 5 \/ pc[s] >= 12
      BY <1>1, LooksOutside DEF Looks
    <2>7. QED BY <1>1, <2>1, <2>3, <2>5, <2>6, QuietStep
  <1>4. QED BY <1>2, <1>3

\* A step that writes, before the last one or not, keeps types and places.
LEMMA WriteTyped ==
    ASSUME CredInv, NEW s \in Scripts, Running(s), Continues(s),
           file' \in [Names -> Files \cup {NoFile}], UNCHANGED <<role, deletions>>
    PROVE  /\ CredTypeOK' /\ PlaceInv'
           /\ \A t \in Scripts : Running(t)' => Running(t) /\ (t # s => pc'[t] = pc[t])
           /\ Running(s)' => pc'[s] = pc[s] + 1
  <1>1. Len(Program[role[s]]) = LengthOf(role[s]) /\ pc[s] \in 1..LengthOf(role[s])
    BY RunningRole, ProgramLength DEF CredInv, PlaceInv
  <1>2. CASE pc[s] = Len(Program[role[s]])
    <2>1. Ends(s, "ok") BY <1>2 DEF Continues
    <2>2. [n \in Credentials |-> s] \in [Credentials -> Scripts] OBVIOUS
    <2>3. CredTypeOK' BY <2>1, <2>2 DEF CredInv, CredTypeOK, Ends
    <2>4. \A t \in Scripts : Running(t)' => t # s /\ Running(t) /\ pc'[t] = pc[t]
      BY <2>1 DEF CredInv, CredTypeOK, Ends, Running
    <2>5. PlaceInv' BY <2>4 DEF CredInv, PlaceInv
    <2>6. QED BY <2>3, <2>4, <2>5
  <1>3. CASE pc[s] # Len(Program[role[s]])
    <2>1. /\ pc' = [pc EXCEPT ![s] = @ + 1]
          /\ UNCHANGED <<verdict, got, undisturbed>>
      BY <1>3 DEF Continues
    <2>2. pc[s] \in 0..16 /\ pc'[s] = pc[s] + 1
      BY <2>1 DEF CredInv, CredTypeOK
    <2>3. LengthOf(role[s]) \in 0..16
      BY DEF LengthOf
    <2>4. pc[s] + 1 \in 1..LengthOf(role[s]) /\ pc[s] + 1 \in 0..16
      <3>1. pc[s] # LengthOf(role[s]) /\ pc[s] >= 1 /\ pc[s] <= LengthOf(role[s])
        BY <1>1, <1>3, <2>2, <2>3
      <3>2. QED BY <2>2, <2>3, <3>1
    <2>5. CredTypeOK' BY <2>1, <2>4 DEF CredInv, CredTypeOK
    <2>6. PlaceInv' BY <2>1, <2>4 DEF CredInv, CredTypeOK, PlaceInv, Running
    <2>7. \A t \in Scripts : Running(t)' => Running(t) /\ (t # s => pc'[t] = pc[t])
      BY <2>1 DEF CredInv, CredTypeOK, Running
    <2>8. QED BY <2>2, <2>5, <2>6, <2>7
  <1>4. QED BY <1>2, <1>3

\* O_EXCL: only the run that made the CA gets to make the certificate and the key.
LEMMA OpenKeeps ==
    ASSUME CredInv, NEW s \in Scripts, OpenFile(s)
    PROVE  CredInv'
  <1> DEFINE n == Name(s)
             f == [by |-> s, of |-> IF role[s] = "bundle" THEN got[s]["cert"] ELSE s,
                   whole |-> FALSE]
  <1>1. /\ Running(s)
        /\ Program[role[s]][pc[s]].op = "open"
        /\ UNCHANGED <<role, deletions>>
    BY DEF OpenFile, At
  <1>2. CASE file[n] # NoFile
    BY <1>1, <1>2, EndKeeps DEF OpenFile
  <1>3. CASE file[n] = NoFile
    <2>1. file' = [file EXCEPT ![n] = f] /\ Continues(s)
      BY <1>3 DEF OpenFile
    <2>2. \/ role[s] = "generate" /\ pc[s] = 6 /\ n = "ca"
          \/ role[s] = "generate" /\ pc[s] = 8 /\ n = "cert"
          \/ role[s] = "generate" /\ pc[s] = 10 /\ n = "key"
          \/ role[s] = "bundle" /\ pc[s] = 5 /\ n = "bundle"
      BY <1>1, RunningRole, ProgramOpens DEF CredInv, PlaceInv, Name
    <2>3. n \in Names /\ f \in Files /\ f # NoFile /\ f.by = s
      <3>1. got[s]["cert"] \in Scripts BY DEF CredInv, CredTypeOK, Credentials
      <3>2. (IF role[s] = "bundle" THEN got[s]["cert"] ELSE s) \in Scripts BY <3>1
      <3>3. f \in Files BY <3>2 DEF Files
      <3>4. f # NoFile BY <3>3, CredentialConstants DEF Files
      <3>5. n \in Names BY <2>2 DEF Names, Credentials
      <3>6. QED BY <3>3, <3>4, <3>5
    <2>4. file' \in [Names -> Files \cup {NoFile}]
      BY <2>1, <2>3 DEF CredInv, CredTypeOK
    <2> HIDE DEF n, f
    <2>5. /\ CredTypeOK' /\ PlaceInv'
          /\ \A t \in Scripts : Running(t)' => Running(t) /\ (t # s => pc'[t] = pc[t])
          /\ Running(s)' => pc'[s] = pc[s] + 1
      BY <1>1, <2>1, <2>4, WriteTyped
    <2>6. /\ file'[n] = f
          /\ \A m \in Names : m # n => file'[m] = file[m]
      BY <2>1, <2>3 DEF CredInv, CredTypeOK
    <2>7. ASSUME deletions = 0
          PROVE  /\ \A t \in Scripts :
                        Running(t) /\ role[t] = "generate" =>
                            /\ pc[t] >= 7 => file["ca"] # NoFile /\ file["ca"].by = t
                            /\ pc[t] >= 9 => file["cert"] # NoFile /\ file["cert"].by = t
                            /\ pc[t] >= 10 => file["cert"].whole
                 /\ \A m \in Credentials :
                        file[m] # NoFile =>
                            /\ file["ca"] # NoFile
                            /\ file["ca"].by = file[m].by
                            /\ m = "key" => file["cert"] # NoFile /\ file["cert"].whole
      BY <2>7 DEF CredInv, OwnInv, OneGenerationOnDisk, Readable
    <2>8. OwnInv'
      <3>1. SUFFICES ASSUME deletions = 0, NEW t \in Scripts, Running(t)', role[t] = "generate"
                     PROVE  /\ pc'[t] >= 7 => file'["ca"] # NoFile /\ file'["ca"].by = t
                            /\ pc'[t] >= 9 => file'["cert"] # NoFile /\ file'["cert"].by = t
                            /\ pc'[t] >= 10 => file'["cert"].whole
        BY <1>1 DEF OwnInv
      <3>2. CASE t = s
        BY <1>1, <1>3, <2>2, <2>3, <2>5, <2>6, <2>7, <3>1, <3>2 DEF Names, Credentials
      <3>3. CASE t # s
        <4>1. /\ pc[t] >= 7 => file["ca"] # NoFile /\ file["ca"].by = t
              /\ pc[t] >= 9 => file["cert"] # NoFile /\ file["cert"].by = t
              /\ pc[t] >= 10 => file["cert"].whole
          BY <2>5, <2>7, <3>1
        <4>2. pc'[t] = pc[t]
          BY <2>5, <3>1, <3>3
        <4>3. "ca" \in Names /\ "cert" \in Names
          BY DEF Names, Credentials
        <4>4. pc[t] \in 0..16
          BY DEF CredInv, CredTypeOK
        <4>5. QED BY <1>3, <2>6, <4>1, <4>2, <4>3, <4>4
      <3>4. QED BY <3>2, <3>3
    <2>9. OneGenerationOnDisk'
      <3>1. SUFFICES ASSUME deletions = 0, NEW m \in Credentials, file'[m] # NoFile
                     PROVE  /\ file'["ca"] # NoFile
                            /\ file'["ca"].by = file'[m].by
                            /\ m = "key" => file'["cert"] # NoFile /\ file'["cert"].whole
        BY <1>1 DEF OneGenerationOnDisk, Readable
      <3>2. QED BY <1>1, <1>3, <2>2, <2>3, <2>6, <2>7, <3>1 DEF Names, Credentials
    <2>10. QED BY <2>5, <2>8, <2>9 DEF CredInv
  <1>4. QED BY <1>2, <1>3

\* A write completes the file that the same run opened.
LEMMA FillKeeps ==
    ASSUME CredInv, NEW s \in Scripts, FillFile(s)
    PROVE  CredInv'
  <1> DEFINE n == Name(s)
  <1>1. /\ Running(s)
        /\ Program[role[s]][pc[s]].op = "fill"
        /\ UNCHANGED <<role, deletions>>
    BY DEF FillFile, At
  <1>2. \/ role[s] = "generate" /\ pc[s] = 7 /\ n = "ca"
        \/ role[s] = "generate" /\ pc[s] = 9 /\ n = "cert"
        \/ role[s] = "generate" /\ pc[s] = 11 /\ n = "key"
        \/ role[s] = "bundle" /\ pc[s] = 6 /\ n = "bundle"
    BY <1>1, RunningRole, ProgramFills DEF CredInv, PlaceInv, Name
  <1>3. n \in Names
    BY <1>2 DEF Names, Credentials
  <1>4. CASE file[n] = NoFile
    <2>1. UNCHANGED file /\ Ends(s, "failed") BY <1>4 DEF FillFile
    <2>2. QED BY <1>1, <2>1, EndKeeps
  <1>5. CASE file[n] # NoFile
    <2>1. Continues(s)
      BY <1>5 DEF FillFile
    <2>2. /\ file' \in [Names -> Files \cup {NoFile}]
          /\ \A m \in Names : /\ file'[m] = NoFile <=> file[m] = NoFile
                              /\ file[m] # NoFile => file'[m].by = file[m].by
                              /\ file[m] # NoFile /\ file[m].whole => file'[m].whole
          /\ file[n].by = s => file'[n].whole
      <3>1. CASE file[n].by # s
        <4>1. UNCHANGED file BY <3>1 DEF FillFile
        <4>2. QED BY <3>1, <4>1 DEF CredInv, CredTypeOK
      <3>2. CASE file[n].by = s
        <4>1. file' = [file EXCEPT ![n].whole = TRUE] BY <1>5, <3>2 DEF FillFile
        <4>2. file[n] \in Files BY <1>3, <1>5 DEF CredInv, CredTypeOK
        <4>3. /\ [file[n] EXCEPT !.whole = TRUE] \in Files
              /\ [file[n] EXCEPT !.whole = TRUE].by = file[n].by
              /\ [file[n] EXCEPT !.whole = TRUE].whole
          BY <4>2 DEF Files
        <4>4. [file[n] EXCEPT !.whole = TRUE] # NoFile
          BY <4>3, CredentialConstants DEF Files
        <4>5. /\ file'[n] = [file[n] EXCEPT !.whole = TRUE]
              /\ \A m \in Names : m # n => file'[m] = file[m]
          BY <4>1, <1>3 DEF CredInv, CredTypeOK
        <4>6. file' \in [Names -> Files \cup {NoFile}]
          BY <4>1, <4>3 DEF CredInv, CredTypeOK
        <4>7. QED BY <1>3, <1>5, <4>3, <4>4, <4>5, <4>6
      <3>3. QED BY <3>1, <3>2
    <2>3. /\ CredTypeOK' /\ PlaceInv'
          /\ \A t \in Scripts : Running(t)' => Running(t) /\ (t # s => pc'[t] = pc[t])
          /\ Running(s)' => pc'[s] = pc[s] + 1
      BY <1>1, <2>1, <2>2, WriteTyped
    <2>4. "ca" \in Names /\ "cert" \in Names /\ Credentials \subseteq Names
      BY DEF Names, Credentials
    <2> HIDE DEF n
    <2>5. OwnInv'
      <3>1. SUFFICES ASSUME deletions = 0, NEW t \in Scripts, Running(t)', role[t] = "generate"
                     PROVE  /\ pc'[t] >= 7 => file'["ca"] # NoFile /\ file'["ca"].by = t
                            /\ pc'[t] >= 9 => file'["cert"] # NoFile /\ file'["cert"].by = t
                            /\ pc'[t] >= 10 => file'["cert"].whole
        BY <1>1 DEF OwnInv
      <3>2. /\ pc[t] >= 7 => file["ca"] # NoFile /\ file["ca"].by = t
            /\ pc[t] >= 9 => file["cert"] # NoFile /\ file["cert"].by = t
            /\ pc[t] >= 10 => file["cert"].whole
        BY <2>3, <3>1 DEF CredInv, OwnInv
      <3>3. CASE t = s
        BY <1>2, <2>2, <2>3, <2>4, <3>1, <3>2, <3>3
      <3>4. CASE t # s
        <4>1. pc'[t] = pc[t] BY <2>3, <3>1, <3>4
        <4>2. pc[t] \in 0..16 BY DEF CredInv, CredTypeOK
        <4>3. QED BY <2>2, <2>4, <3>2, <4>1, <4>2
      <3>5. QED BY <3>3, <3>4
    <2>6. OneGenerationOnDisk'
      BY <1>1, <2>2, <2>4 DEF CredInv, OneGenerationOnDisk, Readable
    <2>7. QED BY <2>3, <2>5, <2>6 DEF CredInv
  <1>6. QED BY <1>4, <1>5

\* After a removal nothing is claimed of who wrote which file.
LEMMA DeleteKeeps ==
    ASSUME CredInv, NEW names \in SUBSET Names, Delete(names)
    PROVE  CredInv'
  <1>1. deletions' # 0 /\ CredTypeOK'
    BY CredentialConstants DEF CredInv, CredTypeOK, Delete
  <1>2. PlaceInv'
    BY DEF CredInv, PlaceInv, Running, Delete
  <1>3. QED BY <1>1, <1>2 DEF CredInv, OwnInv, OneGenerationOnDisk

(***************************************************************************)
(* Uploads.                                                                *)
(***************************************************************************)

\* The server is down and not wanted from the stop to the start, which is what makes
\* the purge safe; a server that serves came up after the last purge.
UploadInv ==
    /\ epoch \in Nat /\ purged \in Nat /\ purged <= epoch
    /\ \A e \in spool : e \in Nat /\ e > purged
    /\ srv = "serving" => epoch > purged
    /\ at \in {"stopengine", "unlink", "certdir", "certchmod", "credentials", "script",
              "rundir", "runchmod", "purge", "start", "tearengine", "remove"} =>
           srv = "down" /\ "server" \notin wanted

InstallInv == CredInv /\ child \in Scripts /\ UploadInv

\* The initial states satisfy the inductive invariant.
LEMMA InstallInitial == InstallInit => InstallInv
  <1> SUFFICES ASSUME InstallInit PROVE InstallInv OBVIOUS
  <1>1. CredInv BY CredInitial DEF InstallInit
  <1>2. child \in Scripts
    BY InstallationConstants DEF InstallInit
  <1>3. UploadInv BY DEF InstallInit, SocketInit, UploadInv
  <1>4. QED BY <1>1, <1>2, <1>3 DEF InstallInv

\* Every step keeps the inductive invariant.
LEMMA InstallStep == InstallInv /\ [InstallNext]_installVars => InstallInv'
  <1> SUFFICES ASSUME InstallInv, [InstallNext]_installVars PROVE InstallInv' OBVIOUS
  <1> USE DEF InstallInv
  <1>0. ASSUME UNCHANGED credVars PROVE CredInv'
    BY <1>0 DEF credVars, CredInv, CredTypeOK, PlaceInv, OwnInv, OneGenerationOnDisk, Readable,
                Running
  <1>1. CASE SetupStarts
    <2>1. child' \in Scripts
      BY <1>1, InstallationConstants DEF SetupStarts, Unused
    <2>2. UploadInv'
      BY <1>1 DEF SetupStarts, UploadInv, serverVars
    <2>3. QED BY <1>0, <1>1, <2>1, <2>2 DEF SetupStarts
  <1>2. CASE StopProxy \/ StopServer \/ StopEngine \/ UnlinkPath
    <2>1. CASE StopProxy
      BY <1>0, <2>1 DEF StopProxy, Proceed, Goto, Then, UploadInv
    <2>2. CASE StopServer
      BY <1>0, <2>2 DEF StopServer, Proceed, Goto, UploadInv
    <2>3. CASE StopEngine \/ UnlinkPath
      BY <1>0, <2>3 DEF StopEngine, UnlinkPath, Proceed, Goto, UploadInv
    <2>4. QED BY <1>2, <2>1, <2>2, <2>3
  <1>3. CASE EnsureCredentials
    <2>1. CredInv'
      BY <1>0, <1>3, LaunchKeeps DEF EnsureCredentials, Roles
    <2>2. QED BY <1>3, <2>1 DEF EnsureCredentials, Proceed, Goto, UploadInv, serverVars
  <1>4. CASE ScriptReturns
    BY <1>0, <1>4 DEF ScriptReturns, Goto, UploadInv, serverVars
  <1>5. CASE Purge
    BY <1>0, <1>5 DEF Purge, UploadInv
  <1>6. CASE StartServer
    BY <1>0, <1>6 DEF StartServer, Proceed, Goto, Then, UploadInv
  <1>7. CASE ServerAnswers
    BY <1>0, <1>7 DEF ServerAnswers, Proceed, Goto, Then, UploadInv
  <1>8. CASE Verify
    BY <1>0, <1>8 DEF Verify, Goto, UploadInv, serverVars
  <1>9. CASE SetupFails
    BY <1>0, <1>9 DEF SetupFails, Goto, UploadInv
  <1>10. CASE TeardownStarts
    BY <1>0, <1>10 DEF TeardownStarts, Goto, UploadInv, serverVars
  <1>11. CASE ServerActs
    <2>1. UploadInv'
      BY <1>11 DEF ServerActs, ServerStep, Boot, ClearPath, Bind, Chmod, Serve, ServerExits,
                   KillServer, Upload, EngineReady, EngineFails, UploadInv, setupVars
    <2>2. QED BY <1>0, <1>11, <2>1 DEF ServerActs, setupVars
  <1>12. CASE CredentialsChange
    <2>1. CredInv'
      BY <1>12, InstallationConstants, LookKeeps, ReadKeeps, OpenKeeps, FillKeeps,
         LaunchKeeps, DeleteKeeps
      DEF CredentialsChange, ScriptStep, FileStep
    <2>2. QED BY <1>12, <2>1 DEF CredentialsChange, serverVars, setupVars, UploadInv
  <1>13. CASE ScriptFails
    <2>1. CredInv'
      BY <1>13, EndKeeps DEF ScriptFails, InputRefused, KillScript
    <2>2. QED BY <1>13, <2>1 DEF ScriptFails, setupVars, UploadInv
  <1>14. CASE ProxyMakesKey \/ ProxyStarts \/ ProxyReloads
    BY <1>0, <1>14 DEF ProxyMakesKey, ProxyStarts, ProxyReloads, serverVars, setupVars, UploadInv
  <1>15. CASE KillProxy
    BY <1>0, <1>15 DEF KillProxy, setupVars, UploadInv
  <1>16. CASE UNCHANGED installVars
    BY <1>0, <1>16 DEF installVars, serverVars, setupVars, UploadInv
  <1>17. CASE EnsurePrivateDir
    BY <1>0, <1>17 DEF EnsurePrivateDir, Goto, UploadInv, serverVars
  <1>18. QED
    BY <1>1, <1>2, <1>3, <1>4, <1>5, <1>6, <1>7, <1>8, <1>9, <1>10, <1>11, <1>12, <1>13,
       <1>14, <1>15, <1>16, <1>17 DEF InstallNext, Setup

(***************************************************************************)
(* Results.                                                                *)
(***************************************************************************)

\* However many generators run at once, by hand or from setup.sh, and wherever they
\* are killed: while nobody removes a file, the CA, the certificate and the key on
\* disk come from one run of _generate_client_auth_artifacts.
THEOREM CredentialsBelongTogether == InstallSpec => []OneGenerationOnDisk
  <1>1. InstallInv => OneGenerationOnDisk BY DEF InstallInv, CredInv
  <1>2. QED BY <1>1, InstallInitial, InstallStep, PTL DEF InstallSpec

\* setup.sh and teardown.sh empty the upload directory only while no server has an
\* upload in it, and what is in it afterwards is of later servers, for any number of
\* kills and restarts.
THEOREM UploadsAreAccounted == InstallSpec => UploadsAccounted
  <1>1. InstallInv => \A e \in spool : e > purged BY DEF InstallInv, UploadInv
  <1>2. InstallInv /\ [InstallNext]_installVars
            => [Purge => srv = "down" \/ epoch \notin spool]_installVars
    BY DEF InstallInv, UploadInv, Purge
  <1>3. QED
    BY <1>1, <1>2, InstallInitial, InstallStep, PTL DEF InstallSpec, UploadsAccounted

(***************************************************************************)
(* What the exit status of a script says.                                  *)
(***************************************************************************)

\* The position at which a program reads a credential.
ReadAt(r, n) ==
    (IF r = "generate" THEN 13 ELSE IF r = "validate" THEN 2 ELSE 1)
        + (IF n = "ca" THEN 0 ELSE IF n = "cert" THEN 1 ELSE 2)

\* What a running script has read is still on disk, complete and as it was read; past
\* its judgement a bundle script holds a pair that belongs to the CA, and past the open
\* the bundle on disk is its own.
Trusted(s) ==
    /\ \A n \in Credentials :
          pc[s] > ReadAt(role[s], n) => Readable(n) /\ file[n].of = got[s][n]
    /\ role[s] = "bundle" /\ pc[s] >= 5 => Accepts(got[s])
    /\ role[s] = "bundle" /\ pc[s] = 6 =>
          /\ file["bundle"] # NoFile
          /\ file["bundle"].by = s
          /\ file["bundle"].of = got[s]["cert"]

\* What VerdictSound says of one script.
Vouched(s) ==
    /\ OneGeneration
    /\ role[s] = "bundle" =>
        /\ Readable("bundle") /\ file["bundle"].by = s
        /\ file["bundle"].of = file["ca"].of

\* And a script that was not started has not ended.
TrustInv ==
    /\ \A s \in undisturbed : Running(s) => Trusted(s)
    /\ \A s \in Scripts : role[s] = "none" => verdict[s] = "none"

\* A file that is there stays, is of the same run, and stays complete.
FilesStay ==
    \A n \in Names : file[n] # NoFile =>
        /\ file'[n] # NoFile
        /\ file'[n].by = file[n].by
        /\ file'[n].of = file[n].of
        /\ file[n].whole => file'[n].whole

\* Where the programs look and judge.
LEMMA ProgramJudges ==
    ASSUME NEW r \in Roles, NEW i \in 1..LengthOf(r)
    PROVE  /\ Program[r][i].op = "judge" =>
                 i = IF r = "generate" THEN 16 ELSE IF r = "validate" THEN 5 ELSE 4
           /\ Program[r][i].op \in {"check", "mkdir", "chmod"} => r = "generate" /\ i <= 5
           /\ Program[r][i].op = "stat" =>
                 r # "bundle" /\ i = IF r = "generate" THEN 12 ELSE 1
  <1>1. CASE r = "generate" BY <1>1 DEF Program, Generate, Validate, Bundle, Step, LengthOf
  <1>2. CASE r = "validate" BY <1>2 DEF Program, Generate, Validate, Bundle, Step, LengthOf
  <1>3. CASE r = "bundle" BY <1>3 DEF Program, Generate, Validate, Bundle, Step, LengthOf
  <1>4. QED BY <1>1, <1>2, <1>3 DEF Roles

\* Every program reads CA, certificate and key in this order, where ReadAt says.
LEMMA ProgramReadAt ==
    ASSUME NEW r \in Roles, NEW i \in 1..LengthOf(r), Program[r][i].op = "read"
    PROVE  i = ReadAt(r, Program[r][i].name)
  <1>1. CASE r = "generate" BY <1>1 DEF Program, Generate, Validate, Bundle, Step, LengthOf, ReadAt
  <1>2. CASE r = "validate" BY <1>2 DEF Program, Generate, Validate, Bundle, Step, LengthOf, ReadAt
  <1>3. CASE r = "bundle" BY <1>3 DEF Program, Generate, Validate, Bundle, Step, LengthOf, ReadAt
  <1>4. QED BY <1>1, <1>2, <1>3 DEF Roles

\* The position and program of a running script.
LEMMA RunningAt ==
    ASSUME CredInv, NEW s \in Scripts, Running(s)
    PROVE  /\ role[s] \in Roles
           /\ pc[s] \in 1..LengthOf(role[s])
           /\ pc[s] \in 0..16
           /\ Len(Program[role[s]]) = LengthOf(role[s])
  BY RunningRole, ProgramLength DEF CredInv, PlaceInv, CredTypeOK

\* Scripts only add to what is on disk: O_EXCL creates, and a write completes.
LEMMA ScriptsAdd ==
    ASSUME CredInv, NEW s \in Scripts, ScriptStep(s)
    PROVE  FilesStay
  <1>1. CASE \/ Check(s) \/ StatFiles(s) \/ ReadFile(s) \/ Judge(s)
              \/ MakeDir(s) \/ ChmodDir(s)
    BY <1>1 DEF Check, StatFiles, ReadFile, Judge, MakeDir, ChmodDir, FilesStay
  <1>2. CASE OpenFile(s)
    <2>1. CASE file[Name(s)] # NoFile BY <1>2, <2>1 DEF OpenFile, FilesStay
    <2>2. CASE file[Name(s)] = NoFile
      <3>1. \A n \in Names : file[n] # NoFile => file'[n] = file[n]
        BY <1>2, <2>2 DEF OpenFile, CredInv, CredTypeOK
      <3>2. QED BY <3>1 DEF FilesStay
    <2>3. QED BY <2>1, <2>2
  <1>3. CASE FillFile(s)
    <2>1. CASE file[Name(s)] = NoFile \/ file[Name(s)].by # s
      BY <1>3, <2>1 DEF FillFile, FilesStay
    <2>2. CASE file[Name(s)] # NoFile /\ file[Name(s)].by = s
      <3>1. file' = [file EXCEPT ![Name(s)].whole = TRUE]
        BY <1>3, <2>2 DEF FillFile
      <3>2. ASSUME NEW n \in Names, file[n] # NoFile
            PROVE  /\ file'[n] # NoFile
                   /\ file'[n].by = file[n].by
                   /\ file'[n].of = file[n].of
                   /\ file[n].whole => file'[n].whole
        <4>1. file[n] \in Files BY <3>2 DEF CredInv, CredTypeOK
        <4>2. CASE n # Name(s)
          <5>1. file'[n] = file[n] BY <3>1, <4>2 DEF CredInv, CredTypeOK
          <5>2. QED BY <3>2, <5>1
        <4>3. CASE n = Name(s)
          <5>1. file'[n] = [file[n] EXCEPT !.whole = TRUE]
            BY <3>1, <4>3 DEF CredInv, CredTypeOK
          <5>2. /\ [file[n] EXCEPT !.whole = TRUE] \in Files
                /\ [file[n] EXCEPT !.whole = TRUE].by = file[n].by
                /\ [file[n] EXCEPT !.whole = TRUE].of = file[n].of
                /\ [file[n] EXCEPT !.whole = TRUE].whole
            BY <4>1 DEF Files
          <5>3. [file[n] EXCEPT !.whole = TRUE] # NoFile
            BY <5>2, CredentialConstants DEF Files
          <5>4. QED BY <5>1, <5>2, <5>3
        <4>4. QED BY <4>2, <4>3
      <3>3. QED BY <3>2 DEF FilesStay
    <2>3. QED BY <2>1, <2>2
  <1>4. QED BY <1>1, <1>2, <1>3 DEF ScriptStep, FileStep

\* What was complete is, and belongs together as before.
LEMMA GenerationStays ==
    ASSUME FilesStay
    PROVE  /\ \A n \in Names : Readable(n) => Readable(n)' /\ file'[n].of = file[n].of
           /\ OneGeneration => OneGeneration'
  <1>1. \A n \in Names : Readable(n) => Readable(n)' /\ file'[n].of = file[n].of
    BY DEF FilesStay, Readable
  <1>2. Credentials \subseteq Names BY DEF Names
  <1>3. OneGeneration => OneGeneration'
    BY <1>1, <1>2 DEF OneGeneration
  <1>4. QED BY <1>1, <1>3

\* A script that does not move keeps what it knows.
LEMMA BystanderKeeps ==
    ASSUME CredInv, FilesStay, NEW t \in Scripts,
           role'[t] = role[t], pc'[t] = pc[t], got'[t] = got[t]
    PROVE  /\ Trusted(t) => Trusted(t)'
           /\ Vouched(t) => Vouched(t)'
  <1>1. /\ \A n \in Names : Readable(n) => Readable(n)' /\ file'[n].of = file[n].of
        /\ OneGeneration => OneGeneration'
    BY GenerationStays
  <1>2. Credentials \subseteq Names /\ "bundle" \in Names /\ "ca" \in Names
    BY DEF Names, Credentials
  <1>3. file["bundle"] # NoFile => /\ file'["bundle"] # NoFile
                                   /\ file'["bundle"].by = file["bundle"].by
                                   /\ file'["bundle"].of = file["bundle"].of
    BY <1>2 DEF FilesStay
  <1>4. ASSUME Trusted(t) PROVE Trusted(t)'
    BY <1>1, <1>2, <1>3, <1>4 DEF Trusted, Accepts
  <1>5. ASSUME Vouched(t) PROVE Vouched(t)'
    <2>1. OneGeneration => Readable("ca")
      BY DEF OneGeneration, Credentials
    <2>2. QED BY <1>1, <1>2, <1>3, <1>5, <2>1 DEF Vouched, Readable
  <1>6. QED BY <1>4, <1>5

\* A pair that is judged good, read from files that are still there, is one generation.
LEMMA AcceptedIsOne ==
    ASSUME CredInv, NEW s \in Scripts, Running(s), Trusted(s), Accepts(got[s]),
           pc[s] > ReadAt(role[s], "key")
    PROVE  OneGeneration /\ file["ca"].of = got[s]["cert"]
  <1>1. \A n \in Credentials : ReadAt(role[s], n) \in Nat /\ ReadAt(role[s], n) <= ReadAt(role[s], "key")
    BY DEF ReadAt, Credentials
  <1>2. pc[s] \in Nat /\ "key" \in Credentials BY DEF CredInv, CredTypeOK, Credentials
  <1>3. \A n \in Credentials : pc[s] > ReadAt(role[s], n)
    BY <1>1, <1>2
  <1>4. \A n \in Credentials : Readable(n) /\ file[n].of = got[s][n]
    BY <1>3 DEF Trusted
  <1>5. got[s]["ca"] \in Scripts BY DEF CredInv, CredTypeOK, Credentials
  <1>6. \A n \in Credentials : got[s][n] = got[s]["ca"]
    BY DEF Accepts, Credentials
  <1>7. QED BY <1>4, <1>5, <1>6 DEF OneGeneration, Credentials

\* Moving on, before the last step, to a place where nothing more has been read.
LEMMA EarlyStep ==
    ASSUME CredInv, NEW s \in Scripts, Running(s), Continues(s), UNCHANGED role,
           role[s] \in {"generate", "validate"},
           pc[s] < ReadAt(role[s], "ca")
    PROVE  /\ Trusted(s)'
           /\ verdict'[s] # "ok"
  <1>1. /\ role[s] \in Roles /\ pc[s] \in 0..16
        /\ Len(Program[role[s]]) = LengthOf(role[s])
    BY RunningAt
  <1>2. pc[s] # Len(Program[role[s]])
    BY <1>1 DEF LengthOf, ReadAt
  <1>3. pc'[s] = pc[s] + 1 /\ verdict'[s] = "none"
    BY <1>2 DEF Continues, Running, CredInv, CredTypeOK
  <1>4. \A n \in Credentials : ~(pc'[s] > ReadAt(role[s], n))
    BY <1>1, <1>3 DEF ReadAt, Credentials
  <1>5. QED BY <1>3, <1>4 DEF Trusted

\* What the step of a script does to what is known of the script itself.
LEMMA ActorKeeps ==
    ASSUME CredInv, NEW s \in Scripts, Running(s), Trusted(s), ScriptStep(s), s \in undisturbed'
    PROVE  /\ Running(s)' => Trusted(s)'
           /\ verdict'[s] = "ok" => Vouched(s)'
  <1> DEFINE Goal == /\ Running(s)' => Trusted(s)'
                     /\ verdict'[s] = "ok" => Vouched(s)'
  <1>1. /\ role[s] \in Roles
        /\ pc[s] \in 1..LengthOf(role[s])
        /\ pc[s] \in 0..16
        /\ Len(Program[role[s]]) = LengthOf(role[s])
    BY RunningAt
  <1>2. ~Ends(s, "failed")
    BY DEF Ends
  <1>3. FilesStay /\ verdict[s] = "none"
    BY ScriptsAdd DEF Running
  <1>4. ASSUME Check(s) \/ MakeDir(s) \/ ChmodDir(s) \/ StatFiles(s) PROVE Goal
    <2>1. /\ Continues(s) /\ UNCHANGED role
          /\ Program[role[s]][pc[s]].op \in {"check", "mkdir", "chmod", "stat"}
      BY <1>2, <1>4 DEF Check, MakeDir, ChmodDir, StatFiles, At
    <2>2. role[s] \in {"generate", "validate"} /\ pc[s] < ReadAt(role[s], "ca")
      BY <1>1, <2>1, ProgramJudges DEF ReadAt, Roles
    <2>3. QED BY <2>1, <2>2, EarlyStep
  <1>5. ASSUME OpenFile(s) PROVE Goal
    <2>1. /\ Continues(s) /\ UNCHANGED role /\ Program[role[s]][pc[s]].op = "open"
          /\ file[Name(s)] = NoFile
          /\ file' = [file EXCEPT ![Name(s)] =
                        [by |-> s, of |-> IF role[s] = "bundle" THEN got[s]["cert"] ELSE s,
                         whole |-> FALSE]]
      BY <1>2, <1>5 DEF OpenFile, At
    <2>2. \/ role[s] = "generate" /\ pc[s] \in {6, 8, 10}
          \/ role[s] = "bundle" /\ pc[s] = 5 /\ Name(s) = "bundle"
      BY <1>1, <2>1, ProgramOpens DEF Name
    <2>3. CASE role[s] = "generate"
      <3>1. pc[s] < ReadAt(role[s], "ca") BY <2>2, <2>3 DEF ReadAt
      <3>2. QED BY <2>1, <2>3, <3>1, EarlyStep
    <2>4. CASE role[s] = "bundle"
      <3>1. pc[s] # Len(Program[role[s]]) BY <1>1, <2>2, <2>4 DEF LengthOf
      <3>2. pc'[s] = 6 /\ verdict'[s] = "none" /\ got' = got
        BY <1>3, <2>1, <2>2, <2>4, <3>1 DEF Continues, CredInv, CredTypeOK
      <3>3. \A n \in Credentials : pc[s] > ReadAt(role[s], n)
        BY <2>2, <2>4 DEF ReadAt, Credentials
      <3>4. \A n \in Credentials : Readable(n)' /\ file'[n].of = got[s][n]
        <4>1. \A n \in Credentials : n \in Names /\ Readable(n) /\ file[n].of = got[s][n]
          BY <3>3 DEF Trusted, Names
        <4>2. QED BY <1>3, <4>1, GenerationStays
      <3>5. "bundle" \in Names BY DEF Names
      <3> DEFINE f == [by |-> s, of |-> got[s]["cert"], whole |-> FALSE]
      <3>6. file'["bundle"] = f
        BY <2>1, <2>2, <2>4, <3>5 DEF CredInv, CredTypeOK
      <3>7. f # NoFile
        <4>1. f \in Files BY DEF Files, CredInv, CredTypeOK, Credentials
        <4>2. QED BY <4>1, CredentialConstants DEF Files
      <3>8. Accepts(got'[s])
        BY <2>2, <2>4, <3>2 DEF Trusted
      <3>9. Trusted(s)'
        BY <2>1, <3>2, <3>4, <3>6, <3>7, <3>8 DEF Trusted, Accepts
      <3>10. QED BY <3>2, <3>9
    <2>5. QED BY <2>2, <2>3, <2>4
  <1>6. ASSUME FillFile(s) PROVE Goal
    <2>1. /\ Continues(s) /\ UNCHANGED role /\ Program[role[s]][pc[s]].op = "fill"
          /\ file[Name(s)] # NoFile
          /\ file' = IF file[Name(s)].by = s THEN [file EXCEPT ![Name(s)].whole = TRUE] ELSE file
      BY <1>2, <1>6 DEF FillFile, At
    <2>2. \/ role[s] = "generate" /\ pc[s] \in {7, 9, 11}
          \/ role[s] = "bundle" /\ pc[s] = 6 /\ Name(s) = "bundle"
      BY <1>1, <2>1, ProgramFills DEF Name
    <2>3. CASE role[s] = "generate"
      <3>1. pc[s] < ReadAt(role[s], "ca") BY <2>2, <2>3 DEF ReadAt
      <3>2. QED BY <2>1, <2>3, <3>1, EarlyStep
    <2>4. CASE role[s] = "bundle"
      <3>1. verdict'[s] = "ok"
        BY <1>1, <2>1, <2>2, <2>4 DEF Continues, Ends, LengthOf, CredInv, CredTypeOK
      <3>2. pc[s] > ReadAt(role[s], "key") /\ Accepts(got[s])
        BY <2>2, <2>4 DEF ReadAt, Trusted
      <3>3. OneGeneration /\ file["ca"].of = got[s]["cert"]
        BY <3>2, AcceptedIsOne
      <3>4. /\ file["bundle"] # NoFile /\ file["bundle"].by = s
            /\ file["bundle"].of = got[s]["cert"]
        BY <2>2, <2>4 DEF Trusted
      <3>5. "bundle" \in Names /\ "ca" \in Names /\ Readable("ca")
        BY <3>3 DEF Names, Credentials, OneGeneration
      <3>6. file'["bundle"].whole
        <4>1. file["bundle"] \in Files BY <3>4, <3>5 DEF CredInv, CredTypeOK
        <4>2. file'["bundle"] = [file["bundle"] EXCEPT !.whole = TRUE]
          BY <2>1, <2>2, <2>4, <3>4, <3>5 DEF CredInv, CredTypeOK
        <4>3. QED BY <4>1, <4>2 DEF Files
      <3>7. /\ file'["bundle"] # NoFile /\ file'["bundle"].by = s
            /\ file'["bundle"].of = got[s]["cert"]
        BY <1>3, <3>4, <3>5 DEF FilesStay
      <3>8. OneGeneration' /\ file'["ca"].of = got[s]["cert"]
        BY <1>3, <3>3, <3>5, GenerationStays
      <3>9. Vouched(s)'
        BY <3>6, <3>7, <3>8 DEF Vouched, Readable
      <3>10. QED BY <3>1, <3>9 DEF Running
    <2>5. QED BY <2>2, <2>3, <2>4
  <1>7. ASSUME ReadFile(s) PROVE Goal
    <2> DEFINE m == Name(s)
    <2>1. /\ UNCHANGED <<role, file, verdict>> /\ Program[role[s]][pc[s]].op = "read"
          /\ Readable(m)
          /\ got' = [got EXCEPT ![s][m] = file[m].of]
          /\ pc' = [pc EXCEPT ![s] = @ + 1]
      BY <1>2, <1>7 DEF ReadFile, At
    <2>2. m \in Credentials /\ pc[s] = ReadAt(role[s], m)
      BY <1>1, <2>1, ProgramReadsFiles, ProgramReadAt DEF Name
    <2>3. /\ pc'[s] = pc[s] + 1
          /\ got'[s][m] = file[m].of
          /\ \A n \in Credentials : n # m => got'[s][n] = got[s][n]
      BY <2>1, <2>2 DEF CredInv, CredTypeOK
    <2>4. \A n \in Credentials : pc'[s] > ReadAt(role[s], n) => n = m \/ pc[s] > ReadAt(role[s], n)
      BY <1>1, <2>2, <2>3 DEF ReadAt, Credentials
    <2>5. role[s] = "bundle" => pc'[s] <= 4
      BY <1>1, <2>2, <2>3 DEF ReadAt, Credentials
    <2>6. ASSUME NEW n \in Credentials, pc'[s] > ReadAt(role[s], n)
          PROVE  Readable(n)' /\ file'[n].of = got'[s][n]
      <3>1. CASE n = m
        BY <2>1, <2>3, <3>1 DEF Readable
      <3>2. CASE n # m
        <4>1. Readable(n) /\ file[n].of = got[s][n]
          BY <2>4, <2>6, <3>2 DEF Trusted
        <4>2. QED BY <2>1, <2>3, <3>2, <4>1 DEF Readable
      <3>3. QED BY <3>1, <3>2
    <2>7. pc'[s] \in Nat /\ role' = role
      BY <1>1, <2>1, <2>3
    <2>8. Trusted(s)'
      BY <2>5, <2>6, <2>7 DEF Trusted
    <2>9. QED BY <1>3, <2>1, <2>8
  <1>8. ASSUME Judge(s) PROVE Goal
    <2>1. /\ Continues(s) /\ UNCHANGED <<role, file>> /\ Program[role[s]][pc[s]].op = "judge"
          /\ Accepts(got[s])
      BY <1>2, <1>8 DEF Judge, At
    <2>2. pc[s] = IF role[s] = "generate" THEN 16 ELSE IF role[s] = "validate" THEN 5 ELSE 4
      BY <1>1, <2>1, ProgramJudges
    <2>3. pc[s] > ReadAt(role[s], "key")
      BY <1>1, <2>2 DEF ReadAt, Roles
    <2>4. CASE role[s] = "bundle"
      <3>1. pc'[s] = 5 /\ verdict'[s] = "none" /\ got' = got
        BY <1>1, <1>3, <2>1, <2>2, <2>4 DEF Continues, CredInv, CredTypeOK, LengthOf
      <3>2. \A n \in Credentials : pc[s] > ReadAt(role[s], n)
        BY <2>2, <2>4 DEF ReadAt, Credentials
      <3>3. \A n \in Credentials : Readable(n)' /\ file'[n].of = got'[s][n]
        BY <2>1, <3>1, <3>2 DEF Trusted, Readable
      <3>4. Trusted(s)'
        BY <2>1, <3>1, <3>3 DEF Trusted, Accepts
      <3>5. QED BY <3>1, <3>4
    <2>5. CASE role[s] # "bundle"
      <3>1. pc[s] = Len(Program[role[s]])
        BY <1>1, <2>2, <2>5 DEF LengthOf, Roles
      <3>2. verdict'[s] = "ok"
        BY <2>1, <3>1 DEF Continues, Ends, CredInv, CredTypeOK
      <3>3. OneGeneration
        BY <2>1, <2>3, AcceptedIsOne
      <3>4. Vouched(s)'
        BY <1>3, <2>1, <2>5, <3>3, GenerationStays DEF Vouched
      <3>5. QED BY <3>2, <3>4 DEF Running
    <2>6. QED BY <2>4, <2>5
  <1>9. QED BY <1>4, <1>5, <1>6, <1>7, <1>8 DEF ScriptStep, FileStep

\* What a step does to the scripts that it is not a step of.
LEMMA OthersStay ==
    ASSUME CredInv, NEW s \in Scripts, ScriptStep(s) \/ InputRefused(s) \/ KillScript(s)
    PROVE  /\ UNCHANGED role
           /\ undisturbed' \subseteq undisturbed
           /\ \A t \in Scripts : t # s => /\ pc'[t] = pc[t]
                                          /\ got'[t] = got[t]
                                          /\ verdict'[t] = verdict[t]
  <1>1. CASE ReadFile(s) BY <1>1 DEF ReadFile, Ends, CredInv, CredTypeOK
  <1>2. CASE \/ Check(s) \/ OpenFile(s) \/ FillFile(s) \/ StatFiles(s) \/ Judge(s)
              \/ MakeDir(s) \/ ChmodDir(s)
    <2>1. UNCHANGED role /\ (Continues(s) \/ Ends(s, "failed"))
      BY <1>2 DEF Check, OpenFile, FillFile, StatFiles, Judge, MakeDir, ChmodDir
    <2>2. QED BY <2>1 DEF Continues, Ends, CredInv, CredTypeOK
  <1>3. CASE InputRefused(s) \/ KillScript(s)
    BY <1>3 DEF InputRefused, KillScript, Ends, CredInv, CredTypeOK
  <1>4. QED BY <1>1, <1>2, <1>3 DEF ScriptStep, FileStep

\* Launching a script tells nothing about any other, and it has read nothing yet.
LEMMA LaunchTrusts ==
    ASSUME CredInv, TrustInv, VerdictSound, NEW s \in Scripts, NEW r \in Roles, Launch(s, r)
    PROVE  TrustInv' /\ VerdictSound'
  <1>1. /\ FilesStay
        /\ UNCHANGED <<got, verdict>>
        /\ undisturbed' = undisturbed \cup {s}
        /\ \A t \in Scripts : t # s => role'[t] = role[t] /\ pc'[t] = pc[t]
        /\ role[s] = "none" /\ role'[s] = r /\ pc'[s] = 1
    BY DEF Launch, FilesStay, CredInv, CredTypeOK
  <1>2. undisturbed' \subseteq Scripts BY <1>1 DEF CredInv, CredTypeOK
  <1>3. ASSUME NEW t \in undisturbed', t # s
        PROVE  /\ Running(t)' => Trusted(t)'
               /\ verdict'[t] = "ok" => Vouched(t)'
    <2>1. /\ Running(t) => Trusted(t)
          /\ verdict[t] = "ok" => Vouched(t)
      BY <1>1, <1>3 DEF TrustInv, VerdictSound, Vouched
    <2>2. Running(t)' <=> Running(t) BY <1>1, <1>2, <1>3 DEF Running
    <2>3. QED BY <1>1, <1>2, <1>3, <2>1, <2>2, BystanderKeeps
  <1>4. Trusted(s)'
    <2>1. \A n \in Credentials : ~(1 > ReadAt(r, n)) BY DEF ReadAt, Credentials
    <2>2. QED BY <1>1, <2>1 DEF Trusted
  <1>5. verdict'[s] # "ok"
    BY <1>1 DEF TrustInv
  <1>6. TrustInv'
    <2>1. \A t \in Scripts : role'[t] = "none" => verdict'[t] = "none"
      BY <1>1 DEF TrustInv
    <2>2. QED BY <1>3, <1>4, <2>1 DEF TrustInv
  <1>7. VerdictSound' BY <1>3, <1>5 DEF VerdictSound, Vouched
  <1>8. QED BY <1>6, <1>7

\* Every step keeps it.
LEMMA TrustStep ==
    ASSUME InstallInv, TrustInv, VerdictSound, [InstallNext]_installVars
    PROVE  TrustInv' /\ VerdictSound'
  <1>0. CredInv /\ undisturbed \subseteq Scripts BY DEF InstallInv, CredInv, CredTypeOK
  <1>1. ASSUME UNCHANGED credVars PROVE TrustInv' /\ VerdictSound'
    BY <1>1 DEF credVars, TrustInv, Trusted, Running, Readable, VerdictSound, OneGeneration
  <1>2. ASSUME NEW s \in Scripts, ScriptStep(s) \/ InputRefused(s) \/ KillScript(s)
        PROVE  TrustInv' /\ VerdictSound'
    <2>1. /\ UNCHANGED role
          /\ undisturbed' \subseteq undisturbed
          /\ \A t \in Scripts : t # s => /\ pc'[t] = pc[t]
                                         /\ got'[t] = got[t]
                                         /\ verdict'[t] = verdict[t]
      BY <1>0, <1>2, OthersStay
    <2>2. FilesStay
      <3>1. CASE ScriptStep(s) BY <1>0, <3>1, ScriptsAdd
      <3>2. CASE InputRefused(s) \/ KillScript(s)
        BY <3>2 DEF InputRefused, KillScript, FilesStay
      <3>3. QED BY <1>2, <3>1, <3>2
    <2>3. ASSUME NEW t \in undisturbed'
          PROVE  /\ Running(t)' => Trusted(t)'
                 /\ verdict'[t] = "ok" => Vouched(t)'
      <3>1. /\ t \in Scripts
            /\ Running(t) => Trusted(t)
            /\ verdict[t] = "ok" => Vouched(t)
        BY <1>0, <2>1, <2>3 DEF TrustInv, VerdictSound, Vouched
      <3>2. CASE t # s
        <4>1. Running(t)' <=> Running(t) BY <2>1, <3>1, <3>2 DEF Running
        <4>2. QED BY <1>0, <2>1, <2>2, <3>1, <3>2, <4>1, BystanderKeeps
      <3>3. CASE t = s
        <4>1. Running(s)
          BY <1>2 DEF ScriptStep, FileStep, Check, OpenFile, FillFile, StatFiles, ReadFile,
                      Judge, MakeDir, ChmodDir, At, InputRefused, KillScript
        <4>2. ScriptStep(s)
          BY <1>2, <2>3, <3>3 DEF InputRefused, KillScript, Ends
        <4>3. QED BY <1>0, <2>3, <3>1, <3>3, <4>1, <4>2, ActorKeeps
      <3>4. QED BY <3>2, <3>3
    <2>4. ASSUME NEW t \in Scripts, role'[t] = "none" PROVE verdict'[t] = "none"
      <3>1. t # s
        BY <1>2, <2>1, <2>4 DEF ScriptStep, FileStep, Check, OpenFile, FillFile, StatFiles,
              ReadFile, Judge, MakeDir, ChmodDir, At, InputRefused, KillScript, Running
      <3>2. QED BY <2>1, <2>4, <3>1 DEF TrustInv
    <2>5. QED BY <2>3, <2>4 DEF TrustInv, VerdictSound, Vouched
  <1>3. ASSUME NEW names \in SUBSET Names, Delete(names) PROVE TrustInv' /\ VerdictSound'
    BY <1>3 DEF Delete, TrustInv, VerdictSound
  <1>4. CASE CredentialsChange
    BY <1>0, <1>2, <1>3, <1>4, InstallationConstants, LaunchTrusts DEF CredentialsChange
  <1>5. CASE ScriptFails
    BY <1>2, <1>5 DEF ScriptFails
  <1>6. CASE EnsureCredentials
    BY <1>0, <1>1, <1>6, LaunchTrusts DEF EnsureCredentials, InstallInv, Roles
  <1>7. CASE ~CredentialsChange /\ ~ScriptFails /\ ~EnsureCredentials
    <2>1. UNCHANGED credVars
      BY <1>7 DEF InstallNext, Setup, StopProxy, StopServer, StopEngine, UnlinkPath,
         EnsurePrivateDir, ScriptReturns, Purge, StartServer, ServerAnswers, Verify,
         SetupStarts, SetupFails, TeardownStarts, ServerActs, ProxyMakesKey, ProxyStarts,
         ProxyReloads, KillProxy, installVars
    <2>2. QED BY <1>1, <2>1
  <1>8. QED BY <1>4, <1>5, <1>6, <1>7

\* The exit status 0 of a credential script can be relied on until a file is removed, for
\* any number of scripts that run at once and are killed anywhere.
THEOREM VerdictsAreSound == InstallSpec => []VerdictSound
  <1>1. InstallInit => TrustInv /\ VerdictSound
    BY DEF InstallInit, CredInit, TrustInv, VerdictSound
  <1>2. InstallInv /\ TrustInv /\ VerdictSound /\ [InstallNext]_installVars
            => TrustInv' /\ VerdictSound'
    BY TrustStep
  <1>3. QED BY <1>1, <1>2, InstallInitial, InstallStep, PTL DEF InstallSpec
=============================================================================
