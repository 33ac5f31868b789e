---------------------------- MODULE Installation ----------------------------
(***************************************************************************)
(* setup.sh and teardown.sh: they stop and start the services, have the    *)
(* client's credentials made or judged, empty the upload directory, and    *)
(* end a setup with a request through the whole stack.  One of them runs   *)
(* at a time; it may be killed at any point and run again, while operators *)
(* start the credential scripts by hand, services crash and are restarted, *)
(* and credentials are removed.                                            *)
(***************************************************************************)
EXTENDS ClientCredentials, ServerSocket

CONSTANTS
    SetupScripts,   \* the scripts that setup.sh starts, one for each run of it
    HandRoles,      \* the roles in which operators start the others
    NoCA            \* the proxy has loaded no client CA

ASSUME InstallationConstants ==
    /\ SetupScripts \subseteq Scripts /\ SetupScripts # {}
    /\ HandRoles \subseteq Roles
    /\ NoCA \notin Scripts

VARIABLES
    at,             \* where setup.sh or teardown.sh is
    child,          \* the script that this run of setup.sh started
    proxy,          \* client CA of the running proxy, NoCA while it is down
    server_key,     \* the proxy's private key: "none", "opened" by a proxy that is about
                    \* to write it, left "empty" by one that did not get to, "whole"
    purged          \* history: the epoch when the upload directory was emptied

setupVars == <<at, child, purged>>
proxyVars == <<proxy, server_key>>
installVars == <<credVars, dir, serverVars, setupVars, proxyVars>>

\* What comes after each place of setup.sh and of teardown.sh, if nothing goes wrong.
Then == [stop |-> "stopserver", stopserver |-> "stopengine", stopengine |-> "unlink",
         unlink |-> "certdir", certdir |-> "certchmod", certchmod |-> "credentials",
         credentials |-> "script", script |-> "rundir", rundir |-> "runchmod",
         runchmod |-> "purge", purge |-> "start", start |-> "wait", wait |-> "verify",
         verify |-> "complete",
         tear |-> "tearserver", tearserver |-> "tearengine", tearengine |-> "remove",
         remove |-> "idle"]

Places == DOMAIN Then

InstallTypeOK ==
    /\ CredTypeOK
    /\ SocketTypeOK
    /\ dir \in [Dirs -> Modes]
    /\ at \in Places \cup {"idle", "complete", "failed"}
    /\ child \in Scripts
    /\ proxy \in Scripts \cup {NoCA}
    /\ server_key \in {"none", "opened", "empty", "whole"}
    /\ purged \in 0..epoch

InstallInit ==
    /\ CredInit
    /\ SocketInit
    /\ at = "idle"
    /\ child = CHOOSE s \in SetupScripts : TRUE
    /\ proxy = NoCA
    /\ server_key = "none"
    /\ purged = 0

\* Definitions named Bug... are faulty variants of the one that follows them.

Goto(place) == at' = place /\ UNCHANGED <<child, purged>>
Proceed == Goto(Then[at])

-----------------------------------------------------------------------------
(* The proxy, as far as it depends on its own key and on the client's CA:  *)
(* ServerIdentity has the rest of its start.                               *)

\* Its very first start makes the key, in two steps.
ProxyMakesKey ==
    /\ "proxy" \in wanted
    /\ server_key' = CASE server_key = "none" -> "opened"
                       [] server_key = "opened" -> "whole"
                       [] OTHER -> server_key
    /\ server_key' # server_key
    /\ UNCHANGED <<credVars, dir, serverVars, setupVars, proxy>>

\* Without its key or without a readable CA the proxy exits and is started again.
ProxyStarts ==
    /\ "proxy" \in wanted
    /\ proxy = NoCA
    /\ server_key = "whole"
    /\ Readable("ca")
    /\ proxy' = file["ca"].of
    /\ UNCHANGED <<credVars, dir, serverVars, setupVars, server_key>>

\* A reload of the server certificate reads the CA again; the old configuration stays
\* when that fails.
ProxyReloads ==
    /\ proxy # NoCA
    /\ Readable("ca")
    /\ proxy' = file["ca"].of
    /\ UNCHANGED <<credVars, dir, serverVars, setupVars, server_key>>

\* A key that was opened and not written stays empty.
ProxyEnds ==
    /\ proxy' = NoCA
    /\ server_key' = IF server_key = "opened" THEN "empty" ELSE server_key

KillProxy ==
    /\ proxy # NoCA \/ server_key = "opened"
    /\ Mishap
    /\ ProxyEnds
    /\ UNCHANGED <<credVars, dir, srv, path, engine, epoch, spool, wanted, setupVars>>

-----------------------------------------------------------------------------
(* setup.sh                                                                *)

Unused == {s \in SetupScripts : role[s] = "none"}

SetupStarts ==
    /\ at \in {"idle", "complete", "failed"}
    /\ at' = "stop"
    /\ Unused # {}
    /\ child' = CHOOSE s \in Unused : TRUE
    /\ UNCHANGED <<credVars, dir, serverVars, proxyVars, purged>>

BugProxyLeftRunning ==
    /\ at \in {"stop", "tear"}
    /\ Proceed
    /\ UNCHANGED <<credVars, dir, serverVars, proxyVars>>

\* stop_existing_services and the first half of teardown.sh: the proxy's unit,
StopProxy ==
    /\ at \in {"stop", "tear"}
    /\ wanted' = wanted \ {"proxy"}
    /\ ProxyEnds
    /\ Proceed
    /\ UNCHANGED <<credVars, dir, srv, path, engine, epoch, spool, mishaps>>

BugServerLeftRunning ==
    /\ at \in {"stopserver", "tearserver"}
    /\ Proceed
    /\ UNCHANGED <<credVars, dir, serverVars, proxyVars>>

\* the server's unit or container, which is killed when it does not end in time,
StopServer ==
    /\ at \in {"stopserver", "tearserver"}
    /\ wanted' = wanted \ {"server"}
    /\ srv' = "down"
    /\ \/ srv # "down" /\ path' = "none" /\ spool' \in {spool, spool \ {epoch}}
       \/ UNCHANGED <<path, spool>>
    /\ Proceed
    /\ UNCHANGED <<credVars, dir, engine, epoch, mishaps, proxyVars>>

\* the container of the engine,
StopEngine ==
    /\ at \in {"stopengine", "tearengine"}
    /\ engine' = FALSE
    /\ Proceed
    /\ UNCHANGED <<credVars, dir, srv, path, epoch, spool, wanted, mishaps, proxyVars>>

\* and, in setup.sh, the path that the server may have left.
UnlinkPath ==
    /\ at = "unlink"
    /\ path' = "none"
    /\ Proceed
    /\ UNCHANGED <<credVars, dir, srv, engine, epoch, spool, wanted, mishaps, proxyVars>>

\* ensure_private_dir, called by prepare_cert_dir and prepare_backend_socket_dir.
EnsurePrivateDir ==
    LET d == IF at \in {"certdir", "certchmod"} THEN "certs" ELSE "run" IN
    /\ \/ at \in {"certdir", "rundir"} /\ Made(d)
       \/ at \in {"certchmod", "runchmod"} /\ Restricted(d)
    /\ Goto(IF at \in {"certchmod", "runchmod"} \/ Acceptable(d) THEN Then[at] ELSE "failed")
    /\ UNCHANGED <<credVars, serverVars, proxyVars>>

\* ensure_client_auth_artifacts: all, none, or a refused partial state.
EnsureCredentials ==
    LET existing == {n \in Credentials : file[n] # NoFile} IN
    /\ at = "credentials"
    /\ \/ /\ existing = {}
          /\ Launch(child, "generate")
          /\ Proceed
       \/ /\ existing = Credentials
          /\ Launch(child, "validate")
          /\ Proceed
       \/ /\ existing \notin {{}, Credentials}
          /\ Goto("failed")
          /\ UNCHANGED credVars
    /\ UNCHANGED <<dir, serverVars, proxyVars>>

ScriptReturns ==
    /\ at = "script"
    /\ verdict[child] # "none"
    /\ Goto(IF verdict[child] = "ok" THEN Then[at] ELSE "failed")
    /\ UNCHANGED <<credVars, dir, serverVars, proxyVars>>

\* The rest of prepare_backend_socket_dir, and the removals of teardown.sh, which also
\* removes the directories, whatever their mode.
Purge ==
    /\ at \in {"purge", "remove"}
    /\ spool' = {}
    /\ path' = "none"
    /\ dir' = IF at = "remove" THEN [dir EXCEPT !["run"] = "none"] ELSE dir
    /\ purged' = epoch
    /\ at' = Then[at]
    /\ UNCHANGED <<credVars, srv, engine, epoch, wanted, mishaps, proxyVars, child>>

\* docker run, or enable --now.
StartServer ==
    /\ at = "start"
    /\ wanted' = wanted \cup {"server"}
    /\ Proceed
    /\ UNCHANGED <<credVars, dir, srv, path, engine, epoch, spool, mishaps, proxyVars>>

\* wait_for_backend_socket, then the proxy is enabled.
ServerAnswers ==
    /\ at = "wait"
    /\ Healthy
    /\ wanted' = wanted \cup {"proxy"}
    /\ Proceed
    /\ UNCHANGED <<credVars, dir, srv, path, engine, epoch, spool, mishaps, proxyVars>>

\* curl presents the certificate and the key on disk to the proxy.
Admitted == /\ proxy # NoCA
            /\ \A n \in {"cert", "key"} :
                Readable(n) /\ file[n].of = proxy

\* Two seconds after it was enabled the proxy has to be active, and verify_full_stack
\* asks once.  That a proxy which is able to start has not done so by then is a mishap.
Verify ==
    /\ at = "verify"
    /\ IF proxy = NoCA /\ server_key # "empty" /\ Readable("ca")
       THEN Mishap ELSE UNCHANGED mishaps
    /\ Goto(IF Admitted /\ Healthy THEN "complete" ELSE "failed")
    /\ UNCHANGED <<credVars, dir, srv, path, engine, epoch, spool, wanted, proxyVars>>

\* A build, a check or a wait fails, or the script is killed; a child goes on.
SetupFails ==
    /\ at \in Places
    /\ Mishap
    /\ Goto("failed")
    /\ UNCHANGED <<credVars, dir, srv, path, engine, epoch, spool, wanted, proxyVars>>

TeardownStarts ==
    /\ at \in {"complete", "failed"}
    /\ Goto("tear")
    /\ UNCHANGED <<credVars, dir, serverVars, proxyVars>>

-----------------------------------------------------------------------------
Setup == \/ StopProxy \/ StopServer \/ StopEngine \/ UnlinkPath
         \/ EnsurePrivateDir \/ EnsureCredentials \/ ScriptReturns \/ Purge
         \/ StartServer \/ ServerAnswers \/ Verify

\* A service or a script by itself; nothing is uploaded without the proxy.
ServerActs ==
    /\ \/ ServerStep \/ ServerExits \/ KillServer \/ EngineReady \/ EngineFails
       \/ Upload /\ (proxy # NoCA \/ spool' \subseteq spool)
    /\ UNCHANGED <<credVars, dir, setupVars, proxyVars>>

CredentialsChange ==
    /\ \/ \E s \in Scripts : ScriptStep(s)
       \/ \E s \in Scripts \ SetupScripts, r \in HandRoles : Launch(s, r) /\ UNCHANGED dir
       \/ \E names \in SUBSET Names : Delete(names) /\ UNCHANGED dir
    /\ UNCHANGED <<serverVars, setupVars, proxyVars>>

ScriptFails ==
    /\ \E s \in Scripts : InputRefused(s) \/ KillScript(s)
    /\ Mishap
    /\ UNCHANGED <<dir, srv, path, engine, epoch, spool, wanted, setupVars, proxyVars>>

InstallNext == \/ Setup \/ SetupStarts \/ SetupFails \/ TeardownStarts
               \/ ServerActs \/ CredentialsChange \/ ScriptFails
               \/ ProxyMakesKey \/ ProxyStarts \/ ProxyReloads \/ KillProxy

InstallSpec == InstallInit /\ [][InstallNext]_installVars

\* Started scripts run on, systemd and docker restart what is wanted, and the engine
\* loads its model.
InstallFairness ==
    /\ WF_installVars(Setup)
    /\ \A s \in Scripts : WF_credVars(ScriptStep(s))
    /\ WF_serverVars(ServerStep)
    /\ WF_serverVars(EngineReady)
    /\ WF_installVars(ProxyMakesKey \/ ProxyStarts)

FairInstallSpec == InstallSpec /\ InstallFairness
-----------------------------------------------------------------------------
(* Safety.                                                                 *)

\* After setup.sh or teardown.sh has emptied the upload directory, every upload in it
\* belongs to a server started later: nothing of an earlier one, killed or stopped in
\* the middle of a job, stays, and no running server's upload is swept away.
UploadsAccounted ==
    /\ [](\A e \in spool : e > purged)
    /\ [][Purge => srv = "down" \/ epoch \notin spool]_installVars

(* Liveness.                                                               *)

Calm == mishaps = MaxMishaps /\ deletions = MaxDeletions
        /\ \A s \in Scripts : ~Running(s) /\ (s \notin SetupScripts => role[s] # "none")

\* Two kinds of leftover spoil every later setup, which then asks for the operator: a
\* directory that was created and not restricted, and a server key that was opened and
\* not written.
Spoiled == server_key = "empty" \/ \E d \in Dirs : dir[d] = "loose"

\* A setup succeeds, whatever kills, crashes, removals and rival scripts came before it,
\* when it is left alone, finds no credentials or ones that belong together and neither
\* of those leftovers once it has stopped the proxy (which may have been writing its key
\* just then), and when the proxy starts within its two seconds: no earlier run of
\* setup.sh leaves a service, a path, a directory or a CA in memory that spoils it.
SetupSucceeds ==
    /\ Calm
    /\ at = "stopserver"
    /\ OneGeneration \/ \A n \in Credentials : file[n] = NoFile
    /\ ~Spoiled
    ~> at = "complete"

\* The supervisor brings a killed server back, whatever it has left at its path, unless
\* setup.sh or teardown.sh stops the service.
ServerComesBack == "server" \in wanted /\ mishaps = MaxMishaps
                       ~> srv = "serving" \/ "server" \notin wanted
=============================================================================
