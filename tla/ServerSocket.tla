---------------------------- MODULE ServerSocket ----------------------------
(***************************************************************************)
(* The server process as its supervisor sees it (server/__main__.py): how  *)
(* it takes over the path of its Unix socket, what it leaves there and in  *)
(* the upload directory when it ends, and its health route.  systemd or    *)
(* docker keeps one instance running while the service is wanted.          *)
(***************************************************************************)
EXTENDS Naturals

CONSTANT MaxMishaps     \* bound of the model: kills, failures and give-ups

ASSUME MishapsAssumption == MaxMishaps \in Nat

VARIABLES
    srv,        \* "down", then the steps of _bind_private_uds, then "serving"
    path,       \* the socket's path: "none", bound with a "loose" mode, "private"
    engine,     \* the ASR backend answers its health check
    epoch,      \* servers that have come up so far
    spool,      \* epochs of the servers whose uploads are on disk
    wanted,     \* services that the supervisor keeps running
    mishaps

serverVars == <<srv, path, engine, epoch, spool, wanted, mishaps>>

SocketTypeOK ==
    /\ srv \in {"down", "clearing", "binding", "bound", "listening", "serving"}
    /\ path \in {"none", "loose", "private"}
    /\ engine \in BOOLEAN
    /\ epoch \in Nat
    /\ spool \subseteq 1..epoch
    /\ wanted \subseteq {"server", "proxy"}
    /\ mishaps \in 0..MaxMishaps

SocketInit ==
    /\ srv = "down"
    /\ path = "none"
    /\ engine = FALSE
    /\ epoch = 0
    /\ spool = {}
    /\ wanted = {}
    /\ mishaps = 0

Mishap == mishaps < MaxMishaps /\ mishaps' = mishaps + 1

\* Definitions named Bug... are faulty variants of the one that follows them.

\* main: the arguments and Settings are valid.
Boot ==
    /\ "server" \in wanted
    /\ srv = "down"
    /\ srv' = "clearing"
    /\ UNCHANGED <<path, engine, epoch, spool, wanted, mishaps>>

BugUnlinkMustFind ==
    /\ srv = "clearing"
    /\ srv' = IF path = "none" THEN "down" ELSE "binding"
    /\ path' = "none"
    /\ UNCHANGED <<engine, epoch, spool, wanted, mishaps>>

\* The directory is private; a path left behind is removed, if there is one.
ClearPath ==
    /\ srv = "clearing"
    /\ srv' = "binding"
    /\ path' = "none"
    /\ UNCHANGED <<engine, epoch, spool, wanted, mishaps>>

Bind ==
    /\ srv = "binding"
    /\ path = "none"
    /\ srv' = "bound"
    /\ path' = "loose"
    /\ UNCHANGED <<engine, epoch, spool, wanted, mishaps>>

Chmod ==
    /\ srv = "bound"
    /\ srv' = "listening"
    /\ path' = "private"
    /\ UNCHANGED <<engine, epoch, spool, wanted, mishaps>>

\* listen; uvicorn takes over the descriptor and runs the application's startup.
Serve ==
    /\ srv = "listening"
    /\ srv' = "serving"
    /\ epoch' = epoch + 1
    /\ UNCHANGED <<path, engine, spool, wanted, mishaps>>

\* bind, chmod or listen raises, uvicorn.run returns, or SIGTERM: the socket is closed
\* and its path removed.  Uploads in progress may stay (see TranscribeServer).
ServerExits ==
    /\ srv \in {"binding", "bound", "listening", "serving"}
    /\ Mishap
    /\ srv' = "down"
    /\ path' = "none"
    /\ spool' \in {spool, spool \ {epoch}}
    /\ UNCHANGED <<engine, epoch, wanted>>

KillServer ==
    /\ srv # "down"
    /\ Mishap
    /\ srv' = "down"
    /\ UNCHANGED <<path, engine, epoch, spool, wanted>>

\* An upload is spooled, and removed when its job is over.
Upload ==
    /\ srv = "serving"
    /\ spool' \in {spool \cup {epoch}, spool \ {epoch}}
    /\ spool' # spool
    /\ UNCHANGED <<srv, path, engine, epoch, wanted, mishaps>>

\* vLLM has loaded its model; it is gone again after a crash.
EngineReady ==
    /\ "server" \in wanted
    /\ ~engine
    /\ engine' = TRUE
    /\ UNCHANGED <<srv, path, epoch, spool, wanted, mishaps>>

EngineFails ==
    /\ engine
    /\ Mishap
    /\ engine' = FALSE
    /\ UNCHANGED <<srv, path, epoch, spool, wanted>>

\* GET /health over the socket; without an engine the answer is 503.
Healthy == path = "private" /\ srv = "serving" /\ engine

ServerStep == Boot \/ ClearPath \/ Bind \/ Chmod \/ Serve
=============================================================================
