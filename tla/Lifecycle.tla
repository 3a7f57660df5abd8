---------------------------- MODULE Lifecycle ----------------------------
(* The life of the process: main.run (cmd/secure-mcp-gateway/main.go) from *)
(* loading the configuration to closing the audit log, with the goroutines *)
(* of the two servers, the handlers and RPCs they run, and the signal that *)
(* ends it all.  The handlers are those of Gateway, seen from outside: one *)
(* runs until it logs its entry, for ever if its client does not read, or  *)
(* until the process ends.                                                 *)
EXTENDS Naturals

CONSTANTS Requests,  \* HTTP requests that reach the audit middleware
          Calls      \* RPCs of the management API

Servers == {"http", "grpc"}

VARIABLES config,  \* the environment: the three URLs it has to give, and where
                   \* AUDIT_LOG_PATH points
          pc,      \* where run stands; "gone" once the process has ended
          file,    \* the audit log: "none", "stdout", or a file "open" or "closed"
          server,  \* each server's goroutine
          errCh,   \* the servers whose error lies in errCh
          signal,  \* "none", "pending" in quit, or "taken"
          expired, \* the 30 seconds of the shutdown context are over
          handler, \* each HTTP request
          rpc,     \* each RPC
          exit     \* how the process ended

vars == <<config, pc, file, server, errCh, signal, expired, handler, rpc, exit>>

URLs == {"UPSTREAM_MCP_URL", "HYDRA_ADMIN_URL", "OPA_URL"}
Configs == [url : [URLs -> {"missing", "malformed", "valid"}], log : {"stdout", "path"}]

\* config.validate, and what the constructors check of the same URLs again.
Valid(c) == \A u \in URLs : c.url[u] = "valid"

TypeOK == /\ config \in Configs
          /\ pc \in {"config", "logger", "build", "listen", "notify", "select", "stop", "rpcs",
                     "shutdown", "drain", "close", "return", "gone"}
          /\ file \in {"none", "stdout", "open", "closed"}
          /\ server \in [Servers -> {"none", "starting", "serving", "failed", "stopped"}]
          /\ errCh \subseteq Servers
          /\ signal \in {"none", "pending", "taken"}
          /\ expired \in BOOLEAN
          /\ handler \in [Requests -> {"none", "running", "recorded", "lost"}]
          /\ rpc \in [Calls -> {"none", "held", "running", "done"}]
          /\ exit \in {"none", "ok", "error", "killed"}

Init == /\ config \in Configs
        /\ pc = "config"
        /\ file = "none"
        /\ server = [s \in Servers |-> "none"]
        /\ errCh = {}
        /\ signal = "none"
        /\ expired = FALSE
        /\ handler = [r \in Requests |-> "none"]
        /\ rpc = [c \in Calls |-> "none"]
        /\ exit = "none"

Active == {r \in Requests : handler[r] = "running"}

\* The process ends, and what still runs in it is cut off.
End(how) == /\ pc' = "gone"
            /\ exit' = how
            /\ handler' = [r \in Requests |-> IF r \in Active THEN "lost" ELSE handler[r]]

(* Startup. *)

LoadConfig == /\ pc = "config"
              /\ IF Valid(config) THEN pc' = "logger" /\ UNCHANGED <<handler, exit>>
                                  ELSE End("error")
              /\ UNCHANGED <<config, file, server, errCh, signal, expired, rpc>>

\* Mutant of OpenLog: the error of OpenFile is not looked at.
OpenLogUnchecked ==
    /\ pc = "logger"
    /\ pc' = "build"
    /\ file' \in (IF config.log = "stdout" THEN {"stdout"} ELSE {"open", "unopened"})
    /\ UNCHANGED <<config, server, errCh, signal, expired, handler, rpc, exit>>

\* NewLogger, which may fail to open a file.
OpenLog == /\ pc = "logger"
           /\ \/ /\ pc' = "build"
                 /\ file' = IF config.log = "stdout" THEN "stdout" ELSE "open"
                 /\ UNCHANGED <<handler, exit>>
              \/ config.log = "path" /\ End("error") /\ UNCHANGED file
           /\ UNCHANGED <<config, server, errCh, signal, expired, rpc>>

\* The middlewares, their clients and the proxy are put together; the file is
\* left open if that fails.
Build == /\ pc = "build"
         /\ IF Valid(config) THEN pc' = "listen" /\ UNCHANGED <<handler, exit>>
                             ELSE End("error")
         /\ UNCHANGED <<config, file, server, errCh, signal, expired, rpc>>

\* The gRPC listener, then both goroutines.
Listen == /\ pc = "listen"
          /\ \/ /\ pc' = "notify"
                /\ server' = [s \in Servers |-> "starting"]
                /\ UNCHANGED <<handler, exit>>
             \/ End("error") /\ UNCHANGED server
          /\ UNCHANGED <<config, file, errCh, signal, expired, rpc>>

Notify == /\ pc = "notify"
          /\ pc' = "select"
          /\ UNCHANGED <<config, file, server, errCh, signal, expired, handler, rpc, exit>>

(* The servers' goroutines. *)

Serve(s) == /\ pc # "gone"
            /\ server[s] = "starting"
            /\ server' = [server EXCEPT ![s] = "serving"]
            /\ UNCHANGED <<config, pc, file, errCh, signal, expired, handler, rpc, exit>>

\* The port is taken, or Accept fails for good.  The error never blocks: errCh
\* has room for one of each.
Fail(s) == /\ pc # "gone"
           /\ server[s] \in {"starting", "serving"}
           /\ server' = [server EXCEPT ![s] = "failed"]
           /\ errCh' = errCh \cup {s}
           /\ UNCHANGED <<config, pc, file, signal, expired, handler, rpc, exit>>

(* Requests and RPCs. *)

Accept(r) == /\ pc # "gone"
             /\ server["http"] = "serving"
             /\ handler[r] = "none"
             /\ handler' = [handler EXCEPT ![r] = "running"]
             /\ UNCHANGED <<config, pc, file, server, errCh, signal, expired, rpc, exit>>

\* The audit middleware logs when the handler under it has returned; a line
\* for a closed file is lost without notice.
Record(r) == /\ pc # "gone"
             /\ handler[r] = "running"
             /\ handler' = [handler EXCEPT ![r] = IF file = "closed" THEN "lost" ELSE "recorded"]
             /\ UNCHANGED <<config, pc, file, server, errCh, signal, expired, rpc, exit>>

\* A client opens an RPC: it is there, and waits for the client's message.
Call(c) == /\ pc # "gone"
           /\ server["grpc"] = "serving"
           /\ rpc[c] = "none"
           /\ rpc' = [rpc EXCEPT ![c] = "held"]
           /\ UNCHANGED <<config, pc, file, server, errCh, signal, expired, handler, exit>>

\* The client sends its message or leaves.
Send(c) == /\ pc # "gone"
           /\ rpc[c] = "held"
           /\ \E s \in {"running", "done"} : rpc' = [rpc EXCEPT ![c] = s]
           /\ UNCHANGED <<config, pc, file, server, errCh, signal, expired, handler, exit>>

Reply(c) == /\ pc # "gone"
            /\ rpc[c] = "running"
            /\ rpc' = [rpc EXCEPT ![c] = "done"]
            /\ UNCHANGED <<config, pc, file, server, errCh, signal, expired, handler, exit>>

(* Shutdown. *)

\* SIGTERM or SIGINT.  Until signal.Notify it has its default effect; any
\* signal after the first finds quit full, or nobody who reads it.
Signal == /\ signal = "none"
          /\ pc # "gone"
          /\ IF pc \in {"config", "logger", "build", "listen", "notify"}
             THEN End("killed") /\ signal' = "taken"
             ELSE signal' = "pending" /\ UNCHANGED <<pc, handler, exit>>
          /\ UNCHANGED <<config, file, server, errCh, expired, rpc>>

\* Mutant of Select: nobody reads errCh.
SelectSignal == /\ pc = "select"
                /\ signal = "pending" /\ signal' = "taken" /\ UNCHANGED errCh
                /\ pc' = "stop"
                /\ UNCHANGED <<config, file, server, expired, handler, rpc, exit>>

\* Either channel of the select; the 30 seconds run from here on.
Select == /\ pc = "select"
          /\ \/ signal = "pending" /\ signal' = "taken" /\ UNCHANGED errCh
             \/ \E s \in errCh : errCh' = errCh \ {s} /\ UNCHANGED signal
          /\ pc' = "stop"
          /\ UNCHANGED <<config, file, server, expired, handler, rpc, exit>>

Expire == /\ pc \in {"stop", "rpcs", "shutdown", "drain"}
          /\ ~ expired
          /\ expired' = TRUE
          /\ UNCHANGED <<config, pc, file, server, errCh, signal, handler, rpc, exit>>

Stopped(s) == [server EXCEPT ![s] = IF @ = "failed" THEN @ ELSE "stopped"]

\* GracefulStop takes no new RPC and waits for those that run, without a limit.
\* The proxy goes on accepting requests.
StopGRPC == /\ pc = "stop"
            /\ server' = Stopped("grpc")
            /\ pc' = "rpcs"
            /\ UNCHANGED <<config, file, errCh, signal, expired, handler, rpc, exit>>

RPCsDone == /\ pc = "rpcs"
            /\ \A c \in Calls : rpc[c] \in {"none", "done"}
            /\ pc' = "shutdown"
            /\ UNCHANGED <<config, file, server, errCh, signal, expired, handler, rpc, exit>>

\* Mutant of Shutdown: the server is closed without waiting for its handlers.
ShutdownAtOnce == /\ pc = "shutdown"
                  /\ server' = Stopped("http")
                  /\ pc' = "close"
                  /\ UNCHANGED <<config, file, errCh, signal, expired, handler, rpc, exit>>

\* http.Server.Shutdown accepts no more and looks for active connections before
\* it looks at its context.
Shutdown == /\ pc = "shutdown"
            /\ server' = Stopped("http")
            /\ pc' = IF Active = {} THEN "close" ELSE "drain"
            /\ UNCHANGED <<config, file, errCh, signal, expired, handler, rpc, exit>>

Drained == /\ pc = "drain"
           /\ Active = {}
           /\ pc' = "close"
           /\ UNCHANGED <<config, file, server, errCh, signal, expired, handler, rpc, exit>>

\* Mutant of GiveUp: the error of Shutdown is logged, and run goes on.
GiveUpQuietly == /\ pc = "drain"
                 /\ expired
                 /\ pc' = "close"
                 /\ UNCHANGED <<config, file, server, errCh, signal, expired, handler, rpc, exit>>

\* Shutdown gives up with an error, and run returns it without closing the log.
GiveUp == /\ pc = "drain"
          /\ expired
          /\ End("error")
          /\ UNCHANGED <<config, file, server, errCh, signal, expired, rpc>>

\* Close does nothing to stdout.
CloseLog == /\ pc = "close"
            /\ file' = IF file = "open" THEN "closed" ELSE file
            /\ pc' = "return"
            /\ UNCHANGED <<config, server, errCh, signal, expired, handler, rpc, exit>>

\* startupErr is nil exactly when the signal was what ended the select.
Return == /\ pc = "return"
          /\ End(IF signal = "taken" THEN "ok" ELSE "error")
          /\ UNCHANGED <<config, file, server, errCh, signal, expired, rpc>>

Main == \/ LoadConfig \/ OpenLog \/ Build \/ Listen \/ Notify \/ Select \/ StopGRPC \/ RPCsDone
        \/ Shutdown \/ Drained \/ GiveUp \/ CloseLog \/ Return

Gone == pc = "gone" /\ UNCHANGED vars

Next == \/ Main \/ Signal \/ Expire
        \/ \E s \in Servers : Serve(s) \/ Fail(s)
        \/ \E r \in Requests : Accept(r) \/ Record(r)
        \/ \E c \in Calls : Call(c) \/ Send(c) \/ Reply(c)
        \/ Gone

SafeSpec == Init /\ [][Next]_vars

\* The goroutines run, the timer fires, and an RPC whose message has come, which
\* only reads memory, is answered.  No request is taken to end, no client of an
\* RPC to send its message, and no signal to come.
Spec == /\ SafeSpec
        /\ WF_vars(Main) /\ WF_vars(Expire)
        /\ \A s \in Servers : WF_vars(Serve(s))
        /\ \A c \in Calls : WF_vars(Reply(c))

--------------------------------------------------------------------------
(* What makes it correct. *)

\* A shutdown that goes through loses no entry: once run has closed the log,
\* every request the proxy ever accepted has its line in it, also one accepted
\* while GracefulStop was waiting.
ShutdownLosesNothing ==
    pc = "return" => \A r \in Requests : handler[r] \in {"none", "recorded"}

Stopping == signal = "pending" \/ errCh # {}

\* A signal, or the failure of a server, ends the process, though requests may
\* go on for ever and the other server may fail meanwhile.  The one thing that
\* keeps it for ever is an RPC whose client neither sends its message nor leaves,
\* for GracefulStop has no limit: without that condition the property fails.
ProcessEnds == (\A c \in Calls : []<>(rpc[c] # "held")) => (Stopping ~> pc = "gone")

\* Seen from outside, as a door, requests and an exit code, the process does what
\* Service promises: requests are cut off only by a first signal that comes too
\* early to be caught, or when the shutdown has run out of time; an exit without
\* an error means that a signal was what ended it and that nothing was lost.
S == INSTANCE Service WITH
         door <- IF server["http"] = "serving" THEN "open"
                 ELSE IF server["http"] \in {"failed", "stopped"} THEN "shut" ELSE "before",
         told <- signal # "none",
         overdue <- expired
ServiceContract == S!Spec

\* main.go:68-69: audit wraps auth and policy, "ensuring 100% audit log coverage
\* per PRD requirements" (PRD.md:21): when run has returned, no request that was
\* accepted is without its entry.
EveryAccessAudited ==
    exit \in {"ok", "error"} => \A r \in Requests : handler[r] # "lost"

--------------------------------------------------------------------------
(* The strengthening that the proofs of Lifecycle_proofs carry along: only *)
(* after the proxy has stopped and its handlers are done is the log closed,*)
(* and there are no handlers before it starts.                             *)

Inductive ==
    /\ TypeOK
    /\ pc = "gone" <=> exit # "none"
    /\ pc \in {"config", "logger", "build", "listen"} =>
          server = [s \in Servers |-> "none"] /\ Active = {}
    /\ pc \in {"drain", "close", "return"} => server["http"] \in {"failed", "stopped"}
    /\ pc \in {"close", "return"} => Active = {}
    /\ file = "closed" => pc \in {"return", "gone"}
    /\ pc # "gone" => \A r \in Requests : handler[r] # "lost"
==========================================================================
