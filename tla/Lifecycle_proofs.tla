------------------------- MODULE Lifecycle_proofs -------------------------
(* Theorems of Lifecycle, for every set of requests and RPCs.              *)
EXTENDS Lifecycle, TLAPS

THEOREM InitInductive == Init => Inductive
BY DEF Init, Inductive, TypeOK, Active

\* The steps of run up to the select: no request is lost while it starts.
LEMMA StartupKeeps ==
    ASSUME Inductive, LoadConfig \/ OpenLog \/ Build \/ Listen \/ Notify
    PROVE  Inductive'
<1>1. CASE LoadConfig
  BY <1>1 DEF LoadConfig, End, Inductive, TypeOK, Active
<1>2. CASE OpenLog
  BY <1>2 DEF OpenLog, End, Inductive, TypeOK, Active
<1>3. CASE Build
  BY <1>3 DEF Build, End, Inductive, TypeOK, Active
<1>4. CASE Listen
  BY <1>4 DEF Listen, End, Inductive, TypeOK, Active, Servers
<1>5. CASE Notify
  BY <1>5 DEF Notify, Inductive, TypeOK, Active
<1> QED BY <1>1, <1>2, <1>3, <1>4, <1>5

\* The steps of run from the select on.
LEMMA ShutdownKeeps ==
    ASSUME Inductive,
           \/ Select \/ StopGRPC \/ RPCsDone \/ Shutdown
           \/ Drained \/ GiveUp \/ CloseLog \/ Return
    PROVE  Inductive'
<1> USE DEF Inductive, TypeOK
<1>1. CASE Select
  BY <1>1 DEF Select, Active
<1>2. CASE StopGRPC
  BY <1>2 DEF StopGRPC, Stopped, Active, Servers
<1>3. CASE RPCsDone
  BY <1>3 DEF RPCsDone, Active
<1>4. CASE Shutdown
  <2>1. server' \in [Servers -> {"none", "starting", "serving", "failed", "stopped"}]
        /\ server'["http"] \in {"failed", "stopped"}
    BY <1>4 DEF Shutdown, Stopped, Servers
  <2>2. Active' = Active /\ pc' \in {"close", "drain"} /\ (pc' = "close" => Active = {})
    BY <1>4 DEF Shutdown, Active
  <2> QED BY <1>4, <2>1, <2>2 DEF Shutdown
<1>5. CASE Drained
  BY <1>5 DEF Drained, Active
<1>6. CASE GiveUp
  BY <1>6 DEF GiveUp, End
<1>7. CASE CloseLog
  BY <1>7 DEF CloseLog, Active
<1>8. CASE Return
  BY <1>8 DEF Return, End
<1> QED BY <1>1, <1>2, <1>3, <1>4, <1>5, <1>6, <1>7, <1>8

\* What goes on beside run: servers, handlers, RPCs, the timer and the signal.
LEMMA OthersKeep ==
    ASSUME Inductive,
           \/ Signal \/ Expire \/ Gone
           \/ \E s \in Servers : Serve(s) \/ Fail(s)
           \/ \E r \in Requests : Accept(r) \/ Record(r)
           \/ \E c \in Calls : Call(c) \/ Send(c) \/ Reply(c)
    PROVE  Inductive'
<1> USE DEF Inductive, TypeOK
<1>1. CASE Signal
  BY <1>1 DEF Signal, End, Active
<1>2. CASE Expire
  BY <1>2 DEF Expire, Active
<1>3. CASE Gone
  BY <1>3 DEF Gone, vars, Active
<1>4. ASSUME NEW s \in Servers, Serve(s) PROVE Inductive'
  BY <1>4 DEF Serve, Active, Servers
<1>5. ASSUME NEW s \in Servers, Fail(s) PROVE Inductive'
  BY <1>5 DEF Fail, Active, Servers
<1>6. ASSUME NEW r \in Requests, Accept(r) PROVE Inductive'
  <2>1. /\ pc \notin {"config", "logger", "build", "listen", "close", "return"}
        /\ handler' \in [Requests -> {"none", "running", "recorded", "lost"}]
    BY <1>6 DEF Accept, Servers
  <2>2. \A q \in Requests : handler'[q] = handler[q] \/ handler'[q] = "running"
    BY <1>6 DEF Accept
  <2> QED BY <1>6, <2>1, <2>2 DEF Accept
<1>7. ASSUME NEW r \in Requests, Record(r) PROVE Inductive'
  <2>1. r \in Active /\ pc # "gone"
    BY <1>7 DEF Record, Active
  <2>2. pc \notin {"config", "logger", "build", "listen", "close", "return"} /\ file # "closed"
    BY <2>1
  <2>3. handler' = [handler EXCEPT ![r] = "recorded"]
    BY <1>7, <2>2 DEF Record
  <2> QED BY <1>7, <2>2, <2>3 DEF Record
<1>8. ASSUME NEW c \in Calls, Call(c) PROVE Inductive'
  BY <1>8 DEF Call, Active
<1>9. ASSUME NEW c \in Calls, Reply(c) PROVE Inductive'
  BY <1>9 DEF Reply, Active
<1>10. ASSUME NEW c \in Calls, Send(c) PROVE Inductive'
  BY <1>10 DEF Send, Active
<1> QED BY <1>1, <1>2, <1>3, <1>4, <1>5, <1>6, <1>7, <1>8, <1>9, <1>10

THEOREM StepInductive == Inductive /\ [Next]_vars => Inductive'
<1> SUFFICES ASSUME Inductive, [Next]_vars PROVE Inductive'
  OBVIOUS
<1>1. CASE UNCHANGED vars
  BY <1>1 DEF vars, Inductive, TypeOK, Active
<1>2. CASE Next
  BY <1>2, StartupKeeps, ShutdownKeeps, OthersKeep DEF Next, Main
<1> QED BY <1>1, <1>2

THEOREM AlwaysInductive == SafeSpec => []Inductive
BY InitInductive, StepInductive, PTL DEF SafeSpec

\* The process's values keep their types.
THEOREM TypeCorrect == SafeSpec => []TypeOK
<1>1. Inductive => TypeOK
  BY DEF Inductive
<1> QED BY <1>1, AlwaysInductive, PTL

\* However many requests run, and whenever they were accepted: a shutdown that
\* reaches the closing of the log has recorded every one of them.
THEOREM CleanShutdownLosesNothing == SafeSpec => []ShutdownLosesNothing
<1>1. Inductive => ShutdownLosesNothing
  BY DEF Inductive, TypeOK, ShutdownLosesNothing, Active
<1> QED BY <1>1, AlwaysInductive, PTL

\* Before the HTTP server runs, nobody is inside; an end there loses nothing.
LEMMA EarlyEnd ==
    ASSUME Inductive, pc # "gone", Active = {}, server["http"] # "serving",
           NEW how \in {"error"} \cup (IF signal = "none" THEN {} ELSE {"ok"}), End(how),
           UNCHANGED <<server, signal, expired>>
    PROVE  S!Next
<1>1. handler' = handler /\ exit' = how /\ exit = "none"
  BY DEF End, Inductive, TypeOK
<1>2. S!Running = {} BY DEF S!Running, Active
<1>3. S!Finish BY <1>1, <1>2 DEF S!Finish, Inductive, TypeOK, Servers
<1> QED BY <1>1, <1>3 DEF S!Next

\* Startup is seen as an early end or not at all.
LEMMA StartupMaps ==
    ASSUME Inductive, LoadConfig \/ OpenLog \/ Build \/ Listen \/ Notify
    PROVE  S!Next \/ UNCHANGED S!vars
<1>1. CASE Notify BY <1>1 DEF Notify, S!vars
<1>2. CASE LoadConfig \/ OpenLog \/ Build \/ Listen
  <2>1. pc # "gone" /\ server = [s \in Servers |-> "none"] /\ Active = {}
    BY <1>2 DEF LoadConfig, OpenLog, Build, Listen, Inductive
  <2>2. \/ End("error") /\ UNCHANGED <<server, signal, expired>>
        \/ /\ UNCHANGED <<handler, exit, signal, expired>>
           /\ server' \in {server, [s \in Servers |-> "starting"]}
    BY <1>2 DEF LoadConfig, OpenLog, Build, Listen
  <2> QED BY <2>1, <2>2, EarlyEnd DEF S!vars, Servers
<1> QED BY <1>1, <1>2

\* A change of the servers, nothing else, is a move of the door or none.
LEMMA DoorMoves ==
    ASSUME Inductive, pc # "gone", UNCHANGED <<signal, expired, handler, exit>>,
           \/ server'["http"] = server["http"]
           \/ server["http"] = "starting" /\ server'["http"] = "serving"
           \/ server'["http"] \in {"failed", "stopped"}
    PROVE  S!Next \/ UNCHANGED S!vars
BY DEF S!Next, S!Move, S!vars, Inductive, TypeOK, Servers

\* Of the shutdown, giving up and the return are seen, and the door.
LEMMA ShutdownMaps ==
    ASSUME Inductive,
           \/ Select \/ StopGRPC \/ RPCsDone \/ Shutdown
           \/ Drained \/ GiveUp \/ CloseLog \/ Return
    PROVE  S!Next \/ UNCHANGED S!vars
<1>1. CASE Select \/ RPCsDone \/ Drained \/ CloseLog
  <2>1. UNCHANGED <<server, expired, handler, exit>> /\ (signal' = signal \/ Select)
    BY <1>1 DEF Select, RPCsDone, Drained, CloseLog
  <2>2. (signal # "none") = (signal # "none")'
    BY <2>1 DEF Select
  <2> QED BY <2>1, <2>2 DEF S!vars
<1>2. CASE StopGRPC \/ Shutdown
  <2>1. pc # "gone" /\ UNCHANGED <<signal, expired, handler, exit>>
    BY <1>2 DEF StopGRPC, Shutdown
  <2>2. server'["http"] = server["http"] \/ server'["http"] \in {"failed", "stopped"}
    BY <1>2 DEF StopGRPC, Shutdown, Stopped, Inductive, TypeOK, Servers
  <2> QED BY <2>1, <2>2, DoorMoves
<1>3. CASE GiveUp
  <2>1. server["http"] \in {"failed", "stopped"} /\ exit = "none" /\ expired
    BY <1>3 DEF GiveUp, Inductive, TypeOK
  <2>2. S!Running = Active BY DEF S!Running, Active
  <2>3. S!CutOff BY <1>3, <2>1, <2>2 DEF GiveUp, End, S!CutOff
  <2> QED BY <2>1, <2>3 DEF S!Next
<1>4. CASE Return
  <2>1. pc # "gone" /\ Active = {} /\ server["http"] # "serving"
    BY <1>4 DEF Return, Inductive
  <2> QED BY <1>4, <2>1, EarlyEnd DEF Return
<1> QED BY <1>1, <1>2, <1>3, <1>4

\* What goes on beside run.
LEMMA OthersMap ==
    ASSUME Inductive,
           \/ Signal \/ Expire \/ Gone
           \/ \E s \in Servers : Serve(s) \/ Fail(s)
           \/ \E r \in Requests : Accept(r) \/ Record(r)
           \/ \E c \in Calls : Call(c) \/ Send(c) \/ Reply(c)
    PROVE  S!Next \/ UNCHANGED S!vars
<1>1. pc # "gone" => exit = "none" BY DEF Inductive
<1>2. CASE Signal
  <2>1. S!Running = Active BY DEF S!Running, Active
  <2>2. S!CutOff \/ S!Tell BY <1>2, <2>1 DEF Signal, End, S!CutOff, S!Tell
  <2> QED BY <1>1, <1>2, <2>2 DEF Signal, S!Next
<1>3. CASE Expire
  <2>1. S!Expire BY <1>3 DEF Expire, S!Expire
  <2> QED BY <1>1, <1>3, <2>1 DEF Expire, S!Next
<1>4. CASE Gone BY <1>4 DEF Gone, vars, S!vars
<1>5. ASSUME NEW s \in Servers, Serve(s) \/ Fail(s) PROVE S!Next \/ UNCHANGED S!vars
  <2>1. pc # "gone" /\ UNCHANGED <<signal, expired, handler, exit>>
    BY <1>5 DEF Serve, Fail
  <2>2. \/ server'["http"] = server["http"]
        \/ server["http"] = "starting" /\ server'["http"] = "serving"
        \/ server'["http"] \in {"failed", "stopped"}
    BY <1>5 DEF Serve, Fail, Inductive, TypeOK, Servers
  <2> QED BY <2>1, <2>2, DoorMoves
<1>6. ASSUME NEW r \in Requests, Accept(r) PROVE S!Next
  <2>1. S!Accept(r) BY <1>6 DEF Accept, S!Accept
  <2> QED BY <1>1, <1>6, <2>1 DEF Accept, S!Next
<1>7. ASSUME NEW r \in Requests, Record(r) PROVE S!Next
  <2>1. file # "closed" BY <1>7 DEF Record, Inductive, Active
  <2>2. S!Record(r) BY <1>7, <2>1 DEF Record, S!Record
  <2> QED BY <1>1, <1>7, <2>2 DEF Record, S!Next
<1>8. ASSUME NEW c \in Calls, Call(c) \/ Send(c) \/ Reply(c) PROVE UNCHANGED S!vars
  BY <1>8 DEF Call, Send, Reply, S!vars
<1> QED BY <1>2, <1>3, <1>4, <1>5, <1>6, <1>7, <1>8

\* The life of the process, with its servers, channels and timer, is what Service
\* promises: a request is lost only to a signal before signal.Notify or to a
\* shutdown that ran out of its 30 seconds.
THEOREM ImplementsService == SafeSpec => ServiceContract
<1>1. Init => S!Init BY DEF Init, S!Init, Servers
<1>2. Inductive /\ [Next]_vars => [S!Next]_S!vars
  <2> SUFFICES ASSUME Inductive, [Next]_vars PROVE S!Next \/ UNCHANGED S!vars OBVIOUS
  <2>1. CASE UNCHANGED vars BY <2>1 DEF vars, S!vars
  <2>2. CASE Next BY <2>2, StartupMaps, ShutdownMaps, OthersMap DEF Next, Main
  <2> QED BY <2>1, <2>2
<1> QED BY <1>1, <1>2, AlwaysInductive, PTL DEF SafeSpec, ServiceContract, S!Spec
==========================================================================
