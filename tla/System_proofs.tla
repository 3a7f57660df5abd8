--------------------------- MODULE System_proofs ---------------------------
(* Theorems of System, for any values of its constants.  What is proved of *)
(* the request path and of the audit trail by themselves is taken over;    *)
(* Meeting adds what holds between the components.                         *)
EXTENDS System, SequenceTheorems, FiniteSetTheorems, TLAPS

\* The theorems about the components, of System's variables.  GP and AP define
\* again what G and A do; the first lemmas say that the two are the same.
GP == INSTANCE Gateway_proofs
AP == INSTANCE AuditStore_proofs WITH Writers <- Requests, Offsets <- 0..N

\* The assumptions of the components are among System's.
LEMMA PathAssumption == GP!PathOK
BY SystemOK DEF GP!PathOK, GP!AllShapes, GP!Texts, GP!Cuts, GP!Statuses,
                G!AllShapes, G!Texts, G!Cuts, G!Statuses

LEMMA SizesAssumption == AP!SizesOK
BY SystemOK DEF AP!SizesOK

\* The gateway's own steps, those of the world around it, and those in which it
\* meets another component, are the same in both instances,
LEMMA SameHandle == ASSUME NEW r \in Requests PROVE G!Handle(r) <=> GP!Handle(r)
BY DEF G!Handle, GP!Handle, G!Goto, GP!Goto, G!relay, GP!relay, G!Respond, GP!Respond, G!Front,
     GP!Front,
       G!Streaming, GP!Streaming, G!Restored, GP!Restored, G!Truncated, GP!Truncated,
       G!Forward, GP!Forward, G!DeadlineReachesConn, GP!DeadlineReachesConn, G!Health,
       GP!Health, G!PolicyPass, GP!PolicyPass, G!PolicyAllow, GP!PolicyAllow, G!PolicyDeny,
       GP!PolicyDeny, G!PolicyBody, GP!PolicyBody, G!Evaluates, GP!Evaluates, G!Verdicts,
       GP!Verdicts, G!Allowed, GP!Allowed, G!SSEStart, GP!SSEStart, G!Refuse, GP!Refuse,
       G!Relay, GP!Relay, G!Fault, GP!Fault, G!StreamRead, GP!StreamRead, G!ReadEnds,
       GP!ReadEnds, G!StreamWrite, GP!StreamWrite, G!StreamFlush, GP!StreamFlush,
       G!UpstreamAnswer, GP!UpstreamAnswer, G!UpstreamFail, GP!UpstreamFail, G!CopyEnd,
       GP!CopyEnd

LEMMA SameOutside == ASSUME NEW r \in Requests PROVE G!Outside(r) <=> GP!Outside(r)
BY DEF G!Outside, GP!Outside, G!Goto, GP!Goto, G!relay, GP!relay, G!Respond, GP!Respond,
     G!Front, GP!Front,
       G!Streaming, GP!Streaming, G!Restored, GP!Restored, G!Truncated, GP!Truncated,
       G!Forward, GP!Forward, G!DeadlineReachesConn, GP!DeadlineReachesConn, G!SSEAnswer,
       GP!SSEAnswer, G!SSEFail, GP!SSEFail, G!UpstreamEmits, GP!UpstreamEmits,
       G!UpstreamCloses, GP!UpstreamCloses, G!ClientLeaves, GP!ClientLeaves, G!ContextEnds,
       GP!ContextEnds

LEMMA SameMeet == ASSUME NEW r \in Requests
  PROVE /\ G!AuditEnter(r) <=> GP!AuditEnter(r)
        /\ G!Admit(r) <=> GP!Admit(r)
        /\ G!Reject(r) <=> GP!Reject(r)
        /\ G!AuditExit(r) <=> GP!AuditExit(r)
        /\ \A q : G!Arrive(r, q) <=> GP!Arrive(r, q)
BY DEF G!Goto, GP!Goto, G!relay, GP!relay, G!Respond, GP!Respond, G!Front, GP!Front,
       G!Streaming, GP!Streaming, G!Restored, GP!Restored, G!Truncated, GP!Truncated,
       G!Forward, GP!Forward, G!DeadlineReachesConn, GP!DeadlineReachesConn, G!Arrive,
       GP!Arrive, G!AuditEnter, GP!AuditEnter, G!Admit, GP!Admit, G!Reject, GP!Reject,
       G!AuditExit, GP!AuditExit, G!Decision, GP!Decision, G!Calls, GP!Calls, G!Texts, GP!Texts

\* and so are recording and reading.
LEMMA SameStore == ASSUME NEW r \in Requests
  PROVE /\ A!NewEntry(r) <=> AP!NewEntry(r)
        /\ A!WriteLine(r) <=> AP!WriteLine(r)
        /\ A!AppendEntry(r) <=> AP!AppendEntry(r)
BY DEF A!NewEntry, A!WriteLine, A!AppendEntry, AP!NewEntry, AP!WriteLine, AP!AppendEntry

LEMMA SameReads ==
  /\ A!Restart <=> AP!Restart
  /\ \A c \in Readers, size \in Sizes : A!ListAuditLogs(c, size) <=> AP!ListAuditLogs(c, size)
  /\ \A c \in Readers, offset \in 0..N, size \in Sizes :
        A!Probe(c, offset, size) <=> AP!Probe(c, offset, size)
BY DEF A!Restart, AP!Restart, A!ListAuditLogs, AP!ListAuditLogs, A!Probe, AP!Probe, A!List, AP!List,
   A!Clamp, AP!Clamp, A!NextToken, AP!NextToken, A!Stored, AP!Stored, A!Newest, AP!Newest,
   A!Physical, AP!Physical, A!Smaller, AP!Smaller

\* So a step of G is a step of GP, and one of A a step of AP.
LEMMA SameNext ==
    ASSUME G!Next \/ UNCHANGED G!vars
    PROVE  GP!Next \/ UNCHANGED GP!vars
<1>1. UNCHANGED G!vars => UNCHANGED GP!vars BY DEF G!vars, GP!vars, G!relay, GP!relay
<1>2. G!Finished => UNCHANGED G!vars BY DEF G!Finished
<1> QED BY <1>1, <1>2, SameHandle, SameOutside, SameMeet
        DEF G!Next, GP!Next, G!Serve, GP!Serve, G!Await, GP!Await

LEMMA SameStoreNext ==
    ASSUME A!Next \/ UNCHANGED A!vars
    PROVE  AP!Next \/ UNCHANGED AP!vars
<1>1. UNCHANGED A!vars => UNCHANGED AP!vars BY DEF A!vars, AP!vars
<1> QED BY <1>1, SameStore, SameReads DEF A!Next, AP!Next

\* Every step of the whole is a step of the request path or does not touch it,
LEMMA PathSteps == ASSUME Next PROVE G!Next \/ UNCHANGED G!vars
<1>0. UNCHANGED path => UNCHANGED G!vars BY DEF path, G!vars, G!relay
<1>1. ASSUME NEW r \in Requests, NEW q \in Shapes, Arrive(r, q) PROVE G!Next
  BY <1>1 DEF Arrive, G!Next, G!Await
<1>2. ASSUME NEW r \in Requests,
             AuditEnter(r) \/ Admit(r) \/ Reject(r) \/ AppendEntry(r) \/ Pipeline(r)
      PROVE  G!Next
  BY <1>2 DEF AuditEnter, Admit, Reject, AppendEntry, Pipeline, G!Next, G!Serve, G!Await
<1>3. ASSUME NEW r \in Requests, NewEntry(r) \/ WriteLine(r) PROVE UNCHANGED path
  BY <1>3 DEF NewEntry, WriteLine
<1>4. ASSUME NEW c \in Readers, NEW size \in Sizes, ListAuditLogs(c, size) PROVE UNCHANGED path
  BY <1>4 DEF ListAuditLogs
<1>5. CASE World \/ Crash BY <1>0, <1>5 DEF World, Crash
<1> QED BY <1>0, <1>1, <1>2, <1>3, <1>4, <1>5 DEF Next

\* one of token verification or does not touch that,
LEMMA GateSteps == ASSUME Next PROVE T!Next \/ UNCHANGED T!vars
<1>0. UNCHANGED gate => UNCHANGED T!vars BY DEF gate, T!vars
<1>1. ASSUME NEW r \in Requests, NEW q \in Shapes, Arrive(r, q) PROVE UNCHANGED gate
  BY <1>1 DEF Arrive
<1>2. ASSUME NEW r \in Requests, AuditEnter(r) PROVE T!Next
  <2>1. PICK t \in Presents(req[r]) : T!Arrive(r, t) BY <1>2 DEF AuditEnter
  <2>2. t \in Tokens \cup {NoToken} BY DEF Presents
  <2> QED BY <2>1, <2>2 DEF T!Next
<1>3. ASSUME NEW r \in Requests, Admit(r) \/ Reject(r) PROVE T!Next
  BY <1>3 DEF Admit, Reject, T!Next
<1>4. ASSUME NEW r \in Requests, NewEntry(r) \/ WriteLine(r) \/ AppendEntry(r) \/ Pipeline(r)
      PROVE  UNCHANGED gate
  BY <1>4 DEF NewEntry, WriteLine, AppendEntry, Pipeline
<1>5. ASSUME NEW c \in Readers, NEW size \in Sizes, ListAuditLogs(c, size) PROVE UNCHANGED gate
  BY <1>5 DEF ListAuditLogs
<1>6. CASE World BY <1>6 DEF World, T!Next
<1>7. CASE Crash BY <1>0, <1>7 DEF Crash
<1> QED BY <1>0, <1>1, <1>2, <1>3, <1>4, <1>5, <1>6, <1>7 DEF Next

\* and one of the audit trail or does not touch that.
LEMMA StoreSteps == ASSUME Next PROVE A!Next \/ UNCHANGED A!vars
<1>0. UNCHANGED store => UNCHANGED A!vars BY DEF store, A!vars
<1>1. ASSUME NEW r \in Requests, NEW q \in Shapes, Arrive(r, q) PROVE UNCHANGED store
  BY <1>1 DEF Arrive
<1>2. ASSUME NEW r \in Requests, AuditEnter(r) \/ Admit(r) \/ Reject(r) \/ Pipeline(r)
      PROVE  UNCHANGED store
  BY <1>2 DEF AuditEnter, Admit, Reject, Pipeline
<1>3. ASSUME NEW r \in Requests, NewEntry(r) \/ WriteLine(r) \/ AppendEntry(r) PROVE A!Next
  BY <1>3 DEF NewEntry, WriteLine, AppendEntry, A!Next
<1>4. ASSUME NEW c \in Readers, NEW size \in Sizes, ListAuditLogs(c, size) PROVE A!Next
  BY <1>4 DEF ListAuditLogs, A!Next
<1>5. CASE World BY <1>0, <1>5 DEF World
<1>6. CASE Crash BY <1>6 DEF Crash, A!Next
<1> QED BY <1>0, <1>1, <1>2, <1>3, <1>4, <1>5, <1>6 DEF Next

\* The invariant: the components' own, and where they meet.
Whole == GP!Inductive /\ AP!Inductive /\ Meeting

\* What the layers between token verification and the audit entry leave alone.
LEMMA PipelineKeeps ==
    ASSUME GP!TypeOK, NEW r \in Requests, G!Handle(r) \/ G!Outside(r)
    PROVE  /\ UNCHANGED <<req, ctx, toolName>>
           /\ pc[r] \notin {"new", "auth", "record", "done"}
           /\ pc'[r] \notin {"new", "audit", "auth"}
           /\ pc'[r] = "done" => req[r].health
           /\ \A q \in Requests \ {r} : pc'[q] = pc[q] /\ sent'[q] = sent[q]
<1> USE DEF GP!TypeOK, G!Goto, G!relay, G!Front, G!Streaming
<1>1. CASE G!Handle(r)
  BY <1>1 DEF G!Handle, G!Health, G!PolicyPass, G!PolicyAllow, G!PolicyDeny, G!Respond, G!SSEStart,
     G!Refuse, G!Relay, G!StreamRead, G!StreamWrite, G!StreamFlush, G!UpstreamAnswer,
     G!UpstreamFail, G!CopyEnd
<1>2. CASE G!Outside(r)
  BY <1>2 DEF G!Outside, G!SSEAnswer, G!SSEFail, G!Respond, G!UpstreamEmits, G!UpstreamCloses,
     G!ClientLeaves, G!ContextEnds
<1> QED BY <1>1, <1>2

\* Time and the tokens' fate go on as token verification has it.
LEMMA ClockStep ==
    ASSUME Whole, Next
    PROVE  ClockOK'
<1>0. ClockOK BY DEF Whole, Meeting
<1> USE <1>0, SystemOK DEF ClockOK, gate, own, T!Never
<1>1. ASSUME NEW r \in Requests, NEW q \in Shapes, Arrive(r, q) PROVE ClockOK'
  BY <1>1 DEF Arrive
<1>2. ASSUME NEW r \in Requests, AuditEnter(r) PROVE ClockOK'
  <2>1. PICK t \in Presents(req[r]) : T!Arrive(r, t) BY <1>2 DEF AuditEnter
  <2>2. t \in Tokens \cup {NoToken} BY DEF Presents
  <2>3. UNCHANGED own BY <1>2 DEF AuditEnter
  <2> QED BY <2>1, <2>2, <2>3 DEF T!Arrive
<1>3. ASSUME NEW r \in Requests, Admit(r) \/ Reject(r) PROVE ClockOK'
  BY <1>3 DEF Admit, Reject, T!Admit, T!Reject
<1>4. ASSUME NEW r \in Requests, NewEntry(r) \/ WriteLine(r) \/ AppendEntry(r) \/ Pipeline(r)
      PROVE  ClockOK'
  BY <1>4 DEF NewEntry, WriteLine, AppendEntry, Pipeline
<1>5. ASSUME NEW c \in Readers, NEW size \in Sizes, ListAuditLogs(c, size) PROVE ClockOK'
  BY <1>5 DEF ListAuditLogs
<1>6. CASE World
  <2>1. UNCHANGED own BY <1>6 DEF World
  <2>2. CASE T!Tick BY <2>1, <2>2 DEF T!Tick
  <2>3. ASSUME NEW t \in Tokens, T!Revoke(t) PROVE ClockOK' BY <2>1, <2>3 DEF T!Revoke
  <2> QED BY <1>6, <2>2, <2>3 DEF World
<1>7. CASE Crash BY <1>7 DEF Crash
<1> QED BY <1>1, <1>2, <1>3, <1>4, <1>5, <1>6, <1>7 DEF Next

\* Admission is what gives the layers a client, while the token is good enough.
LEMMA GateStep ==
    ASSUME Whole, Next, NEW q \in Requests
    PROVE  GateOK(q)'
<1>0. /\ ClockOK /\ GateOK(q) /\ GP!TypeOK /\ GP!IdentityOK(q)
      /\ TTL \in Nat /\ MaxLag \in Nat /\ Exp \in [Tokens -> Nat] /\ MaxTime \in Nat
  BY SystemOK DEF Whole, Meeting, GP!Inductive
<1> USE <1>0 DEF ClockOK, GateOK, GP!TypeOK, gate, path, own, G!Goto, G!relay, T!Never
<1>1. ASSUME NEW r \in Requests, NEW s \in Shapes, Arrive(r, s) PROVE GateOK(q)'
  BY <1>1 DEF Arrive, G!Arrive, GP!IdentityOK
<1>2. ASSUME NEW r \in Requests, AuditEnter(r) PROVE GateOK(q)'
  <2>1. PICK t \in Presents(req[r]) : T!Arrive(r, t) BY <1>2 DEF AuditEnter
  <2>2. G!AuditEnter(r) /\ UNCHANGED own BY <1>2 DEF AuditEnter
  <2> QED BY <2>1, <2>2 DEF G!AuditEnter, T!Arrive
<1>3. ASSUME NEW r \in Requests, Admit(r) PROVE GateOK(q)'
  BY <1>3 DEF Admit, G!Admit, T!Admit, T!Trusted
<1>4. ASSUME NEW r \in Requests, Reject(r) PROVE GateOK(q)'
  BY <1>4 DEF Reject, G!Reject, G!Respond, T!Reject
<1>5. ASSUME NEW r \in Requests, NewEntry(r) \/ WriteLine(r) PROVE GateOK(q)'
  BY <1>5 DEF NewEntry, WriteLine
<1>6. ASSUME NEW r \in Requests, AppendEntry(r) PROVE GateOK(q)'
  BY <1>6 DEF AppendEntry, G!AuditExit
<1>7. ASSUME NEW r \in Requests, Pipeline(r) PROVE GateOK(q)'
  <2>1. UNCHANGED <<gate, own>> BY <1>7 DEF Pipeline
  <2> QED BY <1>7, <2>1, PipelineKeeps DEF Pipeline
<1>8. ASSUME NEW c \in Readers, NEW size \in Sizes, ListAuditLogs(c, size) PROVE GateOK(q)'
  BY <1>8 DEF ListAuditLogs
<1>9. CASE World
  <2>1. UNCHANGED <<path, own>> BY <1>9 DEF World
  <2>2. CASE T!Tick BY <2>1, <2>2 DEF T!Tick
  <2>3. ASSUME NEW t \in Tokens, T!Revoke(t) PROVE GateOK(q)' BY <2>1, <2>3 DEF T!Revoke
  <2> QED BY <1>9, <2>2, <2>3 DEF World
<1>10. CASE Crash BY <1>10 DEF Crash
<1> QED BY <1>1, <1>2, <1>3, <1>4, <1>5, <1>6, <1>7, <1>8, <1>9, <1>10 DEF Next

\* What a step that records nothing may change of what the entries speak of: a
\* request that has no entry yet, and goes nowhere near its end.
Unrecorded(r) ==
    /\ UNCHANGED <<about, created, file, lost, wpc, held, dead>>
    /\ pc[r] \notin {"record", "done"}
    /\ wpc[r] = "idle"
    /\ pc'[r] = "done" => req'[r].health
    /\ \A q \in Requests \ {r} : /\ pc'[q] = pc[q] /\ ctx'[q] = ctx[q]
                                 /\ toolName'[q] = toolName[q] /\ req'[q] = req[q]
                                 /\ sent'[q] = sent[q]

\* All that a request does before it is recorded is of that kind.
LEMMA RecordingIsLast ==
    ASSUME Whole, NEW r \in Requests,
           \/ \E s \in Shapes : Arrive(r, s)
           \/ AuditEnter(r) \/ Admit(r) \/ Reject(r) \/ Pipeline(r)
    PROVE  Unrecorded(r)
<1>0. GP!TypeOK /\ RecordOK(r) BY DEF Whole, Meeting, GP!Inductive
<1> USE <1>0 DEF Unrecorded, RecordOK, GP!TypeOK, G!Goto, store, own, AP!TypeOK, G!relay
<1>a. wpc \in [Requests -> {"idle", "write", "append"}] BY DEF Whole, AP!Inductive
<1>1. ASSUME NEW s \in Shapes, Arrive(r, s) PROVE Unrecorded(r)
  BY <1>1, <1>a DEF Arrive, G!Arrive
<1>2. CASE AuditEnter(r) BY <1>2, <1>a DEF AuditEnter, G!AuditEnter
<1>3. CASE Admit(r) BY <1>3, <1>a DEF Admit, G!Admit
<1>4. CASE Reject(r) BY <1>4, <1>a DEF Reject, G!Reject, G!Respond
<1>5. CASE Pipeline(r)
  <2>1. UNCHANGED <<store, own>> BY <1>5 DEF Pipeline
  <2> QED BY <1>5, <1>a, <2>1, PipelineKeeps DEF Pipeline
<1> QED BY <1>1, <1>2, <1>3, <1>4, <1>5

\* Such a step keeps what is said of the entries.
LEMMA UnrecordedKeeps ==
    ASSUME Whole, NEW r \in Requests, Unrecorded(r)
    PROVE  AboutOK' /\ \A q \in Requests : RecordOK(q)'
<1>0. AboutOK /\ \A e \in 1..created : about[e] \in G!Entries
  BY ElementOfSeq DEF Whole, Meeting, AboutOK
<1>1. AboutOK'
  <2>1. \A e \in 1..created : about[e].from \in Requests /\ about[e].from # r
    BY <1>0 DEF AboutOK, G!Entries, Unrecorded
  <2> QED BY <1>0, <2>1 DEF AboutOK, Unrecorded
<1>2. ASSUME NEW q \in Requests PROVE RecordOK(q)'
  <2>1. RecordOK(q) BY DEF Whole, Meeting
  <2> QED BY <1>0, <2>1 DEF RecordOK, Unrecorded
<1> QED BY <1>1, <1>2

\* NewEntry says of its request what the layers have found, and says it once.
LEMMA NewEntryKeeps ==
    ASSUME Whole, NEW r \in Requests \ dead, NewEntry(r)
    PROVE  AboutOK' /\ \A q \in Requests : RecordOK(q)'
<1> DEFINE a == [from |-> r, client |-> rec[r].client, tool |-> toolName[r],
                 decision |-> G!Decision(rec[r].status)]
           n == created
<1>0. /\ AboutOK /\ \A q \in Requests : RecordOK(q)
      /\ wpc \in [Requests -> {"idle", "write", "append"}] /\ held \in [Requests -> AP!Ids \cup {NoEntry}]
      /\ n \in Nat
      /\ GP!TypeOK /\ GP!IdentityOK(r) /\ GP!DenialOK(r)
  BY SystemOK DEF Whole, Meeting, AP!Inductive, AP!TypeOK, GP!Inductive
<1>1. /\ pc[r] = "record" /\ wpc[r] = "idle"
      /\ about' = Append(about, a) /\ created' = n + 1
      /\ held' = [held EXCEPT ![r] = n + 1] /\ wpc' = [wpc EXCEPT ![r] = "write"]
      /\ UNCHANGED <<req, pc, sent, toolName, ctx, file, lost, dead>>
  BY <1>0 DEF NewEntry, A!NewEntry, path
<1>2. /\ a \in G!Entries /\ a.from = r /\ a.client = ctx[r] /\ a.tool = toolName[r]
      /\ (a.client = NoClient \/ sent[r] \in {"unauthorized", "forbidden"})
            => a.decision = "DENY"
  BY <1>0, <1>1 DEF GP!TypeOK, GP!Recorders, GP!Labels, G!Entries, G!Labels, G!Decision,
     GP!IdentityOK, GP!DenialOK
<1> HIDE DEF a
<1>3. /\ about \in Seq(G!Entries) /\ DOMAIN about = 1..n
      /\ about' \in Seq(G!Entries) /\ Len(about') = n + 1
      /\ \A e \in 1..n : about'[e] = about[e] /\ about[e] \in G!Entries
      /\ about'[n + 1] = a
  BY <1>0, <1>1, <1>2, AppendProperties, ElementOfSeq DEF AboutOK
<1>4. \A e \in 1..n : about[e].from \in Requests /\ about[e].from # r
  BY <1>0, <1>1, <1>3 DEF AboutOK, G!Entries
<1>5. AboutOK'
  <2>1. file' \cup lost' \subseteq 1..created' BY <1>0, <1>1 DEF AboutOK
  <2>2. ASSUME NEW e \in 1..created'
        PROVE  LET b == about'[e]
               IN /\ pc'[b.from] \in {"record", "done"}
                  /\ pc'[b.from] = "record" => wpc'[b.from] # "idle" \/ b.from \in dead'
                  /\ b.client = ctx'[b.from] /\ b.tool = toolName'[b.from]
                  /\ (b.client = NoClient \/ sent'[b.from] \in {"unauthorized", "forbidden"})
                        => b.decision = "DENY"
    <3>1. CASE e = n + 1 BY <1>0, <1>1, <1>2, <1>3, <3>1
    <3>2. CASE e \in 1..n
      <4>1. about'[e] = about[e] /\ about[e].from \in Requests \ {r} BY <1>3, <1>4, <3>2
      <4>2. wpc'[about[e].from] = wpc[about[e].from] BY <1>0, <1>1, <4>1
      <4> QED BY <1>0, <1>1, <3>2, <4>1, <4>2 DEF AboutOK
    <3>3. e = n + 1 \/ e \in 1..n BY <1>0, <1>1
    <3> QED BY <3>1, <3>2, <3>3
  <2>3. \A d, e \in 1..created' : about'[d].from = about'[e].from => d = e
    BY <1>0, <1>1, <1>2, <1>3, <1>4 DEF AboutOK
  <2> QED BY <1>1, <1>3, <2>1, <2>2, <2>3 DEF AboutOK
<1>6. ASSUME NEW q \in Requests PROVE RecordOK(q)'
  <2>1. CASE q = r BY <1>0, <1>1, <1>2, <1>3, <2>1 DEF RecordOK
  <2>2. CASE q # r
    <3>1. wpc'[q] = wpc[q] /\ held'[q] = held[q] BY <1>0, <1>1, <2>2
    <3>2. \A e \in file \cup lost : about'[e] = about[e] BY <1>0, <1>3 DEF AboutOK
    <3>3. wpc[q] # "idle" => held[q] \in 1..n /\ held[q] \in 1..(n + 1) /\ about'[held[q]] = about[held[q]]
      BY <1>0, <1>3 DEF RecordOK
    <3>4. UNCHANGED <<req, pc, dead, file, lost>> /\ created' = n + 1 /\ RecordOK(q)
      BY <1>0, <1>1
    <3> HIDE DEF n
    <3> QED BY <3>1, <3>2, <3>3, <3>4 DEF RecordOK
  <2> QED BY <2>1, <2>2
<1> QED BY <1>5, <1>6

\* The line, then the ring; or the end of the process.
LEMMA RecordingKeeps ==
    ASSUME Whole,
           (\E r \in Requests \ dead : WriteLine(r) \/ AppendEntry(r)) \/ Crash
    PROVE  AboutOK' /\ \A q \in Requests : RecordOK(q)'
<1>0. /\ AboutOK /\ \A r \in Requests : RecordOK(r)
      /\ wpc \in [Requests -> {"idle", "write", "append"}]
      /\ held \in [Requests -> AP!Ids \cup {NoEntry}]
      /\ GP!TypeOK
  BY DEF Whole, Meeting, AP!Inductive, AP!TypeOK, GP!Inductive
<1>a. \A e \in 1..created : about[e].from \in Requests
  <2>1. \A e \in 1..created : about[e] \in G!Entries BY <1>0, ElementOfSeq DEF AboutOK
  <2> QED BY <2>1 DEF G!Entries
<1>1. ASSUME NEW r \in Requests \ dead, WriteLine(r)
      PROVE  AboutOK' /\ \A q \in Requests : RecordOK(q)'
  <2>1. /\ wpc[r] = "write" /\ wpc' = [wpc EXCEPT ![r] = "append"]
        /\ file' \cup lost' = file \cup lost \cup {held[r]}
        /\ UNCHANGED <<created, held, req, pc, sent, ctx, toolName, about, dead>>
    BY <1>1 DEF WriteLine, A!WriteLine, path, own
  <2>2. held[r] \in 1..created BY <1>0, <1>a, <2>1 DEF RecordOK
  <2>3. AboutOK' BY <1>0, <1>a, <2>1, <2>2 DEF AboutOK
  <2>4. ASSUME NEW q \in Requests PROVE RecordOK(q)' BY <1>0, <1>a, <2>1, <2>2 DEF RecordOK
  <2> QED BY <2>3, <2>4
<1>2. ASSUME NEW r \in Requests \ dead, AppendEntry(r)
      PROVE  AboutOK' /\ \A q \in Requests : RecordOK(q)'
  <2>1. /\ wpc[r] = "append" /\ wpc' = [wpc EXCEPT ![r] = "idle"]
        /\ held' = [held EXCEPT ![r] = NoEntry]
        /\ pc[r] = "record" /\ pc' = [pc EXCEPT ![r] = "done"]
        /\ UNCHANGED <<created, file, lost, req, sent, ctx, toolName, about, dead>>
    BY <1>2 DEF AppendEntry, A!AppendEntry, G!AuditExit, G!Goto, own
  <2>2. held[r] \in file \cup lost /\ about[held[r]].from = r BY <1>0, <1>a, <2>1 DEF RecordOK
  <2>3. AboutOK' BY <1>0, <1>a, <2>1 DEF AboutOK, GP!TypeOK
  <2>4. ASSUME NEW q \in Requests PROVE RecordOK(q)'
    BY <1>0, <1>a, <2>1, <2>2 DEF RecordOK, GP!TypeOK
  <2> QED BY <2>3, <2>4
<1>3. CASE Crash
  <2>1. /\ wpc' = [r \in Requests |-> "idle"]
        /\ dead' = dead \cup {r \in Requests : pc[r] \notin {"new", "done"}}
        /\ UNCHANGED <<created, file, lost, req, pc, sent, ctx, toolName, about>>
    BY <1>3 DEF Crash, A!Restart, path
  <2>2. AboutOK' BY <1>0, <1>a, <2>1 DEF AboutOK
  <2>3. ASSUME NEW q \in Requests PROVE RecordOK(q)' BY <1>0, <1>a, <2>1 DEF RecordOK
  <2> QED BY <2>2, <2>3
<1> QED BY <1>1, <1>2, <1>3

\* So every step keeps the entries true and the recording in order.
LEMMA MeetingStep ==
    ASSUME Whole, Next
    PROVE  AboutOK' /\ \A q \in Requests : RecordOK(q)'
<1>1. ASSUME NEW r \in Requests \ dead, NEW s \in Shapes, Arrive(r, s)
      PROVE  AboutOK' /\ \A q \in Requests : RecordOK(q)'
  BY <1>1, RecordingIsLast, UnrecordedKeeps
<1>2. ASSUME NEW r \in Requests \ dead, AuditEnter(r) \/ Admit(r) \/ Reject(r) \/ Pipeline(r)
      PROVE  AboutOK' /\ \A q \in Requests : RecordOK(q)'
  BY <1>2, RecordingIsLast, UnrecordedKeeps
<1>3. ASSUME NEW r \in Requests \ dead, NewEntry(r)
      PROVE  AboutOK' /\ \A q \in Requests : RecordOK(q)'
  BY <1>3, NewEntryKeeps
<1>4. ASSUME (\E r \in Requests \ dead : WriteLine(r) \/ AppendEntry(r)) \/ Crash
      PROVE  AboutOK' /\ \A q \in Requests : RecordOK(q)'
  BY <1>4, RecordingKeeps
<1>5. ASSUME UNCHANGED <<path, about, created, file, lost, wpc, held, dead>>
      PROVE  AboutOK' /\ \A q \in Requests : RecordOK(q)'
  BY <1>5 DEF Whole, Meeting, path, AboutOK, RecordOK
<1>6. ASSUME NEW c \in Readers, NEW size \in Sizes, ListAuditLogs(c, size)
      PROVE  UNCHANGED <<path, about, created, file, lost, wpc, held, dead>>
  BY <1>6 DEF ListAuditLogs, A!ListAuditLogs, own
<1>7. World => UNCHANGED <<path, about, created, file, lost, wpc, held, dead>>
  BY DEF World, store, own
<1> QED BY <1>1, <1>2, <1>3, <1>4, <1>5, <1>6, <1>7 DEF Next

\* The invariant holds at the start
THEOREM InitWhole == Init => Whole
<1> SUFFICES ASSUME Init PROVE Whole OBVIOUS
<1>1. GP!Init BY DEF Init, G!Init, GP!Init
<1>2. AP!Init BY DEF Init, A!Init, AP!Init
<1>3. GP!Inductive BY <1>1, PathAssumption, GP!InitInductive
<1>4. AP!Inductive BY <1>2, SizesAssumption, AP!InitInductive
<1>5. ClockOK BY SystemOK DEF Init, T!Init, ClockOK, T!Never
<1>6. AboutOK /\ \A r \in Requests : GateOK(r) /\ RecordOK(r)
  BY DEF Init, T!Init, G!Init, A!Init, AboutOK, GateOK, RecordOK
<1> QED BY <1>3, <1>4, <1>5, <1>6 DEF Whole, Meeting

\* and is kept by every step
THEOREM StepWhole == Whole /\ [Next]_vars => Whole'
<1> SUFFICES ASSUME Whole, [Next]_vars PROVE Whole' OBVIOUS
<1>1. CASE Next
  <2>1. GP!Inductive' BY <1>1, PathSteps, SameNext, PathAssumption, GP!StepInductive DEF Whole
  <2>2. AP!Inductive'
    BY <1>1, StoreSteps, SameStoreNext, SizesAssumption, AP!StepInductive DEF Whole
  <2>3. ClockOK' /\ \A r \in Requests : GateOK(r)' BY <1>1, ClockStep, GateStep
  <2>4. AboutOK' /\ \A r \in Requests : RecordOK(r)' BY <1>1, MeetingStep
  <2> QED BY <2>1, <2>2, <2>3, <2>4 DEF Whole, Meeting
<1>2. CASE UNCHANGED vars
  <2>1. UNCHANGED GP!vars /\ UNCHANGED AP!vars
    BY <1>2 DEF vars, path, store, GP!vars, GP!relay, AP!vars
  <2>2. GP!Inductive' BY <2>1, PathAssumption, GP!StepInductive DEF Whole
  <2>3. AP!Inductive' BY <2>1, SizesAssumption, AP!StepInductive DEF Whole
  <2>4. Meeting'
    BY <1>2 DEF vars, path, gate, store, own, Whole, Meeting, ClockOK, AboutOK, GateOK, RecordOK
  <2> QED BY <2>2, <2>3, <2>4 DEF Whole
<1> QED BY <1>1, <1>2

\* and so always holds.
THEOREM AlwaysWhole == Spec => []Whole
BY InitWhole, StepWhole, PTL DEF Spec


\* Put together, the components do nothing that each alone would not do: what
\* holds of the request path, of token verification and of the audit trail by
\* themselves holds of them in the gateway.
THEOREM ImplementsComponents == Spec => G!SafeSpec /\ T!Spec /\ A!Spec
<1>1. Init => G!Init /\ T!Init /\ A!Init BY DEF Init
<1>2. [Next]_vars => [G!Next]_(G!vars)
  <2>1. CASE UNCHANGED vars BY <2>1 DEF vars, path, G!vars, G!relay
  <2> QED BY <2>1, PathSteps
<1>3. [Next]_vars => [T!Next]_(T!vars)
  <2>1. CASE UNCHANGED vars BY <2>1 DEF vars, gate, T!vars
  <2> QED BY <2>1, GateSteps
<1>4. [Next]_vars => [A!Next]_(A!vars)
  <2>1. CASE UNCHANGED vars BY <2>1 DEF vars, store, A!vars
  <2> QED BY <2>1, StoreSteps
<1> QED BY <1>1, <1>2, <1>3, <1>4, PTL DEF Spec, G!SafeSpec, T!Spec, A!Spec

\* A call that proxy sends upstream came from somebody.
LEMMA ForwardedHasClient ==
    ASSUME Whole, NEW f \in forwarded
    PROVE  f.from \in Requests /\ ctx[f.from] # NoClient
<1>1. f.from \in Requests BY DEF Whole, GP!Inductive, GP!TypeOK
<1>2. <<req[f.from], ctx[f.from], f.text>> \in GP!Rights BY DEF Whole, GP!Inductive, GP!ForwardsOK
<1>3. ctx[f.from] \in Clients BY <1>2 DEF GP!Rights
<1> QED BY <1>1, <1>3, SystemOK

\* A revoked or expired token opens the way upstream to no request that arrives
\* later than the cache and a slow answer allow.
THEOREM RevocationWorks == Spec => []RevocationTakesEffect
<1>1. Whole => RevocationTakesEffect
  <2> SUFFICES ASSUME Whole, NEW f \in forwarded
               PROVE  LET t == token[f.from]
                      IN /\ t \in Tokens
                         /\ arrivedAt[f.from] <= revokedAt[t] + TTL + MaxLag
                         /\ Exp[t] > 0 => arrivedAt[f.from] <= Exp[t] + MaxLag
    BY DEF RevocationTakesEffect
  <2>1. f.from \in Requests /\ ctx[f.from] # NoClient BY ForwardedHasClient
  <2> QED BY <2>1 DEF Whole, Meeting, GateOK
<1> QED BY <1>1, AlwaysWhole, PTL

\* What ListAuditLogs shows of a request is what auth, policy and proxy did.
THEOREM OperatorIsTold == Spec => []OperatorSeesTheTruth
<1>1. Whole => OperatorSeesTheTruth
  <2> SUFFICES ASSUME Whole, NEW c \in Readers, NEW e \in scan[c].seen
               PROVE  LET a == about[e]
                      IN /\ a.client = IF verdict[a.from] = "admitted"
                                       THEN Owner[token[a.from]] ELSE NoClient
                         /\ a.client = NoClient => a.decision = "DENY"
                         /\ sent[a.from] \in {"unauthorized", "forbidden"}
                               => a.decision = "DENY"
                         /\ (req[a.from].post /\ req[a.from].json /\ req[a.from].cut = "no") =>
                               \A f \in forwarded :
                                  (f.from = a.from /\ f.text \in G!Calls)
                                     => a.tool = f.text.method
    BY DEF OperatorSeesTheTruth
  <2> DEFINE a == about[e]
  <2>1. e \in 1..created
    <3>1. e \in file \cup lost BY DEF Whole, AP!Inductive, AP!ShownIsWritten
    <3> QED BY <3>1 DEF Whole, Meeting, AboutOK
  <2>2. /\ pc[a.from] \in {"record", "done"} /\ a.client = ctx[a.from] /\ a.tool = toolName[a.from]
        /\ (a.client = NoClient \/ sent[a.from] \in {"unauthorized", "forbidden"})
              => a.decision = "DENY"
    BY <2>1 DEF Whole, Meeting, AboutOK
  <2>3. a.from \in Requests
    <3>1. a \in G!Entries BY <2>1, ElementOfSeq DEF Whole, Meeting, AboutOK
    <3> QED BY <3>1 DEF G!Entries
  <2>4. GateOK(a.from) /\ GP!IdentityOK(a.from) /\ GP!BodyOK(a.from)
    BY <2>3 DEF Whole, Meeting, GP!Inductive
  <2>5. a.client = IF verdict[a.from] = "admitted" THEN Owner[token[a.from]] ELSE NoClient
    <3>1. CASE verdict[a.from] = "admitted"
      <4>1. token[a.from] \in Tokens /\ ctx[a.from] # NoClient /\ token[a.from] \in Presents(req[a.from])
        BY <2>4, <3>1 DEF GateOK
      <4>2. ctx[a.from] = req[a.from].owner BY <2>4, <4>1 DEF GP!IdentityOK
      <4> QED BY <2>2, <3>1, <4>1, <4>2, SystemOK DEF Presents
    <3>2. CASE verdict[a.from] # "admitted" BY <2>2, <2>4, <3>2 DEF GateOK
    <3> QED BY <3>1, <3>2
  <2>6. ASSUME req[a.from].post, req[a.from].json, req[a.from].cut = "no",
               NEW f \in forwarded, f.from = a.from, f.text \in G!Calls
        PROVE  a.tool = f.text.method
    <3>1. f.text = req[f.from].text BY DEF Whole, GP!Inductive, GP!ForwardsOK
    <3>2. f.text \in GP!Calls BY <2>6 DEF G!Calls, GP!Calls, G!Texts, GP!Texts
    <3> QED BY <2>2, <2>4, <2>6, <3>1, <3>2 DEF GP!BodyOK
  <2> QED BY <2>2, <2>5, <2>6
<1> QED BY <1>1, AlwaysWhole, PTL

\* Log writes one line, or fails once, for every call that went upstream and is
\* over, whether or not the process has died in between.
THEOREM CallsAreAccounted == Spec => []CallsAccounted
<1>1. Whole => CallsAccounted
  <2> SUFFICES ASSUME Whole, NEW f \in forwarded
               PROVE  LET lines == {e \in file \cup lost : about[e].from = f.from}
                      IN /\ Cardinality(lines) <= 1
                         /\ pc[f.from] = "done" => lines # {}
    BY DEF CallsAccounted
  <2> DEFINE lines == {e \in file \cup lost : about[e].from = f.from}
  <2>1. f.from \in Requests /\ ctx[f.from] # NoClient BY ForwardedHasClient
  <2>2. \A d, e \in lines : d = e BY DEF Whole, Meeting, AboutOK
  <2>3. Cardinality(lines) <= 1
    <3>1. CASE lines = {} BY <3>1, FS_EmptySet
    <3>2. CASE lines # {}
      <4>1. PICK e \in lines : TRUE BY <3>2
      <4>2. lines = {e} BY <2>2, <4>1
      <4> QED BY <4>2, FS_Singleton
    <3> QED BY <3>1, <3>2
  <2>4. ASSUME pc[f.from] = "done" PROVE lines # {}
    <3>1. ~ req[f.from].health
      <4>1. ctx[f.from] = req[f.from].owner /\ req[f.from] \in Shapes
        BY <2>1, <2>4 DEF Whole, GP!Inductive, GP!IdentityOK, GP!ShapeOK
      <4> QED BY <2>1, <4>1, SystemOK DEF G!AllShapes
    <3> QED BY <2>1, <2>4, <3>1 DEF Whole, Meeting, RecordOK
  <2> QED BY <2>3, <2>4
<1> QED BY <1>1, AlwaysWhole, PTL
============================================================================
