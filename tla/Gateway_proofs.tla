-------------------------- MODULE Gateway_proofs ---------------------------
(* Theorems of Gateway, for any requests, clients, tools and grants.  The  *)
(* lemmas follow the conjuncts of Inductive: each step of a request keeps  *)
(* them for it (ShapeStep to TrailStep) and for the others (OthersKeep).   *)
EXTENDS Gateway, SequenceTheorems, FiniteSetTheorems, TLAPS

\* What a step of another request leaves alone.
Kept(q) == /\ req'[q] = req[q] /\ pc'[q] = pc[q] /\ body'[q] = body[q]
           /\ toolName'[q] = toolName[q] /\ ctx'[q] = ctx[q] /\ header'[q] = header[q]
           /\ rec'[q] = rec[q] /\ sent'[q] = sent[q] /\ stream'[q] = stream[q]
           /\ (q \in gone' <=> q \in gone) /\ (q \in cancelled' <=> q \in cancelled)

\* A verdict of the policy engine that allows a call is by default.rego.
LEMMA VerdictIsRight ==
    ASSUME NEW client, NEW call, TRUE \in Verdicts(client, call)
    PROVE  Allowed(client, call)
BY DEF Verdicts, Allowed

\* Writing a header keeps the recorder, the header map and the cause in type.
LEMMA RespondTypes ==
    ASSUME TypeOK, NEW r \in Requests, NEW status \in Statuses, NEW reason \in Reasons,
           Respond(r, status, reason)
    PROVE  /\ rec' \in [Requests -> Recorders]
           /\ header' \in [Requests -> Clients \cup {NoClient}]
           /\ sent' \in [Requests -> Reasons \cup {"nothing"}]
BY DEF TypeOK, Respond, Recorders

\* So does what the policy middleware does to the body,
LEMMA BodyTypes ==
    ASSUME TypeOK, NEW r \in Requests, PolicyBody(r) \/ UNCHANGED body
    PROVE  body' \in [Requests -> Bodies]
BY DEF TypeOK, Bodies, PolicyBody, Restored, Cuts

\* and what the two ends of an event stream and the loop between them do to it.
LEMMA StreamTypes ==
    ASSUME TypeOK, NEW r \in Requests,
           \/ UpstreamEmits(r) 
           \/ \E how \in {"ended", "broken"} : UpstreamCloses(r, how)
           \/ StreamRead(r) \/ StreamWrite(r) \/ StreamFlush(r)
    PROVE  stream' \in [Requests -> EventStreams]
<1>1. /\ MaxEvents \in Nat
      /\ stream \in [Requests -> EventStreams]
      /\ stream[r].emitted \in 0..MaxEvents
      /\ stream[r].taken \in 0..MaxEvents
      /\ stream[r].written \in 0..MaxEvents
  BY PathOK DEF TypeOK, EventStreams
<1>2. CASE UpstreamEmits(r)
  <2>1. stream[r].emitted + 1 \in 0..MaxEvents BY <1>1, <1>2 DEF UpstreamEmits
  <2>2. stream' = [stream EXCEPT ![r].emitted = stream[r].emitted + 1] BY <1>2 DEF UpstreamEmits
  <2> QED BY <1>1, <2>1, <2>2 DEF EventStreams
<1>3. ASSUME NEW how \in {"ended", "broken"}, UpstreamCloses(r, how)
      PROVE  stream' \in [Requests -> EventStreams]
  BY <1>1, <1>3 DEF UpstreamCloses, EventStreams
<1>4. CASE StreamRead(r)
  <2>1. CASE UNCHANGED stream BY <1>1, <2>1
  <2>2. ASSUME NEW n \in (stream[r].taken + 1)..stream[r].emitted, NEW last \in BOOLEAN,
               stream' = [stream EXCEPT ![r].taken = n, ![r].last = last]
        PROVE  stream' \in [Requests -> EventStreams]
    <3>1. n \in 0..MaxEvents BY <1>1, <2>2
    <3> QED BY <1>1, <2>2, <3>1 DEF EventStreams
  <2> QED BY <1>4, <2>1, <2>2 DEF StreamRead
<1>5. CASE StreamWrite(r)
  <2>1. UNCHANGED stream \/ stream' = [stream EXCEPT ![r].written = stream[r].taken]
    BY <1>5 DEF StreamWrite
  <2> QED BY <1>1, <2>1 DEF EventStreams
<1>6. CASE StreamFlush(r)
  <2>1. UNCHANGED stream \/ stream' = [stream EXCEPT ![r].got = stream[r].written]
    BY <1>1, <1>6 DEF StreamFlush, EventStreams
  <2> QED BY <1>1, <2>1 DEF EventStreams
<1> QED BY <1>2, <1>3, <1>4, <1>5, <1>6

\* A step keeps the types.  Only Admit needs more than them: the owner it admits
\* is that of a request that has arrived.
LEMMA TypeStep ==
    ASSUME TypeOK, NEW r \in Requests, Serve(r) \/ Await(r), ShapeOK(r)
    PROVE  TypeOK'
<1>a. Shapes \subseteq AllShapes /\ Answers \subseteq Statuses /\ MaxEvents \in Nat
  BY PathOK
<1> USE DEF TypeOK, Goto, Layers
<1>1. ASSUME NEW q \in Shapes, Arrive(r, q) PROVE TypeOK'
  BY <1>1, <1>a DEF Arrive, AllShapes, Bodies, relay
<1>2. CASE Health(r) BY <1>2 DEF Health, Reasons, relay
<1>3. CASE AuditEnter(r)
  <2>1. body' \in [Requests -> Bodies] BY <1>3 DEF AuditEnter, Restored, Bodies, Cuts
  <2>2. toolName' \in [Requests -> Labels] BY <1>3 DEF AuditEnter, Labels, Calls, Texts
  <2> QED BY <1>3, <2>1, <2>2 DEF AuditEnter, relay
<1>4. CASE Admit(r) 
  <2>1. req[r].owner \in Clients \cup {NoClient} BY <1>4, <1>a DEF Admit, ShapeOK, AllShapes
  <2> QED BY <1>4, <2>1 DEF Admit, relay
<1>5. CASE Reject(r) BY <1>5, RespondTypes DEF Reject, Reasons, Statuses, relay
<1>6. CASE PolicyPass(r) BY <1>6, BodyTypes DEF PolicyPass, relay
<1>7. CASE PolicyAllow(r) BY <1>7, BodyTypes DEF PolicyAllow, relay
<1>8. CASE PolicyDeny(r) BY <1>8, BodyTypes, RespondTypes DEF PolicyDeny, Reasons, Statuses, relay
<1>9. CASE SSEStart(r)
  <2>1. body[r].text \in Texts BY DEF Bodies
  <2> QED BY <1>9, <2>1 DEF SSEStart, Forward, relay
<1>10. ASSUME NEW s \in Answers, SSEAnswer(r, s) PROVE TypeOK'
  BY <1>10, <1>a, RespondTypes DEF SSEAnswer, Reasons, relay
<1>11. CASE SSEFail(r) BY <1>11, RespondTypes DEF SSEFail, Reasons, Statuses, relay
<1>12. CASE UpstreamEmits(r) BY <1>12, StreamTypes DEF UpstreamEmits, Front
<1>13. ASSUME NEW how \in {"ended", "broken"}, UpstreamCloses(r, how) PROVE TypeOK'
  BY <1>13, StreamTypes DEF UpstreamCloses, Front
<1>14. CASE ClientLeaves(r) BY <1>14 DEF ClientLeaves, Front
<1>15. CASE ContextEnds(r) BY <1>15 DEF ContextEnds, Front
<1>16. CASE StreamRead(r)
  <2>1. stream' \in [Requests -> EventStreams] BY <1>16, StreamTypes
  <2> QED BY <1>16, <2>1 DEF StreamRead, Front
<1>17. CASE StreamWrite(r)
  <2>1. stream' \in [Requests -> EventStreams] BY <1>17, StreamTypes
  <2> QED BY <1>17, <2>1 DEF StreamWrite, Front
<1>18. CASE StreamFlush(r)
  <2>1. stream' \in [Requests -> EventStreams] BY <1>18, StreamTypes
  <2> QED BY <1>18, <2>1 DEF StreamFlush, Front
<1>19. CASE Refuse(r)
  <2>1. Fault(req[r], body[r]) \in Reasons BY <1>19 DEF Refuse, Fault, Reasons
  <2> QED BY <1>19, <2>1, RespondTypes DEF Refuse, DeadlineReachesConn, Statuses, relay
<1>20. CASE Relay(r)
  <2>1. body[r].text \in Texts BY DEF Bodies
  <2> QED BY <1>20, <2>1 DEF Relay, Forward, DeadlineReachesConn, relay
<1>21. ASSUME NEW s \in Answers, UpstreamAnswer(r, s) PROVE TypeOK'
  BY <1>21, <1>a, RespondTypes DEF UpstreamAnswer, Reasons, relay
<1>22. CASE UpstreamFail(r) BY <1>22, RespondTypes DEF UpstreamFail, Reasons, Statuses, relay
<1>23. CASE CopyEnd(r) BY <1>23 DEF CopyEnd, Front, relay
<1>24. CASE AuditExit(r)
  <2>1. [from |-> r, client |-> rec[r].client, tool |-> toolName[r],
         decision |-> Decision(rec[r].status)] \in Entries
    BY DEF Entries, Recorders, Decision
  <2> QED BY <1>24, <2>1 DEF AuditExit, relay
<1> QED
  BY <1>1, <1>2, <1>3, <1>4, <1>5, <1>6, <1>7, <1>8, <1>9, <1>10, <1>11, <1>12, <1>13, <1>14,
     <1>15, <1>16, <1>17, <1>18, <1>19, <1>20, <1>21, <1>22, <1>23, <1>24
     DEF Serve, Await, Handle, Outside

\* A step of one request touches nothing that is another's.
LEMMA OthersKeep ==
    ASSUME TypeOK, NEW r \in Requests, Serve(r) \/ Await(r), NEW q \in Requests, q # r
    PROVE  Kept(q)
<1> USE DEF TypeOK, Goto, relay, Front, Kept
<1>1. ASSUME NEW q_ \in Shapes, Arrive(r, q_) PROVE Kept(q)
  BY <1>1 DEF Arrive
<1>2. CASE Health(r) BY <1>2 DEF Health
<1>3. CASE AuditEnter(r) BY <1>3 DEF AuditEnter
<1>4. CASE Admit(r) BY <1>4 DEF Admit
<1>5. CASE Reject(r) BY <1>5 DEF Reject, Respond
<1>6. CASE PolicyPass(r) BY <1>6 DEF PolicyPass, PolicyBody
<1>7. CASE PolicyAllow(r) BY <1>7 DEF PolicyAllow, PolicyBody
<1>8. CASE PolicyDeny(r) BY <1>8 DEF PolicyDeny, PolicyBody, Respond
<1>9. CASE SSEStart(r) BY <1>9 DEF SSEStart
<1>10. ASSUME NEW s_ \in Answers, SSEAnswer(r, s_) PROVE Kept(q)
  BY <1>10 DEF SSEAnswer, Respond
<1>11. CASE SSEFail(r) BY <1>11 DEF SSEFail, Respond
<1>12. CASE UpstreamEmits(r) BY <1>12 DEF UpstreamEmits
<1>13. ASSUME NEW how_ \in {"ended", "broken"}, UpstreamCloses(r, how_) PROVE Kept(q)
  BY <1>13 DEF UpstreamCloses
<1>14. CASE ClientLeaves(r) BY <1>14 DEF ClientLeaves
<1>15. CASE ContextEnds(r) BY <1>15 DEF ContextEnds
<1>16. CASE StreamRead(r) BY <1>16 DEF StreamRead
<1>17. CASE StreamWrite(r) BY <1>17 DEF StreamWrite
<1>18. CASE StreamFlush(r) BY <1>18 DEF StreamFlush
<1>19. CASE Refuse(r) BY <1>19 DEF Refuse, Respond
<1>20. CASE Relay(r) BY <1>20 DEF Relay
<1>21. ASSUME NEW s_ \in Answers, UpstreamAnswer(r, s_) PROVE Kept(q)
  BY <1>21 DEF UpstreamAnswer, Respond
<1>22. CASE UpstreamFail(r) BY <1>22 DEF UpstreamFail, Respond
<1>23. CASE CopyEnd(r) BY <1>23 DEF CopyEnd
<1>24. CASE AuditExit(r) BY <1>24 DEF AuditExit
<1> QED
  BY <1>1, <1>2, <1>3, <1>4, <1>5, <1>6, <1>7, <1>8, <1>9, <1>10, <1>11, <1>12, <1>13, <1>14,
       <1>15, <1>16, <1>17, <1>18, <1>19, <1>20, <1>21, <1>22, <1>23, <1>24
     DEF Serve, Await, Handle, Outside

\* A health check goes from the audit middleware straight to its end.
LEMMA ShapeStep ==
    ASSUME Inductive, NEW r \in Requests, Serve(r) \/ Await(r)
    PROVE  ShapeOK(r)'
<1>0. TypeOK /\ ShapeOK(r) /\ IdentityOK(r) /\ DenialOK(r) /\ BodyOK(r) /\ StreamOK(r)
  BY DEF Inductive
<1> USE <1>0 DEF TypeOK, Goto, relay, Front, Streaming, ShapeOK
<1>1. ASSUME NEW q \in Shapes, Arrive(r, q) PROVE ShapeOK(r)'
  BY <1>1 DEF Arrive
<1>2. CASE Health(r) \/ AuditEnter(r) \/ AuditExit(r)
  BY <1>2 DEF Health, AuditEnter, AuditExit
<1>3. CASE Admit(r) \/ Reject(r)
  BY <1>3 DEF Admit, Reject
<1>4. CASE PolicyPass(r) \/ PolicyAllow(r)
  BY <1>4 DEF PolicyPass, PolicyAllow, PolicyBody
<1>5. CASE PolicyDeny(r)
  BY <1>5 DEF PolicyDeny, PolicyBody
<1>6. CASE SSEStart(r) \/ Relay(r)
  BY <1>6 DEF SSEStart, Relay
<1>7. CASE Refuse(r) \/ UpstreamFail(r) \/ SSEFail(r)
  BY <1>7 DEF Refuse, UpstreamFail, SSEFail
<1>8. ASSUME NEW s \in Answers, UpstreamAnswer(r, s) \/ SSEAnswer(r, s) PROVE ShapeOK(r)'
  BY <1>8 DEF UpstreamAnswer, SSEAnswer
<1>9. CASE StreamRead(r) \/ StreamWrite(r) \/ StreamFlush(r) \/ CopyEnd(r)
  BY <1>9 DEF StreamRead, StreamWrite, StreamFlush, CopyEnd
<1>10. CASE UpstreamEmits(r) \/ ClientLeaves(r) \/ ContextEnds(r)
  BY <1>10 DEF UpstreamEmits, ClientLeaves, ContextEnds
<1>11. ASSUME NEW how \in {"ended", "broken"}, UpstreamCloses(r, how) PROVE ShapeOK(r)'
  BY <1>11 DEF UpstreamCloses
<1> QED BY <1>1, <1>2, <1>3, <1>4, <1>5, <1>6, <1>7, <1>8, <1>9, <1>10, <1>11
       DEF Serve, Await, Handle, Outside

\* The identity that auth establishes is the one the recorder has captured by
\* the time the entry is written, whichever layer writes the header.
LEMMA IdentityStep ==
    ASSUME Inductive, NEW r \in Requests, Serve(r) \/ Await(r)
    PROVE  IdentityOK(r)'
<1>0. TypeOK /\ ShapeOK(r) /\ IdentityOK(r) /\ DenialOK(r) /\ BodyOK(r) /\ StreamOK(r)
  BY DEF Inductive
<1> USE <1>0 DEF TypeOK, Goto, relay, Front, Streaming, IdentityOK, Respond, Recorders
<1>1. ASSUME NEW q \in Shapes, Arrive(r, q) PROVE IdentityOK(r)'
  BY <1>1 DEF Arrive
<1>2. CASE Health(r) \/ AuditEnter(r) \/ AuditExit(r)
  BY <1>2 DEF Health, AuditEnter, AuditExit
<1>3. CASE Admit(r) \/ Reject(r)
  BY <1>3, PathOK DEF Admit, Reject, ShapeOK, AllShapes
<1>4. CASE PolicyPass(r) \/ PolicyAllow(r)
  BY <1>4 DEF PolicyPass, PolicyAllow, PolicyBody
<1>5. CASE PolicyDeny(r)
  BY <1>5 DEF PolicyDeny, PolicyBody
<1>6. CASE SSEStart(r) \/ Relay(r)
  BY <1>6 DEF SSEStart, Relay
<1>7. CASE Refuse(r) \/ UpstreamFail(r) \/ SSEFail(r)
  BY <1>7 DEF Refuse, UpstreamFail, SSEFail
<1>8. ASSUME NEW s \in Answers, UpstreamAnswer(r, s) \/ SSEAnswer(r, s) PROVE IdentityOK(r)'
  BY <1>8 DEF UpstreamAnswer, SSEAnswer
<1>9. CASE StreamRead(r) \/ StreamWrite(r) \/ StreamFlush(r) \/ CopyEnd(r)
  BY <1>9 DEF StreamRead, StreamWrite, StreamFlush, CopyEnd
<1>10. CASE UpstreamEmits(r) \/ ClientLeaves(r) \/ ContextEnds(r)
  BY <1>10 DEF UpstreamEmits, ClientLeaves, ContextEnds
<1>11. ASSUME NEW how \in {"ended", "broken"}, UpstreamCloses(r, how) PROVE IdentityOK(r)'
  BY <1>11 DEF UpstreamCloses
<1> QED BY <1>1, <1>2, <1>3, <1>4, <1>5, <1>6, <1>7, <1>8, <1>9, <1>10, <1>11
       DEF Serve, Await, Handle, Outside

\* Whoever auth or policy refuses leaves a status by which audit records a DENY.
LEMMA DenialStep ==
    ASSUME Inductive, NEW r \in Requests, Serve(r) \/ Await(r)
    PROVE  DenialOK(r)'
<1>0. TypeOK /\ ShapeOK(r) /\ IdentityOK(r) /\ DenialOK(r) /\ BodyOK(r) /\ StreamOK(r)
  BY DEF Inductive
<1> USE <1>0 DEF TypeOK, Goto, relay, Front, Streaming, DenialOK, IdentityOK, Respond, Recorders
<1>1. ASSUME NEW q \in Shapes, Arrive(r, q) PROVE DenialOK(r)'
  BY <1>1 DEF Arrive
<1>2. CASE Health(r) \/ AuditEnter(r) \/ AuditExit(r)
  BY <1>2 DEF Health, AuditEnter, AuditExit
<1>3. CASE Admit(r) \/ Reject(r)
  BY <1>3 DEF Admit, Reject
<1>4. CASE PolicyPass(r) BY <1>4 DEF PolicyPass
<1>5. CASE PolicyAllow(r) BY <1>5 DEF PolicyAllow
<1>6. CASE PolicyDeny(r)
  BY <1>6 DEF PolicyDeny, PolicyBody
<1>7. CASE SSEStart(r) \/ Relay(r)
  BY <1>7 DEF SSEStart, Relay
<1>8. CASE Refuse(r) \/ UpstreamFail(r) \/ SSEFail(r)
  <2>1. ctx[r] # NoClient BY <1>8 DEF Refuse, UpstreamFail, SSEFail
  <2>2. sent'[r] \notin {"unauthorized", "forbidden"}
    BY <1>8 DEF Refuse, UpstreamFail, SSEFail, Fault
  <2>3. ctx' = ctx /\ pc'[r] = "record" BY <1>8 DEF Refuse, UpstreamFail, SSEFail
  <2> QED BY <2>1, <2>2, <2>3
<1>9. ASSUME NEW s \in Answers, UpstreamAnswer(r, s) \/ SSEAnswer(r, s) PROVE DenialOK(r)'
  BY <1>9 DEF UpstreamAnswer, SSEAnswer
<1>10. CASE StreamRead(r) \/ StreamWrite(r) \/ StreamFlush(r) \/ CopyEnd(r)
  BY <1>10 DEF StreamRead, StreamWrite, StreamFlush, CopyEnd
<1>11. CASE UpstreamEmits(r) \/ ClientLeaves(r) \/ ContextEnds(r)
  BY <1>11 DEF UpstreamEmits, ClientLeaves, ContextEnds
<1>12. ASSUME NEW how \in {"ended", "broken"}, UpstreamCloses(r, how) PROVE DenialOK(r)'
  BY <1>12 DEF UpstreamCloses
<1> QED BY <1>1, <1>2, <1>3, <1>4, <1>5, <1>6, <1>7, <1>8, <1>9, <1>10, <1>11, <1>12
       DEF Serve, Await, Handle, Outside

\* No layer that reads and replaces the body changes its text, and what comes out
\* of the policy middleware has been allowed, or is garbage for the proxy to refuse.
LEMMA BodyStep ==
    ASSUME Inductive, NEW r \in Requests, Serve(r) \/ Await(r)
    PROVE  BodyOK(r)'
<1>0. TypeOK /\ ShapeOK(r) /\ IdentityOK(r) /\ DenialOK(r) /\ BodyOK(r) /\ StreamOK(r)
  BY DEF Inductive
<1> USE <1>0 DEF TypeOK, Goto, relay, Front, Streaming, BodyOK, Restored, Truncated, Evaluates
<1>1. ASSUME NEW q \in Shapes, Arrive(r, q) PROVE BodyOK(r)'
  BY <1>1 DEF Arrive
<1>2. CASE Health(r) \/ AuditExit(r)
  BY <1>2, PathOK DEF Health, AuditExit, ShapeOK, AllShapes
<1>3. CASE AuditEnter(r)
  BY <1>3 DEF AuditEnter, Bodies
<1>4. CASE Admit(r) \/ Reject(r)
  BY <1>4 DEF Admit, Reject
<1>5. CASE PolicyPass(r)
  BY <1>5 DEF PolicyPass, PolicyBody
<1>6. CASE PolicyAllow(r)
  <2>1. Allowed(ctx[r], body[r].text) BY <1>6, VerdictIsRight DEF PolicyAllow
  <2> QED BY <1>6, <2>1 DEF PolicyAllow, PolicyBody
<1>7. CASE PolicyDeny(r)
  BY <1>7 DEF PolicyDeny, PolicyBody
<1>8. CASE SSEStart(r) \/ Relay(r)
  BY <1>8 DEF SSEStart, Relay
<1>9. CASE Refuse(r) \/ UpstreamFail(r) \/ SSEFail(r)
  BY <1>9 DEF Refuse, UpstreamFail, SSEFail
<1>10. ASSUME NEW s \in Answers, UpstreamAnswer(r, s) \/ SSEAnswer(r, s) PROVE BodyOK(r)'
  BY <1>10 DEF UpstreamAnswer, SSEAnswer
<1>11. CASE StreamRead(r) \/ StreamWrite(r) \/ StreamFlush(r) \/ CopyEnd(r)
  BY <1>11 DEF StreamRead, StreamWrite, StreamFlush, CopyEnd
<1>12. CASE UpstreamEmits(r) \/ ClientLeaves(r) \/ ContextEnds(r)
  BY <1>12 DEF UpstreamEmits, ClientLeaves, ContextEnds
<1>13. ASSUME NEW how \in {"ended", "broken"}, UpstreamCloses(r, how) PROVE BodyOK(r)'
  BY <1>13 DEF UpstreamCloses
<1> QED BY <1>1, <1>2, <1>3, <1>4, <1>5, <1>6, <1>7, <1>8, <1>9, <1>10, <1>11, <1>12, <1>13
       DEF Serve, Await, Handle, Outside

\* The loop of handleSSE holds nothing back and, when it ends, owes nothing.
LEMMA StreamStep ==
    ASSUME Inductive, NEW r \in Requests, Serve(r) \/ Await(r)
    PROVE  StreamOK(r)'
<1>0. TypeOK /\ ShapeOK(r) /\ IdentityOK(r) /\ DenialOK(r) /\ BodyOK(r) /\ StreamOK(r)
  BY DEF Inductive
<1> USE <1>0 DEF TypeOK, Goto, relay, Front, Streaming, StreamOK, EventStreams, ReadEnds
<1>1. ASSUME NEW q \in Shapes, Arrive(r, q) PROVE StreamOK(r)'
  BY <1>1 DEF Arrive
<1>2. CASE Health(r) \/ AuditEnter(r) \/ AuditExit(r)
  BY <1>2 DEF Health, AuditEnter, AuditExit
<1>3. CASE Admit(r) \/ Reject(r)
  BY <1>3 DEF Admit, Reject
<1>4. CASE PolicyPass(r) \/ PolicyAllow(r)
  BY <1>4 DEF PolicyPass, PolicyAllow, PolicyBody
<1>5. CASE PolicyDeny(r)
  BY <1>5 DEF PolicyDeny, PolicyBody
<1>6. CASE SSEStart(r) \/ Relay(r)
  BY <1>6 DEF SSEStart, Relay
<1>7. CASE Refuse(r) \/ UpstreamFail(r) \/ SSEFail(r)
  BY <1>7 DEF Refuse, UpstreamFail, SSEFail
<1>8. ASSUME NEW s \in Answers, UpstreamAnswer(r, s) \/ SSEAnswer(r, s) PROVE StreamOK(r)'
  BY <1>8 DEF UpstreamAnswer, SSEAnswer
<1>9. CASE StreamRead(r)
  <2>1. CASE ReadEnds(r, stream[r].taken) /\ pc' = [pc EXCEPT ![r] = "record"] /\ UNCHANGED stream
    <3>1. pc'[r] = "record" /\ pc[r] = "stream" /\ UNCHANGED <<gone, cancelled>>
      BY <1>9, <2>1 DEF StreamRead
    <3> QED BY <2>1, <3>1
  <2>2. ASSUME NEW n \in (stream[r].taken + 1)..stream[r].emitted, NEW last \in BOOLEAN,
               last => ReadEnds(r, n),
               stream' = [stream EXCEPT ![r].taken = n, ![r].last = last],
               pc' = [pc EXCEPT ![r] = "event"]
        PROVE  StreamOK(r)'
    <3>1. pc'[r] = "event" /\ pc[r] = "stream" /\ UNCHANGED <<gone, cancelled>>
      BY <1>9, <2>2 DEF StreamRead
    <3>2. /\ stream'[r].taken = n /\ stream'[r].last = last
          /\ stream'[r].emitted = stream[r].emitted /\ stream'[r].upstream = stream[r].upstream
      BY <2>2
    <3>3. n <= stream[r].emitted OBVIOUS
    <3> QED BY <2>2, <3>1, <3>2, <3>3
  <2> QED BY <1>9, <2>1, <2>2 DEF StreamRead
<1>10. CASE StreamWrite(r)
  <2>1. CASE UNCHANGED stream BY <1>10, <2>1 DEF StreamWrite
  <2>2. CASE stream' = [stream EXCEPT ![r].written = stream[r].taken] /\ pc' = [pc EXCEPT ![r] = "flush"]
    BY <1>10, <2>2 DEF StreamWrite
  <2> QED BY <1>10, <2>1, <2>2 DEF StreamWrite
<1>11. CASE StreamFlush(r) BY <1>11 DEF StreamFlush
<1>12. CASE CopyEnd(r) BY <1>12 DEF CopyEnd
<1>13. CASE UpstreamEmits(r) BY <1>13 DEF UpstreamEmits
<1>14. CASE ClientLeaves(r) BY <1>14 DEF ClientLeaves
<1>15. CASE ContextEnds(r) BY <1>15 DEF ContextEnds
<1>16. ASSUME NEW how \in {"ended", "broken"}, UpstreamCloses(r, how) PROVE StreamOK(r)'
  BY <1>16 DEF UpstreamCloses
<1> QED BY <1>1, <1>2, <1>3, <1>4, <1>5, <1>6, <1>7, <1>8, <1>9, <1>10, <1>11, <1>12, <1>13,
     <1>14, <1>15, <1>16
       DEF Serve, Await, Handle, Outside

\* What goes upstream is the text that arrived, by right of the identity in the
\* context.
LEMMA ForwardsStep ==
    ASSUME Inductive, NEW r \in Requests, Serve(r) \/ Await(r)
    PROVE  ForwardsOK'
<1>0. /\ TypeOK /\ TypeOK' /\ ShapeOK(r) /\ IdentityOK(r) /\ BodyOK(r) /\ ForwardsOK
  BY TypeStep DEF Inductive
<1>1. CASE SSEStart(r) \/ Relay(r)
  <2>1. /\ req' = req /\ ctx' = ctx
        /\ forwarded' = forwarded \cup {[from |-> r, text |-> body[r].text]}
        /\ pc'[r] \in Beyond
    BY <1>0, <1>1 DEF SSEStart, Relay, Forward, Goto, TypeOK, Beyond, Streaming
  <2>2. /\ req[r] \in Shapes /\ ctx[r] \in Clients
        /\ body[r].text \in Texts /\ body[r].text = req[r].text
    BY <1>0, <1>1 DEF SSEStart, Relay, TypeOK, ShapeOK, IdentityOK, BodyOK, Bodies
  <2>3. Governed(req[r], body[r].text) => body[r].text \in Calls /\ Allowed(ctx[r], body[r].text)
    <3>1. Governed(req[r], body[r].text) => req[r].post /\ req[r].json /\ body[r].text.method # "garbage"
      BY <1>1 DEF SSEStart, Relay, Governed, Fault, Calls
    <3>2. Governed(req[r], body[r].text) => Allowed(ctx[r], body[r].text)
      BY <1>0, <1>1, <3>1 DEF SSEStart, Relay, BodyOK
    <3>3. Allowed(ctx[r], body[r].text) => body[r].text.method \notin {"none", "garbage"}
      BY DEF Allowed
    <3> QED BY <2>2, <3>1, <3>2, <3>3 DEF Calls
  <2>4. <<req[r], ctx[r], body[r].text>> \in Rights BY <2>2, <2>3 DEF Rights
  <2>5. ASSUME NEW f \in forwarded, f.from # r
        PROVE  pc'[f.from] \in Beyond
    BY <1>0, <1>1, <2>5 DEF SSEStart, Relay, Goto, TypeOK, ForwardsOK
  <2> QED BY <1>0, <2>1, <2>2, <2>4, <2>5 DEF ForwardsOK
<1>2. CASE ~ (SSEStart(r) \/ Relay(r))
  <2>1. forwarded' = forwarded
    BY <1>2 DEF Serve, Await, Handle, Outside, Front, Arrive, Health, AuditEnter, Admit, Reject,
       PolicyPass, PolicyAllow, PolicyDeny, SSEAnswer, SSEFail, UpstreamEmits, UpstreamCloses,
       ClientLeaves, ContextEnds, StreamRead, StreamWrite, StreamFlush, Refuse, UpstreamAnswer,
       UpstreamFail, CopyEnd, AuditExit
  <2>2. pc[r] \in Beyond => pc'[r] \in Beyond /\ req'[r] = req[r] /\ ctx'[r] = ctx[r]
    BY <1>0, <1>2 DEF TypeOK, Beyond, Streaming, Goto, relay, Serve, Await, Handle, Outside, Front,
       Arrive, Health, AuditEnter, Admit, Reject, PolicyPass, PolicyAllow, PolicyDeny, SSEAnswer,
       SSEFail, UpstreamEmits, UpstreamCloses, ClientLeaves, ContextEnds, StreamRead, StreamWrite,
       StreamFlush, Refuse, UpstreamAnswer, UpstreamFail, CopyEnd, AuditExit
  <2>3. SUFFICES ASSUME NEW f \in forwarded
                 PROVE  /\ pc'[f.from] \in Beyond
                        /\ f.text = req'[f.from].text
                        /\ <<req'[f.from], ctx'[f.from], f.text>> \in Rights
    BY <2>1 DEF ForwardsOK
  <2>4. f.from \in Requests BY <1>0 DEF TypeOK
  <2>5. f.from # r => Kept(f.from) BY <1>0, <2>4, OthersKeep
  <2> QED BY <1>0, <2>2, <2>4, <2>5 DEF ForwardsOK, Kept
<1> QED BY <1>1, <1>2

\* A request has its entry when it is over, one entry, and not before.
LEMMA TrailStep ==
    ASSUME Inductive, NEW r \in Requests, Serve(r) \/ Await(r)
    PROVE  TrailOK'
<1>0. /\ TypeOK /\ TypeOK' /\ ShapeOK(r) /\ IdentityOK(r) /\ DenialOK(r) /\ TrailOK
  BY TypeStep DEF Inductive
<1>1. \A i \in DOMAIN trail : trail[i] \in Entries BY <1>0, ElementOfSeq DEF TypeOK
<1>2. ASSUME NEW q \in Requests, q # r PROVE Kept(q) BY <1>0, <1>2, OthersKeep
<1>3. CASE AuditExit(r)
  <2> DEFINE e == [from |-> r, client |-> rec[r].client, tool |-> toolName[r],
                   decision |-> Decision(rec[r].status)]
             n == Len(trail)
  <2>1. /\ pc[r] = "record" /\ pc'[r] = "done" /\ trail' = Append(trail, e)
        /\ req' = req /\ ctx' = ctx /\ toolName' = toolName /\ sent' = sent
    BY <1>0, <1>3 DEF AuditExit, Goto, TypeOK
  <2>2. /\ DOMAIN trail = 1..n /\ DOMAIN trail' = 1..(n + 1) /\ n \in Nat
        /\ \A i \in 1..n : trail'[i] = trail[i]
        /\ trail'[n + 1] = e
    BY <1>0, <2>1, AppendProperties DEF TypeOK
  <2>3. /\ e.from = r /\ e.client = ctx[r] /\ e.tool = toolName[r] /\ ~ req[r].health
        /\ (e.client = NoClient \/ sent[r] \in {"unauthorized", "forbidden"}) => e.decision = "DENY"
    BY <1>0, <2>1 DEF IdentityOK, DenialOK, ShapeOK, Decision
  <2>4. \A i \in 1..n : trail[i].from \in Requests \ {r}
    BY <1>0, <1>1, <2>1, <2>2 DEF TrailOK, Entries
  <2> HIDE DEF e
  <2>5. ASSUME NEW i \in DOMAIN trail'
        PROVE  /\ pc'[trail'[i].from] = "done" /\ ~ req'[trail'[i].from].health
               /\ trail'[i].client = ctx'[trail'[i].from]
               /\ trail'[i].tool = toolName'[trail'[i].from]
               /\ (trail'[i].client = NoClient \/ sent'[trail'[i].from] \in {"unauthorized", "forbidden"})
                    => trail'[i].decision = "DENY"
    <3>1. CASE i = n + 1 BY <2>1, <2>2, <2>3, <3>1
    <3>2. CASE i \in 1..n
      <4>1. trail'[i] = trail[i] /\ trail[i].from \in Requests /\ trail[i].from # r
        BY <2>2, <2>4, <3>2
      <4>2. pc'[trail[i].from] = pc[trail[i].from] BY <1>2, <4>1 DEF Kept
      <4> QED BY <1>0, <2>1, <2>2, <3>2, <4>1, <4>2 DEF TrailOK
    <3> QED BY <2>2, <3>1, <3>2
  <2>6. ASSUME NEW i \in DOMAIN trail', NEW j \in DOMAIN trail', trail'[i].from = trail'[j].from
        PROVE  i = j
    BY <1>0, <2>2, <2>3, <2>4, <2>6 DEF TrailOK
  <2>7. ASSUME NEW q \in Requests, pc'[q] = "done", ~ req'[q].health
        PROVE  \E i \in DOMAIN trail' : trail'[i].from = q
    <3>1. CASE q = r BY <2>2, <2>3, <3>1
    <3>2. CASE q # r
      <4>1. pc[q] = "done" /\ ~ req[q].health BY <1>2, <2>7, <3>2 DEF Kept
      <4>2. PICK i \in 1..n : trail[i].from = q BY <1>0, <2>2, <4>1 DEF TrailOK
      <4> QED BY <2>2, <4>2
    <3> QED BY <3>1, <3>2
  <2> QED BY <2>5, <2>6, <2>7 DEF TrailOK
<1>4. CASE ~ AuditExit(r)
  <2>1. trail' = trail /\ pc[r] # "done"
    BY <1>4 DEF Streaming, Serve, Await, Handle, Outside, Front, Arrive, Health, AuditEnter, Admit,
       Reject, PolicyPass, PolicyAllow, PolicyDeny, SSEStart, SSEAnswer, SSEFail, UpstreamEmits,
       UpstreamCloses, ClientLeaves, ContextEnds, StreamRead, StreamWrite, StreamFlush, Refuse,
       Relay, UpstreamAnswer, UpstreamFail, CopyEnd
  <2>2. pc'[r] = "done" => req'[r].health
    BY <1>0, <1>4 DEF TypeOK, Goto, relay, Streaming, Serve, Await, Handle, Outside, Front,
         Arrive, Health,
       AuditEnter, Admit, Reject, PolicyPass, PolicyAllow, PolicyDeny, SSEStart, SSEAnswer,
       SSEFail, UpstreamEmits, UpstreamCloses, ClientLeaves, ContextEnds, StreamRead, StreamWrite,
       StreamFlush, Refuse, Relay, UpstreamAnswer, UpstreamFail, CopyEnd
  <2>3. ASSUME NEW i \in DOMAIN trail PROVE trail[i].from \in Requests /\ Kept(trail[i].from)
    BY <1>0, <1>1, <1>2, <2>1 DEF TrailOK, Entries
  <2>4. ASSUME NEW q \in Requests, pc'[q] = "done", ~ req'[q].health
        PROVE  pc[q] = "done" /\ ~ req[q].health
    BY <1>2, <2>2, <2>4 DEF Kept
  <2> QED BY <1>0, <2>1, <2>3, <2>4 DEF TrailOK, Kept
<1> QED BY <1>3, <1>4

\* The strengthening holds at the start
THEOREM InitInductive == Init => Inductive
<1> SUFFICES ASSUME Init PROVE Inductive OBVIOUS
<1>1. TypeOK
  <2>1. /\ body \in [Requests -> Bodies]
        /\ rec \in [Requests -> Recorders]
        /\ toolName \in [Requests -> Labels]
    BY DEF Init, Bodies, Texts, Cuts, Recorders, Labels
  <2>2. stream \in [Requests -> EventStreams] BY PathOK DEF Init, EventStreams
  <2>3. trail \in Seq(Entries) BY DEF Init
  <2> QED BY <2>1, <2>2, <2>3 DEF Init, TypeOK, Layers
<1>2. ASSUME NEW r \in Requests
      PROVE  ShapeOK(r) /\ IdentityOK(r) /\ DenialOK(r) /\ BodyOK(r) /\ StreamOK(r)
  BY DEF Init, ShapeOK, IdentityOK, DenialOK, BodyOK, StreamOK, Streaming
<1>3. ForwardsOK /\ TrailOK BY DEF Init, ForwardsOK, TrailOK
<1> QED BY <1>1, <1>2, <1>3 DEF Inductive

\* and is kept by every step
THEOREM StepInductive == Inductive /\ [Next]_vars => Inductive'
<1> SUFFICES ASSUME Inductive, [Next]_vars PROVE Inductive' OBVIOUS
<1>1. ASSUME NEW r \in Requests, Serve(r) \/ Await(r) PROVE Inductive'
  <2>1. TypeOK' /\ ForwardsOK' /\ TrailOK'
    BY <1>1, TypeStep, ForwardsStep, TrailStep DEF Inductive
  <2>2. ASSUME NEW q \in Requests
        PROVE  (ShapeOK(q) /\ IdentityOK(q) /\ DenialOK(q) /\ BodyOK(q) /\ StreamOK(q))'
    <3>1. CASE q = r BY <1>1, <3>1, ShapeStep, IdentityStep, DenialStep, BodyStep, StreamStep
    <3>2. CASE q # r
      <4>1. Kept(q) BY <1>1, <3>2, OthersKeep DEF Inductive
      <4>2. ShapeOK(q) /\ IdentityOK(q) /\ DenialOK(q) /\ BodyOK(q) /\ StreamOK(q)
        BY DEF Inductive
      <4>3. ShapeOK(q)' /\ IdentityOK(q)' /\ DenialOK(q)'
        BY <4>1, <4>2 DEF Kept, ShapeOK, IdentityOK, DenialOK
      <4>4. BodyOK(q)' BY <4>1, <4>2 DEF Kept, BodyOK
      <4>5. StreamOK(q)' BY <4>1, <4>2 DEF Kept, StreamOK, ReadEnds
      <4> QED BY <4>3, <4>4, <4>5
    <3> QED BY <3>1, <3>2
  <2> QED BY <2>1, <2>2 DEF Inductive
<1>2. CASE UNCHANGED vars
  BY <1>2 DEF vars, relay, Inductive, TypeOK, ShapeOK, IdentityOK, DenialOK, BodyOK, StreamOK,
       ReadEnds,
     ForwardsOK, TrailOK
<1> QED BY <1>1, <1>2 DEF Next, Finished

\* and so always holds.
THEOREM AlwaysInductive == SafeSpec => []Inductive
BY InitInductive, StepInductive, PTL DEF SafeSpec

\* Type correctness of the request path.
THEOREM TypeCorrect == SafeSpec => []TypeOK
<1>1. Inductive => TypeOK BY DEF Inductive
<1> QED BY <1>1, AlwaysInductive, PTL

\* The policy is the only way upstream: a governed call that proxy.forwardRequest
\* or handleSSE sends is one that default.rego allows to the owner of the token.
THEOREM PolicyIsTheOnlyWay == SafeSpec => []ForwardedWasAllowed
<1>1. Inductive => ForwardedWasAllowed
  <2> SUFFICES ASSUME Inductive, NEW f \in forwarded, Governed(req[f.from], f.text)
               PROVE  /\ f.text \in Calls
                      /\ req[f.from].owner # NoClient
                      /\ Allowed(req[f.from].owner, f.text)
    BY DEF ForwardedWasAllowed
  <2>1. f.from \in Requests BY DEF Inductive, TypeOK
  <2>2. <<req[f.from], ctx[f.from], f.text>> \in Rights BY DEF Inductive, ForwardsOK
  <2>3. ctx[f.from] \in Clients /\ f.text \in Calls /\ Allowed(ctx[f.from], f.text)
    BY <2>2 DEF Rights
  <2>4. ctx[f.from] # NoClient BY <2>3, PathOK
  <2>5. ctx[f.from] = req[f.from].owner BY <2>1, <2>4 DEF Inductive, IdentityOK
  <2> QED BY <2>3, <2>4, <2>5
<1> QED BY <1>1, AlwaysInductive, PTL

\* An entry of the audit middleware names the client that auth admitted and the
\* method that went upstream, and is a DENY for all that the gateway refused.
THEOREM EntriesAreFaithful == SafeSpec => []AuditFaithful
<1>1. Inductive => AuditFaithful
  <2> SUFFICES ASSUME Inductive, NEW i \in DOMAIN trail
               PROVE  LET e == trail[i]
                          q == req[e.from]
                      IN /\ e.client = ctx[e.from]
                         /\ sent[e.from] \in {"unauthorized", "forbidden"} => e.decision = "DENY"
                         /\ e.client = NoClient => e.decision = "DENY"
                         /\ (q.post /\ q.json /\ q.cut = "no") =>
                               \A f \in forwarded :
                                  (f.from = e.from /\ f.text \in Calls) => e.tool = f.text.method
    BY DEF AuditFaithful
  <2> DEFINE e == trail[i]
  <2>1. e \in Entries BY ElementOfSeq DEF Inductive, TypeOK
  <2>2. e.from \in Requests BY <2>1 DEF Entries
  <2>3. /\ pc[e.from] = "done" /\ e.client = ctx[e.from] /\ e.tool = toolName[e.from]
        /\ (e.client = NoClient \/ sent[e.from] \in {"unauthorized", "forbidden"})
               => e.decision = "DENY"
    BY DEF Inductive, TrailOK
  <2>4. ASSUME NEW f \in forwarded, f.from = e.from, f.text \in Calls,
               req[e.from].post, req[e.from].json, req[e.from].cut = "no"
        PROVE  e.tool = f.text.method
    <3>1. f.text = req[e.from].text BY <2>4 DEF Inductive, ForwardsOK
    <3> QED BY <2>2, <2>3, <2>4, <3>1 DEF Inductive, BodyOK
  <2> QED BY <2>3, <2>4
<1> QED BY <1>1, AlwaysInductive, PTL

\* The audit middleware records each request that is over once, and none before
\* its handler has returned.
THEOREM OneEntryEach == SafeSpec => []AuditedOnce
<1>1. Inductive => AuditedOnce
  <2> SUFFICES ASSUME Inductive, NEW r \in Requests
               PROVE  Cardinality({i \in DOMAIN trail : trail[i].from = r})
                        = IF pc[r] = "done" /\ ~ req[r].health THEN 1 ELSE 0
    BY DEF AuditedOnce
  <2>1. CASE pc[r] = "done" /\ ~ req[r].health
    <3>1. PICK i \in DOMAIN trail : trail[i].from = r BY <2>1 DEF Inductive, TrailOK
    <3>2. {j \in DOMAIN trail : trail[j].from = r} = {i} BY <3>1 DEF Inductive, TrailOK
    <3> QED BY <2>1, <3>2, FS_Singleton
  <2>2. CASE ~ (pc[r] = "done" /\ ~ req[r].health)
    <3>1. {j \in DOMAIN trail : trail[j].from = r} = {} BY <2>2 DEF Inductive, TrailOK
    <3> QED BY <2>2, <3>1, FS_EmptySet
  <2> QED BY <2>1, <2>2
<1> QED BY <1>1, AlwaysInductive, PTL

\* handleSSE waits for upstream only when its client has all that it has read.
THEOREM EventsArePassedOn == SafeSpec => []NoEventHeldBack
<1>1. Inductive => NoEventHeldBack BY DEF Inductive, StreamOK, NoEventHeldBack
<1> QED BY <1>1, AlwaysInductive, PTL

\* handleSSE delivers the last event of a stream, too, though it may come with
\* the error that ends the reading.
THEOREM StreamsAreWhole == SafeSpec => []StreamsWhole
<1>1. Inductive => StreamsWhole BY DEF Inductive, StreamOK, StreamsWhole
<1> QED BY <1>1, AlwaysInductive, PTL

\* An entry appended to the trail is one appended to the log of Mediation.
LEMMA AppendLogs ==
    ASSUME TypeOK, NEW e \in Entries, trail' = Append(trail, e)
    PROVE  Log' = Append(Log, [from |-> e.from, client |-> e.client, decision |-> e.decision])
<1> DEFINE n == Len(trail)
           Short(x) == [from |-> x.from, client |-> x.client, decision |-> x.decision]
           T == {Short(x) : x \in Entries}
<1>1. /\ DOMAIN trail = 1..n /\ DOMAIN trail' = 1..(n + 1) /\ n \in Nat
      /\ \A i \in 1..n : trail'[i] = trail[i] /\ trail[i] \in Entries
      /\ trail'[n + 1] = e
  BY AppendProperties, ElementOfSeq DEF TypeOK
<1>2. Log = [i \in 1..n |-> Short(trail[i])] /\ Log' = [i \in 1..(n + 1) |-> Short(trail'[i])]
  BY <1>1 DEF Log
<1>3. Log \in Seq(T) /\ Len(Log) = n
  <2>1. \A i \in 1..n : Short(trail[i]) \in T BY <1>1
  <2> HIDE DEF T, Short
  <2>2. Log \in [1..n -> T] BY <1>2, <2>1
  <2> QED BY <1>1, <2>2, SeqDef, LenProperties
<1>4. Short(e) \in T OBVIOUS
<1> HIDE DEF T, n
<1>5. /\ Append(Log, Short(e)) \in Seq(T)
      /\ DOMAIN Append(Log, Short(e)) = 1..(n + 1)
      /\ Append(Log, Short(e))[n + 1] = Short(e)
      /\ \A i \in 1..n : Append(Log, Short(e))[i] = Log[i]
  <2> HIDE DEF Short
  <2> QED BY <1>1, <1>3, <1>4, AppendProperties
<1>6. Append(Log, Short(e)) = [i \in 1..(n + 1) |-> Append(Log, Short(e))[i]]
  <2> DEFINE a == Append(Log, Short(e))
  <2> HIDE DEF Short
  <2>1. a \in Seq(T) /\ DOMAIN a = 1..(n + 1) BY <1>5
  <2> HIDE DEF a
  <2>2. a \in [DOMAIN a -> T] BY <2>1, LenProperties
  <2>3. a = [i \in 1..(n + 1) |-> a[i]] BY <2>1, <2>2
  <2> QED BY <2>3 DEF a
<1>7. \A i \in 1..(n + 1) : Short(trail'[i]) = Append(Log, Short(e))[i]
  BY <1>1, <1>2, <1>5
<1> QED BY <1>2, <1>6, <1>7

\* Every step of the request path is one of Mediation, or none of its business.
LEMMA StepsImplement ==
    ASSUME Inductive, NEW r \in Requests, Serve(r) \/ Await(r)
    PROVE  Contract!Next \/ UNCHANGED Contract!vars
<1>0. /\ TypeOK /\ TypeOK' /\ ShapeOK(r) /\ IdentityOK(r) /\ ForwardsOK /\ ForwardsOK'
  BY TypeStep, ForwardsStep DEF Inductive
<1>a. Stage \in [Requests -> {"new", "open", "over"}] BY DEF Stage
<1>b. UNCHANGED trail => UNCHANGED Log BY DEF Log
<1> USE DEF Goto, relay, Front
<1>1. ASSUME NEW q \in Shapes, Arrive(r, q) PROVE Contract!Arrive(r)
  <2>1. Stage[r] = "new" /\ Stage' = [Stage EXCEPT ![r] = "open"]
    BY <1>0, <1>1 DEF Arrive, TypeOK, Stage
  <2> QED BY <1>1, <1>b, <2>1 DEF Arrive, Contract!Arrive
<1>2. CASE Health(r)
  <2>1. Stage[r] = "open" /\ Stage' = [Stage EXCEPT ![r] = "over"]
    BY <1>0, <1>2 DEF Health, TypeOK, Stage
  <2>2. req[r].health /\ ctx[r] = NoClient /\ UNCHANGED <<req, ctx, forwarded, Log>>
    BY <1>0, <1>2, <1>b DEF Health, IdentityOK
  <2> QED BY <2>1, <2>2 DEF Contract!Excuse, Contract!Next
<1>3. CASE Admit(r)
  <2>1. Stage[r] = "open" /\ Stage' = Stage BY <1>0, <1>3 DEF Admit, TypeOK, Stage
  <2>2. /\ ctx[r] = NoClient /\ ctx' = [ctx EXCEPT ![r] = req[r].owner]
        /\ UNCHANGED <<req, forwarded, Log>>
    BY <1>0, <1>3, <1>b DEF Admit, IdentityOK
  <2> QED BY <2>1, <2>2 DEF Contract!Identify, Contract!Next
<1>4. CASE SSEStart(r) \/ Relay(r)
  <2>1. Stage[r] = "open" /\ Stage' = Stage
    BY <1>0, <1>4 DEF SSEStart, Relay, TypeOK, Stage
  <2>2. ctx[r] # NoClient BY <1>0, <1>4 DEF SSEStart, Relay, IdentityOK
  <2>3. \A u \in forwarded : u.from # r
    BY <1>0, <1>4 DEF SSEStart, Relay, ForwardsOK, Beyond, Streaming
  <2>4. /\ forwarded' = forwarded \cup {[from |-> r, text |-> body[r].text]}
        /\ UNCHANGED <<req, ctx, trail>>
    BY <1>4 DEF SSEStart, Relay, Forward
  <2>5. body[r].text \in Texts BY <1>0 DEF TypeOK, Bodies
  <2>6. <<req[r], ctx[r], body[r].text>> \in Rights
    <3> DEFINE f == [from |-> r, text |-> body[r].text]
    <3>1. f \in forwarded' BY <2>4
    <3>2. <<req'[f.from], ctx'[f.from], f.text>> \in Rights BY <1>0, <3>1 DEF ForwardsOK
    <3> QED BY <2>4, <3>2
  <2>7. Contract!HandOver(r)
    BY <1>b, <2>1, <2>2, <2>3, <2>4, <2>5, <2>6 DEF Contract!HandOver
  <2> QED BY <2>7 DEF Contract!Next
<1>5. CASE AuditExit(r)
  <2> DEFINE e == [from |-> r, client |-> rec[r].client, tool |-> toolName[r],
                   decision |-> Decision(rec[r].status)]
  <2>1. Stage[r] = "open" /\ Stage' = [Stage EXCEPT ![r] = "over"]
    BY <1>0, <1>5 DEF AuditExit, TypeOK, Stage
  <2>2. e \in Entries BY <1>0 DEF TypeOK, Entries, Recorders, Decision
  <2>3. Log' = Append(Log, [from |-> e.from, client |-> e.client, decision |-> e.decision])
    <3>1. trail' = Append(trail, e) BY <1>5 DEF AuditExit
    <3> HIDE DEF e
    <3> QED BY <1>0, <2>2, <3>1, AppendLogs
  <2>4. /\ e.from = r /\ e.client = ctx[r] /\ e.decision \in {"ALLOW", "DENY"}
        /\ ctx[r] = NoClient => e.decision = "DENY"
    BY <1>0, <1>5 DEF AuditExit, IdentityOK, DenialOK, Inductive, Decision
  <2>5. UNCHANGED <<req, ctx, forwarded>> BY <1>5 DEF AuditExit
  <2> HIDE DEF e
  <2>6. Log' = Append(Log, [from |-> r, client |-> ctx[r], decision |-> e.decision])
    BY <2>3, <2>4
  <2> QED BY <2>1, <2>4, <2>5, <2>6 DEF Contract!Finish, Contract!Next
<1>6. CASE ~ (Health(r) \/ Admit(r) \/ SSEStart(r) \/ Relay(r) \/ AuditExit(r)
              \/ \E q \in Shapes : Arrive(r, q))
  <2> USE <1>6 DEF Serve, Await, Handle, Outside, AuditEnter, Reject, PolicyPass, PolicyAllow,
          PolicyDeny, SSEAnswer, SSEFail, UpstreamEmits, UpstreamCloses, ClientLeaves, ContextEnds,
          StreamRead, StreamWrite, StreamFlush, Refuse, UpstreamAnswer, UpstreamFail, CopyEnd,
          Streaming
  <2>1. UNCHANGED <<req, ctx, forwarded, trail>> OBVIOUS
  <2>2. pc[r] \notin {"new", "done"} /\ pc'[r] \notin {"new", "done"} BY <1>0 DEF TypeOK
  <2>3. \A q \in Requests \ {r} : pc'[q] = pc[q] BY <1>0, OthersKeep DEF Kept
  <2>4. Stage' = Stage BY <2>2, <2>3 DEF Stage
  <2> QED BY <1>b, <2>1, <2>4 DEF Contract!vars
<1> QED
  BY <1>1, <1>2, <1>3, <1>4, <1>5, <1>6 DEF Contract!Next

\* All the layers together keep the promise of Mediation.
THEOREM ImplementsMediation == SafeSpec => PipelineContract
<1>1. Init => Contract!Init BY DEF Init, Contract!Init, Stage, Log
<1>2. Inductive /\ [Next]_vars => [Contract!Next]_(Contract!vars)
  <2>1. CASE UNCHANGED vars BY <2>1 DEF vars, Contract!vars, Stage, Log
  <2>2. ASSUME Inductive, NEW r \in Requests, Serve(r) \/ Await(r)
        PROVE  Contract!Next \/ UNCHANGED Contract!vars
    BY <2>2, StepsImplement
  <2> QED BY <2>1, <2>2 DEF Next, Finished
<1> QED BY <1>1, <1>2, AlwaysInductive, PTL DEF SafeSpec, PipelineContract, Contract!Spec

==========================================================================
