-------------------------- MODULE Deployment_proofs --------------------------
(* Theorems of Deployment, for any values of its constants: the gateway     *)
(* with its cache implements System, so all that is proved of System holds   *)
(* of it.                                                                    *)
EXTENDS Deployment, System_proofs

\* The theorems about token verification, of Deployment's variables.  KP defines
\* again what K does.
KP == INSTANCE TokenAuth_proofs WITH pc <- authpc

LEMMA TokenAssumption == KP!ConstantsOK
BY SystemOK, DeploymentOK DEF KP!ConstantsOK

LEMMA SameCount == \A S : K!Cardinality(S) = KP!Cardinality(S)
BY DEF K!Cardinality, KP!Cardinality, K!IsFiniteSet, KP!IsFiniteSet

LEMMA SameVerification ==
    ASSUME NEW r \in Requests
    PROVE  /\ K!Handle(r) <=> KP!Handle(r)
           /\ \A t : K!Arrive(r, t) <=> KP!Arrive(r, t)
BY SameCount DEF K!Handle, KP!Handle, K!Arrive, KP!Arrive, K!RejectHeader, KP!RejectHeader,
       K!ReadCache, KP!ReadCache, K!CheckEntry, KP!CheckEntry, K!DeleteEntry, KP!DeleteEntry,
       K!Introspect, KP!Introspect, K!IntrospectFails, KP!IntrospectFails, K!ComputeLife,
       KP!ComputeLife, K!Store, KP!Store, K!Kept, KP!Kept, K!Oldest, KP!Oldest, K!Expired,
       KP!Expired, K!Lifetime, KP!Lifetime, K!HydraAnswer, KP!HydraAnswer, K!Decide, KP!Decide,
       K!Never, KP!Never, K!Idle, KP!Idle

LEMMA SameWorld ==
    /\ K!Tick <=> KP!Tick
    /\ \A t : K!Revoke(t) <=> KP!Revoke(t)
BY DEF K!Tick, KP!Tick, K!Revoke, KP!Revoke, K!Holding, KP!Holding, K!Never, KP!Never

\* What KP's gate sees is verdict.
LEMMA SameGate ==
    ASSUME verdict = Verdict, verdict' = Verdict', KP!Gate!Next \/ UNCHANGED KP!Gate!vars
    PROVE  T!Next \/ UNCHANGED T!vars
<1>1. verdict = [r \in Requests |-> IF authpc[r] \in KP!Idle THEN authpc[r] ELSE "pending"]
  BY DEF Verdict, K!Idle, KP!Idle
<1>2. verdict' = [r \in Requests |-> IF authpc[r] \in KP!Idle THEN authpc[r] ELSE "pending"]'
  BY DEF Verdict, K!Idle, KP!Idle
<1> QED
  BY <1>1, <1>2 DEF KP!Gate!Next, KP!Gate!vars, KP!Gate!Tick, KP!Gate!Revoke, KP!Gate!Arrive,
     KP!Gate!Reject, KP!Gate!Admit, KP!Gate!Trusted, KP!Gate!Never, T!Next, T!vars, T!Tick,
     T!Revoke, T!Arrive, T!Reject, T!Admit, T!Trusted, T!Never

\* In the steps of the gate, a request is admitted by an Admit of its own and
\* rejected by a Reject of its own.
LEMMA OwnVerdict ==
    ASSUME ClockOK, NEW r \in Requests, verdict[r] = "pending", T!Next \/ UNCHANGED T!vars
    PROVE  /\ verdict'[r] = "admitted" => T!Admit(r)
           /\ verdict'[r] = "rejected" => T!Reject(r)
<1>1. verdict \in [Requests -> {"none", "pending", "admitted", "rejected"}] BY DEF ClockOK
<1>2. CASE UNCHANGED verdict BY <1>2
<1>3. CASE T!Tick \/ \E t \in Tokens : T!Revoke(t) BY <1>3 DEF T!Tick, T!Revoke
<1>4. ASSUME NEW q \in Requests, NEW t, T!Arrive(q, t)
      PROVE  verdict'[r] \notin {"admitted", "rejected"}
  BY <1>1, <1>4 DEF T!Arrive
<1>5. ASSUME NEW q \in Requests, T!Reject(q)
      PROVE  /\ verdict'[r] # "admitted"
             /\ verdict'[r] = "rejected" => T!Reject(r)
  BY <1>1, <1>5 DEF T!Reject
<1>6. ASSUME NEW q \in Requests, T!Admit(q)
      PROVE  /\ verdict'[r] # "rejected"
             /\ verdict'[r] = "admitted" => T!Admit(r)
  BY <1>1, <1>6 DEF T!Admit
<1> QED BY <1>2, <1>3, <1>4, <1>5, <1>6 DEF T!Next, T!vars

\* The invariant: System's, TokenAuth's, and what ties the two together.
Together == Whole /\ KP!Inductive /\ Agreement

\* A step inside the auth middleware is nothing to the rest of the gateway.
LEMMA InnerStep ==
    ASSUME NEW r \in Requests, K!Handle(r), KP!TypeOK, authpc'[r] \notin K!Idle
    PROVE  UNCHANGED <<clock, revokedAt, token, client>> /\ Verdict' = Verdict
<1>1. UNCHANGED <<clock, revokedAt, token, client>>
  BY DEF KP!TypeOK, K!Handle, K!RejectHeader, K!ReadCache, K!CheckEntry, K!DeleteEntry, K!Introspect,
         K!IntrospectFails, K!ComputeLife, K!Store, K!Decide, K!Idle
<1>2. authpc[r] \notin K!Idle /\ \A q \in Requests \ {r} : authpc'[q] = authpc[q]
  BY DEF KP!TypeOK, K!Handle, K!RejectHeader, K!ReadCache, K!CheckEntry, K!DeleteEntry, K!Introspect,
         K!IntrospectFails, K!ComputeLife, K!Store, K!Decide, K!Idle
<1>3. Verdict' = Verdict BY <1>2 DEF Verdict
<1> QED BY <1>1, <1>3

\* Every step of the deployed gateway is a step of TokenAuth, does not touch it,
\* or is a crash.
LEMMA VerificationSteps ==
    ASSUME DeployedNext
    PROVE  KP!Next \/ UNCHANGED KP!vars \/ Die
<1>1. ASSUME NEW r \in Requests, EnterAuth(r) PROVE KP!Next
  <2>1. PICK t \in Presents(req[r]) : K!Arrive(r, t) BY <1>1 DEF EnterAuth
  <2>2. t \in Tokens \cup {NoToken} BY DEF Presents
  <2> QED BY <2>1, <2>2, SameVerification DEF KP!Next
<1>2. ASSUME NEW r \in Requests, Verify(r) PROVE KP!Next
  BY <1>2, SameVerification DEF Verify, KP!Next
<1>3. ASSUME NEW r \in Requests, Elsewhere(r) PROVE UNCHANGED <<gate, verification>>
  BY <1>3 DEF Elsewhere, Arrive, NewEntry, WriteLine, AppendEntry, Pipeline
<1>4. CASE Reading
  BY <1>4 DEF Reading, ListAuditLogs, KP!vars, gate, verification
<1>5. CASE Outer BY <1>5, SameWorld DEF Outer, KP!Next
<1>6. UNCHANGED <<gate, verification>> => UNCHANGED KP!vars BY DEF gate, verification, KP!vars
<1> QED BY <1>1, <1>2, <1>3, <1>4, <1>5, <1>6 DEF DeployedNext

\* A crash leaves an empty cache and requests that hold nothing, which is no
\* harm to the invariant of TokenAuth.
LEMMA DieKeeps ==
    ASSUME KP!Inductive, Die
    PROVE  KP!Inductive'
<1> USE TokenAssumption DEF KP!ConstantsOK
<1>1. UNCHANGED <<clock, revokedAt, token, client>> BY DEF Die, Crash, gate
<1>2. /\ cache' = [t \in {} |-> NoEntry]
      /\ authpc' = [r \in Requests |-> IF authpc[r] \in K!Idle THEN authpc[r] ELSE "start"]
      /\ got' = [r \in Requests |-> NoEntry]
      /\ ans' = [r \in Requests |-> NoAnswer]
      /\ life' = [r \in Requests |-> 0]
  BY DEF Die
<1>3. DOMAIN cache' = {} /\ IsFiniteSet({}) /\ Cardinality({}) = 0 BY <1>2, FS_EmptySet
<1>4. KP!TypeOK'
  <2>1. KP!IsFiniteSet(DOMAIN cache') BY <1>3 DEF IsFiniteSet, KP!IsFiniteSet
  <2> QED BY <1>1, <1>2, <1>3, <2>1 DEF KP!Inductive, KP!TypeOK, KP!Idle, K!Idle, KP!Never
<1>5. KP!CacheBounded'
  <2>1. KP!Cardinality({}) = 0 BY <1>3 DEF Cardinality, KP!Cardinality
  <2> QED BY <1>3, <2>1 DEF KP!CacheBounded
<1>6. KP!CacheFresh' BY <1>3 DEF KP!CacheFresh
<1>7. ASSUME NEW r \in Requests PROVE KP!Held(r)'
  <2>1. authpc'[r] \in KP!Idle \cup {"start"} BY <1>2 DEF K!Idle, KP!Idle
  <2> QED BY <2>1 DEF KP!Held, KP!HeldToken, KP!HeldEntry, KP!HeldAnswer, KP!HeldLife,
                      KP!Working, KP!Holding, KP!Idle
<1> QED BY <1>4, <1>5, <1>6, <1>7 DEF KP!Inductive

\* TokenAuth's invariant is kept in the deployed gateway.
LEMMA VerificationKeeps ==
    ASSUME KP!Inductive, [DeployedNext]_<<vars, verification>>
    PROVE  KP!Inductive'
<1>1. UNCHANGED <<vars, verification>> => UNCHANGED KP!vars
  BY DEF vars, gate, verification, KP!vars
<1>2. CASE Die BY <1>2, DieKeeps
<1>3. CASE KP!Next \/ UNCHANGED KP!vars BY <1>3, TokenAssumption, KP!StepInductive
<1> QED BY <1>1, <1>2, <1>3, VerificationSteps

\* verdict stays what TokenGate would see.
LEMMA VerdictKeeps ==
    ASSUME Together, DeployedNext
    PROVE  verdict' = Verdict'
<1>1. verdict = Verdict BY DEF Together, Agreement
<1>2. UNCHANGED <<verdict, authpc>> => verdict' = Verdict' BY <1>1 DEF Verdict
<1>3. ASSUME NEW r \in Requests, EnterAuth(r) \/ Verify(r) PROVE verdict' = Verdict'
  BY <1>3 DEF EnterAuth, Verify
<1>4. ASSUME NEW r \in Requests, Elsewhere(r) PROVE UNCHANGED <<verdict, authpc>>
  BY <1>4 DEF Elsewhere, Arrive, NewEntry, WriteLine, AppendEntry, Pipeline, gate, verification
<1>5. CASE Reading BY <1>2, <1>5 DEF Reading, ListAuditLogs, gate, verification
<1>6. CASE Outer BY <1>2, <1>6 DEF Outer, K!Tick, K!Revoke
<1>7. CASE Die
  <2>1. verdict' = verdict BY <1>7 DEF Die, Crash, gate
  <2>2. Verdict' = Verdict BY <1>7 DEF Die, Verdict, K!Idle
  <2> QED BY <1>1, <2>1, <2>2
<1> QED BY <1>2, <1>3, <1>4, <1>5, <1>6, <1>7 DEF DeployedNext

\* The steps of token verification, seen through verdict, are TokenGate's.
LEMMA GateSees ==
    ASSUME Together, DeployedNext, KP!Next \/ UNCHANGED KP!vars
    PROVE  T!Next \/ UNCHANGED T!vars
<1>1. verdict = Verdict /\ verdict' = Verdict' BY VerdictKeeps DEF Together, Agreement
<1>2. KP!Gate!Next \/ UNCHANGED KP!Gate!vars
  BY TokenAssumption, KP!StepMaps DEF Together
<1> QED BY <1>1, <1>2, SameGate

\* Every step of the deployed gateway is one of System, or nothing to it.
LEMMA DeployedSteps ==
    ASSUME Together, DeployedNext
    PROVE  Next \/ UNCHANGED vars
<1>1. verdict = Verdict /\ verdict' = Verdict' /\ ClockOK
  BY VerdictKeeps DEF Together, Agreement, Whole, Meeting
<1>2. ASSUME NEW r \in Requests \ dead, EnterAuth(r) PROVE AuditEnter(r)
  <2>1. PICK t \in Presents(req[r]) : K!Arrive(r, t) BY <1>2 DEF EnterAuth
  <2>2. verdict[r] # "pending" BY <1>1, <2>1 DEF K!Arrive, K!Idle, Verdict
  <2>3. verdict' = [verdict EXCEPT ![r] = "pending"]
    BY <1>1, <2>1 DEF K!Arrive, K!Idle, Verdict, Together, KP!Inductive, KP!TypeOK
  <2>4. T!Arrive(r, t) BY <2>1, <2>2, <2>3 DEF T!Arrive, K!Arrive
  <2> QED BY <1>2, <2>1, <2>4 DEF EnterAuth, AuditEnter
<1>3. ASSUME NEW r \in Requests \ dead, Verify(r)
      PROVE  Admit(r) \/ Reject(r) \/ UNCHANGED vars
  <2>1. KP!TypeOK BY DEF Together, KP!Inductive
  <2>2. CASE authpc'[r] \notin K!Idle
    <3>1. UNCHANGED gate BY <1>1, <1>3, <2>1, <2>2, InnerStep DEF Verify, gate
    <3>2. UNCHANGED path BY <1>3, <2>2 DEF Verify, K!Idle
    <3> QED BY <1>3, <3>1, <3>2 DEF Verify, vars
  <2>3. CASE authpc'[r] \in K!Idle
    <3>1. verdict[r] = "pending"
      <4>1. authpc[r] \notin K!Idle
        BY <1>3 DEF Verify, K!Handle, K!RejectHeader, K!ReadCache, K!CheckEntry, K!DeleteEntry,
                    K!Introspect, K!IntrospectFails, K!ComputeLife, K!Store, K!Idle
      <4> QED BY <1>1, <4>1 DEF Verdict
    <3>2. T!Next \/ UNCHANGED T!vars
      <4>1. KP!Next BY <1>3, SameVerification DEF Verify, KP!Next
      <4> QED BY <4>1, GateSees
    <3>3. verdict'[r] = authpc'[r] BY <1>1, <2>3 DEF Verdict
    <3>4. /\ authpc'[r] = "admitted" => T!Admit(r)
          /\ authpc'[r] = "rejected" => T!Reject(r)
      BY <1>1, <3>1, <3>2, <3>3, OwnVerdict
    <3> QED BY <1>3, <2>3, <3>4 DEF Verify, Admit, Reject
  <2> QED BY <2>2, <2>3
<1>4. ASSUME NEW r \in Requests \ dead, Elsewhere(r) PROVE Next
  BY <1>4 DEF Elsewhere, Next
<1>5. CASE Reading BY <1>5 DEF Reading, Next
<1>6. CASE Outer
  <2>1. K!Tick => T!Tick BY <1>6 DEF Outer, K!Tick, T!Tick
  <2>2. \A t : K!Revoke(t) => T!Revoke(t)
    BY <1>6 DEF Outer, K!Revoke, T!Revoke, K!Never, T!Never
  <2> QED BY <1>6, <2>1, <2>2 DEF Outer, World, Next
<1>7. CASE Die BY <1>7 DEF Die, Next
<1> QED BY <1>2, <1>3, <1>4, <1>5, <1>6, <1>7 DEF DeployedNext, Next

\* Whom the gate has admitted, it has admitted as the owner of the token.
LEMMA AgreementKeeps ==
    ASSUME Together, DeployedNext
    PROVE  Agreement'
<1>1. verdict' = Verdict' BY VerdictKeeps
<1>2. T!Next \/ UNCHANGED T!vars
  <2>1. CASE Next BY <2>1, GateSteps
  <2>2. CASE UNCHANGED vars BY <2>2 DEF vars, gate, T!vars
  <2> QED BY <2>1, <2>2, DeployedSteps
<1>3. \A r \in Requests : verdict'[r] = "admitted" => client'[r] = Owner[token'[r]]
  <2>1. /\ verdict \in [Requests -> {"none", "pending", "admitted", "rejected"}]
        /\ token \in [Requests -> Tokens \cup {NoToken}]
        /\ client \in [Requests -> {NoClient} \cup {Owner[t] : t \in Tokens}]
        /\ \A r \in Requests : verdict[r] = "admitted" => client[r] = Owner[token[r]]
    BY DEF Together, Agreement, Whole, Meeting, ClockOK, KP!Inductive, KP!TypeOK
  <2>2. CASE UNCHANGED <<verdict, token, client>> BY <2>1, <2>2
  <2>3. ASSUME NEW r \in Requests, NEW t, T!Arrive(r, t)
        PROVE \A q \in Requests : verdict'[q] = "admitted" => client'[q] = Owner[token'[q]]
    BY <2>1, <2>3 DEF T!Arrive
  <2>4. ASSUME NEW r \in Requests, T!Admit(r) \/ T!Reject(r)
        PROVE \A q \in Requests : verdict'[q] = "admitted" => client'[q] = Owner[token'[q]]
    BY <2>1, <2>4 DEF T!Admit, T!Reject
  <2> QED BY <1>2, <2>2, <2>3, <2>4 DEF T!Next, T!vars, T!Tick, T!Revoke
<1> QED BY <1>1, <1>3 DEF Agreement

\* The invariant holds at the start
THEOREM InitTogether == DeployedInit => Together
<1> SUFFICES ASSUME DeployedInit PROVE Together OBVIOUS
<1>1. Whole BY InitWhole DEF DeployedInit
<1>2. KP!Init BY DEF DeployedInit, K!Init, KP!Init, K!Never, KP!Never
<1>3. KP!Inductive BY <1>2, TokenAssumption, KP!InitInductive
<1>4. Agreement BY DEF DeployedInit, Init, T!Init, K!Init, Agreement, Verdict, K!Idle
<1> QED BY <1>1, <1>3, <1>4 DEF Together

\* and is kept by every step,
THEOREM StepTogether == Together /\ [DeployedNext]_<<vars, verification>> => Together'
<1> SUFFICES ASSUME Together, [DeployedNext]_<<vars, verification>> PROVE Together' OBVIOUS
<1>1. Whole'
  <2>1. [Next]_vars BY DeployedSteps
  <2> QED BY <2>1, StepWhole DEF Together
<1>2. KP!Inductive' BY VerificationKeeps DEF Together
<1>3. Agreement'
  <2>1. CASE UNCHANGED <<vars, verification>>
    BY <2>1 DEF vars, gate, verification, Together, Agreement, Verdict
  <2> QED BY <2>1, AgreementKeeps
<1> QED BY <1>1, <1>2, <1>3 DEF Together

\* and so always holds.
THEOREM AlwaysTogether == Deployed => []Together
BY InitTogether, StepTogether, PTL DEF Deployed

\* With the cache that auth/cache.go has, the gateway does nothing that it does
\* not do with the token verification that TokenGate promises.
THEOREM ImplementsSystem == Deployed => Spec
<1>1. DeployedInit => Init BY DEF DeployedInit
<1>2. Together /\ [DeployedNext]_<<vars, verification>> => [Next]_vars
  BY DeployedSteps
<1> QED BY <1>1, <1>2, AlwaysTogether, PTL DEF Deployed, Spec

\* So the middleware of auth/middleware.go keeps its promise inside the gateway,
THEOREM KeepsTheGate == Deployed => TokenContract
BY ImplementsSystem, ImplementsComponents, PTL DEF TokenContract

\* and System's properties hold of it: on revocation,
THEOREM CachedRevocationWorks == Deployed => []RevocationTakesEffect
BY ImplementsSystem, RevocationWorks, PTL

\* on what ListAuditLogs shows,
THEOREM CachedOperatorIsTold == Deployed => []OperatorSeesTheTruth
BY ImplementsSystem, OperatorIsTold, PTL

\* and on the lines in the file.
THEOREM CachedCallsAreAccounted == Deployed => []CallsAccounted
BY ImplementsSystem, CallsAreAccounted, PTL

\* Who policy and audit take a request for is who Hydra said its token is of.
THEOREM IdentityIsTrue == Deployed => []IdentityIsHydras
<1>1. Together => IdentityIsHydras
  <2> SUFFICES ASSUME Together, NEW r \in Requests, ctx[r] # NoClient PROVE ctx[r] = client[r]
    BY DEF IdentityIsHydras
  <2>1. verdict[r] = "admitted" /\ token[r] \in Tokens /\ token[r] \in Presents(req[r])
    BY DEF Together, Whole, Meeting, GateOK
  <2>2. client[r] = Owner[token[r]] BY <2>1 DEF Together, Agreement
  <2>3. ctx[r] = req[r].owner BY DEF Together, Whole, GP!Inductive, GP!IdentityOK
  <2> QED BY <2>1, <2>2, <2>3, SystemOK DEF Presents
<1> QED BY <1>1, AlwaysTogether, PTL
=============================================================================
