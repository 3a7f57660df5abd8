------------------------- MODULE TokenAuth_proofs -------------------------
(* Theorems of TokenAuth, for every number of requests and tokens, every   *)
(* cache size, ttl and delay.                                              *)
EXTENDS TokenAuth, FiniteSetTheorems, TLAPS

\* Whatever Set keeps, it keeps from the cache, and adding the token it stores
\* does not exceed the limit.
LEMMA KeptFits ==
    ASSUME Inductive, NEW t \in Tokens, NEW keep \in Kept(t)
    PROVE  /\ keep \subseteq DOMAIN cache
           /\ IsFiniteSet(keep \cup {t})
           /\ Cardinality(keep \cup {t}) <= MaxEntries
<1> DEFINE live == {k \in DOMAIN cache : ~ Expired(cache[k])}
<1> USE ConstantsOK
<1>1. /\ IsFiniteSet(DOMAIN cache)
      /\ Cardinality(DOMAIN cache) \in Nat
      /\ Cardinality(DOMAIN cache) <= MaxEntries
  BY FS_CardinalityType DEF Inductive, TypeOK, CacheBounded
<1>2. /\ IsFiniteSet(live)
      /\ Cardinality(live) \in Nat
      /\ Cardinality(live) <= MaxEntries
  BY <1>1, FS_Subset, FS_CardinalityType, live \subseteq DOMAIN cache
<1>3. CASE t \in DOMAIN cache \/ Cardinality(DOMAIN cache) < MaxEntries
  <2>1. keep = DOMAIN cache
    BY <1>3 DEF Kept
  <2>2. CASE t \in DOMAIN cache
    BY <2>1, <2>2, <1>1, keep \cup {t} = DOMAIN cache
  <2>3. CASE t \notin DOMAIN cache
    <3>1. Cardinality(keep \cup {t}) = Cardinality(keep) + 1 /\ IsFiniteSet(keep \cup {t})
      BY <2>1, <2>3, <1>1, FS_AddElement
    <3> QED BY <3>1, <2>1, <2>3, <1>1, <1>3
  <2> QED BY <2>2, <2>3
<1>4. CASE ~ (t \in DOMAIN cache \/ Cardinality(DOMAIN cache) < MaxEntries)
  <2>1. CASE Cardinality(live) < MaxEntries
    <3>1. keep = live
      BY <1>4, <2>1 DEF Kept
    <3>2. t \notin live
      BY <1>4
    <3>3. Cardinality(keep \cup {t}) = Cardinality(keep) + 1 /\ IsFiniteSet(keep \cup {t})
      BY <3>1, <3>2, <1>2, FS_AddElement
    <3> QED BY <3>1, <3>3, <2>1, <1>2
  <2>2. CASE ~ (Cardinality(live) < MaxEntries)
    <3>1. PICK k \in Oldest(live) : keep = live \ {k}
      BY <1>4, <2>2 DEF Kept
    <3>2. k \in live
      BY <3>1 DEF Oldest
    <3>3. IsFiniteSet(keep) /\ Cardinality(keep) = Cardinality(live) - 1
      BY <3>1, <3>2, <1>2, FS_RemoveElement
    <3>4. t \notin keep
      BY <1>4, <3>1
    <3>5. Cardinality(keep \cup {t}) = Cardinality(keep) + 1 /\ IsFiniteSet(keep \cup {t})
      BY <3>3, <3>4, FS_AddElement
    <3> QED BY <3>1, <3>3, <3>5, <1>2
  <2> QED BY <2>1, <2>2
<1> QED BY <1>3, <1>4

\* A request that takes no step keeps what it holds, as long as neither the
\* clock nor Hydra moves.
LEMMA HeldFrame ==
    ASSUME NEW q \in Requests, Held(q), UNCHANGED <<clock, revokedAt>>,
           pc'[q] = pc[q], token'[q] = token[q], got'[q] = got[q],
           ans'[q] = ans[q], life'[q] = life[q]
    PROVE  Held(q)'
BY DEF Held, HeldToken, HeldEntry, HeldAnswer, HeldLife, Fresh

\* A cache that a step leaves alone, or only removes keys from, stays fresh.
LEMMA CacheFrame ==
    ASSUME Inductive, UNCHANGED <<clock, revokedAt>>, NEW S \in SUBSET DOMAIN cache,
           cache' = [t \in S |-> cache[t]]
    PROVE  /\ CacheFresh' /\ CacheBounded'
           /\ DOMAIN cache' \subseteq Tokens /\ IsFiniteSet(DOMAIN cache')
           /\ cache' \in [DOMAIN cache' -> Entries]
<1>1. DOMAIN cache' = S /\ \A t \in S : cache'[t] = cache[t]
  OBVIOUS
<1>2. CacheFresh'
  BY <1>1 DEF CacheFresh, Fresh, Inductive
<1>3. IsFiniteSet(S) /\ Cardinality(S) <= Cardinality(DOMAIN cache)
  BY FS_Subset DEF Inductive, TypeOK
<1>4. CacheBounded'
  <2>1. Cardinality(S) \in Nat /\ Cardinality(DOMAIN cache) \in Nat
    BY <1>3, FS_CardinalityType DEF Inductive, TypeOK
  <2> QED BY <1>1, <1>3, <2>1, ConstantsOK DEF Inductive, CacheBounded
<1> QED BY <1>1, <1>2, <1>3, <1>4 DEF Inductive, TypeOK

THEOREM InitInductive == Init => Inductive
<1> SUFFICES ASSUME Init PROVE Inductive
  OBVIOUS
<1> USE ConstantsOK
<1>1. DOMAIN cache = {} /\ IsFiniteSet({}) /\ Cardinality({}) = 0
  BY FS_EmptySet DEF Init
<1>2. TypeOK
  BY <1>1 DEF Init, TypeOK, Never, Idle
<1>3. CacheBounded /\ CacheFresh
  BY <1>1 DEF CacheBounded, CacheFresh
<1>4. ASSUME NEW r \in Requests PROVE Held(r)
  BY DEF Init, Held, HeldToken, HeldEntry, HeldAnswer, HeldLife, Working, Holding
<1> QED BY <1>2, <1>3, <1>4 DEF Inductive

\* The environment's steps.
LEMMA EnvironmentKeeps ==
    ASSUME Inductive, Tick \/ \E t \in Tokens : Revoke(t)
    PROVE  Inductive'
<1> USE ConstantsOK
<1>1. CASE Tick
  <2>1. TypeOK'
    BY <1>1 DEF Inductive, TypeOK, Tick
  <2>2. CacheBounded' /\ CacheFresh'
    BY <1>1 DEF Inductive, TypeOK, CacheBounded, CacheFresh, Fresh, Tick, Entries, Results
  <2>3. ASSUME NEW r \in Requests PROVE Held(r)'
    <3>1. HeldToken(r)' /\ HeldLife(r)'
      BY <1>1 DEF Inductive, Held, HeldToken, HeldLife, Tick
    <3>2. HeldEntry(r)'
      BY <1>1 DEF Inductive, TypeOK, Held, HeldEntry, Fresh, Tick, Entries, Results
    <3>3. HeldAnswer(r)'
      BY <1>1 DEF Inductive, TypeOK, Held, HeldAnswer, Tick, Results
    <3> QED BY <3>1, <3>2, <3>3 DEF Held
  <2> QED BY <2>1, <2>2, <2>3 DEF Inductive
<1>2. ASSUME NEW t \in Tokens, Revoke(t) PROVE Inductive'
  <2>1. TypeOK'
    BY <1>2 DEF Inductive, TypeOK, Revoke, Never
  <2>2. CacheBounded' /\ CacheFresh'
    BY <1>2 DEF Inductive, TypeOK, CacheBounded, CacheFresh, Fresh, Revoke, Entries, Results, Never
  <2>3. ASSUME NEW r \in Requests PROVE Held(r)'
    <3>1. HeldToken(r)' /\ HeldLife(r)'
      BY <1>2 DEF Inductive, Held, HeldToken, HeldLife, Revoke
    <3>2. HeldEntry(r)'
      BY <1>2 DEF Inductive, TypeOK, Held, HeldEntry, Fresh, Revoke, Entries, Results, HeldToken, Working
    <3>3. HeldAnswer(r)'
      BY <1>2 DEF Inductive, TypeOK, Held, HeldAnswer, Revoke, Results, HeldToken, Working
    <3> QED BY <3>1, <3>2, <3>3 DEF Held
  <2> QED BY <2>1, <2>2, <2>3 DEF Inductive
<1> QED BY <1>1, <1>2

\* A handler's step that does not touch the cache: it is enough to look at the
\* types and at what the request itself now holds.
LEMMA LocalStep ==
    ASSUME Inductive, NEW r \in Requests, UNCHANGED <<clock, revokedAt, cache>>,
           TypeOK', Held(r)',
           \A q \in Requests \ {r} :
              /\ pc'[q] = pc[q] /\ token'[q] = token[q] /\ got'[q] = got[q]
              /\ ans'[q] = ans[q] /\ life'[q] = life[q]
    PROVE  Inductive'
<1>1. \A q \in Requests : Held(q)'
  BY HeldFrame DEF Inductive
<1>2. CacheBounded' /\ CacheFresh'
  BY DEF Inductive, CacheBounded, CacheFresh, Fresh
<1> QED BY <1>1, <1>2 DEF Inductive

LEMMA ArriveKeeps ==
    ASSUME Inductive, NEW r \in Requests, NEW t \in Tokens \cup {NoToken}, Arrive(r, t)
    PROVE  Inductive'
<1>1. TypeOK'
  BY DEF Inductive, TypeOK, Arrive
<1>2. Held(r)'
  BY DEF Inductive, TypeOK, Arrive, Held, HeldToken, HeldEntry, HeldAnswer, HeldLife,
         Working, Holding
<1> QED BY <1>1, <1>2, LocalStep DEF Arrive, Inductive, TypeOK

LEMMA RejectHeaderKeeps ==
    ASSUME Inductive, NEW r \in Requests, RejectHeader(r)
    PROVE  Inductive'
<1>1. TypeOK'
  BY DEF Inductive, TypeOK, RejectHeader, Idle
<1>2. Held(r)'
  BY DEF Inductive, TypeOK, RejectHeader, Held, HeldToken, HeldEntry, HeldAnswer, HeldLife,
         Working, Holding
<1> QED BY <1>1, <1>2, LocalStep DEF RejectHeader, Inductive, TypeOK

LEMMA ReadCacheKeeps ==
    ASSUME Inductive, NEW r \in Requests, ReadCache(r)
    PROVE  Inductive'
<1>1. token[r] \in DOMAIN cache => cache[token[r]] \in Entries /\ Fresh(cache[token[r]], token[r])
  BY DEF Inductive, TypeOK, CacheFresh
<1>2. TypeOK'
  BY <1>1 DEF Inductive, TypeOK, ReadCache
<1>3. HeldToken(r)' /\ HeldAnswer(r)' /\ HeldLife(r)'
  BY DEF Inductive, TypeOK, ReadCache, HeldToken, HeldAnswer, HeldLife, Holding
<1>4. HeldEntry(r)'
  BY <1>1 DEF Inductive, TypeOK, ReadCache, HeldEntry, Fresh
<1> QED BY <1>2, <1>3, <1>4, LocalStep DEF Held, ReadCache, Inductive, TypeOK

LEMMA CheckEntryKeeps ==
    ASSUME Inductive, NEW r \in Requests, CheckEntry(r)
    PROVE  Inductive'
<1>1. got[r] \in Entries /\ token[r] \in Tokens /\ pc[r] = "check"
  BY DEF Inductive, Held, HeldEntry, HeldToken, CheckEntry, Working
<1>2. TypeOK'
  BY <1>1 DEF Inductive, TypeOK, CheckEntry, Decide, Idle, Entries, Results
<1>3. Held(r)'
  BY <1>1 DEF Inductive, TypeOK, CheckEntry, Decide, Held, HeldToken, HeldEntry, HeldAnswer,
              HeldLife, Holding
<1> QED BY <1>2, <1>3, LocalStep DEF CheckEntry, Decide, Inductive, TypeOK

LEMMA DeleteEntryKeeps ==
    ASSUME Inductive, NEW r \in Requests, DeleteEntry(r)
    PROVE  Inductive'
<1>1. /\ CacheFresh' /\ CacheBounded'
      /\ DOMAIN cache' \subseteq Tokens /\ IsFiniteSet(DOMAIN cache')
      /\ cache' \in [DOMAIN cache' -> Entries]
  BY CacheFrame DEF DeleteEntry
<1>2. TypeOK'
  BY <1>1 DEF Inductive, TypeOK, DeleteEntry
<1>3. Held(r)'
  BY DEF Inductive, TypeOK, DeleteEntry, Held, HeldToken, HeldEntry, HeldAnswer, HeldLife,
         Working, Holding
<1>4. \A q \in Requests : Held(q)'
  BY <1>3, HeldFrame DEF DeleteEntry, Inductive, TypeOK
<1> QED BY <1>1, <1>2, <1>4 DEF Inductive

\* What an active answer of Hydra says is true of its token at that instant.
LEMMA HydraIsTruthful ==
    ASSUME Inductive, NEW t \in Tokens
    PROVE  LET a == HydraAnswer(t)
           IN /\ a \in Results
              /\ a.at = clock
              /\ a.active => /\ a.client = Owner[t]
                             /\ revokedAt[t] = Never
                             /\ a.exp = Exp[t]
                             /\ Exp[t] > 0 => clock < Exp[t]
<1> USE ConstantsOK
<1>1. clock \in Nat /\ Exp[t] \in Nat
  BY DEF Inductive, TypeOK
<1>2. CASE revokedAt[t] = Never /\ (Exp[t] = 0 \/ clock < Exp[t])
  <2>1. HydraAnswer(t) = [active |-> TRUE, client |-> Owner[t], exp |-> Exp[t], at |-> clock]
    BY <1>2 DEF HydraAnswer
  <2> QED BY <1>1, <1>2, <2>1 DEF Results
<1>3. CASE ~ (revokedAt[t] = Never /\ (Exp[t] = 0 \/ clock < Exp[t]))
  <2>1. HydraAnswer(t) = [active |-> FALSE, client |-> NoClient, exp |-> 0, at |-> clock]
    BY <1>3 DEF HydraAnswer
  <2> QED BY <1>1, <2>1 DEF Results
<1> QED BY <1>2, <1>3

LEMMA IntrospectKeeps ==
    ASSUME Inductive, NEW r \in Requests, Introspect(r) \/ IntrospectFails(r)
    PROVE  Inductive'
<1> USE ConstantsOK
<1>1. token[r] \in Tokens /\ pc[r] = "introspect"
  BY DEF Inductive, Held, HeldToken, Introspect, IntrospectFails, Working
<1>2. CASE Introspect(r)
  <2> DEFINE a == HydraAnswer(token[r])
  <2>1. /\ a \in Results
        /\ a.at = clock
        /\ a.active => /\ a.client = Owner[token[r]]
                       /\ revokedAt[token[r]] = Never
                       /\ a.exp = Exp[token[r]]
                       /\ Exp[token[r]] > 0 => clock < Exp[token[r]]
    BY <1>1, HydraIsTruthful
  <2>2. ans'[r] = a /\ pc'[r] = "answered" /\ pc' = [pc EXCEPT ![r] = "answered"]
    BY <1>2 DEF Introspect, Inductive, TypeOK
  <2>3. TypeOK'
    BY <1>2, <2>1, <2>2 DEF Inductive, TypeOK, Introspect, Holding
  <2>4. HeldToken(r)' /\ HeldEntry(r)' /\ HeldLife(r)'
    BY <1>1, <1>2, <2>2 DEF HeldToken, HeldEntry, HeldLife, Introspect
  <2>5. HeldAnswer(r)'
    BY <1>1, <1>2, <2>1, <2>2 DEF HeldAnswer, Introspect, Inductive, TypeOK, Never
  <2> QED BY <1>2, <2>3, <2>4, <2>5, LocalStep DEF Held, Introspect, Inductive, TypeOK
<1>3. CASE IntrospectFails(r)
  <2>1. TypeOK'
    BY <1>3 DEF Inductive, TypeOK, IntrospectFails, Idle
  <2>2. Held(r)'
    BY <1>3 DEF Inductive, TypeOK, IntrospectFails, Held, HeldToken, HeldEntry, HeldAnswer,
                HeldLife, Working, Holding
  <2> QED BY <1>3, <2>1, <2>2, LocalStep DEF IntrospectFails, Inductive, TypeOK
<1> QED BY <1>2, <1>3

\* The lifetime Set computes is at most the ttl and at most what was left of
\* the token when Hydra answered.
LEMMA LifetimeBounds ==
    ASSUME Inductive, NEW a \in Results, a.at <= clock
    PROVE  /\ Lifetime(a) \in 0..TTL
           /\ a.exp > 0 /\ Lifetime(a) > 0 => Lifetime(a) <= a.exp - a.at
BY ConstantsOK DEF Inductive, TypeOK, Results, Lifetime

LEMMA ComputeLifeKeeps ==
    ASSUME Inductive, NEW r \in Requests, ComputeLife(r)
    PROVE  Inductive'
<1> USE ConstantsOK
<1>1. /\ token[r] \in Tokens /\ pc[r] = "answered" /\ ans[r] \in Results
      /\ ans[r].at <= clock /\ HeldAnswer(r)
  BY DEF Inductive, Held, HeldToken, HeldAnswer, ComputeLife, Working, Holding
<1>2. life'[r] = Lifetime(ans[r]) /\ Lifetime(ans[r]) \in 0..TTL
  BY <1>1, LifetimeBounds DEF ComputeLife, Inductive, TypeOK
<1>3. CASE life'[r] = 0
  <2>1. TypeOK'
    BY <1>1, <1>2, <1>3 DEF Inductive, TypeOK, ComputeLife, Decide, Idle, Results
  <2>2. Held(r)'
    BY <1>1, <1>3 DEF Inductive, TypeOK, ComputeLife, Decide, Held, HeldToken, HeldEntry,
                      HeldAnswer, HeldLife, Holding
  <2> QED BY <1>3, <2>1, <2>2, LocalStep DEF ComputeLife, Decide, Inductive, TypeOK
<1>4. CASE life'[r] # 0
  <2>1. /\ pc' = [pc EXCEPT ![r] = "store"] /\ UNCHANGED <<ans, client, token>>
        /\ pc'[r] = "store"
    BY <1>4 DEF ComputeLife, Inductive, TypeOK
  <2>2. TypeOK'
    BY <1>2, <2>1 DEF Inductive, TypeOK, ComputeLife, Holding
  <2>3. HeldToken(r)' /\ HeldEntry(r)' /\ HeldAnswer(r)'
    BY <1>1, <2>1 DEF HeldToken, HeldEntry, HeldAnswer, Holding, ComputeLife
  <2>4. HeldLife(r)'
    BY <1>1, <1>2, <1>4, <2>1, LifetimeBounds DEF HeldLife
  <2> QED BY <2>1, <2>2, <2>3, <2>4, LocalStep DEF Held, ComputeLife, Inductive, TypeOK
<1> QED BY <1>3, <1>4

LEMMA StoreKeeps ==
    ASSUME Inductive, NEW r \in Requests, Store(r)
    PROVE  Inductive'
<1> USE ConstantsOK
<1> DEFINE t == token[r]
           e == [ans |-> ans[r], expiresAt |-> clock + life[r]]
<1>1. /\ t \in Tokens /\ pc[r] = "store" /\ ans[r] \in Results /\ life[r] \in 0..TTL
      /\ HeldAnswer(r) /\ HeldLife(r)
  BY DEF Inductive, TypeOK, Held, HeldToken, HeldAnswer, Store, Working, Holding
<1>2. PICK keep \in Kept(t) :
         cache' = [k \in keep \cup {t} |-> IF k = t THEN e ELSE cache[k]]
  BY DEF Store
<1>3. /\ keep \subseteq DOMAIN cache
      /\ IsFiniteSet(keep \cup {t})
      /\ Cardinality(keep \cup {t}) <= MaxEntries
  BY <1>1, KeptFits
<1>4. DOMAIN cache' = keep \cup {t}
  BY <1>2
<1>5. e \in Entries /\ Fresh(e, t)
  <2>1. e \in Entries
    BY <1>1 DEF Entries, Inductive, TypeOK
  <2>2. /\ ans[r].at <= clock
        /\ clock <= ans[r].at + MaxLag
        /\ ans[r].active => /\ ans[r].client = Owner[t]
                            /\ ans[r].at <= revokedAt[t]
                            /\ ans[r].exp = Exp[t]
        /\ ans[r].exp > 0 => life[r] <= ans[r].exp - ans[r].at
    BY <1>1 DEF HeldAnswer, HeldLife, Holding
  <2>3. ans[r].at \in Nat /\ ans[r].exp \in Nat /\ clock \in Nat /\ life[r] \in Nat /\ life[r] <= TTL
    BY <1>1 DEF Results, Inductive, TypeOK
  <2> QED BY <2>1, <2>2, <2>3, <1>1 DEF Fresh
<1>6. TypeOK'
  BY <1>1, <1>2, <1>3, <1>4, <1>5 DEF Inductive, TypeOK, Store, Decide, Idle, Results
<1>7. CacheBounded'
  BY <1>3, <1>4 DEF CacheBounded
<1>8. CacheFresh'
  BY <1>2, <1>3, <1>4, <1>5 DEF CacheFresh, Fresh, Store, Inductive
<1>9. Held(r)'
  BY <1>1 DEF Inductive, TypeOK, Store, Decide, Held, HeldToken, HeldEntry, HeldAnswer,
              HeldLife, Working, Holding
<1>10. \A q \in Requests : Held(q)'
  BY <1>9, HeldFrame DEF Store, Decide, Inductive, TypeOK
<1> QED BY <1>6, <1>7, <1>8, <1>10 DEF Inductive

THEOREM StepInductive == Inductive /\ [Next]_vars => Inductive'
<1> SUFFICES ASSUME Inductive, [Next]_vars PROVE Inductive'
  OBVIOUS
<1>1. CASE UNCHANGED vars
  BY <1>1 DEF vars, Inductive, TypeOK, CacheBounded, CacheFresh, Fresh, Held, HeldToken,
              HeldEntry, HeldAnswer, HeldLife
<1>2. CASE Tick \/ \E t \in Tokens : Revoke(t)
  BY <1>2, EnvironmentKeeps
<1>3. ASSUME NEW r \in Requests, NEW t \in Tokens \cup {NoToken}, Arrive(r, t) PROVE Inductive'
  BY <1>3, ArriveKeeps
<1>4. ASSUME NEW r \in Requests, Handle(r) PROVE Inductive'
  BY <1>4, RejectHeaderKeeps, ReadCacheKeeps, CheckEntryKeeps, DeleteEntryKeeps,
     IntrospectKeeps, ComputeLifeKeeps, StoreKeeps DEF Handle
<1> QED BY <1>1, <1>2, <1>3, <1>4 DEF Next

THEOREM AlwaysInductive == SafeSpec => []Inductive
BY InitInductive, StepInductive, PTL DEF SafeSpec

\* The model's values keep their types in every behaviour (all of auth/cache.go
\* and auth/middleware.go).
THEOREM TypeCorrect == SafeSpec => []TypeOK
<1>1. Inductive => TypeOK
  BY DEF Inductive
<1> QED BY <1>1, AlwaysInductive, PTL

\* The cache never holds more than maxEntries, however many requests fill it.
THEOREM CacheStaysBounded == SafeSpec => []CacheBounded
<1>1. Inductive => CacheBounded
  BY DEF Inductive
<1> QED BY <1>1, AlwaysInductive, PTL

\* Every entry that would admit a request is an answer Hydra gave for that very
\* token before it was revoked, and outlives neither ttl nor exp by more than
\* the delay of its Set.
THEOREM CacheStaysFresh == SafeSpec => []CacheFresh
<1>1. Inductive => CacheFresh
  BY DEF Inductive
<1> QED BY <1>1, AlwaysInductive, PTL

\* Only a request's own Store takes it from "store" to anywhere else.
LEMMA OnlyStoreLeaves ==
    ASSUME TypeOK, Next, NEW r \in Requests, pc[r] = "store", pc'[r] # "store"
    PROVE  Store(r)
<1>1. ~ (Tick \/ \E t \in Tokens : Revoke(t))
  BY DEF Tick, Revoke
<1>2. ASSUME NEW q \in Requests, NEW t \in Tokens \cup {NoToken}, Arrive(q, t) PROVE FALSE
  BY <1>2 DEF Arrive, Idle, TypeOK
<1>3. ASSUME NEW q \in Requests, Handle(q) PROVE Store(r)
  <2>1. CASE q = r
    BY <1>3, <2>1 DEF Handle, RejectHeader, ReadCache, CheckEntry, DeleteEntry, Introspect,
                      IntrospectFails, ComputeLife
  <2>2. CASE q # r
    BY <1>3, <2>2 DEF Handle, RejectHeader, ReadCache, CheckEntry, DeleteEntry, Introspect,
                      IntrospectFails, ComputeLife, Store, Decide, TypeOK
  <2> QED BY <2>1, <2>2
<1> QED BY <1>1, <1>2, <1>3 DEF Next

\* What Set drops to make room: a live entry only when there is no expired one,
\* then just one, the first that would expire (cache.go:128-145, 157-184).
THEOREM StoreEvictsInOrder == SafeSpec => EvictsInOrder
<1>1. ASSUME Inductive, Next, NEW r \in Requests, pc[r] = "store", pc'[r] # "store",
             NEW d \in DOMAIN cache \ DOMAIN cache', ~ Expired(cache[d])
      PROVE  /\ DOMAIN cache \ DOMAIN cache' = {d}
             /\ \A k \in DOMAIN cache' \ {token[r]} :
                   ~ Expired(cache[k]) /\ cache[d].expiresAt <= cache[k].expiresAt
  <2> DEFINE t == token[r]
             live == {k \in DOMAIN cache : ~ Expired(cache[k])}
  <2>1. Store(r) /\ t \in Tokens
    BY <1>1, OnlyStoreLeaves DEF Inductive, Held, HeldToken, Working, Holding
  <2>2. PICK keep \in Kept(t) : DOMAIN cache' = keep \cup {t}
    BY <2>1 DEF Store
  <2>3. d \in live /\ d \notin keep /\ d # t
    BY <1>1, <2>2
  <2>4. t \notin DOMAIN cache /\ ~ (Cardinality(DOMAIN cache) < MaxEntries)
    BY <1>1, <2>2, <2>3 DEF Kept
  <2>5. ~ (Cardinality(live) < MaxEntries)
    BY <2>2, <2>3, <2>4 DEF Kept
  <2>6. PICK k \in Oldest(live) : keep = live \ {k}
    BY <2>2, <2>4, <2>5 DEF Kept
  <2>7. k = d
    BY <2>3, <2>6
  <2>8. live = DOMAIN cache
    <3>1. /\ IsFiniteSet(DOMAIN cache)
          /\ Cardinality(DOMAIN cache) <= MaxEntries
      BY <1>1 DEF Inductive, TypeOK, CacheBounded
    <3>2. /\ IsFiniteSet(live)
          /\ Cardinality(live) <= Cardinality(DOMAIN cache)
          /\ Cardinality(DOMAIN cache) = Cardinality(live) => DOMAIN cache = live
      BY <3>1, FS_Subset, live \in SUBSET DOMAIN cache
    <3>3. Cardinality(live) \in Nat /\ Cardinality(DOMAIN cache) \in Nat
      BY <3>1, <3>2, FS_CardinalityType
    <3> QED BY <2>5, <3>1, <3>2, <3>3, ConstantsOK
  <2>9. DOMAIN cache \ DOMAIN cache' = {d}
    BY <2>2, <2>3, <2>6, <2>7, <2>8
  <2>10. ASSUME NEW j \in DOMAIN cache' \ {t}
         PROVE  ~ Expired(cache[j]) /\ cache[d].expiresAt <= cache[j].expiresAt
    <3>1. j \in live
      BY <2>2, <2>6
    <3> QED BY <2>6, <2>7, <3>1 DEF Oldest
  <2> QED BY <2>9, <2>10
<1>2. Inductive /\ [Next]_vars =>
        [\A r \in Requests :
           LET gone == DOMAIN cache \ DOMAIN cache'
               kept == DOMAIN cache' \ {token[r]}
           IN (pc[r] = "store" /\ pc'[r] # "store" /\ \E d \in gone : ~ Expired(cache[d])) =>
                 \E d \in gone : /\ gone = {d}
                                 /\ \A k \in kept : /\ ~ Expired(cache[k])
                                                    /\ cache[d].expiresAt <= cache[k].expiresAt
        ]_vars
  BY <1>1
<1> QED BY <1>2, AlwaysInductive, PTL DEF SafeSpec, EvictsInOrder

--------------------------------------------------------------------------
(* TokenAuth implements TokenGate. *)

Verdict == [r \in Requests |-> IF pc[r] \in Idle THEN pc[r] ELSE "pending"]

\* Deciding on an active result one may still trust is the gate's Admit, on an
\* inactive one its Reject.
LEMMA DecideMaps ==
    ASSUME TypeOK, NEW r \in Requests, NEW a \in Results, Decide(r, a),
           pc[r] \notin Idle, token[r] \in Tokens, UNCHANGED <<clock, revokedAt, token>>,
           a.active => a.client = Owner[token[r]] /\ Gate!Trusted(token[r])
    PROVE  Gate!Next
<1>1. CASE a.active
  <2>1. pc' = [pc EXCEPT ![r] = "admitted"] /\ client' = [client EXCEPT ![r] = Owner[token[r]]]
    BY <1>1 DEF Decide
  <2>2. Verdict' = [Verdict EXCEPT ![r] = "admitted"] /\ Verdict[r] = "pending"
    BY <2>1 DEF Verdict, Idle, TypeOK
  <2>3. Gate!Admit(r)
    BY <1>1, <2>1, <2>2 DEF Gate!Admit, Verdict
  <2> QED BY <2>3 DEF Gate!Next
<1>2. CASE ~ a.active
  <2>1. pc' = [pc EXCEPT ![r] = "rejected"] /\ client' = client
    BY <1>2 DEF Decide
  <2>2. Verdict' = [Verdict EXCEPT ![r] = "rejected"] /\ Verdict[r] = "pending"
    BY <2>1 DEF Verdict, Idle, TypeOK
  <2>3. Gate!Reject(r)
    BY <2>1, <2>2 DEF Gate!Reject, Verdict
  <2> QED BY <2>3 DEF Gate!Next
<1> QED BY <1>1, <1>2

\* A step that leaves a request pending, or rejects it, leaves the gate's other
\* variables alone.
LEMMA PendingMaps ==
    ASSUME TypeOK, NEW r \in Requests, NEW label, pc' = [pc EXCEPT ![r] = label],
           pc[r] \notin Idle, label \notin Idle \/ label = "rejected",
           UNCHANGED <<clock, revokedAt, token, client>>
    PROVE  Gate!Next \/ UNCHANGED Gate!vars
<1>1. CASE label \notin Idle
  <2>1. Verdict' = Verdict
    BY <1>1 DEF Verdict, TypeOK
  <2> QED BY <2>1 DEF Gate!vars, Verdict
<1>2. CASE label = "rejected"
  <2>1. Verdict' = [Verdict EXCEPT ![r] = "rejected"] /\ Verdict[r] = "pending"
    BY <1>2 DEF Verdict, Idle, TypeOK
  <2>2. Gate!Reject(r)
    BY <2>1 DEF Gate!Reject, Verdict
  <2> QED BY <2>2 DEF Gate!Next
<1> QED BY <1>1, <1>2

\* An entry that has not expired is one the gate still trusts.
LEMMA LiveEntryTrusted ==
    ASSUME TypeOK, NEW e \in Entries, NEW t \in Tokens, Fresh(e, t), ~ Expired(e), e.ans.active
    PROVE  e.ans.client = Owner[t] /\ Gate!Trusted(t)
BY ConstantsOK DEF TypeOK, Entries, Results, Fresh, Expired, Gate!Trusted, Never

\* So is an active answer a request has not held for longer than MaxLag.
LEMMA HeldAnswerTrusted ==
    ASSUME TypeOK, NEW r \in Requests, HeldAnswer(r), pc[r] \in Holding, token[r] \in Tokens,
           ans[r].active
    PROVE  ans[r].client = Owner[token[r]] /\ Gate!Trusted(token[r])
BY ConstantsOK DEF TypeOK, Results, HeldAnswer, Gate!Trusted, Never

LEMMA HandleMaps ==
    ASSUME Inductive, NEW r \in Requests, Handle(r)
    PROVE  Gate!Next \/ UNCHANGED Gate!vars
<1>1. TypeOK /\ HeldToken(r) /\ HeldEntry(r) /\ HeldAnswer(r)
  BY DEF Inductive, Held
<1>2. CASE RejectHeader(r) \/ DeleteEntry(r) \/ Introspect(r) \/ IntrospectFails(r)
  BY <1>1, <1>2, PendingMaps DEF RejectHeader, DeleteEntry, Introspect, IntrospectFails,
                                 Idle
<1>3. CASE ReadCache(r)
  BY <1>1, <1>3, PendingMaps DEF ReadCache, Idle
<1>4. CASE CheckEntry(r)
  <2>1. got[r] \in Entries /\ Fresh(got[r], token[r]) /\ token[r] \in Tokens /\ pc[r] \notin Idle
    BY <1>1, <1>4 DEF CheckEntry, HeldEntry, HeldToken, Working, Idle
  <2>2. CASE Expired(got[r])
    BY <1>1, <1>4, <2>1, <2>2, PendingMaps DEF CheckEntry, Idle
  <2>3. CASE ~ Expired(got[r])
    <3>1. got[r].ans \in Results /\ Decide(r, got[r].ans)
      BY <1>4, <2>1, <2>3 DEF CheckEntry, Entries
    <3> QED BY <1>1, <1>4, <2>1, <2>3, <3>1, DecideMaps, LiveEntryTrusted DEF CheckEntry
  <2> QED BY <2>2, <2>3
<1>5. CASE ComputeLife(r)
  <2>1. ans[r] \in Results /\ token[r] \in Tokens /\ pc[r] \notin Idle /\ pc[r] \in Holding
    BY <1>1, <1>5 DEF ComputeLife, HeldAnswer, HeldToken, Holding, Working, Idle
  <2>2. CASE life'[r] = 0
    BY <1>1, <1>5, <2>1, <2>2, DecideMaps, HeldAnswerTrusted DEF ComputeLife
  <2>3. CASE life'[r] # 0
    BY <1>1, <1>5, <2>1, <2>3, PendingMaps DEF ComputeLife, Idle
  <2> QED BY <2>2, <2>3
<1>6. CASE Store(r)
  <2>1. ans[r] \in Results /\ token[r] \in Tokens /\ pc[r] \notin Idle /\ pc[r] \in Holding
    BY <1>1, <1>6 DEF Store, HeldAnswer, HeldToken, Holding, Working, Idle
  <2> QED BY <1>1, <1>6, <2>1, DecideMaps, HeldAnswerTrusted DEF Store
<1> QED BY <1>2, <1>3, <1>4, <1>5, <1>6 DEF Handle

\* So is every step, or it is nothing to the gate.
LEMMA StepMaps ==
    ASSUME Inductive, Next \/ UNCHANGED vars
    PROVE  Gate!Next \/ UNCHANGED Gate!vars
<1>1. CASE UNCHANGED vars
  BY <1>1 DEF vars, Gate!vars
<1>2. CASE Tick
  <2>1. Verdict' = Verdict
    BY <1>2 DEF Tick, Verdict
  <2> QED BY <1>2, <2>1 DEF Tick, Gate!Tick, Gate!Next, Verdict
<1>3. ASSUME NEW t \in Tokens, Revoke(t) PROVE Gate!Next
  <2>1. Verdict' = Verdict
    BY <1>3 DEF Revoke, Verdict
  <2> QED BY <1>3, <2>1 DEF Revoke, Gate!Revoke, Gate!Next, Verdict, Never, Gate!Never
<1>4. ASSUME NEW r \in Requests, NEW t \in Tokens \cup {NoToken}, Arrive(r, t) PROVE Gate!Next
  <2>1. Verdict' = [Verdict EXCEPT ![r] = "pending"] /\ Verdict[r] # "pending"
    BY <1>4 DEF Arrive, Verdict, Idle, Inductive, TypeOK
  <2>2. Gate!Arrive(r, t)
    BY <1>4, <2>1 DEF Arrive, Gate!Arrive, Verdict
  <2> QED BY <2>2 DEF Gate!Next
<1> QED BY <1>1, <1>2, <1>3, <1>4, HandleMaps DEF Next

\* Token verification with its racing cache keeps the promise of TokenGate: it
\* admits a request only as the owner of its token, by a word of Hydra that is
\* no older than TTL + MaxLag.
THEOREM ImplementsGate == SafeSpec => GateContract
<1>1. Init => Gate!Init
  BY DEF Init, Gate!Init, Never, Gate!Never, Idle
<1>2. Inductive /\ [Next]_vars => [Gate!Next]_(Gate!vars)
  BY StepMaps
<1> QED BY <1>1, <1>2, AlwaysInductive, PTL DEF SafeSpec, GateContract, Gate!Spec
==========================================================================
