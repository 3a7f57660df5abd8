---------------------------- MODULE TokenAuth ----------------------------
(* Token verification: the auth middleware (internal/auth/middleware.go),  *)
(* the introspection cache (internal/auth/cache.go) and the call to ORY    *)
(* Hydra (internal/auth/token.go).  A request is a goroutine; each of its  *)
(* steps is what it does between two points where another goroutine may    *)
(* run: a critical section on the cache's mutex, a reading of the clock,   *)
(* or the answer of Hydra.                                                 *)
EXTENDS Integers, FiniteSets

CONSTANTS Requests,   \* the HTTP requests in flight
          Tokens,     \* Bearer tokens that extractBearerToken accepts
          NoToken,    \* a header that extractBearerToken refuses
          NoClient, NoAnswer, NoEntry,
          Owner,      \* Owner[t]: the client Hydra issued t to
          Exp,        \* Exp[t]: the exp claim of t, 0 when it has none
          TTL,        \* TokenCache.ttl
          MaxEntries, \* TokenCache.maxEntries
          MaxLag,     \* bound: ticks a request may hold an answer before it stores it
          MaxTime     \* bound: the clock stops here

ASSUME ConstantsOK ==
    /\ NoToken \notin Tokens
    /\ Exp \in [Tokens -> Nat]
    /\ TTL \in Nat \ {0}
    /\ MaxEntries \in Nat \ {0}
    /\ MaxLag \in Nat
    /\ MaxTime \in Nat

VARIABLES clock,     \* time.Now, also read by Hydra
          revokedAt, \* Hydra: when each token was revoked, Never while it is not
          cache,     \* TokenCache.entries, a function on the tokens it holds
          pc,        \* where each request stands in Handler
          token,     \* the token each request presents
          got,       \* the entry Get has read and not yet compared with the clock
          ans,       \* the introspection result a request holds
          life,      \* the ttl Set has computed and not yet added to the clock
          client     \* the TokenInfo put in the request's context

vars == <<clock, revokedAt, cache, pc, token, got, ans, life, client>>

Never == MaxTime + 1

Results == [active : BOOLEAN, client : {NoClient} \cup {Owner[t] : t \in Tokens},
            exp : Nat, at : Nat]

\* "at", the instant of Hydra's answer, is history: the code does not keep it.
Entries == [ans : Results, expiresAt : Nat]

Holding == {"answered", "store"}
Idle    == {"none", "admitted", "rejected"}

TypeOK == /\ clock \in 0..MaxTime
          /\ revokedAt \in [Tokens -> 0..Never]
          /\ DOMAIN cache \subseteq Tokens
          /\ IsFiniteSet(DOMAIN cache)
          /\ cache \in [DOMAIN cache -> Entries]
          /\ pc \in [Requests -> Idle \cup Holding \cup {"start", "check", "expire", "introspect"}]
          /\ token \in [Requests -> Tokens \cup {NoToken}]
          /\ got \in [Requests -> Entries \cup {NoEntry}]
          /\ ans \in [Requests -> Results \cup {NoAnswer}]
          /\ life \in [Requests -> 0..TTL]
          /\ client \in [Requests -> {NoClient} \cup {Owner[t] : t \in Tokens}]

Init == /\ clock = 0
        /\ revokedAt = [t \in Tokens |-> Never]
        /\ cache = [t \in {} |-> NoEntry]
        /\ pc = [r \in Requests |-> "none"]
        /\ token = [r \in Requests |-> NoToken]
        /\ got = [r \in Requests |-> NoEntry]
        /\ ans = [r \in Requests |-> NoAnswer]
        /\ life = [r \in Requests |-> 0]
        /\ client = [r \in Requests |-> NoClient]

(* The environment. *)

\* Time passes.  No bound of the code limits how long a goroutine may sleep
\* between an answer and its Set; MaxLag names that delay, whatever it is.
Tick == /\ clock < MaxTime
        /\ \A r \in Requests : pc[r] \in Holding => clock < ans[r].at + MaxLag
        /\ clock' = clock + 1
        /\ UNCHANGED <<revokedAt, cache, pc, token, got, ans, life, client>>

Revoke(t) == /\ revokedAt[t] = Never
             /\ revokedAt' = [revokedAt EXCEPT ![t] = clock]
             /\ UNCHANGED <<clock, cache, pc, token, got, ans, life, client>>

\* A request arrives, or the connection of a decided one carries the next.
Arrive(r, t) == /\ pc[r] \in Idle
                /\ token' = [token EXCEPT ![r] = t]
                /\ client' = [client EXCEPT ![r] = NoClient]
                /\ pc' = [pc EXCEPT ![r] = "start"]
                /\ UNCHANGED <<clock, revokedAt, cache, got, ans, life>>

(* The handler. *)

\* A result a handler acts on: an active one fills the context and calls the
\* next handler, any other is answered 401.
Decide(r, a) == /\ pc' = [pc EXCEPT ![r] = IF a.active THEN "admitted" ELSE "rejected"]
                /\ client' = IF a.active THEN [client EXCEPT ![r] = a.client] ELSE client

RejectHeader(r) == /\ pc[r] = "start"
                   /\ token[r] = NoToken
                   /\ pc' = [pc EXCEPT ![r] = "rejected"]
                   /\ UNCHANGED <<clock, revokedAt, cache, token, got, ans, life, client>>

\* Mutant of ReadCache: the key does not tell the tokens apart.
ReadCacheAnyKey(r) == /\ pc[r] = "start"
                      /\ token[r] \in Tokens
                      /\ \/ /\ \E t \in DOMAIN cache : got' = [got EXCEPT ![r] = cache[t]]
                            /\ pc' = [pc EXCEPT ![r] = "check"]
                         \/ /\ DOMAIN cache = {}
                            /\ pc' = [pc EXCEPT ![r] = "introspect"]
                            /\ UNCHANGED got
                      /\ UNCHANGED <<clock, revokedAt, cache, token, ans, life, client>>

\* Get under the read lock.
ReadCache(r) == /\ pc[r] = "start"
                /\ token[r] \in Tokens
                /\ IF token[r] \in DOMAIN cache
                   THEN /\ got' = [got EXCEPT ![r] = cache[token[r]]]
                        /\ pc' = [pc EXCEPT ![r] = "check"]
                   ELSE /\ pc' = [pc EXCEPT ![r] = "introspect"]
                        /\ UNCHANGED got
                /\ UNCHANGED <<clock, revokedAt, cache, token, ans, life, client>>

\* Mutant of Expired: Get without the comparison.
NeverExpired(e) == FALSE

Expired(e) == clock > e.expiresAt

\* Get compares the entry with the clock after it has released the lock.
CheckEntry(r) == /\ pc[r] = "check"
                 /\ got' = [got EXCEPT ![r] = NoEntry]
                 /\ IF Expired(got[r])
                    THEN /\ pc' = [pc EXCEPT ![r] = "expire"]
                         /\ UNCHANGED client
                    ELSE Decide(r, got[r].ans)
                 /\ UNCHANGED <<clock, revokedAt, cache, token, ans, life>>

\* Mutant of DeleteEntry: the entry is cleared and its key stays.
ClearEntry(r) == /\ pc[r] = "expire"
                 /\ cache' = [t \in DOMAIN cache |-> IF t = token[r] THEN NoEntry ELSE cache[t]]
                 /\ pc' = [pc EXCEPT ![r] = "introspect"]
                 /\ UNCHANGED <<clock, revokedAt, token, got, ans, life, client>>

\* Get deletes the key, whatever is stored under it by now.
DeleteEntry(r) == /\ pc[r] = "expire"
                  /\ cache' = [t \in DOMAIN cache \ {token[r]} |-> cache[t]]
                  /\ pc' = [pc EXCEPT ![r] = "introspect"]
                  /\ UNCHANGED <<clock, revokedAt, token, got, ans, life, client>>

\* What Hydra says of t now: an inactive answer carries nothing else.
HydraAnswer(t) ==
    LET active == revokedAt[t] = Never /\ (Exp[t] = 0 \/ clock < Exp[t])
    IN [active |-> active,
        client |-> IF active THEN Owner[t] ELSE NoClient,
        exp    |-> IF active THEN Exp[t] ELSE 0,
        at     |-> clock]

Introspect(r) == /\ pc[r] = "introspect"
                 /\ ans' = [ans EXCEPT ![r] = HydraAnswer(token[r])]
                 /\ pc' = [pc EXCEPT ![r] = "answered"]
                 /\ UNCHANGED <<clock, revokedAt, cache, token, got, life, client>>

\* Mutant of IntrospectFails: try again, and again.
IntrospectRetries(r) == /\ pc[r] = "introspect"
                        /\ pc' = [pc EXCEPT ![r] = "start"]
                        /\ UNCHANGED <<clock, revokedAt, cache, token, got, ans, life, client>>

\* Mutant of IntrospectFails: without an answer the request goes on.
IntrospectFailsOpen(r) == /\ pc[r] = "introspect"
                          /\ pc' = [pc EXCEPT ![r] = "admitted"]
                          /\ UNCHANGED <<clock, revokedAt, cache, token, got, ans, life, client>>

\* No usable answer: transport error, timeout, status other than 200, bad JSON,
\* or a context cancelled by a client that left.
IntrospectFails(r) == /\ pc[r] = "introspect"
                      /\ pc' = [pc EXCEPT ![r] = "rejected"]
                      /\ UNCHANGED <<clock, revokedAt, cache, token, got, ans, life, client>>

\* Mutant of Lifetime: the exp claim is not looked at.
FullLifetime(a) == TTL

\* Set before it takes the lock: the smaller of the ttl and the remaining
\* lifetime, 0 when the token has already expired.
Lifetime(a) == IF a.exp = 0 \/ a.exp - clock >= TTL THEN TTL
               ELSE IF a.exp > clock THEN a.exp - clock ELSE 0

ComputeLife(r) == /\ pc[r] = "answered"
                  /\ life' = [life EXCEPT ![r] = Lifetime(ans[r])]
                  /\ IF life'[r] = 0
                     THEN /\ Decide(r, ans[r])
                          /\ ans' = [ans EXCEPT ![r] = NoAnswer]
                     ELSE /\ pc' = [pc EXCEPT ![r] = "store"]
                          /\ UNCHANGED <<ans, client>>
                  /\ UNCHANGED <<clock, revokedAt, cache, token, got>>

\* Mutant of Oldest: the comparison the other way round.
Youngest(S) == {k \in S : \A j \in S : cache[k].expiresAt >= cache[j].expiresAt}

\* evictOldestLocked: any key of S with the earliest expiry.
Oldest(S) == {k \in S : \A j \in S : cache[k].expiresAt <= cache[j].expiresAt}

\* Mutant of Kept: room is made one entry too late.
KeptLate(t) == LET live == {k \in DOMAIN cache : ~ Expired(cache[k])}
               IN IF t \in DOMAIN cache \/ Cardinality(DOMAIN cache) <= MaxEntries
                  THEN {DOMAIN cache}
                  ELSE IF Cardinality(live) < MaxEntries
                       THEN {live}
                       ELSE {live \ {k} : k \in Oldest(live)}

\* The sets of keys that Set may keep to make room for t.
Kept(t) == LET live == {k \in DOMAIN cache : ~ Expired(cache[k])}
           IN IF t \in DOMAIN cache \/ Cardinality(DOMAIN cache) < MaxEntries
              THEN {DOMAIN cache}
              ELSE IF Cardinality(live) < MaxEntries
                   THEN {live}
                   ELSE {live \ {k} : k \in Oldest(live)}

\* Set under the lock, then Handler's decision on the result it still holds.
Store(r) == /\ pc[r] = "store"
            /\ \E keep \in Kept(token[r]) :
                  cache' = [t \in keep \cup {token[r]} |->
                              IF t = token[r]
                              THEN [ans |-> ans[r], expiresAt |-> clock + life[r]]
                              ELSE cache[t]]
            /\ Decide(r, ans[r])
            /\ ans' = [ans EXCEPT ![r] = NoAnswer]
            /\ life' = [life EXCEPT ![r] = 0]
            /\ UNCHANGED <<clock, revokedAt, token, got>>

Handle(r) == \/ RejectHeader(r) \/ ReadCache(r) \/ CheckEntry(r) \/ DeleteEntry(r)
             \/ Introspect(r) \/ IntrospectFails(r) \/ ComputeLife(r) \/ Store(r)

Next == \/ Tick
        \/ \E t \in Tokens : Revoke(t)
        \/ \E r \in Requests : \/ \E t \in Tokens \cup {NoToken} : Arrive(r, t)
                               \/ Handle(r)

SafeSpec == Init /\ [][Next]_vars

\* A goroutine that can run does run, no critical section blocks, and Hydra's
\* client gives up after 10 seconds: every step of a handler is taken.
Spec == SafeSpec /\ \A r \in Requests : WF_vars(Handle(r))

--------------------------------------------------------------------------
(* What makes it correct. *)

\* However many requests fill it at once, the cache never outgrows its limit.
CacheBounded == Cardinality(DOMAIN cache) <= MaxEntries

\* An entry under key t that would admit a request speaks for the owner of t;
\* Hydra gave it before t was revoked, and it is served at most TTL + MaxLag
\* after that answer and at most MaxLag after t expires.
Fresh(e, t) ==
    e.ans.active => /\ e.ans.client = Owner[t]
                    /\ e.ans.at <= clock
                    /\ e.ans.at <= revokedAt[t]
                    /\ e.expiresAt <= e.ans.at + TTL + MaxLag
                    /\ Exp[t] > 0 => e.expiresAt <= Exp[t] + MaxLag

\* Every entry in the cache is fresh in that sense, also after an older answer
\* of a slow request has overwritten the newer one of a fast request.
CacheFresh == \A t \in DOMAIN cache : Fresh(cache[t], t)

\* Making room: when Set drops an entry that is still live, the cache held no
\* expired one it could have dropped instead, that entry is the only one to
\* go, and it is the first that would have expired.
EvictsInOrder ==
    [][\A r \in Requests :
         LET gone == DOMAIN cache \ DOMAIN cache'
             kept == DOMAIN cache' \ {token[r]}
         IN (pc[r] = "store" /\ pc'[r] # "store" /\ \E d \in gone : ~ Expired(cache[d])) =>
               \E d \in gone : /\ gone = {d}
                               /\ \A k \in kept : /\ ~ Expired(cache[k])
                                                  /\ cache[d].expiresAt <= cache[k].expiresAt
      ]_vars

\* Every request that arrives is admitted or rejected.
EveryRequestDecided == \A r \in Requests : pc[r] = "start" ~> pc[r] \in Idle

\* The contract: seen without its cache, the component is a TokenGate.
Gate == INSTANCE TokenGate WITH
            verdict <- [r \in Requests |-> IF pc[r] \in Idle THEN pc[r] ELSE "pending"]

GateContract == Gate!Spec

--------------------------------------------------------------------------
(* The strengthening that the proofs of TokenAuth_proofs carry along: what *)
(* a request holds between two of its steps.                               *)

Working == Holding \cup {"check", "expire", "introspect"}

HeldToken(r) == pc[r] \in Working => token[r] \in Tokens

HeldEntry(r) == pc[r] = "check" => got[r] \in Entries /\ Fresh(got[r], token[r])

HeldAnswer(r) ==
    pc[r] \in Holding =>
        /\ ans[r] \in Results
        /\ ans[r].at <= clock
        /\ clock <= ans[r].at + MaxLag
        /\ ans[r].active => /\ ans[r].client = Owner[token[r]]
                            /\ ans[r].at <= revokedAt[token[r]]
                            /\ ans[r].exp = Exp[token[r]]
                            /\ ans[r].exp > 0 => ans[r].at < ans[r].exp

HeldLife(r) ==
    pc[r] = "store" /\ ans[r].exp > 0 => life[r] <= ans[r].exp - ans[r].at

Held(r) == HeldToken(r) /\ HeldEntry(r) /\ HeldAnswer(r) /\ HeldLife(r)

Inductive == /\ TypeOK
             /\ CacheBounded
             /\ CacheFresh
             /\ \A r \in Requests : Held(r)
==========================================================================
