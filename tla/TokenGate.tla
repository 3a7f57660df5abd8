---------------------------- MODULE TokenGate ----------------------------
(* What the token verification component (internal/auth) promises to the   *)
(* rest of the gateway, said without a cache: a pending request ends       *)
(* rejected, or admitted as the owner of its token at an instant by which  *)
(* the authorization server's word on that token is at most TTL + MaxLag   *)
(* old and its expiry is passed by at most MaxLag.  TokenAuth implements   *)
(* this specification.                                                     *)
EXTENDS Integers

CONSTANTS Requests,  \* the HTTP requests in flight
          Tokens,    \* well-formed Bearer tokens
          NoToken,   \* a request whose Authorization header yields no token
          NoClient,  \* a request that has no client identity
          Owner,     \* Owner[t]: the client token t was issued to
          Exp,       \* Exp[t]: the instant t expires, 0 when it has no exp claim
          TTL,       \* the cache's time to live
          MaxLag,    \* the longest a request sits on an answer before storing it
          MaxTime    \* bound: the clock stops here

VARIABLES clock,     \* the time
          revokedAt, \* revokedAt[t]: when t was revoked, Never while it is not
          token,     \* token[r]: what request r presents
          verdict,   \* "none", "pending", "admitted" or "rejected"
          client     \* client[r]: the identity request r was admitted with

vars == <<clock, revokedAt, token, verdict, client>>

Never == MaxTime + 1

Init == /\ clock = 0
        /\ revokedAt = [t \in Tokens |-> Never]
        /\ token = [r \in Requests |-> NoToken]
        /\ verdict = [r \in Requests |-> "none"]
        /\ client = [r \in Requests |-> NoClient]

Tick == /\ clock < MaxTime
        /\ clock' = clock + 1
        /\ UNCHANGED <<revokedAt, token, verdict, client>>

Revoke(t) == /\ revokedAt[t] = Never
             /\ revokedAt' = [revokedAt EXCEPT ![t] = clock]
             /\ UNCHANGED <<clock, token, verdict, client>>

Arrive(r, t) == /\ verdict[r] # "pending"
                /\ token' = [token EXCEPT ![r] = t]
                /\ verdict' = [verdict EXCEPT ![r] = "pending"]
                /\ client' = [client EXCEPT ![r] = NoClient]
                /\ UNCHANGED <<clock, revokedAt>>

Reject(r) == /\ verdict[r] = "pending"
             /\ verdict' = [verdict EXCEPT ![r] = "rejected"]
             /\ UNCHANGED <<clock, revokedAt, token, client>>

\* The word of the authorization server a request may still be admitted on.
Trusted(t) == /\ clock <= revokedAt[t] + TTL + MaxLag
              /\ Exp[t] > 0 => clock <= Exp[t] + MaxLag

Admit(r) == /\ verdict[r] = "pending"
            /\ token[r] \in Tokens
            /\ Trusted(token[r])
            /\ verdict' = [verdict EXCEPT ![r] = "admitted"]
            /\ client' = [client EXCEPT ![r] = Owner[token[r]]]
            /\ UNCHANGED <<clock, revokedAt, token>>

Next == \/ Tick
        \/ \E t \in Tokens : Revoke(t)
        \/ \E r \in Requests : \/ \E t \in Tokens \cup {NoToken} : Arrive(r, t)
                               \/ Reject(r)
                               \/ Admit(r)

Spec == Init /\ [][Next]_vars
==========================================================================
