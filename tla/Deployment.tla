---------------------------- MODULE Deployment ----------------------------
(* The gateway with the token verification that the code has in the place  *)
(* of the one it promises: System, its TokenGate replaced by the racing    *)
(* requests and the shared cache of TokenAuth, which a crash empties.      *)
(* TokenGate's variable verdict stays as an auxiliary one.                 *)
EXTENDS System

CONSTANTS NoAnswer, MaxEntries   \* TokenAuth

ASSUME DeploymentOK == {TTL, MaxEntries} \subseteq Nat \ {0}

VARIABLES cache, authpc, got, ans, life   \* TokenAuth, its pc as authpc

K == INSTANCE TokenAuth WITH pc <- authpc

verification == <<cache, authpc, got, ans, life>>

\* What TokenGate sees of a request.
Verdict == [r \in Requests |-> IF authpc[r] \in K!Idle THEN authpc[r] ELSE "pending"]

DeployedInit == Init /\ K!Init

\* The audit middleware calls the auth middleware,
EnterAuth(r) == /\ G!AuditEnter(r)
                /\ \E t \in Presents(req[r]) : K!Arrive(r, t)
                /\ verdict' = Verdict'
                /\ UNCHANGED <<store, own>>

\* which works by itself until it calls the policy middleware or answers 401.
Verify(r) == /\ K!Handle(r)
             /\ \/ authpc'[r] \notin K!Idle /\ UNCHANGED path
                \/ authpc'[r] = "admitted" /\ G!Admit(r)
                \/ authpc'[r] = "rejected" /\ G!Reject(r)
             /\ verdict' = Verdict'
             /\ UNCHANGED <<store, own>>

\* All that does not concern token verification.
Elsewhere(r) == /\ \/ \E q \in Shapes : Arrive(r, q)
                   \/ NewEntry(r) \/ WriteLine(r) \/ AppendEntry(r)
                   \/ Pipeline(r)
                /\ UNCHANGED verification

Reading == /\ \E c \in Readers, size \in Sizes : ListAuditLogs(c, size)
           /\ UNCHANGED verification

Outer == /\ K!Tick \/ \E t \in Tokens : K!Revoke(t)
         /\ UNCHANGED <<path, store, own, verdict>>

\* The cache is gone with the process, and what the requests held, too.
Die == /\ Crash
       /\ cache' = [t \in {} |-> NoEntry]
       /\ authpc' = [r \in Requests |-> IF authpc[r] \in K!Idle THEN authpc[r] ELSE "start"]
       /\ got' = [r \in Requests |-> NoEntry]
       /\ ans' = [r \in Requests |-> NoAnswer]
       /\ life' = [r \in Requests |-> 0]

DeployedNext == \/ \E r \in Requests \ dead : EnterAuth(r) \/ Verify(r) \/ Elsewhere(r)
                \/ Reading \/ Outer \/ Die

Deployed == DeployedInit /\ [][DeployedNext]_<<vars, verification>>
--------------------------------------------------------------------------
(* What makes it correct. *)

\* The identity that policy and audit act upon is the one that Hydra gave for the
\* token of this very request, also when another request asked for it and the
\* answer came from the cache that they share.
IdentityIsHydras == \A r \in Requests : ctx[r] # NoClient => ctx[r] = client[r]

\* Inside the gateway, too, over crashes that empty its cache and requests that
\* wait in other layers, token verification admits and rejects as promised.
TokenContract == T!Spec
--------------------------------------------------------------------------
(* The strengthening that the proofs of Deployment_proofs carry along.     *)

Agreement == /\ verdict = Verdict
             /\ \A r \in Requests : verdict[r] = "admitted" => client[r] = Owner[token[r]]
===========================================================================
