------------------------------ MODULE System ------------------------------
(* The gateway as main.run puts it together: the request path of Gateway,   *)
(* with token verification as TokenGate promises it and TokenAuth           *)
(* implements it, recording into the audit trail of AuditStore while an     *)
(* operator reads it, and a process that may die at any point.              *)
EXTENDS Integers, Sequences, FiniteSets

CONSTANTS Requests, Shapes, Clients, Tools, NoTool, Wildcard, Grants,
          NoClient, NoShape, Answers, MaxEvents,               \* Gateway
          Tokens, NoToken, Owner, Exp, TTL, MaxLag, MaxTime,   \* TokenGate
          Readers, N, DefaultPage, MaxPage, Sizes, MaxIds, NoEntry  \* AuditStore

VARIABLES req, pc, body, toolName, ctx, header, rec, deadline, sent, forwarded, trail,
          gone, cancelled, stream,                             \* Gateway
          clock, revokedAt, token, verdict, client,            \* TokenGate
          slots, head, count, appended, created, wpc, held, file, lost,
          scan, answer,                                        \* AuditStore
          about,     \* about[e]: what entry e says
          arrivedAt, \* history: when each request arrived
          dead       \* the requests that a crash has cut off

G == INSTANCE Gateway
T == INSTANCE TokenGate
A == INSTANCE AuditStore WITH Writers <- Requests, Offsets <- 0..N

ASSUME SystemOK == /\ Shapes \subseteq G!AllShapes
                   /\ NoClient \notin Clients
                   /\ Answers \subseteq G!Statuses
                   /\ MaxEvents \in Nat
                   /\ Owner \in [Tokens -> Clients]
                   /\ NoToken \notin Tokens
                   /\ Exp \in [Tokens -> Nat]
                   /\ {TTL, MaxLag, MaxTime, MaxIds} \subseteq Nat
                   /\ {N, MaxPage} \subseteq Nat \ {0}
                   /\ DefaultPage \in 1..MaxPage
                   /\ Sizes \subseteq Int
                   /\ NoEntry \notin Nat

path  == <<req, pc, body, toolName, ctx, header, rec, deadline, sent, forwarded, trail,
           gone, cancelled, stream>>
gate  == <<clock, revokedAt, token, verdict, client>>
store == <<slots, head, count, appended, created, wpc, held, file, lost, scan, answer>>
own   == <<about, arrivedAt, dead>>
vars  == <<path, gate, store, own>>

Init == /\ G!Init /\ T!Init /\ A!Init
        /\ about = <<>>
        /\ arrivedAt = [r \in Requests |-> 0]
        /\ dead = {}

Arrive(r, q) == /\ G!Arrive(r, q)
                /\ arrivedAt' = [arrivedAt EXCEPT ![r] = clock]
                /\ UNCHANGED <<gate, store, about, dead>>

(* Token verification: the Authorization header, then one of two ends. *)

Presents(q) == {t \in Tokens : Owner[t] = q.owner} \cup
                  (IF q.owner = NoClient THEN {NoToken} ELSE {})

AuditEnter(r) == /\ G!AuditEnter(r)
                 /\ \E t \in Presents(req[r]) : T!Arrive(r, t)
                 /\ UNCHANGED <<store, own>>

Admit(r) == /\ G!Admit(r) /\ T!Admit(r)
            /\ UNCHANGED <<store, own>>

Reject(r) == /\ G!Reject(r) /\ T!Reject(r)
             /\ UNCHANGED <<store, own>>

(* The audit middleware's exit, step by step in the store. *)

NewEntry(r) == /\ pc[r] = "record"
               /\ A!NewEntry(r)
               /\ about' = Append(about, [from |-> r, client |-> rec[r].client,
                                          tool |-> toolName[r],
                                          decision |-> G!Decision(rec[r].status)])
               /\ UNCHANGED <<path, gate, arrivedAt, dead>>

WriteLine(r) == /\ A!WriteLine(r)
                /\ UNCHANGED <<path, gate, own>>

AppendEntry(r) == /\ A!AppendEntry(r) /\ G!AuditExit(r)
                  /\ UNCHANGED <<gate, own>>

(* All else. *)

Pipeline(r) == /\ G!Handle(r) \/ G!Outside(r)
               /\ UNCHANGED <<gate, store, own>>

\* The operator walks; what made-up tokens find is left to AuditStore.
ListAuditLogs(c, size) == /\ A!ListAuditLogs(c, size)
                          /\ UNCHANGED <<path, gate, own>>

World == /\ T!Tick \/ \E t \in Tokens : T!Revoke(t)
         /\ UNCHANGED <<path, store, own>>

\* The process dies with all it held and starts again.
Crash == /\ A!Restart
         /\ dead' = dead \cup {r \in Requests : pc[r] \notin {"new", "done"}}
         /\ UNCHANGED <<path, gate, about, arrivedAt>>

Next == \/ \E r \in Requests \ dead :
              \/ \E q \in Shapes : Arrive(r, q)
              \/ AuditEnter(r) \/ Admit(r) \/ Reject(r)
              \/ NewEntry(r) \/ WriteLine(r) \/ AppendEntry(r)
              \/ Pipeline(r)
        \/ \E c \in Readers, size \in Sizes : ListAuditLogs(c, size)
        \/ World
        \/ Crash

Spec == Init /\ [][Next]_vars
--------------------------------------------------------------------------
(* What makes it correct. *)

\* Revocation reaches the tools: what goes upstream came in before its token had
\* been revoked for longer than the cache and a slow answer can hide it, and
\* before the token's own end, however the requests and the clock interleave.
RevocationTakesEffect ==
    \A f \in forwarded :
        LET t == token[f.from]
        IN /\ t \in Tokens
           /\ arrivedAt[f.from] <= revokedAt[t] + TTL + MaxLag
           /\ Exp[t] > 0 => arrivedAt[f.from] <= Exp[t] + MaxLag

\* What the operator is shown is what happened: each entry names the owner of
\* the very token the request presented if that was accepted and nobody if it
\* was not, what auth or policy refused is a DENY, and a call that went upstream
\* in a JSON body appears under the method that did.
OperatorSeesTheTruth ==
    \A c \in Readers : \A e \in scan[c].seen :
        LET a == about[e]
        IN /\ a.client = IF verdict[a.from] = "admitted" THEN Owner[token[a.from]] ELSE NoClient
           /\ a.client = NoClient => a.decision = "DENY"
           /\ sent[a.from] \in {"unauthorized", "forbidden"} => a.decision = "DENY"
           /\ (req[a.from].post /\ req[a.from].json /\ req[a.from].cut = "no") =>
                 \A f \in forwarded :
                    (f.from = a.from /\ f.text \in G!Calls) => a.tool = f.text.method

\* Every call that went upstream is accounted for: once its request is over,
\* with one line in the file, written or failed; one that a crash has cut off
\* with at most one.
CallsAccounted ==
    \A f \in forwarded :
        LET lines == {e \in file \cup lost : about[e].from = f.from}
        IN /\ Cardinality(lines) <= 1
           /\ pc[f.from] = "done" => lines # {}
--------------------------------------------------------------------------
(* The strengthening that the proofs of System_proofs carry along, beside  *)
(* those of Gateway and AuditStore: where the components meet.             *)

ClockOK == /\ clock \in 0..MaxTime
           /\ revokedAt \in [Tokens -> 0..T!Never]
           /\ arrivedAt \in [Requests -> 0..clock]
           /\ token \in [Requests -> Tokens \cup {NoToken}]
           /\ verdict \in [Requests -> {"none", "pending", "admitted", "rejected"}]

\* The layers know a client when token verification has admitted it, on a token
\* that was still good when the request arrived or within the limits.
GateOK(r) ==
    /\ pc[r] \in {"new", "audit"} => verdict[r] = "none"
    /\ pc[r] = "auth" => verdict[r] = "pending"
    /\ ctx[r] # NoClient <=> verdict[r] = "admitted"
    /\ verdict[r] # "none" => token[r] \in Presents(req[r])
    /\ verdict[r] = "admitted" =>
          /\ token[r] \in Tokens
          /\ arrivedAt[r] <= revokedAt[token[r]] + TTL + MaxLag
          /\ Exp[token[r]] > 0 => arrivedAt[r] <= Exp[token[r]] + MaxLag

\* Entry e says of its request what the layers know, and is its only one.
AboutOK ==
    /\ about \in Seq(G!Entries) /\ Len(about) = created
    /\ file \cup lost \subseteq 1..created
    /\ \A e \in 1..created :
          LET a == about[e]
          IN /\ pc[a.from] \in {"record", "done"}
             /\ pc[a.from] = "record" => wpc[a.from] # "idle" \/ a.from \in dead
             /\ a.client = ctx[a.from] /\ a.tool = toolName[a.from]
             /\ (a.client = NoClient \/ sent[a.from] \in {"unauthorized", "forbidden"})
                   => a.decision = "DENY"
    /\ \A d, e \in 1..created : about[d].from = about[e].from => d = e

\* A request records when its handler has returned, and then has a line.
RecordOK(r) ==
    /\ wpc[r] # "idle" => /\ pc[r] = "record" /\ r \notin dead
                          /\ held[r] \in 1..created
                          /\ about[held[r]].from = r
    /\ wpc[r] = "append" => held[r] \in file \cup lost
    /\ pc[r] = "done" /\ ~ req[r].health => \E e \in file \cup lost : about[e].from = r

Meeting == ClockOK /\ AboutOK /\ \A r \in Requests : GateOK(r) /\ RecordOK(r)
==========================================================================
