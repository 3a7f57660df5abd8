---------------------------- MODULE Mediation ----------------------------
(* What the request path promises, said without bodies, headers and layers: *)
(* a request is handed to upstream at most once, in the name of the client  *)
(* whose token it presents, as a call that client has a right to if the     *)
(* policy governs it, and ends with exactly one entry in the log.  Gateway  *)
(* implements this specification.                                           *)
EXTENDS Naturals, Sequences

CONSTANTS Requests,  \* the requests served
          Shapes,    \* what a request may be; a shape has an owner and is a
                     \* health check or not
          Clients,   \* OAuth2 clients
          Calls,     \* what a request may ask of upstream
          Rights,    \* the <<shape, client, call>> that may be handed over
          NoClient, NoShape

VARIABLES asked,     \* asked[r]: the shape of request r
          stage,     \* "new", "open" or "over"
          identity,  \* identity[r]: the client it has been admitted as
          upstream,  \* what has been handed over
          log        \* the audit entries

vars == <<asked, stage, identity, upstream, log>>

Init == /\ asked = [r \in Requests |-> NoShape]
        /\ stage = [r \in Requests |-> "new"]
        /\ identity = [r \in Requests |-> NoClient]
        /\ upstream = {}
        /\ log = <<>>

Arrive(r) == /\ stage[r] = "new"
             /\ \E s \in Shapes : asked' = [asked EXCEPT ![r] = s]
             /\ stage' = [stage EXCEPT ![r] = "open"]
             /\ UNCHANGED <<identity, upstream, log>>

Identify(r) == /\ stage[r] = "open"
               /\ identity[r] = NoClient
               /\ identity' = [identity EXCEPT ![r] = asked[r].owner]
               /\ UNCHANGED <<asked, stage, upstream, log>>

HandOver(r) ==
    /\ stage[r] = "open"
    /\ identity[r] # NoClient
    /\ \A u \in upstream : u.from # r
    /\ \E c \in Calls :
          /\ <<asked[r], identity[r], c>> \in Rights
          /\ upstream' = upstream \cup {[from |-> r, text |-> c]}
    /\ UNCHANGED <<asked, stage, identity, log>>

\* Who has no identity was denied; the rest is open here, for upstream's own
\* refusal is a DENY and the proxy's an ALLOW.
Finish(r) ==
    /\ stage[r] = "open"
    /\ \E d \in {"ALLOW", "DENY"} :
          /\ identity[r] = NoClient => d = "DENY"
          /\ log' = Append(log, [from |-> r, client |-> identity[r], decision |-> d])
    /\ stage' = [stage EXCEPT ![r] = "over"]
    /\ UNCHANGED <<asked, identity, upstream>>

\* A health check, which is nobody's and goes nowhere.
Excuse(r) == /\ stage[r] = "open"
             /\ asked[r].health
             /\ identity[r] = NoClient
             /\ stage' = [stage EXCEPT ![r] = "over"]
             /\ UNCHANGED <<asked, identity, upstream, log>>

Next == \E r \in Requests :
            Arrive(r) \/ Identify(r) \/ HandOver(r) \/ Finish(r) \/ Excuse(r)

Spec == Init /\ [][Next]_vars
==========================================================================
