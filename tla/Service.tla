----------------------------- MODULE Service -----------------------------
(* What main.run promises to those who call the gateway and to the one who *)
(* runs it: the door opens once and closes for good, and a request that    *)
(* was let in is recorded, unless the first signal killed the process or   *)
(* the process, its door shut, gave up waiting when its time was over.     *)
(* Lifecycle implements this specification.                                *)
CONSTANT Requests

VARIABLES door,     \* "before", "open" or "shut"
          handler,  \* each request: "none", "running", "recorded" or "lost"
          told,     \* somebody has asked the process to end
          overdue,  \* the time for an orderly end is over
          exit      \* "none" while the process lives; "ok", "error" or "killed"

vars == <<door, handler, told, overdue, exit>>

Running == {r \in Requests : handler[r] = "running"}

Init == /\ door = "before"
        /\ handler = [r \in Requests |-> "none"]
        /\ told = FALSE
        /\ overdue = FALSE
        /\ exit = "none"

Move == /\ \/ door = "before" /\ door' = "open"
           \/ door' = "shut"
        /\ UNCHANGED <<handler, told, overdue, exit>>

Accept(r) == /\ door = "open"
             /\ handler[r] = "none"
             /\ handler' = [handler EXCEPT ![r] = "running"]
             /\ UNCHANGED <<door, told, overdue, exit>>

Record(r) == /\ handler[r] = "running"
             /\ handler' = [handler EXCEPT ![r] = "recorded"]
             /\ UNCHANGED <<door, told, overdue, exit>>

Tell == told' = TRUE /\ UNCHANGED <<door, handler, overdue, exit>>

Expire == overdue' = TRUE /\ UNCHANGED <<door, handler, told, exit>>

\* An end in good order: nobody is inside, nobody can come in, and only who was
\* told to end says that all is well.
Finish == /\ door # "open"
          /\ Running = {}
          /\ exit' \in {"error"} \cup (IF told THEN {"ok"} ELSE {})
          /\ UNCHANGED <<door, handler, told, overdue>>

\* The two ends that may cut requests off.
CutOff == /\ \/ door = "shut" /\ overdue /\ exit' = "error" /\ UNCHANGED told
             \/ ~ told /\ told' = TRUE /\ exit' = "killed"
          /\ handler' = [r \in Requests |-> IF r \in Running THEN "lost" ELSE handler[r]]
          /\ UNCHANGED <<door, overdue>>

Next == /\ exit = "none"
        /\ \/ Move \/ Tell \/ Expire \/ Finish \/ CutOff
           \/ \E r \in Requests : Accept(r) \/ Record(r)

Spec == Init /\ [][Next]_vars
==========================================================================
