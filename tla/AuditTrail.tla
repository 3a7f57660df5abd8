---------------------------- MODULE AuditTrail ----------------------------
(* What the audit store promises to the management API, without a ring:    *)
(* entries are appended to a log, and a reading returns a page of the Cap  *)
(* newest of them, newest first.  A restart of the process starts the log  *)
(* anew.  AuditStore implements this specification.                        *)
EXTENDS Integers, Sequences

CONSTANTS Entries,  \* audit entries
          Readers,  \* clients of ListAuditLogs
          Offsets,  \* where a reading may start
          Cap,      \* how many entries are kept
          MaxPage   \* how many a page holds at most

VARIABLES log,      \* the entries appended since the process started
          answer    \* answer[c]: the page that client c read last

vars == <<log, answer>>

Smaller(a, b) == IF a < b THEN a ELSE b

Kept == Smaller(Len(log), Cap)

\* The page of at most n entries that starts after the offset newest.
Page(offset, n) ==
    [entries |-> [i \in 1..Smaller(n, Kept - offset) |-> log[Len(log) - offset - i + 1]],
     total   |-> Kept]

Init == /\ log = <<>>
        /\ answer = [c \in Readers |-> [entries |-> <<>>, total |-> 0]]

Add(e) == /\ log' = Append(log, e)
          /\ UNCHANGED answer

Read(c, offset, n) == /\ answer' = [answer EXCEPT ![c] = Page(offset, n)]
                      /\ UNCHANGED log

Restart == /\ log' = <<>>
           /\ UNCHANGED answer

Next == \/ \E e \in Entries : Add(e)
        \/ \E c \in Readers, offset \in Offsets, n \in 1..MaxPage : Read(c, offset, n)
        \/ Restart

Spec == Init /\ [][Next]_vars
==========================================================================
