---------------------------- MODULE AuditStore ----------------------------
(* The audit trail behind the middleware: NewEntry (internal/audit/        *)
(* entry.go), Logger.Log (logger.go), the ring buffer (store.go), and      *)
(* ListAuditLogs (internal/grpcserver/server.go) with a client that walks  *)
(* the trail page by page while requests go on adding to it.               *)
EXTENDS Integers, Sequences

CONSTANTS Writers,     \* requests that are being recorded
          Readers,     \* clients of ListAuditLogs
          N,           \* maxStoreSize
          DefaultPage, \* defaultPageSize, 20
          MaxPage,     \* maxPageSize, 100
          Sizes,       \* the page sizes that clients ask for
          Offsets,     \* the numbers that clients may write into a page_token
          MaxIds,      \* bound: the number of entries created
          NoEntry      \* an empty slot

ASSUME SizesOK == /\ N \in Nat \ {0}
                  /\ MaxPage \in Nat \ {0}
                  /\ DefaultPage \in 1..MaxPage
                  /\ Sizes \subseteq Int
                  /\ 0..N \subseteq Offsets /\ Offsets \subseteq Nat
                  /\ MaxIds \in Nat
                  /\ NoEntry \notin Nat

VARIABLES slots,    \* Store.entries
          head,     \* Store.head, the slot of the next append
          count,    \* Store.count
          appended, \* history: every entry appended since the process started
          created,  \* entries created so far; an entry is its number (its ID)
          wpc,      \* where each writer stands between NewEntry and Append
          held,     \* the entry it holds
          file,     \* the entries with a line in the log file
          lost,     \* history: entries whose line could not be written
          scan,     \* per reader: next page_token (0 for none), and as history the
                    \* entries stored when its walk began and those it has been shown
          answer    \* the last response to each reader

vars == <<slots, head, count, appended, created, wpc, held, file, lost, scan, answer>>

Ids == 1..MaxIds

Init == /\ slots = [i \in 0..(N - 1) |-> NoEntry]
        /\ head = 0 /\ count = 0
        /\ appended = <<>>
        /\ created = 0
        /\ wpc = [w \in Writers |-> "idle"]
        /\ held = [w \in Writers |-> NoEntry]
        /\ file = {} /\ lost = {}
        /\ scan = [c \in Readers |-> [next |-> 0, sought |-> {}, seen |-> {}]]
        /\ answer = [c \in Readers |-> [entries |-> <<>>, total |-> 0]]

(* Logger.Log on a new entry. *)

\* Mutant of NewEntry: the store gets the entry and the file does not.
NewEntryUnwritten(w) == /\ wpc[w] = "idle"
                        /\ created < MaxIds
                        /\ created' = created + 1
                        /\ held' = [held EXCEPT ![w] = created']
                        /\ wpc' = [wpc EXCEPT ![w] = "append"]
                        /\ UNCHANGED <<slots, head, count, appended, file, lost, scan, answer>>

NewEntry(w) == /\ wpc[w] = "idle"
               /\ created < MaxIds
               /\ created' = created + 1
               /\ held' = [held EXCEPT ![w] = created']
               /\ wpc' = [wpc EXCEPT ![w] = "write"]
               /\ UNCHANGED <<slots, head, count, appended, file, lost, scan, answer>>

\* slog writes the line, or fails to: Log does not look at the outcome.
WriteLine(w) == /\ wpc[w] = "write"
                /\ \/ file' = file \cup {held[w]} /\ UNCHANGED lost
                   \/ lost' = lost \cup {held[w]} /\ UNCHANGED file
                /\ wpc' = [wpc EXCEPT ![w] = "append"]
                /\ UNCHANGED <<slots, head, count, appended, created, held, scan, answer>>

\* Mutant of AppendEntry: the head does not wrap around.
AppendEntryUnwrapped(w) == /\ wpc[w] = "append"
                           /\ slots' = [slots EXCEPT ![head] = held[w]]
                           /\ head' = head + 1
                           /\ count' = IF count < N THEN count + 1 ELSE count
                           /\ appended' = Append(appended, held[w])
                           /\ wpc' = [wpc EXCEPT ![w] = "idle"]
                           /\ held' = [held EXCEPT ![w] = NoEntry]
                           /\ UNCHANGED <<created, file, lost, scan, answer>>

\* Store.Append under the lock.
AppendEntry(w) == /\ wpc[w] = "append"
                  /\ slots' = [slots EXCEPT ![head] = held[w]]
                  /\ head' = (head + 1) % N
                  /\ count' = IF count < N THEN count + 1 ELSE count
                  /\ appended' = Append(appended, held[w])
                  /\ wpc' = [wpc EXCEPT ![w] = "idle"]
                  /\ held' = [held EXCEPT ![w] = NoEntry]
                  /\ UNCHANGED <<created, file, lost, scan, answer>>

(* ListAuditLogs. *)

Smaller(a, b) == IF a < b THEN a ELSE b

\* The clamp that ListAuditLogs and List both apply.
Clamp(size) == IF size <= 0 THEN DefaultPage ELSE Smaller(size, MaxPage)

\* Mutant of Physical: head taken for the newest slot.
PhysicalFromHead(i) == (head - i + N) % N

\* The slot of the entry that i newer ones follow.
Physical(i) == (head - 1 - i + N) % N

Newest(i) == slots[Physical(i)]

\* Store.List under the read lock: nothing from beyond the end.
List(offset, limit) ==
    [i \in 1..Smaller(Clamp(limit), count - offset) |-> Newest(offset + i - 1)]

Stored == {Newest(i) : i \in 0..(count - 1)}

\* Mutants of NextToken: one entry is skipped; a token past the last entry.
NextTokenSkips(next) == IF next + 1 < count THEN next + 1 ELSE 0
NextTokenPastEnd(next) == IF next <= count THEN next ELSE 0

\* The token of the page that starts at offset next, 0 when there is none.
NextToken(next) == IF next < count THEN next ELSE 0

\* One call.  With no token the walk begins, else it goes on from the token,
\* which counts from the newest entry at the time of the call.
ListAuditLogs(c, size) ==
    LET offset == scan[c].next
        entries == List(offset, Clamp(size))
        next == offset + Len(entries)
        shown == {entries[i] : i \in DOMAIN entries}
    IN /\ answer' = [answer EXCEPT ![c] = [entries |-> entries, total |-> count]]
       /\ scan' = [scan EXCEPT ![c] =
                     [next   |-> NextToken(next),
                      sought |-> IF offset = 0 THEN Stored ELSE @.sought,
                      seen   |-> IF offset = 0 THEN shown ELSE @.seen \cup shown]]
       /\ UNCHANGED <<slots, head, count, appended, created, wpc, held, file, lost>>

\* A call with a page_token that the client has kept or made up, past the last
\* entry perhaps.  (A token that is no number or negative is refused, and
\* changes nothing.)
Probe(c, offset, size) ==
    /\ answer' = [answer EXCEPT ![c] = [entries |-> List(offset, Clamp(size)), total |-> count]]
    /\ UNCHANGED <<slots, head, count, appended, created, wpc, held, file, lost, scan>>

\* The process dies and starts again: the ring and the requests are gone, the
\* file and the readers' tokens stay.
Restart == /\ slots' = [i \in 0..(N - 1) |-> NoEntry]
           /\ head' = 0 /\ count' = 0
           /\ appended' = <<>>
           /\ wpc' = [w \in Writers |-> "idle"]
           /\ held' = [w \in Writers |-> NoEntry]
           /\ UNCHANGED <<created, file, lost, scan, answer>>

Next == \/ \E w \in Writers : NewEntry(w) \/ WriteLine(w) \/ AppendEntry(w)
        \/ \E c \in Readers, size \in Sizes :
              ListAuditLogs(c, size) \/ \E offset \in Offsets : Probe(c, offset, size)
        \/ Restart

Spec == Init /\ [][Next]_vars

--------------------------------------------------------------------------
(* What makes it correct. *)

TypeOK == /\ slots \in [0..(N - 1) -> Ids \cup {NoEntry}]
          /\ head \in 0..(N - 1)
          /\ count \in 0..N
          /\ appended \in Seq(Ids)
          /\ created \in 0..MaxIds
          /\ wpc \in [Writers -> {"idle", "write", "append"}]
          /\ held \in [Writers -> Ids \cup {NoEntry}]
          /\ file \subseteq Ids /\ lost \subseteq Ids
          /\ scan \in [Readers -> [next : 0..(N - 1), sought : SUBSET Ids, seen : SUBSET Ids]]
          /\ DOMAIN answer = Readers

\* A walk that has come to its end has shown every entry that was stored when
\* it began and is stored still, whatever was appended between its pages.
WalkMissesNothing ==
    \A c \in Readers : scan[c].next = 0 => scan[c].sought \cap Stored \subseteq scan[c].seen

\* A walk goes forward: a page that is not the last hands out a later token, so
\* no walk takes more than N calls even when entries keep coming.
WalkAdvances ==
    [][\A c \in Readers :
         (scan'[c] # scan[c] /\ scan'[c].next # 0) =>
            scan[c].next < scan'[c].next /\ scan'[c].next < count]_vars

\* Whatever an operator has been shown has a line in the file, unless that very
\* write failed; a crash does not take it back.
ShownIsWritten ==
    \A c \in Readers :
        scan[c].seen \cup {answer[c].entries[i] : i \in DOMAIN answer[c].entries}
            \subseteq file \cup lost

\* The ring is a window on the log of all appends.
Trail == INSTANCE AuditTrail WITH Entries <- Ids, Cap <- N, log <- appended

TrailContract == Trail!Spec

--------------------------------------------------------------------------
(* The strengthening that the proofs of AuditStore_proofs carry along.     *)

Appended == {appended[k] : k \in DOMAIN appended}

\* The slots, read backwards from head, are the end of the log.
RingOK == /\ count = Smaller(Len(appended), N)
          /\ \A i \in 0..(count - 1) : Newest(i) = appended[Len(appended) - i]

\* An entry is held by one writer, or appended once; a walk has seen neither
\* it nor any later one before it was appended.
IdsOK == /\ Appended \subseteq 1..created
         /\ \A c \in Readers : scan[c].sought \subseteq 1..created
         /\ \A w \in Writers : wpc[w] # "idle" =>
               /\ held[w] \in 1..created
               /\ held[w] \notin Appended
               /\ \A c \in Readers : held[w] \notin scan[c].sought
               /\ \A v \in Writers \ {w} : wpc[v] # "idle" => held[v] # held[w]

WrittenOK == /\ Appended \subseteq file \cup lost
             /\ \A w \in Writers : wpc[w] = "append" => held[w] \in file \cup lost

\* A walk has been shown all it seeks among the newest "next" entries, and all
\* there is of it at its end.
WalksOK ==
    \A c \in Readers : \A i \in 0..(count - 1) :
        (scan[c].next = 0 \/ i < scan[c].next) /\ Newest(i) \in scan[c].sought
            => Newest(i) \in scan[c].seen

Inductive == TypeOK /\ RingOK /\ IdsOK /\ WrittenOK /\ ShownIsWritten /\ WalksOK
==========================================================================
