------------------------ MODULE AuditStore_proofs ------------------------
(* Theorems of AuditStore, for every ring size, page size and number of    *)
(* writers, readers and entries.                                           *)
EXTENDS AuditStore, SequenceTheorems, TLAPS

\* Arithmetic of the ring: one step forward, and the slot i entries back.
LEMMA NextSlot ==
    ASSUME NEW h \in 0..(N - 1)
    PROVE  (h + 1) % N = IF h + 1 = N THEN 0 ELSE h + 1
BY SizesOK

LEMMA BackSlot ==
    ASSUME NEW h \in 0..(N - 1), NEW i \in 0..(N - 1)
    PROVE  (h - 1 - i + N) % N = IF i < h THEN h - 1 - i ELSE h - 1 - i + N
<1>1. CASE i < h
  BY <1>1, SizesOK
<1>2. CASE ~ (i < h)
  BY <1>2, SizesOK
<1> QED BY <1>1, <1>2

\* Type facts about the constants and operators that most steps need.
LEMMA ClampInPage ==
    ASSUME NEW size \in Int
    PROVE  Clamp(size) \in 1..MaxPage
BY SizesOK DEF Clamp, Smaller

LEMMA SlotsInRing ==
    ASSUME TypeOK, NEW i \in 0..(count - 1)
    PROVE  Physical(i) \in 0..(N - 1) /\ i \in 0..(N - 1)
BY BackSlot, SizesOK DEF TypeOK, Physical

\* One append: the new entry is the newest, and each older one moves back.
LEMMA AppendShifts ==
    ASSUME TypeOK, RingOK, NEW w \in Writers, AppendEntry(w)
    PROVE  /\ count' \in 1..N
           /\ count' = Smaller(Len(appended'), N)
           /\ Len(appended') = Len(appended) + 1
           /\ Newest(0)' = held[w]
           /\ \A i \in 1..(count' - 1) : i - 1 \in 0..(count - 1) /\ Newest(i)' = Newest(i - 1)
<1> USE SizesOK
<1>1. /\ head \in 0..(N - 1) /\ count \in 0..N /\ Len(appended) \in Nat
      /\ head' = IF head + 1 = N THEN 0 ELSE head + 1
      /\ head' \in 0..(N - 1)
  BY NextSlot DEF TypeOK, AppendEntry
<1>2. slots' = [slots EXCEPT ![head] = held[w]] /\ slots \in [0..(N - 1) -> Ids \cup {NoEntry}]
  BY DEF TypeOK, AppendEntry
<1>3. count' \in 1..N /\ count' = Smaller(Len(appended'), N) /\ Len(appended') = Len(appended) + 1
  BY <1>1 DEF TypeOK, RingOK, AppendEntry, Smaller
<1>4. Newest(0)' = held[w]
  <2>1. Physical(0)' = head
    BY <1>1, BackSlot DEF Physical
  <2> QED BY <1>1, <1>2, <2>1 DEF Newest
<1>5. ASSUME NEW i \in 1..(count' - 1)
      PROVE  i - 1 \in 0..(count - 1) /\ Newest(i)' = Newest(i - 1)
  <2>1. i \in 1..(N - 1) /\ i - 1 \in 0..(N - 2) /\ i - 1 \in 0..(count - 1)
    BY <1>1, <1>3 DEF AppendEntry
  <2>2. Physical(i)' = IF i < head' THEN head' - 1 - i ELSE head' - 1 - i + N
    BY <1>1, <2>1, BackSlot DEF Physical
  <2>3. Physical(i - 1) = IF i - 1 < head THEN head - 1 - (i - 1) ELSE head - 1 - (i - 1) + N
    <3> DEFINE j == i - 1
    <3>1. j \in 0..(N - 1)
      BY <2>1
    <3> HIDE DEF j
    <3>2. Physical(j) = IF j < head THEN head - 1 - j ELSE head - 1 - j + N
      BY <1>1, <3>1, BackSlot DEF Physical
    <3> QED BY <3>2 DEF j
  <2>4. Physical(i)' = Physical(i - 1) /\ Physical(i - 1) # head /\ Physical(i - 1) \in 0..(N - 1)
    BY <1>1, <2>1, <2>2, <2>3
  <2> QED BY <1>2, <2>1, <2>4 DEF Newest
<1> QED BY <1>3, <1>4, <1>5

\* The ring still is the end of the log after an append.
LEMMA AppendKeepsRing ==
    ASSUME TypeOK, RingOK, NEW w \in Writers, AppendEntry(w), held[w] \in Ids
    PROVE  RingOK' /\ appended' \in Seq(Ids) /\ Appended' = Appended \cup {held[w]}
<1> USE SizesOK
<1>1. /\ appended \in Seq(Ids) /\ appended' = Append(appended, held[w])
      /\ Len(appended) \in Nat /\ count \in 0..N
  BY DEF TypeOK, AppendEntry
<1>2. appended' \in Seq(Ids)
  BY <1>1
<1>3. /\ appended'[Len(appended) + 1] = held[w]
      /\ \A k \in 1..Len(appended) : appended'[k] = appended[k]
      /\ DOMAIN appended = 1..Len(appended)
      /\ DOMAIN appended' = 1..(Len(appended) + 1)
  BY <1>1
<1>4. Appended' = Appended \cup {held[w]}
  BY <1>1, <1>3 DEF Appended
<1>5. ASSUME NEW i \in 0..(count' - 1)
      PROVE  Newest(i)' = appended'[Len(appended') - i]
  <2>1. CASE i = 0
    BY <1>1, <1>3, <2>1, AppendShifts
  <2>2. CASE i # 0
    <3>1. /\ i \in 1..(count' - 1) /\ i - 1 \in 0..(count - 1) /\ Newest(i)' = Newest(i - 1)
          /\ Len(appended') = Len(appended) + 1 /\ count = Smaller(Len(appended), N)
      BY <2>2, AppendShifts DEF RingOK
    <3>2. Newest(i - 1) = appended[Len(appended) - (i - 1)]
      BY <3>1 DEF RingOK
    <3>3. Len(appended') - i = Len(appended) - (i - 1) /\ Len(appended) - (i - 1) \in 1..Len(appended)
      BY <1>1, <3>1 DEF Smaller
    <3> QED BY <1>3, <3>1, <3>2, <3>3
  <2> QED BY <2>1, <2>2
<1> QED BY <1>2, <1>4, <1>5, AppendShifts DEF RingOK

\* What is stored is the end of the log, so it has been appended.
LEMMA StoredWasAppended ==
    ASSUME TypeOK, RingOK
    PROVE  /\ \A i \in 0..(count - 1) : Newest(i) \in Appended
           /\ Stored \subseteq Appended /\ Appended \subseteq Ids
<1>1. ASSUME NEW i \in 0..(count - 1) PROVE Newest(i) \in Appended
  <2>1. Len(appended) - i \in 1..Len(appended)
    BY SizesOK DEF TypeOK, RingOK, Smaller
  <2> QED BY <2>1 DEF RingOK, Appended, TypeOK
<1>2. Appended \subseteq Ids
  BY DEF Appended, TypeOK
<1> QED BY <1>1, <1>2 DEF Stored

\* A function on 1..m is a sequence of length m.
LEMMA LenOfTuple ==
    ASSUME NEW S, NEW m \in Nat, NEW f \in [1..m -> S]
    PROVE  f \in Seq(S) /\ Len(f) = m
<1>1. f \in Seq(S)
  OBVIOUS
<1>2. DOMAIN f = 1..Len(f) /\ Len(f) \in Nat
  BY <1>1, LenProperties
<1> QED BY <1>1, <1>2

\* The page that List returns.
LEMMA PageShape ==
    ASSUME TypeOK, NEW offset \in Nat, NEW limit \in Int
    PROVE  LET page == List(offset, limit)
           IN /\ offset < count => /\ Len(page) \in 1..(count - offset)
                                   /\ DOMAIN page = 1..Len(page)
              /\ ~ (offset < count) => Len(page) = 0 /\ DOMAIN page = {}
              /\ \A i \in DOMAIN page : page[i] = Newest(offset + i - 1)
<1> DEFINE m == Smaller(Clamp(limit), count - offset)
<1>1. Clamp(limit) \in 1..MaxPage /\ count \in 0..N
  BY ClampInPage DEF TypeOK
<1>2. \A i \in 1..m : List(offset, limit)[i] = Newest(offset + i - 1)
  BY DEF List
<1>3. DOMAIN List(offset, limit) = 1..m
  BY DEF List
<1>4. List(offset, limit) = [i \in 1..m |-> Newest(offset + i - 1)]
  BY DEF List
<1>5. CASE offset < count
  <2>1. m \in 1..(count - offset)
    BY <1>1, <1>5, SizesOK DEF Smaller
  <2>2. Len(List(offset, limit)) = m
    <3> DEFINE S == {Newest(offset + i - 1) : i \in 1..m}
    <3>1. List(offset, limit) \in [1..m -> S]
      BY <1>4
    <3> QED BY <2>1, <3>1, LenOfTuple
  <2> QED BY <1>2, <1>3, <1>5, <2>1, <2>2
<1>6. CASE ~ (offset < count)
  <2>1. 1..m = {} /\ 1..0 = {}
    BY <1>1, <1>6, SizesOK DEF Smaller
  <2>2. List(offset, limit) \in [1..0 -> {}]
    BY <1>4, <2>1
  <2>3. Len(List(offset, limit)) = 0
    BY <2>2, LenOfTuple
  <2> QED BY <1>3, <1>6, <2>1, <2>3
<1> QED BY <1>5, <1>6

\* A page holds nothing that has not been appended.
LEMMA PageWasAppended ==
    ASSUME TypeOK, RingOK, NEW offset \in Nat, NEW limit \in Int
    PROVE  LET page == List(offset, limit)
           IN {page[i] : i \in DOMAIN page} \subseteq Appended
<1> DEFINE page == List(offset, limit)
<1>1. /\ offset < count => Len(page) \in 1..(count - offset) /\ DOMAIN page = 1..Len(page)
      /\ ~ (offset < count) => DOMAIN page = {}
      /\ \A i \in DOMAIN page : page[i] = Newest(offset + i - 1)
  BY PageShape
<1>2. count \in 0..N /\ \A i \in 0..(count - 1) : Newest(i) \in Appended
  BY StoredWasAppended DEF TypeOK
<1> HIDE DEF page
<1> SUFFICES ASSUME NEW i \in DOMAIN page PROVE page[i] \in Appended
  BY DEF page
<1>3. offset < count /\ i \in 1..(count - offset)
  BY <1>1, <1>2, SizesOK
<1>4. offset + i - 1 \in 0..(count - 1)
  BY <1>2, <1>3, SizesOK
<1> QED BY <1>1, <1>2, <1>4

--------------------------------------------------------------------------
(* The inductive invariant. *)

THEOREM InitInductive == Init => Inductive
<1> SUFFICES ASSUME Init PROVE Inductive
  OBVIOUS
<1> USE SizesOK
<1>1. Len(appended) = 0 /\ DOMAIN appended = {} /\ Appended = {} /\ 0..(count - 1) = {}
  BY DEF Init, Appended
<1>2. TypeOK
  BY DEF Init, TypeOK
<1>3. RingOK /\ IdsOK /\ WrittenOK /\ ShownIsWritten /\ WalksOK
  BY <1>1 DEF Init, RingOK, IdsOK, WrittenOK, ShownIsWritten, WalksOK, Smaller
<1> QED BY <1>2, <1>3 DEF Inductive

\* A step that leaves the ring alone leaves what it says alone.
LEMMA RingFrame ==
    ASSUME UNCHANGED <<slots, head, count, appended>>
    PROVE  /\ Appended' = Appended /\ (RingOK => RingOK') /\ Stored' = Stored
           /\ \A i : Newest(i)' = Newest(i)
BY DEF Appended, RingOK, Stored, Newest, Physical

LEMMA NewEntryKeeps ==
    ASSUME Inductive, NEW w \in Writers, NewEntry(w)
    PROVE  Inductive'
<1> USE SizesOK DEF Inductive
<1>1. RingOK' /\ Appended' = Appended /\ \A i : Newest(i)' = Newest(i)
  BY RingFrame DEF NewEntry
<1>2. created \in 0..MaxIds /\ created' = created + 1 /\ created' \in Ids
  BY DEF TypeOK, NewEntry, Ids
<1>3. /\ held' = [held EXCEPT ![w] = created'] /\ held'[w] = created + 1
      /\ \A v \in Writers \ {w} : held'[v] = held[v] /\ wpc'[v] = wpc[v]
      /\ wpc'[w] = "write"
  BY <1>2 DEF TypeOK, NewEntry
<1>4. TypeOK'
  BY <1>2 DEF TypeOK, NewEntry
<1>5. IdsOK'
  <2>1. Appended' \subseteq 1..created' /\ \A c \in Readers : scan'[c].sought \subseteq 1..created'
    BY <1>1, <1>2 DEF IdsOK, NewEntry
  <2>2. ASSUME NEW v \in Writers, wpc'[v] # "idle"
        PROVE  /\ held'[v] \in 1..created' /\ held'[v] \notin Appended'
               /\ \A c \in Readers : held'[v] \notin scan'[c].sought
               /\ \A u \in Writers \ {v} : wpc'[u] # "idle" => held'[u] # held'[v]
    <3>1. CASE v = w
      <4>1. /\ created + 1 \in 1..created' /\ created + 1 \notin Appended
            /\ \A c \in Readers : created + 1 \notin scan[c].sought
        BY <1>2 DEF IdsOK
      <4>2. \A u \in Writers \ {w} : wpc[u] # "idle" => held[u] # created + 1
        BY <1>2 DEF IdsOK
      <4> QED BY <1>1, <1>3, <3>1, <4>1, <4>2 DEF NewEntry
    <3>2. CASE v # w
      <4>1. wpc[v] # "idle" /\ held'[v] = held[v] /\ held[v] \in 1..created
        BY <1>3, <2>2, <3>2 DEF IdsOK
      <4>2. held[v] # created + 1 /\ held[v] \in 1..created'
        BY <1>2, <4>1
      <4> QED BY <1>1, <1>3, <3>2, <4>1, <4>2 DEF IdsOK, NewEntry
    <3> QED BY <3>1, <3>2
  <2> QED BY <2>1, <2>2 DEF IdsOK
<1>6. WrittenOK' /\ ShownIsWritten' /\ WalksOK'
  BY <1>1, <1>3 DEF WrittenOK, ShownIsWritten, WalksOK, NewEntry
<1> QED BY <1>1, <1>4, <1>5, <1>6

LEMMA WriteLineKeeps ==
    ASSUME Inductive, NEW w \in Writers, WriteLine(w)
    PROVE  Inductive'
<1> USE SizesOK DEF Inductive
<1>1. RingOK' /\ Appended' = Appended /\ \A i : Newest(i)' = Newest(i)
  BY RingFrame DEF WriteLine
<1>2. held[w] \in Ids /\ wpc[w] # "idle" /\ wpc' = [wpc EXCEPT ![w] = "append"]
  BY DEF IdsOK, TypeOK, WriteLine, Ids
<1>3. file \cup lost \subseteq file' \cup lost' /\ held[w] \in file' \cup lost'
  BY DEF WriteLine
<1>4. TypeOK'
  BY <1>2 DEF TypeOK, WriteLine
<1>5. IdsOK'
  <2>1. \A v \in Writers : wpc'[v] # "idle" => wpc[v] # "idle"
    BY <1>2 DEF TypeOK
  <2> QED BY <1>1, <2>1 DEF IdsOK, WriteLine
<1>6. WrittenOK' /\ ShownIsWritten' /\ WalksOK'
  <2>1. \A v \in Writers : wpc'[v] = "append" => wpc[v] = "append" \/ v = w
    BY <1>2 DEF TypeOK
  <2> QED BY <1>1, <1>3, <2>1 DEF WrittenOK, ShownIsWritten, WalksOK, WriteLine
<1> QED BY <1>1, <1>4, <1>5, <1>6

LEMMA AppendEntryKeeps ==
    ASSUME Inductive, NEW w \in Writers, AppendEntry(w)
    PROVE  Inductive'
<1> USE SizesOK DEF Inductive
<1>1. held[w] \in Ids /\ wpc[w] = "append" /\ held[w] \in 1..created
  BY DEF IdsOK, TypeOK, AppendEntry, Ids
<1>2. RingOK' /\ appended' \in Seq(Ids) /\ Appended' = Appended \cup {held[w]}
  BY <1>1, AppendKeepsRing
<1>3. /\ wpc' = [wpc EXCEPT ![w] = "idle"] /\ held' = [held EXCEPT ![w] = NoEntry]
      /\ \A v \in Writers : wpc'[v] # "idle" => v # w /\ wpc'[v] = wpc[v] /\ held'[v] = held[v]
  BY DEF TypeOK, AppendEntry
<1>4. TypeOK'
  BY <1>1, <1>2, AppendShifts, NextSlot DEF TypeOK, AppendEntry
<1>5. IdsOK'
  BY <1>1, <1>2, <1>3 DEF IdsOK, AppendEntry
<1>6. WrittenOK' /\ ShownIsWritten'
  BY <1>1, <1>2, <1>3 DEF WrittenOK, ShownIsWritten, AppendEntry
<1>7. ASSUME NEW c \in Readers, NEW i \in 0..(count' - 1),
             scan'[c].next = 0 \/ i < scan'[c].next, Newest(i)' \in scan'[c].sought
      PROVE  Newest(i)' \in scan'[c].seen
  <2>1. scan' = scan /\ held[w] \notin scan[c].sought /\ scan[c].next \in 0..(N - 1)
    BY <1>1 DEF AppendEntry, IdsOK, TypeOK
  <2>2. i # 0
    BY <1>7, <2>1, AppendShifts
  <2>3. i - 1 \in 0..(count - 1) /\ Newest(i)' = Newest(i - 1)
    BY <2>2, AppendShifts
  <2>4. scan[c].next = 0 \/ i - 1 < scan[c].next
    BY <1>7, <2>1
  <2> QED BY <1>7, <2>1, <2>3, <2>4 DEF WalksOK
<1> QED BY <1>2, <1>4, <1>5, <1>6, <1>7 DEF WalksOK

LEMMA ListAuditLogsKeeps ==
    ASSUME Inductive, NEW c \in Readers, NEW size \in Sizes, ListAuditLogs(c, size)
    PROVE  Inductive'
<1> USE SizesOK DEF Inductive
<1> DEFINE offset == scan[c].next
           page == List(offset, Clamp(size))
           next == offset + Len(page)
           shown == {page[i] : i \in DOMAIN page}
<1>1. offset \in 0..(N - 1) /\ offset \in Nat /\ Clamp(size) \in Int /\ count \in 0..N
  <2>1. size \in Int
    OBVIOUS
  <2>2. Clamp(size) \in 1..MaxPage
    BY <2>1, ClampInPage
  <2>3. offset \in 0..(N - 1) /\ offset \in Nat /\ count \in 0..N
    BY DEF TypeOK
  <2> QED BY <2>2, <2>3
<1>2. /\ offset < count => Len(page) \in 1..(count - offset) /\ DOMAIN page = 1..Len(page)
      /\ ~ (offset < count) => Len(page) = 0 /\ DOMAIN page = {}
      /\ \A i \in DOMAIN page : page[i] = Newest(offset + i - 1)
  <2> HIDE DEF offset
  <2> QED BY <1>1, PageShape
<1> HIDE DEF page
<1>3. next \in Nat /\ offset <= next
  BY <1>1, <1>2
<1>4. scan'[c] = [next   |-> IF next < count THEN next ELSE 0,
                  sought |-> IF offset = 0 THEN Stored ELSE scan[c].sought,
                  seen   |-> IF offset = 0 THEN shown ELSE scan[c].seen \cup shown]
      /\ \A b \in Readers \ {c} : scan'[b] = scan[b]
  BY DEF ListAuditLogs, NextToken, TypeOK, page
<1>5. RingOK' /\ Appended' = Appended /\ \A i : Newest(i)' = Newest(i)
  BY RingFrame DEF ListAuditLogs
<1>7. Stored \subseteq Appended /\ Appended \subseteq Ids
  BY StoredWasAppended
<1>8. shown \subseteq Appended
  BY <1>1, PageWasAppended DEF page
<1>9. TypeOK'
  <2>1. scan'[c] \in [next : 0..(N - 1), sought : SUBSET Ids, seen : SUBSET Ids]
    BY <1>1, <1>3, <1>4, <1>7, <1>8 DEF TypeOK
  <2>2. scan' \in [Readers -> [next : 0..(N - 1), sought : SUBSET Ids, seen : SUBSET Ids]]
    BY <1>4, <2>1 DEF ListAuditLogs, TypeOK
  <2> QED BY <2>2 DEF TypeOK, ListAuditLogs
<1>10. IdsOK'
  <2>1. \A b \in Readers : scan'[b].sought \subseteq Appended \cup scan[b].sought
    BY <1>4, <1>7
  <2> QED BY <1>5, <2>1 DEF IdsOK, ListAuditLogs
<1>11. WrittenOK' /\ ShownIsWritten'
  <2>1. \A b \in Readers : scan'[b].seen \subseteq Appended \cup scan[b].seen
    BY <1>4, <1>8
  <2>2. answer'[c].entries = page /\ \A b \in Readers \ {c} : answer'[b] = answer[b]
    BY DEF ListAuditLogs, TypeOK, page
  <2> QED BY <1>5, <1>8, <2>1, <2>2 DEF WrittenOK, ShownIsWritten, ListAuditLogs
<1>12. ASSUME NEW b \in Readers, NEW i \in 0..(count - 1),
              scan'[b].next = 0 \/ i < scan'[b].next, Newest(i) \in scan'[b].sought
       PROVE  Newest(i) \in scan'[b].seen
  <2>1. CASE b # c
    BY <1>4, <1>12, <2>1 DEF WalksOK
  <2>2. CASE b = c
    <3>1. i < next
      BY <1>1, <1>2, <1>3, <1>4, <1>12, <2>2
    <3>2. CASE i < offset
      BY <1>1, <1>4, <1>12, <2>2, <3>2 DEF WalksOK
    <3>3. CASE ~ (i < offset)
      <4>1. i - offset + 1 \in DOMAIN page /\ offset + (i - offset + 1) - 1 = i
        BY <1>1, <1>2, <3>1, <3>3
      <4>2. page[i - offset + 1] = Newest(i)
        BY <1>2, <4>1
      <4>3. Newest(i) \in shown
        BY <4>1, <4>2
      <4> QED BY <1>4, <2>2, <4>3
    <3> QED BY <3>2, <3>3
  <2> QED BY <2>1, <2>2
<1>13. WalksOK'
  BY <1>5, <1>12 DEF WalksOK, ListAuditLogs
<1> QED BY <1>5, <1>9, <1>10, <1>11, <1>13

LEMMA ProbeKeeps ==
    ASSUME Inductive, NEW c \in Readers, NEW offset \in Offsets, NEW size \in Sizes,
           Probe(c, offset, size)
    PROVE  Inductive'
<1> USE SizesOK DEF Inductive
<1> DEFINE page == List(offset, Clamp(size))
<1>1. offset \in Nat /\ Clamp(size) \in Int
  <2>1. size \in Int
    OBVIOUS
  <2>2. Clamp(size) \in 1..MaxPage
    BY <2>1, ClampInPage
  <2> QED BY <2>2
<1>2. RingOK' /\ Appended' = Appended /\ \A i : Newest(i)' = Newest(i)
  BY RingFrame DEF Probe
<1>3. {page[i] : i \in DOMAIN page} \subseteq Appended
  BY <1>1, PageWasAppended
<1>4. answer'[c].entries = page /\ \A b \in Readers \ {c} : answer'[b] = answer[b]
  BY DEF Probe, TypeOK
<1>5. TypeOK'
  BY DEF Probe, TypeOK
<1>6. IdsOK' /\ WalksOK'
  BY <1>2 DEF Probe, IdsOK, WalksOK
<1> HIDE DEF page
<1>7. WrittenOK' /\ ShownIsWritten'
  BY <1>2, <1>3, <1>4 DEF Probe, WrittenOK, ShownIsWritten
<1> QED BY <1>2, <1>5, <1>6, <1>7

LEMMA RestartKeeps ==
    ASSUME Inductive, Restart
    PROVE  Inductive'
<1> USE SizesOK DEF Inductive
<1>1. Appended' = {} /\ Len(appended') = 0 /\ 0..(count' - 1) = {}
  BY DEF Appended, Restart
<1>2. TypeOK'
  BY DEF TypeOK, Restart
<1>3. RingOK' /\ IdsOK' /\ WrittenOK' /\ ShownIsWritten' /\ WalksOK'
  BY <1>1 DEF RingOK, IdsOK, WrittenOK, ShownIsWritten, WalksOK, Smaller, Restart
<1> QED BY <1>2, <1>3

THEOREM StepInductive == Inductive /\ [Next]_vars => Inductive'
<1> SUFFICES ASSUME Inductive, [Next]_vars PROVE Inductive'
  OBVIOUS
<1>1. CASE UNCHANGED vars
  <2>1. RingOK' /\ Appended' = Appended /\ Stored' = Stored /\ \A i : Newest(i)' = Newest(i)
    BY <1>1, RingFrame DEF vars, Inductive
  <2> QED BY <1>1, <2>1 DEF vars, Inductive, TypeOK, IdsOK, WrittenOK, ShownIsWritten, WalksOK
<1>2. CASE Next
  BY <1>2, NewEntryKeeps, WriteLineKeeps, AppendEntryKeeps, ListAuditLogsKeeps, ProbeKeeps,
     RestartKeeps
     DEF Next
<1> QED BY <1>1, <1>2

THEOREM AlwaysInductive == Spec => []Inductive
BY InitInductive, StepInductive, PTL DEF Spec

\* The model's values keep their types in every behaviour.
THEOREM TypeCorrect == Spec => []TypeOK
<1>1. Inductive => TypeOK
  BY DEF Inductive
<1> QED BY <1>1, AlwaysInductive, PTL

\* A walk through the pages misses no entry that stays stored meanwhile,
\* although appends move every entry to a later offset.
THEOREM WalksMissNothing == Spec => []WalkMissesNothing
<1>1. Inductive => WalkMissesNothing
  BY DEF Inductive, WalksOK, WalkMissesNothing, Stored
<1> QED BY <1>1, AlwaysInductive, PTL

\* No entry is shown before Log has tried to write its line.
THEOREM ShownWasWritten == Spec => []ShownIsWritten
<1>1. Inductive => ShownIsWritten
  BY DEF Inductive
<1> QED BY <1>1, AlwaysInductive, PTL

--------------------------------------------------------------------------
(* What one call of ListAuditLogs does. *)

\* The token that a call hands out lies beyond the one it was given.
LEMMA CallAdvances ==
    ASSUME TypeOK, NEW c \in Readers, NEW size \in Sizes, ListAuditLogs(c, size),
           scan'[c].next # 0
    PROVE  scan[c].next < scan'[c].next /\ scan'[c].next < count
<1> DEFINE offset == scan[c].next
           page == List(offset, Clamp(size))
<1>1. offset \in 0..(N - 1) /\ offset \in Nat /\ count \in 0..N
  BY DEF TypeOK
<1>2. Clamp(size) \in 1..MaxPage /\ Clamp(size) \in Int
  <2>1. size \in Int
    BY SizesOK
  <2>2. Clamp(size) \in 1..MaxPage
    BY <2>1, ClampInPage
  <2> QED BY <2>2, SizesOK
<1>3. /\ offset < count => Len(page) \in 1..(count - offset)
      /\ ~ (offset < count) => Len(page) = 0
  <2> HIDE DEF offset
  <2> QED BY <1>1, <1>2, PageShape
<1> HIDE DEF page
<1>5. scan'[c].next = IF offset + Len(page) < count THEN offset + Len(page) ELSE 0
  BY DEF ListAuditLogs, NextToken, TypeOK, page
<1> QED BY <1>1, <1>3, <1>5, SizesOK

\* Every page that is not the last brings the walk forward.
THEOREM EveryWalkAdvances == Spec => WalkAdvances
<1>1. ASSUME Inductive, Next, NEW c \in Readers, scan'[c] # scan[c], scan'[c].next # 0
      PROVE  scan[c].next < scan'[c].next /\ scan'[c].next < count
  <2>1. TypeOK
    BY <1>1 DEF Inductive
  <2>2. PICK b \in Readers, size \in Sizes : ListAuditLogs(b, size)
    BY <1>1 DEF Next, NewEntry, WriteLine, AppendEntry, Probe, Restart
  <2>3. b = c
    BY <1>1, <2>1, <2>2 DEF ListAuditLogs, TypeOK
  <2> QED BY <1>1, <2>1, <2>2, <2>3, CallAdvances
<1>2. Inductive /\ [Next]_vars =>
        [\A c \in Readers :
           (scan'[c] # scan[c] /\ scan'[c].next # 0) =>
              scan[c].next < scan'[c].next /\ scan'[c].next < count]_vars
  BY <1>1
<1> QED BY <1>2, AlwaysInductive, PTL DEF Spec, WalkAdvances

--------------------------------------------------------------------------
(* The store implements the trail. *)

\* A page of the ring is a page of the log, whatever slots its entries lie in.
LEMMA PageOfLog ==
    ASSUME Inductive, NEW offset \in Nat, NEW size \in Sizes
    PROVE  \E n \in 1..MaxPage :
              Trail!Page(offset, n) = [entries |-> List(offset, Clamp(size)), total |-> count]
<1> DEFINE n == Clamp(Clamp(size))
<1>1. n \in 1..MaxPage
  <2>1. size \in Int
    BY SizesOK
  <2>2. Clamp(size) \in 1..MaxPage
    BY <2>1, ClampInPage
  <2>3. Clamp(size) \in Int
    BY <2>2
  <2> QED BY <2>3, ClampInPage
<1>2. count = Trail!Kept /\ count \in 0..N
  BY DEF Inductive, RingOK, TypeOK, Trail!Kept, Trail!Smaller, Smaller
<1>3. Len(appended) \in Nat
  BY DEF Inductive, TypeOK
<1> DEFINE m == Smaller(n, count - offset)
<1>4. m \in Int /\ m <= count - offset
  BY <1>1, <1>2, SizesOK DEF Smaller
<1>5. \A i \in 1..m : Newest(offset + i - 1) = appended[Len(appended) - offset - i + 1]
  <2> SUFFICES ASSUME NEW i \in 1..m
               PROVE  Newest(offset + i - 1) = appended[Len(appended) - offset - i + 1]
    OBVIOUS
  <2> DEFINE j == offset + i - 1
  <2>1. j \in 0..(count - 1)
    BY <1>1, <1>2, <1>4
  <2>2. Newest(j) = appended[Len(appended) - j]
    BY <2>1 DEF Inductive, RingOK
  <2>3. Len(appended) - j = Len(appended) - offset - i + 1
    BY <1>1, <1>3, <1>4
  <2> QED BY <2>2, <2>3
<1>6. List(offset, Clamp(size)) = [i \in 1..m |-> appended[Len(appended) - offset - i + 1]]
  BY <1>5 DEF List
<1>7. Trail!Page(offset, n) = [entries |-> List(offset, Clamp(size)), total |-> count]
  <2>1. Trail!Smaller(n, Trail!Kept - offset) = m
    BY <1>2 DEF Trail!Smaller, Smaller
  <2> QED BY <1>2, <1>6, <2>1 DEF Trail!Page
<1> QED BY <1>1, <1>7

LEMMA CallReads ==
    ASSUME Inductive, NEW c \in Readers, NEW size \in Sizes, ListAuditLogs(c, size)
    PROVE  \E offset \in Offsets, n \in 1..MaxPage : Trail!Read(c, offset, n)
<1>1. scan[c].next \in Nat /\ scan[c].next \in Offsets
  BY SizesOK DEF Inductive, TypeOK
<1>2. PICK n \in 1..MaxPage :
        Trail!Page(scan[c].next, n) = [entries |-> List(scan[c].next, Clamp(size)), total |-> count]
  BY <1>1, PageOfLog
<1>3. Trail!Read(c, scan[c].next, n)
  BY <1>2 DEF ListAuditLogs, Trail!Read
<1> QED BY <1>1, <1>3

LEMMA ProbeReads ==
    ASSUME Inductive, NEW c \in Readers, NEW offset \in Offsets, NEW size \in Sizes,
           Probe(c, offset, size)
    PROVE  \E n \in 1..MaxPage : Trail!Read(c, offset, n)
<1>1. PICK n \in 1..MaxPage :
        Trail!Page(offset, n) = [entries |-> List(offset, Clamp(size)), total |-> count]
  BY PageOfLog, SizesOK
<1>2. Trail!Read(c, offset, n)
  BY <1>1 DEF Probe, Trail!Read
<1> QED BY <1>2

\* Seen from the management API, the ring with its two indices is the log of
\* all appends, cut off after the N newest.
THEOREM ImplementsTrail == Spec => TrailContract
<1>1. Init => Trail!Init
  BY DEF Init, Trail!Init
<1>2. ASSUME Inductive, [Next]_vars PROVE [Trail!Next]_(Trail!vars)
  <2>1. CASE UNCHANGED vars
    BY <2>1 DEF vars, Trail!vars
  <2>2. ASSUME NEW w \in Writers, NewEntry(w) \/ WriteLine(w) PROVE UNCHANGED Trail!vars
    BY <2>2 DEF NewEntry, WriteLine, Trail!vars
  <2>3. ASSUME NEW w \in Writers, AppendEntry(w) PROVE Trail!Next
    <3>1. held[w] \in Ids
      <4>1. wpc[w] # "idle"
        BY <2>3 DEF AppendEntry
      <4>2. held[w] \in 1..created
        BY <1>2, <4>1 DEF Inductive, IdsOK
      <4> QED BY <1>2, <4>2, SizesOK DEF Inductive, TypeOK, Ids
    <3>2. Trail!Add(held[w])
      BY <2>3 DEF AppendEntry, Trail!Add
    <3> QED BY <3>1, <3>2 DEF Trail!Next
  <2>4. ASSUME NEW c \in Readers, NEW size \in Sizes, ListAuditLogs(c, size) PROVE Trail!Next
    BY <1>2, <2>4, CallReads DEF Trail!Next
  <2>5. ASSUME NEW c \in Readers, NEW offset \in Offsets, NEW size \in Sizes,
               Probe(c, offset, size)
        PROVE  Trail!Next
    BY <1>2, <2>5, ProbeReads DEF Trail!Next
  <2>6. CASE Restart
    BY <2>6 DEF Restart, Trail!Restart, Trail!Next
  <2> QED BY <1>2, <2>1, <2>2, <2>3, <2>4, <2>5, <2>6 DEF Next
<1> QED BY <1>1, <1>2, AlwaysInductive, PTL DEF Spec, TrailContract, Trail!Spec
==========================================================================
