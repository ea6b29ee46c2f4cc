------------------------- MODULE TrafficViewProofs -------------------------
(***************************************************************************)
(* Proofs about TrafficView, for any number of transactions, any bus and   *)
(* batch, and requests whose answers arrive in whatever order: the types,  *)
(* the table and its order, the detail pane, and the completions on their  *)
(* way from the engine to the table.                                       *)
(*                                                                         *)
(* The table is built by batches, trims and the history, so its invariant  *)
(* says of a table (its order and its rows) what each of them preserves.   *)
(* The invariant of the completions says of bus, buffer and batches that   *)
(* a completion is the last event about its transaction, wherever it is.   *)
(***************************************************************************)
EXTENDS TrafficView, OrderFacts

-----------------------------------------------------------------------------
(* The table *)

Shows == {"absent", "active", "final"}

\* A table lists exactly the rows it holds, each once.
Whole(t) ==
    /\ t.order \in Seq(Ids)
    /\ t.view \in [Ids -> Shows]
    /\ \A p, q \in 1..Len(t.order) : t.order[p] = t.order[q] => p = q
    /\ \A i \in Ids : t.view[i] # "absent" <=> \E p \in 1..Len(t.order) : t.order[p] = i

LEMMA IdsOK == Ids \subseteq Nat /\ IsFiniteSet(Ids) /\ 0 \notin Ids /\ Ids \subseteq 0..MaxId
<1>1. 1 \in Int /\ MaxId \in Int
  BY BoundsAssumption
<1>2. IsFiniteSet(Ids)
  BY <1>1, FS_Interval DEF Ids
<1> QED
  BY <1>2, BoundsAssumption DEF Ids

\* Ids put in order by a key that tells them apart: each of them once.
LEMMA InOrderFacts ==
    ASSUME NEW S \in SUBSET Ids, NEW key \in [S -> Nat],
           \A i, j \in S : key[i] = key[j] => i = j
    PROVE  /\ InOrder(S, key) \in Seq(Ids)
           /\ Len(InOrder(S, key)) = Cardinality(S)
           /\ \A p \in 1..Cardinality(S) : InOrder(S, key)[p] \in S
           /\ \A p, q \in 1..Cardinality(S) : InOrder(S, key)[p] = InOrder(S, key)[q] => p = q
           /\ \A i \in S : \E p \in 1..Cardinality(S) : InOrder(S, key)[p] = i
<1> DEFINE n == Cardinality(S)
           rank(i) == Cardinality(Below(S, key, i))
           s == InOrder(S, key)
<1>1. IsFiniteSet(S)
  BY IdsOK, FS_Subset
<1>2. /\ n \in Nat
      /\ \A i \in S : rank(i) \in 0..n - 1
      /\ \A i, j \in S : rank(i) = rank(j) => i = j
      /\ \A p \in 1..n : \E i \in S : rank(i) = p - 1
  BY <1>1, Ranks
<1>3. s = [p \in 1..n |-> CHOOSE i \in S : rank(i) = p - 1]
  BY DEF InOrder, Below
<1> HIDE DEF n, rank, s
<1>4. ASSUME NEW p \in 1..n PROVE s[p] \in S /\ rank(s[p]) = p - 1
  <2>1. \E i \in S : rank(i) = p - 1
    BY <1>2
  <2>2. s[p] = CHOOSE i \in S : rank(i) = p - 1
    BY <1>3
  <2> QED
    BY <2>1, <2>2
<1>5. s \in Seq(Ids) /\ Len(s) = n
  <2>1. s \in [1..n -> Ids]
    BY <1>3, <1>4
  <2> QED
    BY <1>2, <2>1
<1>6. ASSUME NEW p \in 1..n, NEW q \in 1..n, s[p] = s[q] PROVE p = q
  <2>1. p - 1 = q - 1
    BY <1>4, <1>6
  <2> QED
    BY <1>2, <2>1
<1>7. ASSUME NEW i \in S PROVE \E p \in 1..n : s[p] = i
  <2>1. rank(i) \in 0..n - 1 /\ rank(i) + 1 \in 1..n
    BY <1>2
  <2>2. s[rank(i) + 1] \in S /\ rank(s[rank(i) + 1]) = rank(i)
    BY <1>4, <2>1
  <2>3. s[rank(i) + 1] = i
    BY <1>2, <2>2
  <2> QED
    BY <2>1, <2>3
<1> QED
  BY <1>4, <1>5, <1>6, <1>7 DEF n, s

\* New ids at the end of a table, each once.
LEMMA ExtendedWhole ==
    ASSUME NEW t, Whole(t), NEW new \in SUBSET Ids, \A i \in new : t.view[i] = "absent",
           NEW s \in Seq(Ids), NEW u,
           \A p \in 1..Len(s) : s[p] \in new,
           \A p, q \in 1..Len(s) : s[p] = s[q] => p = q,
           \A i \in new : \E p \in 1..Len(s) : s[p] = i,
           u.order = t.order \o s,
           u.view \in [Ids -> Shows],
           \A i \in Ids : u.view[i] # "absent" <=> t.view[i] # "absent" \/ i \in new
    PROVE  Whole(u)
<1> DEFINE m == Len(t.order)
           n == Len(s)
<1>1. /\ u.order \in Seq(Ids) /\ m \in Nat /\ n \in Nat /\ Len(u.order) = m + n
      /\ \A p \in 1..m + n : u.order[p] = IF p <= m THEN t.order[p] ELSE s[p - m]
  BY ConcatProperties DEF Whole
<1>2. \A p \in 1..m : t.order[p] \in Ids /\ t.order[p] \notin new
  BY DEF Whole
<1>3. ASSUME NEW p \in 1..m + n, NEW q \in 1..m + n, u.order[p] = u.order[q] PROVE p = q
  <2> HIDE DEF m, n
  <2>1. CASE p <= m /\ q <= m
    <3>1. p \in 1..m /\ q \in 1..m /\ t.order[p] = t.order[q]
      BY <1>1, <1>3, <2>1
    <3> QED
      BY <3>1 DEF Whole, m
  <2>2. CASE p > m /\ q > m
    <3>1. p - m \in 1..n /\ q - m \in 1..n
      BY <1>1, <2>2
    <3>2. s[p - m] = s[q - m]
      BY <1>1, <1>3, <2>2
    <3>3. p - m = q - m
      BY <3>1, <3>2 DEF n
    <3> QED
      BY <1>1, <3>3
  <2>3. CASE p <= m /\ q > m
    <3>1. p \in 1..m /\ q - m \in 1..n /\ t.order[p] = s[q - m]
      BY <1>1, <1>3, <2>3
    <3> QED
      BY <1>2, <3>1 DEF n
  <2>4. CASE p > m /\ q <= m
    <3>1. q \in 1..m /\ p - m \in 1..n /\ t.order[q] = s[p - m]
      BY <1>1, <1>3, <2>4
    <3> QED
      BY <1>2, <3>1 DEF n
  <2> QED
    BY <1>1, <2>1, <2>2, <2>3, <2>4
<1>4. ASSUME NEW i \in Ids
      PROVE  u.view[i] # "absent" <=> \E p \in 1..m + n : u.order[p] = i
  <2>1. ASSUME t.view[i] # "absent" PROVE \E p \in 1..m + n : u.order[p] = i
    <3>1. PICK p \in 1..m : t.order[p] = i
      BY <2>1 DEF Whole
    <3> HIDE DEF m, n
    <3>2. p \in 1..m + n /\ u.order[p] = i
      BY <1>1, <3>1
    <3> QED
      BY <3>2
  <2>2. ASSUME i \in new PROVE \E p \in 1..m + n : u.order[p] = i
    <3>1. PICK p \in 1..n : s[p] = i
      BY <2>2
    <3> HIDE DEF m, n
    <3>2. m + p \in 1..m + n /\ ~(m + p <= m) /\ (m + p) - m = p
      BY <1>1
    <3>3. u.order[m + p] = i
      BY <1>1, <3>1, <3>2
    <3> QED
      BY <3>2, <3>3
  <2>3. ASSUME NEW p \in 1..m + n, u.order[p] = i PROVE t.view[i] # "absent" \/ i \in new
    <3>1. CASE p <= m
      <4>1. p \in 1..m /\ t.order[p] = i
        BY <1>1, <2>3, <3>1
      <4> QED
        BY <4>1 DEF Whole
    <3>2. CASE p > m
      <4>1. p - m \in 1..n /\ s[p - m] = i
        BY <1>1, <2>3, <3>2
      <4> QED
        BY <4>1
    <3> QED
      BY <1>1, <3>1, <3>2
  <2> QED
    BY <2>1, <2>2, <2>3
<1> QED
  BY <1>1, <1>3, <1>4 DEF Whole

\* A batch keeps a table whole: rows that are there change in place, new ones
\* come last in the order of their first events.
LEMMA AppliedWhole ==
    ASSUME Whole([order |-> order, view |-> view]), NEW batch \in Seq(Event)
    PROVE  Whole(Applied(batch))
<1> DEFINE t == [order |-> order, view |-> view]
           about(i) == {p \in 1..Len(batch) : batch[p].id = i}
           new == {i \in Ids : about(i) # {} /\ view[i] = "absent"}
           key == [i \in new |-> Min(about(i))]
           u == Applied(batch)
<1>1. Len(batch) \in Nat /\ \A i : about(i) \in SUBSET Nat
  OBVIOUS
<1>2. ASSUME NEW i \in new PROVE key[i] \in about(i) /\ key[i] \in Nat
  <2>1. about(i) # {} /\ about(i) \in SUBSET Nat
    BY <1>1
  <2> HIDE DEF about
  <2> QED
    BY <2>1, MinIsLeast
<1>3. key \in [new -> Nat] /\ \A i, j \in new : key[i] = key[j] => i = j
  BY <1>2
<1>4. /\ u.order = order \o InOrder(new, key)
      /\ u.view = [i \in Ids |-> IF about(i) = {} THEN view[i]
                                 ELSE IF batch[Max(about(i))].type = "completed"
                                      THEN "final" ELSE "active"]
  BY DEF Applied
<1>5. /\ u.view \in [Ids -> Shows]
      /\ \A i \in Ids : u.view[i] # "absent" <=> view[i] # "absent" \/ i \in new
  <2> HIDE DEF about
  <2>1. view \in [Ids -> Shows]
    BY DEF Whole
  <2> QED
    BY <1>4, <2>1 DEF Shows
<1>6. new \in SUBSET Ids /\ \A i \in new : t.view[i] = "absent"
  OBVIOUS
<1> DEFINE s == InOrder(new, key)
<1>7. /\ s \in Seq(Ids)
      /\ \A p \in 1..Len(s) : s[p] \in new
      /\ \A p, q \in 1..Len(s) : s[p] = s[q] => p = q
      /\ \A i \in new : \E p \in 1..Len(s) : s[p] = i
  <2> HIDE DEF new, key
  <2>1. /\ s \in Seq(Ids) /\ Len(s) = Cardinality(new)
        /\ \A p \in 1..Cardinality(new) : s[p] \in new
        /\ \A p, q \in 1..Cardinality(new) : s[p] = s[q] => p = q
        /\ \A i \in new : \E p \in 1..Cardinality(new) : s[p] = i
    BY <1>3, <1>6, InOrderFacts
  <2> HIDE DEF s
  <2> QED
    BY <2>1
<1>8. u.order = t.order \o s /\ Whole(t)
  BY <1>4
<1>9. \A i \in Ids : u.view[i] # "absent" <=> t.view[i] # "absent" \/ i \in new
  BY <1>5
<1> HIDE DEF t, u, s, new, key
<1>10. Whole(u)
  BY <1>5, <1>6, <1>7, <1>8, <1>9, ExtendedWhole
<1> QED
  BY <1>10 DEF u

\* Trimming a whole table leaves a whole one of no more than MAX_ROWS.
LEMMA TrimmedWhole ==
    ASSUME NEW t, t = [order |-> t.order, view |-> t.view], Whole(t)
    PROVE  Whole(Trimmed(t)) /\ Len(Trimmed(t).order) <= MaxRows
<1> DEFINE extra == Len(t.order) - MaxRows
           n == Len(t.order)
           u == Trimmed(t)
<1>0. MaxRows \in Nat /\ n \in Nat /\ \A p \in 1..n : t.order[p] \in Ids
  BY BoundsAssumption DEF Whole
<1>1. CASE extra <= 0
  <2>1. u = t
    BY <1>1 DEF Trimmed
  <2> HIDE DEF u
  <2>2. n <= MaxRows
    BY <1>0, <1>1
  <2> QED
    BY <2>1, <2>2 DEF u
<1>2. CASE ~(extra <= 0)
  <2>0. extra \in 1..n /\ extra + 1 \in Int /\ n - (extra + 1) + 1 = MaxRows
    BY <1>0, <1>2
  <2>1. /\ u.order = SubSeq(t.order, extra + 1, n)
        /\ u.view = [i \in Ids |-> IF \E p \in 1..extra : t.order[p] = i
                                   THEN "absent" ELSE t.view[i]]
    BY <1>2 DEF Trimmed
  <2> HIDE DEF u, extra, n
  <2>2. /\ u.order \in Seq(Ids) /\ Len(u.order) = n - extra
        /\ \A p \in 1..n - extra : u.order[p] = t.order[extra + p]
    <3>1. \A p \in extra + 1..n : t.order[p] \in Ids
      BY <1>0, <2>0
    <3>2. /\ SubSeq(t.order, extra + 1, n) \in Seq(Ids)
          /\ Len(SubSeq(t.order, extra + 1, n))
               = IF extra + 1 <= n THEN n - (extra + 1) + 1 ELSE 0
          /\ \A p \in 1..n - (extra + 1) + 1 :
               SubSeq(t.order, extra + 1, n)[p] = t.order[extra + 1 + p - 1]
      BY <1>0, <2>0, <3>1, SubSeqProperties
    <3>3. n - (extra + 1) + 1 = n - extra /\ \A p \in 1..n - extra : extra + 1 + p - 1 = extra + p
      BY <1>0, <2>0
    <3> QED
      BY <1>0, <2>0, <2>1, <3>2, <3>3
  <2>3. ASSUME NEW p \in 1..n - extra, NEW q \in 1..n - extra, u.order[p] = u.order[q]
        PROVE  p = q
    <3>1. extra + p \in 1..n /\ extra + q \in 1..n
      BY <1>0, <2>0
    <3>2. extra + p = extra + q
      BY <2>2, <2>3, <3>1 DEF Whole, n
    <3> QED
      BY <1>0, <2>0, <3>2
  <2>4. ASSUME NEW i \in Ids
        PROVE  u.view[i] # "absent" <=> \E p \in 1..n - extra : u.order[p] = i
    <3>1. ASSUME NEW p \in 1..n - extra, u.order[p] = i PROVE u.view[i] # "absent"
      <4>1. extra + p \in 1..n /\ t.order[extra + p] = i
        BY <1>0, <2>0, <2>2, <3>1
      <4>2. ASSUME NEW q \in 1..extra, t.order[q] = i PROVE FALSE
        <5>1. q \in 1..n
          BY <1>0, <2>0
        <5>2. q = extra + p
          BY <4>1, <4>2, <5>1 DEF Whole, n
        <5> QED
          BY <1>0, <2>0, <5>2
      <4>3. t.view[i] # "absent"
        BY <4>1 DEF Whole, n
      <4> QED
        BY <2>1, <4>2, <4>3
    <3>2. ASSUME u.view[i] # "absent" PROVE \E p \in 1..n - extra : u.order[p] = i
      <4>1. t.view[i] # "absent" /\ \A q \in 1..extra : t.order[q] # i
        BY <2>1, <3>2
      <4>2. PICK q \in 1..n : t.order[q] = i
        BY <4>1 DEF Whole, n
      <4>3. q - extra \in 1..n - extra /\ extra + (q - extra) = q
        BY <1>0, <2>0, <4>1, <4>2
      <4> QED
        BY <2>2, <4>2, <4>3
    <3> QED
      BY <3>1, <3>2
  <2>5. u.view \in [Ids -> Shows]
    <3>1. t.view \in [Ids -> Shows]
      BY DEF Whole
    <3> QED
      BY <2>1, <3>1 DEF Shows
  <2>6. Len(u.order) <= MaxRows
    BY <1>0, <2>0, <2>2
  <2> QED
    BY <2>2, <2>3, <2>4, <2>5, <2>6 DEF Whole, u
<1> QED
  BY <1>1, <1>2

\* What init shows.
LEMMA HistoryWhole ==
    ASSUME NEW h \in SUBSET Ids, NEW t,
           t.view = [i \in Ids |-> IF i \in h THEN "final" ELSE "absent"],
           t.order = InOrder(h, [i \in h |-> i])
    PROVE  Whole(t) /\ Len(t.order) = Cardinality(h)
<1> DEFINE key == [i \in h |-> i]
           n == Cardinality(h)
<1>1. key \in [h -> Nat] /\ \A i, j \in h : key[i] = key[j] => i = j
  BY IdsOK
<1>2. /\ t.order \in Seq(Ids) /\ Len(t.order) = n
      /\ \A p \in 1..n : t.order[p] \in h
      /\ \A p, q \in 1..n : t.order[p] = t.order[q] => p = q
      /\ \A i \in h : \E p \in 1..n : t.order[p] = i
  <2> HIDE DEF key
  <2>1. t.order = InOrder(h, key)
    BY DEF key
  <2>2. LET s == InOrder(h, key)
        IN  /\ s \in Seq(Ids) /\ Len(s) = Cardinality(h)
            /\ \A p \in 1..Cardinality(h) : s[p] \in h
            /\ \A p, q \in 1..Cardinality(h) : s[p] = s[q] => p = q
            /\ \A i \in h : \E p \in 1..Cardinality(h) : s[p] = i
    BY <1>1, InOrderFacts
  <2> QED
    BY <2>1, <2>2
<1> HIDE DEF n, key
<1>3. t.view \in [Ids -> Shows] /\ \A i \in Ids : t.view[i] # "absent" <=> i \in h
  BY DEF Shows
<1>4. \A i \in Ids : i \in h <=> \E p \in 1..n : t.order[p] = i
  BY <1>2
<1> QED
  BY <1>2, <1>3, <1>4 DEF Whole, n

TableInv ==
    /\ Whole([order |-> order, view |-> view])
    /\ Len(order) <= MaxRows
    /\ Cardinality(history) <= HistoryLimit

LEMMA EmptyWhole ==
    ASSUME NEW t, t.order = <<>>, t.view = [i \in Ids |-> "absent"]
    PROVE  Whole(t) /\ Len(t.order) = 0
<1>1. t.order \in Seq(Ids) /\ Len(t.order) = 0 /\ 1..Len(t.order) = {}
  OBVIOUS
<1>2. t.view \in [Ids -> Shows] /\ \A i \in Ids : t.view[i] = "absent"
  BY DEF Shows
<1> QED
  BY <1>1, <1>2 DEF Whole

\* init gets no more rows than it asks for.
LEMMA AnsweredHistory ==
    ASSUME rows \in SUBSET Ids, AnswerInit
    PROVE  Cardinality(history') <= HistoryLimit
<1>1. rows \in SUBSET Nat /\ IsFiniteSet(rows) /\ HistoryLimit \in Nat
  <2>1. MaxRows \in Nat /\ HistoryLimit \in 0..MaxRows
    BY BoundsAssumption
  <2>2. IsFiniteSet(rows)
    BY IdsOK, FS_Subset
  <2> QED
    BY <2>1, <2>2, IdsOK
<1>2. history' = Top(rows, HistoryLimit)
  BY DEF AnswerInit, Top, Newer
<1> QED
  BY <1>1, <1>2, TopFits

-----------------------------------------------------------------------------
(* Types *)

\* The pump and the requests; the table has its types from TableInv.
LEMMA PublishType ==
    ASSUME TypeOK, NEW type \in Types, NEW i \in Ids, Publish(type, i)
    PROVE  /\ bus' \in Seq(Event) /\ Len(bus') <= BusCapacity
           /\ dropped' \in SUBSET Ids
<1> DEFINE e == [type |-> type, id |-> i]
           all == Append(bus, e)
<1>1. /\ bus \in Seq(Event) /\ Len(bus) \in Nat /\ Len(bus) <= BusCapacity
      /\ e \in Event /\ dropped \in SUBSET Ids /\ BusCapacity \in Nat \ {0}
  BY BoundsAssumption DEF TypeOK, Event
<1>2. all \in Seq(Event) /\ Len(all) = Len(bus) + 1 /\ all # <<>>
  BY <1>1, AppendProperties
<1>3. Head(all) \in Event /\ Tail(all) \in Seq(Event) /\ Len(Tail(all)) = Len(all) - 1
  BY <1>2, HeadTailProperties
<1>4. CASE Len(bus) < BusCapacity
  BY <1>1, <1>2, <1>4 DEF Publish
<1>5. CASE ~(Len(bus) < BusCapacity)
  <2>1. bus' = Tail(all) /\ dropped' \in {dropped, dropped \cup {Head(all).id}}
    BY <1>5 DEF Publish
  <2>2. Head(all).id \in Ids
    BY <1>3 DEF Event
  <2> QED
    BY <1>1, <1>2, <1>3, <2>1, <2>2
<1> QED
  BY <1>4, <1>5

LEMMA AsksType ==
    ASSUME TypeOK, NEW i \in Ids, Asks(i)
    PROVE  gets' \in Seq(Get) /\ Len(gets') <= MaxGets /\ pane' = "loading"
<1>1. [pc |-> "sent", id |-> i, found |-> FALSE] \in Get
  BY DEF Get
<1>2. gets \in Seq(Get) /\ Len(gets) \in Nat /\ Len(gets) < MaxGets /\ MaxGets \in Nat
  BY BoundsAssumption DEF TypeOK, Asks
<1> QED
  BY <1>1, <1>2, AppendProperties DEF Asks

LEMMA ArrivesType ==
    ASSUME TypeOK, NEW p \in 1..Len(gets), Arrives(p)
    PROVE  gets' \in Seq(Get) /\ Len(gets') <= MaxGets /\ gets[p] \in Get
<1>1. gets \in Seq(Get) /\ Len(gets) \in Nat /\ Len(gets) <= MaxGets /\ MaxGets \in Nat
  BY BoundsAssumption DEF TypeOK
<1>2. \A q \in 1..Len(gets) : gets[q] \in Get
  BY <1>1
<1>3. gets' = SubSeq(gets, 1, p - 1) \o SubSeq(gets, p + 1, Len(gets))
  BY DEF Arrives, RemoveAt
<1>4. SubSeq(gets, 1, p - 1) \in Seq(Get) /\ Len(SubSeq(gets, 1, p - 1)) = p - 1
  <2>1. \A q \in 1..p - 1 : gets[q] \in Get
    BY <1>1, <1>2
  <2>2. 1 \in Int /\ p - 1 \in Int /\ (1 <= p - 1 \/ p - 1 = 0)
    BY <1>1
  <2> QED
    BY <2>1, <2>2, SubSeqProperties
<1>5. SubSeq(gets, p + 1, Len(gets)) \in Seq(Get)
      /\ Len(SubSeq(gets, p + 1, Len(gets))) = Len(gets) - p
  <2>1. \A q \in p + 1..Len(gets) : gets[q] \in Get
    BY <1>1, <1>2
  <2>2. p + 1 \in Int /\ Len(gets) \in Int /\ (p + 1 <= Len(gets) \/ Len(gets) - p = 0)
    BY <1>1
  <2> QED
    BY <2>1, <2>2, SubSeqProperties
<1>6. gets' \in Seq(Get) /\ Len(gets') = (p - 1) + (Len(gets) - p)
  <2> DEFINE a == SubSeq(gets, 1, p - 1)
             b == SubSeq(gets, p + 1, Len(gets))
  <2>1. a \in Seq(Get) /\ b \in Seq(Get) /\ gets' = a \o b
        /\ Len(a) = p - 1 /\ Len(b) = Len(gets) - p
    BY <1>3, <1>4, <1>5
  <2> HIDE DEF a, b
  <2>2. a \o b \in Seq(Get) /\ Len(a \o b) = Len(a) + Len(b)
    BY <2>1, ConcatProperties
  <2> QED
    BY <2>1, <2>2
<1> QED
  BY <1>1, <1>2, <1>6

ViewInv == TypeOK /\ TableInv

LEMMA ViewInit == Init => ViewInv
<1> SUFFICES ASSUME Init PROVE ViewInv
  OBVIOUS
<1>1. MaxRows \in Nat /\ HistoryLimit \in Nat /\ MaxId \in Nat
  BY BoundsAssumption
<1>2. rows \in SUBSET Ids /\ stage \in [Ids -> Stages]
  <2>1. PICK n \in 0..MaxId : /\ stage = [i \in Ids |-> IF i <= n THEN "completed" ELSE "none"]
                              /\ rows = 1..n
    BY DEF Init
  <2>2. rows \in SUBSET Ids
    BY <1>1, <2>1 DEF Ids
  <2> QED
    BY <2>1, <2>2 DEF Stages
<1>3. Whole([order |-> order, view |-> view]) /\ Len(order) = 0
  BY EmptyWhole DEF Init
<1>4. Cardinality(history) = 0
  BY FS_EmptySet DEF Init
<1>5. TableInv
  BY <1>1, <1>3, <1>4 DEF TableInv
<1>6. TypeOK
  BY <1>1, <1>2, BoundsAssumption DEF Init, TypeOK
<1> QED
  BY <1>5, <1>6 DEF ViewInv

\* The engine's steps and the pump's.
LEMMA FeedInv == ViewInv /\ (Engine \/ Receive \/ Tick) => ViewInv'
<1> SUFFICES ASSUME ViewInv, Engine \/ Receive \/ Tick PROVE ViewInv'
  OBVIOUS
<1> USE DEF ViewInv
<1>1. UNCHANGED <<table, panel, init, history, clearing, clears>>
  BY DEF Engine, Announces, Ends, Completes, Receive, Tick
<1>2. TableInv'
  BY <1>1 DEF TableInv, table
<1>3. CASE Engine
  <2>1. PICK i \in Ids : Announces(i) \/ Ends(i) \/ Completes(i)
    BY <1>3 DEF Engine
  <2>2. CASE Announces(i)
    <3>1. bus' \in Seq(Event) /\ Len(bus') <= BusCapacity /\ dropped' \in SUBSET Ids
      BY <2>2, PublishType DEF Announces, Types
    <3>2. stage' \in [Ids -> Stages]
      BY <2>2 DEF Announces, Moves, Stages, TypeOK
    <3> QED
      BY <1>1, <1>2, <2>2, <3>1, <3>2 DEF Announces, TypeOK, table, panel
  <2>3. CASE Completes(i)
    <3>1. bus' \in Seq(Event) /\ Len(bus') <= BusCapacity /\ dropped' \in SUBSET Ids
      BY <2>3, PublishType DEF Completes, Types
    <3>2. stage' \in [Ids -> Stages]
      BY <2>3 DEF Completes, Moves, Stages, TypeOK
    <3> QED
      BY <1>1, <1>2, <2>3, <3>1, <3>2 DEF Completes, TypeOK, table, panel
  <2>4. CASE Ends(i)
    <3>1. stage' \in [Ids -> Stages] /\ rows' \in SUBSET Ids
      BY <2>4 DEF Ends, Moves, Stages, TypeOK
    <3> QED
      BY <1>1, <1>2, <2>4, <3>1 DEF Ends, TypeOK, table, panel, pump
  <2> QED
    BY <2>1, <2>2, <2>3, <2>4
<1>4. CASE Receive
  <2>1. bus' \in Seq(Event) /\ Len(bus') <= BusCapacity /\ buffer' \in Seq(Event)
    <3>1. /\ bus \in Seq(Event) /\ bus # <<>> /\ buffer \in Seq(Event)
          /\ Len(bus) \in Nat /\ Len(bus) <= BusCapacity /\ BusCapacity \in Nat
      BY <1>4, BoundsAssumption DEF Receive, TypeOK
    <3>2. Head(bus) \in Event /\ Tail(bus) \in Seq(Event) /\ Len(Tail(bus)) = Len(bus) - 1
      BY <3>1, HeadTailProperties
    <3> QED
      BY <1>4, <3>1, <3>2, AppendProperties DEF Receive
  <2> QED
    BY <1>1, <1>2, <1>4, <2>1 DEF Receive, TypeOK, table, panel, engine
<1>5. CASE Tick
  <2>1. batches' \in Seq(Seq(Event)) /\ Len(batches') <= MaxBatches
    <3>1. /\ batches \in Seq(Seq(Event)) /\ buffer \in Seq(Event) /\ Len(batches) \in Nat
          /\ Len(batches) < MaxBatches /\ MaxBatches \in Nat
      BY <1>5, BoundsAssumption DEF Tick, TypeOK
    <3> QED
      BY <1>5, <3>1, AppendProperties DEF Tick
  <2> QED
    BY <1>1, <1>2, <1>5, <2>1 DEF Tick, TypeOK, table, panel, engine
<1> QED
  BY <1>3, <1>4, <1>5

\* A batch reaches the view.
LEMMA BatchInv == ViewInv /\ ApplyBatch => ViewInv'
<1> SUFFICES ASSUME ViewInv, ApplyBatch PROVE ViewInv'
  OBVIOUS
<1> USE DEF ViewInv
<1>1. /\ batches \in Seq(Seq(Event)) /\ batches # <<>>
      /\ Len(batches) \in Nat /\ Len(batches) <= MaxBatches /\ MaxBatches \in Nat
  BY BoundsAssumption DEF ApplyBatch, TypeOK
<1>2. Head(batches) \in Seq(Event) /\ Tail(batches) \in Seq(Seq(Event))
      /\ Len(Tail(batches)) = Len(batches) - 1
  BY <1>1, HeadTailProperties
<1>3. batches' \in Seq(Seq(Event)) /\ Len(batches') <= MaxBatches
  BY <1>1, <1>2 DEF ApplyBatch
<1>4. Whole([order |-> order', view |-> view']) /\ Len(order') <= MaxRows
  <2> DEFINE a == Applied(Head(batches))
             t == Trimmed(a)
  <2>1. Whole(a) /\ a = [order |-> a.order, view |-> a.view]
    <3>1. Whole(a)
      BY <1>2, AppliedWhole DEF TableInv
    <3> QED
      BY <3>1 DEF Applied
  <2>2. view' = t.view /\ order' = t.order
    BY DEF ApplyBatch
  <2> HIDE DEF a
  <2>3. Whole(t) /\ Len(t.order) <= MaxRows
    BY <2>1, TrimmedWhole
  <2> QED
    BY <2>2, <2>3 DEF Whole
<1>5. gets' \in Seq(Get) /\ Len(gets') <= MaxGets /\ pane' \in {"settled", "loading"}
  <2>1. CASE selected # 0 /\ Asks(selected)
    <3>1. selected \in Ids
      BY <2>1 DEF TypeOK, Ids
    <3> QED
      BY <2>1, <3>1, AsksType
  <2>2. CASE UNCHANGED <<gets, pane>>
    BY <2>2 DEF TypeOK
  <2> QED
    BY <2>1, <2>2 DEF ApplyBatch
<1>6. UNCHANGED <<engine, bus, dropped, buffer, selected, detail, init, history, clearing, clears>>
  BY DEF ApplyBatch
<1>7. TableInv'
  BY <1>4, <1>6 DEF TableInv
<1>8. view' \in [Ids -> Shows] /\ order' \in Seq(Ids)
  BY <1>4 DEF Whole
<1> QED
  BY <1>3, <1>5, <1>6, <1>7, <1>8 DEF TypeOK, Shows, engine

\* The history reaches the view, or does not.
LEMMA HistoryInv == ViewInv /\ (AnswerInit \/ ApplyInit \/ InitFails) => ViewInv'
<1> SUFFICES ASSUME ViewInv, AnswerInit \/ ApplyInit \/ InitFails PROVE ViewInv'
  OBVIOUS
<1> USE DEF ViewInv
<1>0. HistoryLimit \in Nat /\ HistoryLimit <= MaxRows /\ MaxRows \in Nat
  BY BoundsAssumption
<1>n. Cardinality({}) = 0
  BY FS_EmptySet
<1>1. CASE AnswerInit
  <2>1. Cardinality(history') <= HistoryLimit /\ history' \in SUBSET Ids
    BY <1>1, AnsweredHistory DEF AnswerInit, TypeOK
  <2>2. UNCHANGED table
    BY <1>1 DEF AnswerInit
  <2>3. TableInv'
    BY <2>1, <2>2 DEF TableInv, table
  <2> QED
    BY <1>1, <2>1, <2>3 DEF AnswerInit, TypeOK, engine, pump, table, panel
<1>2. CASE ApplyInit
  <2> DEFINE t == [order |-> order', view |-> view']
  <2>1. Whole(t) /\ Len(t.order) = Cardinality(history)
    BY <1>2, HistoryWhole DEF ApplyInit, TypeOK
  <2>2. Cardinality(history) \in Nat /\ Cardinality(history) <= HistoryLimit
    <3>1. IsFiniteSet(history)
      BY IdsOK, FS_Subset DEF TypeOK
    <3> QED
      BY <3>1, FS_CardinalityType DEF TableInv
  <2>3. Len(order') <= MaxRows
    BY <1>0, <2>1, <2>2
  <2>4. TableInv'
    BY <1>0, <1>2, <1>n, <2>1, <2>3 DEF TableInv, ApplyInit
  <2>5. view' \in [Ids -> Shows] /\ order' \in Seq(Ids)
    BY <2>1 DEF Whole
  <2> QED
    BY <1>2, <2>4, <2>5 DEF ApplyInit, TypeOK, Shows, engine, pump, panel
<1>3. CASE InitFails
  <2>1. TableInv'
    BY <1>0, <1>3, <1>n DEF TableInv, InitFails, table
  <2> QED
    BY <1>3, <2>1 DEF InitFails, TypeOK, engine, pump, table, panel
<1> QED
  BY <1>1, <1>2, <1>3

\* The user, and the answers to requests for details.
LEMMA PaneInv == ViewInv /\ (User \/ AnswerGet \/ GetEnds) => ViewInv'
<1> SUFFICES ASSUME ViewInv, User \/ AnswerGet \/ GetEnds PROVE ViewInv'
  OBVIOUS
<1> USE DEF ViewInv
<1>1. UNCHANGED <<engine, pump, table, init, history>>
  BY DEF User, Select, Deselect, AskClear, AnswerGet, GetEnds, ApplyGet, GetFails
<1>2. TableInv'
  BY <1>1 DEF TableInv, table
<1>3. ASSUME /\ gets' \in Seq(Get) /\ Len(gets') <= MaxGets
             /\ selected' \in 0..MaxId /\ detail' \in 0..MaxId
             /\ pane' \in {"settled", "loading"}
             /\ clearing' \in {"none", "sent", "answered"} /\ clears' \in 0..MaxClears
      PROVE  ViewInv'
  BY <1>1, <1>2, <1>3 DEF TypeOK, engine, pump, table
<1>4. /\ gets \in Seq(Get) /\ Len(gets) \in Nat /\ Len(gets) <= MaxGets
      /\ \A p \in 1..Len(gets) : gets[p] \in Get
      /\ selected \in 0..MaxId /\ detail \in 0..MaxId /\ 0 \in 0..MaxId
      /\ pane \in {"settled", "loading"}
      /\ clearing \in {"none", "sent", "answered"} /\ clears \in 0..MaxClears
      /\ MaxClears \in Nat
  BY BoundsAssumption DEF TypeOK
<1>5. ASSUME NEW i \in Ids, Select(i) PROVE ViewInv'
  <2>1. gets' \in Seq(Get) /\ Len(gets') <= MaxGets /\ pane' = "loading"
    BY <1>5, AsksType DEF Select
  <2>2. selected' \in 0..MaxId
    BY <1>5, IdsOK DEF Select
  <2> QED
    BY <1>3, <1>4, <1>5, <2>1, <2>2 DEF Select
<1>6. CASE Deselect
  BY <1>3, <1>4, <1>6 DEF Deselect
<1>7. CASE AskClear
  <2>1. clears' \in 0..MaxClears /\ clearing' = "sent"
    BY <1>4, <1>7 DEF AskClear
  <2> QED
    BY <1>3, <1>4, <1>7, <2>1 DEF AskClear, panel
<1>8. CASE AnswerGet
  <2>1. PICK p \in 1..Len(gets) :
           gets' = [gets EXCEPT ![p] = [pc |-> "answered", id |-> gets[p].id,
                                        found |-> gets[p].id \in rows]]
    BY <1>8 DEF AnswerGet
  <2> DEFINE g == [pc |-> "answered", id |-> gets[p].id, found |-> gets[p].id \in rows]
  <2>2. g \in Get
    BY <1>4 DEF Get
  <2>3. gets' = [gets EXCEPT ![p] = g]
    BY <2>1
  <2> HIDE DEF g
  <2>4. gets' \in Seq(Get) /\ Len(gets') = Len(gets)
    BY <1>4, <2>2, <2>3, ExceptSeq
  <2> QED
    BY <1>3, <1>4, <1>8, <2>4 DEF AnswerGet
<1>9. ASSUME NEW p \in 1..Len(gets), ApplyGet(p) PROVE ViewInv'
  <2>1. gets' \in Seq(Get) /\ Len(gets') <= MaxGets
    BY <1>9, ArrivesType DEF ApplyGet
  <2>2. Shown(gets[p]) \in 0..MaxId
    BY <1>4, IdsOK DEF Shown, Get
  <2>3. detail' \in 0..MaxId /\ pane' \in {"settled", "loading"}
    BY <1>4, <1>9, <2>2 DEF ApplyGet
  <2> QED
    BY <1>3, <1>4, <1>9, <2>1, <2>3 DEF ApplyGet
<1>10. ASSUME NEW p \in 1..Len(gets), GetFails(p) PROVE ViewInv'
  <2>1. gets' \in Seq(Get) /\ Len(gets') <= MaxGets
    BY <1>10, ArrivesType DEF GetFails
  <2> QED
    BY <1>3, <1>4, <1>10, <2>1 DEF GetFails
<1> QED
  BY <1>5, <1>6, <1>7, <1>8, <1>9, <1>10 DEF User, GetEnds

\* A clear, at the store and in the view.
LEMMA ClearInv == ViewInv /\ (AnswerClear \/ ApplyClear \/ ClearFails) => ViewInv'
<1> SUFFICES ASSUME ViewInv, AnswerClear \/ ApplyClear \/ ClearFails PROVE ViewInv'
  OBVIOUS
<1> USE DEF ViewInv
<1>0. MaxRows \in Nat /\ 0 \in 0..MaxId
  BY BoundsAssumption
<1>1. CASE AnswerClear \/ ClearFails
  <2>1. UNCHANGED <<stage, pump, table, panel, init, history, clears>>
    BY <1>1 DEF AnswerClear, ClearFails
  <2>2. rows' \in SUBSET Ids /\ clearing' \in {"none", "answered"}
    BY <1>1 DEF AnswerClear, ClearFails, TypeOK
  <2>3. TableInv'
    BY <2>1 DEF TableInv, table
  <2> QED
    BY <2>1, <2>2, <2>3 DEF TypeOK, pump, table, panel
<1>2. CASE ApplyClear
  <2> DEFINE t == [order |-> order', view |-> view']
  <2>1. Whole(t) /\ Len(t.order) = 0
    BY <1>2, EmptyWhole DEF ApplyClear
  <2>2. TableInv'
    BY <1>0, <1>2, <2>1 DEF TableInv, ApplyClear
  <2>3. view' \in [Ids -> Shows] /\ order' \in Seq(Ids)
    BY <2>1 DEF Whole
  <2> QED
    BY <1>0, <1>2, <2>2, <2>3 DEF ApplyClear, TypeOK, Shows, engine, pump
<1> QED
  BY <1>1, <1>2

LEMMA ViewNext == ViewInv /\ [Next]_vars => ViewInv'
<1> SUFFICES ASSUME ViewInv, [Next]_vars PROVE ViewInv'
  OBVIOUS
<1>1. CASE UNCHANGED vars
  BY <1>1 DEF vars, engine, pump, table, panel, ViewInv, TypeOK, TableInv
<1> QED
  BY <1>1, FeedInv, BatchInv, HistoryInv, PaneInv, ClearInv DEF Next

\* The inductive invariant: types, and a whole table within its limit.
THEOREM ViewTheorem == Spec => []ViewInv
BY ViewInit, ViewNext, PTL DEF Spec

\* Every variable keeps its type, whatever the bounds.
THEOREM TypeTheorem == Spec => []TypeOK
<1>1. ViewInv => TypeOK
  BY DEF ViewInv
<1> QED
  BY <1>1, ViewTheorem, PTL

\* However batches, drops, the history and clears follow one another, the table
\* lists exactly the rows it holds, each once, and no more than MAX_ROWS.
THEOREM TableTheorem == Spec => []TableIsWhole
<1>1. ViewInv => TableIsWhole
  <2> SUFFICES ASSUME ViewInv PROVE TableIsWhole
    OBVIOUS
  <2> DEFINE n == Len(order)
  <2>1. /\ order \in Seq(Ids) /\ n \in Nat /\ DOMAIN order = 1..n /\ n <= MaxRows
        /\ \A p, q \in 1..n : order[p] = order[q] => p = q
        /\ \A i \in Ids : view[i] # "absent" <=> \E p \in 1..n : order[p] = i
    BY DEF ViewInv, TypeOK, TableInv, Whole
  <2>2. ToSet(order) = {order[p] : p \in 1..n}
    BY <2>1 DEF ToSet
  <2> HIDE DEF n
  <2>3. \A p \in 1..n : order[p] \in Ids
    BY <2>1 DEF n
  <2>4. {i \in Ids : view[i] # "absent"} = ToSet(order)
    BY <2>1, <2>2, <2>3
  <2>5. Cardinality(ToSet(order)) = n
    <3>1. order \in Bijection(1..n, ToSet(order))
      <4>1. order \in [1..n -> ToSet(order)]
        BY <2>1, <2>2 DEF n
      <4> QED
        BY <2>1, <2>2, <4>1 DEF Bijection, Injection, Surjection, IsInjective
    <3> QED
      BY <2>1, <3>1, FS_CountingElements DEF ExistsBijection
  <2> QED
    BY <2>1, <2>4, <2>5 DEF TableIsWhole, n
<1> QED
  BY <1>1, ViewTheorem, PTL

-----------------------------------------------------------------------------
(* The detail pane *)

\* A request for i is under way.
Asked(i) == \E p \in 1..Len(gets) : gets[p].id = i

\* A request that leaves takes no other request with it.
LEMMA ArrivesKeeps ==
    ASSUME TypeOK, NEW p \in 1..Len(gets), Arrives(p), NEW i, Asked(i), gets[p].id # i
    PROVE  Asked(i)'
<1> DEFINE a == SubSeq(gets, 1, p - 1)
           b == SubSeq(gets, p + 1, Len(gets))
           n == Len(gets)
<1>1. gets \in Seq(Get) /\ n \in Nat /\ \A q \in 1..n : gets[q] \in Get
  BY DEF TypeOK
<1>2. gets' = a \o b
  BY DEF Arrives, RemoveAt
<1>3. a \in Seq(Get) /\ Len(a) = p - 1 /\ \A q \in 1..p - 1 : a[q] = gets[q]
  <2>1. \A q \in 1..p - 1 : gets[q] \in Get
    BY <1>1
  <2>2. 1 \in Int /\ p - 1 \in Int /\ (1 <= p - 1 \/ p - 1 = 0)
    BY <1>1
  <2> QED
    BY <2>1, <2>2, SubSeqProperties
<1>4. b \in Seq(Get) /\ Len(b) = n - p /\ \A q \in 1..n - p : b[q] = gets[p + q]
  <2>1. \A q \in p + 1..n : gets[q] \in Get
    BY <1>1
  <2>2. p + 1 \in Int /\ n \in Int /\ (p + 1 <= n \/ n - p = 0)
    BY <1>1
  <2> QED
    BY <2>1, <2>2, SubSeqProperties
<1> HIDE DEF a, b
<1>5. /\ Len(gets') = Len(a) + Len(b)
      /\ \A q \in 1..Len(a) : gets'[q] = a[q]
      /\ \A q \in 1..Len(b) : gets'[Len(a) + q] = b[q]
  <2>1. /\ Len(a \o b) = Len(a) + Len(b)
        /\ \A q \in 1..Len(a) + Len(b) :
              (a \o b)[q] = IF q <= Len(a) THEN a[q] ELSE b[q - Len(a)]
    BY <1>3, <1>4, ConcatProperties
  <2>2. Len(a) \in Nat /\ Len(b) \in Nat
    BY <1>3, <1>4
  <2>3. ASSUME NEW q \in 1..Len(a) PROVE gets'[q] = a[q]
    BY <1>2, <2>1, <2>2, <2>3
  <2>4. ASSUME NEW q \in 1..Len(b) PROVE gets'[Len(a) + q] = b[q]
    <3>1. /\ Len(a) + q \in 1..Len(a) + Len(b) /\ ~(Len(a) + q <= Len(a))
          /\ (Len(a) + q) - Len(a) = q
      BY <2>2, <2>4
    <3> QED
      BY <1>2, <2>1, <3>1
  <2> QED
    BY <1>2, <2>1, <2>3, <2>4
<1>6. PICK q \in 1..n : gets[q].id = i
  BY DEF Asked
<1>7. CASE q < p
  <2>1. q \in 1..p - 1 /\ q \in 1..Len(gets')
    BY <1>1, <1>3, <1>4, <1>5, <1>6, <1>7
  <2>2. gets'[q] = gets[q]
    BY <1>3, <1>5, <2>1
  <2> QED
    BY <1>6, <2>1, <2>2 DEF Asked
<1>8. CASE q > p
  <2>1. q - p \in 1..n - p /\ (p - 1) + (q - p) \in 1..Len(gets') /\ p + (q - p) = q
    BY <1>1, <1>3, <1>4, <1>5, <1>6, <1>8
  <2>2. gets'[(p - 1) + (q - p)] = gets[q]
    BY <1>3, <1>4, <1>5, <2>1
  <2> QED
    BY <1>6, <2>1, <2>2 DEF Asked
<1> QED
  BY <1>1, <1>6, <1>7, <1>8

\* A request is added for just what is selected, and none is lost by it.
LEMMA AsksKeeps ==
    ASSUME TypeOK, NEW i \in Ids, Asks(i)
    PROVE  Asked(i)'
<1> DEFINE g == [pc |-> "sent", id |-> i, found |-> FALSE]
<1>1. g \in Get /\ gets \in Seq(Get) /\ Len(gets) \in Nat
  BY DEF Get, TypeOK
<1>2. gets' = Append(gets, g)
  BY DEF Asks
<1>3. Len(gets') = Len(gets) + 1 /\ gets'[Len(gets) + 1] = g
  BY <1>1, <1>2, AppendProperties
<1> QED
  BY <1>1, <1>3 DEF Asked

Loading == pane = "loading" /\ selected # 0 => Asked(selected)

\* The end of a request settles the pane or leaves the one it waits for.
LEMMA LoadingStep ==
    ASSUME TypeOK, Loading, Next
    PROVE  Loading'
<1> USE DEF Loading
<1>1. CASE GetEnds
  <2>1. PICK p \in 1..Len(gets) : ApplyGet(p) \/ GetFails(p)
    BY <1>1 DEF GetEnds
  <2>2. Arrives(p) /\ selected' = selected
    BY <2>1 DEF ApplyGet, GetFails
  <2>3. CASE pane' = "settled"
    BY <2>3
  <2>4. CASE pane' # "settled"
    <3>1. selected # gets[p].id /\ pane' = pane
      BY <2>1, <2>4 DEF ApplyGet, GetFails
    <3> QED
      BY <2>2, <3>1, ArrivesKeeps
  <2> QED
    BY <2>3, <2>4
<1>2. CASE \E i \in Ids : Select(i)
  <2>1. PICK i \in Ids : Select(i)
    BY <1>2
  <2> QED
    BY <2>1, AsksKeeps DEF Select
<1>3. CASE ApplyBatch
  <2>1. selected' = selected
    BY <1>3 DEF ApplyBatch
  <2>2. CASE UNCHANGED <<gets, pane>>
    BY <2>1, <2>2 DEF Asked
  <2>3. CASE ~UNCHANGED <<gets, pane>>
    <3>1. selected # 0 /\ Asks(selected)
      BY <1>3, <2>3 DEF ApplyBatch
    <3>2. selected \in Ids
      BY <3>1, BoundsAssumption DEF TypeOK, Ids
    <3> QED
      BY <2>1, <3>1, <3>2, AsksKeeps
  <2> QED
    BY <2>2, <2>3
<1>4. CASE AnswerGet
  <2>1. PICK p \in 1..Len(gets) :
           gets' = [gets EXCEPT ![p] = [pc |-> "answered", id |-> gets[p].id,
                                        found |-> gets[p].id \in rows]]
    BY <1>4 DEF AnswerGet
  <2>2. gets \in Seq(Get)
    BY DEF TypeOK
  <2>3. Len(gets') = Len(gets) /\ \A q \in 1..Len(gets) : gets'[q].id = gets[q].id
    BY <2>1, <2>2
  <2> QED
    BY <1>4, <2>3 DEF AnswerGet, Asked
<1>5. CASE Deselect \/ ApplyClear
  BY <1>5 DEF Deselect, ApplyClear
<1>6. CASE \/ Engine \/ Receive \/ Tick \/ AnswerInit \/ ApplyInit \/ InitFails \/ AnswerClear
           \/ ClearFails \/ AskClear
  <2>1. UNCHANGED panel
    BY <1>6 DEF Engine, Announces, Ends, Completes, Receive, Tick, AnswerInit, ApplyInit,
                InitFails, AnswerClear, ClearFails, AskClear
  <2> QED
    BY <2>1 DEF panel, Asked
<1> QED
  BY <1>1, <1>2, <1>3, <1>4, <1>5, <1>6 DEF Next, User

\* While the pane says that the selected transaction is loading, a request for it
\* is under way, for any number of requests and whatever becomes of them.
THEOREM LoadingTheorem == Spec => []LoadingEnds
<1>1. Init => Loading
  BY DEF Init, Loading
<1>2. TypeOK /\ Loading /\ [Next]_vars => Loading'
  <2>1. CASE UNCHANGED vars
    BY <2>1 DEF vars, panel, Loading, Asked
  <2> QED
    BY <2>1, LoadingStep
<1>3. Loading => LoadingEnds
  BY DEF Loading, LoadingEnds, Asked
<1> QED
  BY <1>1, <1>2, <1>3, TypeTheorem, PTL DEF Spec

\* What the pane starts to show is selected at that moment.
LEMMA OtherStep == Next => detail' \in {detail, 0, selected'}
<1> SUFFICES ASSUME Next PROVE detail' \in {detail, 0, selected'}
  OBVIOUS
<1>1. CASE GetEnds
  <2>1. PICK p \in 1..Len(gets) : ApplyGet(p) \/ GetFails(p)
    BY <1>1 DEF GetEnds
  <2>2. CASE ApplyGet(p) /\ selected = gets[p].id
    BY <2>2 DEF ApplyGet, Shown
  <2>3. CASE (ApplyGet(p) /\ selected # gets[p].id) \/ GetFails(p)
    BY <2>3 DEF ApplyGet, GetFails
  <2> QED
    BY <2>1, <2>2, <2>3
<1>2. CASE User \/ AnswerGet \/ ApplyBatch \/ ApplyClear
  BY <1>2 DEF User, Select, Deselect, AskClear, AnswerGet, ApplyBatch, ApplyClear, panel
<1>3. CASE Engine \/ Receive \/ Tick \/ AnswerInit \/ ApplyInit \/ InitFails \/ AnswerClear
           \/ ClearFails
  BY <1>3 DEF Engine, Announces, Ends, Completes, Receive, Tick, AnswerInit, ApplyInit,
              InitFails, AnswerClear, ClearFails, panel
<1> QED
  BY <1>1, <1>2, <1>3 DEF Next

\* The pane never starts to show a transaction that is not selected, for any
\* number of requests, and however they are answered, overtaken or lost (select).
THEOREM OtherTheorem == Spec => NoOtherShown
<1>1. [Next]_vars => [detail' \in {detail, 0, selected'}]_vars
  BY OtherStep
<1> QED
  BY <1>1, PTL DEF Spec, NoOtherShown

\* A step that fails no request keeps a settled pane true.
LEMMA DetailStep ==
    ASSUME ~Faults, DetailIsSelected, Next
    PROVE  DetailIsSelected'
<1> USE DEF DetailIsSelected
<1>1. CASE ApplyBatch
  <2>1. selected' = selected /\ detail' = detail /\ pane' \in {"loading", pane}
    BY <1>1 DEF ApplyBatch, Asks
  <2> QED
    BY <2>1
<1>2. CASE GetEnds
  <2>1. PICK p \in 1..Len(gets) : ApplyGet(p)
    BY <1>2 DEF GetEnds, GetFails
  <2>2. CASE selected = gets[p].id
    BY <2>1, <2>2 DEF ApplyGet, Shown
  <2>3. CASE selected # gets[p].id
    BY <2>1, <2>3 DEF ApplyGet
  <2> QED
    BY <2>2, <2>3
<1>3. CASE User
  <2>1. CASE \E i \in Ids : Select(i)
    BY <2>1 DEF Select, Asks
  <2>2. CASE Deselect \/ AskClear
    BY <2>2 DEF Deselect, AskClear, panel
  <2> QED
    BY <1>3, <2>1, <2>2 DEF User
<1>4. CASE AnswerGet \/ ApplyClear
  BY <1>4 DEF AnswerGet, ApplyClear
<1>5. CASE Engine \/ Receive \/ Tick \/ AnswerInit \/ ApplyInit \/ InitFails \/ AnswerClear
           \/ ClearFails
  <2>1. UNCHANGED panel
    BY <1>5 DEF Engine, Announces, Ends, Completes, Receive, Tick, AnswerInit, ApplyInit,
                InitFails, AnswerClear, ClearFails
  <2> QED
    BY <2>1 DEF panel
<1> QED
  BY <1>1, <1>2, <1>3, <1>4, <1>5 DEF Next

\* As long as no request fails, a settled pane shows the selected transaction or
\* nothing, for any number of requests and any order of their answers.  A request
\* that fails breaks it: its error settles the pane with what it showed before.
THEOREM DetailTheorem == ~Faults /\ Spec => []DetailIsSelected
<1> SUFFICES ASSUME ~Faults PROVE Spec => []DetailIsSelected
  OBVIOUS
<1>1. Init => DetailIsSelected
  BY DEF Init, DetailIsSelected
<1>2. DetailIsSelected /\ [Next]_vars => DetailIsSelected'
  <2>1. CASE UNCHANGED vars
    BY <2>1 DEF vars, panel, DetailIsSelected
  <2> QED
    BY <2>1, DetailStep
<1> QED
  BY <1>1, <1>2, PTL DEF Spec

-----------------------------------------------------------------------------
(* Completions on their way *)

\* Events held in a sequence: any event about i; the completion is the last
\* event about i.
About(s, i)  == \E p \in 1..Len(s) : s[p].id = i
EndsIt(s, i) == \A p, q \in 1..Len(s) : s[p] = Done(i) /\ s[q].id = i => q <= p

\* One more event.
LEMMA AppendEvent ==
    ASSUME NEW s \in Seq(Event), NEW e \in Event, NEW i \in Ids
    PROVE  /\ Append(s, e) \in Seq(Event)
           /\ Has(Append(s, e), i) <=> Has(s, i) \/ e = Done(i)
           /\ About(Append(s, e), i) <=> About(s, i) \/ e.id = i
           /\ EndsIt(s, i) /\ (Has(s, i) => e.id # i) => EndsIt(Append(s, e), i)
<1> DEFINE t == Append(s, e)
           n == Len(s)
<1>1. /\ n \in Nat /\ t \in Seq(Event) /\ Len(t) = n + 1
      /\ \A p \in 1..n : t[p] = s[p]
      /\ t[n + 1] = e
  BY AppendProperties
<1> HIDE DEF t, n
<1>2. 1..n + 1 = (1..n) \cup {n + 1}
  BY <1>1
<1>3. Has(t, i) <=> Has(s, i) \/ e = Done(i)
  <2>1. Has(t, i) <=> \E p \in (1..n) \cup {n + 1} : t[p] = Done(i)
    BY <1>1, <1>2 DEF Has
  <2>2. Has(s, i) <=> \E p \in 1..n : t[p] = Done(i)
    BY <1>1 DEF Has, n
  <2> QED
    BY <1>1, <2>1, <2>2
<1>4. About(t, i) <=> About(s, i) \/ e.id = i
  <2>1. About(t, i) <=> \E p \in (1..n) \cup {n + 1} : t[p].id = i
    BY <1>1, <1>2 DEF About
  <2>2. About(s, i) <=> \E p \in 1..n : t[p].id = i
    BY <1>1 DEF About, n
  <2> QED
    BY <1>1, <2>1, <2>2
<1>5. ASSUME EndsIt(s, i), Has(s, i) => e.id # i PROVE EndsIt(t, i)
  <2>1. SUFFICES ASSUME NEW p \in 1..n + 1, NEW q \in 1..n + 1, t[p] = Done(i), t[q].id = i
                 PROVE  q <= p
    BY <1>1 DEF EndsIt
  <2>2. CASE p = n + 1
    BY <1>1, <2>2
  <2>3. CASE p # n + 1
    <3>1. p \in 1..n /\ s[p] = Done(i)
      BY <1>1, <2>1, <2>3
    <3>2. Has(s, i)
      BY <3>1 DEF Has, n
    <3>3. q \in 1..n /\ s[q].id = i
      BY <1>1, <1>5, <2>1, <3>2
    <3> QED
      BY <1>5, <3>1, <3>3 DEF EndsIt, n
  <2> QED
    BY <2>2, <2>3
<1> QED
  BY <1>1, <1>3, <1>4, <1>5 DEF t

\* The oldest event leaves.
LEMMA TailEvent ==
    ASSUME NEW s \in Seq(Event), s # <<>>, NEW i \in Ids
    PROVE  /\ Head(s) \in Event /\ Tail(s) \in Seq(Event)
           /\ Has(s, i) <=> Head(s) = Done(i) \/ Has(Tail(s), i)
           /\ About(s, i) <=> Head(s).id = i \/ About(Tail(s), i)
           /\ EndsIt(s, i) => /\ EndsIt(Tail(s), i)
                              /\ Head(s) = Done(i) => ~About(Tail(s), i)
<1> DEFINE t == Tail(s)
           n == Len(s)
<1>1. /\ n \in Nat \ {0} /\ t \in Seq(Event) /\ Len(t) = n - 1
      /\ \A p \in 1..n - 1 : t[p] = s[p + 1]
      /\ Head(s) = s[1] /\ Head(s) \in Event
  BY HeadTailProperties
<1> HIDE DEF t, n
<1>2. \A p \in 1..n : p = 1 \/ (p - 1 \in 1..n - 1 /\ s[p] = t[p - 1])
  <2>1. SUFFICES ASSUME NEW p \in 1..n, p # 1 PROVE p - 1 \in 1..n - 1 /\ s[p] = t[p - 1]
    OBVIOUS
  <2>2. p - 1 \in 1..n - 1 /\ (p - 1) + 1 = p
    BY <1>1, <2>1
  <2> QED
    BY <1>1, <2>2
<1>3. \A p \in 1..n - 1 : p + 1 \in 1..n
  BY <1>1
<1>4. 1 \in 1..n
  BY <1>1
<1>5. Has(s, i) <=> s[1] = Done(i) \/ Has(t, i)
  BY <1>1, <1>2, <1>3, <1>4 DEF Has, n
<1>6. About(s, i) <=> s[1].id = i \/ About(t, i)
  BY <1>1, <1>2, <1>3, <1>4 DEF About, n
<1>7. ASSUME EndsIt(s, i) PROVE EndsIt(t, i)
  <2>1. SUFFICES ASSUME NEW p \in 1..n - 1, NEW q \in 1..n - 1, t[p] = Done(i), t[q].id = i
                 PROVE  q <= p
    BY <1>1 DEF EndsIt
  <2>2. s[p + 1] = Done(i) /\ s[q + 1].id = i /\ p + 1 \in 1..n /\ q + 1 \in 1..n
    BY <1>1, <1>3, <2>1
  <2>3. q + 1 <= p + 1
    BY <1>7, <2>2 DEF EndsIt, n
  <2> QED
    BY <1>1, <2>3
<1>8. ASSUME EndsIt(s, i), s[1] = Done(i), About(t, i) PROVE FALSE
  <2>1. PICK p \in 1..n - 1 : s[p + 1].id = i
    BY <1>1, <1>8 DEF About
  <2>2. p + 1 <= 1
    BY <1>3, <1>4, <1>8, <2>1 DEF EndsIt, n
  <2> QED
    BY <1>1, <2>2
<1> QED
  BY <1>1, <1>5, <1>6, <1>7, <1>8 DEF t

\* A completion is an event about its transaction, and nothing is about any in
\* an empty sequence.
LEMMA HasIsAbout ==
    ASSUME NEW s, NEW i \in Ids, Has(s, i)
    PROVE  About(s, i)
BY DEF Has, About, Done

LEMMA NothingHeld ==
    ASSUME NEW i \in Ids
    PROVE  ~Has(<<>>, i) /\ ~About(<<>>, i) /\ EndsIt(<<>>, i)
BY DEF Has, About, EndsIt

\* What a publication adds to the bus, and what it may drop.
LEMMA PublishStream ==
    ASSUME TypeOK, NEW type \in Types, NEW k \in Ids, Publish(type, k), NEW i \in Ids,
           EndsIt(bus, i), Has(bus, i) => i # k
    PROVE  /\ EndsIt(bus', i)
           /\ dropped \subseteq dropped'
           /\ Has(bus', i) => Has(bus, i) \/ (type = "completed" /\ i = k)
           /\ About(bus', i) => About(bus, i) \/ i = k
           /\ Has(bus, i) \/ (type = "completed" /\ i = k) => Has(bus', i) \/ i \in dropped'
<1> DEFINE e == [type |-> type, id |-> k]
           all == Append(bus, e)
<1>1. bus \in Seq(Event) /\ e \in Event /\ e.id = k /\ (e = Done(i) <=> type = "completed" /\ i = k)
  BY DEF TypeOK, Event, Done
<1>2. /\ all \in Seq(Event) /\ all # <<>>
      /\ Has(all, i) <=> Has(bus, i) \/ (type = "completed" /\ i = k)
      /\ About(all, i) <=> About(bus, i) \/ k = i
      /\ EndsIt(all, i)
  <2> HIDE DEF e
  <2> QED
    BY <1>1, AppendEvent, AppendProperties
<1>3. CASE Len(bus) < BusCapacity
  <2>1. bus' = all /\ dropped' = dropped
    BY <1>3 DEF Publish
  <2> HIDE DEF all
  <2> QED
    BY <1>2, <2>1
<1>4. CASE ~(Len(bus) < BusCapacity)
  <2>1. /\ bus' = Tail(all)
        /\ dropped' = IF Head(all).type = "completed"
                      THEN dropped \cup {Head(all).id} ELSE dropped
    BY <1>4 DEF Publish
  <2> HIDE DEF all
  <2>2. /\ Has(all, i) <=> Head(all) = Done(i) \/ Has(bus', i)
        /\ About(all, i) <=> Head(all).id = i \/ About(bus', i)
        /\ EndsIt(bus', i)
    BY <1>2, <2>1, TailEvent
  <2>3. dropped \subseteq dropped' /\ (Head(all) = Done(i) => i \in dropped')
    BY <2>1 DEF Done
  <2> QED
    BY <1>2, <2>2, <2>3
<1> QED
  BY <1>3, <1>4

\* Some batch holds it, and what comes after a batch is about other transactions.
AboutBatch(i) == \E b \in 1..Len(batches) : About(batches[b], i)
LastBatch(b, i) ==
    /\ ~About(bus, i)
    /\ ~About(buffer, i)
    /\ \A c \in 1..Len(batches) : b < c => ~About(batches[c], i)

\* Events reach the view in the order they are published: the completion of a
\* transaction is the last event about it, wherever it is by now.
StreamInv(i) ==
    /\ EndsIt(bus, i)
    /\ EndsIt(buffer, i)
    /\ Has(buffer, i) => ~About(bus, i)
    /\ \A b \in 1..Len(batches) : /\ EndsIt(batches[b], i)
                                  /\ Has(batches[b], i) => LastBatch(b, i)

\* Any event about i is still on its way to the view.
Pending(i) == About(bus, i) \/ About(buffer, i) \/ AboutBatch(i)

\* A completion is published once the transaction is complete; what the view, the
\* store or the answer to init holds as final has ended; and a transaction that
\* is complete is shown as active, or will be, only while its completion is on
\* its way or was dropped.
OwedInv(i) ==
    /\ Owed(i) => stage[i] = "completed"
    /\ view[i] = "final" \/ i \in rows \cup history => stage[i] \in {"ended", "completed"}
    /\ stage[i] = "completed" /\ i \notin dropped /\ (view[i] = "active" \/ Pending(i))
         => Owed(i)

ArrivalInv == \A i \in Ids : StreamInv(i) /\ OwedInv(i)

LEMMA ArrivalInit == Init => ArrivalInv
<1> SUFFICES ASSUME Init, NEW i \in Ids PROVE StreamInv(i) /\ OwedInv(i)
  BY DEF ArrivalInv
<1>1. bus = <<>> /\ buffer = <<>> /\ batches = <<>> /\ view[i] = "absent" /\ history = {}
  BY DEF Init
<1>2. ~HasBatch(i) /\ ~AboutBatch(i) /\ 1..Len(batches) = {}
  BY <1>1 DEF HasBatch, AboutBatch
<1>3. StreamInv(i) /\ ~Owed(i) /\ ~Pending(i)
  BY <1>1, <1>2, NothingHeld DEF StreamInv, Owed, Pending
<1>4. i \in rows => stage[i] = "completed"
  <2>1. PICK n \in 0..MaxId : /\ stage = [j \in Ids |-> IF j <= n THEN "completed" ELSE "none"]
                              /\ rows = 1..n
    BY DEF Init
  <2> QED
    BY <2>1, IdsOK
<1> QED
  BY <1>1, <1>3, <1>4 DEF OwedInv

\* Steps that move no event and do not go on with i keep what holds of i if they
\* show and hold nothing new as final.
LEMMA QuietStep ==
    ASSUME NEW i \in Ids, StreamInv(i), OwedInv(i),
           UNCHANGED <<bus, dropped, buffer, batches>>, stage'[i] = stage[i],
           rows' \cup history' \subseteq rows \cup history,
           \/ view'[i] \in {view[i], "absent"}
           \/ view'[i] = "final" /\ i \in history
    PROVE  StreamInv(i)' /\ OwedInv(i)'
<1>1. /\ Owed(i)' <=> Owed(i)
      /\ Pending(i)' <=> Pending(i)
      /\ StreamInv(i)'
  BY DEF Owed, Pending, HasBatch, AboutBatch, StreamInv, LastBatch
<1> QED
  BY <1>1 DEF OwedInv

\* A publication about k: nothing about k was owed before it.
LEMMA PublishArrives ==
    ASSUME TypeOK, NEW type \in Types, NEW k \in Ids, Publish(type, k),
           UNCHANGED <<rows, history, buffer, batches, view>>,
           NEW i \in Ids, StreamInv(i), OwedInv(i),
           i # k => stage'[i] = stage[i],
           i = k => /\ ~Owed(i)
                    /\ stage[i] \in {"ended", "completed"} => stage'[i] \in {"ended", "completed"}
                    /\ type = "completed" <=> stage'[i] = "completed"
    PROVE  StreamInv(i)' /\ OwedInv(i)'
<1>1. i = k => ~Has(bus, i) /\ ~Has(buffer, i) /\ ~HasBatch(i)
  BY DEF Owed
<1>2. /\ EndsIt(bus', i)
      /\ dropped \subseteq dropped'
      /\ Has(bus', i) => Has(bus, i) \/ (type = "completed" /\ i = k)
      /\ About(bus', i) => About(bus, i) \/ i = k
      /\ Has(bus, i) \/ (type = "completed" /\ i = k) => Has(bus', i) \/ i \in dropped'
  BY <1>1, PublishStream DEF StreamInv
<1>3. /\ HasBatch(i)' <=> HasBatch(i)
      /\ AboutBatch(i)' <=> AboutBatch(i)
      /\ Has(buffer', i) <=> Has(buffer, i)
      /\ About(buffer', i) <=> About(buffer, i)
  BY DEF HasBatch, AboutBatch
<1>4. StreamInv(i)'
  <2>1. Has(buffer', i) => ~About(bus', i)
    BY <1>1, <1>2, <1>3 DEF StreamInv
  <2>2. ASSUME NEW b \in 1..Len(batches), Has(batches[b], i)
        PROVE  LastBatch(b, i) /\ ~About(bus', i)
    <3>1. i # k
      BY <1>1, <2>2 DEF HasBatch
    <3> QED
      BY <1>2, <2>2, <3>1 DEF StreamInv, LastBatch
  <2> QED
    BY <1>2, <2>1, <2>2 DEF StreamInv, LastBatch
<1>5. Owed(i)' => Owed(i) \/ (type = "completed" /\ i = k)
  BY <1>2, <1>3 DEF Owed
<1>6. Owed(i) \/ (type = "completed" /\ i = k) => Owed(i)' \/ i \in dropped'
  BY <1>2, <1>3 DEF Owed
<1>7. Pending(i)' => Pending(i) \/ i = k
  BY <1>2, <1>3 DEF Pending
<1>8. OwedInv(i)'
  <2>1. CASE i = k
    BY <1>1, <1>5, <1>6, <2>1 DEF OwedInv
  <2>2. CASE i # k
    BY <1>2, <1>5, <1>6, <1>7, <2>2 DEF OwedInv
  <2> QED
    BY <2>1, <2>2
<1> QED
  BY <1>4, <1>8

LEMMA EngineArrives == TypeOK /\ ArrivalInv /\ Engine => ArrivalInv'
<1> SUFFICES ASSUME TypeOK, ArrivalInv, Engine, NEW i \in Ids
             PROVE  StreamInv(i)' /\ OwedInv(i)'
  BY DEF ArrivalInv
<1>1. PICK k \in Ids : Announces(k) \/ Ends(k) \/ Completes(k)
  BY DEF Engine
<1>2. StreamInv(i) /\ OwedInv(i) /\ stage \in [Ids -> Stages]
  BY DEF ArrivalInv, TypeOK
<1>3. Owed(i) => stage[i] = "completed"
  BY <1>2 DEF OwedInv
<1>4. CASE Announces(k)
  <2>1. Publish("active", k) /\ "active" \in Types
    BY <1>4 DEF Announces, Types
  <2>2. UNCHANGED <<rows, history, buffer, batches, view>>
    BY <1>4 DEF Announces, table
  <2>3. /\ i # k => stage'[i] = stage[i]
        /\ i = k => stage[i] \in {"none", "started"} /\ stage'[i] \in {"started", "updated"}
    BY <1>2, <1>4 DEF Announces, Moves
  <2> QED
    BY <1>2, <1>3, <2>1, <2>2, <2>3, PublishArrives
<1>5. CASE Completes(k)
  <2>1. Publish("completed", k) /\ "completed" \in Types
    BY <1>5 DEF Completes, Types
  <2>2. UNCHANGED <<rows, history, buffer, batches, view>>
    BY <1>5 DEF Completes, table
  <2>3. /\ i # k => stage'[i] = stage[i]
        /\ i = k => stage[i] = "ended" /\ stage'[i] = "completed"
    BY <1>2, <1>5 DEF Completes, Moves
  <2> QED
    BY <1>2, <1>3, <2>1, <2>2, <2>3, PublishArrives
<1>6. CASE Ends(k)
  <2>1. UNCHANGED <<bus, dropped, buffer, batches, view, history>>
    BY <1>6 DEF Ends, pump, table
  <2>2. rows' \subseteq rows \cup {k}
    BY <1>6 DEF Ends
  <2>3. /\ i # k => stage'[i] = stage[i]
        /\ i = k => stage[i] \in {"started", "updated"} /\ stage'[i] = "ended"
    BY <1>2, <1>6 DEF Ends, Moves
  <2>4. /\ Owed(i)' <=> Owed(i)
        /\ Pending(i)' <=> Pending(i)
        /\ StreamInv(i)'
    BY <1>2, <2>1 DEF Owed, Pending, HasBatch, AboutBatch, StreamInv, LastBatch
  <2>5. OwedInv(i)'
    <3>1. CASE i = k
      BY <1>3, <2>3, <2>4, <3>1 DEF OwedInv
    <3>2. CASE i # k
      BY <1>2, <2>1, <2>2, <2>3, <2>4, <3>2 DEF OwedInv
    <3> QED
      BY <3>1, <3>2
  <2> QED
    BY <2>4, <2>5
<1> QED
  BY <1>1, <1>4, <1>5, <1>6

\* The pump takes the oldest event of the bus ...
LEMMA ReceiveArrives == TypeOK /\ ArrivalInv /\ Receive => ArrivalInv'
<1> SUFFICES ASSUME TypeOK, ArrivalInv, Receive, NEW i \in Ids
             PROVE  StreamInv(i)' /\ OwedInv(i)'
  BY DEF ArrivalInv
<1> DEFINE e == Head(bus)
<1>1. StreamInv(i) /\ OwedInv(i)
  BY DEF ArrivalInv
<1>2. /\ bus # <<>> /\ bus' = Tail(bus) /\ buffer' = Append(buffer, e)
      /\ UNCHANGED <<stage, rows, dropped, batches, view, history>>
  BY DEF Receive, engine, table
<1>3. bus \in Seq(Event) /\ buffer \in Seq(Event)
  BY DEF TypeOK
<1>4. /\ e \in Event
      /\ Has(bus, i) <=> e = Done(i) \/ Has(bus', i)
      /\ About(bus, i) <=> e.id = i \/ About(bus', i)
      /\ EndsIt(bus', i) /\ (e = Done(i) => ~About(bus', i))
  BY <1>1, <1>2, <1>3, TailEvent DEF StreamInv
<1> HIDE DEF e
<1>5. /\ Has(buffer', i) <=> Has(buffer, i) \/ e = Done(i)
      /\ About(buffer', i) <=> About(buffer, i) \/ e.id = i
      /\ EndsIt(buffer, i) /\ (Has(buffer, i) => e.id # i) => EndsIt(buffer', i)
  BY <1>2, <1>3, <1>4, AppendEvent
<1>6. HasBatch(i)' <=> HasBatch(i)
  BY <1>2 DEF HasBatch
<1>7. AboutBatch(i)' <=> AboutBatch(i)
  BY <1>2 DEF AboutBatch
<1>8. Owed(i)' <=> Owed(i)
  BY <1>4, <1>5, <1>6 DEF Owed
<1>9. Pending(i)' <=> Pending(i)
  BY <1>4, <1>5, <1>7 DEF Pending
<1>10. EndsIt(buffer', i) /\ (Has(buffer', i) => ~About(bus', i))
  BY <1>1, <1>4, <1>5 DEF StreamInv
<1>11. \A b : LastBatch(b, i) => LastBatch(b, i)'
  BY <1>2, <1>4, <1>5 DEF LastBatch
<1>12. StreamInv(i)'
  BY <1>1, <1>2, <1>4, <1>10, <1>11 DEF StreamInv
<1>13. OwedInv(i)'
  BY <1>1, <1>2, <1>8, <1>9 DEF OwedInv
<1> QED
  BY <1>12, <1>13

\* ... and sends what it holds as one batch.
LEMMA TickArrives == TypeOK /\ ArrivalInv /\ Tick => ArrivalInv'
<1> SUFFICES ASSUME TypeOK, ArrivalInv, Tick, NEW i \in Ids
             PROVE  StreamInv(i)' /\ OwedInv(i)'
  BY DEF ArrivalInv
<1> DEFINE n == Len(batches)
<1>1. StreamInv(i) /\ OwedInv(i)
  BY DEF ArrivalInv
<1>2. /\ batches' = Append(batches, buffer) /\ buffer' = <<>>
      /\ UNCHANGED <<stage, rows, bus, dropped, view, history>>
  BY DEF Tick, engine, table
<1>3. batches \in Seq(Seq(Event)) /\ buffer \in Seq(Event) /\ n \in Nat
  BY DEF TypeOK
<1>4. /\ Len(batches') = n + 1 /\ batches'[n + 1] = buffer
      /\ \A b \in 1..n : batches'[b] = batches[b]
  BY <1>2, <1>3, AppendProperties
<1> HIDE DEF n
<1>5. 1..n + 1 = (1..n) \cup {n + 1}
  BY <1>3
<1>6. ~Has(buffer', i) /\ ~About(buffer', i) /\ EndsIt(buffer', i)
  BY <1>2, NothingHeld
<1>7. HasBatch(i)' <=> HasBatch(i) \/ Has(buffer, i)
  <2>1. HasBatch(i)' <=> \E b \in (1..n) \cup {n + 1} : Has(batches'[b], i)
    BY <1>4, <1>5 DEF HasBatch
  <2>2. HasBatch(i) <=> \E b \in 1..n : Has(batches'[b], i)
    BY <1>4 DEF HasBatch, n
  <2> QED
    BY <1>4, <2>1, <2>2
<1>8. AboutBatch(i)' <=> AboutBatch(i) \/ About(buffer, i)
  <2>1. AboutBatch(i)' <=> \E b \in (1..n) \cup {n + 1} : About(batches'[b], i)
    BY <1>4, <1>5 DEF AboutBatch
  <2>2. AboutBatch(i) <=> \E b \in 1..n : About(batches'[b], i)
    BY <1>4 DEF AboutBatch, n
  <2> QED
    BY <1>4, <2>1, <2>2
<1>9. Owed(i)' <=> Owed(i)
  BY <1>2, <1>6, <1>7 DEF Owed
<1>10. Pending(i)' <=> Pending(i)
  BY <1>2, <1>6, <1>8 DEF Pending
<1>11. ASSUME NEW b \in 1..n + 1
       PROVE  EndsIt(batches'[b], i) /\ (Has(batches'[b], i) => LastBatch(b, i)')
  <2>1. CASE b = n + 1
    <3>1. EndsIt(batches'[b], i) /\ (Has(batches'[b], i) => ~About(bus', i))
      BY <1>1, <1>2, <1>4, <2>1 DEF StreamInv
    <3>2. \A c \in 1..Len(batches') : ~(b < c)
      BY <1>3, <1>4, <2>1
    <3> QED
      BY <1>6, <3>1, <3>2 DEF LastBatch
  <2>2. CASE b # n + 1
    <3>1. b \in 1..n /\ batches'[b] = batches[b]
      BY <1>4, <1>5, <2>2
    <3>2. EndsIt(batches[b], i) /\ (Has(batches[b], i) => LastBatch(b, i))
      BY <1>1, <3>1 DEF StreamInv, n
    <3>3. ASSUME LastBatch(b, i) PROVE LastBatch(b, i)'
      <4>1. \A c \in (1..n) \cup {n + 1} : b < c => ~About(batches'[c], i)
        BY <1>4, <3>3 DEF LastBatch, n
      <4> QED
        BY <1>2, <1>4, <1>5, <1>6, <3>3, <4>1 DEF LastBatch
    <3> QED
      BY <3>1, <3>2, <3>3
  <2> QED
    BY <2>1, <2>2
<1>12. StreamInv(i)'
  BY <1>1, <1>2, <1>4, <1>6, <1>11 DEF StreamInv
<1>13. OwedInv(i)'
  BY <1>1, <1>2, <1>9, <1>10 DEF OwedInv
<1> QED
  BY <1>12, <1>13

\* What a batch that a completion ends makes of a row.
LEMMA AppliedRow ==
    ASSUME NEW batch \in Seq(Event), NEW i \in Ids, EndsIt(batch, i)
    PROVE  Applied(batch).view[i] = IF ~About(batch, i) THEN view[i]
                                    ELSE IF Has(batch, i) THEN "final" ELSE "active"
<1> DEFINE n == Len(batch)
           about(k) == {p \in 1..n : batch[p].id = k}
           v == [k \in Ids |-> IF about(k) = {} THEN view[k]
                               ELSE IF batch[Max(about(k))].type = "completed"
                                    THEN "final" ELSE "active"]
           m == Max(about(i))
<1>1. Applied(batch).view = v
  BY DEF Applied
<1>2. n \in Nat /\ \A p \in 1..n : batch[p] \in Event
  OBVIOUS
<1>3. About(batch, i) <=> about(i) # {}
  BY DEF About
<1>4. v[i] = IF about(i) = {} THEN view[i]
             ELSE IF batch[m].type = "completed" THEN "final" ELSE "active"
  OBVIOUS
<1>5. CASE about(i) = {}
  BY <1>1, <1>3, <1>4, <1>5
<1>6. CASE about(i) # {}
  <2>1. m \in about(i) /\ \A p \in about(i) : p <= m
    <3>1. about(i) \in SUBSET Nat /\ \A p \in about(i) : p <= n
      BY <1>2
    <3> HIDE DEF about, n
    <3> QED
      BY <1>2, <1>6, <3>1, MaxIsGreatest
  <2> HIDE DEF m, v
  <2>2. m \in 1..n /\ batch[m].id = i /\ batch[m] \in Event
    BY <1>2, <2>1
  <2>3. batch[m].type = "completed" => Has(batch, i)
    BY <2>2 DEF Has, Done, Event
  <2>4. ASSUME Has(batch, i) PROVE batch[m].type = "completed"
    <3>1. PICK p \in 1..n : batch[p] = Done(i)
      BY <2>4 DEF Has
    <3>2. p <= m
      BY <2>1, <3>1 DEF Done
    <3>3. m <= p
      BY <2>2, <3>1 DEF EndsIt
    <3>4. p = m
      BY <1>2, <2>2, <3>2, <3>3
    <3> QED
      BY <3>1, <3>4 DEF Done
  <2> QED
    BY <1>1, <1>3, <1>4, <1>6, <2>3, <2>4
<1> QED
  BY <1>5, <1>6

LEMMA TrimmedRow ==
    ASSUME NEW t, NEW i \in Ids
    PROVE  Trimmed(t).view[i] \in {t.view[i], "absent"}
<1> DEFINE extra == Len(t.order) - MaxRows
<1>1. CASE extra <= 0
  BY <1>1 DEF Trimmed
<1>2. CASE ~(extra <= 0)
  <2>1. Trimmed(t).view = [k \in Ids |-> IF \E p \in 1..extra : t.order[p] = k
                                         THEN "absent" ELSE t.view[k]]
    BY <1>2 DEF Trimmed
  <2> QED
    BY <2>1
<1> QED
  BY <1>1, <1>2

\* The oldest batch reaches the table.
LEMMA BatchArrives == TypeOK /\ ArrivalInv /\ ApplyBatch => ArrivalInv'
<1> SUFFICES ASSUME TypeOK, ArrivalInv, ApplyBatch, NEW i \in Ids
             PROVE  StreamInv(i)' /\ OwedInv(i)'
  BY DEF ArrivalInv
<1> DEFINE h == Head(batches)
           n == Len(batches)
<1>1. StreamInv(i) /\ OwedInv(i)
  BY DEF ArrivalInv
<1>2. /\ batches # <<>> /\ batches' = Tail(batches)
      /\ view' = Trimmed(Applied(h)).view
      /\ UNCHANGED <<stage, rows, bus, dropped, buffer, history>>
  BY DEF ApplyBatch, engine
<1>3. /\ n \in Nat \ {0} /\ Len(batches') = n - 1
      /\ h \in Seq(Event) /\ h = batches[1]
      /\ \A b \in 1..n - 1 : batches'[b] = batches[b + 1]
  <2>1. batches \in Seq(Seq(Event))
    BY DEF TypeOK
  <2> QED
    BY <1>2, <2>1, HeadTailProperties
<1> HIDE DEF h, n
<1>4. \A b \in 1..n : b = 1 \/ (b - 1 \in 1..n - 1 /\ batches[b] = batches'[b - 1])
  <2>1. SUFFICES ASSUME NEW b \in 1..n, b # 1
                 PROVE  b - 1 \in 1..n - 1 /\ batches[b] = batches'[b - 1]
    OBVIOUS
  <2>2. b - 1 \in 1..n - 1 /\ (b - 1) + 1 = b
    BY <1>3, <2>1
  <2> QED
    BY <1>3, <2>2
<1>5. 1 \in 1..n /\ \A b \in 1..n - 1 : b + 1 \in 1..n /\ 1 < b + 1
  BY <1>3
<1>6. HasBatch(i) <=> Has(h, i) \/ HasBatch(i)'
  BY <1>3, <1>4, <1>5 DEF HasBatch, n
<1>7. AboutBatch(i) <=> About(h, i) \/ AboutBatch(i)'
  BY <1>3, <1>4, <1>5 DEF AboutBatch, n
<1>8. EndsIt(h, i) /\ (Has(h, i) => LastBatch(1, i))
  BY <1>1, <1>3, <1>5 DEF StreamInv, n
\* A completion in the batch is the last of what is on its way.
<1>9. Has(h, i) => ~Pending(i)'
  <2>1. ASSUME LastBatch(1, i) PROVE ~AboutBatch(i)'
    BY <1>3, <1>5, <2>1 DEF LastBatch, AboutBatch, n
  <2> QED
    BY <1>2, <1>8, <2>1 DEF Pending, LastBatch
<1>10. Owed(i) <=> Has(h, i) \/ Owed(i)'
  BY <1>2, <1>6 DEF Owed
<1>11. Pending(i) <=> About(h, i) \/ Pending(i)'
  BY <1>2, <1>7 DEF Pending
<1>12. /\ view'[i] = "final" => view[i] = "final" \/ Has(h, i)
       /\ view'[i] = "active" => \/ view[i] = "active" /\ ~About(h, i)
                                 \/ About(h, i) /\ ~Has(h, i)
  <2> DEFINE t == Applied(h)
  <2>1. t.view[i] = IF ~About(h, i) THEN view[i]
                    ELSE IF Has(h, i) THEN "final" ELSE "active"
    BY <1>3, <1>8, AppliedRow
  <2>2. view'[i] \in {t.view[i], "absent"}
    BY <1>2, TrimmedRow
  <2> HIDE DEF t
  <2> QED
    BY <2>1, <2>2
<1>13. Has(h, i) => About(h, i)
  BY HasIsAbout
<1>14. OwedInv(i)'
  <2>1. Owed(i)' => stage'[i] = "completed"
    BY <1>1, <1>2, <1>10 DEF OwedInv
  <2>2. view'[i] = "final" \/ i \in rows' \cup history' => stage'[i] \in {"ended", "completed"}
    BY <1>1, <1>2, <1>10, <1>12 DEF OwedInv
  <2>3. ASSUME stage'[i] = "completed", i \notin dropped', view'[i] = "active" \/ Pending(i)'
        PROVE  Owed(i)'
    <3>1. view[i] = "active" \/ Pending(i)
      BY <1>11, <1>12, <2>3
    <3>2. Owed(i)
      BY <1>1, <1>2, <2>3, <3>1 DEF OwedInv
    <3>3. ~Has(h, i)
      BY <1>9, <1>12, <1>13, <2>3
    <3> QED
      BY <1>10, <3>2, <3>3
  <2> QED
    BY <2>1, <2>2, <2>3 DEF OwedInv
<1>15. StreamInv(i)'
  <2>1. ASSUME NEW b \in 1..n - 1
        PROVE  EndsIt(batches'[b], i) /\ (Has(batches'[b], i) => LastBatch(b, i)')
    <3>1. /\ EndsIt(batches'[b], i)
          /\ Has(batches'[b], i) => LastBatch(b + 1, i)
      BY <1>1, <1>3, <1>5 DEF StreamInv, n
    <3>2. ASSUME LastBatch(b + 1, i), NEW c \in 1..n - 1, b < c PROVE ~About(batches'[c], i)
      <4>1. b + 1 < c + 1
        BY <1>3, <3>2
      <4> QED
        BY <1>3, <1>5, <3>2, <4>1 DEF LastBatch, n
    <3>3. LastBatch(b + 1, i) => LastBatch(b, i)'
      BY <1>2, <1>3, <3>2 DEF LastBatch
    <3> QED
      BY <3>1, <3>3
  <2> QED
    BY <1>1, <1>2, <1>3, <2>1 DEF StreamInv
<1> QED
  BY <1>14, <1>15

LEMMA ArrivalNext == TypeOK /\ ArrivalInv /\ [Next]_vars => ArrivalInv'
<1> SUFFICES ASSUME TypeOK, ArrivalInv, [Next]_vars PROVE ArrivalInv'
  OBVIOUS
<1> USE DEF pump, engine, table
<1>1. CASE Engine \/ Receive \/ Tick \/ ApplyBatch
  BY <1>1, EngineArrives, ReceiveArrives, TickArrives, BatchArrives
<1>2. ASSUME UNCHANGED <<bus, dropped, buffer, batches, stage>>,
             rows' \cup history' \subseteq rows \cup history,
             \A i \in Ids : \/ view'[i] \in {view[i], "absent"}
                            \/ view'[i] = "final" /\ i \in history
      PROVE  ArrivalInv'
  BY <1>2, QuietStep DEF ArrivalInv
<1>3. CASE ApplyInit
  <2>1. view' = [i \in Ids |-> IF i \in history THEN "final" ELSE "absent"] /\ history' = {}
    BY <1>3 DEF ApplyInit
  <2>2. UNCHANGED <<bus, dropped, buffer, batches, stage, rows>>
    BY <1>3 DEF ApplyInit
  <2> QED
    BY <1>2, <2>1, <2>2
<1>4. CASE ApplyClear
  <2>1. UNCHANGED <<bus, dropped, buffer, batches, stage, rows, history>>
        /\ view' = [i \in Ids |-> "absent"]
    BY <1>4 DEF ApplyClear
  <2> QED
    BY <1>2, <2>1
<1>5. CASE AnswerInit \/ InitFails \/ AnswerClear \/ ClearFails
  <2>1. UNCHANGED <<bus, dropped, buffer, batches, stage, view>>
    BY <1>5 DEF AnswerInit, InitFails, AnswerClear, ClearFails
  <2>2. rows' \subseteq rows /\ history' \subseteq rows \cup history
    BY <1>5 DEF AnswerInit, InitFails, AnswerClear, ClearFails
  <2> QED
    BY <1>2, <2>1, <2>2
<1>6. CASE User \/ AnswerGet \/ GetEnds
  <2>1. UNCHANGED <<engine, pump, table, history>>
    BY <1>6 DEF User, Select, Deselect, AskClear, AnswerGet, GetEnds, ApplyGet, GetFails
  <2> QED
    BY <1>2, <2>1
<1>7. CASE UNCHANGED vars
  BY <1>2, <1>7 DEF vars
<1> QED
  BY <1>1, <1>3, <1>4, <1>5, <1>6, <1>7 DEF Next

LEMMA ArrivalHolds == Spec => []ArrivalInv
<1>1. TypeOK /\ ArrivalInv /\ [Next]_vars => ArrivalInv'
  BY ArrivalNext
<1> QED
  BY <1>1, ArrivalInit, TypeTheorem, PTL DEF Spec

\* However events are batched, trimmed, replaced by the history and cleared, no
\* completion that the pump received is lost on its way to the table
\* (event_pump, applyBatch, init).
THEOREM OwedTheorem == Spec => []RowsAreOwed
<1>1. ArrivalInv => RowsAreOwed
  BY DEF ArrivalInv, OwedInv, RowsAreOwed
<1> QED
  BY <1>1, ArrivalHolds, PTL

\* With nothing on its way the table shows no complete transaction as active,
\* except those whose completion was dropped.
CaughtUp ==
    bus = <<>> /\ buffer = <<>> /\ batches = <<>> =>
        \A i \in Ids : view[i] = "active" /\ stage[i] = "completed" => i \in dropped

\* So a pump and a view that go on bring the table up to date (event_pump,
\* applyBatch).
THEOREM CaughtUpTheorem == Spec => []CaughtUp
<1>1. RowsAreOwed => CaughtUp
  <2> SUFFICES ASSUME RowsAreOwed, bus = <<>>, buffer = <<>>, batches = <<>>,
                      NEW i \in Ids, view[i] = "active", stage[i] = "completed"
               PROVE  i \in dropped
    BY DEF CaughtUp
  <2>1. ~HasBatch(i)
    <3>1. 1..Len(batches) = {}
      OBVIOUS
    <3> QED
      BY <3>1 DEF HasBatch
  <2>2. ~Owed(i)
    BY <2>1, NothingHeld DEF Owed
  <2> QED
    BY <2>2 DEF RowsAreOwed
<1> QED
  BY <1>1, OwedTheorem, PTL
=============================================================================
