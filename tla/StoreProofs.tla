---------------------------- MODULE StoreProofs -----------------------------
(***************************************************************************)
(* Theorems about module Store, for any number of ids, runs, callers and   *)
(* faults, any drain and retention cap: the type invariant, that a row's   *)
(* body is its own, that ids keep the order of the runs, that insert       *)
(* answers truthfully, and that the store implements SessionLog.           *)
(*                                                                         *)
(* The inductive invariant says what each phase of the writer implies      *)
(* about the disk, and that no transaction on its way to the table has a   *)
(* row already: its id is larger than every row of an earlier run.         *)
(***************************************************************************)
EXTENDS Store, OrderFacts

\* Nothing but the disk survives the process.
DownInv ==
    pc = "down" =>
        /\ \A i \in Ids : call[i] = "free"
        /\ chan = <<>>
        /\ asks = {}

\* What the phase of the writer says about its local state.
PhaseInv ==
    /\ pc # "down" => run # 0
    /\ pc \in {"clearBodies", "clearFiles"} => asks # {}
    /\ Batch # {} => pc \in {"inserting", "replying"}
    /\ staged \subseteq Batch
    /\ staged # {} => pc = "inserting"
    /\ result = "error" => pc = "replying"

\* The inserts in the channel are those queued, each once.
QueueInv ==
    /\ \A p \in 1..Len(chan) : chan[p].op = "insert" => call[chan[p].n] = "queued"
    /\ \A p, q \in 1..Len(chan) :
          chan[p].op = "insert" /\ chan[q].op = "insert" /\ chan[p].n = chan[q].n
              => p = q

\* Ids of this run are larger than those of earlier runs, and larger than
\* every row when they are handed out.
IdInv ==
    /\ \A i \in Ids : rows[i].run <= run
    /\ pc # "down" => \A j \in Held : j < nextId
    /\ \A i \in Ids : call[i] # "free" => i < nextId
    /\ \A i, j \in Ids :
          call[i] # "free" /\ j \in Held /\ rows[j].run < run => j < i

\* A transaction has no row before its batch is committed.
RowInv ==
    \A i \in Ids :
        /\ call[i] \in {"active", "queued"} => i \notin Held
        /\ call[i] = "taken" /\ (pc = "inserting" \/ result = "error") => i \notin Held
        /\ call[i] = "taken" /\ pc = "replying" /\ result = "ok" => rows[i].run = run

\* What the steps of a batch, a prune and a clear have done to the disk.
DiskInv ==
    /\ \A i \in staged : body[i] = "file" => files[i] = run
    /\ pc \in {"pruneBodies", "pruneFiles"} => \A i \in Held : i >= minKept
    /\ pc \in {"clearBodies", "clearFiles"} => Held = {}

StoreInv ==
    /\ TypeOK
    /\ DownInv
    /\ PhaseInv
    /\ QueueInv
    /\ IdInv
    /\ RowInv
    /\ DiskInv
    /\ RowBodyIntact
    /\ OrderAcrossRuns

-----------------------------------------------------------------------------
(* Smallest and largest elements *)

\* What Min returns for sets of ids.
LEMMA MinOfIds ==
    ASSUME NEW S \in SUBSET Ids, S # {}
    PROVE  Min(S) \in S /\ \A y \in S : Min(S) <= y
<1>1. S \in SUBSET Nat
  BY BoundsAssumption DEF Ids
<1> QED
  BY <1>1, MinIsLeast

\* What Max returns for sets of ids.
LEMMA MaxOfIds ==
    ASSUME NEW S \in SUBSET Ids, S # {}
    PROVE  Max(S) \in S /\ \A y \in S : y <= Max(S)
<1>1. S \in SUBSET Nat /\ MaxId \in Nat /\ \A y \in S : y <= MaxId
  BY BoundsAssumption DEF Ids
<1> QED
  BY <1>1, MaxIsGreatest

\* Sets of ids can be counted, and a part is no larger than the whole.
LEMMA SizeOfIds ==
    ASSUME NEW S \in SUBSET Ids
    PROVE  /\ IsFiniteSet(S)
           /\ Cardinality(S) \in Nat
           /\ \A T \in SUBSET S : Cardinality(T) <= Cardinality(S)
<1>1. IsFiniteSet(Ids)
  <2>1. 1 \in Int /\ MaxId \in Int
    BY BoundsAssumption
  <2> QED
    BY <2>1, FS_Interval DEF Ids
<1>2. IsFiniteSet(S)
  BY <1>1, FS_Subset
<1>3. \A T \in SUBSET S : Cardinality(T) <= Cardinality(S)
  BY <1>2, FS_Subset
<1> QED
  BY <1>2, <1>3, FS_CardinalityType

\* The next message to serve is one of those left.
LEMMA NextAskType ==
    ASSUME TypeOK, asks # {}
    PROVE  NextAsk \in asks /\ NextAsk.n \in Asks
<1> DEFINE N == {m.n : m \in asks}
<1>1. asks \subseteq Ask /\ \A m \in Ask : m.n \in Asks /\ m.n \in Nat
  BY DEF TypeOK, Ask, Asks
<1>2. N \in SUBSET Nat /\ N # {}
  BY <1>1
<1>3. PICK x \in N : \A y \in N : x <= y
  <2> HIDE DEF N
  <2> QED
    BY <1>2, Smallest
<1>4. \E m \in asks : \A o \in asks : m.n <= o.n
  BY <1>3
<1>5. NextAsk \in asks
  BY <1>4 DEF NextAsk
<1> QED
  BY <1>1, <1>5

-----------------------------------------------------------------------------
(* Type correctness *)

\* The inductive invariant holds when the program has never run.
LEMMA InitInv == Init => StoreInv
<1> SUFFICES ASSUME Init PROVE StoreInv
  OBVIOUS
<1> USE BoundsAssumption
<1>1. TypeOK
  BY DEF Init, TypeOK, PCs, Calls, Refs, Msg, Ask, NoRow, Nobody, Ids, Asks, Torn
<1>2. DownInv /\ PhaseInv /\ QueueInv
  BY DEF Init, DownInv, PhaseInv, QueueInv, Batch
<1>3. Held = {}
  BY DEF Init, Held, NoRow
<1>4. IdInv /\ RowInv /\ DiskInv /\ RowBodyIntact /\ OrderAcrossRuns
  BY <1>3 DEF Init, NoRow, IdInv, RowInv, DiskInv, RowBodyIntact, OrderAcrossRuns
<1> QED
  BY <1>1, <1>2, <1>4 DEF StoreInv

\* The batch of a drain and what is left of the channel.
LEMMA DrainType ==
    ASSUME TypeOK, Drain
    PROVE  chan' \in Seq(Msg) /\ asks' \in SUBSET Ask
<1> DEFINE k == SmallerOf(Len(chan), BatchCap)
<1>1. chan \in Seq(Msg) /\ Len(chan) \in Nat /\ k \in 0..Len(chan)
  BY BoundsAssumption DEF TypeOK, SmallerOf
<1>2. chan' = SubSeq(chan, k + 1, Len(chan))
  BY DEF Drain
<1>3. \A p \in 1..Len(chan) : chan[p] \in Msg
  BY <1>1
<1>4. chan' \in Seq(Msg)
  <2> HIDE DEF k
  <2>1. \A p \in (k + 1)..Len(chan) : chan[p] \in Msg
    BY <1>1, <1>3
  <2> QED
    BY <1>1, <1>2, <2>1
<1>5. asks' = {chan[p] : p \in {q \in 1..k : chan[q].op # "insert"}}
  BY DEF Drain
<1>6. \A m \in Msg : m.op # "insert" => m \in Ask
  BY DEF Msg
<1>7. asks' \in SUBSET Ask
  <2> HIDE DEF k
  <2> QED
    BY <1>1, <1>3, <1>5, <1>6
<1> QED
  BY <1>4, <1>7

\* Every step of the writer thread preserves the type invariant.
LEMMA WriterType ==
    ASSUME TypeOK, PhaseInv, Writer
    PROVE  TypeOK'
<1> USE BoundsAssumption
<1> USE DEF memory, disk, PCs
<1>1. CASE Drain
  <2>1. chan' \in Seq(Msg) /\ asks' \in SUBSET Ask
    BY <1>1, DrainType
  <2>2. call' \in [Ids -> Calls] /\ pc' \in PCs
    BY <1>1 DEF Drain, TypeOK, Calls
  <2> QED
    BY <1>1, <2>1, <2>2 DEF Drain, TypeOK
<1>2. CASE \E i \in Ids : Stage(i)
  BY <1>2 DEF Stage, TypeOK, Torn
<1>3. CASE StageFails
  <2>1. run \in 0..Torn /\ Torn \in 0..Torn
    BY DEF TypeOK, Torn
  <2>2. files \in [Ids -> 0..Torn]
    BY DEF TypeOK
  <2>3. \/ files' = files
        \/ \E i \in Ids, f \in {Torn, run} : files' = [files EXCEPT ![i] = f]
    BY <1>3 DEF StageFails, Batch
  <2>4. files' \in [Ids -> 0..Torn]
    BY <2>1, <2>2, <2>3
  <2> QED
    BY <1>3, <2>4 DEF StageFails, TypeOK
<1>4. CASE Commit
  <2>1. \A i \in Ids : [run |-> run, ref |-> body[i]] \in [run : 0..MaxRuns, ref : Refs]
    BY DEF TypeOK
  <2>2. rows' \in [Ids -> [run : 0..MaxRuns, ref : Refs]]
    BY <1>4, <2>1 DEF Commit, TypeOK
  <2>3. bodies' \in [Ids -> 0..MaxRuns]
    BY <1>4 DEF Commit, TypeOK
  <2> QED
    BY <1>4, <2>2, <2>3 DEF Commit, TypeOK
<1>5. CASE Reply
  <2>1. Batch \subseteq Ids
    BY DEF Batch
  <2>2. Cardinality(Batch) \in Nat
    BY <2>1, SizeOfIds
  <2>3. sincePrune' \in 0..PruneEvery - 1
    BY <1>5, <2>2 DEF Reply, TypeOK
  <2>4. call' \in [Ids -> Calls] /\ body' \in [Ids -> Refs]
    BY <1>5 DEF Reply, Settle, TypeOK, Calls, Refs
  <2> QED
    BY <1>5, <2>3, <2>4 DEF Reply, Settle, TypeOK
<1>6. CASE PruneRows
  <2>1. NoRow \in [run : 0..MaxRuns, ref : Refs]
    BY DEF NoRow, Refs
  <2>2. rows' \in [Ids -> [run : 0..MaxRuns, ref : Refs]]
    BY <1>6, <2>1 DEF PruneRows, TypeOK
  <2>3. Newest # {} => Min(Newest) \in Ids
    BY MinOfIds DEF Newest, Held
  <2>4. minKept' \in 0..MaxId
    <3>1. minKept' = minKept \/ (Newest # {} /\ minKept' = Min(Newest))
      BY <1>6 DEF PruneRows
    <3>2. Ids \subseteq 0..MaxId /\ minKept \in 0..MaxId
      BY DEF Ids, TypeOK
    <3> QED
      BY <2>3, <3>1, <3>2
  <2>5. pc' \in PCs
    BY <1>6 DEF PruneRows
  <2>6. UNCHANGED <<run, nextId, asked, cleared, call, body, chan, asks, covers,
                    staged, result, sincePrune, bodies, files>>
    BY <1>6 DEF PruneRows
  <2> QED
    BY <2>2, <2>4, <2>5, <2>6 DEF TypeOK
<1>7. CASE PruneBodies
  BY <1>7 DEF PruneBodies, TypeOK
<1>8. CASE \E i \in Ids : RemoveFile(i)
  BY <1>8 DEF RemoveFile, TypeOK, Torn
<1>9. CASE PruneEnds \/ PruneFails \/ ServingDone
  BY <1>9 DEF PruneEnds, PruneFails, ServingDone, TypeOK
<1>10. Nobody \in [Ids -> 0..MaxRuns] /\ covers \in [Asks -> [Ids -> 0..MaxRuns]]
  BY DEF Nobody, TypeOK
<1>11. [covers EXCEPT ![NextAsk.n] = Nobody] \in [Asks -> [Ids -> 0..MaxRuns]]
  BY <1>10
<1>12. CASE Read \/ ClearFails
  BY <1>11, <1>12 DEF Read, ClearFails, Answered, TypeOK
<1>13. CASE ClearRows
  <2>1. rows' \in [Ids -> [run : 0..MaxRuns, ref : Refs]]
    BY <1>13 DEF ClearRows, NoRow, Refs
  <2> QED
    BY <1>13, <2>1 DEF ClearRows, TypeOK
<1>14. CASE ClearBodies
  BY <1>10, <1>14 DEF ClearBodies, TypeOK
<1>15. CASE ClearEnds
  <2>1. NextAsk.n \in Asks
    BY <1>15, NextAskType DEF ClearEnds, PhaseInv
  <2>2. covers[NextAsk.n] \in [Ids -> 0..MaxRuns]
    BY <1>10, <2>1
  <2>3. cleared' \in [Ids -> 0..MaxRuns]
    BY <1>15, <2>2 DEF ClearEnds, LaterOf, TypeOK
  <2> QED
    BY <1>11, <1>15, <2>3 DEF ClearEnds, Answered, TypeOK
<1> QED
  BY <1>1, <1>2, <1>3, <1>4, <1>5, <1>6, <1>7, <1>8, <1>9, <1>12, <1>13, <1>14, <1>15
     DEF Writer

\* Every step of the process and of its callers preserves the type invariant.
LEMMA ProcessType ==
    ASSUME TypeOK, PhaseInv,
           \/ Open
           \/ Crash
           \/ Begin
           \/ \E i \in Ids, ref \in Refs : SendInsert(i, ref)
           \/ \E op \in {"read", "clear"} : SendAsk(op)
    PROVE  TypeOK'
<1> USE BoundsAssumption
<1> USE DEF memory, disk, PCs
<1>1. Nobody \in [Ids -> 0..MaxRuns]
  BY DEF Nobody
<1>2. CASE Open
  <2>1. Held # {} => Max(Held) \in Ids
    BY MaxOfIds DEF Held
  <2>2. nextId' \in 1..MaxId + 1 /\ run' \in 0..MaxRuns
    <3>1. nextId' = IF Held = {} THEN 1 ELSE Max(Held) + 1
      BY <1>2 DEF Open
    <3>2. Held = {} \/ Max(Held) \in 1..MaxId
      BY <2>1 DEF Ids
    <3>3. run' = run + 1 /\ run < MaxRuns /\ run \in Nat
      BY <1>2 DEF Open, TypeOK
    <3> QED
      BY <3>1, <3>2, <3>3
  <2>3. pc' \in PCs /\ UNCHANGED <<asked, cleared, memory, disk>>
    BY <1>2 DEF Open
  <2> QED
    BY <2>2, <2>3 DEF TypeOK
<1>3. CASE Crash
  <2>1. run \in 0..Torn /\ Torn \in 0..Torn
    BY DEF TypeOK, Torn
  <2>2. files' \in [Ids -> 0..Torn]
    <3>1. files \in [Ids -> 0..Torn]
      BY DEF TypeOK
    <3>2. \/ files' = files
          \/ \E i \in Ids, f \in {Torn, run} : files' = [files EXCEPT ![i] = f]
      BY <1>3 DEF Crash
    <3> QED
      BY <2>1, <3>1, <3>2
  <2>3. covers' \in [Asks -> [Ids -> 0..MaxRuns]]
    BY <1>1, <1>3 DEF Crash
  <2> QED
    BY <1>3, <2>2, <2>3 DEF Crash, TypeOK, Calls, Refs
<1>4. CASE Begin
  <2>1. nextId' \in 1..MaxId + 1
    BY <1>4 DEF Begin, Ids
  <2>2. call' \in [Ids -> Calls]
    BY <1>4 DEF Begin, TypeOK, Calls
  <2>3. UNCHANGED <<run, pc, asked, cleared, body, chan, asks, covers, staged, result,
                    sincePrune, minKept, disk>>
    BY <1>4 DEF Begin
  <2> QED
    BY <2>1, <2>2, <2>3 DEF TypeOK
<1>5. CASE \E i \in Ids, ref \in Refs : SendInsert(i, ref)
  <2>1. PICK i \in Ids, ref \in Refs : SendInsert(i, ref)
    BY <1>5
  <2>2. [op |-> "insert", n |-> i] \in Msg
    BY DEF Msg
  <2>3. chan' \in Seq(Msg)
    BY <2>1, <2>2 DEF SendInsert, TypeOK
  <2> QED
    BY <2>1, <2>3 DEF SendInsert, TypeOK, Calls
<1>6. CASE \E op \in {"read", "clear"} : SendAsk(op)
  <2>1. PICK op \in {"read", "clear"} : SendAsk(op)
    BY <1>6
  <2>2. asked + 1 \in Asks /\ asked' \in 0..MaxAsks
    BY <2>1 DEF SendAsk, TypeOK, Asks
  <2>3. [op |-> op, n |-> asked + 1] \in Msg
    BY <2>2 DEF Msg, Ask
  <2>4. chan' \in Seq(Msg)
    BY <2>1, <2>3 DEF SendAsk, TypeOK
  <2>5. \A i \in Ids : Sent(i) \in 0..MaxRuns
    <3>1. run # 0 /\ run \in 0..MaxRuns
      BY <2>1 DEF SendAsk, TypeOK, PhaseInv
    <3> QED
      BY <3>1 DEF Sent
  <2> QED
    BY <1>1, <2>1, <2>2, <2>4, <2>5 DEF SendAsk, TypeOK
<1> QED
  BY <1>2, <1>3, <1>4, <1>5, <1>6

-----------------------------------------------------------------------------
(* The inductive invariant *)

\* The steps that touch neither the calls, the counter nor the table of rows,
\* and end no batch.
Quiet ==
    \/ \E op \in {"read", "clear"} : SendAsk(op)
    \/ \E i \in Ids : Stage(i) \/ RemoveFile(i)
    \/ PruneBodies \/ PruneEnds \/ PruneFails
    \/ ServingDone \/ Read \/ ClearBodies \/ ClearEnds \/ ClearFails

\* What such a step leaves alone.
LEMMA QuietFrame ==
    ASSUME Quiet
    PROVE  /\ UNCHANGED <<run, nextId, call, body, rows, result>>
           /\ pc # "down" /\ pc' # "down"
           /\ pc' = "inserting" <=> pc = "inserting"
           /\ pc' = "replying" <=> pc = "replying"
BY DEF Quiet, SendAsk, Stage, RemoveFile, PruneBodies, PruneEnds, PruneFails,
       ServingDone, Read, ClearBodies, ClearEnds, ClearFails, memory, disk

\* Every step is one of these.
LEMMA Steps ==
    ASSUME Next
    PROVE  \/ Open \/ Crash \/ Begin
           \/ \E i \in Ids, ref \in Refs : SendInsert(i, ref)
           \/ Drain \/ StageFails \/ Commit \/ Reply \/ PruneRows \/ ClearRows
           \/ Quiet
BY DEF Next, Writer, Quiet

\* The phase of the writer and its local state stay in step.
LEMMA PhaseStep ==
    ASSUME StoreInv, Next
    PROVE  DownInv' /\ PhaseInv'
<1> USE DEF StoreInv, DownInv, PhaseInv, Batch, memory, disk
<1>1. CASE Open
  <2>1. run' # 0
    BY <1>1 DEF Open, TypeOK
  <2> QED
    BY <1>1, <2>1 DEF Open
<1>2. CASE Crash
  BY <1>2 DEF Crash
<1>3. CASE Begin
  <2>1. call[nextId] = "free" /\ nextId \in Ids
    BY <1>3 DEF Begin, IdInv, Ids
  <2>2. \A i \in Ids : call'[i] = "taken" <=> call[i] = "taken"
    BY <1>3, <2>1 DEF Begin, TypeOK
  <2> QED
    BY <1>3, <2>2 DEF Begin
<1>4. CASE \E i \in Ids, ref \in Refs : SendInsert(i, ref)
  <2>1. PICK i \in Ids, ref \in Refs : SendInsert(i, ref)
    BY <1>4
  <2>2. \A j \in Ids : call'[j] = "taken" <=> call[j] = "taken"
    BY <2>1 DEF SendInsert, TypeOK
  <2>3. call[i] = "active" /\ UNCHANGED <<run, pc, asks, staged, result>>
    BY <2>1 DEF SendInsert
  <2> QED
    BY <2>2, <2>3
<1>5. CASE Drain
  <2>1. Batch = {} /\ staged = {} /\ result # "error"
    BY <1>5 DEF Drain
  <2> QED
    BY <1>5, <2>1 DEF Drain
<1>6. CASE StageFails
  BY <1>6 DEF StageFails
<1>7. CASE Commit
  BY <1>7 DEF Commit
<1>8. CASE Reply
  <2>1. Batch' = {}
    BY <1>8 DEF Reply, Settle
  <2>2. pc' \in {"pruneRows", "serving"} /\ staged' = staged /\ result' = "ok" /\ run' = run
    BY <1>8 DEF Reply
  <2>3. staged = {} /\ pc # "down"
    BY <1>8 DEF Reply
  <2> QED
    BY <2>1, <2>2, <2>3
<1>9. CASE PruneRows
  <2>1. /\ pc = "pruneRows"
        /\ pc' \in {"serving", "pruneBodies"}
        /\ UNCHANGED <<run, call, asks, staged, result>>
    BY <1>9 DEF PruneRows
  <2> QED
    BY <2>1
<1>10. CASE ClearRows
  BY <1>10 DEF ClearRows, ClearIsNext
<1>11. CASE Quiet
  <2>1. CASE \E op \in {"read", "clear"} : SendAsk(op)
    BY <2>1 DEF SendAsk
  <2>2. CASE \E i \in Ids : Stage(i)
    BY <2>2 DEF Stage
  <2>3. CASE \E i \in Ids : RemoveFile(i)
    BY <2>3 DEF RemoveFile
  <2>4. CASE PruneBodies \/ PruneEnds \/ PruneFails \/ ServingDone
    BY <2>4 DEF PruneBodies, PruneEnds, PruneFails, ServingDone
  <2>5. CASE Read \/ ClearBodies \/ ClearEnds \/ ClearFails
    BY <2>5 DEF Read, ClearBodies, ClearEnds, ClearFails
  <2> QED
    BY <1>11, <2>1, <2>2, <2>3, <2>4, <2>5 DEF Quiet
<1> QED
  BY <1>1, <1>2, <1>3, <1>4, <1>5, <1>6, <1>7, <1>8, <1>9, <1>10, <1>11, Steps

\* The channel holds each queued insert once.
LEMMA QueueStep ==
    ASSUME StoreInv, Next
    PROVE  QueueInv'
<1> USE DEF StoreInv, QueueInv, memory, disk
<1>0. /\ chan \in Seq(Msg) /\ Len(chan) \in Nat /\ call \in [Ids -> Calls]
      /\ \A p \in 1..Len(chan) : chan[p] \in Msg
      /\ \A m \in Msg : m.op = "insert" => m.n \in Ids
  BY DEF TypeOK, Msg, Ask
<1>1. ASSUME UNCHANGED chan,
             \A i \in Ids : call[i] = "queued" => call'[i] = "queued"
      PROVE  QueueInv'
  BY <1>0, <1>1
<1>2. CASE Open
  BY <1>1, <1>2 DEF Open
<1>3. CASE Crash
  BY <1>3 DEF Crash
<1>4. CASE Begin
  <2>1. call[nextId] = "free" /\ nextId \in Ids
    BY <1>4 DEF Begin, TypeOK, IdInv, Ids
  <2> QED
    BY <1>0, <1>1, <1>4, <2>1 DEF Begin
<1>5. CASE \E i \in Ids, ref \in Refs : SendInsert(i, ref)
  <2>1. PICK i \in Ids, ref \in Refs : SendInsert(i, ref)
    BY <1>5
  <2>2. chan' = Append(chan, [op |-> "insert", n |-> i])
    BY <2>1 DEF SendInsert
  <2>3. /\ Len(chan') = Len(chan) + 1
        /\ \A p \in 1..Len(chan) : chan'[p] = chan[p]
        /\ chan'[Len(chan) + 1] = [op |-> "insert", n |-> i]
    BY <1>0, <2>2
  <2>4. call[i] = "active" /\ call' = [call EXCEPT ![i] = "queued"]
    BY <2>1 DEF SendInsert
  <2>5. \A p \in 1..Len(chan) : chan[p].op = "insert" => chan[p].n # i
    BY <2>4
  <2> QED
    BY <1>0, <2>3, <2>4, <2>5
<1>6. CASE Drain
  <2> DEFINE k == SmallerOf(Len(chan), BatchCap)
             n == Len(chan) - k
  <2>1. k \in 0..Len(chan)
    BY <1>0, BoundsAssumption DEF SmallerOf
  <2>2. chan' = SubSeq(chan, k + 1, Len(chan))
    BY <1>6 DEF Drain
  <2>3. \A i \in Ids : call'[i] = call[i] \/ \E p \in 1..k : chan[p] = [op |-> "insert", n |-> i]
    BY <1>6 DEF Drain
  <2> HIDE DEF k
  <2>4. Len(chan') = n /\ \A p \in 1..n : chan'[p] = chan[k + p] /\ k + p \in 1..Len(chan)
    BY <1>0, <2>1, <2>2
  <2>5. ASSUME NEW p \in 1..n, chan[k + p].op = "insert"
        PROVE  call'[chan[k + p].n] = "queued"
    <3>1. k + p \in 1..Len(chan) /\ chan[k + p].n \in Ids
      BY <1>0, <2>4, <2>5
    <3>2. call[chan[k + p].n] = "queued"
      BY <2>5, <3>1
    <3>3. ASSUME NEW q \in 1..k, chan[q] = [op |-> "insert", n |-> chan[k + p].n]
          PROVE  FALSE
      <4>1. q \in 1..Len(chan) /\ q # k + p
        BY <1>0, <2>1, <2>4
      <4> QED
        BY <2>5, <3>1, <3>3, <4>1
    <3> QED
      BY <2>3, <3>1, <3>2, <3>3
  <2>6. ASSUME NEW p \in 1..n, NEW q \in 1..n,
               chan[k + p].op = "insert", chan[k + q].op = "insert",
               chan[k + p].n = chan[k + q].n
        PROVE  p = q
    <3>1. k + p = k + q
      BY <2>4, <2>6
    <3> QED
      BY <1>0, <2>1, <3>1
  <2>7. \A p \in 1..Len(chan') : p \in 1..n /\ chan'[p] = chan[k + p]
    BY <2>4
  <2> HIDE DEF n
  <2> QED
    BY <2>5, <2>6, <2>7
<1>7. CASE StageFails \/ Commit
  BY <1>1, <1>7 DEF StageFails, Commit
<1>8. CASE Reply
  <2>1. chan' = chan /\ \A i \in Ids : call[i] = "queued" => call'[i] = "queued"
    BY <1>8 DEF Reply, Settle, Batch
  <2> QED
    BY <1>1, <2>1
<1>9. CASE PruneRows
  <2>1. UNCHANGED <<chan, call>>
    BY <1>9 DEF PruneRows
  <2> QED
    BY <1>1, <2>1
<1>10. CASE ClearRows
  BY <1>1, <1>10 DEF ClearRows
<1>11. CASE Quiet
  <2>1. UNCHANGED call
    BY <1>11, QuietFrame
  <2>2. CASE \E op \in {"read", "clear"} : SendAsk(op)
    <3>1. PICK op \in {"read", "clear"} : SendAsk(op)
      BY <2>2
    <3>2. chan' = Append(chan, [op |-> op, n |-> asked + 1])
      BY <3>1 DEF SendAsk
    <3>3. /\ Len(chan') = Len(chan) + 1
          /\ \A p \in 1..Len(chan) : chan'[p] = chan[p]
          /\ chan'[Len(chan) + 1].op # "insert"
      BY <1>0, <3>2
    <3> QED
      BY <1>0, <2>1, <3>3
  <2>3. CASE UNCHANGED chan
    BY <1>1, <2>1, <2>3
  <2> QED
    BY <1>11, <2>2, <2>3 DEF Quiet, Stage, RemoveFile, PruneBodies, PruneEnds, PruneFails,
       ServingDone, Read, ClearBodies, ClearEnds, ClearFails
<1> QED
  BY <1>2, <1>3, <1>4, <1>5, <1>6, <1>7, <1>8, <1>9, <1>10, <1>11, Steps

\* Ids stay in order, and no transaction has a row before its commit.
LEMMA IdStep ==
    ASSUME StoreInv, Next, TypeOK'
    PROVE  IdInv' /\ RowInv' /\ OrderAcrossRuns'
<1>m. Held # {} => Max(Held) \in Held /\ \A j \in Held : j <= Max(Held)
  BY MaxOfIds DEF Held
<1> USE DEF StoreInv, IdInv, RowInv, OrderAcrossRuns, memory, disk
<1> USE DEF Held
<1>0. /\ Ids \subseteq Nat /\ run \in Nat /\ nextId \in Nat
      /\ rows \in [Ids -> [run : 0..MaxRuns, ref : Refs]]
      /\ call \in [Ids -> Calls]
      /\ \A i \in Ids : rows[i].run \in Nat
  BY BoundsAssumption DEF TypeOK, Ids
<1>1. CASE Open
  <2>1. \A i \in Ids : call'[i] = "free"
    BY <1>1 DEF Open, DownInv
  <2>2. run' = run + 1 /\ rows' = rows
    BY <1>1 DEF Open
  <2>3. \A j \in Held : j < nextId'
    <3>1. Held \subseteq Nat
      BY <1>0
    <3> HIDE DEF Held
    <3>2. nextId' = IF Held = {} THEN 1 ELSE Max(Held) + 1
      BY <1>1 DEF Open
    <3>3. CASE Held = {}
      BY <3>3
    <3>4. CASE Held # {}
      <4>1. nextId' = Max(Held) + 1 /\ Max(Held) \in Nat
        BY <1>m, <3>1, <3>2, <3>4
      <4>2. ASSUME NEW j \in Held
            PROVE  j < nextId'
        <5>1. j <= Max(Held) /\ j \in Nat
          BY <1>m, <3>1, <3>4
        <5> QED
          BY <4>1, <5>1
      <4> QED
        BY <4>2
    <3> QED
      BY <3>3, <3>4
  <2> QED
    BY <1>0, <2>1, <2>2, <2>3
<1>2. CASE Crash
  BY <1>0, <1>2 DEF Crash
<1>3. CASE Begin
  <2>1. /\ nextId \in Ids /\ call[nextId] = "free" /\ pc # "down"
        /\ nextId' = nextId + 1
        /\ call' = [call EXCEPT ![nextId] = "active"]
        /\ UNCHANGED <<run, pc, rows, result>>
    BY <1>0, <1>3 DEF Begin, Ids
  <2> QED
    BY <1>0, <2>1
<1>4. CASE \E i \in Ids, ref \in Refs : SendInsert(i, ref)
  BY <1>0, <1>4 DEF SendInsert
<1>5. CASE Drain
  <2>1. \A i \in Ids : call'[i] = call[i] \/ (call'[i] = "taken" /\ call[i] = "queued")
    <3> DEFINE k == SmallerOf(Len(chan), BatchCap)
    <3>1. k \in 0..Len(chan)
      BY BoundsAssumption DEF SmallerOf, TypeOK
    <3>2. \A i \in Ids : call'[i] = call[i] \/
             (call'[i] = "taken" /\ \E p \in 1..k : chan[p] = [op |-> "insert", n |-> i])
      BY <1>5 DEF Drain
    <3> HIDE DEF k
    <3>3. Len(chan) \in Nat
      BY DEF TypeOK
    <3>4. ASSUME NEW i \in Ids, NEW p \in 1..k, chan[p] = [op |-> "insert", n |-> i]
          PROVE  call[i] = "queued"
      <4>1. p \in 1..Len(chan)
        BY <3>1, <3>3
      <4> QED
        BY <3>4, <4>1 DEF QueueInv
    <3> QED
      BY <3>2, <3>4
  <2>2. pc = "waiting" /\ pc' \in {"serving", "inserting"} /\ UNCHANGED <<run, nextId, rows, result>>
    BY <1>5 DEF Drain
  <2>3. Batch = {} /\ result # "error"
    BY <2>2 DEF PhaseInv
  <2> QED
    BY <1>0, <2>1, <2>2, <2>3 DEF Batch
<1>6. CASE StageFails
  BY <1>0, <1>6 DEF StageFails
<1>7. CASE Commit
  <2>1. /\ pc = "inserting" /\ pc' = "replying" /\ result' = "ok"
        /\ UNCHANGED <<run, nextId, call>>
        /\ \A i \in Ids : rows'[i] = IF i \in Batch THEN [run |-> run, ref |-> body[i]]
                                                  ELSE rows[i]
    BY <1>7 DEF Commit
  <2>2. ASSUME NEW i \in Batch
        PROVE  i \in Ids /\ call[i] = "taken" /\ i \notin Held /\ rows'[i].run = run
    <3>1. i \in Ids /\ call[i] = "taken"
      BY DEF Batch
    <3>2. i \notin Held
      BY <2>1, <3>1
    <3>3. rows'[i] = [run |-> run, ref |-> body[i]]
      BY <2>1, <3>1
    <3> QED
      BY <3>1, <3>2, <3>3
  <2>3. \A i \in Ids \ Batch : call[i] # "taken" /\ rows'[i] = rows[i]
    BY <2>1 DEF Batch
  <2>4. run # 0
    BY <2>1 DEF PhaseInv
  <2>5. IdInv'
    BY <1>0, <2>1, <2>2, <2>3, <2>4
  <2>6. RowInv'
    BY <1>0, <2>1, <2>2, <2>3
  <2>7. OrderAcrossRuns'
    <3> SUFFICES ASSUME NEW i \in Held', NEW j \in Held', i < j
                 PROVE  rows'[i].run <= rows'[j].run
      BY DEF OrderAcrossRuns
    <3>1. i \in Ids /\ j \in Ids
      OBVIOUS
    <3>2. CASE i \in Batch /\ j \notin Batch
      <4>1. j \in Held /\ rows'[j] = rows[j] /\ rows'[i].run = run
        BY <2>2, <2>3, <3>1, <3>2
      <4>2. call[i] # "free" /\ ~(j < i)
        BY <1>0, <2>2, <3>1, <3>2
      <4>3. ~(rows[j].run < run)
        BY <3>1, <4>1, <4>2
      <4> QED
        BY <1>0, <3>1, <4>1, <4>3
    <3>3. CASE j \in Batch
      <4>1. rows'[j].run = run
        BY <2>2, <3>3
      <4>2. rows'[i].run = run \/ rows'[i].run = rows[i].run
        BY <2>2, <2>3, <3>1
      <4>3. rows[i].run <= run /\ rows[i].run \in Nat
        BY <1>0, <3>1
      <4> QED
        BY <1>0, <4>1, <4>2, <4>3
    <3>4. CASE i \notin Batch /\ j \notin Batch
      BY <2>3, <3>1, <3>4
    <3> QED
      BY <3>2, <3>3, <3>4
  <2> QED
    BY <2>5, <2>6, <2>7
<1>8. CASE Reply
  <2>1. /\ UNCHANGED <<run, nextId, rows>>
        /\ pc' \notin {"inserting", "replying", "down"} /\ pc # "down"
        /\ result' = "ok"
        /\ \A i \in Ids : call'[i] = call[i] \/ (call[i] = "taken" /\ call'[i] \in {"stored", "refused"})
    BY <1>8 DEF Reply, Settle, Batch
  <2>2. \A i \in Ids : call'[i] # "taken"
    BY <1>8 DEF Reply, Settle, Batch
  <2> QED
    BY <1>0, <2>1, <2>2
<1>9. CASE PruneRows \/ ClearRows
  <2>1. UNCHANGED <<run, nextId, call, result>> /\ pc # "down"
    BY <1>9 DEF PruneRows, ClearRows
  <2>2. \A i \in Ids : rows'[i] \in {rows[i], NoRow}
    BY <1>0, <1>9 DEF PruneRows, ClearRows
  <2>3. Batch = {}
    BY <1>9 DEF PhaseInv, PruneRows, ClearRows
  <2> QED
    BY <1>0, <2>1, <2>2, <2>3 DEF NoRow, Batch
<1>10. CASE Quiet
  BY <1>0, <1>10, QuietFrame
<1> QED
  BY <1>1, <1>2, <1>3, <1>4, <1>5, <1>6, <1>7, <1>8, <1>9, <1>10, Steps

\* What the steps of the writer do to bodies and files never spoils a row.
LEMMA DiskStep ==
    ASSUME StoreInv, Next, TypeOK'
    PROVE  DiskInv' /\ RowBodyIntact'
<1> USE DEF StoreInv, DiskInv, RowBodyIntact, Held, memory, disk
<1>0. /\ Ids \subseteq Nat /\ minKept \in Nat
      /\ rows \in [Ids -> [run : 0..MaxRuns, ref : Refs]]
      /\ call \in [Ids -> Calls] /\ body \in [Ids -> Refs]
      /\ bodies \in [Ids -> 0..MaxRuns] /\ files \in [Ids -> 0..Torn]
      /\ staged \subseteq Ids
  <2>1. Ids \subseteq Nat /\ minKept \in Nat
    BY BoundsAssumption DEF TypeOK, Ids
  <2> QED
    BY <2>1 DEF TypeOK
<1>b. \A i \in Batch : i \in Ids /\ call[i] = "taken"
  BY DEF Batch
<1>1. ASSUME UNCHANGED <<rows, bodies, files>>, staged' = {},
             pc' \notin {"pruneBodies", "pruneFiles", "clearBodies", "clearFiles"}
      PROVE  DiskInv' /\ RowBodyIntact'
  BY <1>1
<1>2. CASE Open
  BY <1>1, <1>2 DEF Open, PhaseInv
<1>3. ASSUME NEW i \in Ids, NEW f \in 0..Torn, files' = [files EXCEPT ![i] = f],
             i \notin Held, UNCHANGED <<rows, bodies>>, staged' = {},
             pc' \notin {"pruneBodies", "pruneFiles", "clearBodies", "clearFiles"}
      PROVE  DiskInv' /\ RowBodyIntact'
  BY <1>0, <1>3
<1>4. run \in 0..Torn /\ Torn \in 0..Torn
  BY BoundsAssumption DEF TypeOK, Torn
<1>5. CASE Crash
  <2>1. CASE files' = files
    BY <1>1, <1>5, <2>1 DEF Crash
  <2>2. CASE files' # files
    <3>1. PICK i \in Ids \ staged, f \in {Torn, run} :
             call[i] = "taken" /\ files' = [files EXCEPT ![i] = f] /\ pc = "inserting"
      BY <1>5, <2>2 DEF Crash
    <3>2. i \notin Held
      BY <3>1 DEF RowInv
    <3> QED
      BY <1>3, <1>4, <1>5, <3>1, <3>2 DEF Crash
  <2> QED
    BY <2>1, <2>2
<1>6. CASE Begin
  BY <1>6 DEF Begin
<1>7. CASE \E i \in Ids, ref \in Refs : SendInsert(i, ref)
  <2>1. PICK i \in Ids, ref \in Refs : SendInsert(i, ref)
    BY <1>7
  <2>2. i \notin staged
    BY <1>b, <2>1 DEF SendInsert, PhaseInv
  <2> QED
    BY <1>0, <2>1, <2>2 DEF SendInsert
<1>8. CASE Drain
  <2>1. staged = {}
    BY <1>8 DEF Drain, PhaseInv
  <2> QED
    BY <1>1, <1>8, <2>1 DEF Drain
<1>9. CASE \E i \in Ids : Stage(i)
  <2>1. PICK i \in Ids : Stage(i)
    BY <1>9
  <2>2. i \notin Held
    BY <1>b, <2>1 DEF Stage, RowInv
  <2> QED
    BY <1>0, <2>1, <2>2 DEF Stage
<1>10. CASE StageFails
  <2>1. CASE files' = files
    BY <1>1, <1>10, <2>1 DEF StageFails
  <2>2. CASE files' # files
    <3>1. PICK i \in Batch \ staged, f \in {Torn, run} : files' = [files EXCEPT ![i] = f]
      BY <1>10, <2>2 DEF StageFails
    <3>2. i \in Ids /\ i \notin Held
      BY <1>b, <1>10, <3>1 DEF StageFails, RowInv
    <3> QED
      BY <1>3, <1>4, <1>10, <3>1, <3>2 DEF StageFails
  <2> QED
    BY <2>1, <2>2
<1>11. CASE Commit
  <2>1. /\ staged = Batch /\ staged' = {} /\ pc' = "replying" /\ files' = files
        /\ \A i \in Ids : rows'[i] = IF i \in Batch THEN [run |-> run, ref |-> body[i]]
                                                  ELSE rows[i]
        /\ \A i \in Ids : bodies'[i] = IF i \in Batch /\ body[i] = "inline"
                                     THEN run ELSE bodies[i]
    BY <1>11 DEF Commit
  <2>2. DiskInv'
    BY <2>1
  <2>3. ASSUME NEW i \in Held'
        PROVE  /\ rows'[i].ref = "inline" => bodies'[i] = rows'[i].run
               /\ rows'[i].ref = "file"   => files'[i] = rows'[i].run
    <3>1. CASE i \in Batch
      <4>1. rows'[i].run = run /\ rows'[i].ref = body[i]
        <5>1. rows'[i] = [run |-> run, ref |-> body[i]]
          BY <1>b, <2>1, <3>1
        <5> QED
          BY <5>1
      <4>2. body[i] = "file" => files[i] = run
        BY <2>1, <3>1
      <4> QED
        BY <2>1, <3>1, <4>1, <4>2
    <3>2. CASE i \notin Batch
      BY <2>1, <3>2
    <3> QED
      BY <3>1, <3>2
  <2> QED
    BY <2>2, <2>3
<1>12. CASE Reply
  <2>1. staged = {}
    BY <1>12 DEF Reply, PhaseInv
  <2>2. /\ UNCHANGED <<rows, bodies, files>> /\ staged' = {}
        /\ pc' \in {"pruneRows", "serving"}
    BY <1>12, <2>1 DEF Reply
  <2> QED
    BY <1>1, <2>2
<1>13. CASE PruneRows
  <2>1. Newest # {} => Min(Newest) \in Nat
    BY <1>0, MinOfIds DEF Newest
  <2>2. /\ pc = "pruneRows" /\ pc' \in {"serving", "pruneBodies"}
        /\ UNCHANGED <<bodies, files, staged>>
    BY <1>13 DEF PruneRows
  <2>3. staged = {}
    BY <2>2 DEF PhaseInv
  <2>4. \A i \in Ids : rows'[i] \in {rows[i], NoRow}
    BY <1>0, <1>13 DEF PruneRows
  <2>5. ASSUME pc' = "pruneBodies", NEW i \in Held'
        PROVE  i >= minKept'
    <3>1. /\ Newest # {} /\ minKept' = Min(Newest)
          /\ rows'[i] = IF i \in Held /\ i < Min(Newest) THEN NoRow ELSE rows[i]
      BY <1>13, <2>5 DEF PruneRows
    <3> QED
      BY <1>0, <2>1, <3>1 DEF NoRow
  <2> QED
    BY <1>0, <2>2, <2>3, <2>4, <2>5 DEF NoRow
<1>14. CASE PruneBodies
  BY <1>0, <1>14 DEF PruneBodies, PhaseInv
<1>15. CASE \E i \in Ids : RemoveFile(i)
  <2>1. PICK i \in Ids : RemoveFile(i)
    BY <1>15
  <2>2. i \notin Held
    BY <1>0, <2>1 DEF RemoveFile, Doomed
  <2>3. staged = {}
    BY <2>1 DEF RemoveFile, PhaseInv
  <2> QED
    BY <1>0, <2>1, <2>2, <2>3 DEF RemoveFile
<1>16. CASE ClearRows
  <2>1. staged = {}
    BY <1>16 DEF ClearRows, PhaseInv
  <2>2. \A i \in Ids : rows'[i] = NoRow
    BY <1>16 DEF ClearRows
  <2> QED
    BY <1>16, <2>1, <2>2 DEF ClearRows, NoRow
<1>17. CASE ClearBodies
  <2>1. staged = {}
    BY <1>17 DEF ClearBodies, PhaseInv
  <2> QED
    BY <1>17, <2>1 DEF ClearBodies
<1>18. CASE PruneEnds \/ PruneFails \/ ServingDone \/ Read \/ ClearEnds \/ ClearFails
  <2>1. /\ UNCHANGED <<rows, bodies, files, staged>>
        /\ pc \notin {"down", "inserting"} /\ pc' \in {"serving", "waiting"}
    BY <1>18 DEF PruneEnds, PruneFails, ServingDone, Read, ClearEnds, ClearFails
  <2>2. staged = {}
    BY <2>1 DEF PhaseInv
  <2> QED
    BY <1>1, <2>1, <2>2
<1>19. CASE \E op \in {"read", "clear"} : SendAsk(op)
  BY <1>19 DEF SendAsk
<1> QED
  BY <1>2, <1>5, <1>6, <1>7, <1>8, <1>9, <1>10, <1>11, <1>12, <1>13, <1>14, <1>15,
     <1>16, <1>17, <1>18, <1>19 DEF Next, Writer

\* No step leaves the invariant.
LEMMA NextInv ==
    ASSUME StoreInv, [Next]_vars
    PROVE  StoreInv'
<1>1. CASE Next
  <2>1. TypeOK'
    BY <1>1, WriterType, ProcessType DEF Next, StoreInv
  <2>2. DownInv' /\ PhaseInv'
    BY <1>1, PhaseStep
  <2>3. QueueInv'
    BY <1>1, QueueStep
  <2>4. IdInv' /\ RowInv' /\ OrderAcrossRuns'
    BY <1>1, <2>1, IdStep
  <2>5. DiskInv' /\ RowBodyIntact'
    BY <1>1, <2>1, DiskStep
  <2> QED
    BY <2>1, <2>2, <2>3, <2>4, <2>5 DEF StoreInv
<1>2. CASE UNCHANGED vars
  BY <1>2 DEF vars, memory, disk, StoreInv, TypeOK, DownInv, PhaseInv, QueueInv, IdInv,
     RowInv, DiskInv, RowBodyIntact, OrderAcrossRuns, Held, Batch
<1> QED
  BY <1>1, <1>2

-----------------------------------------------------------------------------
(* Theorems *)

\* The inductive invariant of the store: type, phases, channel, ids and disk
\* agree in every reachable state.
THEOREM InvTheorem == Spec => []StoreInv
<1>1. Init => StoreInv
  BY InitInv
<1>2. StoreInv /\ [Next]_vars => StoreInv'
  BY NextInv
<1> QED
  BY <1>1, <1>2, PTL DEF Spec

\* Every variable of the store keeps its type, with the prune counter below
\* PruneEvery between batches (writer_loop).
THEOREM TypeTheorem == Spec => []TypeOK
<1>1. StoreInv => TypeOK
  BY DEF StoreInv
<1> QED
  BY <1>1, InvTheorem, PTL

\* A row never shows a body that is torn, missing or another's, whatever
\* crashes, failed batches, prunes and clears came before.
THEOREM RowBodyTheorem == Spec => []RowBodyIntact
<1>1. StoreInv => RowBodyIntact
  BY DEF StoreInv
<1> QED
  BY <1>1, InvTheorem, PTL

\* The ids of held rows follow the runs that recorded them, across restarts.
THEOREM OrderTheorem == Spec => []OrderAcrossRuns
<1>1. StoreInv => OrderAcrossRuns
  BY DEF StoreInv
<1> QED
  BY <1>1, InvTheorem, PTL

\* insert tells each caller of a batch the truth about its row.
THEOREM AnswerTheorem == Spec => AnswerIsTrue
<1>1. ASSUME StoreInv, Next,
             NEW i \in Ids, call[i] = "taken", call'[i] \in {"stored", "refused"}
      PROVE  /\ call'[i] = "stored"  => rows[i].run = run
             /\ call'[i] = "refused" => rows[i].run # run
  <2>0. call \in [Ids -> Calls] /\ i \in Batch
    BY <1>1 DEF StoreInv, TypeOK, Batch
  <2>1. CASE Reply
    <3>1. /\ pc = "replying"
          /\ call'[i] = IF result = "ok" THEN "stored" ELSE "refused"
      BY <2>0, <2>1 DEF Reply, Settle
    <3>2. result \in {"ok", "error"} /\ run # 0
      BY <1>1, <3>1 DEF StoreInv, TypeOK, PhaseInv
    <3> QED
      BY <1>1, <3>1, <3>2 DEF StoreInv, RowInv, Held
  <2>2. CASE Quiet \/ StageFails \/ Commit \/ ClearRows \/ Open
    BY <1>1, <2>2, QuietFrame DEF StageFails, Commit, ClearRows, Open, memory
  <2>3. CASE PruneRows
    <3>1. UNCHANGED call
      BY <2>3 DEF PruneRows
    <3> QED
      BY <1>1, <3>1
  <2>4. CASE Crash \/ Begin \/ \E j \in Ids, ref \in Refs : SendInsert(j, ref)
    BY <1>1, <2>0, <2>4 DEF Crash, Begin, SendInsert
  <2>5. CASE Drain
    BY <1>1, <2>5 DEF Drain
  <2> QED
    BY <1>1, <2>1, <2>2, <2>3, <2>4, <2>5, Steps
<1>2. StoreInv /\ [Next]_vars =>
        [\A i \in Ids :
            call[i] = "taken" =>
              /\ call'[i] = "stored"  => rows[i].run = run
              /\ call'[i] = "refused" => rows[i].run # run]_vars
  BY <1>1
<1> QED
  BY <1>2, InvTheorem, PTL DEF Spec, AnswerIsTrue

-----------------------------------------------------------------------------
(* Refinement *)

\* A prune deletes exactly the rows that have MaxTransactions newer ones.
LEMMA PrunedAreSurplus ==
    ASSUME Newest # {}, NEW i \in Held
    PROVE  i < Min(Newest) <=> Cardinality({j \in Held : j > i}) >= MaxTransactions
<1> DEFINE Above(x) == {j \in Held : j > x}
<1>1. Held \subseteq Ids /\ Newest \subseteq Ids /\ Ids \subseteq Nat /\ MaxTransactions \in Nat
  BY BoundsAssumption DEF Held, Newest, Ids
<1>2. /\ Min(Newest) \in Newest
      /\ \A y \in Newest : Min(Newest) <= y
  BY <1>1, MinOfIds
<1>n. Min(Newest) \in Nat /\ i \in Nat
  BY <1>1, <1>2
<1>3. \A x : Above(x) \in SUBSET Ids
  BY <1>1
<1>4. \A x : Cardinality(Above(x)) \in Nat
  <2> HIDE DEF Above
  <2> QED
    BY <1>3, SizeOfIds
<1>5. i \in Newest <=> Cardinality(Above(i)) < MaxTransactions
  BY DEF Newest
<1>6. Cardinality(Above(Min(Newest))) < MaxTransactions
  BY <1>2 DEF Newest
<1>7. CASE i < Min(Newest)
  <2>1. i \notin Newest
    BY <1>2, <1>7, <1>n
  <2> HIDE DEF Above
  <2>2. Cardinality(Above(i)) >= MaxTransactions
    BY <1>1, <1>4, <1>5, <2>1
  <2> QED
    BY <1>7, <2>2 DEF Above
<1>8. CASE ~(i < Min(Newest))
  <2>1. i >= Min(Newest)
    BY <1>8, <1>n
  <2>2. Above(i) \in SUBSET Above(Min(Newest))
    <3>1. ASSUME NEW j \in Held, j > i PROVE j > Min(Newest)
      <4>1. j \in Nat
        BY <1>1
      <4> QED
        BY <1>n, <2>1, <3>1, <4>1
    <3> QED
      BY <3>1
  <2> HIDE DEF Above
  <2>3. Cardinality(Above(i)) <= Cardinality(Above(Min(Newest)))
    BY <1>3, <2>2, SizeOfIds
  <2>4. ~(Cardinality(Above(i)) >= MaxTransactions)
    BY <1>1, <1>4, <1>6, <2>3
  <2> QED
    BY <1>8, <2>4 DEF Above
<1> QED
  BY <1>7, <1>8

\* Cardinality means the same in both modules.
LEMMA SameCardinality == \A S : Log!Cardinality(S) = Cardinality(S)
BY DEF Log!Cardinality, Cardinality

\* Every step of the store is one of the log, or leaves the log alone.
LEMMA LogStep ==
    ASSUME StoreInv, StoreInv', [Next]_vars
    PROVE  Log!Next \/ UNCHANGED [i \in Ids |-> rows[i].run]
<1> DEFINE log == [i \in Ids |-> rows[i].run]
<1>0. Log!Held = Held
  BY DEF Log!Held, Held
<1>1. CASE UNCHANGED rows
  BY <1>1
<1>2. CASE Commit
  <2>1. /\ pc = "inserting"
        /\ \A i \in Ids : rows'[i] = IF i \in Batch THEN [run |-> run, ref |-> body[i]]
                                                  ELSE rows[i]
    BY <1>2 DEF Commit
  <2>2. Batch \in SUBSET Ids /\ run \in Runs /\ run \in Nat
    <3>1. run # 0 /\ run \in 0..MaxRuns
      BY <2>1 DEF StoreInv, PhaseInv, TypeOK
    <3> QED
      BY <3>1, BoundsAssumption DEF Batch, Runs
  <2>3. Batch \cap Held = {}
    BY <2>1 DEF StoreInv, RowInv, Batch
  <2>4. \A j \in Held : log[j] <= run
    BY DEF StoreInv, IdInv, Held
  <2>5. \A i \in Batch, j \in Held : log[j] < run => j < i
    BY DEF StoreInv, IdInv, Held, Batch
  <2>6. \A i \in Ids : rows'[i].run = IF i \in Batch THEN run ELSE log[i]
    <3>1. \A i \in Batch : [run |-> run, ref |-> body[i]].run = run
      OBVIOUS
    <3> QED
      BY <2>1, <3>1
  <2>7. [i \in Ids |-> rows[i].run]' = [i \in Ids |-> IF i \in Batch THEN run ELSE log[i]]
    BY <2>6
  <2> QED
    <3>1. /\ Batch \in SUBSET (Ids \ Log!Held)
          /\ \A j \in Log!Held : log[j] <= run
          /\ \A i \in Batch, j \in Log!Held : log[j] < run => j < i
      BY <1>0, <2>2, <2>3, <2>4, <2>5
    <3> QED
      BY <2>2, <2>7, <3>1 DEF Log!Next, Log!Store
<1>3. CASE PruneRows
  <2>1. CASE Newest = {}
    BY <1>1, <1>3, <2>1 DEF PruneRows
  <2>2. CASE Newest # {} /\ UNCHANGED rows
    BY <1>1, <2>2
  <2>3. CASE Newest # {} /\ rows' # rows
    <3>1. \A i \in Ids : rows'[i] = IF i \in Held /\ i < Min(Newest) THEN NoRow ELSE rows[i]
      BY <1>3, <2>3 DEF PruneRows
    <3>2. ASSUME NEW i \in Ids
          PROVE  i \in Held /\ i < Min(Newest) <=> i \in Log!Surplus
      <4>1. i \in Log!Surplus <=>
               i \in Held /\ Cardinality({j \in Held : j > i}) >= MaxTransactions
        <5>1. {j \in Log!Held : j > i} = {j \in Held : j > i}
          BY <1>0
        <5>2. i \in Log!Surplus <=>
                 i \in Log!Held /\ Cardinality({j \in Log!Held : j > i}) >= MaxTransactions
          BY SameCardinality DEF Log!Surplus
        <5> QED
          BY <1>0, <5>1, <5>2
      <4>2. CASE i \in Held
        BY <2>3, <4>1, <4>2, PrunedAreSurplus
      <4>3. CASE i \notin Held
        BY <4>1, <4>3
      <4> QED
        BY <4>2, <4>3
    <3>3. \A i \in Ids : rows'[i].run = IF i \in Log!Surplus THEN 0 ELSE log[i]
      BY <3>1, <3>2 DEF NoRow
    <3>4. [i \in Ids |-> rows[i].run]' =
             [i \in Ids |-> IF i \in Log!Surplus THEN 0 ELSE log[i]]
      BY <3>3
    <3> QED
      BY <3>4 DEF Log!Next, Log!Trim
  <2> QED
    BY <2>1, <2>2, <2>3
<1>4. CASE ClearRows
  <2>1. \A i \in Ids : rows'[i].run = 0
    BY <1>4 DEF ClearRows, NoRow
  <2>2. [i \in Ids |-> rows[i].run]' = [i \in Ids |-> 0]
    BY <2>1
  <2> QED
    BY <2>2 DEF Log!Next, Log!Wipe
<1>5. CASE Next /\ ~Commit /\ ~PruneRows /\ ~ClearRows
  <2>1. UNCHANGED rows
    BY <1>5, Steps, QuietFrame DEF Open, Crash, Begin, SendInsert, Drain, StageFails,
       Reply, memory, disk
  <2> QED
    BY <1>1, <2>1
<1>6. CASE UNCHANGED vars
  BY <1>1, <1>6 DEF vars, disk
<1> QED
  BY <1>2, <1>3, <1>4, <1>5, <1>6

\* The transactions table implements SessionLog: batches in order, wipes and
\* trims of the oldest rows beyond the cap are all that ever happens to it.
THEOREM LogTheorem == Spec => LogSpec
<1>1. Init => Log!Init
  BY DEF Init, Log!Init, NoRow
<1>2. StoreInv /\ StoreInv' /\ [Next]_vars => [Log!Next]_[i \in Ids |-> rows[i].run]
  BY LogStep
<1> QED
  BY <1>1, <1>2, InvTheorem, PTL DEF Spec, LogSpec, Log!Spec

-----------------------------------------------------------------------------
(* Clears *)

InsertOf(i) == [op |-> "insert", n |-> i]

\* Whoever sends waits in the channel, and asks are numbered in order.
WaitingInv ==
    /\ \A i \in Ids : call[i] = "queued" => \E p \in 1..Len(chan) : chan[p] = InsertOf(i)
    /\ \A p \in 1..Len(chan) : chan[p].op # "insert" => chan[p].n <= asked
    /\ \A m \in asks : m.n <= asked

\* What a clear covers was sent before it: it is ahead of it in the channel, has
\* left the channel with it, or is done with once the clear is.
CoverInv ==
    /\ \A i \in Ids : cleared[i] <= run
    /\ \A n \in Asks, i \in Ids : covers[n][i] <= run
    /\ \A p \in 1..Len(chan), i \in Ids :
          chan[p].op # "insert" /\ covers[chan[p].n][i] = run =>
            /\ call[i] \notin {"free", "active"}
            /\ \A q \in 1..Len(chan) : chan[q] = InsertOf(i) => q < p
    /\ \A m \in asks, i \in Ids :
          covers[m.n][i] = run => call[i] \in {"taken", "stored", "refused"}
    /\ pc # "down" => \A i \in Ids : cleared[i] = run => call[i] \in {"stored", "refused"}

ClearInv == WaitingInv /\ CoverInv /\ ClearIsFinal

LEMMA ClearInvInit == Init => ClearInv
<1> SUFFICES ASSUME Init PROVE ClearInv
  OBVIOUS
<1>1. WaitingInv /\ ClearIsFinal
  BY DEF Init, WaitingInv, ClearIsFinal, Held, NoRow
<1>2. CoverInv
  BY DEF Init, CoverInv, Nobody
<1> QED
  BY <1>1, <1>2 DEF ClearInv

\* The facts about types that the steps below use.
LEMMA ClearTypes ==
    ASSUME StoreInv
    PROVE  /\ run \in Nat /\ asked \in Nat /\ (pc # "down" => run > 0)
           /\ chan \in Seq(Msg) /\ Len(chan) \in Nat
           /\ \A p \in 1..Len(chan) : chan[p] \in Msg /\ (chan[p].op # "insert" => chan[p].n \in Asks)
           /\ asks \subseteq Ask /\ \A m \in asks : m.n \in Asks
           /\ call \in [Ids -> Calls]
           /\ cleared \in [Ids -> 0..MaxRuns] /\ \A i \in Ids : cleared[i] \in Nat
           /\ covers \in [Asks -> [Ids -> 0..MaxRuns]]
           /\ \A n \in Asks, i \in Ids : covers[n][i] \in Nat
           /\ rows \in [Ids -> [run : 0..MaxRuns, ref : Refs]]
           /\ \A i \in Ids : rows[i].run \in Nat
<1>1. /\ run \in 0..MaxRuns /\ asked \in 0..MaxAsks
      /\ chan \in Seq(Msg) /\ asks \in SUBSET Ask
      /\ call \in [Ids -> Calls]
      /\ cleared \in [Ids -> 0..MaxRuns]
      /\ covers \in [Asks -> [Ids -> 0..MaxRuns]]
      /\ rows \in [Ids -> [run : 0..MaxRuns, ref : Refs]]
  BY DEF StoreInv, TypeOK
<1>2. 0..MaxRuns \subseteq Nat
  OBVIOUS
<1>3. \A m \in Msg : m.op # "insert" => m.n \in Asks
  BY DEF Msg, Ask
<1>4. \A m \in Ask : m.n \in Asks
  BY DEF Ask
<1>5. \A p \in 1..Len(chan) : chan[p] \in Msg
  BY <1>1
<1>6. pc # "down" => run > 0
  BY <1>1 DEF StoreInv, PhaseInv
<1>7. \A i \in Ids : rows[i].run \in 0..MaxRuns
  BY <1>1
<1> QED
  BY <1>1, <1>2, <1>3, <1>4, <1>5, <1>6, <1>7

\* A drain takes what a clear covers together with the clear.
LEMMA DrainClears ==
    ASSUME StoreInv, ClearInv, Drain
    PROVE  WaitingInv' /\ CoverInv'
<1> DEFINE k == SmallerOf(Len(chan), BatchCap)
           n == Len(chan) - k
           batch == {i \in Ids : \E p \in 1..k : chan[p] = InsertOf(i)}
<1>0. /\ run \in Nat /\ asked \in Nat /\ chan \in Seq(Msg) /\ Len(chan) \in Nat
      /\ call \in [Ids -> Calls]
  BY ClearTypes
<1>1. k \in 0..Len(chan) /\ k \in Nat /\ n \in Nat
  BY <1>0, BoundsAssumption DEF SmallerOf
<1>2. /\ chan' = SubSeq(chan, k + 1, Len(chan))
      /\ asks' = {chan[p] : p \in {q \in 1..k : chan[q].op # "insert"}}
      /\ call' = [i \in Ids |-> IF i \in batch THEN "taken" ELSE call[i]]
      /\ UNCHANGED <<run, asked, cleared, covers>> /\ pc # "down"
  BY DEF Drain, InsertOf
<1> HIDE DEF k, batch
<1>3. Len(chan') = n /\ \A p \in 1..n : chan'[p] = chan[k + p] /\ k + p \in 1..Len(chan)
  BY <1>0, <1>1, <1>2
<1>4. \A p \in 1..k : p \in 1..Len(chan)
  BY <1>0, <1>1
<1>5. /\ \A i \in batch : call'[i] = "taken"
      /\ \A i \in Ids \ batch : call'[i] = call[i]
      /\ batch \subseteq Ids
  BY <1>0, <1>2 DEF batch
<1>6. ASSUME NEW i \in batch PROVE call[i] = "queued"
  <2>1. PICK p \in 1..k : chan[p] = InsertOf(i)
    BY DEF batch
  <2>2. p \in 1..Len(chan) /\ chan[p].op = "insert" /\ chan[p].n = i
    BY <1>4, <2>1 DEF InsertOf
  <2> QED
    BY <2>2 DEF StoreInv, QueueInv
<1>7. ASSUME NEW i \in Ids, call'[i] = "queued"
      PROVE  \E p \in 1..n : chan'[p] = InsertOf(i)
  <2>1. i \notin batch /\ call[i] = "queued"
    BY <1>5, <1>7
  <2>2. PICK p \in 1..Len(chan) : chan[p] = InsertOf(i)
    BY <2>1 DEF ClearInv, WaitingInv
  <2>3. ~(p \in 1..k)
    BY <2>1, <2>2 DEF batch
  <2>4. p - k \in 1..n /\ k + (p - k) = p
    BY <1>0, <1>1, <2>3
  <2> QED
    BY <1>3, <2>2, <2>4
<1>8. ASSUME NEW p \in 1..n, chan'[p].op # "insert" PROVE chan'[p].n <= asked
  BY <1>3, <1>8 DEF ClearInv, WaitingInv
<1>9. ASSUME NEW m \in asks' PROVE \E p \in 1..k : m = chan[p] /\ m.op # "insert"
  BY <1>2
<1>10. WaitingInv'
  <2>1. \A m \in asks' : m.n <= asked
    BY <1>4, <1>9 DEF ClearInv, WaitingInv
  <2> QED
    BY <1>2, <1>3, <1>7, <1>8, <2>1 DEF WaitingInv
<1>11. ASSUME NEW p \in 1..n, NEW i \in Ids, chan'[p].op # "insert",
              covers[chan'[p].n][i] = run
       PROVE  /\ call'[i] \notin {"free", "active"}
              /\ \A q \in 1..n : chan'[q] = InsertOf(i) => q < p
  <2>1. /\ chan'[p] = chan[k + p] /\ k + p \in 1..Len(chan)
        /\ \A q \in 1..n : chan'[q] = chan[k + q] /\ k + q \in 1..Len(chan)
    BY <1>3
  <2>2. /\ call[i] \notin {"free", "active"}
        /\ \A q \in 1..Len(chan) : chan[q] = InsertOf(i) => q < k + p
    BY <1>11, <2>1 DEF ClearInv, CoverInv
  <2>3. ASSUME NEW q \in 1..n, chan'[q] = InsertOf(i) PROVE q < p
    <3>1. k + q < k + p
      BY <2>1, <2>2, <2>3
    <3> QED
      BY <1>1, <3>1
  <2> QED
    BY <1>5, <2>2, <2>3
<1>12. ASSUME NEW m \in asks', NEW i \in Ids, covers[m.n][i] = run
       PROVE  call'[i] \in {"taken", "stored", "refused"}
  <2>1. PICK p \in 1..k : m = chan[p] /\ m.op # "insert"
    BY <1>9
  <2>2. /\ call[i] \notin {"free", "active"}
        /\ \A q \in 1..Len(chan) : chan[q] = InsertOf(i) => q < p
    BY <1>4, <1>12, <2>1 DEF ClearInv, CoverInv
  <2>3. ASSUME call[i] = "queued" PROVE i \in batch
    <3>1. PICK q \in 1..Len(chan) : chan[q] = InsertOf(i)
      BY <2>3 DEF ClearInv, WaitingInv
    <3>2. q \in 1..k
      BY <1>1, <2>2, <3>1
    <3> QED
      BY <3>1, <3>2 DEF batch
  <2> QED
    BY <1>0, <1>5, <2>2, <2>3 DEF Calls
<1>13. \A i \in Ids : cleared[i] = run => call'[i] \in {"stored", "refused"}
  BY <1>2, <1>5, <1>6 DEF ClearInv, CoverInv
<1> QED
  BY <1>2, <1>3, <1>10, <1>11, <1>12, <1>13 DEF ClearInv, CoverInv

\* Where nothing is sent and nothing drained, and no transaction begins.
LEMMA StillClears ==
    ASSUME StoreInv, WaitingInv, CoverInv, UNCHANGED <<run, asked, chan>>, pc # "down",
           asks' \subseteq asks,
           \A i \in Ids : cleared'[i] = run => cleared[i] = run \/ call'[i] \in {"stored", "refused"},
           \A i \in Ids : cleared'[i] <= run,
           \A m \in Asks, i \in Ids : covers'[m][i] \in {covers[m][i], 0},
           \A i \in Ids : call'[i] = call[i] \/ (call[i] = "taken" /\ call'[i] \in {"stored", "refused"})
    PROVE  WaitingInv' /\ CoverInv'
<1>0. /\ run \in Nat /\ run > 0
      /\ \A p \in 1..Len(chan) : chan[p].op # "insert" => chan[p].n \in Asks
      /\ \A m \in asks : m.n \in Asks
  BY ClearTypes
<1>1. WaitingInv'
  BY DEF WaitingInv
<1>2. \A m \in Asks, i \in Ids : covers'[m][i] = run => covers[m][i] = run
  BY <1>0
<1>3. \A m \in Asks, i \in Ids : covers'[m][i] <= run
  BY <1>0 DEF CoverInv
<1>4. \A p \in 1..Len(chan), i \in Ids :
         chan[p].op # "insert" /\ covers'[chan[p].n][i] = run =>
           /\ call'[i] \notin {"free", "active"}
           /\ \A q \in 1..Len(chan) : chan[q] = InsertOf(i) => q < p
  BY <1>0, <1>2 DEF CoverInv
<1>5. \A m \in asks', i \in Ids :
         covers'[m.n][i] = run => call'[i] \in {"taken", "stored", "refused"}
  BY <1>0, <1>2 DEF CoverInv
<1>6. \A i \in Ids : cleared'[i] = run => call'[i] \in {"stored", "refused"}
  BY DEF CoverInv
<1> QED
  BY <1>1, <1>3, <1>4, <1>5, <1>6 DEF CoverInv

\* The next clear to end covers only what is done with.
LEMMA EndedClear ==
    ASSUME StoreInv, CoverInv, ClearEnds, NEW i \in Ids
    PROVE  /\ cleared'[i] <= run
           /\ cleared'[i] = run => cleared[i] = run \/ call[i] \in {"stored", "refused"}
<1>1. /\ asks # {} /\ Batch = {} /\ pc = "clearFiles"
      /\ cleared'[i] = LaterOf(cleared[i], covers[NextAsk.n][i])
  BY DEF ClearEnds, StoreInv, PhaseInv
<1>2. NextAsk \in asks /\ NextAsk.n \in Asks
  BY <1>1, NextAskType DEF StoreInv
<1>3. cleared[i] <= run /\ covers[NextAsk.n][i] <= run
  BY <1>2 DEF CoverInv
<1>4. covers[NextAsk.n][i] = run => call[i] \in {"stored", "refused"}
  BY <1>1, <1>2 DEF CoverInv, Batch
<1> QED
  BY <1>1, <1>3, <1>4 DEF LaterOf

\* Sending a read or a clear.
LEMMA AskClears ==
    ASSUME StoreInv, WaitingInv, CoverInv, NEW op \in {"read", "clear"}, SendAsk(op)
    PROVE  WaitingInv' /\ CoverInv'
<1> DEFINE n == asked + 1
           new == [op |-> op, n |-> n]
<1>0. /\ run \in Nat /\ run > 0 /\ asked \in Nat /\ chan \in Seq(Msg) /\ Len(chan) \in Nat
      /\ \A p \in 1..Len(chan) : chan[p].op # "insert" => chan[p].n \in Asks
      /\ \A m \in asks : m.n \in Asks
      /\ covers \in [Asks -> [Ids -> 0..MaxRuns]]
      /\ n \in Asks
  BY ClearTypes, BoundsAssumption DEF SendAsk, Asks
<1>1. /\ chan' = Append(chan, new)
      /\ covers' = [covers EXCEPT ![n] = IF op = "clear" THEN [i \in Ids |-> Sent(i)] ELSE Nobody]
      /\ asked' = n
      /\ UNCHANGED <<run, pc, cleared, call, asks>>
  BY DEF SendAsk
<1>2. /\ Len(chan') = Len(chan) + 1
      /\ \A p \in 1..Len(chan) : chan'[p] = chan[p]
      /\ chan'[Len(chan) + 1] = new
  BY <1>0, <1>1
<1>3. \A m \in Asks : m <= asked => covers'[m] = covers[m]
  BY <1>0, <1>1
<1>4. \A i \in Ids : /\ covers'[n][i] <= run
                     /\ covers'[n][i] = run => call[i] \notin {"free", "active"}
  BY <1>0, <1>1 DEF Sent, Nobody
<1>5. \A m \in Asks \ {n} : covers'[m] = covers[m]
  BY <1>0, <1>1
<1>6. WaitingInv'
  <2>1. \A i \in Ids : call'[i] = "queued" => \E p \in 1..Len(chan') : chan'[p] = InsertOf(i)
    BY <1>0, <1>1, <1>2 DEF WaitingInv
  <2>2. \A p \in 1..Len(chan') : chan'[p].op # "insert" => chan'[p].n <= asked'
    BY <1>0, <1>1, <1>2 DEF WaitingInv, Asks
  <2>3. \A m \in asks' : m.n <= asked'
    BY <1>0, <1>1 DEF WaitingInv, Asks
  <2> QED
    BY <2>1, <2>2, <2>3 DEF WaitingInv
<1>7. \A m \in Asks, i \in Ids : covers'[m][i] <= run
  BY <1>4, <1>5 DEF CoverInv
<1>8. ASSUME NEW p \in 1..Len(chan'), NEW i \in Ids, chan'[p].op # "insert",
             covers'[chan'[p].n][i] = run
      PROVE  /\ call[i] \notin {"free", "active"}
             /\ \A q \in 1..Len(chan') : chan'[q] = InsertOf(i) => q < p
  <2>1. CASE p = Len(chan) + 1
    <3>1. call[i] \notin {"free", "active"}
      BY <1>2, <1>4, <1>8, <2>1
    <3>2. new # InsertOf(i)
      BY DEF InsertOf
    <3> HIDE DEF new
    <3>3. \A q \in 1..Len(chan') : chan'[q] = InsertOf(i) => q < p
      BY <1>0, <1>2, <2>1, <3>2
    <3> QED
      BY <3>1, <3>3
  <2>2. CASE p \in 1..Len(chan)
    <3>1. chan[p].op # "insert" /\ covers[chan[p].n][i] = run
      BY <1>0, <1>2, <1>3, <1>8, <2>2 DEF WaitingInv
    <3>2. /\ call[i] \notin {"free", "active"}
          /\ \A q \in 1..Len(chan) : chan[q] = InsertOf(i) => q < p
      BY <2>2, <3>1 DEF CoverInv
    <3>3. new # InsertOf(i)
      BY DEF InsertOf
    <3> HIDE DEF new
    <3> QED
      BY <1>0, <1>2, <3>2, <3>3
  <2> QED
    BY <1>0, <1>2, <2>1, <2>2
<1>9. \A m \in asks, i \in Ids : covers'[m.n][i] = run => call[i] \in {"taken", "stored", "refused"}
  BY <1>0, <1>3 DEF WaitingInv, CoverInv
<1> QED
  BY <1>1, <1>6, <1>7, <1>8, <1>9 DEF CoverInv

LEMMA ClearStep ==
    ASSUME StoreInv, ClearInv, Next
    PROVE  WaitingInv' /\ CoverInv'
<1> USE DEF ClearInv
<1>0. /\ run \in Nat /\ asked \in Nat /\ chan \in Seq(Msg) /\ Len(chan) \in Nat
      /\ call \in [Ids -> Calls] /\ \A i \in Ids : cleared[i] \in Nat
      /\ \A m \in Asks, i \in Ids : covers[m][i] \in Nat
      /\ pc # "down" => run > 0
      /\ \A p \in 1..Len(chan) : chan[p].op # "insert" => chan[p].n \in Asks
      /\ \A m \in asks : m.n \in Asks
  BY ClearTypes
<1>1. CASE Open
  <2>1. /\ chan = <<>> /\ asks = {} /\ \A i \in Ids : call[i] = "free"
        /\ run' = run + 1
        /\ UNCHANGED <<asked, cleared, memory>>
    BY <1>1 DEF Open, StoreInv, DownInv
  <2> QED
    BY <1>0, <2>1 DEF WaitingInv, CoverInv, memory
<1>2. CASE Crash
  BY <1>0, <1>2 DEF Crash, WaitingInv, CoverInv, Nobody
<1>3. CASE Begin
  <2>1. /\ call[nextId] = "free" /\ nextId \in Ids /\ pc # "down"
        /\ call' = [call EXCEPT ![nextId] = "active"]
        /\ UNCHANGED <<run, pc, asked, cleared, chan, asks, covers>>
    BY <1>3 DEF Begin, StoreInv, TypeOK, IdInv, Ids
  <2> QED
    BY <1>0, <2>1 DEF WaitingInv, CoverInv
<1>4. CASE \E i \in Ids, ref \in Refs : SendInsert(i, ref)
  <2>1. PICK i \in Ids, ref \in Refs : SendInsert(i, ref)
    BY <1>4
  <2>2. /\ chan' = Append(chan, InsertOf(i))
        /\ call[i] = "active" /\ call' = [call EXCEPT ![i] = "queued"]
        /\ UNCHANGED <<run, pc, asked, cleared, asks, covers>>
    BY <2>1 DEF SendInsert, InsertOf
  <2>3. /\ Len(chan') = Len(chan) + 1
        /\ \A p \in 1..Len(chan) : chan'[p] = chan[p]
        /\ chan'[Len(chan) + 1] = InsertOf(i)
        /\ InsertOf(i).op = "insert"
        /\ \A j \in Ids : j # i => InsertOf(j) # InsertOf(i)
    BY <1>0, <2>2 DEF InsertOf
  <2>4. WaitingInv'
    BY <1>0, <2>2, <2>3 DEF WaitingInv
  <2>5. ASSUME NEW p \in 1..Len(chan'), NEW j \in Ids, chan'[p].op # "insert",
               covers[chan'[p].n][j] = run
        PROVE  /\ call'[j] \notin {"free", "active"}
               /\ \A q \in 1..Len(chan') : chan'[q] = InsertOf(j) => q < p
    <3>1. p \in 1..Len(chan) /\ chan'[p] = chan[p]
      BY <1>0, <2>3, <2>5
    <3>2. /\ call[j] \notin {"free", "active"}
          /\ \A q \in 1..Len(chan) : chan[q] = InsertOf(j) => q < p
      BY <2>5, <3>1 DEF CoverInv
    <3>3. j # i
      BY <2>2, <3>2
    <3> QED
      BY <1>0, <2>2, <2>3, <3>2, <3>3
  <2>6. \A j \in Ids : call[j] # "active" => call'[j] = call[j]
    BY <1>0, <2>2
  <2> QED
    BY <2>2, <2>4, <2>5, <2>6 DEF CoverInv
<1>5. CASE Drain
  BY <1>5, DrainClears
<1>6. CASE StageFails \/ Commit \/ ClearRows
  <2>1. UNCHANGED <<run, asked, chan, asks, cleared, covers, call>> /\ pc # "down"
    BY <1>6 DEF StageFails, Commit, ClearRows, memory
  <2> QED
    BY <2>1, StillClears DEF CoverInv
<1>7. CASE Reply
  <2>1. UNCHANGED <<run, asked, chan, asks, cleared, covers>> /\ pc # "down"
    BY <1>7 DEF Reply
  <2>2. \A i \in Ids : call'[i] = call[i] \/ (call[i] = "taken" /\ call'[i] \in {"stored", "refused"})
    BY <1>7 DEF Reply, Settle, Batch
  <2> QED
    BY <2>1, <2>2, StillClears DEF CoverInv
<1>8. CASE PruneRows
  <2>1. UNCHANGED <<run, asked, chan, asks, cleared, covers, call>> /\ pc # "down"
    BY <1>8 DEF PruneRows
  <2> QED
    BY <2>1, StillClears DEF CoverInv
<1>9. CASE \E op \in {"read", "clear"} : SendAsk(op)
  BY <1>9, AskClears
<1>10. CASE \/ \E i \in Ids : Stage(i) \/ RemoveFile(i)
            \/ PruneBodies \/ PruneEnds \/ PruneFails \/ ServingDone \/ ClearBodies
  <2>1. UNCHANGED <<run, asked, chan, asks, cleared, covers, call>> /\ pc # "down"
    BY <1>10 DEF Stage, RemoveFile, PruneBodies, PruneEnds, PruneFails, ServingDone,
       ClearBodies, memory
  <2> QED
    BY <2>1, StillClears DEF CoverInv
<1>11. CASE Read \/ ClearFails \/ ClearEnds
  <2>1. /\ UNCHANGED <<run, asked, chan, call>> /\ pc # "down"
        /\ asks' \subseteq asks
        /\ covers' = [covers EXCEPT ![NextAsk.n] = Nobody]
    BY <1>11 DEF Read, ClearFails, ClearEnds, Answered
  <2>2. \A m \in Asks, i \in Ids : covers'[m][i] \in {covers[m][i], 0}
    BY <2>1, ClearTypes DEF Nobody
  <2>3. \A i \in Ids : /\ cleared'[i] <= run
                       /\ cleared'[i] = run => cleared[i] = run \/ call[i] \in {"stored", "refused"}
    BY <1>11, EndedClear DEF Read, ClearFails, CoverInv
  <2>4. \A i \in Ids : cleared'[i] = run => cleared[i] = run \/ call'[i] \in {"stored", "refused"}
    BY <2>1, <2>3
  <2>5. \A i \in Ids : call'[i] = call[i] /\ cleared'[i] <= run
    BY <2>1, <2>3
  <2> QED
    BY <2>1, <2>2, <2>4, <2>5, StillClears
<1> QED
  BY <1>1, <1>2, <1>3, <1>4, <1>5, <1>6, <1>7, <1>8, <1>9, <1>10, <1>11 DEF Next, Writer

\* No row that a clear covers is committed after it.
LEMMA ClearedStay ==
    ASSUME StoreInv, ClearInv, Next
    PROVE  ClearIsFinal'
<1> USE DEF ClearInv, ClearIsFinal, Held
<1>0. /\ run \in Nat /\ \A i \in Ids : cleared[i] \in Nat
      /\ \A i \in Ids : rows[i].run \in Nat
  BY ClearTypes
<1>1. CASE Commit
  <2>1. \A i \in Batch : call[i] = "taken" /\ i \in Ids
    BY DEF Batch
  <2>2. \A i \in Batch : cleared[i] < run
    BY <1>0, <1>1, <2>1 DEF Commit, CoverInv
  <2>3. /\ \A i \in Ids : rows'[i] = IF i \in Batch THEN [run |-> run, ref |-> body[i]] ELSE rows[i]
        /\ cleared' = cleared
    BY <1>1 DEF Commit
  <2>4. \A i \in Ids : rows'[i].run = IF i \in Batch THEN run ELSE rows[i].run
    <3>1. \A i \in Batch : [run |-> run, ref |-> body[i]].run = run
      OBVIOUS
    <3> QED
      BY <2>3, <3>1
  <2>5. \A i \in Ids : rows[i].run # 0 => rows[i].run > cleared[i]
    BY DEF Held
  <2> QED
    BY <1>0, <2>2, <2>3, <2>4, <2>5
<1>2. CASE ClearEnds
  <2>1. \A i \in Ids : rows[i].run = 0
    BY <1>2 DEF ClearEnds, StoreInv, DiskInv
  <2> QED
    BY <1>2, <2>1 DEF ClearEnds, disk
<1>3. CASE PruneRows
  <2>1. cleared' = cleared /\ \A i \in Ids : rows'[i] \in {rows[i], NoRow}
    BY <1>3 DEF PruneRows
  <2> QED
    BY <2>1 DEF NoRow
<1>4. CASE ClearRows
  BY <1>4 DEF ClearRows, NoRow
<1>5. CASE Next /\ ~Commit /\ ~ClearEnds /\ ~PruneRows /\ ~ClearRows
  <2>1. UNCHANGED <<rows, cleared>>
    BY <1>5 DEF Next, Writer, Open, Crash, Begin, SendInsert, SendAsk, Drain, Stage, StageFails,
       Reply, PruneBodies, RemoveFile, PruneEnds, PruneFails, ServingDone, Read, ClearBodies,
       ClearFails, memory, disk
  <2> QED
    BY <2>1
<1> QED
  BY <1>1, <1>2, <1>3, <1>4, <1>5

LEMMA ClearHolds == Spec => []ClearInv
<1>1. StoreInv /\ ClearInv /\ [Next]_vars => ClearInv'
  <2>1. ASSUME StoreInv, ClearInv, Next PROVE ClearInv'
    BY <2>1, ClearStep, ClearedStay DEF ClearInv
  <2>2. ASSUME ClearInv, UNCHANGED vars PROVE ClearInv'
    BY <2>2 DEF ClearInv, WaitingInv, CoverInv, ClearIsFinal, Held, vars, memory, disk
  <2> QED
    BY <2>1, <2>2
<1> QED
  BY <1>1, ClearInvInit, InvTheorem, PTL DEF Spec

\* What a clear covers is never held again once the clear is acknowledged,
\* however sends, drains, failures and crashes fall.
THEOREM ClearTheorem == Spec => []ClearIsFinal
<1>1. ClearInv => ClearIsFinal
  BY DEF ClearInv
<1> QED
  BY <1>1, ClearHolds, PTL

-----------------------------------------------------------------------------
(* Retention *)

\* The rows of this run.
OfRun == {i \in Held : rows[i].run = run}

\* Between prunes the counter bounds what the run has added; a batch that is
\* committed is counted with the reply.
KeptInv ==
    ~Faults =>
      /\ pc \notin {"down", "replying", "pruneRows"} =>
            Cardinality(OfRun) <= MaxTransactions + sincePrune
      /\ pc = "replying" =>
            Cardinality(OfRun) <= MaxTransactions + sincePrune + Cardinality(Batch)

LEMMA KeptInit == Init => KeptInv
BY DEF Init, KeptInv

\* The newest rows are as many as a prune keeps, and those after one of them are
\* newest rows as well.
LEMMA NewestFit ==
    /\ Cardinality(Newest) <= MaxTransactions
    /\ \A i \in Newest, j \in Held : i <= j => j \in Newest
<1>1. Held \in SUBSET Ids /\ Held \in SUBSET Nat /\ MaxTransactions \in Nat
  BY BoundsAssumption DEF Held, Ids
<1>2. IsFiniteSet(Held)
  BY <1>1, SizeOfIds
<1>3. Newest = Top(Held, MaxTransactions)
  BY DEF Newest, Top, Newer
<1> QED
  BY <1>1, <1>2, <1>3, TopFits, TopUpward

\* If there are rows, there are newest ones: the last.
LEMMA NewestExist == Held # {} => Newest # {}
<1> SUFFICES ASSUME Held # {} PROVE Newest # {}
  OBVIOUS
<1>0. Held \in SUBSET Ids /\ Ids \subseteq Nat /\ MaxTransactions \in Nat \ {0}
  BY BoundsAssumption DEF Held, Ids
<1>1. Max(Held) \in Held /\ \A y \in Held : y <= Max(Held)
  BY <1>0, MaxOfIds
<1>2. {j \in Held : j > Max(Held)} = {}
  <2>1. ASSUME NEW j \in Held, j > Max(Held) PROVE FALSE
    <3>1. j \in Nat /\ Max(Held) \in Nat
      BY <1>0, <1>1
    <3> QED
      BY <1>1, <2>1, <3>1
  <2> QED
    BY <2>1
<1>3. Cardinality({j \in Held : j > Max(Held)}) = 0
  BY <1>2, FS_EmptySet
<1> QED
  BY <1>0, <1>1, <1>3 DEF Newest

\* What a prune leaves fits, whether or not it had anything to delete.
LEMMA PrunedFit == StoreInv /\ PruneRows => Held' \subseteq Newest
<1> SUFFICES ASSUME StoreInv, PruneRows, NEW i \in Held', i \notin Newest PROVE FALSE
  OBVIOUS
<1>0. Newest \in SUBSET Ids /\ Ids \subseteq Nat
  BY BoundsAssumption DEF Newest, Held, Ids
<1>1. i \in Held /\ i \in Nat
  BY <1>0 DEF PruneRows, Held, NoRow
<1>2. Newest # {}
  BY <1>1, NewestExist
<1>3. Min(Newest) \in Newest /\ Min(Newest) \in Nat
  BY <1>0, <1>2, MinOfIds
<1>4. ~(Min(Newest) <= i)
  BY <1>1, <1>3, NewestFit
<1>5. i < Min(Newest)
  BY <1>1, <1>3, <1>4
<1> QED
  BY <1>1, <1>2, <1>5 DEF PruneRows, Held, NoRow

\* A smaller set of rows of the run, with the counter as it was.
LEMMA KeptShrinks ==
    ASSUME StoreInv, StoreInv', KeptInv, UNCHANGED sincePrune, OfRun' \subseteq OfRun,
           pc \notin {"down", "replying", "pruneRows"},
           pc' \notin {"down", "replying", "pruneRows"}
    PROVE  KeptInv'
<1>1. OfRun \in SUBSET Ids /\ OfRun' \in SUBSET Ids
  BY DEF OfRun, Held
<1>2. /\ Cardinality(OfRun') <= Cardinality(OfRun)
      /\ Cardinality(OfRun') \in Nat /\ Cardinality(OfRun) \in Nat
  BY <1>1, SizeOfIds
<1>3. sincePrune \in Nat /\ MaxTransactions \in Nat
  BY BoundsAssumption DEF StoreInv, TypeOK
<1>4. Cardinality(OfRun)' = Cardinality(OfRun')
  OBVIOUS
<1> QED
  BY <1>2, <1>3, <1>4 DEF KeptInv

LEMMA KeptStep ==
    ASSUME StoreInv, StoreInv', KeptInv, Next
    PROVE  KeptInv'
<1> SUFFICES ASSUME ~Faults PROVE KeptInv'
  BY DEF KeptInv
<1>0. /\ sincePrune \in Nat /\ sincePrune' \in Nat
      /\ MaxTransactions \in Nat \ {0} /\ PruneEvery \in Nat \ {0}
      /\ rows \in [Ids -> [run : 0..MaxRuns, ref : Refs]] /\ run \in Nat
      /\ \A i \in Ids : rows[i].run \in Nat /\ rows[i].run <= run
  BY BoundsAssumption DEF StoreInv, TypeOK, IdInv
<1>s. /\ OfRun \in SUBSET Ids /\ OfRun' \in SUBSET Ids
      /\ Batch \in SUBSET Ids /\ Held' \in SUBSET Ids
  BY DEF OfRun, Held, Batch
<1>c. /\ IsFiniteSet(OfRun) /\ IsFiniteSet(Batch)
      /\ Cardinality(OfRun) \in Nat /\ Cardinality(OfRun') \in Nat
      /\ Cardinality(Batch) \in Nat
  BY <1>s, SizeOfIds
<1> USE DEF memory, disk
<1>1. CASE Open
  <2>1. OfRun' = {}
    BY <1>0, <1>1 DEF Open, OfRun, Held
  <2>2. Cardinality(OfRun') = 0 /\ pc' = "waiting"
    BY <1>1, <2>1, FS_EmptySet DEF Open
  <2>3. sincePrune' = sincePrune /\ 0 <= MaxTransactions + sincePrune
    BY <1>0, <1>1 DEF Open
  <2> QED
    BY <2>2, <2>3 DEF KeptInv
<1>2. CASE Crash
  BY <1>2 DEF Crash, KeptInv
<1>3. CASE Begin \/ (\E i \in Ids, ref \in Refs : SendInsert(i, ref))
  <2>1. UNCHANGED <<pc, sincePrune, rows, run>> /\ Batch' = Batch
    <3>1. CASE Begin
      <4>1. call[nextId] # "taken"
        BY <1>0, <3>1 DEF Begin, StoreInv, IdInv, TypeOK
      <4> QED
        BY <3>1, <4>1 DEF Begin, Batch, StoreInv, TypeOK
    <3>2. CASE \E i \in Ids, ref \in Refs : SendInsert(i, ref)
      BY <3>2 DEF SendInsert, Batch, StoreInv, TypeOK
    <3> QED
      BY <1>3, <3>1, <3>2
  <2>2. OfRun' = OfRun
    BY <2>1 DEF OfRun, Held
  <2> QED
    BY <2>1, <2>2 DEF KeptInv
<1>4. CASE Drain
  <2>1. OfRun' = OfRun /\ pc = "waiting" /\ pc' \in {"serving", "inserting"}
    BY <1>4 DEF Drain, OfRun, Held
  <2> QED
    BY <1>4, <2>1, KeptShrinks DEF Drain
<1>5. CASE Commit
  <2>1. OfRun' \subseteq OfRun \cup Batch
    BY <1>0, <1>5 DEF Commit, OfRun, Held
  <2>2. Batch' = Batch /\ UNCHANGED sincePrune /\ pc = "inserting" /\ pc' = "replying"
    BY <1>5 DEF Commit, Batch
  <2>3. Cardinality(OfRun) <= MaxTransactions + sincePrune
    BY <2>2 DEF KeptInv
  <2>4. Cardinality(OfRun \cup Batch) <= Cardinality(OfRun) + Cardinality(Batch)
    <3>1. Cardinality(OfRun \cap Batch) \in Nat
      BY <1>s, SizeOfIds
    <3>2. Cardinality(OfRun \cup Batch)
            = Cardinality(OfRun) + Cardinality(Batch) - Cardinality(OfRun \cap Batch)
      BY <1>c, FS_Union
    <3> QED
      BY <1>c, <3>1, <3>2
  <2>5. Cardinality(OfRun') <= Cardinality(OfRun \cup Batch)
    BY <1>s, <2>1, SizeOfIds
  <2>6. Cardinality(OfRun \cup Batch) \in Nat
    BY <1>s, SizeOfIds
  <2>7. Cardinality(OfRun') <= MaxTransactions + sincePrune + Cardinality(Batch)
    BY <1>0, <1>c, <2>3, <2>4, <2>5, <2>6
  <2> QED
    BY <2>2, <2>7 DEF KeptInv
<1>6. CASE Reply
  <2>1. OfRun' = OfRun /\ pc = "replying"
    BY <1>6 DEF Reply, OfRun, Held
  <2>2. \/ pc' = "pruneRows"
        \/ pc' = "serving" /\ sincePrune' = sincePrune + Cardinality(Batch)
    BY <1>6 DEF Reply
  <2> QED
    BY <1>0, <1>c, <2>1, <2>2 DEF KeptInv
<1>7. CASE PruneRows
  <2>1. OfRun' \subseteq Newest /\ Newest \in SUBSET Ids
    BY <1>7, PrunedFit DEF OfRun, Newest, Held
  <2>2. Cardinality(OfRun') <= Cardinality(Newest) /\ Cardinality(Newest) \in Nat
    BY <2>1, SizeOfIds
  <2>3. Cardinality(OfRun') <= MaxTransactions + sincePrune'
    BY <1>0, <1>c, <2>2, NewestFit
  <2>4. pc' \in {"serving", "pruneBodies"}
    BY <1>7 DEF PruneRows
  <2> QED
    BY <2>3, <2>4 DEF KeptInv
<1>8. CASE ClearRows
  <2>1. OfRun' \subseteq OfRun
    BY <1>8 DEF ClearRows, OfRun, Held, NoRow
  <2> QED
    BY <1>8, <2>1, KeptShrinks DEF ClearRows
<1>9. CASE StageFails
  BY <1>9 DEF StageFails
<1>10. CASE Quiet
  <2>1. OfRun' = OfRun /\ Batch' = Batch
    BY <1>10, QuietFrame DEF OfRun, Held, Batch
  <2>2. UNCHANGED sincePrune
    BY <1>10 DEF Quiet, SendAsk, Stage, RemoveFile, PruneBodies, PruneEnds, PruneFails,
       ServingDone, Read, ClearBodies, ClearEnds, ClearFails, Answered
  <2>3. \/ pc' = pc
        \/ pc \notin {"down", "replying", "pruneRows"} /\ pc' \notin {"down", "replying", "pruneRows"}
    BY <1>10 DEF Quiet, SendAsk, Stage, RemoveFile, PruneBodies, PruneEnds, PruneFails,
       ServingDone, Read, ClearBodies, ClearEnds, ClearFails, Answered
  <2>4. CASE pc' = pc
    BY <2>1, <2>2, <2>4 DEF KeptInv
  <2> QED
    BY <2>1, <2>2, <2>3, <2>4, KeptShrinks
<1> QED
  BY <1>1, <1>2, <1>3, <1>4, <1>5, <1>6, <1>7, <1>8, <1>9, <1>10, Steps

\* Within a run without failures, whatever its batches, clears and prunes, the
\* writer waits with no more rows of the run than the cap and what comes before
\* the next prune.
THEOREM RetentionTheorem == Spec => []RetentionInRun
<1>1. StoreInv /\ KeptInv => RetentionInRun
  <2> SUFFICES ASSUME StoreInv, KeptInv, pc = "waiting", ~Faults
               PROVE  Cardinality(OfRun) < MaxTransactions + PruneEvery
    BY DEF RetentionInRun, OfRun
  <2>1. OfRun \in SUBSET Ids
    BY DEF OfRun, Held
  <2>2. Cardinality(OfRun) \in Nat
    BY <2>1, SizeOfIds
  <2> QED
    BY <2>2, BoundsAssumption DEF KeptInv, StoreInv, TypeOK
<1>2. StoreInv /\ StoreInv' /\ KeptInv /\ [Next]_vars => KeptInv'
  <2>1. ASSUME KeptInv, UNCHANGED vars PROVE KeptInv'
    BY <2>1 DEF vars, memory, disk, KeptInv, OfRun, Held, Batch
  <2> QED
    BY <2>1, KeptStep
<1> QED
  BY <1>1, <1>2, KeptInit, InvTheorem, PTL DEF Spec

-----------------------------------------------------------------------------
(* Calls of insert *)

\* An insert that has been sent and not answered is in the channel, once, or in
\* the batch that the writer is working on.
CallsHeld ==
    \A i \in Ids :
        /\ call[i] = "queued" =>
              \E p \in 1..Len(chan) : \A q \in 1..Len(chan) : chan[q] = InsertOf(i) <=> q = p
        /\ call[i] = "taken" => pc \in {"inserting", "replying"}

\* While the process lives no call of insert is lost, whatever fails: what
\* CallsAnswered waits for is still with the writer (StoreHandle::call,
\* writer_loop).
THEOREM CallsTheorem == Spec => []CallsHeld
<1>1. StoreInv /\ ClearInv => CallsHeld
  <2> SUFFICES ASSUME StoreInv, ClearInv, NEW i \in Ids
               PROVE  /\ call[i] = "queued" =>
                            \E p \in 1..Len(chan) :
                               \A q \in 1..Len(chan) : chan[q] = InsertOf(i) <=> q = p
                      /\ call[i] = "taken" => pc \in {"inserting", "replying"}
    BY DEF CallsHeld
  <2>1. ASSUME call[i] = "queued"
        PROVE  \E p \in 1..Len(chan) :
                  \A q \in 1..Len(chan) : chan[q] = InsertOf(i) <=> q = p
    <3>1. PICK p \in 1..Len(chan) : chan[p] = InsertOf(i)
      BY <2>1 DEF ClearInv, WaitingInv
    <3>2. ASSUME NEW q \in 1..Len(chan), chan[q] = InsertOf(i) PROVE q = p
      BY <3>1, <3>2 DEF StoreInv, QueueInv, InsertOf
    <3> QED
      BY <3>1, <3>2
  <2>2. ASSUME call[i] = "taken" PROVE pc \in {"inserting", "replying"}
    BY <2>2 DEF StoreInv, PhaseInv, Batch
  <2> QED
    BY <2>1, <2>2
<1> QED
  BY <1>1, InvTheorem, ClearHolds, PTL

\* A call that is under way is not forgotten while the process lives.
LEMMA NoneFreed ==
    ASSUME StoreInv, [Next]_vars, pc' # "down", NEW i \in Ids, call[i] # "free"
    PROVE  call'[i] # "free"
<1>0. call \in [Ids -> Calls]
  BY DEF StoreInv, TypeOK
<1>1. CASE Drain \/ Reply \/ Begin \/ \E j \in Ids, ref \in Refs : SendInsert(j, ref)
  BY <1>0, <1>1 DEF Drain, Reply, Settle, Begin, SendInsert
<1>2. CASE Crash
  BY <1>2 DEF Crash
<1>3. CASE Quiet \/ StageFails \/ Commit \/ ClearRows \/ Open \/ PruneRows \/ UNCHANGED vars
  <2>1. call' = call
    BY <1>3, QuietFrame DEF StageFails, Commit, ClearRows, Open, PruneRows, memory, vars
  <2> QED
    BY <2>1
<1> QED
  BY <1>1, <1>2, <1>3, Steps

\* A call goes from the channel to a batch and from there to its answer, and
\* keeps the answer it got.
CallsGoOn ==
    [][pc' = "down" \/ \A i \in Ids :
          /\ call[i] = "queued" => call'[i] \in {"queued", "taken"}
          /\ call[i] = "taken"  => call'[i] \in {"taken", "stored", "refused"}
          /\ call[i] \in {"stored", "refused"} => call'[i] = call[i]]_vars

\* Unless the process dies each call is answered at most once, out of the batch
\* that took it (writer_loop).
THEOREM GoOnTheorem == Spec => CallsGoOn
<1> DEFINE Goes(i) == /\ call[i] = "queued" => call'[i] \in {"queued", "taken"}
                      /\ call[i] = "taken"  => call'[i] \in {"taken", "stored", "refused"}
                      /\ call[i] \in {"stored", "refused"} => call'[i] = call[i]
<1>1. ASSUME StoreInv, Next, pc' # "down", NEW i \in Ids PROVE Goes(i)
  <2>0. call \in [Ids -> Calls] /\ nextId \in Nat
    BY <1>1, BoundsAssumption DEF StoreInv, TypeOK
  <2>1. CASE Reply
    BY <2>0, <2>1 DEF Reply, Settle, Batch
  <2>2. CASE Quiet \/ StageFails \/ Commit \/ ClearRows \/ Open
    <3>1. call' = call
      BY <2>2, QuietFrame DEF StageFails, Commit, ClearRows, Open, memory
    <3> QED
      BY <3>1
  <2>3. CASE PruneRows
    <3>1. call' = call
      BY <2>3 DEF PruneRows
    <3> QED
      BY <3>1
  <2>4. CASE Crash
    BY <1>1, <2>4 DEF Crash
  <2>5. CASE Begin
    <3>1. call[nextId] = "free" /\ nextId \in Ids
      BY <1>1, <2>5 DEF Begin, StoreInv, IdInv, Ids
    <3>2. i = nextId \/ call'[i] = call[i]
      BY <2>0, <2>5 DEF Begin
    <3> QED
      BY <3>1, <3>2
  <2>6. CASE \E j \in Ids, ref \in Refs : SendInsert(j, ref)
    BY <2>0, <2>6 DEF SendInsert
  <2>7. CASE Drain
    <3> DEFINE k == SmallerOf(Len(chan), BatchCap)
               batch == {j \in Ids : \E p \in 1..k : chan[p] = InsertOf(j)}
    <3>1. call'[i] = IF i \in batch THEN "taken" ELSE call[i]
      BY <2>7 DEF Drain, InsertOf
    <3>2. i \in batch => call[i] = "queued"
      <4>1. ASSUME NEW p \in 1..k, chan[p] = InsertOf(i) PROVE call[i] = "queued"
        <5>1. p \in 1..Len(chan)
          BY <1>1, BoundsAssumption DEF StoreInv, TypeOK, SmallerOf
        <5> QED
          BY <1>1, <4>1, <5>1 DEF StoreInv, QueueInv, InsertOf
      <4> QED
        BY <4>1
    <3> QED
      BY <3>1, <3>2
  <2> QED
    BY <1>1, <2>1, <2>2, <2>3, <2>4, <2>5, <2>6, <2>7, Steps
<1>2. StoreInv /\ [Next]_vars => [pc' = "down" \/ \A i \in Ids : Goes(i)]_vars
  <2> HIDE DEF Goes
  <2> QED
    BY <1>1
<1> QED
  BY <1>2, InvTheorem, PTL DEF Spec, CallsGoOn
=============================================================================
