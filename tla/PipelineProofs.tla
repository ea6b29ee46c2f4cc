--------------------------- MODULE PipelineProofs ---------------------------
(***************************************************************************)
(* The capture pipeline over the store: the pipeline uses the store as     *)
(* module Store says it is used, so what StoreProofs shows holds here; a   *)
(* capture is the beginning of its body, for every limit and every cut     *)
(* into frames; and what the view is answered is what was captured.        *)
(*                                                                         *)
(* The invariant follows a body from its guard to the capture, from the    *)
(* capture to the place the store keeps it in, and an announcement back to *)
(* the store's answer.                                                     *)
(***************************************************************************)
EXTENDS Pipeline, StoreProofs, SequenceTheorems

-----------------------------------------------------------------------------
(* The pipeline and the store *)

LEMMA RefOfType == \A n : RefOf(n) \in Refs
BY DEF RefOf, Refs

\* Every step of the pipeline is a step of the store, or none of its.
LEMMA StepIsStores == [PNext]_pvars => [Next]_vars
<1> SUFFICES ASSUME [PNext]_pvars PROVE [Next]_vars
  OBVIOUS
<1>1. CASE Launch \/ Dies \/ Handle \/ WriterStep
  BY <1>1 DEF Launch, Dies, Handle, WriterStep, Next
<1>2. ASSUME NEW i \in Ids, NEW k \in 0..MaxFrame, Frame(i, k) PROVE UNCHANGED vars
  BY <1>2 DEF Frame
<1>3. ASSUME NEW i \in Ids, BodyEnds(i) \/ Announce(i) PROVE UNCHANGED vars
  BY <1>3 DEF BodyEnds, Announce
<1>4. ASSUME NEW i \in Ids, Record(i) PROVE Next
  BY <1>4, RefOfType DEF Record, Next
<1>5. CASE AskClear \/ \E i \in Ids : AskGet(i)
  BY <1>5 DEF AskClear, AskGet, Next
<1>6. CASE UNCHANGED pvars
  BY <1>6 DEF pvars
<1> QED
  BY <1>1, <1>2, <1>3, <1>4, <1>5, <1>6 DEF PNext, Finalize

\* The pipeline uses the store as Store says it is used.
THEOREM PipelineImplementsTheorem == PSpec => Spec
<1>1. PInit => Init
  BY DEF PInit
<1> QED
  BY <1>1, StepIsStores, PTL DEF PSpec, Spec

\* So what StoreProofs proves of the store holds of it in the pipeline: rows keep
\* their bodies, ids order runs, clears stay final, a run keeps to the cap, and no
\* call of insert is lost.
THEOREM PipelineStoreTheorem ==
    PSpec => [](/\ RowBodyIntact /\ OrderAcrossRuns /\ ClearIsFinal /\ RetentionInRun
                /\ CallsHeld)
BY PipelineImplementsTheorem, RowBodyTheorem, OrderTheorem, ClearTheorem, RetentionTheorem,
   CallsTheorem, PTL

-----------------------------------------------------------------------------
(* The tee *)

Guard == [buf : Seq(Nat), total : Nat, truncated : BOOLEAN, limit : Nat]

Good(g, n) == IsPrefix(g.buf, g.total, g.truncated, n, g.limit)

LEMMA NewTeeGood ==
    ASSUME NEW limit \in Nat
    PROVE  NewTee(limit) \in Guard /\ NewTee(limit).limit = limit /\ Good(NewTee(limit), 0)
<1>1. Prefix(0) = <<>>
  BY DEF Prefix
<1>2. 0 <= limit /\ ~(0 > limit)
  OBVIOUS
<1>3. NewTee(limit) \in Guard /\ NewTee(limit).limit = limit
  BY DEF NewTee, Guard
<1> QED
  BY <1>1, <1>2, <1>3 DEF NewTee, Good, IsPrefix

\* However long the next frame is, the capture stays the beginning of the body.
LEMMA PushGood ==
    ASSUME NEW g \in Guard, NEW n \in Nat, NEW k \in Nat, Good(g, n)
    PROVE  LET h == Push(g, [p \in 1..k |-> n + p])
           IN  h \in Guard /\ h.limit = g.limit /\ Good(h, n + k)
<1> DEFINE data == [p \in 1..k |-> n + p]
           room == IF g.limit > Len(g.buf) THEN g.limit - Len(g.buf) ELSE 0
           fits == room >= Len(data)
           j    == IF fits THEN Len(data) ELSE room
           h    == Push(g, data)
           size == IF n <= g.limit THEN n ELSE g.limit
           more == IF n + k <= g.limit THEN n + k ELSE g.limit
<1>1. g.limit \in Nat /\ g.total = n /\ (g.truncated <=> n > g.limit) /\ g.buf = Prefix(size)
  BY DEF Good, IsPrefix, Guard
<1>2. size \in Nat /\ more \in Nat
  BY <1>1
<1>3. Len(g.buf) = size /\ g.buf \in Seq(Nat) /\ \A q \in 1..size : g.buf[q] = q
  BY <1>1, <1>2 DEF Prefix
<1>4. data \in Seq(Nat) /\ Len(data) = k /\ \A p \in 1..k : data[p] = n + p
  OBVIOUS
<1> HIDE DEF data
<1>5. j \in 0..k /\ size + j = more /\ (j > 0 => size = n) /\ (~fits <=> n + k > g.limit /\ k > 0)
  <2>1. g.limit \in Nat /\ size <= g.limit /\ room = g.limit - size
    BY <1>1, <1>2, <1>3
  <2> HIDE DEF room
  <2>2. fits <=> g.limit - size >= k
    BY <1>4, <2>1
  <2>3. CASE n <= g.limit
    BY <1>4, <2>1, <2>2, <2>3
  <2>4. CASE n > g.limit
    BY <1>4, <2>1, <2>2, <2>4
  <2> QED
    BY <1>1, <2>3, <2>4
<1>6. /\ h.buf = g.buf \o SubSeq(data, 1, j)
      /\ h.total = n + k
      /\ h.truncated = (g.truncated \/ ~fits)
      /\ h.limit = g.limit
  BY <1>1, <1>4 DEF Push, Guard
<1> DEFINE part == SubSeq(data, 1, j)
<1>7. part \in Seq(Nat) /\ Len(part) = j /\ \A p \in 1..j : part[p] = n + p
  <2> HIDE DEF j
  <2> QED
    BY <1>4, <1>5
<1> HIDE DEF j, h, size, more, part
<1>8. h.buf = Prefix(more)
  <2>1. /\ h.buf \in Seq(Nat) /\ Len(h.buf) = more
        /\ \A q \in 1..more : h.buf[q] = IF q <= size THEN g.buf[q] ELSE part[q - size]
    <3>1. h.buf = g.buf \o part
      BY <1>6 DEF part
    <3>2. /\ g.buf \o part \in Seq(Nat)
          /\ Len(g.buf \o part) = Len(g.buf) + Len(part)
          /\ \A q \in 1..Len(g.buf) + Len(part) :
                (g.buf \o part)[q] = IF q <= Len(g.buf) THEN g.buf[q] ELSE part[q - Len(g.buf)]
      BY <1>3, <1>7, ConcatProperties
    <3>3. Len(g.buf) + Len(part) = more
      BY <1>3, <1>5, <1>7
    <3> QED
      BY <1>3, <3>1, <3>2, <3>3
  <2>2. Prefix(more) \in Seq(Nat) /\ Len(Prefix(more)) = more
    BY <1>2 DEF Prefix
  <2>3. ASSUME NEW q \in 1..more PROVE h.buf[q] = Prefix(more)[q]
    <3>0. Prefix(more)[q] = q
      BY DEF Prefix
    <3>1. CASE q <= size
      BY <1>2, <1>3, <2>1, <3>0, <3>1
    <3>2. CASE q > size
      <4>1. q - size \in 1..j /\ size = n
        BY <1>2, <1>5, <3>2
      <4> QED
        BY <1>2, <1>7, <2>1, <3>0, <3>2, <4>1
    <3> QED
      BY <1>2, <3>1, <3>2
  <2> QED
    BY <2>1, <2>2, <2>3, SeqEqual
<1>9. h.truncated <=> n + k > g.limit
  <2>1. n + k > g.limit <=> n > g.limit \/ (n + k > g.limit /\ k > 0)
    BY <1>1
  <2> HIDE DEF fits
  <2> QED
    BY <1>1, <1>5, <1>6, <2>1
<1>10. h \in Guard
  <2>1. g.buf \o part \in Seq(Nat) /\ n + k \in Nat
    BY <1>3, <1>7, ConcatProperties
  <2>2. h = [g EXCEPT !.buf = @ \o part, !.total = @ + k, !.truncated = @ \/ ~fits]
    BY <1>4 DEF Push, h, part, j
  <2> HIDE DEF fits
  <2> QED
    BY <1>1, <2>1, <2>2 DEF Guard
<1> QED
  BY <1>6, <1>8, <1>9, <1>10 DEF Good, IsPrefix, data, h, more

-----------------------------------------------------------------------------
(* Captures *)

Capture == [bytes : Bytes, total : Nat, truncated : BOOLEAN]

\* A guard has seen just what went through, and a capture is what it delivered.
TeeInv ==
    /\ flow \in [Ids -> 0..MaxBytes]
    /\ tee \in [Ids -> Guard]
    /\ \A i \in Ids : tee[i].limit = CaptureLimit /\ Good(tee[i], flow[i])
    /\ over \subseteq Ids
    /\ captured \in [Ids -> Capture]
    /\ \A i \in over : captured[i] = Captured(tee[i])

LEMMA GoodBytes ==
    ASSUME NEW g \in Guard, g.limit = CaptureLimit, NEW n \in 0..MaxBytes, Good(g, n)
    PROVE  Captured(g) \in Capture
<1> DEFINE m == IF n <= CaptureLimit THEN n ELSE CaptureLimit
<1>1. m \in 0..CaptureLimit /\ m <= MaxBytes
  BY PipelineAssumption
<1>2. g.buf = Prefix(m)
  BY DEF Good, IsPrefix
<1> HIDE DEF m
<1>3. Prefix(m) \in [1..m -> 1..MaxBytes]
  BY <1>1, PipelineAssumption DEF Prefix
<1>4. g.buf \in Bytes
  BY <1>1, <1>2, <1>3 DEF Bytes
<1> QED
  BY <1>4 DEF Captured, Capture, Guard

LEMMA NothingIsCapture == Nothing \in Capture
<1>1. 0 \in 0..MaxBytes /\ CaptureLimit \in Nat
  BY PipelineAssumption
<1> QED
  BY <1>1, NewTeeGood, GoodBytes DEF Nothing

LEMMA BytesAreSequences ==
    ASSUME NEW b \in Bytes
    PROVE  Len(b) \in Nat /\ (Len(b) = 0 => b = <<>>)
<1>1. PICK k \in 0..CaptureLimit : b \in [1..k -> 1..MaxBytes]
  BY DEF Bytes
<1>2. k \in Nat /\ Len(b) = k
  BY <1>1, PipelineAssumption
<1> QED
  BY <1>1, <1>2

LEMMA TeeInvInit == PInit => TeeInv
<1> SUFFICES ASSUME PInit PROVE TeeInv
  OBVIOUS
<1>1. 0 \in 0..MaxBytes /\ CaptureLimit \in Nat
  BY PipelineAssumption
<1> QED
  BY <1>1, NewTeeGood, NothingIsCapture DEF PInit, TeeInv

LEMMA TeeInvNext == TypeOK /\ TeeInv /\ [PNext]_pvars => TeeInv'
<1> SUFFICES ASSUME TypeOK, TeeInv, [PNext]_pvars PROVE TeeInv'
  OBVIOUS
<1> USE DEF TeeInv, wire
<1>0. /\ 0 \in 0..MaxBytes /\ CaptureLimit \in Nat /\ MaxFrame \in Nat /\ MaxBytes \in Nat
      /\ 0..MaxBytes \subseteq Nat /\ 0..MaxFrame \subseteq Nat
  BY PipelineAssumption
<1>1. CASE UNCHANGED wire
  BY <1>1
<1>2. CASE Handle
  <2>1. nextId \in Ids
    BY <1>2 DEF Handle, Begin
  <2>2. /\ NewTee(CaptureLimit) \in Guard /\ NewTee(CaptureLimit).limit = CaptureLimit
        /\ Good(NewTee(CaptureLimit), 0)
        /\ Captured(NewTee(CaptureLimit)) \in Capture
    BY <1>0, NewTeeGood, NothingIsCapture DEF Nothing
  <2> QED
    BY <1>0, <1>2, <2>1, <2>2 DEF Handle, Nothing
<1>3. ASSUME NEW i \in Ids, NEW k \in 0..MaxFrame, Frame(i, k) PROVE TeeInv'
  <2> DEFINE g == Push(tee[i], [p \in 1..k |-> flow[i] + p])
  <2>1. flow[i] \in Nat /\ k \in Nat /\ flow[i] + k \in 0..MaxBytes
    BY <1>0, <1>3 DEF Frame
  <2>2. g \in Guard /\ g.limit = CaptureLimit /\ Good(g, flow[i] + k)
    BY <2>1, PushGood
  <2>3. i \notin over /\ flow' = [flow EXCEPT ![i] = @ + k] /\ tee' = [tee EXCEPT ![i] = g]
          /\ UNCHANGED <<over, captured>>
    BY <1>3 DEF Frame, Flowing
  <2> HIDE DEF g
  <2> QED
    BY <2>1, <2>2, <2>3
<1>4. ASSUME NEW i \in Ids, BodyEnds(i) PROVE TeeInv'
  <2>1. Captured(tee[i]) \in Capture
    BY GoodBytes
  <2> QED
    BY <1>4, <2>1 DEF BodyEnds
<1>5. ASSUME NEW i \in Ids, Finalize(i) \/ AskGet(i) PROVE TeeInv'
  BY <1>1, <1>5 DEF Finalize, Record, Announce, AskGet, pipe
<1>6. CASE Launch \/ AskClear \/ WriterStep
  BY <1>1, <1>6 DEF Launch, AskClear, WriterStep, pipe
<1>7. CASE Dies
  BY <1>7 DEF Dies
<1>8. CASE UNCHANGED pvars
  BY <1>1, <1>8 DEF pvars, pipe
<1> QED
  BY <1>2, <1>3, <1>4, <1>5, <1>6, <1>7, <1>8 DEF PNext

\* For every limit, every body and every way it is cut into frames and ends, the
\* capture is its beginning, and is marked exactly if it is not all of it.
THEOREM CaptureIsPrefixTheorem == PSpec => []CaptureIsPrefix
<1>1. TeeInv => CaptureIsPrefix
  <2> SUFFICES ASSUME TeeInv, NEW i \in Ids
               PROVE  LET P(c) == IsPrefix(c.bytes, c.total, c.truncated, flow[i], CaptureLimit)
                      IN  P(Captured(tee[i])) /\ (i \in over => P(captured[i]))
    BY DEF CaptureIsPrefix, Captured
  <2>1. Good(tee[i], flow[i]) /\ tee[i].limit = CaptureLimit
    BY DEF TeeInv
  <2>2. IsPrefix(tee[i].buf, tee[i].total, tee[i].truncated, flow[i], CaptureLimit)
    BY <2>1 DEF Good
  <2>3. i \in over => captured[i] = Captured(tee[i])
    BY DEF TeeInv
  <2> QED
    BY <2>2, <2>3 DEF Captured
<1> QED
  BY <1>1, TeeInvInit, TeeInvNext, PipelineImplementsTheorem, TypeTheorem, PTL DEF PSpec

-----------------------------------------------------------------------------
(* Answers *)

\* The store keeps a capture where its length says.
PlaceInv ==
    \A i \in Ids :
        /\ call[i] \in {"queued", "taken"} => body[i] = RefOf(Len(captured[i].bytes))
        /\ i \in Held => rows[i].ref = RefOf(Len(captured[i].bytes))

\* What was announced is in the table, was refused, or was removed.
ToldInv ==
    /\ announced \subseteq Ids
    /\ removed \subseteq Ids
    /\ wanted \in [Asks -> [id : 0..MaxId, announced : BOOLEAN]]
    /\ got \in [Asks -> [answered : BOOLEAN, found : BOOLEAN, bytes : Bytes]]
    /\ \A i \in announced : call[i] \in {"stored", "refused"}
    /\ \A i \in Ids : call[i] = "stored" => i \in Held \/ i \in removed
    /\ \A n \in Asks : wanted[n].announced => wanted[n].id \in announced

PipeInv == StoreInv /\ TeeInv /\ PlaceInv /\ ToldInv

LEMMA EmptyBytes == <<>> \in Bytes
<1>1. 0 \in 0..CaptureLimit /\ <<>> \in [1..0 -> 1..MaxBytes]
  BY PipelineAssumption
<1> QED
  BY <1>1 DEF Bytes

\* A row's own capture is what is loaded for it.
LEMMA LoadsOwn ==
    ASSUME PipeInv, NEW i \in Held
    PROVE  LoadBody(i) = captured[i].bytes
<1> DEFINE n == Len(captured[i].bytes)
<1>1. /\ i \in Ids /\ rows[i].run # 0 /\ rows[i].ref = RefOf(n)
      /\ captured[i].bytes \in Bytes
  BY DEF PipeInv, PlaceInv, TeeInv, Capture, Held
<1>2. n \in Nat /\ (n = 0 => captured[i].bytes = <<>>)
  BY <1>1, BytesAreSequences
<1>3. RefOf(n) = "none" <=> n = 0
  BY <1>2 DEF RefOf
<1>4. /\ rows[i].ref = "inline" => bodies[i] = rows[i].run
      /\ rows[i].ref = "file"   => files[i] = rows[i].run
  BY DEF PipeInv, StoreInv, RowBodyIntact
<1>5. rows[i].ref \in {"none", "inline", "file"}
  BY <1>1, RefOfType DEF Refs
<1> QED
  BY <1>1, <1>2, <1>3, <1>4, <1>5 DEF LoadBody

LEMMA AnswersInit == PInit => PlaceInv /\ ToldInv
<1> SUFFICES ASSUME PInit PROVE PlaceInv /\ ToldInv
  OBVIOUS
<1>1. PlaceInv
  BY DEF PInit, Init, PlaceInv, Held, NoRow
<1>2. 0 \in 0..MaxId
  BY BoundsAssumption
<1> QED
  BY <1>1, <1>2, EmptyBytes DEF PInit, Init, ToldInv, NoWish, NoAnswer

\* The writer moves captures to their places, and forgets no row unnoticed.
LEMMA WriterSteps ==
    ASSUME Writer
    PROVE  Drain \/ StageFails \/ Commit \/ Reply \/ PruneRows \/ ClearRows \/ Quiet
BY DEF Writer, Quiet

LEMMA WriterKeepsPlaces ==
    ASSUME PipeInv, Writer, UNCHANGED captured
    PROVE  PlaceInv'
<1> USE DEF PipeInv, PlaceInv, Held
<1>0. /\ call \in [Ids -> Calls] /\ body \in [Ids -> Refs]
      /\ rows \in [Ids -> [run : 0..MaxRuns, ref : Refs]]
  BY DEF StoreInv, TypeOK
<1>1. CASE Drain
  <2>1. /\ UNCHANGED <<body, rows>>
        /\ \A i \in Ids : call'[i] \in {"queued", "taken"} => call[i] \in {"queued", "taken"}
    <3>1. \A p \in 1..Len(chan) : chan[p].op = "insert" => call[chan[p].n] = "queued"
      BY DEF StoreInv, QueueInv
    <3>2. Len(chan) \in Nat
      BY DEF StoreInv, TypeOK
    <3>3. ASSUME NEW i \in Ids, call'[i] # call[i] PROVE call[i] = "queued"
      <4>1. PICK p \in 1..SmallerOf(Len(chan), BatchCap) : chan[p] = [op |-> "insert", n |-> i]
        BY <1>1, <3>3 DEF Drain
      <4>2. p \in 1..Len(chan)
        BY <3>2, BoundsAssumption DEF SmallerOf
      <4> QED
        BY <3>1, <4>1, <4>2
    <3> QED
      BY <1>1, <3>3 DEF Drain, disk
  <2> QED
    BY <2>1
<1>2. CASE StageFails \/ Quiet
  BY <1>2, QuietFrame DEF StageFails
<1>3. CASE Commit
  BY <1>0, <1>3 DEF Commit, Batch
<1>4. CASE Reply
  BY <1>0, <1>4 DEF Reply, Settle, Batch, disk
<1>5. CASE PruneRows
  <2>1. UNCHANGED <<call, body>> /\ \A i \in Ids : rows'[i] \in {rows[i], NoRow}
    BY <1>5 DEF PruneRows
  <2> QED
    BY <2>1 DEF NoRow
<1>6. CASE ClearRows
  BY <1>6 DEF ClearRows, NoRow, memory
<1> QED
  BY <1>1, <1>2, <1>3, <1>4, <1>5, <1>6, WriterSteps

LEMMA WriterKeepsWord ==
    ASSUME PipeInv, WriterStep
    PROVE  /\ \A i \in Ids : call[i] \in {"stored", "refused"} => call'[i] = call[i]
           /\ \A i \in Ids : call'[i] = "stored" => i \in Held' \/ i \in removed'
<1> USE DEF PipeInv, ToldInv, Held
<1>0. /\ call \in [Ids -> Calls] /\ Writer
      /\ removed' = removed \cup {i \in Ids : rows[i].run # 0 /\ rows'[i].run = 0}
  BY DEF StoreInv, TypeOK, WriterStep
<1>1. ASSUME \A i \in Ids : call'[i] # call[i] => call[i] \in {"queued", "taken"},
             \A i \in Ids : call'[i] # call[i] => call'[i] # "stored" \/ rows'[i].run # 0
      PROVE  /\ \A i \in Ids : call[i] \in {"stored", "refused"} => call'[i] = call[i]
             /\ \A i \in Ids : call'[i] = "stored" => i \in Held' \/ i \in removed'
  BY <1>0, <1>1
<1>2. CASE Drain
  <2>1. ASSUME NEW i \in Ids, call'[i] # call[i] PROVE call[i] = "queued" /\ call'[i] = "taken"
    <3>1. \A p \in 1..Len(chan) : chan[p].op = "insert" => call[chan[p].n] = "queued"
      BY DEF StoreInv, QueueInv
    <3>2. Len(chan) \in Nat
      BY DEF StoreInv, TypeOK
    <3>3. PICK p \in 1..SmallerOf(Len(chan), BatchCap) : chan[p] = [op |-> "insert", n |-> i]
      BY <1>2, <2>1 DEF Drain
    <3>4. p \in 1..Len(chan)
      BY <3>2, BoundsAssumption DEF SmallerOf
    <3> QED
      BY <1>2, <2>1, <3>1, <3>3, <3>4 DEF Drain
  <2> QED
    BY <1>1, <2>1
<1>3. CASE StageFails \/ Commit \/ ClearRows \/ Quiet
  <2>1. UNCHANGED call
    BY <1>3, QuietFrame DEF StageFails, Commit, ClearRows, memory
  <2> QED
    BY <1>1, <2>1
<1>4. CASE PruneRows
  <2>1. UNCHANGED call
    BY <1>4 DEF PruneRows
  <2> QED
    BY <1>1, <2>1
<1>5. CASE Reply
  <2>1. /\ rows' = rows /\ pc = "replying" /\ run # 0
        /\ result \in {"ok", "error"}
        /\ \A i \in Ids : call'[i] = IF call[i] = "taken"
                                     THEN IF result = "ok" THEN "stored" ELSE "refused"
                                     ELSE call[i]
    BY <1>5 DEF Reply, Settle, Batch, disk, StoreInv, TypeOK, PhaseInv
  <2>2. \A i \in Ids : call[i] = "taken" /\ result = "ok" => rows[i].run = run
    BY <2>1 DEF StoreInv, RowInv
  <2> QED
    BY <1>1, <2>1, <2>2
<1> QED
  BY <1>0, <1>2, <1>3, <1>4, <1>5, WriterSteps

\* What a read is answered: the row's own capture if there is a row.
LEMMA ReadAnswers ==
    ASSUME PipeInv, WriterStep, NEW n \in Asks, got'[n] # got[n]
    PROVE  got'[n] = Detail(wanted[n].id)
<1>1. got \in [Asks -> [answered : BOOLEAN, found : BOOLEAN, bytes : Bytes]]
  BY DEF PipeInv, ToldInv
<1>2. got' # got /\ got' = [got EXCEPT ![NextAsk.n] = Detail(wanted[NextAsk.n].id)]
  BY DEF WriterStep
<1>3. n = NextAsk.n
  BY <1>1, <1>2
<1> QED
  BY <1>1, <1>2, <1>3

LEMMA DetailType ==
    ASSUME PipeInv, NEW i
    PROVE  Detail(i) \in [answered : BOOLEAN, found : BOOLEAN, bytes : Bytes]
<1>1. ASSUME i \in Held PROVE LoadBody(i) \in Bytes
  BY <1>1, LoadsOwn DEF PipeInv, TeeInv, Capture, Held
<1> QED
  BY <1>1, EmptyBytes DEF Detail

LEMMA AnswersNext == PipeInv /\ [PNext]_pvars => PlaceInv' /\ ToldInv'
<1> SUFFICES ASSUME PipeInv, [PNext]_pvars PROVE PlaceInv' /\ ToldInv'
  OBVIOUS
<1> USE DEF PipeInv, PlaceInv, ToldInv, Held, wire, views, pipe
<1>0. /\ call \in [Ids -> Calls] /\ body \in [Ids -> Refs] /\ captured \in [Ids -> Capture]
      /\ Ids \subseteq 0..MaxId /\ 0 \in 0..MaxId
  BY BoundsAssumption DEF StoreInv, TypeOK, TeeInv, Ids
<1>1. CASE UNCHANGED <<vars, captured, views>>
  BY <1>1 DEF vars, memory, disk
<1>2. CASE Launch
  BY <1>2 DEF Launch, Open, memory, disk
<1>3. CASE Dies
  BY <1>0, <1>3, EmptyBytes DEF Dies, Crash, NoWish, NoAnswer
<1>4. CASE Handle
  <2>1. /\ nextId \in Ids /\ call[nextId] = "free" /\ nextId \notin Held
        /\ call' = [call EXCEPT ![nextId] = "active"]
        /\ UNCHANGED <<body, rows>>
    <3>1. nextId \in Ids /\ nextId \in Int /\ ~(nextId < nextId) /\ pc # "down"
      BY <1>4 DEF Handle, Begin, Ids
    <3> QED
      BY <1>4, <3>1 DEF Handle, Begin, StoreInv, IdInv, disk
  <2>2. nextId \notin announced
    BY <2>1
  <2>3. /\ \A i \in Ids \ {nextId} : captured'[i] = captured[i] /\ call'[i] = call[i]
        /\ call'[nextId] = "active"
        /\ removed' = removed \ {nextId}
        /\ UNCHANGED <<announced, wanted, got>>
    BY <1>0, <1>4, <2>1 DEF Handle
  <2> QED
    BY <2>1, <2>2, <2>3
<1>5. ASSUME NEW i \in Ids, NEW k \in 0..MaxFrame, Frame(i, k) PROVE PlaceInv' /\ ToldInv'
  BY <1>1, <1>5 DEF Frame
<1>6. ASSUME NEW i \in Ids, BodyEnds(i) PROVE PlaceInv' /\ ToldInv'
  <2>1. call[i] = "active" /\ i \notin Held /\ UNCHANGED <<vars, views>>
           /\ \A j \in Ids \ {i} : captured'[j] = captured[j]
    BY <1>0, <1>6 DEF BodyEnds, Flowing, StoreInv, RowInv
  <2> QED
    BY <2>1 DEF vars, memory, disk
<1>7. ASSUME NEW i \in Ids, Record(i) PROVE PlaceInv' /\ ToldInv'
  <2>1. /\ call[i] = "active" /\ call' = [call EXCEPT ![i] = "queued"]
        /\ body' = [body EXCEPT ![i] = RefOf(Len(captured[i].bytes))]
        /\ UNCHANGED <<rows, pipe>>
    BY <1>7 DEF Record, SendInsert, disk
  <2> QED
    BY <1>0, <2>1
<1>8. ASSUME NEW i \in Ids, Announce(i) PROVE PlaceInv' /\ ToldInv'
  BY <1>8 DEF Announce, vars, memory, disk
<1>9. ASSUME NEW i \in Ids, AskGet(i) PROVE PlaceInv' /\ ToldInv'
  <2>1. [id |-> i, announced |-> i \in announced] \in [id : 0..MaxId, announced : BOOLEAN]
    BY <1>0
  <2>2. /\ UNCHANGED <<call, body, rows, captured, announced, removed, got>>
        /\ wanted' = [wanted EXCEPT ![asked + 1] = [id |-> i, announced |-> i \in announced]]
    BY <1>9 DEF AskGet, SendAsk, disk
  <2> QED
    BY <2>1, <2>2
<1>10. CASE AskClear
  BY <1>10 DEF AskClear, SendAsk, disk
<1>11. CASE WriterStep
  <2>1. UNCHANGED <<captured, announced, wanted>> /\ Writer
    BY <1>11 DEF WriterStep
  <2>2. PlaceInv'
    BY <2>1, WriterKeepsPlaces
  <2>3. removed' \subseteq Ids
    BY <1>11 DEF WriterStep
  <2>4. got' \in [Asks -> [answered : BOOLEAN, found : BOOLEAN, bytes : Bytes]]
    <3>1. got' = got \/ got' = [got EXCEPT ![NextAsk.n] = Detail(wanted[NextAsk.n].id)]
      BY <1>11 DEF WriterStep
    <3>2. Detail(wanted[NextAsk.n].id) \in [answered : BOOLEAN, found : BOOLEAN, bytes : Bytes]
      BY DetailType
    <3> QED
      BY <3>1, <3>2
  <2>5. \A i \in announced : call'[i] \in {"stored", "refused"}
    BY <1>11, WriterKeepsWord
  <2>6. \A i \in Ids : call'[i] = "stored" => i \in Held' \/ i \in removed'
    BY <1>11, WriterKeepsWord
  <2> HIDE DEF PlaceInv, Held
  <2> QED
    BY <2>1, <2>2, <2>3, <2>4, <2>5, <2>6
<1>12. CASE UNCHANGED pvars
  BY <1>1, <1>12 DEF pvars
<1> QED
  BY <1>2, <1>3, <1>4, <1>5, <1>6, <1>7, <1>8, <1>9, <1>10, <1>11, <1>12 DEF PNext, Finalize

\* The invariant of the pipeline over the store.
THEOREM PipelineTheorem == PSpec => []PipeInv
<1>1. PInit => TeeInv /\ PlaceInv /\ ToldInv
  BY TeeInvInit, AnswersInit
<1>2. StoreInv => TypeOK
  BY DEF StoreInv
<1>3. StoreInv /\ TeeInv /\ PlaceInv /\ ToldInv /\ [PNext]_pvars
         => (TeeInv /\ PlaceInv /\ ToldInv)'
  BY <1>2, TeeInvNext, AnswersNext DEF PipeInv
<1>4. PSpec => []StoreInv
  BY PipelineImplementsTheorem, InvTheorem, PTL
<1>5. PSpec => [](TeeInv /\ PlaceInv /\ ToldInv)
  BY <1>1, <1>3, <1>4, PTL DEF PSpec
<1>6. StoreInv /\ (TeeInv /\ PlaceInv /\ ToldInv) => PipeInv
  BY DEF PipeInv
<1> QED
  BY <1>4, <1>5, <1>6, PTL

\* Every variable of the pipeline keeps its type; no answer ever holds the bytes
\* of another body.
THEOREM PipelineTypeTheorem == PSpec => []PTypeOK
<1>1. PipeInv => PTypeOK
  <2> SUFFICES ASSUME PipeInv PROVE PTypeOK
    OBVIOUS
  <2>1. \A i \in Ids : Captured(tee[i]) \in Capture
    BY GoodBytes DEF PipeInv, TeeInv
  <2>2. \A i \in Ids : /\ tee[i].buf \in Bytes /\ tee[i].total \in Nat
                       /\ tee[i].truncated \in BOOLEAN
    BY <2>1 DEF Captured, Capture
  <2>3. \A i \in Ids : /\ captured[i].bytes \in Bytes /\ captured[i].total \in Nat
                       /\ captured[i].truncated \in BOOLEAN
    BY DEF PipeInv, TeeInv, Capture
  <2> QED
    BY <2>2, <2>3 DEF PipeInv, StoreInv, TeeInv, ToldInv, PTypeOK
<1> QED
  BY <1>1, PipelineTheorem, PTL

\* Whatever crashes, failures, prunes and clears come between, a request is
\* answered with what was captured, and an announced transaction is missing only
\* if the store refused it or it was removed.
THEOREM GetIsTrueTheorem == PSpec => GetIsTrue
<1>1. ASSUME PipeInv, [PNext]_pvars, NEW n \in Asks, got'[n] # got[n], got'[n].answered
      PROVE  IF got'[n].found THEN got'[n].bytes = captured[wanted[n].id].bytes
             ELSE wanted[n].announced =>
                    call[wanted[n].id] = "refused" \/ wanted[n].id \in removed
  <2>1. CASE WriterStep
    <3>1. got'[n] = Detail(wanted[n].id)
      BY <1>1, <2>1, ReadAnswers
    <3>2. got'[n].found <=> wanted[n].id \in Held
      BY <3>1 DEF Detail
    <3>3. CASE wanted[n].id \in Held
      BY <1>1, <3>1, <3>2, <3>3, LoadsOwn DEF Detail
    <3>4. CASE wanted[n].id \notin Held
      BY <1>1, <3>2, <3>4 DEF PipeInv, ToldInv
    <3> QED
      BY <3>3, <3>4
  <2>2. CASE Dies
    BY <1>1, <2>2 DEF Dies, NoAnswer
  <2>3. CASE UNCHANGED got
    BY <1>1, <2>3
  <2> QED
    BY <1>1, <2>1, <2>2, <2>3 DEF PNext, Launch, Handle, Frame, BodyEnds, Finalize, Record,
       Announce, AskGet, AskClear, pipe, views, pvars
<1>2. PipeInv /\ [PNext]_pvars =>
        [\A n \in Asks :
            LET i == wanted[n].id
            IN  got'[n] # got[n] /\ got'[n].answered =>
                  IF got'[n].found THEN got'[n].bytes = captured[i].bytes
                  ELSE wanted[n].announced =>
                          call[i] = "refused" \/ i \in removed]_pvars
  BY <1>1
<1> QED
  BY <1>2, PipelineTheorem, PTL DEF PSpec, GetIsTrue

\* What was announced as completed is in the table, with the bytes captured of it,
\* unless the store refused it or it was removed.
AnnouncedIsHeld ==
    \A i \in announced :
        \/ call[i] = "refused"
        \/ i \in removed
        \/ i \in Held /\ LoadBody(i) = captured[i].bytes

\* So a request that comes at any later time finds it (finish_transaction announces
\* after the store's reply; load_body).
THEOREM AnnouncedTheorem == PSpec => []AnnouncedIsHeld
<1>1. PipeInv => AnnouncedIsHeld
  <2> SUFFICES ASSUME PipeInv, NEW i \in announced, call[i] # "refused", i \notin removed
               PROVE  i \in Held /\ LoadBody(i) = captured[i].bytes
    BY DEF AnnouncedIsHeld
  <2>1. i \in Held
    BY DEF PipeInv, ToldInv
  <2> QED
    BY <2>1, LoadsOwn
<1> QED
  BY <1>1, PipelineTheorem, PTL

-----------------------------------------------------------------------------
(* Transactions that are over *)

\* A transaction whose body is over still has its finalize task at work: it is to
\* be sent, is with the store, or has its answer and is announced or will be.
OverIsUnderWay ==
    \A i \in over :
        \/ call[i] \in {"active", "stored", "refused"}
        \/ /\ call[i] = "queued"
           /\ \E p \in 1..Len(chan) : chan[p] = InsertOf(i)
        \/ call[i] = "taken" /\ pc \in {"inserting", "replying"}

OverInv == over \subseteq Ids /\ \A i \in over : call[i] # "free"

LEMMA OverNext == StoreInv /\ OverInv /\ [PNext]_pvars => OverInv'
<1> SUFFICES ASSUME StoreInv, OverInv, [PNext]_pvars PROVE OverInv'
  OBVIOUS
<1>1. [Next]_vars
  BY StepIsStores
<1>2. CASE Dies
  BY <1>2 DEF Dies, OverInv
<1>3. ASSUME NEW i \in Ids, BodyEnds(i) PROVE OverInv'
  BY <1>3 DEF BodyEnds, Flowing, OverInv, vars, memory
<1>4. CASE UNCHANGED <<over, call>>
  BY <1>4 DEF OverInv
<1>5. ASSUME UNCHANGED over, pc' # "down" PROVE OverInv'
  BY <1>1, <1>5, NoneFreed DEF OverInv
<1>6. CASE Launch \/ AskClear \/ UNCHANGED pvars
  BY <1>4, <1>6 DEF Launch, Open, AskClear, SendAsk, pipe, wire, pvars, vars, memory
<1>7. ASSUME NEW i \in Ids, Announce(i) \/ AskGet(i) \/ \E k \in 0..MaxFrame : Frame(i, k)
      PROVE  OverInv'
  BY <1>4, <1>7 DEF Announce, AskGet, SendAsk, Frame, wire, vars, memory
<1>8. CASE Handle
  BY <1>5, <1>8 DEF Handle, Begin
<1>9. ASSUME NEW i \in Ids, Record(i) PROVE OverInv'
  <2>1. pc # "down" /\ pc' = pc
    BY <1>9 DEF Record, SendInsert, StoreInv, DownInv
  <2> QED
    BY <1>5, <1>9, <2>1 DEF Record, pipe, wire
<1>10. CASE WriterStep
  <2>1. pc' # "down"
    BY <1>10 DEF WriterStep, Writer, Drain, Stage, StageFails, Commit, Reply, PruneRows,
       PruneBodies, RemoveFile, PruneEnds, PruneFails, ServingDone, Read, ClearRows, ClearBodies,
       ClearEnds, ClearFails
  <2> QED
    BY <1>5, <1>10, <2>1 DEF WriterStep, wire
<1> QED
  BY <1>2, <1>3, <1>6, <1>7, <1>8, <1>9, <1>10 DEF PNext, Finalize

\* Whatever fails while the process lives, no transaction that is over is forgotten
\* between the tee and the announcement (finish_transaction, StoreHandle::insert):
\* what OverIsAnnounced waits for is always on its way.
THEOREM OverTheorem == PSpec => []OverIsUnderWay
<1>1. PInit => OverInv
  BY DEF PInit, OverInv
<1>2. PSpec => []StoreInv
  BY PipelineImplementsTheorem, InvTheorem, PTL
<1>3. PSpec => []CallsHeld
  BY PipelineStoreTheorem, PTL
<1>4. PSpec => []OverInv
  BY <1>1, <1>2, OverNext, PTL DEF PSpec
<1>5. StoreInv /\ CallsHeld /\ OverInv => OverIsUnderWay
  <2> SUFFICES ASSUME StoreInv, CallsHeld, OverInv, NEW i \in over
               PROVE  \/ call[i] \in {"active", "stored", "refused"}
                      \/ /\ call[i] = "queued"
                         /\ \E p \in 1..Len(chan) : chan[p] = InsertOf(i)
                      \/ call[i] = "taken" /\ pc \in {"inserting", "replying"}
    BY DEF OverIsUnderWay
  <2>1. i \in Ids /\ call[i] # "free" /\ call[i] \in Calls
    BY DEF OverInv, StoreInv, TypeOK
  <2> QED
    BY <2>1 DEF CallsHeld, Calls
<1> QED
  BY <1>2, <1>3, <1>4, <1>5, PTL

-----------------------------------------------------------------------------
(* Recording *)

VerdictOf(i) == IF call[i] \in {"stored", "refused"} THEN call[i] ELSE "none"

\* What Recording sees of a transaction depends on its insert and announcement.
LEMMA SameStages ==
    ASSUME NEW i \in Ids, call'[i] = call[i], i \in announced' <=> i \in announced
    PROVE  StageOf(i)' = StageOf(i) /\ VerdictOf(i)' = VerdictOf(i)
BY DEF StageOf, VerdictOf

\* A step of one transaction, as Recording sees it.
LEMMA OneMoves ==
    ASSUME NEW i \in Ids, NEW t, StageOf(i)' = t, VerdictOf(i)' = VerdictOf(i),
           \A j \in Ids \ {i} : StageOf(j)' = StageOf(j) /\ VerdictOf(j)' = VerdictOf(j)
    PROVE  /\ [j \in Ids |-> StageOf(j)]' = [[j \in Ids |-> StageOf(j)] EXCEPT ![i] = t]
           /\ [j \in Ids |-> VerdictOf(j)]' = [j \in Ids |-> VerdictOf(j)]
OBVIOUS

\* A transaction is begun under an id above all that are under way.
LEMMA HandleBegins ==
    ASSUME PipeInv, Handle
    PROVE  Promise!Next
<1>1. PICK n \in Ids : n = nextId /\ call' = [call EXCEPT ![n] = "active"] /\ pc # "down"
  BY DEF Handle, Begin
<1>2. call \in [Ids -> Calls] /\ \A i \in Ids : call[i] # "free" => i < n
  BY <1>1 DEF PipeInv, StoreInv, TypeOK, IdInv
<1>3. \A j \in Ids : j >= n => call[j] = "free" /\ j \notin announced
  BY <1>2 DEF PipeInv, ToldInv, Ids
<1>4. \A j \in Ids : j >= n => StageOf(j) = "free"
  BY <1>3 DEF StageOf
<1>5. call[n] = "free" /\ n \notin announced
  BY <1>3 DEF Ids
<1>6. StageOf(n)' = "active" /\ VerdictOf(n)' = VerdictOf(n)
  BY <1>1, <1>2, <1>5 DEF Handle, StageOf, VerdictOf
<1>7. \A j \in Ids \ {n} : StageOf(j)' = StageOf(j) /\ VerdictOf(j)' = VerdictOf(j)
  BY <1>1, <1>2, SameStages DEF Handle
<1> QED
  BY <1>4, <1>6, <1>7, OneMoves DEF Promise!Next, Promise!Begin, VerdictOf

\* finish_transaction sends a transaction that is under way, and announces one
\* that has its answer.
LEMMA FinalizeMoves ==
    ASSUME PipeInv, NEW i \in Ids, Finalize(i)
    PROVE  Promise!Next
<1>0. /\ call \in [Ids -> Calls]
      /\ \A j \in announced : call[j] \in {"stored", "refused"}
  BY DEF PipeInv, StoreInv, TypeOK, ToldInv
<1>1. CASE Record(i)
  <2>1. call[i] = "active" /\ call' = [call EXCEPT ![i] = "queued"] /\ announced' = announced
    BY <1>1 DEF Record, SendInsert, pipe, views
  <2>2. i \notin announced
    BY <1>0, <2>1
  <2>3. StageOf(i) = "active" /\ StageOf(i)' = "sent" /\ VerdictOf(i)' = VerdictOf(i)
    BY <1>0, <2>1, <2>2 DEF StageOf, VerdictOf
  <2>4. \A j \in Ids \ {i} : StageOf(j)' = StageOf(j) /\ VerdictOf(j)' = VerdictOf(j)
    BY <1>0, <2>1, SameStages
  <2> QED
    BY <2>3, <2>4, OneMoves DEF Promise!Next, Promise!Send, VerdictOf
<1>2. CASE Announce(i)
  <2>1. /\ i \notin announced /\ call[i] \in {"stored", "refused"}
        /\ call' = call /\ announced' = announced \cup {i}
    BY <1>2 DEF Announce, vars, memory
  <2>2. StageOf(i) = "answered" /\ StageOf(i)' = "announced" /\ VerdictOf(i)' = VerdictOf(i)
    BY <2>1 DEF StageOf, VerdictOf
  <2>3. \A j \in Ids \ {i} : StageOf(j)' = StageOf(j) /\ VerdictOf(j)' = VerdictOf(j)
    BY <2>1, SameStages
  <2> QED
    BY <2>2, <2>3, OneMoves DEF Promise!Next, Promise!Announce, VerdictOf
<1> QED
  BY <1>1, <1>2 DEF Finalize

\* The writer answers a batch as a whole; nothing else it does can be seen.
LEMMA WriterAnswers ==
    ASSUME PipeInv, WriterStep
    PROVE  \/ Promise!Next
           \/ \A i \in Ids : StageOf(i)' = StageOf(i) /\ VerdictOf(i)' = VerdictOf(i)
<1>0. /\ call \in [Ids -> Calls] /\ announced' = announced
      /\ \A j \in announced : call[j] \in {"stored", "refused"}
  BY DEF PipeInv, StoreInv, TypeOK, ToldInv, WriterStep
<1>1. CASE Drain
  <2>1. ASSUME NEW i \in Ids, call'[i] # call[i]
        PROVE  call[i] = "queued" /\ call'[i] = "taken"
    <3>1. PICK p \in 1..Len(chan) : chan[p] = [op |-> "insert", n |-> i]
      <4>1. Len(chan) \in Nat /\ BatchCap \in Nat
        BY BoundsAssumption DEF PipeInv, StoreInv, TypeOK
      <4> QED
        BY <1>1, <2>1, <4>1 DEF Drain, SmallerOf
    <3>2. call[i] = "queued"
      BY <3>1 DEF PipeInv, StoreInv, QueueInv
    <3> QED
      BY <1>1, <2>1, <3>2 DEF Drain
  <2>2. ASSUME NEW i \in Ids
        PROVE  StageOf(i)' = StageOf(i) /\ VerdictOf(i)' = VerdictOf(i)
    <3>1. CASE call'[i] = call[i]
      BY <1>0, <3>1, SameStages
    <3>2. CASE call'[i] # call[i]
      <4>1. call[i] = "queued" /\ call'[i] = "taken" /\ i \notin announced
        BY <1>0, <2>1, <3>2
      <4> QED
        BY <1>0, <4>1 DEF StageOf, VerdictOf
    <3> QED
      BY <3>1, <3>2
  <2> QED
    BY <2>2
<1>2. CASE Reply
  <2>1. PICK v \in {"stored", "refused"} :
           call' = [i \in Ids |-> IF i \in Batch THEN v ELSE call[i]]
    BY <1>2 DEF Reply, Settle
  <2>2. Batch \in SUBSET Ids /\ \A i \in Batch : call[i] = "taken" /\ i \notin announced
    BY <1>0 DEF Batch
  <2>3. \A i \in Batch : StageOf(i) = "sent" /\ StageOf(i)' = "answered" /\ VerdictOf(i)' = v
    BY <1>0, <2>1, <2>2 DEF StageOf, VerdictOf
  <2>4. \A i \in Ids \ Batch : StageOf(i)' = StageOf(i) /\ VerdictOf(i)' = VerdictOf(i)
    BY <1>0, <2>1, SameStages
  <2> DEFINE stage   == [i \in Ids |-> StageOf(i)]
             verdict == [i \in Ids |-> VerdictOf(i)]
  <2>5. /\ \A i \in Batch : stage[i] = "sent"
        /\ stage' = [i \in Ids |-> IF i \in Batch THEN "answered" ELSE stage[i]]
        /\ verdict' = [i \in Ids |-> IF i \in Batch THEN v ELSE verdict[i]]
    BY <2>2, <2>3, <2>4
  <2>6. Promise!Answer(Batch, v)
    BY <2>5 DEF Promise!Answer, VerdictOf
  <2>7. v \in Promise!Verdicts \ {"none"}
    BY DEF Promise!Verdicts
  <2> QED
    BY <2>2, <2>6, <2>7 DEF Promise!Next
<1>3. CASE UNCHANGED call
  BY <1>0, <1>3, SameStages
<1>4. CASE StageFails \/ Commit \/ PruneRows \/ ClearRows \/ Quiet
  BY <1>3, <1>4, QuietFrame DEF StageFails, Commit, PruneRows, ClearRows, memory
<1> QED
  BY <1>1, <1>2, <1>4, WriterSteps DEF WriterStep

\* A step of the pipeline is one of Recording, or none of its.
LEMMA PipelineKeepsPromise ==
    ASSUME PipeInv, [PNext]_pvars
    PROVE  \/ Promise!Next
           \/ \A i \in Ids : StageOf(i)' = StageOf(i) /\ VerdictOf(i)' = VerdictOf(i)
<1>1. CASE UNCHANGED <<call, announced>>
  BY <1>1, SameStages
<1>2. CASE Handle
  BY <1>2, HandleBegins
<1>3. CASE \E i \in Ids : Finalize(i)
  BY <1>3, FinalizeMoves
<1>4. CASE WriterStep
  BY <1>4, WriterAnswers
<1>5. CASE Dies
  <2>1. \A i \in Ids : StageOf(i)' = "free" /\ VerdictOf(i)' = "none"
    BY <1>5 DEF Dies, Crash, StageOf, VerdictOf
  <2> QED
    BY <2>1 DEF Promise!Next, Promise!Forget, VerdictOf
<1>6. CASE Launch \/ AskClear \/ \E i \in Ids : AskGet(i)
  BY <1>1, <1>6 DEF Launch, Open, AskClear, AskGet, SendAsk, pipe, views, memory
<1>7. CASE \E i \in Ids, k \in 0..MaxFrame : Frame(i, k)
  BY <1>1, <1>7 DEF Frame, vars, memory, views
<1>8. CASE \E i \in Ids : BodyEnds(i)
  BY <1>1, <1>8 DEF BodyEnds, vars, memory, views
<1>9. CASE UNCHANGED pvars
  BY <1>1, <1>9 DEF pvars, vars, memory, pipe, views
<1> QED
  BY <1>2, <1>3, <1>4, <1>5, <1>6, <1>7, <1>8, <1>9 DEF PNext

\* The store's channel, batches, failures, prunes, clears and crashes, with the
\* finalize tasks, keep the promise the engine's one answer per insert makes.
THEOREM PipelinePromiseTheorem == PSpec => PromiseSpec
<1>1. PInit => Promise!Init
  <2> SUFFICES ASSUME PInit PROVE Promise!Init
    OBVIOUS
  <2>1. \A i \in Ids : StageOf(i) = "free" /\ VerdictOf(i) = "none"
    BY DEF PInit, Init, StageOf, VerdictOf
  <2> QED
    BY <2>1 DEF Promise!Init, VerdictOf
<1>2. PipeInv /\ [PNext]_pvars => [Promise!Next]_Promise!vars
  BY PipelineKeepsPromise DEF Promise!vars, VerdictOf
<1> QED
  BY <1>1, <1>2, PipelineTheorem, PTL DEF PSpec, PromiseSpec, Promise!Spec
=============================================================================
