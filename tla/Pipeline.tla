------------------------------ MODULE Pipeline ------------------------------
(***************************************************************************)
(* From a body on the wire to the detail pane: the engine's finalize task  *)
(* (Engine::handle and finish_transaction in                               *)
(* crates/httpmate-core/src/proxy.rs) between the body tee and the store.  *)
(* A transaction's body flows and is captured; once it is over the         *)
(* transaction is sent to the store, and announced as completed when the   *)
(* store has answered; whoever saw the announcement may ask for it.        *)
(*                                                                         *)
(* The store is the module Store, step by step; one body stands for the    *)
(* request's and the response's.                                           *)
(***************************************************************************)
EXTENDS Store, Tee

CONSTANTS
    CaptureLimit,       \* body_capture_limit
    InlineLimit,        \* INLINE_BODY_LIMIT
    MaxBytes,           \* bound: length of a body
    MaxFrame            \* bound: length of a frame

ASSUME PipelineAssumption ==
    /\ CaptureLimit \in Nat
    /\ InlineLimit \in Nat
    /\ MaxBytes \in Nat
    /\ MaxFrame \in Nat

VARIABLES
    flow,       \* flow[i]: bytes of transaction i that went through
    tee,        \* tee[i]: the guard of its capture
    over,       \* transactions whose capture was delivered
    captured,   \* captured[i]: that capture
    announced,  \* transactions announced as completed
    removed,    \* transactions a prune or a clear removed
    wanted,     \* wanted[n]: what read n asks for, and whether it was announced
    got         \* got[n]: what it was answered

wire  == <<flow, tee, over, captured>>
views == <<announced, removed, wanted, got>>
pipe  == <<wire, views>>
pvars == <<vars, pipe>>

Nothing  == Captured(NewTee(CaptureLimit))
NoWish   == [id |-> 0, announced |-> FALSE]
NoAnswer == [answered |-> FALSE, found |-> FALSE, bytes |-> <<>>]

PInit ==
    /\ Init
    /\ flow = [i \in Ids |-> 0]
    /\ tee = [i \in Ids |-> NewTee(CaptureLimit)]
    /\ over = {}
    /\ captured = [i \in Ids |-> Nothing]
    /\ announced = {}
    /\ removed = {}
    /\ wanted = [n \in Asks |-> NoWish]
    /\ got = [n \in Asks |-> NoAnswer]

-----------------------------------------------------------------------------
(* The engine *)

\* handle names the transaction and wraps its body.
Handle ==
    /\ Begin
    /\ flow' = [flow EXCEPT ![nextId] = 0]
    /\ tee' = [tee EXCEPT ![nextId] = NewTee(CaptureLimit)]
    /\ captured' = [captured EXCEPT ![nextId] = Nothing]
    /\ removed' = removed \ {nextId}
    /\ UNCHANGED <<over, announced, wanted, got>>

Flowing(i) == call[i] = "active" /\ i \notin over

\* poll_frame with a frame of data, which may be empty.
Frame(i, k) ==
    /\ Flowing(i)
    /\ flow[i] + k <= MaxBytes
    /\ flow' = [flow EXCEPT ![i] = @ + k]
    /\ tee' = [tee EXCEPT ![i] = Push(@, [p \in 1..k |-> flow[i] + p])]
    /\ UNCHANGED <<vars, over, captured, views>>

\* The body ends, breaks off or is dropped.
BodyEnds(i) ==
    /\ Flowing(i)
    /\ over' = over \cup {i}
    /\ captured' = [captured EXCEPT ![i] = Captured(tee[i])]
    /\ UNCHANGED <<vars, flow, tee, views>>

\* body_ref_and_store: where a body of n bytes goes.
RefOf(n) == IF n = 0 THEN "none" ELSE IF n <= InlineLimit THEN "inline" ELSE "file"

\* finish_transaction sends it to the store ...
Record(i) ==
    /\ i \in over
    /\ SendInsert(i, RefOf(Len(captured[i].bytes)))
    /\ UNCHANGED pipe

\* Faulty variant: the event is sent before the transaction is.
AnnounceFirst(i) ==
    /\ i \in over \ announced
    /\ announced' = announced \cup {i}
    /\ UNCHANGED <<vars, wire, removed, wanted, got>>

\* ... awaits the answer, and announces it whatever the answer was.
Announce(i) ==
    /\ i \notin announced
    /\ call[i] \in {"stored", "refused"}
    /\ announced' = announced \cup {i}
    /\ UNCHANGED <<vars, wire, removed, wanted, got>>

-----------------------------------------------------------------------------
(* The view's requests, and the store *)

AskGet(i) ==
    /\ SendAsk("read")
    /\ wanted' = [wanted EXCEPT ![asked + 1] = [id |-> i, announced |-> i \in announced]]
    /\ UNCHANGED <<wire, announced, removed, got>>

AskClear ==
    /\ SendAsk("clear")
    /\ UNCHANGED pipe

\* load_body: a body that is missing reads as empty; <<0>> is one that is not
\* the row's own.
LoadBody(i) ==
    LET holder == IF rows[i].ref = "inline" THEN bodies[i] ELSE files[i]
    IN  IF rows[i].ref = "none" \/ holder = 0 THEN <<>>
        ELSE IF holder = rows[i].run THEN captured[i].bytes
        ELSE <<0>>

\* get.
Detail(i) ==
    IF i \in Held THEN [answered |-> TRUE, found |-> TRUE, bytes |-> LoadBody(i)]
    ELSE [answered |-> TRUE, found |-> FALSE, bytes |-> <<>>]

WriterStep ==
    /\ Writer
    /\ got' = IF pc = "serving" /\ asks # {} /\ ~ClearIsNext
              THEN [got EXCEPT ![NextAsk.n] = Detail(wanted[NextAsk.n].id)]
              ELSE got
    /\ removed' = removed \cup {i \in Held : rows'[i].run = 0}
    /\ UNCHANGED <<wire, announced, wanted>>

\* What was captured of the rows on disk stays known to the model.
Launch ==
    /\ Open
    /\ UNCHANGED pipe

Dies ==
    /\ Crash
    /\ over' = {}
    /\ announced' = {}
    /\ wanted' = [n \in Asks |-> NoWish]
    /\ got' = [n \in Asks |-> NoAnswer]
    /\ UNCHANGED <<flow, tee, captured, removed>>

-----------------------------------------------------------------------------

Finalize(i) == Record(i) \/ Announce(i)

PNext ==
    \/ Launch
    \/ Dies
    \/ Handle
    \/ \E i \in Ids, k \in 0..MaxFrame : Frame(i, k)
    \/ \E i \in Ids : BodyEnds(i) \/ Finalize(i) \/ AskGet(i)
    \/ AskClear
    \/ WriterStep

PSpec == PInit /\ [][PNext]_pvars

\* The writer thread and the finalize tasks run; bodies, the view and crashes
\* owe nothing.
PFairSpec ==
    /\ PSpec
    /\ WF_pvars(WriterStep)
    /\ \A i \in Ids : WF_pvars(Finalize(i))

-----------------------------------------------------------------------------
(* Safety *)

Bytes == UNION {[1..k -> 1..MaxBytes] : k \in 0..CaptureLimit}

PTypeOK ==
    /\ TypeOK
    /\ flow \in [Ids -> 0..MaxBytes]
    /\ \A i \in Ids : /\ tee[i].buf \in Bytes
                      /\ captured[i].bytes \in Bytes
                      /\ tee[i].total \in Nat /\ captured[i].total \in Nat
                      /\ tee[i].truncated \in BOOLEAN /\ captured[i].truncated \in BOOLEAN
    /\ over \in SUBSET Ids
    /\ announced \in SUBSET Ids
    /\ removed \in SUBSET Ids
    /\ wanted \in [Asks -> [id : 0..MaxId, announced : BOOLEAN]]
    /\ got \in [Asks -> [answered : BOOLEAN, found : BOOLEAN, bytes : Bytes]]

\* A capture is the beginning of the body, marked as truncated exactly when the
\* body was longer than the limit, however it was cut into frames and however it
\* ended: a body of just the limit is whole (push, finish, Drop).
CaptureIsPrefix ==
    \A i \in Ids :
        /\ Flowing(i) => IsPrefix(tee[i].buf, tee[i].total, tee[i].truncated,
                                  flow[i], CaptureLimit)
        /\ i \in over => IsPrefix(captured[i].bytes, captured[i].total,
                                  captured[i].truncated, flow[i], CaptureLimit)

\* A request for a transaction is answered with the body captured of it; one
\* that was announced is found, unless the store refused it or a prune or a clear
\* removed it (finish_transaction announces after the store's reply; get,
\* load_body).
GetIsTrue ==
    [][\A n \in Asks :
          LET i == wanted[n].id
          IN  got'[n] # got[n] /\ got'[n].answered =>
                IF got'[n].found THEN got'[n].bytes = captured[i].bytes
                ELSE wanted[n].announced =>
                        call[i] = "refused" \/ i \in removed]_pvars

\* Finalize tasks and store keep the promise of Recording: whatever the channel,
\* the batches, failures, prunes, clears and crashes do, each transaction is
\* answered for once and announced once, after that (finish_transaction,
\* StoreHandle::insert, writer_loop).
StageOf(i) ==
    CASE i \in announced                                     -> "announced"
      [] i \notin announced /\ call[i] \in {"stored", "refused"} -> "answered"
      [] i \notin announced /\ call[i] \in {"queued", "taken"}   -> "sent"
      [] OTHER                                                -> call[i]

Promise == INSTANCE Recording WITH
    stage   <- [i \in Ids |-> StageOf(i)],
    verdict <- [i \in Ids |-> IF call[i] \in {"stored", "refused"} THEN call[i] ELSE "none"]
PromiseSpec == Promise!Spec

-----------------------------------------------------------------------------
(* Liveness *)

\* A transaction whose body is over is announced as completed, unless the
\* process dies: the finalize task always gets an answer, from the tee and from
\* the store.
OverIsAnnounced ==
    \A i \in Ids : i \in over ~> i \in announced \/ pc = "down"
=============================================================================
