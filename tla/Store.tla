------------------------------- MODULE Store -------------------------------
(***************************************************************************)
(* The session store (crates/httpmate-core/src/store.rs): one writer       *)
(* thread that owns the database, fed by an unbounded channel.  It drains  *)
(* what has arrived, commits all inserts of the drain in one transaction,  *)
(* prunes now and then, and only then serves the other messages.  Bodies   *)
(* are rows of a second table (inline) or files next to the database.      *)
(*                                                                         *)
(* A crash of the process (a quit is no different: nothing joins the       *)
(* thread) loses everything in memory and may tear a file being written.   *)
(* Committed transactions survive it; a loss of power is not modelled.     *)
(* A transaction is known by its id and the run of the process that        *)
(* recorded it, since ids are reused after a clear and a restart.  One     *)
(* body stands for the request's and the response's, which are handled     *)
(* alike.                                                                  *)
(***************************************************************************)
EXTENDS Integers, Sequences, FiniteSets, FiniteSetsExt

CONSTANTS
    MaxId,              \* bound: largest id handed out
    MaxRuns,            \* bound: runs of the process
    MaxAsks,            \* bound: reads and clears requested, over all runs
    BatchCap,           \* messages taken per drain (256)
    MaxTransactions,    \* rows kept by a prune (50000)
    PruneEvery,         \* inserts between two prunes (500)
    Faults              \* may the database or the file system fail?

ASSUME BoundsAssumption ==
    /\ MaxId \in Nat
    /\ MaxRuns \in Nat
    /\ MaxAsks \in Nat
    /\ BatchCap \in Nat \ {0, 1}
    /\ MaxTransactions \in Nat \ {0}
    /\ PruneEvery \in Nat \ {0}
    /\ Faults \in BOOLEAN

VARIABLES
    run,        \* number of the current (or last) run of the process
    pc,         \* what the writer thread is doing ("down": no process)
    nextId,     \* the engine's transaction counter
    call,       \* call[i]: how far transaction i of this run is
    body,       \* body[i]: what its body needs: no, inline or file storage
    chan,       \* the channel to the writer, in order of sending
    asks,       \* messages of the current drain still to be served
    asked,      \* how many reads and clears were ever sent
    covers,     \* covers[n]: per id, the last run whose transaction was sent
                \*   before clear n was, until it is served
    staged,     \* inserts executed in the open database transaction
    result,     \* result of the last batch
    rows,       \* rows[i]: table transactions: recording run (0: no row), body
    bodies,     \* bodies[i]: table bodies: run whose body it holds, or 0
    files,      \* files[i]: blob file: run whose body it holds, 0 or Torn
    sincePrune, \* inserts_since_prune
    minKept,    \* min_kept of the prune in progress, or 0
    cleared     \* per id, the last run whose transaction a clear that was
                \*   acknowledged covered

memory == <<call, body, chan, asks, covers, staged, result, sincePrune, minKept>>
disk   == <<rows, bodies, files>>
vars   == <<run, pc, nextId, asked, cleared, memory, disk>>

Ids  == 1..MaxId
Asks == 1..MaxAsks
Runs == 1..MaxRuns
Refs == {"none", "inline", "file"}
Torn == MaxRuns + 1
NoRow == [run |-> 0, ref |-> "none"]

Calls == {"free", "active", "queued", "taken", "stored", "refused"}
PCs   == {"down", "waiting", "inserting", "replying", "pruneRows", "pruneBodies",
          "pruneFiles", "serving", "clearBodies", "clearFiles"}
Ask   == [op : {"read", "clear"}, n : Asks]
Msg   == [op : {"insert"}, n : Ids] \cup Ask

Held   == {i \in Ids : rows[i].run # 0}
Nobody == [i \in Ids |-> 0]

Init ==
    /\ run = 0
    /\ pc = "down"
    /\ nextId = 1
    /\ asked = 0
    /\ cleared = Nobody
    /\ call = [i \in Ids |-> "free"]
    /\ body = [i \in Ids |-> "none"]
    /\ chan = <<>>
    /\ asks = {}
    /\ covers = [n \in Asks |-> Nobody]
    /\ staged = {}
    /\ result = "ok"
    /\ sincePrune = 0
    /\ minKept = 0
    /\ rows = [i \in Ids |-> NoRow]
    /\ bodies = Nobody
    /\ files = Nobody

-----------------------------------------------------------------------------
(* The process *)

\* Faulty variant: the counter resumes at the number of rows.
OpenAtCount ==
    /\ pc = "down"
    /\ run < MaxRuns
    /\ run' = run + 1
    /\ pc' = "waiting"
    /\ nextId' = Cardinality(Held) + 1
    /\ UNCHANGED <<asked, cleared, memory, disk>>

\* StoreHandle::open, and Controller::new: ids go on after the largest row.
Open ==
    /\ pc = "down"
    /\ run < MaxRuns
    /\ run' = run + 1
    /\ pc' = "waiting"
    /\ nextId' = IF Held = {} THEN 1 ELSE Max(Held) + 1
    /\ UNCHANGED <<asked, cleared, memory, disk>>

\* The insert being executed when the process dies may have written a part of
\* its file, or all of it.
Crash ==
    /\ pc # "down"
    /\ pc' = "down"
    /\ call' = [i \in Ids |-> "free"]
    /\ body' = [i \in Ids |-> "none"]
    /\ chan' = <<>>
    /\ asks' = {}
    /\ covers' = [n \in Asks |-> Nobody]
    /\ staged' = {}
    /\ result' = "ok"
    /\ sincePrune' = 0
    /\ minKept' = 0
    /\ \/ files' = files
       \/ /\ pc = "inserting"
          /\ \E i \in Ids \ staged, f \in {Torn, run} :
                /\ call[i] = "taken"
                /\ body[i] = "file"
                /\ files' = [files EXCEPT ![i] = f]
    /\ UNCHANGED <<run, nextId, asked, cleared, rows, bodies>>

-----------------------------------------------------------------------------
(* Callers *)

\* The engine names a transaction ...
Begin ==
    /\ pc # "down"
    /\ nextId \in Ids
    /\ nextId' = nextId + 1
    /\ call' = [call EXCEPT ![nextId] = "active"]
    /\ UNCHANGED <<run, pc, asked, cleared, body, chan, asks, covers, staged, result,
                   sincePrune, minKept, disk>>

\* ... and sends it when it is over, which has nothing to do with its id.
SendInsert(i, ref) ==
    /\ call[i] = "active"
    /\ call' = [call EXCEPT ![i] = "queued"]
    /\ body' = [body EXCEPT ![i] = ref]
    /\ chan' = Append(chan, [op |-> "insert", n |-> i])
    /\ UNCHANGED <<run, pc, nextId, asked, cleared, asks, covers, staged, result,
                   sincePrune, minKept, disk>>

\* What has been sent, this run or before, when a clear is.
Sent(i) == IF call[i] \in {"free", "active"} THEN run - 1 ELSE run

SendAsk(op) ==
    /\ pc # "down"
    /\ asked < MaxAsks
    /\ asked' = asked + 1
    /\ chan' = Append(chan, [op |-> op, n |-> asked + 1])
    /\ covers' = [covers EXCEPT ![asked + 1] =
                    IF op = "clear" THEN [i \in Ids |-> Sent(i)] ELSE Nobody]
    /\ UNCHANGED <<run, pc, nextId, cleared, call, body, asks, staged, result,
                   sincePrune, minKept, disk>>

-----------------------------------------------------------------------------
(* writer_loop: drain, insert, reply *)

SmallerOf(a, b) == IF a < b THEN a ELSE b

\* One blocking receive, then whatever else is there, up to the cap: inserts
\* apart from the rest.
Drain ==
    /\ pc = "waiting"
    /\ chan # <<>>
    /\ LET k     == SmallerOf(Len(chan), BatchCap)
           batch == {i \in Ids : \E p \in 1..k : chan[p] = [op |-> "insert", n |-> i]}
       IN  /\ chan' = SubSeq(chan, k + 1, Len(chan))
           /\ call' = [i \in Ids |-> IF i \in batch THEN "taken" ELSE call[i]]
           /\ asks' = {chan[p] : p \in {q \in 1..k : chan[q].op # "insert"}}
           /\ pc' = IF batch = {} THEN "serving" ELSE "inserting"
    /\ UNCHANGED <<run, nextId, asked, cleared, body, covers, staged, result,
                   sincePrune, minKept, disk>>

Batch == {i \in Ids : call[i] = "taken"}

\* body_ref_and_store and the INSERT for one transaction.  A file is written at
\* once; rows wait for the commit.
Stage(i) ==
    /\ pc = "inserting"
    /\ i \in Batch \ staged
    /\ staged' = staged \cup {i}
    /\ files' = IF body[i] = "file" THEN [files EXCEPT ![i] = run] ELSE files
    /\ UNCHANGED <<run, pc, nextId, asked, cleared, call, body, chan, asks, covers,
                   result, sincePrune, minKept, rows, bodies>>

\* Faulty variant: the rows executed so far are kept.
StageFailsKeepingRows ==
    /\ Faults
    /\ pc = "inserting"
    /\ pc' = "replying"
    /\ result' = "error"
    /\ staged' = {}
    /\ rows' = [i \in Ids |-> IF i \in staged THEN [run |-> run, ref |-> body[i]]
                                              ELSE rows[i]]
    /\ UNCHANGED <<run, nextId, asked, cleared, call, body, chan, asks, covers,
                   sincePrune, minKept, bodies, files>>

\* Any error rolls the whole batch back; files already written stay.
StageFails ==
    /\ Faults
    /\ pc = "inserting"
    /\ pc' = "replying"
    /\ result' = "error"
    /\ staged' = {}
    /\ \/ files' = files
       \/ \E i \in Batch \ staged, f \in {Torn, run} :
             body[i] = "file" /\ files' = [files EXCEPT ![i] = f]
    /\ UNCHANGED <<run, nextId, asked, cleared, call, body, chan, asks, covers,
                   sincePrune, minKept, rows, bodies>>

Commit ==
    /\ pc = "inserting"
    /\ staged = Batch
    /\ pc' = "replying"
    /\ result' = "ok"
    /\ staged' = {}
    /\ rows' = [i \in Ids |-> IF i \in Batch THEN [run |-> run, ref |-> body[i]]
                                             ELSE rows[i]]
    /\ bodies' = [i \in Ids |-> IF i \in Batch /\ body[i] = "inline" THEN run
                                                                    ELSE bodies[i]]
    /\ UNCHANGED <<run, nextId, asked, cleared, call, body, chan, asks, covers,
                   sincePrune, minKept, files>>

\* What becomes of the transactions of the batch.
Settle(verdict) ==
    /\ call' = [i \in Ids |-> IF i \in Batch THEN verdict ELSE call[i]]
    /\ body' = [i \in Ids |-> IF i \in Batch THEN "none" ELSE body[i]]

\* Faulty variant: off by one.
ReplyLate ==
    LET inserts == sincePrune + Cardinality(Batch)
    IN  /\ pc = "replying"
        /\ Settle(IF result = "ok" THEN "stored" ELSE "refused")
        /\ result' = "ok"
        /\ sincePrune' = IF inserts > PruneEvery THEN 0 ELSE inserts
        /\ pc' = IF inserts > PruneEvery THEN "pruneRows" ELSE "serving"
        /\ UNCHANGED <<run, nextId, asked, cleared, chan, asks, covers, staged,
                       minKept, disk>>

\* The batch counts for pruning whether it was stored or not.
Reply ==
    LET inserts == sincePrune + Cardinality(Batch)
    IN  /\ pc = "replying"
        /\ Settle(IF result = "ok" THEN "stored" ELSE "refused")
        /\ result' = "ok"
        /\ sincePrune' = IF inserts >= PruneEvery THEN 0 ELSE inserts
        /\ pc' = IF inserts >= PruneEvery THEN "pruneRows" ELSE "serving"
        /\ UNCHANGED <<run, nextId, asked, cleared, chan, asks, covers, staged,
                       minKept, disk>>

-----------------------------------------------------------------------------
(* prune: three statements, each committed by itself *)

\* Faulty variant: one too many.
NewestLate == {i \in Held : Cardinality({j \in Held : j > i}) <= MaxTransactions}

\* The ids of the newest rows, as many as are kept.
Newest == {i \in Held : Cardinality({j \in Held : j > i}) < MaxTransactions}

PruneRows ==
    LET least   == Min(Newest)
        deleted == {i \in Held : i < least}
    IN  /\ pc = "pruneRows"
        /\ IF Newest = {} \/ deleted = {}
           THEN pc' = "serving" /\ UNCHANGED <<rows, minKept>>
           ELSE /\ pc' = "pruneBodies"
                /\ minKept' = least
                /\ rows' = [i \in Ids |-> IF i \in deleted THEN NoRow ELSE rows[i]]
        /\ UNCHANGED <<run, nextId, asked, cleared, call, body, chan, asks, covers,
                       staged, result, sincePrune, bodies, files>>

PruneBodies ==
    /\ pc = "pruneBodies"
    /\ pc' = "pruneFiles"
    /\ bodies' = [i \in Ids |-> IF i < minKept THEN 0 ELSE bodies[i]]
    /\ UNCHANGED <<run, nextId, asked, cleared, memory, rows, files>>

\* Faulty variant: every blob of the directory goes, as in clear.
DoomedAll == Ids

\* The blobs to remove: a prune's, by the id in their names, or all of them.
Doomed == IF pc = "pruneFiles" THEN {i \in Ids : i < minKept} ELSE Ids

\* The directory is gone through file by file.
RemoveFile(i) ==
    /\ pc \in {"pruneFiles", "clearFiles"}
    /\ i \in Doomed
    /\ files[i] # 0
    /\ files' = [files EXCEPT ![i] = 0]
    /\ UNCHANGED <<run, pc, nextId, asked, cleared, memory, rows, bodies>>

\* A directory that cannot be read and a file that cannot be removed are ignored.
FilesGone == Faults \/ \A i \in Doomed : files[i] = 0

PruneEnds ==
    /\ pc = "pruneFiles"
    /\ FilesGone
    /\ pc' = "serving"
    /\ minKept' = 0
    /\ UNCHANGED <<run, nextId, asked, cleared, call, body, chan, asks, covers, staged,
                   result, sincePrune, disk>>

\* A failing statement ends the prune; it is only logged.
PruneFails ==
    /\ Faults
    /\ pc \in {"pruneRows", "pruneBodies"}
    /\ pc' = "serving"
    /\ minKept' = 0
    /\ UNCHANGED <<run, nextId, asked, cleared, call, body, chan, asks, covers, staged,
                   result, sincePrune, disk>>

-----------------------------------------------------------------------------
(* The other messages of the drain, in the order they were sent *)

NextAsk == CHOOSE m \in asks : \A o \in asks : m.n <= o.n
ClearIsNext == asks # {} /\ NextAsk.op = "clear"

\* Faulty variant: the loop does not go on when something arrived meanwhile.
ServingDoneOnce ==
    /\ pc = "serving"
    /\ asks = {}
    /\ chan = <<>>
    /\ pc' = "waiting"
    /\ UNCHANGED <<run, nextId, asked, cleared, memory, disk>>

ServingDone ==
    /\ pc = "serving"
    /\ asks = {}
    /\ pc' = "waiting"
    /\ UNCHANGED <<run, nextId, asked, cleared, memory, disk>>

Answered ==
    /\ asks' = asks \ {NextAsk}
    /\ covers' = [covers EXCEPT ![NextAsk.n] = Nobody]

\* query and get change nothing.
Read ==
    /\ pc = "serving"
    /\ asks # {}
    /\ ~ClearIsNext
    /\ Answered
    /\ UNCHANGED <<run, pc, nextId, asked, cleared, call, body, chan, staged,
                   result, sincePrune, minKept, disk>>

ClearRows ==
    /\ pc = "serving"
    /\ ClearIsNext
    /\ pc' = "clearBodies"
    /\ rows' = [i \in Ids |-> NoRow]
    /\ UNCHANGED <<run, nextId, asked, cleared, memory, bodies, files>>

ClearBodies ==
    /\ pc = "clearBodies"
    /\ pc' = "clearFiles"
    /\ bodies' = Nobody
    /\ UNCHANGED <<run, nextId, asked, cleared, memory, rows, files>>

LaterOf(a, b) == IF a > b THEN a ELSE b

\* The clear is acknowledged.
ClearEnds ==
    /\ pc = "clearFiles"
    /\ FilesGone
    /\ pc' = "serving"
    /\ cleared' = [i \in Ids |-> LaterOf(cleared[i], covers[NextAsk.n][i])]
    /\ Answered
    /\ UNCHANGED <<run, nextId, call, body, chan, asked, staged, result,
                   sincePrune, minKept, disk>>

\* Faulty variant: the failure is not reported.
ClearFailsSilently ==
    /\ Faults
    /\ \/ pc = "serving" /\ ClearIsNext
       \/ pc = "clearBodies"
    /\ pc' = "serving"
    /\ cleared' = [i \in Ids |-> LaterOf(cleared[i], covers[NextAsk.n][i])]
    /\ Answered
    /\ UNCHANGED <<run, nextId, asked, call, body, chan, staged, result,
                   sincePrune, minKept, disk>>

\* A failing statement is reported to the caller; the next message is served.
ClearFails ==
    /\ Faults
    /\ \/ pc = "serving" /\ ClearIsNext
       \/ pc = "clearBodies"
    /\ pc' = "serving"
    /\ Answered
    /\ UNCHANGED <<run, nextId, asked, cleared, call, body, chan, staged, result,
                   sincePrune, minKept, disk>>

-----------------------------------------------------------------------------

Writer ==
    \/ Drain
    \/ \E i \in Ids : Stage(i)
    \/ StageFails
    \/ Commit
    \/ Reply
    \/ PruneRows
    \/ PruneBodies
    \/ \E i \in Ids : RemoveFile(i)
    \/ PruneEnds
    \/ PruneFails
    \/ ServingDone
    \/ Read
    \/ ClearRows
    \/ ClearBodies
    \/ ClearEnds
    \/ ClearFails

Next ==
    \/ Open
    \/ Crash
    \/ Begin
    \/ \E i \in Ids, ref \in Refs : SendInsert(i, ref)
    \/ \E op \in {"read", "clear"} : SendAsk(op)
    \/ Writer

Spec == Init /\ [][Next]_vars

-----------------------------------------------------------------------------
(* Safety *)

TypeOK ==
    /\ run \in 0..MaxRuns
    /\ pc \in PCs
    /\ nextId \in 1..MaxId + 1
    /\ call \in [Ids -> Calls]
    /\ body \in [Ids -> Refs]
    /\ chan \in Seq(Msg)
    /\ asks \in SUBSET Ask
    /\ asked \in 0..MaxAsks
    /\ covers \in [Asks -> [Ids -> 0..MaxRuns]]
    /\ staged \in SUBSET Ids
    /\ result \in {"ok", "error"}
    /\ rows \in [Ids -> [run : 0..MaxRuns, ref : Refs]]
    /\ bodies \in [Ids -> 0..MaxRuns]
    /\ files \in [Ids -> 0..Torn]
    /\ sincePrune \in 0..PruneEvery - 1
    /\ minKept \in 0..MaxId
    /\ cleared \in [Ids -> 0..MaxRuns]

\* A row's body is the body recorded with it: whatever crash, failed batch,
\* prune or clear left behind, no row reads a torn file, nothing at all or what
\* another transaction with its id left (insert_batch, body_ref_and_store,
\* prune, clear, load_body).
RowBodyIntact ==
    \A i \in Held :
        /\ rows[i].ref = "inline" => bodies[i] = rows[i].run
        /\ rows[i].ref = "file"   => files[i] = rows[i].run

\* The ids of held transactions are in the order of the runs that recorded
\* them: the id is the display order, across restarts too (StoreHandle::open's
\* max_id_at_open, Controller::new).
OrderAcrossRuns ==
    \A i, j \in Held : i < j => rows[i].run <= rows[j].run

\* Once a clear has been acknowledged, no transaction sent before it is held,
\* not even one that was waiting in the channel or in the same drain (the
\* inserts of a drain come before its clears in writer_loop).
ClearIsFinal ==
    \A i \in Held : rows[i].run > cleared[i]

\* Retention cap, within a run without failures: whenever the writer waits, the
\* run holds no more than the cap and what comes before the next prune
\* (writer_loop, prune).
RetentionInRun ==
    pc = "waiting" /\ ~Faults =>
        Cardinality({i \in Held : rows[i].run = run}) < MaxTransactions + PruneEvery

\* What the caller of insert is told is true of the table at that moment, for
\* every transaction of the batch alike (writer_loop, insert_batch).
AnswerIsTrue ==
    [][\A i \in Ids :
          call[i] = "taken" =>
            /\ call'[i] = "stored"  => rows[i].run = run
            /\ call'[i] = "refused" => rows[i].run # run]_vars

\* The transactions table does what SessionLog says: it grows by whole batches
\* in order, is wiped, or is trimmed of its oldest rows beyond the cap.
Log == INSTANCE SessionLog WITH Capacity <- MaxTransactions,
                                log <- [i \in Ids |-> rows[i].run]
LogSpec == Log!Spec

-----------------------------------------------------------------------------
(* Liveness *)

\* Everyone who calls insert gets an answer, unless the process dies
\* (StoreHandle::call, writer_loop).
CallsAnswered ==
    \A i \in Ids : call[i] = "queued" ~> call[i] \notin {"queued", "taken"}
=============================================================================
