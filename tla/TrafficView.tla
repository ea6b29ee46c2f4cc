---------------------------- MODULE TrafficView -----------------------------
(***************************************************************************)
(* From the event bus to the screen: the bounded broadcast channel the     *)
(* engine publishes on, event_pump of src-tauri/src/main.rs which forwards *)
(* it to the web view in batches, and the view's state in src/store.ts:    *)
(* the live table (txs and order) and the detail pane.                     *)
(*                                                                         *)
(* The view is single-threaded; init, select and clear send a request to   *)
(* the store and go on when its answer comes, with events and other        *)
(* answers handled in between.  The store serves requests in the order     *)
(* they are sent, on one thread; their answers cross two runtimes and may  *)
(* overtake each other.  Of a transaction's data the model keeps its id    *)
(* and whether it is final.  States of the proxy and of the CA travel on   *)
(* the same channel and are left out, as is the filter box.                *)
(***************************************************************************)
EXTENDS Integers, Sequences, FiniteSets, SequencesExt

CONSTANTS
    MaxId,          \* bound: transaction ids
    MaxGets,        \* bound: requests for details under way at a time
    MaxBatches,     \* bound: batches on their way to the view
    BusCapacity,    \* EVENT_BUS_CAPACITY
    MaxRows,        \* MAX_ROWS, the rows of the live table
    HistoryLimit,   \* rows asked for by init
    MaxClears,      \* bound: clears of the session
    Overtaking,     \* may an answer overtake an earlier one?
    Faults          \* may the store fail to answer?

ASSUME BoundsAssumption ==
    /\ MaxId \in Nat
    /\ MaxGets \in Nat \ {0}
    /\ MaxBatches \in Nat \ {0}
    /\ BusCapacity \in Nat \ {0}
    /\ MaxRows \in Nat \ {0}
    /\ HistoryLimit \in 0..MaxRows
    /\ MaxClears \in Nat
    /\ Overtaking \in BOOLEAN
    /\ Faults \in BOOLEAN

VARIABLES
    stage,      \* stage[i]: how far transaction i is in the engine
    rows,       \* ids the store holds
    bus,        \* events not yet received by the pump
    dropped,    \* ids whose completion the pump never received
    buffer,     \* events the pump holds back until its tick
    batches,    \* batches on their way to the view
    view,       \* txs: what the table shows of each id
    order,      \* the order of the table
    init,       \* the request of init: sent, answered (history) or done
    history,    \* its answer
    gets,       \* the requests for details under way, oldest first
    selected,   \* selectedId, 0 for none
    detail,     \* id of the transaction whose details are shown, or 0
    pane,       \* loading (detailLoading) or settled
    clearing,   \* the request of clear: none, sent or answered
    clears      \* clears so far

engine == <<stage, rows>>
pump   == <<bus, dropped, buffer, batches>>
table  == <<view, order>>
panel  == <<gets, selected, detail, pane>>
vars   == <<engine, pump, table, panel, init, history, clearing, clears>>

Ids    == 1..MaxId
\* TransactionStarted and TransactionUpdated are active: the view treats them
\* alike.
Types  == {"active", "completed"}
Event  == [type : Types, id : Ids]
Stages == {"none", "started", "updated", "ended", "completed"}
Get    == [pc : {"sent", "answered"}, id : Ids, found : BOOLEAN]

\* Earlier runs of the program left complete transactions, with smaller ids.
Init ==
    /\ \E n \in 0..MaxId :
          /\ stage = [i \in Ids |-> IF i <= n THEN "completed" ELSE "none"]
          /\ rows = 1..n
    /\ bus = <<>>
    /\ dropped = {}
    /\ buffer = <<>>
    /\ batches = <<>>
    /\ view = [i \in Ids |-> "absent"]
    /\ order = <<>>
    /\ init = "sent"
    /\ history = {}
    /\ gets = <<>>
    /\ selected = 0
    /\ detail = 0
    /\ pane = "settled"
    /\ clearing = "none"
    /\ clears = 0

-----------------------------------------------------------------------------
(* The engine and the bus *)

\* Faulty variant: nothing is forgotten.
PublishAlways(type, i) ==
    /\ bus' = Append(bus, [type |-> type, id |-> i])
    /\ UNCHANGED dropped

\* Sending never blocks: a full channel forgets its oldest event.
Publish(type, i) ==
    LET all == Append(bus, [type |-> type, id |-> i])
    IN  IF Len(bus) < BusCapacity
        THEN bus' = all /\ UNCHANGED dropped
        ELSE /\ bus' = Tail(all)
             /\ dropped' = IF Head(all).type = "completed"
                           THEN dropped \cup {Head(all).id} ELSE dropped

Moves(i, from, to) == stage[i] \in from /\ stage' = [stage EXCEPT ![i] = to]

Announces(i) ==
    /\ Moves(i, {"none"}, "started") \/ Moves(i, {"started"}, "updated")
    /\ Publish("active", i)
    /\ UNCHANGED <<rows, buffer, batches, table, panel, init, history, clearing, clears>>

\* finish_transaction goes on whether the insert succeeded or not ...
Ends(i) ==
    /\ Moves(i, {"started", "updated"}, "ended")
    /\ rows' = rows \cup {i} \/ (Faults /\ rows' = rows)
    /\ UNCHANGED <<pump, table, panel, init, history, clearing, clears>>

\* ... and completion is announced after it.
Completes(i) ==
    /\ Moves(i, {"ended"}, "completed")
    /\ Publish("completed", i)
    /\ UNCHANGED <<rows, buffer, batches, table, panel, init, history, clearing, clears>>

-----------------------------------------------------------------------------
(* event_pump *)

Receive ==
    /\ bus # <<>>
    /\ bus' = Tail(bus)
    /\ buffer' = Append(buffer, Head(bus))
    /\ UNCHANGED <<engine, dropped, batches, table, panel, init, history, clearing, clears>>

Tick ==
    /\ buffer # <<>>
    /\ Len(batches) < MaxBatches
    /\ batches' = Append(batches, buffer)
    /\ buffer' = <<>>
    /\ UNCHANGED <<engine, bus, dropped, table, panel, init, history, clearing, clears>>

-----------------------------------------------------------------------------
(* The live table *)

\* The members of S by ascending key: the p-th has p - 1 below it.
InOrder(S, key) ==
    [p \in 1..Cardinality(S) |->
        CHOOSE i \in S : Cardinality({j \in S : key[j] < key[i]}) = p - 1]

\* Faulty variant: a row that is there is not set again.
AppliedOnce(batch) ==
    LET about(i) == {p \in 1..Len(batch) : batch[p].id = i}
        new      == {i \in Ids : about(i) # {} /\ view[i] = "absent"}
    IN  [order |-> order \o InOrder(new, [i \in new |-> Min(about(i))]),
         view  |-> [i \in Ids |->
                      IF i \notin new THEN view[i]
                      ELSE IF batch[Min(about(i))].type = "completed"
                           THEN "final" ELSE "active"]]

\* The events of a batch one after the other: a row shows the last event of
\* its transaction, and an id that has no row goes to the end of the table.
Applied(batch) ==
    LET about(i) == {p \in 1..Len(batch) : batch[p].id = i}
        new      == {i \in Ids : about(i) # {} /\ view[i] = "absent"}
    IN  [order |-> order \o InOrder(new, [i \in new |-> Min(about(i))]),
         view  |-> [i \in Ids |->
                      IF about(i) = {} THEN view[i]
                      ELSE IF batch[Max(about(i))].type = "completed"
                           THEN "final" ELSE "active"]]

\* Faulty variant: dropped rows stay in txs.
TrimmedOrder(t) ==
    LET extra == Len(t.order) - MaxRows
    IN  IF extra <= 0 THEN t
        ELSE [t EXCEPT !.order = SubSeq(t.order, extra + 1, Len(t.order))]

\* The rows first in the table are dropped beyond MAX_ROWS.
Trimmed(t) ==
    LET extra == Len(t.order) - MaxRows
    IN  IF extra <= 0 THEN t
        ELSE [order |-> SubSeq(t.order, extra + 1, Len(t.order)),
              view  |-> [i \in Ids |-> IF \E p \in 1..extra : t.order[p] = i
                                       THEN "absent" ELSE t.view[i]]]

Asks(i) ==
    /\ Len(gets) < MaxGets
    /\ gets' = Append(gets, [pc |-> "sent", id |-> i, found |-> FALSE])
    /\ pane' = "loading"

\* applyBatch: the table, then the open detail pane if its transaction is now
\* complete and nothing was shown for it.
ApplyBatch ==
    /\ batches # <<>>
    /\ batches' = Tail(batches)
    /\ \E t \in {Trimmed(Applied(Head(batches)))} : view' = t.view /\ order' = t.order
    /\ IF /\ selected # 0
          /\ detail = 0
          /\ [type |-> "completed", id |-> selected] \in ToSet(Head(batches))
       THEN Asks(selected)
       ELSE UNCHANGED <<gets, pane>>
    /\ UNCHANGED <<engine, bus, dropped, buffer, selected, detail, init, history,
                   clearing, clears>>

\* init: the newest rows of the store when it serves the query ...
AnswerInit ==
    /\ init = "sent"
    /\ init' = "answered"
    /\ history' = {i \in rows : Cardinality({j \in rows : j > i}) < HistoryLimit}
    /\ UNCHANGED <<engine, pump, table, panel, clearing, clears>>

\* ... replace whatever the table shows by then, in ascending order.
ApplyInit ==
    /\ init = "answered"
    /\ init' = "done"
    /\ history' = {}
    /\ view' = [i \in Ids |-> IF i \in history THEN "final" ELSE "absent"]
    /\ order' = InOrder(history, [i \in history |-> i])
    /\ UNCHANGED <<engine, pump, panel, clearing, clears>>

\* An error leaves the table as it is.
InitFails ==
    /\ Faults
    /\ init # "done"
    /\ init' = "done"
    /\ history' = {}
    /\ UNCHANGED <<engine, pump, table, panel, clearing, clears>>

-----------------------------------------------------------------------------
(* The detail pane *)

\* A row of the table is selected; what the pane shows stays until the answer.
\* Bound: the user leaves room for a refresh by applyBatch.
Select(i) ==
    /\ view[i] # "absent"
    /\ Len(gets) < MaxGets - 1
    /\ selected' = i
    /\ Asks(i)
    /\ UNCHANGED <<engine, pump, table, detail, init, history, clearing, clears>>

Deselect ==
    /\ selected # 0
    /\ selected' = 0
    /\ detail' = 0
    /\ UNCHANGED <<engine, pump, table, gets, pane, init, history, clearing, clears>>

\* The store serves the oldest request it has not served.
AnswerGet ==
    /\ \E p \in 1..Len(gets) :
          /\ gets[p].pc = "sent"
          /\ \A q \in 1..p-1 : gets[q].pc = "answered"
          /\ gets' = [gets EXCEPT ![p] = [pc |-> "answered", id |-> @.id,
                                       found |-> @.id \in rows]]
    /\ UNCHANGED <<engine, pump, table, selected, detail, pane, init, history,
                   clearing, clears>>

\* The answer that reaches the view next.
Arrives(p) ==
    /\ p = 1 \/ Overtaking
    /\ gets' = RemoveAt(gets, p)

Shown(g) == IF g.found THEN g.id ELSE 0

\* Faulty variant: the answer is shown whatever is selected by now.
ApplyGetAnyway(p) ==
    /\ gets[p].pc = "answered"
    /\ Arrives(p)
    /\ detail' = Shown(gets[p])
    /\ pane' = "settled"
    /\ UNCHANGED <<engine, pump, table, selected, init, history, clearing, clears>>

\* Stale responses are ignored if the selection moved on.
ApplyGet(p) ==
    /\ gets[p].pc = "answered"
    /\ Arrives(p)
    /\ IF selected = gets[p].id
       THEN detail' = Shown(gets[p]) /\ pane' = "settled"
       ELSE UNCHANGED <<detail, pane>>
    /\ UNCHANGED <<engine, pump, table, selected, init, history, clearing, clears>>

\* Faulty variant: an error leaves the pane loading.
GetFailsLoading(p) ==
    /\ Faults
    /\ Arrives(p)
    /\ UNCHANGED <<engine, pump, table, selected, detail, pane, init, history,
                   clearing, clears>>

\* An error ends the loading of whatever is selected by then, and leaves the
\* details that are shown.
GetFails(p) ==
    /\ Faults
    /\ Arrives(p)
    /\ pane' = "settled"
    /\ UNCHANGED <<engine, pump, table, selected, detail, init, history, clearing, clears>>

-----------------------------------------------------------------------------
(* clear *)

AskClear ==
    /\ clearing = "none"
    /\ clears < MaxClears
    /\ clears' = clears + 1
    /\ clearing' = "sent"
    /\ UNCHANGED <<engine, pump, table, panel, init, history>>

AnswerClear ==
    /\ clearing = "sent"
    /\ clearing' = "answered"
    /\ rows' = {}
    /\ UNCHANGED <<stage, pump, table, panel, init, history, clears>>

ApplyClear ==
    /\ clearing = "answered"
    /\ clearing' = "none"
    /\ view' = [i \in Ids |-> "absent"]
    /\ order' = <<>>
    /\ selected' = 0
    /\ detail' = 0
    /\ UNCHANGED <<engine, pump, gets, pane, init, history, clears>>

\* The store may have deleted the rows before it failed.
ClearFails ==
    /\ Faults
    /\ clearing = "sent"
    /\ clearing' = "none"
    /\ rows' \in {rows, {}}
    /\ UNCHANGED <<stage, pump, table, panel, init, history, clears>>

-----------------------------------------------------------------------------

Engine == \E i \in Ids : Announces(i) \/ Ends(i) \/ Completes(i)
User   == (\E i \in Ids : Select(i)) \/ Deselect \/ AskClear
GetEnds == \E p \in 1..Len(gets) : ApplyGet(p) \/ GetFails(p)

Next ==
    \/ Engine
    \/ Receive
    \/ Tick
    \/ ApplyBatch
    \/ AnswerInit
    \/ ApplyInit
    \/ InitFails
    \/ User
    \/ AnswerGet
    \/ GetEnds
    \/ AnswerClear
    \/ ApplyClear
    \/ ClearFails

Spec == Init /\ [][Next]_vars

\* The pump's loop and timer run, the web view handles what arrives, the store
\* answers.  Neither the engine nor the user owes anything.
Fairness ==
    /\ WF_vars(Receive)
    /\ WF_vars(Tick)
    /\ WF_vars(ApplyBatch)
    /\ WF_vars(AnswerGet)
    /\ WF_vars(GetEnds)

FairSpec == Spec /\ Fairness

-----------------------------------------------------------------------------
(* Safety *)

TypeOK ==
    /\ stage \in [Ids -> Stages]
    /\ rows \in SUBSET Ids
    /\ bus \in Seq(Event) /\ Len(bus) <= BusCapacity
    /\ dropped \in SUBSET Ids
    /\ buffer \in Seq(Event)
    /\ batches \in Seq(Seq(Event)) /\ Len(batches) <= MaxBatches
    /\ view \in [Ids -> {"absent", "active", "final"}]
    /\ order \in Seq(Ids)
    /\ init \in {"sent", "answered", "done"}
    /\ history \in SUBSET Ids
    /\ gets \in Seq(Get) /\ Len(gets) <= MaxGets
    /\ selected \in 0..MaxId
    /\ detail \in 0..MaxId
    /\ pane \in {"settled", "loading"}
    /\ clearing \in {"none", "sent", "answered"}
    /\ clears \in 0..MaxClears

\* The rows listed are exactly those held, each listed once, and no more than
\* MAX_ROWS, through batches, drops, re-appearing ids, init and clear (txs and
\* order of the view's store).
TableIsWhole ==
    /\ {i \in Ids : view[i] # "absent"} = ToSet(order)
    /\ Cardinality(ToSet(order)) = Len(order)
    /\ Len(order) <= MaxRows

\* What the pane starts to show is the transaction selected at that moment,
\* however late and in whatever order the answers come, while the selection moves
\* on, is cleared or fails ("Ignore stale responses", select).
NoOtherShown == [][detail' \in {detail, 0, selected'}]_vars

\* The pane never waits for ever: while it says that the selected transaction is
\* loading, a request for just that one is under way, whatever other requests
\* were answered, overtaken or failed since (select, applyBatch, clear).
LoadingEnds ==
    pane = "loading" /\ selected # 0
        => \E p \in 1..Len(gets) : gets[p].id = selected

\* Once it has settled the pane shows the selected transaction or nothing, as
\* ignoring stale responses is meant to ensure (select).
DetailIsSelected == pane = "settled" => detail \in {0, selected}

\* The completion of i is still on its way to the view.
Done(i)     == [type |-> "completed", id |-> i]
Has(s, i)   == \E p \in 1..Len(s) : s[p] = Done(i)
HasBatch(i) == \E b \in 1..Len(batches) : Has(batches[b], i)
Owed(i)     == Has(bus, i) \/ Has(buffer, i) \/ HasBatch(i)

\* A row is shown as final only once its transaction has ended, and a row that is
\* active though its transaction is complete has the completion still on its way,
\* unless the bus dropped it: whatever is batched, trimmed, replaced by the
\* history or cleared meanwhile, no completion that the pump received is lost
\* between it and the table (event_pump, applyBatch, init, clear).
RowsAreOwed ==
    \A i \in Ids :
        /\ view[i] = "final" => stage[i] \in {"ended", "completed"}
        /\ view[i] = "active" /\ stage[i] = "completed" => i \in dropped \/ Owed(i)

-----------------------------------------------------------------------------
(* Liveness *)

\* Keep an open detail pane fresh once its transaction completes (the comment
\* in applyBatch): as long as the store holds it and it stays selected, its
\* details are shown.
FreshDetail ==
    \A i \in Ids :
        selected = i /\ stage[i] = "completed"
            ~> selected # i \/ detail = i \/ i \notin rows
=============================================================================
