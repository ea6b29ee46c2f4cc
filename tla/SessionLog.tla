----------------------------- MODULE SessionLog -----------------------------
(***************************************************************************)
(* What the session store promises about its transactions table, with the  *)
(* writer thread, its batches, bodies, files and crashes abstracted away:  *)
(* a log ordered by id that grows by whole batches at ids it does not hold, *)
(* is wiped as a whole, and otherwise loses nothing but its oldest entries *)
(* beyond the retention cap.                                               *)
(*                                                                         *)
(* Modelled from the contract of crates/httpmate-core/src/store.rs: insert *)
(* (one transaction of the database per batch), clear, prune, reopening.   *)
(***************************************************************************)
EXTENDS Integers, FiniteSets

CONSTANTS
    Ids,        \* transaction ids
    Runs,       \* runs of the process, numbered from 1
    Capacity    \* MAX_TRANSACTIONS

VARIABLE log    \* log[i]: the run that recorded transaction i, 0 if not held

Held == {i \in Ids : log[i] # 0}

\* The entries retention may drop: those with Capacity newer ones.
Surplus == {i \in Held : Cardinality({j \in Held : j > i}) >= Capacity}

Init == log = [i \in Ids |-> 0]

\* A batch of the latest run r is added as a whole, and every id of an earlier
\* run is smaller: ids order transactions across restarts.
Store(B, r) ==
    /\ \A j \in Held : log[j] <= r
    /\ \A i \in B, j \in Held : log[j] < r => j < i
    /\ log' = [i \in Ids |-> IF i \in B THEN r ELSE log[i]]

Wipe == log' = [i \in Ids |-> 0]

Trim == log' = [i \in Ids |-> IF i \in Surplus THEN 0 ELSE log[i]]

\* A batch is never stored over an entry.
Next ==
    \/ Wipe
    \/ Trim
    \/ \E B \in SUBSET (Ids \ Held), r \in Runs : Store(B, r)

Spec == Init /\ [][Next]_log
=============================================================================
