----------------------------- MODULE Recording ------------------------------
(***************************************************************************)
(* What becomes of a transaction, as engine and store promise it together: *)
(* it is begun under the next id, sent to the store once it is over,       *)
(* answered for once, and announced as over once, after that.  Batches are *)
(* answered for as a whole.  When the process ends, whatever was under way *)
(* is forgotten.                                                           *)
(*                                                                         *)
(* Modelled from the contract between Engine::finish_transaction           *)
(* (crates/httpmate-core/src/proxy.rs) and StoreHandle::insert (store.rs). *)
(* Engine implements it with a store that is one answer per insert, and    *)
(* Pipeline with the store's channel, batches, failures and crashes: the   *)
(* first is what the second allows.                                        *)
(***************************************************************************)
EXTENDS Integers

CONSTANTS Ids       \* transaction ids

VARIABLES
    stage,      \* stage[i]: how far transaction i is
    verdict     \* verdict[i]: what became of its insert

vars == <<stage, verdict>>

Stages   == {"free", "active", "sent", "answered", "announced"}
Verdicts == {"none", "stored", "refused"}

Init ==
    /\ stage = [i \in Ids |-> "free"]
    /\ verdict = [i \in Ids |-> "none"]

\* Ids are given out in ascending order.
Begin(i) ==
    /\ \A j \in Ids : j >= i => stage[j] = "free"
    /\ stage' = [stage EXCEPT ![i] = "active"]
    /\ UNCHANGED verdict

Send(i) ==
    /\ stage[i] = "active"
    /\ stage' = [stage EXCEPT ![i] = "sent"]
    /\ UNCHANGED verdict

Answer(S, v) ==
    /\ \A i \in S : stage[i] = "sent"
    /\ stage' = [i \in Ids |-> IF i \in S THEN "answered" ELSE stage[i]]
    /\ verdict' = [i \in Ids |-> IF i \in S THEN v ELSE verdict[i]]

Announce(i) ==
    /\ stage[i] = "answered"
    /\ stage' = [stage EXCEPT ![i] = "announced"]
    /\ UNCHANGED verdict

Forget ==
    /\ stage' = [i \in Ids |-> "free"]
    /\ verdict' = [i \in Ids |-> "none"]

Next ==
    \/ \E i \in Ids : Begin(i) \/ Send(i) \/ Announce(i)
    \/ \E S \in SUBSET Ids, v \in Verdicts \ {"none"} : Answer(S, v)
    \/ Forget

Spec == Init /\ [][Next]_vars
=============================================================================
