---------------------------- MODULE StageLedger ----------------------------
(***************************************************************************)
(* What a pipeline of item stages promises, whatever threads, failures,    *)
(* crashes and restarts it goes through: every (stage, item) pair is       *)
(* decided at most once, for good, and only after every stage it depends   *)
(* on has completed the item.  The classes of pipeline/node.py state it as *)
(* the item lifecycle and the resumability rule of StageNode (37-45) and   *)
(* as the propagation rule of ready_items (106-115).                       *)
(***************************************************************************)
EXTENDS Integers

CONSTANTS Stages, Items, Deps

VARIABLE status

Decided == {"done", "skipped"}

LedgerInit == status = [s \in Stages |-> [i \in Items |-> "pending"]]

Propagated(s, i) == \A d \in Deps[s] : status[d][i] = "done"

Decide(s, i) ==
    /\ status[s][i] = "pending"
    /\ Propagated(s, i)
    /\ \E v \in Decided : status' = [status EXCEPT ![s] = [@ EXCEPT ![i] = v]]

LedgerNext == \E s \in Stages, i \in Items : Decide(s, i)

LedgerSpec == LedgerInit /\ [][LedgerNext]_status
=============================================================================
