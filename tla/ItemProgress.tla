---------------------------- MODULE ItemProgress ----------------------------
(***************************************************************************)
(* The durable progress record every pipeline stage keeps under its        *)
(* _progress/ directory (pipeline/progress.py): the sets done.db and       *)
(* skipped.db and the table errors.db.  Each of the three is a file of its *)
(* own and each call of SetStore or KVStore is one committed SQLite        *)
(* transaction, so every operator below changes exactly one of them: what  *)
(* ItemProgress does with two calls is two steps, and a crash may fall     *)
(* between them.  errors.db maps an item to its latest traceback; only     *)
(* whether an item has an entry matters to the code, so it is a set here.  *)
(***************************************************************************)
EXTENDS Integers

CONSTANTS Stages,   \* the StageNodes of one pipeline
          Items     \* item ids; `sorted()` orders them, so they are numbers

ASSUME ItemsAssumption == Items \subseteq Nat

VARIABLES done, skipped, errors

progressVars == <<done, skipped, errors>>

ProgressType ==
    /\ done \in [Stages -> SUBSET Items]
    /\ skipped \in [Stages -> SUBSET Items]
    /\ errors \in [Stages -> SUBSET Items]

EmptyProgress ==
    /\ done = [s \in Stages |-> {}]
    /\ skipped = [s \in Stages |-> {}]
    /\ errors = [s \in Stages |-> {}]

----------------------------------------------------------------------------
(* One SQLite transaction each. *)

DoneAdd(s, i) ==
    /\ done' = [done EXCEPT ![s] = @ \cup {i}]
    /\ UNCHANGED <<skipped, errors>>

SkippedAdd(s, i) ==
    /\ skipped' = [skipped EXCEPT ![s] = @ \cup {i}]
    /\ UNCHANGED <<done, errors>>

ErrorsSet(s, i) ==
    /\ errors' = [errors EXCEPT ![s] = @ \cup {i}]
    /\ UNCHANGED <<done, skipped>>

ErrorsDelete(s, i) ==
    /\ errors' = [errors EXCEPT ![s] = @ \ {i}]
    /\ UNCHANGED <<done, skipped>>

----------------------------------------------------------------------------

\* The items a stage will not process again.
Processable(s) == done[s] \cup skipped[s]
=============================================================================
