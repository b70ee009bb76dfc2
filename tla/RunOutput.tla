------------------------------ MODULE RunOutput ------------------------------
(***************************************************************************)
(* OutputManager.run() over RotatingStrategy: every run writes a directory *)
(* of its own, then the symlink `current` is switched to it and old runs   *)
(* are deleted; an exception aborts the run and deletes its directory.     *)
(* Every call on the file system is a step; any of them may raise, and the *)
(* program may be killed between two of them and started again.            *)
(*                                                                         *)
(* A directory is its number: the sequential id, or the second it was      *)
(* named after.  Ids are padded to a fixed width and sorted as text.       *)
(***************************************************************************)
EXTENDS Naturals, Sequences, FiniteSets

CONSTANTS Keeps,       \* the values of `keep`
          Base, Padded,  \* ids up to Padded have one width (999 in base 10)
          MaxName,     \* bound: the largest id, or second, that is reached
          MaxFinished, \* bound: runs that `current` is switched to
          MaxRunFaults,   \* bound: calls that raise
          MaxRunCrashes   \* bound: kills

ASSUME OutputAssumption ==
    /\ Keeps \subseteq Nat /\ Base \in Nat \ {0, 1}
    /\ {Padded, MaxFinished, MaxRunFaults, MaxRunCrashes} \subseteq Nat
    /\ MaxName \in Nat \ {0}
    /\ MaxName < Base * (Padded + 1)

VARIABLES
    strategy,  \* naming and keep; NoStrategy before the first start
    dirs,      \* run directories that exist
    whole,     \* those that hold all outputs of a run
    link,      \* target of `current`, or NoDir
    temp,      \* target of current.tmp, or NoDir
    step,      \* where run() is: "idle" outside
    runDir,    \* _current_run_dir, or NoDir
    doomed,    \* old runs _cleanup_old_runs still deletes
    now,       \* the clock, in seconds
    finished,  \* the runs `current` was switched to, in order
    spent,     \* faults and kills so far
    unsafe     \* history: a finalize failed after the switch, or a run shared
               \* the directory of an earlier one

filesVars == <<dirs, whole, link, temp>>
outputVars == <<strategy, filesVars, step, runDir, doomed, now, finished, spent, unsafe>>

NoDir == 0
NoStrategy == [naming |-> "none", keep |-> 0]
Names == 1 .. MaxName
Steps == {"idle", "writing", "unlink", "symlink", "rename", "cleanup", "deleting",
          "aborting", "stuck"}

OutputType ==
    /\ strategy \in [naming : {"none", "sequential", "timestamp"}, keep : Keeps \cup {0}]
    /\ whole \subseteq dirs /\ dirs \subseteq Names /\ doomed \subseteq Names
    /\ {link, temp, runDir} \subseteq Names \cup {NoDir}
    /\ step \in Steps /\ now \in Names
    /\ finished \in Seq(Names) /\ spent \in [{"fault", "kill"} -> Nat] /\ unsafe \in BOOLEAN
    /\ step \in Steps \ {"idle"} => runDir # NoDir

OutputInit ==
    /\ strategy = NoStrategy /\ dirs = {} /\ whole = {} /\ link = NoDir /\ temp = NoDir
    /\ step = "idle" /\ runDir = NoDir /\ doomed = {} /\ now = 1
    /\ finished = <<>> /\ spent = [k \in {"fault", "kill"} |-> 0] /\ unsafe = FALSE

----------------------------------------------------------------------------

Sequential == strategy.naming = "sequential"

\* _next_sequential_id.
NextId == 1 + CHOOSE n \in dirs \cup {0} : \A d \in dirs : d <= n

\* Names as text: a wider number sorts by its first digits.
Before(a, b) ==
    IF Sequential
    THEN CASE a <= Padded /\ b > Padded -> a <= b \div Base
           [] a > Padded /\ b <= Padded -> a \div Base < b
           [] OTHER -> a < b
    ELSE a < b

\* Mutants: the newest are deleted; the target of `current` counts as old.
SurplusNewest ==
    LET old == dirs \ {link}
    IN  {d \in old : Cardinality({e \in old : Before(e, d)}) >= strategy.keep}
SurplusOfAll ==
    {d \in dirs : Cardinality({e \in dirs : Before(d, e)}) >= strategy.keep}

\* _cleanup_old_runs: all but the last `keep` directories `current` is not at.
Surplus ==
    LET old == dirs \ {link}
    IN  {d \in old : Cardinality({e \in old : Before(d, e)}) >= strategy.keep}

----------------------------------------------------------------------------
(* The run. *)

Configure ==
    /\ strategy = NoStrategy
    /\ strategy' \in [naming : {"sequential", "timestamp"}, keep : Keeps]
    /\ UNCHANGED <<filesVars, step, runDir, doomed, now, finished, spent, unsafe>>

Tick ==
    /\ strategy.naming = "timestamp" /\ now < MaxName
    /\ now' = now + 1
    /\ UNCHANGED <<strategy, filesVars, step, runDir, doomed, finished, spent, unsafe>>

\* begin_run: mkdir(exist_ok=True).
BeginRun ==
    /\ strategy # NoStrategy /\ step = "idle" /\ Len(finished) < MaxFinished
    /\ runDir' = IF Sequential THEN NextId ELSE now
    /\ runDir' \in Names
    /\ dirs' = dirs \cup {runDir'} /\ whole' = whole \ {runDir'}
    /\ unsafe' = (unsafe \/ runDir' \in dirs)
    /\ step' = "writing"
    /\ UNCHANGED <<strategy, link, temp, doomed, now, finished, spent>>

WriteOutputs ==
    /\ step = "writing"
    /\ whole' = whole \cup {runDir} /\ step' = "unlink"
    /\ UNCHANGED <<strategy, dirs, link, temp, runDir, doomed, now, finished, spent, unsafe>>

\* atomic_symlink, three calls.
UnlinkTemp ==
    /\ step = "unlink"
    /\ temp' = NoDir /\ step' = "symlink"
    /\ UNCHANGED <<strategy, dirs, whole, link, runDir, doomed, now, finished, spent, unsafe>>

SymlinkTemp ==
    /\ step = "symlink"
    /\ temp' = runDir /\ step' = "rename"
    /\ UNCHANGED <<strategy, dirs, whole, link, runDir, doomed, now, finished, spent, unsafe>>

RenameTemp ==
    /\ step = "rename"
    /\ link' = temp /\ temp' = NoDir /\ step' = "cleanup"
    /\ finished' = Append(finished, runDir)
    /\ UNCHANGED <<strategy, dirs, whole, runDir, doomed, now, spent, unsafe>>

Cleanup ==
    /\ step = "cleanup"
    /\ doomed' = Surplus /\ step' = "deleting"
    /\ UNCHANGED <<strategy, filesVars, runDir, now, finished, spent, unsafe>>

\* The directory the next remove_tree takes away: the oldest, or the aborted.
BeingRemoved ==
    IF step = "aborting" THEN {runDir}
    ELSE {d \in doomed : \A e \in doomed \ {d} : Before(d, e)}

DeleteOld ==
    /\ step = "deleting"
    /\ \E d \in BeingRemoved :
        doomed' = doomed \ {d} /\ dirs' = dirs \ {d} /\ whole' = whole \ {d}
    /\ UNCHANGED <<strategy, link, temp, step, runDir, now, finished, spent, unsafe>>

EndRun ==
    /\ step = "deleting" /\ doomed = {}
    /\ step' = "idle" /\ runDir' = NoDir
    /\ UNCHANGED <<strategy, filesVars, doomed, now, finished, spent, unsafe>>

----------------------------------------------------------------------------
(* Exceptions and kills. *)

Spent(k, bound) == spent[k] < bound /\ spent' = [spent EXCEPT ![k] = @ + 1]

\* An exception or a kill inside remove_tree may leave the tree in part.

\* The body or a call of finalize_run raises: run() aborts.
RunRaises ==
    /\ step \in Steps \ {"idle", "aborting", "stuck"}
    /\ Spent("fault", MaxRunFaults)
    /\ whole' \in {whole, whole \ BeingRemoved}
    /\ step' = "aborting" /\ doomed' = {}
    /\ unsafe' = (unsafe \/ step \in {"cleanup", "deleting"})
    /\ UNCHANGED <<strategy, dirs, link, temp, runDir, now, finished>>

AbortRun ==
    /\ step = "aborting"
    /\ dirs' = dirs \ {runDir} /\ whole' = whole \ {runDir}
    /\ step' = "idle" /\ runDir' = NoDir
    /\ UNCHANGED <<strategy, link, temp, doomed, now, finished, spent, unsafe>>

\* abort_run raises: the manager stays in its run and begins no other.
AbortRaises ==
    /\ step = "aborting" /\ Spent("fault", MaxRunFaults)
    /\ whole' \in {whole, whole \ BeingRemoved} /\ step' = "stuck"
    /\ UNCHANGED <<strategy, dirs, link, temp, runDir, doomed, now, finished, unsafe>>

KillRun ==
    /\ step # "idle" /\ Spent("kill", MaxRunCrashes)
    /\ whole' \in {whole, whole \ BeingRemoved}
    /\ step' = "idle" /\ runDir' = NoDir /\ doomed' = {}
    /\ UNCHANGED <<strategy, dirs, link, temp, now, finished, unsafe>>

OutputNext ==
    \/ Configure \/ Tick \/ BeginRun \/ WriteOutputs \/ UnlinkTemp \/ SymlinkTemp
    \/ RenameTemp \/ Cleanup \/ DeleteOld \/ EndRun
    \/ RunRaises \/ AbortRun \/ AbortRaises \/ KillRun

OutputSpec == OutputInit /\ [][OutputNext]_outputVars

----------------------------------------------------------------------------
(* Properties. *)

\* `current` points to the complete outputs of a run at every instant, killed
\* or not (rotating.py:16, _utils.py:101), as long as no finalize failed after
\* the switch and no two runs began in one second.
CurrentIsWhole == unsafe \/ link = NoDir \/ link \in whole

\* Between runs the last `keep` runs before the current one are still there
\* (rotating.py:46), if no kill left a directory that counts as a run and no
\* id outgrew its padding.
RunsKept ==
    step = "idle" /\ ~unsafe /\ spent["kill"] = 0 /\ (Sequential => \A d \in dirs : d <= Padded) =>
        \A i \in DOMAIN finished :
            i >= Len(finished) - strategy.keep => finished[i] \in whole
=============================================================================
