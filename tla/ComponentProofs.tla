--------------------------- MODULE ComponentProofs ---------------------------
(***************************************************************************)
(* Proofs about the components MCComponents checks side by side, but for   *)
(* stage s2 (SharpnessFilterProofs).                                       *)
(*                                                                         *)
(* Run directories: `current` never points to a missing or half-written    *)
(* run.  The invariant says what run() has established at each of its      *)
(* points, and that deletion spares the link.  The last `keep` runs stay,  *)
(* because the runs that finished are the directories there are, in the    *)
(* order of their names.  And no more than `keep` of them stay next to the *)
(* current one, because the order of the names gives each a place.         *)
(*                                                                         *)
(* IniKNet training: what is on disk, and a running copy that is at most   *)
(* one save period ahead of it.                                            *)
(*                                                                         *)
(* basicsr training: a state on disk goes with a whole network of its      *)
(* iteration, and each epoch left behind was trained in full.              *)
(*                                                                         *)
(* Sample grid: rolling the wrong way round is right for an even length.   *)
(*                                                                         *)
(* Topological sort: the order respects the dependencies and only a cycle  *)
(* makes Kahn's algorithm refuse an accepted list.  No induction over the  *)
(* graph is needed: the counts are tied to the nodes not yet in `order`,   *)
(* and when nothing is ready those nodes themselves are the cycle.         *)
(*                                                                         *)
(* At the end, all of them together: the types, and that each behaves as   *)
(* by its own specification.                                               *)
(***************************************************************************)
EXTENDS MCComponents, ThreadPipelineProofs

(* Run directories: the link. *)

\* What run() knows of its directory at its current point.
RunFacts ==
    /\ step \in {"unlink", "symlink", "rename", "cleanup", "deleting"} => runDir \in whole
    /\ step \in {"writing", "unlink", "symlink", "rename", "aborting", "stuck"} => link # runDir

\* No id is reused while its directory is there, so link # NoDir is in whole.
LinkInv == unsafe \/ ((link = NoDir \/ link \in whole) /\ RunFacts)

OutputInv ==
    /\ whole \subseteq dirs /\ NoDir \notin dirs
    /\ step \notin {"idle", "aborting", "stuck"} => runDir \in dirs \cap Names
    /\ step = "rename" => temp = runDir
    /\ step \in {"cleanup", "deleting"} => link = runDir
    /\ link \notin doomed
    /\ step # "deleting" => doomed = {}
    /\ LinkInv

LEMMA OutputStarts == OutputInit => OutputInv
BY DEF OutputInit, OutputInv, LinkInv, RunFacts, NoDir

LEMMA OutputStep == OutputInv /\ [OutputNext]_outputVars => OutputInv'
<1> SUFFICES ASSUME OutputInv, [OutputNext]_outputVars PROVE OutputInv'
  OBVIOUS
<1> USE DEF OutputInv, LinkInv, RunFacts, filesVars
<1>0. NoDir \notin Names
  BY DEF NoDir, Names
<1>1. CASE Configure \/ Tick
  BY <1>1 DEF Configure, Tick
<1>2. CASE BeginRun
  <2>1. runDir' \in Names /\ dirs' = dirs \cup {runDir'} /\ whole' = whole \ {runDir'}
    BY <1>2 DEF BeginRun
  <2>2. unsafe' \/ (~unsafe /\ runDir' \notin dirs)
    BY <1>2 DEF BeginRun
  <2>3. step = "idle" /\ step' = "writing" /\ UNCHANGED <<link, temp, doomed>>
    BY <1>2 DEF BeginRun
  <2>4. ASSUME ~unsafe, runDir' \notin dirs
        PROVE  (link' = NoDir \/ link' \in whole') /\ RunFacts'
    BY <1>0, <2>1, <2>3, <2>4
  <2> QED BY <1>0, <2>1, <2>2, <2>3, <2>4
<1>3. CASE WriteOutputs
  BY <1>3 DEF WriteOutputs
<1>4. CASE UnlinkTemp \/ SymlinkTemp
  BY <1>4 DEF UnlinkTemp, SymlinkTemp
<1>5. CASE RenameTemp
  BY <1>5 DEF RenameTemp
<1>6. CASE Cleanup
  BY <1>6 DEF Cleanup, Surplus
<1>7. CASE DeleteOld
  BY <1>7 DEF DeleteOld, BeingRemoved
<1>8. CASE EndRun
  BY <1>8 DEF EndRun
<1>9. CASE RunRaises
  BY <1>9 DEF RunRaises, BeingRemoved, Steps
<1>10. CASE AbortRun
  BY <1>10 DEF AbortRun
<1>11. CASE AbortRaises
  BY <1>11 DEF AbortRaises, BeingRemoved
<1>12. CASE KillRun
  BY <1>12 DEF KillRun, BeingRemoved
<1>13. CASE UNCHANGED outputVars
  BY <1>13 DEF outputVars
<1> QED
  BY <1>1, <1>2, <1>3, <1>4, <1>5, <1>6, <1>7, <1>8, <1>9, <1>10, <1>11, <1>12, <1>13
  DEF OutputNext

LEMMA OutputInvHolds == OutputSpec => []OutputInv
BY OutputStarts, OutputStep, PTL DEF OutputSpec

\* The symlink `current` points to the whole outputs of a run at every instant.
THEOREM CurrentIsWholeHolds == OutputSpec => []CurrentIsWhole
<1>1. OutputInv => CurrentIsWhole
  BY DEF OutputInv, LinkInv, CurrentIsWhole
<1> QED BY <1>1, OutputInvHolds, PTL

----------------------------------------------------------------------------
(* Run directories: the runs that are kept. *)

\* No finalize failed after the switch, no two runs shared a directory, no kill.
Undisturbed == ~unsafe /\ spent["kill"] = 0

\* The run at hand is not among the finished ones yet.
Begun == step \in {"writing", "unlink", "symlink", "rename", "aborting", "stuck"}

\* The last finished run; `current` is at it.
Last == Len(finished)

\* Every run got a name after those of all runs before it.
InOrder == \A i, j \in DOMAIN finished : i < j => finished[i] < finished[j]

\* The last `keep` runs before the current one, and that, are not given up.
KeepsRecent ==
    (Sequential => link <= Padded) =>
        \A i \in DOMAIN finished : i >= Last - strategy.keep => finished[i] \in whole \ doomed

\* The directories are those of finished runs and of the run at hand.
HistoryInv ==
    /\ InOrder
    /\ link = IF finished = <<>> THEN NoDir ELSE finished[Last]
    /\ \A d \in dirs : (\E i \in DOMAIN finished : d = finished[i]) \/ (Begun /\ d = runDir)
    /\ Begun => \A i \in DOMAIN finished : finished[i] < runDir
    /\ ~Sequential => \A i \in DOMAIN finished : finished[i] <= now
    /\ ~Sequential /\ Begun => runDir <= now
    /\ KeepsRecent

\* What holds in any case, and what holds undisturbed.
KeptInv ==
    /\ finished \in Seq(Names) /\ dirs \subseteq Names /\ now \in Nat
    /\ strategy.keep \in Nat
    /\ strategy = NoStrategy => finished = <<>> /\ step = "idle"
    /\ step # "idle" => runDir \in Names
    /\ step \in Steps
    /\ spent \in [{"fault", "kill"} -> Nat]
    /\ Undisturbed => HistoryInv

\* Names of one width are in the order of their numbers.
LEMMA BeforeIs ==
    ASSUME NEW a \in Names, NEW b \in Names, Sequential => a <= Padded /\ b <= Padded
    PROVE  Before(a, b) <=> a < b
BY OutputAssumption DEF Before, Names

\* Runs between the i-th and the m-th are m - i at most.
LEMMA FewAfter ==
    ASSUME NEW f \in Seq(Names), NEW i \in DOMAIN f, NEW m \in Nat, m <= Len(f),
           NEW S, \A e \in S : \E j \in i + 1 .. m : e = f[j]
    PROVE  IsFiniteSet(S) /\ Cardinality(S) <= IF i < m THEN m - i ELSE 0
<1> DEFINE T == {f[j] : j \in i + 1 .. m}
           g == [j \in i + 1 .. m |-> f[j]]
<1>0. i \in Nat /\ i + 1 \in Int /\ m \in Int
  OBVIOUS
<1>1. IsFiniteSet(i + 1 .. m) /\ Cardinality(i + 1 .. m) = IF i + 1 > m THEN 0 ELSE m - (i + 1) + 1
  BY <1>0, FS_Interval
<1>2. g \in Surjection(i + 1 .. m, T)
  BY DEF Surjection
<1>3. IsFiniteSet(T) /\ Cardinality(T) <= Cardinality(i + 1 .. m)
  BY <1>1, <1>2, FS_Surjection DEF ExistsSurjection
<1>4. S \subseteq T
  OBVIOUS
<1>5. IsFiniteSet(S) /\ Cardinality(S) <= Cardinality(T)
  BY <1>3, <1>4, FS_Subset
<1>6. Cardinality(S) \in Nat /\ Cardinality(T) \in Nat
  BY <1>3, <1>5, FS_CardinalityType
<1> QED BY <1>0, <1>1, <1>3, <1>5, <1>6

\* What cleanup gives up is older than the last `keep` runs.
LEMMA SurplusIsOld ==
    ASSUME OutputInv, KeptInv, Undisturbed, step = "cleanup"
    PROVE  (Sequential => link <= Padded) =>
               \A i \in DOMAIN finished : i >= Last - strategy.keep => finished[i] \notin Surplus
<1> SUFFICES ASSUME Sequential => link <= Padded,
                    NEW i \in DOMAIN finished, i >= Last - strategy.keep, finished[i] \in Surplus
             PROVE  FALSE
  OBVIOUS
<1>1. HistoryInv /\ finished \in Seq(Names) /\ strategy.keep \in Nat /\ ~Begun
  BY DEF KeptInv, Begun
<1>2. /\ i \in 1 .. Last /\ Last \in Nat /\ link = finished[Last] /\ link \in Names
      /\ \A k \in DOMAIN finished : finished[k] \in Names
  BY <1>1 DEF HistoryInv, Last
<1> DEFINE old == dirs \ {link}
           later == {e \in old : Before(finished[i], e)}
<1>3. finished[i] \in old /\ Cardinality(later) >= strategy.keep
  BY DEF Surplus
<1>4. i < Last
  BY <1>2, <1>3
<1>5. \A k \in DOMAIN finished : finished[k] <= link
  <2> SUFFICES ASSUME NEW k \in DOMAIN finished PROVE finished[k] <= link
    OBVIOUS
  <2>1. k = Last \/ k < Last
    BY <1>1 DEF Last
  <2>2. k < Last => finished[k] < finished[Last]
    BY <1>1, <1>2 DEF HistoryInv, InOrder, Last
  <2> QED BY <1>2, <2>1, <2>2 DEF Names
<1>6. \A e \in later : \E j \in i + 1 .. Last - 1 : e = finished[j]
  <2> SUFFICES ASSUME NEW e \in later PROVE \E j \in i + 1 .. Last - 1 : e = finished[j]
    OBVIOUS
  <2>1. PICK j \in DOMAIN finished : e = finished[j]
    BY <1>1 DEF HistoryInv
  <2>2. finished[i] < finished[j]
    <3>1. Sequential => finished[i] <= Padded /\ finished[j] <= Padded
      BY <1>2, <1>5, OutputAssumption DEF Names
    <3> QED BY <1>2, <2>1, <3>1, BeforeIs
  <2>3. i < j
    <3>1. j < i => finished[j] < finished[i]
      BY <1>1 DEF HistoryInv, InOrder
    <3> QED BY <1>1, <1>2, <2>2, <3>1 DEF Names
  <2>4. j # Last
    BY <1>2, <2>1
  <2> QED BY <1>1, <2>1, <2>3, <2>4 DEF Last
<1>7. /\ IsFiniteSet(later)
      /\ Cardinality(later) <= IF i < Last - 1 THEN Last - 1 - i ELSE 0
  <2>1. Last - 1 \in Nat /\ Last - 1 <= Len(finished) /\ i \in DOMAIN finished
    BY <1>2 DEF Last
  <2> HIDE DEF later
  <2> QED BY <1>1, <1>6, <2>1, FewAfter
<1>8. Cardinality(later) \in Nat
  BY <1>7, FS_CardinalityType
<1>9. strategy.keep >= 1
  BY <1>1, <1>2, <1>4
<1> QED BY <1>1, <1>2, <1>3, <1>4, <1>7, <1>8, <1>9

LEMMA KeptInvInit == OutputInit => KeptInv
<1> SUFFICES ASSUME OutputInit PROVE KeptInv
  OBVIOUS
<1>1. /\ finished = <<>> /\ dirs = {} /\ now \in Nat /\ strategy.keep \in Nat /\ step = "idle"
      /\ spent \in [{"fault", "kill"} -> Nat] /\ link = NoDir
  BY OutputAssumption DEF OutputInit, NoStrategy
<1> QED BY <1>1 DEF KeptInv, HistoryInv, InOrder, Begun, KeepsRecent, Steps

\* A run begins in a directory later than those of all finished ones.
LEMMA BegunIsLater ==
    ASSUME OutputInv, KeptInv, Undisturbed, BeginRun, ~unsafe'
    PROVE  /\ runDir' \in Names /\ runDir' \notin dirs
           /\ \A i \in DOMAIN finished : finished[i] < runDir'
<1>1. HistoryInv /\ finished \in Seq(Names) /\ dirs \subseteq Names /\ now \in Nat /\ ~Begun
  BY DEF KeptInv, Begun, BeginRun
<1>2. runDir' \in Names /\ runDir' \notin dirs
      /\ runDir' = IF Sequential THEN NextId ELSE now
  BY DEF BeginRun
<1> SUFFICES ASSUME NEW i \in DOMAIN finished PROVE finished[i] < runDir'
  BY <1>2
<1>3. /\ Last \in Nat /\ i \in 1 .. Last /\ link = finished[Last] /\ link \in Names
      /\ \A k \in DOMAIN finished : finished[k] \in Names
  BY <1>1 DEF HistoryInv, Last
<1>4. \A k \in DOMAIN finished : finished[k] <= link
  <2> SUFFICES ASSUME NEW k \in DOMAIN finished PROVE finished[k] <= link
    OBVIOUS
  <2>1. k = Last \/ k < Last
    BY <1>1 DEF Last
  <2>2. k < Last => finished[k] < finished[Last]
    BY <1>1, <1>3 DEF HistoryInv, InOrder, Last
  <2> QED BY <1>3, <2>1, <2>2 DEF Names
<1>5. link \in dirs
  BY <1>3 DEF OutputInv, LinkInv, Undisturbed, NoDir, Names
<1>6. CASE Sequential
  <2>1. \A d \in dirs : d <= link
    BY <1>1, <1>4 DEF HistoryInv
  <2>2. \E n \in dirs \cup {0} : \A d \in dirs : d <= n
    BY <1>5, <2>1
  <2> DEFINE latest == CHOOSE n \in dirs \cup {0} : \A d \in dirs : d <= n
  <2>3. latest \in dirs \cup {0} /\ \A d \in dirs : d <= latest
    BY <2>2
  <2>4. NextId = 1 + latest
    BY DEF NextId
  <2> HIDE DEF latest
  <2>5. link <= latest /\ latest \in Nat /\ link \in Nat
    BY <1>1, <1>3, <1>5, <2>3 DEF Names
  <2> QED BY <1>2, <1>3, <1>4, <1>6, <2>4, <2>5 DEF Names
<1>7. CASE ~Sequential
  <2>1. runDir' = now /\ link # now /\ link <= now
    BY <1>1, <1>2, <1>3, <1>5, <1>7 DEF HistoryInv, Last
  <2> QED BY <1>1, <1>3, <1>4, <2>1 DEF Names
<1> QED BY <1>6, <1>7

\* The preservation of KeptInv, an action at a time.
LEMMA BeginRunKeeps == ASSUME OutputInv, KeptInv, BeginRun PROVE KeptInv'
<1>1. /\ strategy # NoStrategy /\ step = "idle" /\ step' = "writing" /\ runDir' \in Names
      /\ dirs' = dirs \cup {runDir'} /\ whole' = whole \ {runDir'}
      /\ UNCHANGED <<strategy, link, doomed, now, finished, spent>>
  BY DEF BeginRun
<1>2. unsafe => unsafe'
  BY DEF BeginRun
<1>3. ASSUME Undisturbed'
      PROVE  HistoryInv'
  <2>1. Undisturbed
    BY <1>1, <1>2, <1>3 DEF Undisturbed
  <2>2. HistoryInv /\ ~Begun
    BY <1>1, <2>1 DEF KeptInv, Begun
  <2>3. runDir' \notin dirs /\ \A i \in DOMAIN finished : finished[i] < runDir'
    BY <1>3, <2>1, BegunIsLater DEF Undisturbed
  <2>4. \A i \in DOMAIN finished : finished[i] \in whole \ doomed =>
            finished[i] \in whole' \ doomed'
    BY <1>1, <2>3 DEF OutputInv
  <2>5. ~Sequential => runDir' <= now
    BY DEF BeginRun, KeptInv
  <2>6. Sequential' = Sequential /\ Last' = Last
    BY <1>1 DEF Sequential, Last
  <2>7. KeepsRecent'
    BY <1>1, <2>2, <2>4, <2>6 DEF HistoryInv, KeepsRecent
  <2>8. InOrder'
    BY <1>1, <2>2 DEF HistoryInv, InOrder
  <2>9. \A d \in dirs' : (\E i \in DOMAIN finished : d = finished[i]) \/ d = runDir'
    BY <1>1, <2>2 DEF HistoryInv
  <2> QED BY <1>1, <2>2, <2>3, <2>5, <2>6, <2>7, <2>8, <2>9 DEF HistoryInv, Begun
<1> QED BY <1>1, <1>3 DEF KeptInv, Steps

LEMMA RenameKeeps == ASSUME OutputInv, KeptInv, RenameTemp PROVE KeptInv'
<1>1. /\ step = "rename" /\ step' = "cleanup" /\ link' = temp /\ temp = runDir
      /\ finished' = Append(finished, runDir)
      /\ UNCHANGED <<strategy, dirs, whole, runDir, doomed, now, spent, unsafe>>
  BY DEF RenameTemp, OutputInv
<1>2. finished \in Seq(Names) /\ runDir \in Names /\ strategy # NoStrategy
  BY <1>1 DEF KeptInv
<1>3. /\ Last \in Nat /\ Len(finished') = Last + 1 /\ DOMAIN finished' = 1 .. Last + 1
      /\ DOMAIN finished = 1 .. Last /\ finished'[Last + 1] = runDir
      /\ \A i \in DOMAIN finished : finished'[i] = finished[i]
  BY <1>1, <1>2 DEF Last
<1>4. ASSUME Undisturbed'
      PROVE  HistoryInv'
  <2>1. Undisturbed
    BY <1>1, <1>4 DEF Undisturbed
  <2>2. HistoryInv /\ Begun /\ ~Begun'
    BY <1>1, <2>1 DEF KeptInv, Begun
  <2>3. InOrder'
    BY <1>3, <1>1, <2>2 DEF HistoryInv, InOrder
  <2>4. link' = IF finished' = <<>> THEN NoDir ELSE finished'[Last']
    BY <1>1, <1>2, <1>3 DEF Last
  <2>5. \A d \in dirs' : \E i \in DOMAIN finished' : d = finished'[i]
    <3> SUFFICES ASSUME NEW d \in dirs' PROVE \E i \in DOMAIN finished' : d = finished'[i]
      OBVIOUS
    <3>1. CASE d = runDir
      BY <1>3, <3>1
    <3>2. CASE d # runDir
      <4>1. PICK i \in DOMAIN finished : d = finished[i]
        BY <1>1, <2>2, <3>2 DEF HistoryInv
      <4> QED BY <1>3, <4>1
    <3> QED BY <3>1, <3>2
  <2>6. ~Sequential' => \A i \in DOMAIN finished' : finished'[i] <= now'
    BY <1>1, <1>3, <2>2 DEF HistoryInv, Sequential
  <2>7. KeepsRecent'
    <3>0. Last' = Last + 1 /\ link' = runDir
          /\ UNCHANGED <<strategy, whole, doomed>>
      BY <1>1, <1>3 DEF Last
    <3> SUFFICES ASSUME Sequential' => link' <= Padded,
                        NEW i \in DOMAIN finished', i >= Last' - strategy'.keep
                 PROVE  finished'[i] \in whole' \ doomed'
      BY DEF KeepsRecent
    <3>1. runDir \in whole \ doomed
      BY <1>1, <2>1 DEF OutputInv, LinkInv, RunFacts, Undisturbed
    <3>2. CASE i \in DOMAIN finished
      <4>1. finished[Last] \in Names /\ link = finished[Last] /\ finished[Last] < runDir
        <5>1. Last \in DOMAIN finished /\ finished # <<>>
          BY <1>3, <3>2
        <5> QED BY <1>2, <2>2, <5>1 DEF HistoryInv
      <4>2. Sequential => link <= Padded
        BY <1>2, <3>0, <4>1, OutputAssumption DEF Names, Sequential
      <4>3. i >= Last - strategy.keep
        BY <1>3, <3>0 DEF KeptInv
      <4> QED BY <1>3, <3>0, <2>2, <3>2, <4>2, <4>3 DEF HistoryInv, KeepsRecent
    <3> QED BY <1>3, <3>0, <3>1, <3>2
  <2> QED BY <2>2, <2>3, <2>4, <2>5, <2>6, <2>7 DEF HistoryInv
<1> QED BY <1>1, <1>2, <1>4 DEF KeptInv, Steps

LEMMA CleanupKeeps == ASSUME OutputInv, KeptInv, Cleanup PROVE KeptInv'
<1>1. /\ step = "cleanup" /\ step' = "deleting" /\ doomed = {} /\ doomed' = Surplus
      /\ UNCHANGED <<strategy, dirs, whole, link, runDir, now, finished, spent, unsafe>>
  BY DEF Cleanup, OutputInv, filesVars
<1>2. Undisturbed' = Undisturbed /\ Sequential' = Sequential /\ Last' = Last
      /\ ~Begun /\ ~Begun' /\ InOrder' = InOrder
  BY <1>1 DEF Undisturbed, Sequential, Last, Begun, InOrder
<1>3. Undisturbed => KeepsRecent'
  BY <1>1, <1>2, SurplusIsOld DEF KeptInv, HistoryInv, KeepsRecent
<1>4. Undisturbed => HistoryInv'
  BY <1>1, <1>2, <1>3 DEF KeptInv, HistoryInv
<1> QED BY <1>1, <1>2, <1>4 DEF KeptInv, Steps

LEMMA DeleteKeeps == ASSUME OutputInv, KeptInv, DeleteOld PROVE KeptInv'
<1>1. /\ step' = step /\ dirs' \subseteq dirs /\ whole \ doomed \subseteq whole' \ doomed'
      /\ UNCHANGED <<strategy, link, runDir, now, finished, spent, unsafe>>
  BY DEF DeleteOld, BeingRemoved
<1>2. Undisturbed' = Undisturbed /\ Sequential' = Sequential /\ Last' = Last
      /\ Begun' = Begun /\ InOrder' = InOrder
  BY <1>1 DEF Undisturbed, Sequential, Last, Begun, InOrder
<1>3. KeepsRecent => KeepsRecent'
  BY <1>1, <1>2 DEF KeepsRecent
<1>4. Undisturbed => HistoryInv'
  BY <1>1, <1>2, <1>3 DEF KeptInv, HistoryInv
<1> QED BY <1>1, <1>2, <1>4 DEF KeptInv

\* Calls that change no finished run: writing, the two before the rename, the
\* end, and what raises.
LEMMA QuietKeeps ==
    ASSUME OutputInv, KeptInv, UNCHANGED <<strategy, link, now, finished>>,
           step' \in Steps, strategy = NoStrategy => step' = "idle",
           spent' \in [{"fault", "kill"} -> Nat], Undisturbed' => Undisturbed,
           dirs' \subseteq dirs,
           step' # "idle" => runDir' = runDir /\ step # "idle",
           Begun' => Begun,
           Undisturbed' => /\ \A i \in DOMAIN finished :
                                  finished[i] \in whole \ doomed => finished[i] \in whole' \ doomed'
                           /\ Begun => Begun' \/ runDir \notin dirs'
    PROVE  KeptInv'
<1>1. Sequential' = Sequential /\ Last' = Last /\ InOrder' = InOrder
  BY DEF Sequential, Last, InOrder
<1>2. ASSUME Undisturbed'
      PROVE  HistoryInv'
  <2>1. HistoryInv
    BY <1>2 DEF KeptInv
  <2>2. KeepsRecent'
    BY <1>1, <1>2, <2>1 DEF HistoryInv, KeepsRecent
  <2>3. Begun' => runDir' = runDir
    BY DEF Begun
  <2>4. \A d \in dirs' : (\E i \in DOMAIN finished : d = finished[i]) \/ (Begun' /\ d = runDir')
    BY <1>2, <2>1, <2>3 DEF HistoryInv
  <2> QED BY <1>1, <2>1, <2>2, <2>3, <2>4 DEF HistoryInv
<1> QED BY <1>2 DEF KeptInv

LEMMA RaiseKeeps == ASSUME OutputInv, KeptInv, RunRaises PROVE KeptInv'
<1>1. /\ step \in Steps \ {"idle", "aborting", "stuck"} /\ step' = "aborting" /\ doomed' = {}
      /\ whole \ doomed \subseteq whole' /\ whole' \subseteq whole
      /\ spent' = [spent EXCEPT !["fault"] = @ + 1]
      /\ UNCHANGED <<strategy, dirs, link, temp, runDir, now, finished>>
  BY DEF RunRaises, BeingRemoved, Spent
<1>2. unsafe' = (unsafe \/ step \in {"cleanup", "deleting"})
  BY DEF RunRaises
<1>3. spent' \in [{"fault", "kill"} -> Nat] /\ spent'["kill"] = spent["kill"]
  BY <1>1 DEF KeptInv
<1>4. Undisturbed' => Undisturbed /\ Begun /\ doomed = {}
  BY <1>1, <1>2, <1>3 DEF Undisturbed, Begun, Steps, OutputInv
<1>5. Begun' /\ step' \in Steps
  BY <1>1 DEF Begun, Steps
<1>6. CASE Undisturbed'
  <2>1. whole' = whole
    BY <1>1, <1>4, <1>6
  <2> QED BY <1>1, <1>3, <1>4, <1>5, <1>6, <2>1, QuietKeeps DEF KeptInv
<1>7. CASE ~Undisturbed'
  BY <1>1, <1>3, <1>5, <1>7 DEF KeptInv
<1> QED BY <1>6, <1>7

LEMMA OthersKeep ==
    ASSUME OutputInv, KeptInv,
           \/ WriteOutputs \/ UnlinkTemp \/ SymlinkTemp \/ EndRun \/ AbortRun \/ AbortRaises
           \/ KillRun
    PROVE  KeptInv'
<1>1. CASE WriteOutputs \/ UnlinkTemp \/ SymlinkTemp
  BY <1>1, QuietKeeps
  DEF WriteOutputs, UnlinkTemp, SymlinkTemp, Undisturbed, Begun, Steps, KeptInv
<1>2. CASE EndRun
  BY <1>2, QuietKeeps DEF EndRun, Undisturbed, Begun, Steps, KeptInv, filesVars
<1>3. CASE AbortRun
  <2>1. \A i \in DOMAIN finished : Undisturbed => finished[i] # runDir
    BY <1>3 DEF AbortRun, KeptInv, HistoryInv, Begun, Names
  <2> QED BY <1>3, <2>1, QuietKeeps DEF AbortRun, Undisturbed, Begun, Steps, KeptInv
<1>4. CASE AbortRaises
  <2>1. \A i \in DOMAIN finished : Undisturbed => finished[i] # runDir
    BY <1>4 DEF AbortRaises, KeptInv, HistoryInv, Begun, Names
  <2>3. whole \ {runDir} \subseteq whole'
    BY <1>4 DEF AbortRaises, BeingRemoved
  <2>2. spent' \in [{"fault", "kill"} -> Nat] /\ spent'["kill"] = spent["kill"]
    BY <1>4 DEF AbortRaises, Spent, KeptInv
  <2> QED BY <1>4, <2>1, <2>2, <2>3, QuietKeeps
      DEF AbortRaises, Undisturbed, Begun, Steps, KeptInv
<1>5. CASE KillRun
  <2>1. spent' \in [{"fault", "kill"} -> Nat] /\ spent'["kill"] = spent["kill"] + 1
        /\ spent["kill"] \in Nat
    BY <1>5 DEF KillRun, Spent, KeptInv
  <2>2. ~Undisturbed'
    BY <2>1 DEF Undisturbed
  <2> QED BY <1>5, <2>1, <2>2 DEF KillRun, KeptInv, Steps, filesVars
<1> QED BY <1>1, <1>2, <1>3, <1>4, <1>5

\* The history is as KeptInv says in every reachable state.
LEMMA KeptInvHolds == OutputSpec => []KeptInv
<1>1. OutputInv /\ KeptInv /\ [OutputNext]_outputVars => KeptInv'
  <2> SUFFICES ASSUME OutputInv, KeptInv, [OutputNext]_outputVars PROVE KeptInv'
    OBVIOUS
  <2>1. CASE Configure
    <3>1. finished = <<>> /\ step = "idle" /\ strategy'.keep \in Nat
      BY <2>1, OutputAssumption DEF Configure, KeptInv
    <3>2. UNCHANGED <<dirs, whole, link, step, runDir, doomed, now, finished, spent, unsafe>>
      BY <2>1 DEF Configure, filesVars
    <3> QED BY <3>1, <3>2
        DEF KeptInv, HistoryInv, Undisturbed, InOrder, Begun, KeepsRecent
  <2>2. CASE Tick
    <3>1. now' = now + 1
          /\ UNCHANGED <<strategy, dirs, whole, link, step, runDir, doomed, finished, spent, unsafe>>
      BY <2>2 DEF Tick, filesVars
    <3>2. Undisturbed' = Undisturbed /\ InOrder' = InOrder /\ Begun' = Begun
          /\ KeepsRecent' = KeepsRecent /\ Sequential' = Sequential /\ Last' = Last
      BY <3>1 DEF Undisturbed, InOrder, Begun, KeepsRecent, Sequential, Last
    <3>3. ASSUME HistoryInv
          PROVE  HistoryInv'
      <4>0. now \in Nat /\ \A i \in DOMAIN finished : finished[i] \in Names
        BY DEF KeptInv
      <4>1. now \in Nat /\ \A i \in DOMAIN finished : finished[i] \in Nat
        BY <4>0 DEF Names
      <4>2. ~Sequential => \A i \in DOMAIN finished : finished[i] <= now'
        BY <3>1, <3>3, <4>1 DEF HistoryInv
      <4>3. ~Sequential /\ Begun => runDir <= now'
        BY <3>1, <3>3, <4>1 DEF HistoryInv, Begun, KeptInv, Names
      <4> QED BY <3>1, <3>2, <3>3, <4>2, <4>3 DEF HistoryInv
    <3> QED BY <3>1, <3>2, <3>3 DEF KeptInv
  <2>3. CASE UNCHANGED outputVars
    <3>1. UNCHANGED <<strategy, dirs, whole, link, temp, step, runDir, doomed, now, finished,
                      spent, unsafe>>
      BY <2>3 DEF outputVars, filesVars
    <3> QED BY <3>1 DEF KeptInv, HistoryInv, Undisturbed, InOrder, Begun, KeepsRecent,
                        Sequential, Last
  <2> QED
    BY <2>1, <2>2, <2>3, BeginRunKeeps, RenameKeeps, CleanupKeeps, DeleteKeeps, RaiseKeeps,
       OthersKeep
    DEF OutputNext
<1> QED BY <1>1, KeptInvInit, OutputInvHolds, PTL DEF OutputSpec

\* Between runs the last `keep` runs before the current one are whole, for
\* every `keep` and every padding of the ids.
THEOREM RunsKeptHolds == OutputSpec => []RunsKept
<1>1. OutputInv /\ KeptInv => RunsKept
  <2> SUFFICES ASSUME OutputInv, KeptInv, Undisturbed, step = "idle",
                      Sequential => \A d \in dirs : d <= Padded,
                      NEW i \in DOMAIN finished, i >= Last - strategy.keep
               PROVE  finished[i] \in whole
    BY DEF RunsKept, Undisturbed, Last
  <2>1. HistoryInv /\ finished \in Seq(Names)
    BY DEF KeptInv
  <2>2. link \in Names
    BY <2>1 DEF HistoryInv, Last
  <2>3. link \in dirs
    BY <2>2 DEF OutputInv, LinkInv, Undisturbed, NoDir, Names
  <2> QED BY <2>1, <2>3 DEF HistoryInv, KeepsRecent
<1> QED BY <1>1, OutputInvHolds, KeptInvHolds, PTL

----------------------------------------------------------------------------
(***************************************************************************)
(* Run directories: how many stay.  Whatever was killed or failed before,  *)
(* a run that ends has brought them down to `keep` and the current one, so *)
(* what interrupted runs left behind does not pile up.  The count needs    *)
(* the text order of the ids to be an order, also once they have outgrown  *)
(* their padding: then each directory stands at a place of its own.        *)
(***************************************************************************)

LEMMA QuotientGrows ==
    ASSUME NEW n \in Nat \ {0}, NEW a \in Nat, NEW b \in Nat
    PROVE  /\ a \div n \in Nat /\ b \div n \in Nat
           /\ a <= b => a \div n <= b \div n
<1> DEFINE p == a \div n
           q == b \div n
<1>1. p \in Nat /\ a % n \in 0 .. n - 1 /\ a = (n * p) + (a % n)
  OBVIOUS
<1>2. q \in Nat /\ b % n \in 0 .. n - 1 /\ b = (n * q) + (b % n)
  OBVIOUS
<1> HIDE DEF p, q
<1>3. ASSUME a <= b, q < p PROVE FALSE
  <2>1. PICK d \in Nat : p = q + 1 + d
    <3>1. p = q + 1 + (p - q - 1) /\ p - q - 1 \in Nat
      BY <1>1, <1>2, <1>3
    <3> QED BY <3>1
  <2>2. n * p = n * q + n + n * d
    BY <1>2, <2>1
  <2>3. n * d \in Nat /\ n * q \in Nat
    BY <1>2, <2>1
  <2>4. PICK r \in 0 .. n - 1 : a = n * p + r
    BY <1>1
  <2>5. PICK s \in 0 .. n - 1 : b = n * q + s
    BY <1>2
  <2> QED BY <1>3, <2>2, <2>3, <2>4, <2>5
<1>4. a <= b => p <= q
  BY <1>1, <1>2, <1>3
<1> QED BY <1>1, <1>2, <1>4 DEF p, q

\* Ids as text are in a strict order, of whatever width.
LEMMA BeforeIsOrder ==
    /\ \A a \in Names : ~Before(a, a)
    /\ \A a, b \in Names : a # b => Before(a, b) \/ Before(b, a)
    /\ \A a, b, c \in Names : Before(a, b) /\ Before(b, c) => Before(a, c)
<1> DEFINE Cut(a) == a \div Base
<1>1. Padded \in Nat /\ Base \in Nat \ {0} /\ Names \subseteq Nat
  BY OutputAssumption DEF Names
<1>2. \A a, b \in Names : Cut(a) \in Nat /\ (a <= b => Cut(a) <= Cut(b))
  BY <1>1, QuotientGrows
<1>3. ASSUME NEW a \in Names, NEW b \in Names
      PROVE  /\ a \in Nat /\ b \in Nat
             /\ Sequential /\ a <= Padded /\ b > Padded => (Before(a, b) <=> a <= Cut(b))
             /\ Sequential /\ a > Padded /\ b <= Padded => (Before(a, b) <=> Cut(a) < b)
             /\ ~Sequential \/ (a <= Padded <=> b <= Padded) => (Before(a, b) <=> a < b)
  <2>1. a \in Nat /\ b \in Nat
    BY <1>1
  <2> QED BY <1>1, <2>1 DEF Before
<1> HIDE DEF Cut
<1>4. ASSUME NEW a \in Names PROVE ~Before(a, a)
  <2>1. a \in Nat /\ (Before(a, a) <=> a < a)
    BY <1>3
  <2> QED BY <2>1
<1>5. ASSUME NEW a \in Names, NEW b \in Names, a # b PROVE Before(a, b) \/ Before(b, a)
  <2>1. a \in Nat /\ b \in Nat /\ Cut(a) \in Nat /\ Cut(b) \in Nat
    BY <1>2, <1>3
  <2>2. CASE ~Sequential \/ (a <= Padded <=> b <= Padded)
    BY <1>3, <1>5, <2>1, <2>2
  <2>3. CASE Sequential /\ a <= Padded /\ b > Padded
    BY <1>3, <2>1, <2>3
  <2>4. CASE Sequential /\ a > Padded /\ b <= Padded
    BY <1>3, <2>1, <2>4
  <2> QED BY <1>1, <2>1, <2>2, <2>3, <2>4
<1>6. ASSUME NEW a \in Names, NEW b \in Names, NEW c \in Names, Before(a, b), Before(b, c)
      PROVE  Before(a, c)
  <2>1. a \in Nat /\ b \in Nat /\ c \in Nat /\ Cut(a) \in Nat /\ Cut(b) \in Nat /\ Cut(c) \in Nat
    BY <1>2, <1>3
  <2>2. /\ a <= b => Cut(a) <= Cut(b)
        /\ b <= c => Cut(b) <= Cut(c)
        /\ c <= a => Cut(c) <= Cut(a)
    BY <1>2
  <2>3. Before(a, b) /\ Before(b, c)
    BY <1>6
  <2>4. /\ Sequential /\ a <= Padded /\ b > Padded => a <= Cut(b)
        /\ Sequential /\ a > Padded /\ b <= Padded => Cut(a) < b
        /\ ~Sequential \/ (a <= Padded <=> b <= Padded) => a < b
    BY <1>3, <2>3
  <2>5. /\ Sequential /\ b <= Padded /\ c > Padded => b <= Cut(c)
        /\ Sequential /\ b > Padded /\ c <= Padded => Cut(b) < c
        /\ ~Sequential \/ (b <= Padded <=> c <= Padded) => b < c
    BY <1>3, <2>3
  <2>6. /\ Sequential /\ a <= Padded /\ c > Padded => a <= Cut(c)
        /\ Sequential /\ a > Padded /\ c <= Padded => Cut(a) < c
        /\ ~Sequential \/ (a <= Padded <=> c <= Padded) => a < c
    BY <1>1, <2>1, <2>2, <2>4, <2>5
  <2>7. /\ Sequential /\ a <= Padded /\ c > Padded => (Before(a, c) <=> a <= Cut(c))
        /\ Sequential /\ a > Padded /\ c <= Padded => (Before(a, c) <=> Cut(a) < c)
        /\ ~Sequential \/ (a <= Padded <=> c <= Padded) => (Before(a, c) <=> a < c)
    BY <1>3
  <2> QED BY <1>1, <2>1, <2>6, <2>7
<1> QED BY <1>4, <1>5, <1>6

\* A directory that is before another has all that come after that one behind
\* it, and that one itself.
LEMMA PlaceIsOwn ==
    ASSUME NEW S \in SUBSET Names, IsFiniteSet(S), NEW d \in S, NEW e \in S, Before(d, e)
    PROVE  /\ Cardinality({x \in S : Before(e, x)}) \in Nat
           /\ Cardinality({x \in S : Before(d, x)}) \in Nat
           /\ Cardinality({x \in S : Before(e, x)}) < Cardinality({x \in S : Before(d, x)})
<1> DEFINE After(y) == {x \in S : Before(y, x)}
<1>1. IsFiniteSet(After(d)) /\ IsFiniteSet(After(e))
  BY FS_Subset
<1>2. After(e) \in SUBSET After(d) /\ e \in After(d) /\ e \notin After(e)
  BY BeforeIsOrder
<1> HIDE DEF After
<1>3. Cardinality(After(e)) <= Cardinality(After(d)) /\ Cardinality(After(e)) # Cardinality(After(d))
  BY <1>1, <1>2, FS_Subset
<1>4. Cardinality(After(e)) \in Nat /\ Cardinality(After(d)) \in Nat
  BY <1>1, FS_CardinalityType
<1> QED BY <1>3, <1>4 DEF After

\* The last k of a set of directories are at most k.
LEMMA LastFewAreFew ==
    ASSUME NEW S \in SUBSET Names, IsFiniteSet(S), NEW k \in Nat
    PROVE  Cardinality({d \in S : ~(Cardinality({x \in S : Before(d, x)}) >= k)}) <= k
<1> DEFINE Place(d) == Cardinality({x \in S : Before(d, x)})
           Few == {d \in S : ~(Place(d) >= k)}
           place == [d \in Few |-> Place(d)]
<1>1. \A d \in S : Place(d) \in Nat
  BY FS_Subset, FS_CardinalityType
<1>2. \A d, e \in S : Before(d, e) => Place(e) < Place(d)
  BY PlaceIsOwn
<1>3. \A d \in Few : d \in S /\ d \in Names
  OBVIOUS
<1> HIDE DEF Place
<1>4. place \in [Few -> 0 .. k - 1]
  BY <1>1
<1>5. \A d, e \in Few : place[d] = place[e] => d = e
  <2> SUFFICES ASSUME NEW d \in Few, NEW e \in Few, d # e PROVE Place(d) # Place(e)
    OBVIOUS
  <2>1. Before(d, e) \/ Before(e, d)
    BY <1>3, BeforeIsOrder
  <2> QED BY <1>1, <1>2, <1>3, <2>1
<1> HIDE DEF Few
<1>6. place \in Injection(Few, 0 .. k - 1)
  BY <1>4, <1>5 DEF Injection, IsInjective
<1>7. IsFiniteSet(0 .. k - 1) /\ Cardinality(0 .. k - 1) = k
  BY FS_Interval
<1> QED BY <1>6, <1>7, FS_Injection DEF Few, Place

\* Cleanup has taken up all but `keep` directories besides that of `current`.
FewInv ==
    step = "deleting" =>
        /\ Cardinality((dirs \ {link}) \ doomed) \in Nat
        /\ Cardinality((dirs \ {link}) \ doomed) <= strategy.keep

\* A run that ends leaves no more than that.
OldRunsGo == [][EndRun => Cardinality(dirs \ {link}) <= strategy.keep]_outputVars

LEMMA NamesFinite == \A S \in SUBSET Names : IsFiniteSet(S)
<1>1. PICK n \in Nat : n = MaxName
  BY OutputAssumption
<1>2. IsFiniteSet(1 .. n)
  BY FS_Interval
<1> QED BY <1>1, <1>2, FS_Subset DEF Names

LEMMA CleanupLeavesFew == ASSUME KeptInv, Cleanup PROVE FewInv'
<1> DEFINE old == dirs \ {link}
           Stays(d) == ~(Cardinality({e \in old : Before(d, e)}) >= strategy.keep)
<1>1. UNCHANGED <<strategy, dirs, link>> /\ doomed' = Surplus
  BY DEF Cleanup, filesVars
<1>2. old \in SUBSET Names /\ IsFiniteSet(old) /\ strategy.keep \in Nat
  BY NamesFinite DEF KeptInv
<1>3. old \ Surplus = {d \in old : Stays(d)}
  BY DEF Surplus
<1>4. Cardinality({d \in old : Stays(d)}) <= strategy.keep
  BY <1>2, LastFewAreFew
<1>5. Cardinality(old \ Surplus) \in Nat
  BY <1>2, FS_Subset, FS_CardinalityType
<1>6. ((dirs \ {link}) \ doomed)' = old \ Surplus
  BY <1>1
<1> QED BY <1>1, <1>3, <1>4, <1>5, <1>6 DEF FewInv

LEMMA FewInvStep == KeptInv /\ FewInv /\ [OutputNext]_outputVars => FewInv'
<1> SUFFICES ASSUME KeptInv, FewInv, [OutputNext]_outputVars PROVE FewInv'
  OBVIOUS
<1>1. CASE Cleanup
  BY <1>1, CleanupLeavesFew
<1>2. CASE DeleteOld
  <2>1. PICK d \in doomed : doomed' = doomed \ {d} /\ dirs' = dirs \ {d}
    BY <1>2 DEF DeleteOld, BeingRemoved
  <2>2. UNCHANGED <<strategy, link, step>>
    BY <1>2 DEF DeleteOld, BeingRemoved
  <2>3. (dirs' \ {link'}) \ doomed' = (dirs \ {link}) \ doomed
    BY <2>1, <2>2
  <2> QED BY <2>2, <2>3 DEF FewInv
<1>3. CASE Configure
  BY <1>3 DEF Configure, FewInv, KeptInv
<1>4. CASE Tick \/ outputVars' = outputVars
  <2>1. UNCHANGED <<strategy, dirs, link, doomed, step>>
    BY <1>4 DEF Tick, outputVars, filesVars
  <2> QED BY <2>1 DEF FewInv
<1>5. CASE \/ BeginRun \/ WriteOutputs \/ UnlinkTemp \/ SymlinkTemp \/ RenameTemp \/ EndRun
           \/ RunRaises \/ AbortRun \/ AbortRaises \/ KillRun
  <2>1. step' # "deleting"
    BY <1>5 DEF BeginRun, WriteOutputs, UnlinkTemp, SymlinkTemp, RenameTemp, EndRun,
                RunRaises, AbortRun, AbortRaises, KillRun
  <2> QED BY <2>1 DEF FewInv
<1> QED BY <1>1, <1>2, <1>3, <1>4, <1>5 DEF OutputNext

\* A run that ends leaves at most `keep` directories besides the one `current`
\* is at, whatever was killed or failed before and however wide the ids have
\* grown (`keep`, rotating.py:46-47).
THEOREM OldRunsGoHolds == OutputSpec => OldRunsGo
<1>1. OutputInit => FewInv
  BY DEF OutputInit, FewInv
<1>2. KeptInv /\ FewInv /\ [OutputNext]_outputVars
        => [EndRun => Cardinality(dirs \ {link}) <= strategy.keep]_outputVars
  <2> SUFFICES ASSUME KeptInv, FewInv, EndRun PROVE Cardinality(dirs \ {link}) <= strategy.keep
    OBVIOUS
  <2>1. (dirs \ {link}) \ doomed = dirs \ {link} /\ step = "deleting"
    BY DEF EndRun
  <2> QED BY <2>1 DEF FewInv
<1> QED BY <1>1, <1>2, FewInvStep, KeptInvHolds, PTL DEF OutputSpec, OldRunsGo

----------------------------------------------------------------------------
(* The sample grid. *)

\* One period to either side.
LEMMA ModSmall ==
    ASSUME NEW n \in Nat \ {0}, NEW k \in Int, -n <= k, k < n
    PROVE  k % n = IF k >= 0 THEN k ELSE k + n
<1>1. k % n \in 0 .. n - 1
  OBVIOUS
<1>2. PICK q \in Int : k = n * q + (k % n)
  <2>1. k = n * (k \div n) + (k % n) /\ k \div n \in Int
    OBVIOUS
  <2> QED BY <2>1
<1>3. q \in {-1, 0}
  <2>1. q < 1
    <3>1. ASSUME q >= 1 PROVE n * q >= n
      BY <3>1
    <3> QED BY <3>1, <1>1, <1>2
  <2>2. q > -2
    <3>1. ASSUME q <= -2 PROVE n * q <= -n - n
      BY <3>1
    <3> QED BY <3>1, <1>1, <1>2
  <2> QED BY <2>1, <2>2
<1>4. n * 0 = 0 /\ n * (-1) = -n
  OBVIOUS
<1> QED BY <1>1, <1>2, <1>3, <1>4

\* Half of an even length.
LEMMA Half ==
    ASSUME NEW n \in Nat \ {0}, n % 2 = 0
    PROVE  n = (n \div 2) + (n \div 2) /\ n \div 2 \in Nat
OBVIOUS

\* The roll between the two arrangements of an even axis.
LEMMA EvenRoll ==
    ASSUME NEW n \in Nat \ {0}, n % 2 = 0,
           NEW cur \in {0, -(n \div 2)}, NEW new \in {0, -(n \div 2)}, NEW row,
           \A i \in Indices(n) : row[i] = Position(n, cur, i)
    PROVE  \A i \in Indices(n) : Roll(row, n, Shift(new, cur))[i] = Position(n, new, i)
<1> DEFINE h == n \div 2
<1>1. n = h + h /\ h \in Nat
  BY Half
<1> HIDE DEF h
<1>2. cur \in {0, -h} /\ new \in {0, -h} /\ cur \in Int /\ new \in Int
  BY <1>1 DEF h
<1> SUFFICES ASSUME NEW i \in 0 .. n - 1
             PROVE  Roll(row, n, Shift(new, cur))[i] = Position(n, new, i)
  BY DEF Indices
<1> DEFINE j == (i - (new - cur)) % n
<1>3. Roll(row, n, Shift(new, cur))[i] = row[j]
  BY DEF Roll, Shift, Indices
<1>4. j = IF i - (new - cur) < 0 THEN i - (new - cur) + n
          ELSE IF i - (new - cur) < n THEN i - (new - cur) ELSE i - (new - cur) - n
  <2>1. CASE i - (new - cur) < n
    <3> DEFINE k == i - (new - cur)
    <3>1. k \in Int /\ -n <= k /\ k < n
      BY <1>1, <1>2, <2>1
    <3>2. k % n = IF k >= 0 THEN k ELSE k + n
      <4> HIDE DEF k
      <4> QED BY <3>1, ModSmall
    <3> QED BY <2>1, <3>1, <3>2
  <2>2. CASE ~(i - (new - cur) < n)
    <3> DEFINE k == i - (new - cur) - n
    <3>1. k \in Int /\ -n <= k /\ k < n /\ k >= 0
      BY <1>1, <1>2, <2>2
    <3>2. i - (new - cur) = k + n
      BY <1>1, <1>2
    <3>3. (k + n) % n = k % n
      BY <3>1
    <3>4. k % n = k
      BY <3>1, ModSmall
    <3>5. j = k
      BY <3>2, <3>3, <3>4
    <3>6. ~(i - (new - cur) < 0)
      BY <3>1, <3>2
    <3> QED BY <2>2, <3>5, <3>6
  <2> QED BY <2>1, <2>2
<1>5. j \in 0 .. n - 1
  BY <1>1, <1>2, <1>4
<1>6. row[j] = (j + cur) % n
  BY <1>5 DEF Indices, Position
<1>7. (j + cur) % n = IF j + cur >= 0 THEN j + cur ELSE j + cur + n
  <2>1. j + cur \in Int /\ -n <= j + cur /\ j + cur < n
    BY <1>1, <1>2, <1>5
  <2> QED BY <2>1, ModSmall
<1>8. (i + new) % n = IF i + new >= 0 THEN i + new ELSE i + new + n
  <2>1. i + new \in Int /\ -n <= i + new /\ i + new < n
    BY <1>1, <1>2
  <2> QED BY <2>1, ModSmall
<1> HIDE DEF j
<1>9. (j + cur) % n = (i + new) % n
  BY <1>1, <1>2, <1>4, <1>5, <1>7, <1>8
<1> QED BY <1>3, <1>6, <1>9 DEF Position, j

\* Every offset is that of one of the two arrangements, and in an even grid
\* that was never rolled in part the values are where it says.
GridInv ==
    /\ counts \in [Axes -> Nat \ {0}]
    /\ offset \in {Default, Centered(counts)}
    /\ EvenGridsKept
    /\ calls = 0 => aligned

\* A roll from one arrangement to another moves each value to its position.
LEMMA RolledKept ==
    ASSUME counts \in [Axes -> Nat \ {0}], \A a \in Axes : counts[a] % 2 = 0,
           NEW cur \in {Default, Centered(counts)}, NEW new \in {Default, Centered(counts)},
           NEW rows, NEW axes, \A a \in Axes \ axes : new[a] = cur[a],
           \A a \in Axes : \A i \in Indices(counts[a]) : rows[a][i] = Position(counts[a], cur[a], i)
    PROVE  \A a \in Axes : \A i \in Indices(counts[a]) :
               Rolled(rows, new, cur, axes)[a][i] = Position(counts[a], new[a], i)
<1> SUFFICES ASSUME NEW a \in Axes
             PROVE  \A i \in Indices(counts[a]) :
                        Rolled(rows, new, cur, axes)[a][i] = Position(counts[a], new[a], i)
  OBVIOUS
<1>1. counts[a] \in Nat \ {0} /\ counts[a] % 2 = 0
  OBVIOUS
<1>2. cur[a] \in {0, -(counts[a] \div 2)} /\ new[a] \in {0, -(counts[a] \div 2)}
  BY DEF Default, Centered
<1>3. CASE a \in axes
  <2>1. Rolled(rows, new, cur, axes)[a] = Roll(rows[a], counts[a], Shift(new[a], cur[a]))
    BY <1>3 DEF Rolled
  <2> QED BY <1>1, <1>2, <2>1, EvenRoll
<1>4. CASE a \notin axes
  <2>1. Rolled(rows, new, cur, axes)[a] = rows[a]
    BY <1>4 DEF Rolled
  <2>2. new[a] = cur[a]
    BY <1>4
  <2> QED BY <2>1, <2>2
<1> QED BY <1>3, <1>4

\* The preservation of GridInv, an action at a time.
LEMMA RollToKeeps ==
    ASSUME GridInv, UNCHANGED <<counts, aligned>>, calls' # 0, NEW axes,
           NEW new \in {Default, Centered(counts)}, RollTo(new, axes)
    PROVE  GridInv'
<1>1. offset' = new /\ sampled' = Rolled(sampled, new, offset, axes)
  BY DEF RollTo
<1>5. partial' = (partial \/ \E a \in Axes \ axes : new[a] # offset[a])
  BY DEF RollTo
<1>2. counts' = counts /\ aligned' = aligned /\ Centered(counts)' = Centered(counts)
  BY DEF Centered
<1>3. ASSUME \A a \in Axes : counts[a] % 2 = 0, ~partial'
      PROVE  ValuesAtPositions'
  <2>0. ~partial /\ \A a \in Axes \ axes : new[a] = offset[a]
    BY <1>3, <1>5
  <2>1. ValuesAtPositions
    BY <1>3, <2>0 DEF GridInv, EvenGridsKept
  <2>2. \A a \in Axes : \A i \in Indices(counts[a]) :
            Rolled(sampled, new, offset, axes)[a][i] = Position(counts[a], new[a], i)
    BY <1>3, <2>0, <2>1, RolledKept DEF GridInv, ValuesAtPositions
  <2>3. \A a \in Axes : \A i \in Indices(counts'[a]) :
            sampled'[a][i] = Position(counts'[a], offset'[a], i)
    BY <1>1, <1>2, <2>2
  <2>4. aligned'
    BY <1>2, <2>1 DEF ValuesAtPositions
  <2> QED BY <2>3, <2>4 DEF ValuesAtPositions
<1>4. EvenGridsKept'
  BY <1>2, <1>3 DEF EvenGridsKept
<1>6. counts' \in [Axes -> Nat \ {0}] /\ offset' \in {Default, Centered(counts')}
  BY <1>1, <1>2 DEF GridInv, Centered
<1> QED BY <1>4, <1>6 DEF GridInv

LEMMA CreateKeeps ==
    ASSUME GridInv, Create
    PROVE  GridInv'
<1>1. /\ counts' \in [Axes -> Nat \ {0}] /\ offset' \in {Default, Centered(counts')}
      /\ sampled' = At0(counts', offset') /\ UNCHANGED <<partial, aligned>>
  BY LengthsAssumption DEF Create
<1>2. \A a \in Axes : \A i \in Indices(counts'[a]) :
          sampled'[a][i] = Position(counts'[a], offset'[a], i)
  BY <1>1 DEF At0
<1>3. aligned'
  BY <1>1 DEF GridInv, Create
<1> QED BY <1>1, <1>2, <1>3 DEF GridInv, EvenGridsKept, ValuesAtPositions

LEMMA TransformKeeps ==
    ASSUME GridInv, NEW axes \in SUBSET Axes, Transform(axes)
    PROVE  GridInv'
<1> DEFINE rolled == Rolled(sampled, Default, offset, Axes)
           result == [a \in Axes |-> IF a \in axes THEN [i \in Indices(counts[a]) |-> i] ELSE rolled[a]]
<1>1. /\ aligned' = (aligned /\ \A a \in axes : \A i \in Indices(counts[a]) : rolled[a][i] = i)
      /\ sampled' = Rolled(result, offset, Default, Axes)
  BY DEF Transform
<1>5. UNCHANGED <<counts, offset, partial>> /\ calls' # 0
  BY DEF Transform, Call
<1>2. ASSUME \A a \in Axes : counts[a] % 2 = 0, ~partial
      PROVE  ValuesAtPositions'
  <2>1. ValuesAtPositions
    BY <1>2 DEF GridInv, EvenGridsKept
  <2>2. counts \in [Axes -> Nat \ {0}] /\ offset \in {Default, Centered(counts)}
    BY DEF GridInv
  <2>3. \A a \in Axes : \A i \in Indices(counts[a]) : rolled[a][i] = Position(counts[a], Default[a], i)
    BY <1>2, <2>1, <2>2, RolledKept DEF ValuesAtPositions
  <2>4. \A a \in Axes : \A i \in Indices(counts[a]) : i \in Int /\ Position(counts[a], Default[a], i) = i
    <3> SUFFICES ASSUME NEW a \in Axes, NEW i \in Indices(counts[a])
                 PROVE  i \in Int /\ Position(counts[a], Default[a], i) = i
      OBVIOUS
    <3>1. counts[a] \in Nat \ {0} /\ i \in 0 .. counts[a] - 1 /\ Default[a] = 0
      BY <2>2 DEF Indices, Default
    <3>2. i \in Int /\ -counts[a] <= i /\ i < counts[a] /\ i >= 0
      BY <3>1
    <3>3. i % counts[a] = i
      BY <3>1, <3>2, ModSmall
    <3>4. i + Default[a] = i
      BY <3>1, <3>2
    <3> QED BY <3>2, <3>3, <3>4 DEF Position
  <2>5. \A a \in Axes : \A i \in Indices(counts[a]) : result[a][i] = Position(counts[a], Default[a], i)
    <3> SUFFICES ASSUME NEW a \in Axes, NEW i \in Indices(counts[a])
                 PROVE  result[a][i] = Position(counts[a], Default[a], i)
      OBVIOUS
    <3>1. result[a] = IF a \in axes THEN [k \in Indices(counts[a]) |-> k] ELSE rolled[a]
      OBVIOUS
    <3> HIDE DEF result, rolled
    <3> QED BY <2>3, <2>4, <3>1
  <2> HIDE DEF result
  <2>6. \A a \in Axes : \A i \in Indices(counts[a]) :
            Rolled(result, offset, Default, Axes)[a][i] = Position(counts[a], offset[a], i)
    BY <1>2, <2>2, <2>5, RolledKept
  <2>7. aligned'
    <3>1. \A a \in axes : \A i \in Indices(counts[a]) : rolled[a][i] = i
      BY <2>3, <2>4
    <3>2. aligned
      BY <2>1 DEF ValuesAtPositions
    <3> HIDE DEF rolled
    <3> QED BY <1>1, <3>1, <3>2
  <2> QED BY <1>1, <1>5, <2>6, <2>7 DEF ValuesAtPositions
<1>3. EvenGridsKept'
  BY <1>2, <1>5 DEF EvenGridsKept
<1>4. counts' \in [Axes -> Nat \ {0}] /\ offset' \in {Default, Centered(counts')}
  BY <1>5 DEF GridInv
<1> QED BY <1>3, <1>4, <1>5 DEF GridInv

LEMMA GridInvInit == GridInit => GridInv
<1> SUFFICES ASSUME GridInit PROVE GridInv
  OBVIOUS
<1>1. counts \in [Axes -> Nat \ {0}]
  BY LengthsAssumption DEF GridInit
<1>2. offset = Default /\ sampled = At0(counts, offset) /\ aligned
  BY DEF GridInit
<1>3. \A a \in Axes : \A i \in Indices(counts[a]) : sampled[a][i] = Position(counts[a], offset[a], i)
  BY <1>2 DEF At0
<1> QED BY <1>1, <1>2, <1>3 DEF GridInv, EvenGridsKept, ValuesAtPositions

LEMMA GridStep == GridInv /\ [GridNext]_gridVars => GridInv'
<1> SUFFICES ASSUME GridInv, [GridNext]_gridVars PROVE GridInv'
  OBVIOUS
<1>1. CASE Create
  BY <1>1, CreateKeeps
<1>2. CASE ToDftArrangement \/ ToCentered \/ \E a \in Axes : CenterAxis(a)
  <2>1. PICK new \in {Default, Centered(counts)}, axes \in SUBSET Axes : RollTo(new, axes)
    <3>1. CASE ToDftArrangement
      BY <3>1 DEF ToDftArrangement
    <3>2. CASE ToCentered
      BY <3>2 DEF ToCentered
    <3>3. CASE \E a \in Axes : CenterAxis(a)
      <4>1. PICK a \in Axes : RollTo(Centered(counts), {a})
        BY <3>3 DEF CenterAxis
      <4>2. {a} \in SUBSET Axes
        OBVIOUS
      <4> QED BY <4>1, <4>2
    <3> QED BY <1>2, <3>1, <3>2, <3>3
  <2>2. UNCHANGED <<counts, aligned>> /\ calls' # 0
    <3>1. Call /\ UNCHANGED aligned
      BY <1>2 DEF ToDftArrangement, ToCentered, CenterAxis
    <3> QED BY <3>1 DEF Call
  <2> QED BY <2>1, <2>2, RollToKeeps
<1>3. CASE \E axes \in (SUBSET Axes) \ {{}} : Transform(axes)
  BY <1>3, TransformKeeps
<1>4. CASE UNCHANGED gridVars
  BY <1>4 DEF gridVars, GridInv, EvenGridsKept, ValuesAtPositions, Centered
<1> QED BY <1>1, <1>2, <1>3, <1>4 DEF GridNext

LEMMA GridInvHolds == GridSpec => []GridInv
BY GridInvInit, GridStep, PTL DEF GridSpec

\* For any number of axes of any even lengths: the values of a grid that was
\* never rolled in part are where its offset says.
THEOREM EvenGridsKeptHolds == GridSpec => []EvenGridsKept
<1>1. GridInv => EvenGridsKept
  BY DEF GridInv
<1> QED BY <1>1, GridInvHolds, PTL

----------------------------------------------------------------------------
(* The basicsr training. *)

Batches == Nat \X (1 .. EpochBatches)

\* Every batch of the epochs before e.
Covers(w, e) ==
    \A d \in 0 .. e - 1, b \in 1 .. EpochBatches : \E n \in DOMAIN w : w[n] = <<d, b>>

\* All states on disk are of earlier iterations.
Behind(i) == \A j \in DOMAIN states : j < i

\* What the running training has done.
ModelInv ==
    /\ iter \in Nat /\ epoch \in Nat /\ trained \in Seq(Batches)
    /\ iter <= TotalIters + 1 /\ Len(trained) = Updates(iter)
    /\ rate = IF trained = <<>> THEN 0 ELSE Len(trained) - 1
    /\ iter <= TotalIters => Covers(trained, epoch)

\* The epoch at hand, up to the batch at hand.
EpochInv ==
    /\ batch \in 0 .. EpochBatches
    /\ iter <= TotalIters
    /\ \A b \in 1 .. batch : \E n \in DOMAIN trained : trained[n] = <<epoch, b>>

\* The network of this iteration is on disk, whole.
SavedNet ==
    iter \in DOMAIN nets /\ nets[iter] = trained /\ <<"net", iter>> \notin torn

\* The order of a save: the network first, then the state.
SavingInv ==
    /\ trainer \in Looping => \A j \in DOMAIN states : j <= iter
    /\ trainer \in Saving => iter \in 1 .. TotalIters /\ \A j \in DOMAIN states : j <= iter
    /\ trainer \in {"saveNet", "closeNet", "saveState"} => iter \notin DOMAIN states
    /\ trainer = "closeNet" => iter \in DOMAIN nets /\ nets[iter] = trained
    /\ trainer \in {"saveState", "closeState"} => SavedNet

\* A state goes with the whole network of its iteration, and what it counts
\* fits that network.
Fits(net, state, i) ==
    /\ net \in Seq(Batches) /\ Len(net) = i
    /\ state.rate = i - 1 /\ state.epoch \in Nat
    /\ Covers(net, state.epoch)

StatesInv ==
    /\ states = [i \in DOMAIN states |-> states[i]]
    /\ DOMAIN states # {} => \E m \in DOMAIN states : \A j \in DOMAIN states : j <= m
    /\ \A i \in DOMAIN states :
        /\ i \in 1 .. TotalIters /\ i \in DOMAIN nets /\ <<"net", i>> \notin torn
        /\ Fits(nets[i], states[i], i)

BasicsrInv ==
    /\ trainer \in TrainerPoints
    /\ trainer # "down" => ModelInv
    /\ trainer \in {"batches"} \cup Saving => EpochInv
    /\ SavingInv /\ StatesInv

\* The assumption, constant by constant.
LEMMA Training == EpochBatches \in Nat \ {0} /\ CheckpointFreq \in Nat \ {0} /\ TotalIters \in Nat
BY TrainingAssumption

LEMMA BasicsrInvInit == BasicsrInit => BasicsrInv
BY DEF BasicsrInit, BasicsrInv, SavingInv, StatesInv, Empty, TrainerPoints, Looping, Saving

\* The state a resume takes is the greatest of those on disk.
LEMMA NewestIs ==
    ASSUME StatesInv, states # Empty
    PROVE  Newest \in DOMAIN states /\ \A j \in DOMAIN states : j <= Newest
<1>1. DOMAIN states # {}
  BY DEF StatesInv, Empty
<1>2. \E m \in DOMAIN states : \A j \in DOMAIN states : j <= m
  BY <1>1 DEF StatesInv
<1> QED BY <1>2 DEF Newest

\* What spares the networks that the states on disk go with keeps StatesInv.
LEMMA StatesKept ==
    ASSUME StatesInv, states' = states,
           \A i \in DOMAIN states :
               i \in DOMAIN nets' /\ nets'[i] = nets[i] /\ <<"net", i>> \notin torn'
    PROVE  StatesInv'
<1>1. \A i \in DOMAIN states : Fits(nets'[i], states'[i], i)
  BY DEF StatesInv
<1>2. \A i \in DOMAIN states : i \in 1 .. TotalIters
  BY DEF StatesInv
<1>3. states' = [i \in DOMAIN states' |-> states'[i]]
  BY DEF StatesInv
<1>4. DOMAIN states' # {} => \E m \in DOMAIN states' : \A j \in DOMAIN states' : j <= m
  BY DEF StatesInv
<1> QED BY <1>1, <1>2, <1>3, <1>4 DEF StatesInv

\* The preservation of BasicsrInv, an action at a time.
LEMMA BeginKeeps ==
    ASSUME BasicsrInv, StartFresh \/ ResumeTraining
    PROVE  BasicsrInv'
<1> USE DEF BasicsrInv
<1>1. trainer' = "epochs"
  BY DEF StartFresh, ResumeTraining, BeginTraining
<1>2. trainer' \in TrainerPoints /\ ~(trainer' \in {"batches"} \cup Saving)
  BY <1>1 DEF TrainerPoints, Looping, Saving
<1>3. CASE StartFresh
  <2>1. states = Empty /\ states' = Empty /\ DOMAIN states' = {}
        /\ iter' = 0 /\ epoch' = 0 /\ trained' = <<>> /\ rate' = 0
    BY <1>3 DEF StartFresh, Empty
  <2>2. ModelInv'
    BY <2>1, Training DEF ModelInv, Updates, Covers
  <2>3. SavingInv'
    BY <1>1, <2>1 DEF SavingInv, Saving, Looping
  <2>4. StatesInv'
    BY <2>1 DEF StatesInv, Empty
  <2> QED BY <1>2, <2>2, <2>3, <2>4
<1>4. CASE ResumeTraining
  <2> DEFINE i == Newest
  <2>1. /\ UNCHANGED checkpointVars /\ states # Empty
        /\ iter' = i /\ epoch' = states[i].epoch /\ rate' = states[i].rate /\ trained' = nets[i]
    BY <1>4 DEF ResumeTraining, StartEpoch
  <2>2. i \in DOMAIN states /\ \A j \in DOMAIN states : j <= i
    BY <2>1, NewestIs
  <2>3. /\ i \in 1 .. TotalIters /\ nets[i] \in Seq(Batches) /\ Len(nets[i]) = i
        /\ states[i].rate = i - 1 /\ states[i].epoch \in Nat
        /\ Covers(nets[i], states[i].epoch)
    BY <2>2 DEF StatesInv, Fits
  <2>4. ModelInv'
    <3>1. trained' # <<>>
      BY <2>1, <2>3
    <3>2. Covers(trained, epoch)'
      BY <2>1, <2>3 DEF Covers
    <3> QED BY <2>1, <2>3, <3>1, <3>2, Training DEF ModelInv, Updates
  <2>5. SavingInv'
    BY <1>1, <2>1, <2>2 DEF SavingInv, Saving, Looping, checkpointVars
  <2>6. StatesInv'
    BY <2>1, StatesKept DEF StatesInv, checkpointVars
  <2> QED BY <1>2, <2>4, <2>5, <2>6
<1> QED BY <1>3, <1>4

LEMMA EpochKeeps ==
    ASSUME BasicsrInv, BeginEpoch \/ FinishTraining \/ EndEpoch \/ KillTraining \/ UNCHANGED basicsrVars
    PROVE  BasicsrInv'
<1> USE DEF BasicsrInv
<1>1. UNCHANGED <<trained, rate, nets, states, torn>>
  BY DEF BeginEpoch, FinishTraining, EndEpoch, KillTraining, basicsrVars, modelVars, checkpointVars
<1>2. StatesInv'
  BY <1>1, StatesKept DEF StatesInv
<1>3. CASE BeginEpoch
  <2>1. /\ trainer' = "batches" /\ batch' = 0 /\ iter <= TotalIters
        /\ UNCHANGED <<iter, epoch>> /\ trainer = "epochs"
    BY <1>3 DEF BeginEpoch
  <2>2. ModelInv'
    BY <1>1, <2>1 DEF ModelInv, Updates, Covers
  <2>3. EpochInv'
    BY <2>1, Training DEF EpochInv
  <2>4. SavingInv'
    BY <1>1, <2>1 DEF SavingInv, Saving, Looping
  <2> QED BY <1>2, <2>1, <2>2, <2>3, <2>4 DEF TrainerPoints, Looping
<1>4. CASE FinishTraining \/ KillTraining
  <2>1. trainer' \in {"over", "down"} /\ UNCHANGED <<iter, epoch>> /\ (trainer' = "over" => trainer # "down")
    BY <1>4 DEF FinishTraining, KillTraining, modelVars
  <2>2. trainer' # "down" => ModelInv'
    BY <1>1, <2>1 DEF ModelInv, Updates, Covers
  <2>3. SavingInv'
    BY <2>1 DEF SavingInv, Saving, Looping
  <2> QED BY <1>2, <2>1, <2>2, <2>3 DEF TrainerPoints, Saving
<1>5. CASE EndEpoch
  <2>1. /\ trainer = "batches" /\ trainer' = "epochs" /\ epoch' = epoch + 1 /\ ModelInv /\ EpochInv
        /\ batch = EpochBatches \/ iter = TotalIters
        /\ iter' = IF batch = EpochBatches THEN iter ELSE iter + 1
    BY <1>5 DEF EndEpoch
  <2>2. ModelInv'
    <3>1. CASE batch = EpochBatches
      <4>1. Covers(trained, epoch + 1)
        <5> SUFFICES ASSUME NEW d \in 0 .. (epoch + 1) - 1, NEW b \in 1 .. EpochBatches
                     PROVE  \E n \in DOMAIN trained : trained[n] = <<d, b>>
          BY DEF Covers
        <5>1. d = epoch \/ d \in 0 .. epoch - 1
          BY <2>1 DEF ModelInv
        <5> QED BY <5>1, <2>1, <3>1 DEF ModelInv, EpochInv, Covers
      <4> QED BY <4>1, <1>1, <2>1, <3>1 DEF ModelInv, Updates, Covers
    <3>2. CASE batch # EpochBatches
      BY <3>2, <1>1, <2>1, Training DEF ModelInv, Updates
    <3> QED BY <3>1, <3>2
  <2>3. SavingInv'
    <3>1. \A j \in DOMAIN states : j <= iter'
      BY <2>1, Training DEF SavingInv, StatesInv, Looping, ModelInv
    <3> QED BY <1>1, <2>1, <3>1 DEF SavingInv, Saving, Looping
  <2> QED BY <1>2, <2>1, <2>2, <2>3 DEF TrainerPoints, Looping, Saving
<1>6. CASE UNCHANGED basicsrVars
  BY <1>6, <1>2
  DEF basicsrVars, modelVars, checkpointVars, ModelInv, EpochInv, SavingInv, SavedNet, Covers,
      Updates
<1> QED BY <1>3, <1>4, <1>5, <1>6

LEMMA BatchKeeps ==
    ASSUME BasicsrInv, TrainBatch
    PROVE  BasicsrInv'
<1> USE DEF BasicsrInv
<1> DEFINE x == <<epoch, batch + 1>>
<1>1. /\ trainer = "batches" /\ batch < EpochBatches /\ iter < TotalIters
      /\ batch' = batch + 1 /\ iter' = iter + 1
      /\ trainer' \in {"saveNet", "batches"}
  BY DEF TrainBatch
<1>10. rate' = IF iter + 1 > 1 THEN rate + 1 ELSE rate
  BY DEF TrainBatch
<1>7. epoch' = epoch /\ nets' = nets /\ states' = states /\ torn' = torn
  BY DEF TrainBatch, checkpointVars
<1>8. trained' = Append(trained, x)
  BY DEF TrainBatch
<1>2. ModelInv /\ EpochInv /\ \A j \in DOMAIN states : j <= iter
  BY <1>1 DEF SavingInv, Looping
<1>11. batch \in 0 .. EpochBatches
  BY <1>2 DEF EpochInv
<1>12. iter \in Nat /\ Len(trained) = Updates(iter) /\ rate = IF trained = <<>> THEN 0 ELSE Len(trained) - 1
  BY <1>2 DEF ModelInv
<1>13. Len(trained) = iter /\ iter < TotalIters /\ iter \in Nat
  BY <1>1, <1>12, Training DEF Updates
<1>3. /\ trained' \in Seq(Batches) /\ Len(trained') = Len(trained) + 1
      /\ \A n \in DOMAIN trained : n \in DOMAIN trained' /\ trained'[n] = trained[n]
      /\ Len(trained) + 1 \in DOMAIN trained' /\ trained'[Len(trained) + 1] = x
  <2>1. batch + 1 \in 1 .. EpochBatches /\ epoch \in Nat /\ batch \in Nat
    <3>1. batch \in 0 .. EpochBatches
      BY <1>2 DEF EpochInv
    <3>2. epoch \in Nat
      BY <1>2 DEF ModelInv
    <3>3. batch < EpochBatches
      BY <1>1
    <3> QED BY <3>1, <3>2, <3>3, Training
  <2>2. x \in Batches /\ trained \in Seq(Batches)
    BY <1>2, <2>1 DEF Batches, ModelInv
  <2> QED BY <1>8, <2>2
<1>4. ModelInv'
  <2>1. Covers(trained, epoch)'
    <3>1. iter <= TotalIters /\ Covers(trained, epoch)
      BY <1>1, <1>2 DEF ModelInv, EpochInv
    <3> QED BY <3>1, <1>3, <1>7 DEF Covers
  <2>2. Len(trained') = iter' /\ trained' # <<>> /\ iter' <= TotalIters /\ iter' \in Nat
    BY <1>1, <1>3, <1>13, Training
  <2>3. rate' = Len(trained') - 1
    <3>1. trained = <<>> <=> iter = 0
      BY <1>2, <1>13 DEF ModelInv
    <3> QED BY <1>3, <1>10, <1>12, <1>13, <3>1
  <2>4. epoch' \in Nat /\ Updates(iter)' = iter'
    BY <1>2, <1>7, <2>2, Training DEF ModelInv, Updates
  <2>5. rate' = IF trained' = <<>> THEN 0 ELSE Len(trained') - 1
    BY <2>2, <2>3
  <2>6. iter' <= TotalIters + 1
    BY <2>2, Training
  <2> QED BY <1>3, <2>1, <2>2, <2>4, <2>5, <2>6 DEF ModelInv
<1>5. EpochInv'
  <2>1. batch' \in 0 .. EpochBatches /\ \A b \in 1 .. batch' : b \in 1 .. batch \/ b = batch + 1
    BY <1>1, <1>11, Training
  <2>2. \A b \in 1 .. batch : \E n \in DOMAIN trained' : trained'[n] = <<epoch, b>>
    BY <1>2, <1>3 DEF EpochInv
  <2>3. \A b \in 1 .. batch' : \E n \in DOMAIN trained' : trained'[n] = <<epoch, b>>
    BY <2>1, <2>2, <1>3
  <2>4. iter' <= TotalIters
    BY <1>1, <1>13, Training
  <2> QED BY <1>7, <2>1, <2>3, <2>4 DEF EpochInv
<1>6. SavingInv'
  <2>1. \A j \in DOMAIN states : j \in Nat /\ j <= iter
    <3>1. \A j \in DOMAIN states : j \in 1 .. TotalIters
      BY DEF StatesInv
    <3> QED BY <3>1, <1>2
  <2>2. \A j \in DOMAIN states' : j <= iter' /\ j # iter'
    BY <1>1, <1>7, <1>13, <2>1
  <2>3. iter' \in 1 .. TotalIters
    BY <1>1, <1>13, Training
  <2> QED BY <1>1, <2>2, <2>3 DEF SavingInv, Saving, Looping
<1>9. StatesInv'
  BY <1>7, StatesKept DEF StatesInv
<1> QED BY <1>1, <1>4, <1>5, <1>6, <1>9 DEF TrainerPoints, Looping, Saving

LEMMA SaveKeeps ==
    ASSUME BasicsrInv, OpenNet \/ CloseNet \/ OpenState \/ CloseState
    PROVE  BasicsrInv'
<1> USE DEF BasicsrInv
<1>1. /\ trainer \in Saving /\ trainer' \in Saving \cup {"batches"} /\ UNCHANGED modelVars
  BY DEF OpenNet, CloseNet, OpenState, CloseState, OpenFile, CloseFile, Saving
<1>2. trainer # "down" /\ trainer' # "down" /\ trainer' \in TrainerPoints
  BY <1>1 DEF Saving, TrainerPoints, Looping
<1>3. ModelInv' /\ EpochInv' /\ ModelInv /\ EpochInv
  BY <1>1, <1>2 DEF modelVars, ModelInv, EpochInv, Updates, Covers
<1>4. iter \in 1 .. TotalIters /\ iter' = iter /\ trained' = trained /\ \A j \in DOMAIN states : j <= iter
  BY <1>1 DEF SavingInv, modelVars
<1>5. /\ Len(trained) = iter /\ rate = iter - 1 /\ Covers(trained, epoch)
      /\ trained \in Seq(Batches) /\ epoch \in Nat
  BY <1>3, <1>4 DEF ModelInv, Updates
<1>6. <<"net", iter>> # <<"state", iter>> /\ \A i : i # iter => <<"net", i>> # <<"net", iter>>
  OBVIOUS
<1>7. SavingInv' /\ StatesInv'
  <2>1. CASE OpenNet
    <3>1. /\ trainer = "saveNet" /\ trainer' = "closeNet" /\ torn' = torn \cup {<<"net", iter>>}
          /\ nets' = Set(nets, iter, trained) /\ states' = states
      BY <2>1 DEF OpenNet, OpenFile
    <3>2. iter \notin DOMAIN states
      BY <3>1 DEF SavingInv
    <3>3. /\ iter \in DOMAIN nets' /\ nets'[iter] = trained
          /\ \A i \in DOMAIN nets : i # iter => i \in DOMAIN nets' /\ nets'[i] = nets[i]
      BY <3>1 DEF Set
    <3>4. SavingInv'
      BY <3>1, <3>2, <3>3, <1>4 DEF SavingInv, Saving, Looping
    <3>5. StatesInv'
      <4>1. \A i \in DOMAIN states : i # iter /\ <<"net", i>> # <<"net", iter>>
        BY <3>2
      <4> QED BY <3>1, <3>3, <4>1, StatesKept DEF StatesInv
    <3> QED BY <3>4, <3>5
  <2>2. CASE CloseNet
    <3>1. /\ trainer = "closeNet" /\ trainer' = "saveState" /\ torn' = torn \ {<<"net", iter>>}
          /\ nets' = nets /\ states' = states
      BY <2>2 DEF CloseNet, CloseFile
    <3>2. SavingInv'
      BY <3>1, <1>4 DEF SavingInv, SavedNet, Saving, Looping
    <3>3. StatesInv'
      BY <3>1, StatesKept DEF StatesInv
    <3> QED BY <3>2, <3>3
  <2>3. CASE OpenState
    <3>1. /\ trainer = "saveState" /\ trainer' = "closeState" /\ torn' = torn \cup {<<"state", iter>>}
          /\ states' = Set(states, iter, [epoch |-> epoch, rate |-> rate]) /\ nets' = nets
      BY <2>3 DEF OpenState, OpenFile
    <3>2. SavedNet /\ SavedNet'
      BY <3>1, <1>4, <1>6 DEF SavingInv, SavedNet
    <3>3. /\ DOMAIN states' = DOMAIN states \cup {iter}
          /\ states' = [j \in DOMAIN states' |-> states'[j]]
          /\ states'[iter] = [epoch |-> epoch, rate |-> rate]
          /\ \A i \in DOMAIN states : i # iter => states'[i] = states[i]
      BY <3>1 DEF Set
    <3>4. SavingInv'
      BY <3>1, <3>2, <3>3, <1>4 DEF SavingInv, Saving, Looping
    <3>5. \E m \in DOMAIN states' : \A j \in DOMAIN states' : j <= m
      BY <3>3, <1>4
    <3>6. ASSUME NEW i \in DOMAIN states'
          PROVE  /\ i \in 1 .. TotalIters /\ i \in DOMAIN nets /\ <<"net", i>> \notin torn'
                 /\ Fits(nets'[i], states'[i], i)
      <4>1. <<"net", i>> # <<"state", iter>>
        OBVIOUS
      <4>2. CASE i = iter
        <5>1. Fits(trained, [epoch |-> epoch, rate |-> rate], iter)
          BY <1>5 DEF Fits
        <5> QED BY <4>2, <3>1, <3>2, <3>3, <4>1, <5>1, <1>4 DEF SavedNet
      <4>3. CASE i # iter
        BY <4>3, <3>1, <3>3, <4>1 DEF StatesInv
      <4> QED BY <4>2, <4>3
    <3>7. StatesInv'
      BY <3>1, <3>3, <3>5, <3>6 DEF StatesInv
    <3> QED BY <3>4, <3>7
  <2>4. CASE CloseState
    <3>1. /\ trainer = "closeState" /\ trainer' = "batches" /\ torn' = torn \ {<<"state", iter>>}
          /\ nets' = nets /\ states' = states
      BY <2>4 DEF CloseState, CloseFile
    <3>2. SavingInv'
      BY <3>1, <1>4 DEF SavingInv, Saving, Looping
    <3>3. StatesInv'
      BY <3>1, StatesKept DEF StatesInv
    <3> QED BY <3>2, <3>3
  <2> QED BY <2>1, <2>2, <2>3, <2>4
<1> QED BY <1>2, <1>3, <1>7

LEMMA BasicsrStep == BasicsrInv /\ [BasicsrNext]_basicsrVars => BasicsrInv'
BY BeginKeeps, EpochKeeps, BatchKeeps, SaveKeeps DEF BasicsrNext

LEMMA BasicsrInvHolds == BasicsrSpec => []BasicsrInv
BY BasicsrStep, BasicsrInvInit, PTL DEF BasicsrSpec

\* However often it was killed and resumed, a training has done every batch of
\* every epoch before its own, and a state that a start can load goes with its
\* network.
THEOREM TrainingIsWholeHolds == BasicsrSpec => []TrainingIsWhole
<1>1. BasicsrInv => TrainingIsWhole
  <2> SUFFICES ASSUME BasicsrInv PROVE TrainingIsWhole
    OBVIOUS
  <2>1. \A i \in DOMAIN states : i \in DOMAIN nets /\ <<"net", i>> \notin torn /\ Len(nets[i]) = i
    BY DEF BasicsrInv, StatesInv, Fits
  <2>2. trainer # "down" => ModelInv
    BY DEF BasicsrInv
  <2> QED BY <2>1, <2>2 DEF ModelInv, Covers, TrainingIsWhole
<1> QED BY <1>1, BasicsrInvHolds, PTL

----------------------------------------------------------------------------
(* The IniKNet training. *)

\* The assumption, constant by constant.
LEMMA Period ==
    /\ SavePeriod \in Nat \ {0} /\ AccStep \in Nat \ {0}
    /\ UpdatesWanted \in Nat /\ MaxKills \in Nat
BY IniknetAssumption

\* The multiple of the period after a multiple of the period.
LEMMA NextMultiple ==
    ASSUME NEW N \in Nat \ {0}, NEW s \in Nat, NEW i \in Nat, s % N = 0
    PROVE  /\ i % N = 0 /\ s < i /\ i <= s + N => i = s + N
           /\ (s + N) % N = 0
<1>1. PICK q \in Nat : s = N * q
  <2>1. s = N * (s \div N) + (s % N) /\ s \div N \in Nat
    OBVIOUS
  <2> QED BY <2>1
<1>2. (s + N) % N = 0
  <2>1. s + N = N * (q + 1)
    BY <1>1
  <2>2. (N * (q + 1)) % N = 0
    OBVIOUS
  <2> QED BY <2>1, <2>2
<1>3. ASSUME i % N = 0, s < i, i <= s + N PROVE i = s + N
  <2>1. PICK r \in Nat : i = N * r
    <3>1. i = N * (i \div N) + (i % N) /\ i \div N \in Nat
      OBVIOUS
    <3> QED BY <3>1, <1>3
  <2>2. r > q
    <3>1. ASSUME r <= q PROVE N * r <= N * q
      BY <3>1
    <3> QED BY <3>1, <2>1, <1>1, <1>3
  <2>3. N * r >= N * (q + 1)
    BY <2>2
  <2>4. N * (q + 1) = s + N
    BY <1>1
  <2> QED BY <2>1, <2>3, <2>4, <1>3
<1> QED BY <1>2, <1>3

WeightsFile == Fixed("weights")
AdamFile == Fixed("adam")
SchedulerFile == Fixed("scheduler")

\* The iteration the scheduler file stands at, and that of the next save.
SavedIter == saved[SchedulerFile]
NextSave == SavedIter + SavePeriod

\* A save is under way.
InSave == mode \in {"saving", "writing"}
\* At most one save period a kill ahead of iteration i.
Costs(value, i, kills) == value <= i + SavePeriod * kills

\* The save at hand: what it has written is of the running training.
Fresh(file) == IsWhole(file) /\ saved[file] = Held(file)

\* How far the save has come, and what it has written.
SaveInv ==
    LET s == count["scheduler"]
    IN  \/ /\ toSave = <<Snapshot(s), WeightsFile, AdamFile, SchedulerFile>>
           /\ s = NextSave
        \/ /\ toSave = <<WeightsFile, AdamFile, SchedulerFile>>
           /\ s = NextSave /\ Fresh(Snapshot(s))
        \/ /\ toSave = <<AdamFile, SchedulerFile>>
           /\ s = NextSave /\ Fresh(WeightsFile)
        \/ /\ toSave = <<SchedulerFile>>
           /\ Fresh(WeightsFile) /\ Fresh(AdamFile)
           /\ s = IF mode = "saving" THEN NextSave ELSE SavedIter

\* What a resume would load: the model, or the snapshot when it is torn.
DiskInv ==
    \A file \in {WeightsFile, Snapshot(NextSave)} \cap AllFiles :
        /\ file = WeightsFile \/ WeightsFile \in inPart
        /\ IsWhole(file) /\ IsWhole(AdamFile) /\ IsWhole(SchedulerFile)
        => /\ saved[AdamFile] <= saved[file]
           /\ Costs(saved[file], SavedIter, IF InSave THEN inikKills + 1 ELSE inikKills)

\* The scheduler stands at a multiple of the period, and no file is behind it.
FilesInv ==
    /\ SavedIter % SavePeriod = 0
    /\ \A i \in 1 .. UpdatesWanted : saved[Snapshot(i)] # NoFile => i <= NextSave
    /\ SavedIter # NoFile => saved[WeightsFile] # NoFile
    /\ SavedIter <= saved[AdamFile]
    /\ WeightsFile \in inPart => Snapshot(NextSave) \in AllFiles /\ saved[Snapshot(NextSave)] # NoFile

\* Where the loop is, and what it holds.
LoopInv ==
    /\ mode \in {"stopped", "training"} => toSave = <<>>
    /\ mode = "training" =>
        /\ count["scheduler"] < UpdatesWanted
        /\ SavedIter <= count["scheduler"] /\ count["scheduler"] < NextSave
    /\ InSave => SaveInv /\ count["scheduler"] \in 1 .. UpdatesWanted
    /\ mode = "writing" => Head(toSave) \in inPart /\ saved[Head(toSave)] = Held(Head(toSave))
    /\ mode # "stopped" /\ SavedIter # NoFile => saved[AdamFile] <= count["adam"]

IniknetInv == IniknetType /\ DriftIsBounded /\ LoopInv /\ FilesInv /\ DiskInv

\* Files of different roles are different files.
LEMMA FileFacts ==
    /\ {WeightsFile, AdamFile, SchedulerFile} \subseteq AllFiles
    /\ WeightsFile # AdamFile /\ WeightsFile # SchedulerFile /\ AdamFile # SchedulerFile
    /\ \A i \in Nat : /\ Snapshot(i) \notin {WeightsFile, AdamFile, SchedulerFile}
                      /\ Snapshot(i) \in AllFiles <=> i \in 1 .. UpdatesWanted
                      /\ \A j \in Nat : Snapshot(i) = Snapshot(j) => i = j
    /\ Held(WeightsFile) = count["weights"]
    /\ Held(AdamFile) = count["adam"]
    /\ Held(SchedulerFile) = count["scheduler"]
    /\ \A i \in 1 .. UpdatesWanted : Held(Snapshot(i)) = count["weights"]
<1>1. {WeightsFile, AdamFile, SchedulerFile} \subseteq AllFiles
  BY DEF WeightsFile, AdamFile, SchedulerFile, AllFiles, Learned
<1>2. \A i : Snapshot(i)[1] = "snapshot" /\ Snapshot(i)[2] = i
  BY DEF Snapshot
<1>3. WeightsFile[1] = "weights" /\ AdamFile[1] = "adam" /\ SchedulerFile[1] = "scheduler"
  BY DEF WeightsFile, AdamFile, SchedulerFile, Fixed
<1>4. \A i : Snapshot(i) \notin {WeightsFile, AdamFile, SchedulerFile}
  BY <1>2, <1>3
<1>5. \A i \in Nat : Snapshot(i) \in AllFiles <=> i \in 1 .. UpdatesWanted
  <2>1. \A p \in Learned : Fixed(p)[1] = p /\ p # "snapshot"
    BY DEF Fixed, Learned
  <2> QED BY <1>2, <2>1 DEF AllFiles, Snapshots
<1>6. {WeightsFile, AdamFile, SchedulerFile} \cap Snapshots = {}
  BY <1>4 DEF Snapshots
<1> QED BY <1>1, <1>2, <1>3, <1>4, <1>5, <1>6 DEF Held, Snapshots

\* Everything that is compared is a number.
LEMMA IniknetTypes ==
    ASSUME IniknetType
    PROVE  /\ count["weights"] \in Nat /\ count["adam"] \in Nat /\ count["scheduler"] \in Nat
           /\ \A f \in AllFiles : saved[f] \in Nat
           /\ saved[WeightsFile] \in Nat /\ saved[AdamFile] \in Nat
           /\ SavedIter \in Nat /\ NextSave \in Nat /\ inikKills \in Nat
<1>1. inikKills \in Nat /\ \A f \in AllFiles : saved[f] \in Nat
  BY Period DEF IniknetType
<1>3. SavedIter \in Nat /\ NextSave \in Nat
  BY <1>1, Period, FileFacts DEF SavedIter, NextSave
<1> QED BY <1>1, <1>3, FileFacts DEF IniknetType, Learned

\* One more kill costs one more save period.
LEMMA KillCost ==
    ASSUME IniknetType
    PROVE  /\ SavePeriod * inikKills \in Nat
           /\ SavePeriod * (inikKills + 1) = SavePeriod * inikKills + SavePeriod
BY Period, IniknetTypes

\* A torn model is replaced by the snapshot of the save that tore it.
LEMMA ResumedFile ==
    ASSUME IniknetInv, IsWhole(SchedulerFile)
    PROVE  /\ WeightPath \in {WeightsFile, Snapshot(NextSave)} \cap AllFiles
           /\ WeightPath = WeightsFile \/ WeightsFile \in inPart
<1> USE DEF IniknetInv, FilesInv
<1>1. CASE IsWhole(WeightsFile)
  BY <1>1, FileFacts DEF WeightPath, WeightsFile
<1>2. CASE ~IsWhole(WeightsFile)
  <2>1. WeightsFile \in inPart
    BY <1>2 DEF IsWhole, SavedIter
  <2>2. NextSave \in 1 .. UpdatesWanted /\ saved[Snapshot(NextSave)] # NoFile
    BY <2>1, FileFacts, IniknetTypes
  <2>3. \A i \in 1 .. UpdatesWanted : saved[Snapshot(i)] # NoFile => i <= NextSave
    OBVIOUS
  <2>4. \A j \in NextSave + 1 .. UpdatesWanted : saved[Snapshot(j)] = NoFile
    BY <2>2, <2>3, Period
  <2>5. ASSUME NEW i \in 1 .. UpdatesWanted, saved[Snapshot(i)] # NoFile,
               \A j \in i + 1 .. UpdatesWanted : saved[Snapshot(j)] = NoFile
        PROVE  i = NextSave
    BY <2>2, <2>3, <2>5, Period
  <2>6. NewestSnapshot = NextSave
    BY <2>2, <2>4, <2>5 DEF NewestSnapshot
  <2>7. WeightPath = Snapshot(NextSave)
    BY <1>2, <2>6 DEF WeightPath, WeightsFile
  <2> QED BY <2>1, <2>2, <2>7, FileFacts
<1> QED BY <1>1, <1>2

LEMMA IniknetInvInit == IniknetInit => IniknetInv
<1> SUFFICES ASSUME IniknetInit PROVE IniknetInv
  OBVIOUS
<1>1. IniknetType
  BY Period DEF IniknetInit, IniknetType, NoFile
<1>2. \A f \in AllFiles : saved[f] = 0 /\ ~IsWhole(f)
  BY DEF IniknetInit, IsWhole, NoFile
<1>3. SavedIter = 0 /\ 0 % SavePeriod = 0
  BY <1>2, FileFacts, Period DEF SavedIter
<1>4. SavePeriod * 0 = 0
  BY Period
<1>5. DriftIsBounded
  BY <1>4 DEF DriftIsBounded, IniknetInit, Learned
<1>6. LoopInv
  BY DEF LoopInv, IniknetInit, InSave
<1>7. FilesInv
  BY <1>2, <1>3, FileFacts DEF FilesInv, IniknetInit, NoFile
<1>8. DiskInv
  BY <1>2, FileFacts DEF DiskInv
<1> QED BY <1>1, <1>5, <1>6, <1>7, <1>8 DEF IniknetInv

LEMMA StartKeeps ==
    ASSUME IniknetInv, StartFromScratch
    PROVE  IniknetInv'
<1> USE DEF IniknetInv
<1>1. IniknetType'
  BY Period DEF IniknetType, StartFromScratch
<1>2. /\ count'["weights"] = 0 /\ count'["adam"] = 0 /\ count'["scheduler"] = 0
      /\ SavedIter = 0 /\ UNCHANGED <<saved, inPart, toSave, inikKills>> /\ mode' = "training"
      /\ mode = "stopped" /\ 0 < UpdatesWanted
  BY IniknetTypes, Period DEF StartFromScratch, SavedIter, SchedulerFile, NoFile, Learned
<1>3. DriftIsBounded'
  BY <1>2, KillCost DEF DriftIsBounded
<1>4. LoopInv'
  BY <1>2, Period DEF LoopInv, InSave, SavedIter, NextSave, NoFile
<1>5. FilesInv'
  BY <1>2 DEF FilesInv, SavedIter, NextSave
<1>6. DiskInv'
  BY <1>2 DEF DiskInv, SavedIter, NextSave, IsWhole, InSave, Costs
<1> QED BY <1>1, <1>3, <1>4, <1>5, <1>6

LEMMA ResumeKeeps ==
    ASSUME IniknetInv, ResumeTrained
    PROVE  IniknetInv'
<1> USE DEF IniknetInv
<1> DEFINE file == WeightPath
<1>1. /\ mode = "stopped" /\ mode' = "training" /\ UNCHANGED <<saved, inPart, toSave, inikKills>>
      /\ IsWhole(AdamFile) /\ IsWhole(SchedulerFile) /\ IsWhole(file) /\ SavedIter < UpdatesWanted
      /\ micro' = 0
      /\ count' = [p \in Learned |-> IF p = "weights" THEN saved[WeightPath] ELSE saved[Fixed(p)]]
  BY DEF ResumeTrained, SavedIter, SchedulerFile, AdamFile
<1>2. /\ file \in {WeightsFile, Snapshot(NextSave)} \cap AllFiles
      /\ file = WeightsFile \/ WeightsFile \in inPart
  BY <1>1, ResumedFile
<1>3. /\ SavedIter <= saved[AdamFile] /\ saved[AdamFile] <= saved[file]
      /\ Costs(saved[file], SavedIter, inikKills)
  BY <1>1, <1>2 DEF DiskInv, FilesInv, InSave
<1>4. /\ count'["weights"] = saved[file] /\ count'["adam"] = saved[AdamFile]
      /\ count'["scheduler"] = SavedIter
  BY <1>1 DEF Learned, AdamFile, SavedIter, SchedulerFile
<1>5. IniknetType'
  <2>1. count' \in [Learned -> Nat]
    <3>1. \A p \in Learned : Fixed(p) \in AllFiles
      BY DEF AllFiles
    <3> QED BY <1>1, <1>2, <3>1, IniknetTypes
  <2> QED BY <1>1, <2>1, Period DEF IniknetType
<1>6. DriftIsBounded'
  BY <1>1, <1>3, <1>4 DEF DriftIsBounded, Costs
<1>7. LoopInv'
  <2>1. toSave' = <<>> /\ SavedIter' = SavedIter /\ NextSave' = NextSave
    BY <1>1 DEF LoopInv, SavedIter, NextSave
  <2>2. SavedIter < NextSave
    BY IniknetTypes, Period DEF NextSave
  <2> QED BY <1>1, <1>4, <2>1, <2>2, IniknetTypes, Period DEF LoopInv, InSave
<1>8. FilesInv' /\ DiskInv'
  BY <1>1 DEF FilesInv, DiskInv, SavedIter, NextSave, IsWhole, InSave, Costs
<1> QED BY <1>5, <1>6, <1>7, <1>8

LEMMA KillKeeps ==
    ASSUME IniknetInv, KillIniknet
    PROVE  IniknetInv'
<1> USE DEF IniknetInv
<1>1. /\ mode # "stopped" /\ mode' = "stopped" /\ toSave' = <<>> /\ inikKills' = inikKills + 1
      /\ inikKills < MaxKills /\ UNCHANGED <<micro, count, saved, inPart>>
  BY DEF KillIniknet
<1>2. IniknetType'
  BY <1>1, Period DEF IniknetType
<1>3. SavePeriod * inikKills' = SavePeriod * inikKills + SavePeriod /\ SavePeriod * inikKills \in Nat
  BY <1>1, KillCost
<1>4. DriftIsBounded'
  <2>1. /\ count["weights"] <= count["scheduler"] + SavePeriod * inikKills
        /\ count["scheduler"] <= count["adam"] /\ count["adam"] <= count["weights"]
    BY DEF DriftIsBounded
  <2>2. count["weights"] <= count["scheduler"] + (SavePeriod * inikKills + SavePeriod)
    BY <2>1, <1>3, IniknetTypes, Period
  <2> QED BY <1>1, <1>3, <2>1, <2>2 DEF DriftIsBounded
<1>5. LoopInv' /\ FilesInv'
  BY <1>1 DEF LoopInv, FilesInv, InSave, SavedIter, NextSave
<1>6. DiskInv'
  <2> SUFFICES ASSUME NEW file \in {WeightsFile, Snapshot(NextSave)} \cap AllFiles,
                      file = WeightsFile \/ WeightsFile \in inPart,
                      IsWhole(file), IsWhole(AdamFile), IsWhole(SchedulerFile)
               PROVE  /\ saved[AdamFile] <= saved[file]
                      /\ Costs(saved[file], SavedIter, inikKills')
    BY <1>1 DEF DiskInv, SavedIter, NextSave, IsWhole, InSave, Costs
  <2>1. /\ saved[AdamFile] <= saved[file]
        /\ Costs(saved[file], SavedIter, IF InSave THEN inikKills + 1 ELSE inikKills)
    BY DEF DiskInv
  <2>2. saved[file] \in Nat
    BY IniknetTypes
  <2>3. saved[file] <= SavedIter + (SavePeriod * inikKills + SavePeriod)
    <3>1. CASE InSave
      BY <2>1, <3>1, KillCost DEF Costs
    <3>2. CASE ~InSave
      <4>1. saved[file] <= SavedIter + SavePeriod * inikKills
        BY <2>1, <3>2 DEF Costs
      <4> QED BY <4>1, <1>3, <2>2, IniknetTypes, Period
    <3> QED BY <3>1, <3>2
  <2> QED BY <2>1, <2>3, <1>3 DEF Costs
<1> QED BY <1>2, <1>4, <1>5, <1>6

LEMMA MicroKeeps ==
    ASSUME IniknetInv, MicroStep \/ UNCHANGED iniknetVars
    PROVE  IniknetInv'
<1> USE DEF IniknetInv
<1>1. UNCHANGED <<mode, count, saved, inPart, toSave, inikKills>>
  BY DEF MicroStep, iniknetVars
<1>2. IniknetType'
  BY Period DEF IniknetType, MicroStep, iniknetVars
<1>3. DriftIsBounded' /\ FilesInv' /\ DiskInv'
  BY <1>1 DEF DriftIsBounded, FilesInv, DiskInv, SavedIter, NextSave, IsWhole, InSave, Costs
<1>4. LoopInv'
  BY <1>1 DEF LoopInv, SaveInv, Fresh, Held, SavedIter, NextSave, IsWhole, InSave
<1> QED BY <1>2, <1>3, <1>4

LEMMA UpdateKeeps ==
    ASSUME IniknetInv, UpdateWeights
    PROVE  IniknetInv'
<1> USE DEF IniknetInv
<1> DEFINE s == count["scheduler"]
           due == (s + 1) % SavePeriod = 0
<1>1. /\ mode = "training" /\ UNCHANGED <<saved, inPart, inikKills>>
      /\ micro' = 0 /\ count' = [p \in Learned |-> count[p] + 1]
  BY DEF UpdateWeights
<1>2. /\ count'["weights"] = count["weights"] + 1 /\ count'["adam"] = count["adam"] + 1
      /\ count'["scheduler"] = s + 1
  BY <1>1 DEF Learned
<1>3. /\ toSave' = IF due THEN SaveOrder(s + 1) ELSE <<>>
      /\ due => mode' = "saving"
      /\ ~due /\ s + 1 >= UpdatesWanted => mode' = "stopped"
      /\ ~due /\ ~(s + 1 >= UpdatesWanted) => mode' = "training"
  BY <1>2 DEF UpdateWeights
<1>4. s \in Nat /\ s + 1 \in 1 .. UpdatesWanted /\ SavedIter <= s /\ s < NextSave
  BY <1>1, IniknetTypes, Period DEF LoopInv
<1>5. /\ due => s + 1 = NextSave
      /\ ~due => s + 1 < NextSave
  <2>1. SavedIter % SavePeriod = 0 /\ SavedIter \in Nat /\ s + 1 \in Nat
    BY <1>4, IniknetTypes DEF FilesInv
  <2>2. /\ due /\ SavedIter < s + 1 /\ s + 1 <= SavedIter + SavePeriod => s + 1 = SavedIter + SavePeriod
        /\ (SavedIter + SavePeriod) % SavePeriod = 0
    BY <2>1, Period, NextMultiple
  <2> QED BY <2>1, <2>2, <1>4, IniknetTypes, Period DEF NextSave
<1>6. SaveOrder(s + 1) = <<Snapshot(s + 1), WeightsFile, AdamFile, SchedulerFile>>
  BY DEF SaveOrder, WeightsFile, AdamFile, SchedulerFile
<1>7. IniknetType'
  <2>1. mode' \in {"stopped", "training", "saving", "writing"} /\ micro' \in 0 .. AccStep - 1
    BY <1>1, <1>3, Period
  <2>2. count' \in [Learned -> Nat]
    BY <1>1 DEF IniknetType
  <2>3. toSave' \in Seq(AllFiles)
    <3>1. Snapshot(s + 1) \in AllFiles
      BY <1>4, FileFacts, Period
    <3>2. SaveOrder(s + 1) \in Seq(AllFiles)
      <4>1. /\ Snapshot(s + 1) \in AllFiles /\ WeightsFile \in AllFiles
            /\ AdamFile \in AllFiles /\ SchedulerFile \in AllFiles
        BY <3>1, FileFacts
      <4>2. \A a, b, c, d \in AllFiles : <<a, b, c, d>> \in Seq(AllFiles)
        OBVIOUS
      <4> QED BY ONLY <4>1, <4>2, <1>6
    <3> QED BY <1>3, <3>2
  <2> QED BY <1>1, <2>1, <2>2, <2>3 DEF IniknetType
<1>8. DriftIsBounded'
  BY <1>1, <1>2, IniknetTypes, Period DEF DriftIsBounded
<1>9. FilesInv'
  BY <1>1 DEF FilesInv, SavedIter, NextSave
<1>10. LoopInv'
  <2>1. mode' # "stopped" /\ SavedIter # NoFile => saved[AdamFile] <= count'["adam"]
    BY <1>1, <1>2, IniknetTypes, FileFacts DEF LoopInv
  <2>2. CASE due
    <3>1. SaveInv'
      BY <1>1, <1>2, <1>3, <1>5, <1>6, <2>2 DEF SaveInv, NextSave, SavedIter
    <3> QED BY <1>1, <1>2, <1>3, <1>4, <2>1, <2>2, <3>1 DEF LoopInv, InSave, SavedIter
  <2>3. CASE ~due
    <3>1. /\ toSave' = <<>> /\ mode' \in {"stopped", "training"}
          /\ mode' = "training" => s + 1 < UpdatesWanted
      BY <1>3, <1>4, <2>3, Period
    <3>2. SavedIter' = SavedIter /\ NextSave' = NextSave
      BY <1>1 DEF SavedIter, NextSave
    <3>3. SavedIter <= s + 1 /\ s + 1 < NextSave
      BY <1>4, <1>5, <2>3, IniknetTypes
    <3> QED BY <1>1, <1>2, <2>1, <3>1, <3>2, <3>3 DEF LoopInv, InSave
  <2> QED BY <2>2, <2>3
<1>11. DiskInv'
  <2> SUFFICES ASSUME NEW file \in {WeightsFile, Snapshot(NextSave)} \cap AllFiles,
                      file = WeightsFile \/ WeightsFile \in inPart,
                      IsWhole(file), IsWhole(AdamFile), IsWhole(SchedulerFile)
               PROVE  /\ saved[AdamFile] <= saved[file]
                      /\ Costs(saved[file], SavedIter, IF InSave' THEN inikKills + 1 ELSE inikKills)
    BY <1>1 DEF DiskInv, SavedIter, NextSave, IsWhole, Costs
  <2>1. /\ saved[AdamFile] <= saved[file]
        /\ Costs(saved[file], SavedIter, inikKills)
    BY <1>1 DEF DiskInv, InSave
  <2> QED BY <2>1, IniknetTypes, Period DEF Costs
<1> QED BY <1>7, <1>8, <1>9, <1>10, <1>11

\* Opening a file writes what it is to hold; the model is torn meanwhile, and
\* so is the scheduler, which is the last.
LEMMA OpenKeeps ==
    ASSUME IniknetInv, OpenSave
    PROVE  IniknetInv'
<1> USE DEF IniknetInv
<1> DEFINE s == count["scheduler"]
           f == Head(toSave)
<1>1. /\ mode = "saving" /\ mode' = "writing" /\ UNCHANGED <<micro, count, toSave, inikKills>>
      /\ saved' = [saved EXCEPT ![f] = Held(f)] /\ inPart' = inPart \cup {f}
  BY DEF OpenSave
<1>2. /\ s \in 1 .. UpdatesWanted /\ s = NextSave /\ SaveInv
      /\ SavedIter # NoFile => saved[AdamFile] <= count["adam"]
  BY <1>1 DEF LoopInv, InSave, SaveInv
<1>3. f \in {Snapshot(s), WeightsFile, AdamFile, SchedulerFile} /\ f \in AllFiles
  BY <1>2, FileFacts DEF SaveInv
<1>4. Held(f) \in Nat /\ Held(f) # NoFile /\ Held(f) >= s /\ Held(f)' = Held(f)
  BY <1>1, <1>2, <1>3, FileFacts, IniknetTypes DEF DriftIsBounded, NoFile, Held
<1>5. /\ saved'[f] = Held(f) /\ \A g \in AllFiles \ {f} : saved'[g] = saved[g]
      /\ f \in inPart' /\ \A g \in AllFiles \ {f} : IsWhole(g)' <=> IsWhole(g)
      /\ ~IsWhole(f)'
  BY <1>1, <1>3 DEF IniknetType, IsWhole
<1>6. /\ f # SchedulerFile => SavedIter' = SavedIter /\ NextSave' = NextSave
      /\ f = SchedulerFile => SavedIter' = NextSave /\ NextSave' = NextSave + SavePeriod
  BY <1>2, <1>3, <1>5, FileFacts DEF SavedIter, NextSave
<1>7. IniknetType'
  BY <1>1, <1>3, <1>4 DEF IniknetType
<1>8. DriftIsBounded'
  BY <1>1 DEF DriftIsBounded
<1>9. FilesInv'
  <2>1. SavedIter' % SavePeriod = 0
    BY <1>6, Period, IniknetTypes, NextMultiple DEF FilesInv, NextSave
  <2>2. \A i \in 1 .. UpdatesWanted : saved'[Snapshot(i)] # NoFile => i <= NextSave'
    <3> SUFFICES ASSUME NEW i \in 1 .. UpdatesWanted, saved'[Snapshot(i)] # NoFile
                 PROVE  i <= NextSave
      BY <1>6, IniknetTypes, Period
    <3>1. CASE Snapshot(i) = f
      BY <3>1, <1>2, <1>3, FileFacts
    <3>2. CASE Snapshot(i) # f
      BY <3>2, <1>5, FileFacts DEF FilesInv
    <3> QED BY <3>1, <3>2
  <2>3. SavedIter' # NoFile => saved'[WeightsFile] # NoFile
    <3>1. CASE f = WeightsFile
      BY <3>1, <1>4, <1>5
    <3>2. CASE f = SchedulerFile
      BY <3>2, <1>2, <1>5, FileFacts DEF SaveInv, Fresh, IsWhole
    <3>3. CASE f # WeightsFile /\ f # SchedulerFile
      BY <3>3, <1>5, <1>6, FileFacts DEF FilesInv
    <3> QED BY <3>1, <3>2, <3>3
  <2>4. WeightsFile \in inPart' => Snapshot(NextSave)' \in AllFiles /\ saved'[Snapshot(NextSave)'] # NoFile
    <3> SUFFICES ASSUME WeightsFile \in inPart'
                 PROVE  Snapshot(NextSave)' \in AllFiles /\ saved'[Snapshot(NextSave)'] # NoFile
      OBVIOUS
    <3>1. CASE f = WeightsFile
      <4>1. Fresh(Snapshot(s))
        BY <3>1, <1>2, FileFacts DEF SaveInv
      <4>2. Snapshot(NextSave)' = Snapshot(s) /\ Snapshot(s) # f /\ Snapshot(s) \in AllFiles
        BY <3>1, <1>2, <1>6, FileFacts DEF Snapshot
      <4> QED BY <4>1, <4>2, <1>5 DEF Fresh, IsWhole
    <3>2. CASE f = SchedulerFile
      BY <3>2, <1>1, <1>2, FileFacts DEF SaveInv, Fresh, IsWhole
    <3>3. CASE f # WeightsFile /\ f # SchedulerFile
      <4>1. WeightsFile \in inPart /\ Snapshot(NextSave)' = Snapshot(NextSave)
        BY <3>3, <1>1, <1>6 DEF Snapshot
      <4> QED BY <4>1, <1>4, <1>5 DEF FilesInv
    <3> QED BY <3>1, <3>2, <3>3
  <2>5. SavedIter' <= saved'[AdamFile]
    <3>1. CASE f = AdamFile
      BY <3>1, <1>2, <1>4, <1>5, <1>6, IniknetTypes, FileFacts, Period DEF NextSave
    <3>2. CASE f = SchedulerFile
      <4>1. Fresh(AdamFile) /\ saved[AdamFile] = count["adam"]
        BY <3>2, <1>2, FileFacts DEF SaveInv, Fresh
      <4> QED BY <3>2, <4>1, <1>2, <1>5, <1>6, FileFacts DEF DriftIsBounded
    <3>3. CASE f # AdamFile /\ f # SchedulerFile
      BY <3>3, <1>5, <1>6, FileFacts DEF FilesInv
    <3> QED BY <3>1, <3>2, <3>3
  <2> QED BY <2>1, <2>2, <2>3, <2>4, <2>5 DEF FilesInv
<1>10. SaveInv'
  <2>1. CASE f = Snapshot(s)
    <3>1. toSave = <<Snapshot(s), WeightsFile, AdamFile, SchedulerFile>>
      BY <2>1, <1>2, FileFacts DEF SaveInv
    <3> QED BY <2>1, <3>1, <1>1, <1>2, <1>6, FileFacts DEF SaveInv
  <2>2. CASE f = WeightsFile
    <3>1. toSave = <<WeightsFile, AdamFile, SchedulerFile>> /\ Fresh(Snapshot(s))
      BY <2>2, <1>2, FileFacts DEF SaveInv
    <3>2. Fresh(Snapshot(s))' /\ Snapshot(s)' = Snapshot(s)
      BY <2>2, <3>1, <1>1, <1>2, <1>5, FileFacts DEF Fresh, Snapshot, Held
    <3> QED BY <2>2, <3>1, <3>2, <1>1, <1>2, <1>6, FileFacts DEF SaveInv
  <2>3. CASE f = AdamFile
    <3>1. toSave = <<AdamFile, SchedulerFile>> /\ Fresh(WeightsFile)
      BY <2>3, <1>2, FileFacts DEF SaveInv
    <3>2. Fresh(WeightsFile)'
      BY <2>3, <3>1, <1>1, <1>5, FileFacts DEF Fresh, Held
    <3> QED BY <2>3, <3>1, <3>2, <1>1, <1>2, <1>6, FileFacts DEF SaveInv
  <2>4. CASE f = SchedulerFile
    <3>1. toSave = <<SchedulerFile>> /\ Fresh(WeightsFile) /\ Fresh(AdamFile)
      BY <2>4, <1>2, FileFacts DEF SaveInv
    <3>2. Fresh(WeightsFile)' /\ Fresh(AdamFile)'
      BY <2>4, <3>1, <1>1, <1>5, FileFacts DEF Fresh, Held
    <3> QED BY <2>4, <3>1, <3>2, <1>1, <1>2, <1>6, FileFacts DEF SaveInv
  <2> QED BY <2>1, <2>2, <2>3, <2>4, <1>3
<1>11. LoopInv'
  <2>1. SavedIter' # NoFile => saved'[AdamFile] <= count'["adam"]
    <3>1. CASE f = AdamFile
      BY <3>1, <1>1, <1>5, IniknetTypes, FileFacts
    <3>2. CASE f = SchedulerFile
      BY <3>2, <1>1, <1>2, <1>5, IniknetTypes, FileFacts DEF SaveInv, Fresh
    <3>3. CASE f # AdamFile /\ f # SchedulerFile
      BY <3>3, <1>1, <1>2, <1>5, <1>6, FileFacts
    <3> QED BY <3>1, <3>2, <3>3
  <2>2. Head(toSave)' = f /\ Head(toSave)' \in inPart' /\ saved'[Head(toSave)'] = Held(Head(toSave))'
    BY <1>1, <1>4, <1>5
  <2> QED BY <2>1, <2>2, <1>1, <1>2, <1>10 DEF LoopInv, InSave
<1>12. DiskInv'
  <2> SUFFICES ASSUME NEW g \in {WeightsFile, Snapshot(NextSave)'} \cap AllFiles,
                      g = WeightsFile \/ WeightsFile \in inPart',
                      IsWhole(g)', IsWhole(AdamFile)', IsWhole(SchedulerFile)'
               PROVE  /\ saved'[AdamFile] <= saved'[g]
                      /\ Costs(saved'[g], SavedIter', inikKills + 1)
    BY <1>1 DEF DiskInv, InSave
  <2>1. f \notin {g, AdamFile, SchedulerFile}
    BY <1>5 DEF IsWhole
  <2>2. g \in {WeightsFile, Snapshot(NextSave)}
    BY <2>1, <1>6 DEF Snapshot
  <2>3. IsWhole(g) /\ IsWhole(AdamFile) /\ IsWhole(SchedulerFile) /\ saved'[g] = saved[g]
        /\ saved'[AdamFile] = saved[AdamFile] /\ SavedIter' = SavedIter
    BY <2>1, <1>5, <1>6, FileFacts
  <2>4. CASE f = WeightsFile
    <3>1. g = Snapshot(s) /\ Fresh(Snapshot(s))
      BY <2>4, <2>1, <2>2, <1>2, FileFacts DEF SaveInv
    <3>2. saved[g] = count["weights"]
      BY <3>1, <1>2, FileFacts DEF Fresh
    <3>3. SavedIter # NoFile
      BY <2>3 DEF IsWhole, SavedIter
    <3>4. /\ saved[AdamFile] <= count["weights"]
          /\ count["weights"] <= SavedIter + SavePeriod + SavePeriod * inikKills
      BY <3>3, <1>2, IniknetTypes, FileFacts DEF DriftIsBounded, NextSave
    <3> QED BY <2>3, <3>2, <3>4, IniknetTypes, Period DEF Costs
  <2>5. CASE f # WeightsFile
    <3>1. g = WeightsFile \/ WeightsFile \in inPart
      BY <2>5, <1>1
    <3> QED BY <2>2, <2>3, <3>1, <1>1 DEF DiskInv, InSave
  <2> QED BY <2>4, <2>5
<1> QED BY <1>7, <1>8, <1>9, <1>11, <1>12

LEMMA CloseKeeps ==
    ASSUME IniknetInv, CloseSave
    PROVE  IniknetInv'
<1> USE DEF IniknetInv
<1> DEFINE s == count["scheduler"]
           f == Head(toSave)
<1>1. /\ mode = "writing" /\ UNCHANGED <<micro, count, saved, inikKills>>
      /\ inPart' = inPart \ {f} /\ toSave' = Tail(toSave)
      /\ toSave' # <<>> => mode' = "saving"
      /\ toSave' = <<>> => mode' = IF s >= UpdatesWanted THEN "stopped" ELSE "training"
  BY DEF CloseSave
<1>2. /\ s \in 1 .. UpdatesWanted /\ SaveInv /\ saved[f] = Held(f) /\ f \in inPart
      /\ SavedIter # NoFile => saved[AdamFile] <= count["adam"]
  BY <1>1 DEF LoopInv, InSave
<1>3. f \in {Snapshot(s), WeightsFile, AdamFile, SchedulerFile} /\ f \in AllFiles
  BY <1>2, FileFacts DEF SaveInv
<1>4. saved[f] # NoFile /\ saved[f] >= s
  BY <1>1, <1>2, <1>3, FileFacts, IniknetTypes DEF DriftIsBounded, NoFile, Held
<1>5. SavedIter' = SavedIter /\ NextSave' = NextSave /\ \A i \in Nat : Snapshot(i)' = Snapshot(i)
  BY <1>1 DEF SavedIter, NextSave, Snapshot
<1>6. \A g \in AllFiles : IsWhole(g)' <=> (IsWhole(g) \/ g = f)
  BY <1>1, <1>4 DEF IsWhole
<1>7. Tail(toSave) \in Seq(AllFiles)
  <2>1. toSave \in Seq(AllFiles) /\ toSave # <<>>
    BY <1>2 DEF IniknetType, SaveInv
  <2> QED BY <2>1
<1>8. IniknetType'
  BY <1>1, <1>7 DEF IniknetType
<1>9. DriftIsBounded'
  BY <1>1 DEF DriftIsBounded
<1>10. FilesInv'
  <2>1. WeightsFile \in inPart' => WeightsFile \in inPart
    BY <1>1
  <2> QED BY <1>1, <1>5, <2>1 DEF FilesInv, Snapshot
<1>11. \A g \in AllFiles : Fresh(g) \/ g = f => Fresh(g)'
  BY <1>1, <1>2, <1>6 DEF Fresh, Held
<1>12. LoopInv'
  <2>1. CASE f = Snapshot(s)
    <3>1. toSave = <<Snapshot(s), WeightsFile, AdamFile, SchedulerFile>> /\ s = NextSave
      BY <2>1, <1>2, FileFacts DEF SaveInv
    <3>2. toSave' = <<WeightsFile, AdamFile, SchedulerFile>> /\ mode' = "saving"
      BY <3>1, <1>1
    <3>3. Fresh(Snapshot(s))' /\ Snapshot(s)' = Snapshot(s)
      BY <2>1, <1>1, <1>3, <1>11 DEF Snapshot
    <3>4. SaveInv'
      BY <3>1, <3>2, <3>3, <1>1, <1>5 DEF SaveInv
    <3> QED BY <3>2, <3>4, <1>1, <1>2, <1>5 DEF LoopInv, InSave
  <2>2. CASE f = WeightsFile
    <3>1. toSave = <<WeightsFile, AdamFile, SchedulerFile>> /\ s = NextSave
      BY <2>2, <1>2, FileFacts DEF SaveInv
    <3>2. toSave' = <<AdamFile, SchedulerFile>> /\ mode' = "saving"
      BY <3>1, <1>1
    <3>3. Fresh(WeightsFile)'
      BY <2>2, <1>3, <1>11
    <3>4. SaveInv'
      BY <3>1, <3>2, <3>3, <1>1, <1>5 DEF SaveInv
    <3> QED BY <3>2, <3>4, <1>1, <1>2, <1>5 DEF LoopInv, InSave
  <2>3. CASE f = AdamFile
    <3>1. toSave = <<AdamFile, SchedulerFile>> /\ s = NextSave /\ Fresh(WeightsFile)
      BY <2>3, <1>2, FileFacts DEF SaveInv
    <3>2. toSave' = <<SchedulerFile>> /\ mode' = "saving"
      BY <3>1, <1>1
    <3>3. Fresh(WeightsFile)' /\ Fresh(AdamFile)'
      BY <2>3, <3>1, <1>3, <1>11, FileFacts
    <3>4. SaveInv'
      BY <3>1, <3>2, <3>3, <1>1, <1>5 DEF SaveInv
    <3> QED BY <3>2, <3>4, <1>1, <1>2, <1>5 DEF LoopInv, InSave
  <2>4. CASE f = SchedulerFile
    <3>1. toSave = <<SchedulerFile>> /\ s = SavedIter
      BY <2>4, <1>1, <1>2, FileFacts DEF SaveInv
    <3>2. toSave' = <<>> /\ mode' = IF s >= UpdatesWanted THEN "stopped" ELSE "training"
      BY <3>1, <1>1
    <3>3. SavedIter < NextSave /\ (~(s >= UpdatesWanted) => s < UpdatesWanted)
      BY <1>2, IniknetTypes, Period DEF NextSave
    <3> QED BY <3>1, <3>2, <3>3, <1>1, <1>2, <1>5 DEF LoopInv, InSave
  <2> QED BY <2>1, <2>2, <2>3, <2>4, <1>3
<1>13. DiskInv'
  <2> SUFFICES ASSUME NEW g \in {WeightsFile, Snapshot(NextSave)} \cap AllFiles,
                      g = WeightsFile \/ WeightsFile \in inPart',
                      IsWhole(g)', IsWhole(AdamFile)', IsWhole(SchedulerFile)'
               PROVE  /\ saved[AdamFile] <= saved[g]
                      /\ Costs(saved[g], SavedIter, IF InSave' THEN inikKills + 1 ELSE inikKills)
    BY <1>1, <1>5 DEF DiskInv, Snapshot, Costs
  <2>1. SavedIter # NoFile
    BY <1>1 DEF IsWhole, SavedIter
  <2>2. /\ SavedIter \in Nat /\ saved[AdamFile] \in Nat /\ saved[g] \in Nat
        /\ saved[AdamFile] <= count["adam"] /\ count["adam"] <= count["weights"]
        /\ s <= count["adam"]
        /\ count["weights"] <= s + SavePeriod * inikKills
    BY <1>2, <2>1, IniknetTypes DEF DriftIsBounded
  <2>3. CASE f = SchedulerFile
    <3>1. /\ s = SavedIter /\ Fresh(WeightsFile) /\ Fresh(AdamFile)
      BY <2>3, <1>1, <1>2, FileFacts DEF SaveInv
    <3>2. g = WeightsFile
      BY <3>1, <1>1 DEF Fresh, IsWhole
    <3>3. saved[g] = count["weights"] /\ saved[AdamFile] = count["adam"]
      BY <3>1, <3>2, FileFacts DEF Fresh
    <3>4. Costs(saved[g], SavedIter, inikKills)
      BY <3>1, <3>3, <2>2 DEF Costs
    <3>5. Costs(saved[g], SavedIter, inikKills + 1)
      BY <3>3, <3>4, <2>2, KillCost, IniknetTypes, Period DEF Costs
    <3> QED BY <3>1, <3>3, <3>4, <3>5, <2>2
  <2>4. CASE f # SchedulerFile
    <3>1. s = NextSave /\ IsWhole(SchedulerFile) /\ InSave'
      <4>1. Tail(toSave) # <<>> /\ s = NextSave
        <5>1. CASE f = Snapshot(s)
          <6>1. toSave = <<Snapshot(s), WeightsFile, AdamFile, SchedulerFile>> /\ s = NextSave
            BY <5>1, <1>2, FileFacts DEF SaveInv
          <6> QED BY <6>1
        <5>2. CASE f = WeightsFile
          <6>1. toSave = <<WeightsFile, AdamFile, SchedulerFile>> /\ s = NextSave
            BY <5>2, <1>2, FileFacts DEF SaveInv
          <6> QED BY <6>1
        <5>3. CASE f = AdamFile
          <6>1. toSave = <<AdamFile, SchedulerFile>> /\ s = NextSave
            BY <5>3, <1>2, FileFacts DEF SaveInv
          <6> QED BY <6>1
        <5> QED BY <2>4, <5>1, <5>2, <5>3, <1>3
      <4> QED BY <2>4, <4>1, <1>1, <1>6, FileFacts DEF InSave
    <3>2. count["weights"] <= SavedIter + SavePeriod * (inikKills + 1)
      BY <3>1, <2>2, KillCost, IniknetTypes, Period DEF NextSave
    <3>3. CASE f = AdamFile
      <4>1. Fresh(WeightsFile) /\ saved[AdamFile] = count["adam"]
        BY <3>3, <1>2, FileFacts DEF SaveInv
      <4>2. g = WeightsFile /\ saved[g] = count["weights"]
        BY <4>1, <1>1, FileFacts DEF Fresh, IsWhole
      <4>3. SavedIter <= s
        BY <3>1, IniknetTypes, Period DEF NextSave
      <4> QED BY <3>1, <3>2, <4>1, <4>2, <4>3, <2>2, IniknetTypes DEF Costs
    <3>4. CASE f # AdamFile
      <4>1. IsWhole(AdamFile)
        BY <3>4, <1>6, FileFacts
      <4>2. CASE g = f
        <5>1. saved[g] = count["weights"]
          BY <4>2, <1>2, <1>3, <2>4, <3>4, FileFacts
        <5> QED BY <5>1, <3>1, <3>2, <2>2, IniknetTypes DEF Costs
      <4>3. CASE g # f
        <5>1. IsWhole(g) /\ (g = WeightsFile \/ WeightsFile \in inPart)
          BY <4>3, <1>1, <1>6
        <5> QED BY <5>1, <4>1, <3>1, <1>1 DEF DiskInv, InSave
      <4> QED BY <4>2, <4>3
    <3> QED BY <3>3, <3>4
  <2> QED BY <2>3, <2>4
<1> QED BY <1>8, <1>9, <1>10, <1>12, <1>13

LEMMA IniknetStep == IniknetInv /\ [IniknetNext]_iniknetVars => IniknetInv'
BY StartKeeps, ResumeKeeps, MicroKeeps, UpdateKeeps, OpenKeeps, CloseKeeps, KillKeeps
DEF IniknetNext

LEMMA IniknetInvHolds == IniknetSpec => []IniknetInv
BY IniknetStep, IniknetInvInit, PTL DEF IniknetSpec

\* Weights, optimizer and scheduler of a training that was killed any number of
\* times drift by one save period a kill at most, and only this way round.
THEOREM DriftIsBoundedHolds == IniknetSpec => []DriftIsBounded
<1>1. IniknetInv => DriftIsBounded
  BY DEF IniknetInv
<1> QED BY <1>1, IniknetInvHolds, PTL

----------------------------------------------------------------------------
(* Topological sort. *)

\* The edges of m that come from nodes not yet in `order`.
Waiting(m) == {k \in DOMAIN graph.deps[m] : graph.deps[m][k] \notin NamesOf(order)}

DegreesCount ==
    /\ inDegree \in [Nodes(graph) -> Nat]
    /\ \A m \in Nodes(graph) :
        /\ inDegree[m] = Cardinality(Waiting(m))
        /\ inDegree[m] = 0 <=> m \in NamesOf(order) \cup ready

OrderPrecedes ==
    \A i \in DOMAIN order :
        \A d \in NamesOf(graph.deps[order[i]]) : \E j \in 1 .. i - 1 : order[j] = d

Sorted ==
    /\ graph \in Graphs
    /\ order \in Seq(Nodes(graph)) /\ ready \subseteq Nodes(graph)
    /\ \A i, j \in DOMAIN order : order[i] = order[j] => i = j
    /\ NamesOf(order) \cap ready = {}
    /\ DegreesCount
    /\ OrderPrecedes

SortInv ==
    /\ progress \in {"new", "sorting", "returned", "refused"}
    /\ progress = "new" => order = <<>> /\ ready = {}
    /\ progress \in {"sorting", "returned"} => Accepted(graph)
    /\ progress = "refused" /\ Accepted(graph) =>
        Sorted /\ ready = {} /\ Len(order) # Len(graph.names)
    /\ progress = "sorting" => Sorted
    /\ progress = "returned" => Sorted /\ Len(order) = Len(graph.names)

----------------------------------------------------------------------------

\* A list without repetition has as many elements as names.
LEMMA ListCardinality ==
    ASSUME NEW S, NEW s \in Seq(S), \A i, j \in DOMAIN s : s[i] = s[j] => i = j
    PROVE  IsFiniteSet(NamesOf(s)) /\ Cardinality(NamesOf(s)) = Len(s)
<1>1. Len(s) \in Nat /\ DOMAIN s = 1 .. Len(s)
  OBVIOUS
<1>2. s \in Surjection(1 .. Len(s), NamesOf(s)) /\ s \in Injection(1 .. Len(s), NamesOf(s))
  BY <1>1 DEF Surjection, Injection, IsInjective, NamesOf
<1>3. IsFiniteSet(1 .. Len(s)) /\ Cardinality(1 .. Len(s)) = Len(s)
  BY <1>1, FS_Interval
<1> QED BY <1>2, <1>3, FS_Surjection

\* Waiting edges are finitely many, and popping n takes exactly its own away.
LEMMA EdgesTaken ==
    ASSUME Sorted, NEW n \in ready, NEW m \in Nodes(graph)
    PROVE  /\ IsFiniteSet(Waiting(m)) /\ Edges(n, m) \subseteq Waiting(m)
           /\ Cardinality(Waiting(m) \ Edges(n, m)) = Cardinality(Waiting(m)) - Cardinality(Edges(n, m))
           /\ Cardinality(Waiting(m) \ Edges(n, m)) \in Nat
<1>1. graph.deps[m] \in Seq(NamesOf(graph.deps[m]))
  BY GraphsAssumption DEF Sorted, IsGraph
<1>2. IsFiniteSet(DOMAIN graph.deps[m])
  <2>1. DOMAIN graph.deps[m] = 1 .. Len(graph.deps[m]) /\ Len(graph.deps[m]) \in Nat
    BY <1>1
  <2> QED BY <2>1, FS_Interval
<1>3. IsFiniteSet(Waiting(m))
  BY <1>2, FS_Subset DEF Waiting
<1>4. n \notin NamesOf(order)
  BY DEF Sorted
<1>5. Edges(n, m) \subseteq Waiting(m)
  BY <1>4 DEF Edges, Waiting
<1>6. Waiting(m) \cap Edges(n, m) = Edges(n, m)
  BY <1>5
<1>7. IsFiniteSet(Waiting(m) \ Edges(n, m))
  BY <1>3, FS_Difference
<1> QED BY <1>3, <1>5, <1>6, <1>7, FS_Difference, FS_CardinalityType

\* The construction of the counters and the queue.
LEMMA ConstructSorts ==
    ASSUME SortInv, Construct, Accepted(graph')
    PROVE  Sorted'
<1>1. graph' \in Graphs /\ order' = <<>> /\ IsGraph(graph')
  BY GraphsAssumption DEF Construct, SortInv
<1>2. NamesOf(order') = {} /\ order' \in Seq(Nodes(graph')) /\ DOMAIN order' = {}
  BY <1>1 DEF NamesOf
<1>3. ready' = Sources(graph') /\ inDegree' = [n \in Nodes(graph') |-> Len(graph'.deps[n])]
  BY DEF Construct
<1>4. ASSUME NEW m \in Nodes(graph')
      PROVE  /\ Len(graph'.deps[m]) \in Nat
             /\ Cardinality(Waiting(m)') = Len(graph'.deps[m])
  <2>1. graph'.deps[m] \in Seq(NamesOf(graph'.deps[m]))
    BY <1>1, <1>4 DEF IsGraph
  <2>2. Waiting(m)' = 1 .. Len(graph'.deps[m]) /\ Len(graph'.deps[m]) \in Nat
    BY <1>2, <2>1 DEF Waiting
  <2> QED BY <2>2, FS_Interval
<1>5. DegreesCount'
  BY <1>2, <1>3, <1>4 DEF DegreesCount, Sources
<1> QED BY <1>1, <1>2, <1>3, <1>5 DEF Sorted, OrderPrecedes, Sources

\* One iteration of the loop.
LEMMA VisitSorts ==
    ASSUME Sorted, Visit
    PROVE  Sorted'
<1>1. PICK n \in ready :
        /\ order' = Append(order, n)
        /\ inDegree' = [m \in DOMAIN inDegree |-> inDegree[m] - Cardinality(Edges(n, m))]
        /\ ready' = (ready \ {n}) \cup {m \in Nodes(graph) : inDegree[m] # 0 /\ inDegree'[m] = 0}
  BY DEF Visit
<1>2. graph' = graph /\ graph \in Graphs
  BY DEF Visit, Sorted
<1>3. /\ order' \in Seq(Nodes(graph)) /\ ready' \subseteq Nodes(graph)
      /\ DOMAIN order' = 1 .. Len(order) + 1 /\ order'[Len(order) + 1] = n
      /\ DOMAIN order = 1 .. Len(order) /\ Len(order) \in Nat
      /\ \A i \in 1 .. Len(order) : order'[i] = order[i]
  BY <1>1 DEF Sorted
<1>4. NamesOf(order') = NamesOf(order) \cup {n} /\ n \notin NamesOf(order)
  <2>1. n \notin NamesOf(order)
    BY DEF Sorted
  <2>2. ASSUME NEW x PROVE x \in NamesOf(order') <=> x \in NamesOf(order) \cup {n}
    <3>1. x \in NamesOf(order') <=> \E i \in 1 .. Len(order) + 1 : x = order'[i]
      BY <1>3 DEF NamesOf
    <3>2. (\E i \in 1 .. Len(order) + 1 : x = order'[i]) <=>
            (\E i \in 1 .. Len(order) : x = order'[i]) \/ x = n
      BY <1>3
    <3>3. x \in NamesOf(order) <=> \E i \in 1 .. Len(order) : x = order[i]
      BY <1>3 DEF NamesOf
    <3> QED BY <1>3, <3>1, <3>2, <3>3
  <2> QED BY <2>1, <2>2
<1>5. \A i, j \in DOMAIN order' : order'[i] = order'[j] => i = j
  <2>1. \A i \in 1 .. Len(order) : order[i] # n
    BY <1>3, <1>4 DEF NamesOf
  <2> QED BY <1>3, <2>1 DEF Sorted
<1>6. ASSUME NEW m \in Nodes(graph)
      PROVE  /\ Waiting(m)' = Waiting(m) \ Edges(n, m)
             /\ inDegree'[m] = Cardinality(Waiting(m)') /\ inDegree'[m] \in Nat
             /\ inDegree[m] = 0 => inDegree'[m] = 0
  <2>1. Waiting(m)' = Waiting(m) \ Edges(n, m)
    BY <1>2, <1>4 DEF Waiting, Edges
  <2>2. inDegree'[m] = inDegree[m] - Cardinality(Edges(n, m)) /\ inDegree[m] = Cardinality(Waiting(m))
    BY <1>1 DEF Sorted, DegreesCount
  <2>3. inDegree'[m] = Cardinality(Waiting(m)') /\ inDegree'[m] \in Nat
    BY <2>1, <2>2, EdgesTaken
  <2>4. inDegree[m] = 0 => inDegree'[m] = 0
    <3>1. SUFFICES ASSUME Cardinality(Waiting(m)) = 0 PROVE Cardinality(Waiting(m)') = 0
      BY <2>2, <2>3
    <3>2. Waiting(m) = {}
      BY <3>1, EdgesTaken, FS_EmptySet
    <3> QED BY <2>1, <3>1, <3>2
  <2> QED BY <2>1, <2>3, <2>4
<1>7. inDegree' \in [Nodes(graph) -> Nat]
  BY <1>1, <1>6 DEF Sorted, DegreesCount
<1>8. ASSUME NEW m \in Nodes(graph)
      PROVE  inDegree'[m] = 0 <=> m \in NamesOf(order') \cup ready'
  <2>1. inDegree[m] = 0 <=> m \in NamesOf(order) \cup ready
    BY DEF Sorted, DegreesCount
  <2>2. m \in ready' <=> (m \in ready /\ m # n) \/ (inDegree[m] # 0 /\ inDegree'[m] = 0)
    BY <1>1
  <2> QED BY <1>4, <1>6, <2>1, <2>2
<1>9. DegreesCount'
  BY <1>2, <1>6, <1>7, <1>8 DEF DegreesCount
<1>10. NamesOf(order') \cap ready' = {}
  <2>1. \A m \in Nodes(graph) : inDegree[m] # 0 => m \notin NamesOf(order) /\ m # n
    BY DEF Sorted, DegreesCount
  <2> QED BY <1>1, <1>4, <2>1 DEF Sorted
<1>11. ASSUME NEW d \in NamesOf(graph.deps[n])
       PROVE  \E j \in 1 .. Len(order) : order[j] = d
  <2>1. n \in Nodes(graph) /\ Cardinality(Waiting(n)) = 0
    BY DEF Sorted, DegreesCount
  <2>2. Waiting(n) = {}
    BY <2>1, EdgesTaken, FS_EmptySet
  <2>3. d \in NamesOf(order)
    BY <2>2, <1>11 DEF Waiting, NamesOf
  <2> QED BY <1>3, <2>3 DEF NamesOf
<1>12. OrderPrecedes'
  <2> SUFFICES ASSUME NEW i \in 1 .. Len(order) + 1, NEW d \in NamesOf(graph.deps[order'[i]])
               PROVE  \E j \in 1 .. i - 1 : order'[j] = d
    BY <1>2, <1>3 DEF OrderPrecedes
  <2>1. CASE i = Len(order) + 1
    BY <1>3, <1>11, <2>1
  <2>2. CASE i \in 1 .. Len(order)
    <3>1. PICK j \in 1 .. i - 1 : order[j] = d
      BY <1>3, <2>2 DEF Sorted, OrderPrecedes
    <3> QED BY <1>3, <2>2, <3>1
  <2> QED BY <1>3, <2>1, <2>2
<1> QED BY <1>2, <1>3, <1>5, <1>9, <1>10, <1>12 DEF Sorted

----------------------------------------------------------------------------

\* Sorted says nothing of `progress`.
LEMMA SortedKept ==
    ASSUME Sorted, UNCHANGED <<graph, inDegree, ready, order>>
    PROVE  Sorted'
<1>1. \A m : Waiting(m)' = Waiting(m)
  BY DEF Waiting
<1>2. DegreesCount'
  BY <1>1 DEF Sorted, DegreesCount
<1> QED BY <1>2 DEF Sorted, OrderPrecedes

LEMMA SortStarts == SortInit => SortInv
BY DEF SortInit, SortInv

LEMMA SortStep == SortInv /\ [SortNext]_sortVars => SortInv'
<1> SUFFICES ASSUME SortInv, [SortNext]_sortVars PROVE SortInv'
  OBVIOUS
<1>1. CASE Construct
  <2>1. CASE Accepted(graph')
    BY <1>1, <2>1, ConstructSorts DEF Construct, SortInv
  <2>2. CASE ~Accepted(graph')
    BY <1>1, <2>2 DEF Construct, SortInv
  <2> QED BY <2>1, <2>2
<1>2. CASE Visit
  <2>1. Sorted'
    BY <1>2, VisitSorts DEF Visit, SortInv
  <2> QED BY <1>2, <2>1 DEF Visit, SortInv
<1>3. CASE Conclude
  <2>1. Sorted /\ Sorted' /\ Accepted(graph')
    BY <1>3, SortedKept DEF Conclude, SortInv
  <2> QED BY <1>3, <2>1 DEF Conclude, SortInv
<1>4. CASE UNCHANGED sortVars
  BY <1>4, SortedKept DEF sortVars, SortInv
<1> QED BY <1>1, <1>2, <1>3, <1>4 DEF SortNext

\* SortInv holds in every reachable state.
LEMMA SortInvHolds == SortSpec => []SortInv
BY SortStarts, SortStep, PTL DEF SortSpec

\* A full-length order without repetition holds every node.
LEMMA FullOrderHoldsAll ==
    ASSUME Sorted, Accepted(graph), Len(order) = Len(graph.names)
    PROVE  NamesOf(order) = Nodes(graph)
<1>1. graph.names \in Seq(Nodes(graph))
  BY GraphsAssumption DEF Sorted, IsGraph
<1>2. IsFiniteSet(Nodes(graph)) /\ Cardinality(Nodes(graph)) = Len(graph.names)
  BY <1>1, ListCardinality DEF Nodes, Accepted, UniqueNames
<1>3. Cardinality(NamesOf(order)) = Len(order)
  BY ListCardinality DEF Sorted
<1>4. NamesOf(order) \subseteq Nodes(graph)
  BY DEF Sorted, NamesOf
<1> QED BY <1>2, <1>3, <1>4, FS_Subset

\* When nothing is ready, the nodes left out wait for one another.
LEMMA RestIsCycle ==
    ASSUME Sorted, Accepted(graph), ready = {}, Len(order) # Len(graph.names)
    PROVE  Cyclic(graph)
<1> DEFINE S == Nodes(graph) \ NamesOf(order)
<1>1. graph.names \in Seq(Nodes(graph))
  BY GraphsAssumption DEF Sorted, IsGraph
<1>2. S # {}
  <2>1. Cardinality(Nodes(graph)) = Len(graph.names)
    BY <1>1, ListCardinality DEF Nodes, Accepted, UniqueNames
  <2>2. Cardinality(NamesOf(order)) = Len(order)
    BY ListCardinality DEF Sorted
  <2>3. NamesOf(order) \subseteq Nodes(graph)
    BY DEF Sorted, NamesOf
  <2>4. S = {} => NamesOf(order) = Nodes(graph)
    BY <2>3
  <2> QED BY <2>1, <2>2, <2>4
<1>3. ASSUME NEW n \in S PROVE NamesOf(graph.deps[n]) \cap S # {}
  <2>1. Cardinality(Waiting(n)) # 0
    BY <1>3 DEF Sorted, DegreesCount
  <2>2. PICK k \in DOMAIN graph.deps[n] : graph.deps[n][k] \notin NamesOf(order)
    BY <2>1, FS_EmptySet DEF Waiting
  <2>3. graph.deps[n][k] \in Nodes(graph)
    BY <1>3 DEF Accepted, Registered, NamesOf
  <2> QED BY <2>2, <2>3 DEF NamesOf
<1> QED BY <1>2, <1>3 DEF Cyclic

\* _topological_sort returns an order that respects the dependencies, and the
\* constructor refuses an accepted list of nodes only for a cycle.
THEOREM SortIsSoundHolds == SortSpec => []SortIsSound
<1>1. SortInv => SortIsSound
  <2> SUFFICES ASSUME SortInv PROVE SortIsSound
    OBVIOUS
  <2>1. ASSUME progress = "returned" PROVE Accepted(graph) /\ OrderRespectsDeps
    BY <2>1, FullOrderHoldsAll DEF SortInv, OrderRespectsDeps, Sorted, OrderPrecedes
  <2>2. ASSUME progress = "refused" PROVE ~Accepted(graph) \/ Cyclic(graph)
    BY <2>2, RestIsCycle DEF SortInv
  <2> QED BY <2>1, <2>2 DEF SortIsSound
<1> QED BY <1>1, SortInvHolds, PTL

----------------------------------------------------------------------------
(* The types of the components checked side by side. *)

LEMMA SortTypes ==
    ASSUME SortType, SortInv, [SortNext]_sortVars
    PROVE  SortType'
<1>1. ASSUME Construct PROVE SortType'
  <2>1. graph' \in Graphs /\ IsGraph(graph') /\ order' = <<>> /\ progress' \in {"sorting", "refused"}
    BY <1>1, GraphsAssumption DEF Construct, SortInv
  <2>2. CASE Accepted(graph')
    <3>1. inDegree' = [n \in Nodes(graph') |-> Len(graph'.deps[n])] /\ ready' = Sources(graph')
      BY <1>1, <2>2 DEF Construct
    <3>2. \A n \in Nodes(graph') : Len(graph'.deps[n]) \in Nat
      BY <2>1 DEF IsGraph
    <3> QED BY <2>1, <3>1, <3>2 DEF SortType, Sources
  <2>3. CASE ~Accepted(graph')
    <3>1. inDegree' = inDegree /\ ready' = ready /\ ready = {}
      BY <1>1, <2>3 DEF Construct, SortInv
    <3> QED BY <2>1, <3>1 DEF SortType
  <2> QED BY <2>2, <2>3
<1>2. ASSUME Visit PROVE SortType'
  <2>1. Sorted' /\ graph' = graph /\ progress' = progress
    BY <1>2, VisitSorts DEF Visit, SortInv
  <2> QED BY <2>1 DEF SortType, Sorted, DegreesCount
<1>3. CASE Conclude \/ UNCHANGED sortVars
  BY <1>3 DEF Conclude, sortVars, SortType
<1> QED BY <1>1, <1>2, <1>3 DEF SortNext

LEMMA OutputTypes ==
    ASSUME OutputType, OutputInv, [OutputNext]_outputVars
    PROVE  OutputType'
<1>1. \A k \in {"fault", "kill"}, bound \in Nat : Spent(k, bound) => spent' \in [{"fault", "kill"} -> Nat]
  BY DEF Spent, OutputType
<1>2. NoDir \notin Names /\ {MaxRunFaults, MaxRunCrashes} \subseteq Nat
  BY OutputAssumption DEF NoDir, Names
<1> USE DEF OutputType, filesVars, Steps
<1>3. CASE Configure
  BY <1>3 DEF Configure
<1>4. CASE Tick
  <2>1. now' \in Names
    BY <1>4, OutputAssumption DEF Tick, Names
  <2> QED BY <1>4, <2>1 DEF Tick
<1>5. CASE BeginRun
  BY <1>2, <1>5 DEF BeginRun
<1>6. CASE WriteOutputs
  BY <1>6 DEF WriteOutputs, OutputInv
<1>7. CASE UnlinkTemp \/ SymlinkTemp
  BY <1>7 DEF UnlinkTemp, SymlinkTemp
<1>8. CASE RenameTemp
  <2>1. runDir \in Names
    BY <1>8 DEF RenameTemp, OutputInv
  <2> QED BY <1>8, <2>1 DEF RenameTemp
<1>9. CASE Cleanup
  BY <1>9 DEF Cleanup, Surplus
<1>10. CASE DeleteOld \/ EndRun
  BY <1>10 DEF DeleteOld, EndRun
<1>11. CASE RunRaises
  BY <1>1, <1>2, <1>11 DEF RunRaises, BeingRemoved
<1>12. CASE AbortRun
  BY <1>12 DEF AbortRun
<1>13. CASE AbortRaises
  BY <1>1, <1>2, <1>13 DEF AbortRaises, BeingRemoved
<1>14. CASE KillRun
  BY <1>1, <1>2, <1>14 DEF KillRun, BeingRemoved
<1>15. CASE UNCHANGED outputVars
  BY <1>15 DEF outputVars
<1> QED
  BY <1>3, <1>4, <1>5, <1>6, <1>7, <1>8, <1>9, <1>10, <1>11, <1>12, <1>13, <1>14, <1>15
  DEF OutputNext

\* Rolling permutes the indices of an axis.
LEMMA RolledTypes ==
    ASSUME counts \in [Axes -> Nat \ {0}], NEW axes,
           NEW new \in {Default, Centered(counts)}, NEW cur \in {Default, Centered(counts)},
           NEW rows, \A a \in Axes : rows[a] \in [Indices(counts[a]) -> Indices(counts[a])]
    PROVE  \A a \in Axes : Rolled(rows, new, cur, axes)[a] \in [Indices(counts[a]) -> Indices(counts[a])]
<1> SUFFICES ASSUME NEW a \in Axes
             PROVE  Rolled(rows, new, cur, axes)[a] \in [Indices(counts[a]) -> Indices(counts[a])]
  OBVIOUS
<1>1. CASE a \in axes
  <2>1. PICK n \in Nat \ {0} : n = counts[a]
    OBVIOUS
  <2>2. PICK d \in Int : d = Shift(new[a], cur[a])
    <3>1. n \div 2 \in Int
      OBVIOUS
    <3>2. {new[a], cur[a]} \subseteq Int
      BY <2>1, <3>1 DEF Default, Centered
    <3> QED BY <3>2 DEF Shift
  <2>3. Rolled(rows, new, cur, axes)[a] = [i \in Indices(n) |-> rows[a][(i - d) % n]]
    BY <1>1, <2>1, <2>2 DEF Rolled, Roll
  <2>4. \A i \in Indices(n) : (i - d) % n \in Indices(n)
    BY DEF Indices
  <2>5. rows[a] \in [Indices(n) -> Indices(n)]
    BY <2>1
  <2> QED BY <2>1, <2>3, <2>4, <2>5
<1>2. CASE a \notin axes
  BY <1>2 DEF Rolled
<1> QED BY <1>1, <1>2

LEMMA GridTypes ==
    ASSUME GridType, GridInv, [GridNext]_gridVars
    PROVE  GridType'
<1>1. /\ counts \in [Axes -> Nat \ {0}] /\ counts \in [Axes -> Lengths]
      /\ offset \in {Default, Centered(counts)}
      /\ \A a \in Axes : sampled[a] \in [Indices(counts[a]) -> Indices(counts[a])]
  BY DEF GridType, GridInv
<1>2. \A n \in [Axes -> Nat \ {0}] : {Default, Centered(n)} \subseteq [Axes -> Int]
  <2> SUFFICES ASSUME NEW n \in [Axes -> Nat \ {0}] PROVE {Default, Centered(n)} \subseteq [Axes -> Int]
    OBVIOUS
  <2>1. \A a \in Axes : -(n[a] \div 2) \in Int
    <3> TAKE a \in Axes
    <3>1. PICK m \in Nat \ {0} : m = n[a]
      OBVIOUS
    <3>2. m \div 2 \in Int
      OBVIOUS
    <3> QED BY <3>1, <3>2
  <2> QED BY <2>1 DEF Default, Centered
<1>3. ASSUME Call PROVE calls' \in 0 .. MaxCalls + 1 /\ counts' = counts
  BY <1>3, CallsAssumption DEF Call
<1>4. ASSUME NEW new \in {Default, Centered(counts)}, NEW axes, Call, RollTo(new, axes), aligned' = aligned
      PROVE  GridType'
  <2>1. \A a \in Axes : sampled'[a] \in [Indices(counts[a]) -> Indices(counts[a])]
    BY <1>1, <1>4, RolledTypes DEF RollTo
  <2>2. offset' \in [Axes -> Int]
    BY <1>1, <1>2, <1>4 DEF RollTo
  <2>3. {partial', aligned'} \subseteq BOOLEAN
    BY <1>4 DEF RollTo, GridType
  <2> QED BY <1>1, <1>3, <1>4, <2>1, <2>2, <2>3 DEF GridType
<1>5. CASE Create
  <2>1. /\ counts' \in [Axes -> Lengths] /\ offset' \in {Default, Centered(counts')}
        /\ sampled' = At0(counts', offset') /\ calls' = 1 /\ UNCHANGED <<partial, aligned>>
    BY <1>5 DEF Create
  <2>2. counts' \in [Axes -> Nat \ {0}] /\ offset' \in [Axes -> Int]
    BY <1>2, <2>1, LengthsAssumption
  <2>3. ASSUME NEW a \in Axes PROVE sampled'[a] \in [Indices(counts'[a]) -> Indices(counts'[a])]
    <3>1. PICK n \in Nat \ {0} : n = counts'[a]
      BY <2>2
    <3>2. PICK o \in Int : o = offset'[a]
      BY <2>2
    <3>3. sampled'[a] = [i \in Indices(n) |-> (i + o) % n]
      BY <2>1, <3>1, <3>2 DEF At0, Position
    <3>4. \A i \in Indices(n) : (i + o) % n \in Indices(n)
      BY DEF Indices
    <3> QED BY <3>1, <3>3, <3>4
  <2>4. calls' \in 0 .. MaxCalls + 1
    BY <2>1, CallsAssumption
  <2> QED BY <2>1, <2>2, <2>3, <2>4 DEF GridType
<1>6. CASE ToDftArrangement \/ ToCentered \/ \E a \in Axes : CenterAxis(a)
  BY <1>4, <1>6 DEF ToDftArrangement, ToCentered, CenterAxis
<1>7. ASSUME NEW axes \in SUBSET Axes, Transform(axes) PROVE GridType'
  <2> DEFINE rolled == Rolled(sampled, Default, offset, Axes)
             result == [a \in Axes |-> IF a \in axes THEN [i \in Indices(counts[a]) |-> i] ELSE rolled[a]]
  <2>1. /\ sampled' = Rolled(result, offset, Default, Axes) /\ UNCHANGED <<offset, partial>> /\ Call
        /\ aligned' = (aligned /\ \A a \in axes : \A i \in Indices(counts[a]) : rolled[a][i] = i)
    BY <1>7 DEF Transform
  <2>2. \A a \in Axes : rolled[a] \in [Indices(counts[a]) -> Indices(counts[a])]
    BY <1>1, RolledTypes
  <2> HIDE DEF rolled
  <2>3. \A a \in Axes : result[a] \in [Indices(counts[a]) -> Indices(counts[a])]
    BY <2>2
  <2> HIDE DEF result
  <2>4. \A a \in Axes : sampled'[a] \in [Indices(counts[a]) -> Indices(counts[a])]
    BY <1>1, <2>1, <2>3, RolledTypes
  <2>5. aligned' \in BOOLEAN
    BY <2>1
  <2> QED BY <1>3, <2>1, <2>4, <2>5 DEF GridType
<1>8. CASE UNCHANGED gridVars
  BY <1>8 DEF gridVars, GridType
<1> QED BY <1>5, <1>6, <1>7, <1>8 DEF GridNext

LEMMA BasicsrTypes ==
    ASSUME BasicsrType, BasicsrInv, [BasicsrNext]_basicsrVars
    PROVE  BasicsrType'
<1> DEFINE Weights == Seq(Nat \X (1 .. EpochBatches))
<1>1. EpochBatches \in Nat \ {0} /\ TotalIters \in Nat
  BY Training
<1>2. /\ trained \in Weights /\ \A i \in DOMAIN nets : nets[i] \in Weights
      /\ \A i \in DOMAIN states : states[i] \in [epoch : Nat, rate : Nat]
      /\ trainer \in TrainerPoints /\ iter \in 0 .. TotalIters + 1 /\ batch \in 0 .. EpochBatches
      /\ epoch \in Nat /\ rate \in Nat /\ trainings \in Nat /\ torn \subseteq Files
  BY DEF BasicsrType
<1>3. trainer \in Saving => iter \in 1 .. TotalIters
  BY DEF BasicsrInv, SavingInv
<1> USE DEF checkpointVars, modelVars, TrainerPoints, Looping, Saving
<1> HIDE DEF Weights
<1>4. SUFFICES
        /\ trained' \in Weights /\ \A i \in DOMAIN nets' : nets'[i] \in Weights
        /\ \A i \in DOMAIN states' : states'[i] \in [epoch : Nat, rate : Nat]
        /\ trainer' \in TrainerPoints /\ iter' \in 0 .. TotalIters + 1 /\ batch' \in 0 .. EpochBatches
        /\ epoch' \in Nat /\ rate' \in Nat /\ trainings' \in Nat /\ torn' \subseteq Files
  BY DEF BasicsrType, Weights
<1>5. CASE StartFresh
  <2>1. <<>> \in Weights
    BY DEF Weights
  <2>2. trained' = <<>> /\ nets' = Empty /\ torn' = {} /\ states' = states
    BY <1>5 DEF StartFresh
  <2>3. 0 \in 0 .. TotalIters + 1 /\ 0 \in 0 .. EpochBatches /\ trainings + 1 \in Nat
    BY <1>1, <1>2
  <2> QED BY <1>2, <1>5, <2>1, <2>2, <2>3 DEF StartFresh, BeginTraining, Empty
<1>6. CASE ResumeTraining
  <2>1. Newest \in DOMAIN states /\ Newest \in 1 .. TotalIters /\ Newest \in DOMAIN nets
    BY <1>6, NewestIs DEF ResumeTraining, BasicsrInv, StatesInv
  <2>2. states[Newest].epoch \in Nat /\ states[Newest].rate \in Nat /\ nets[Newest] \in Weights
    BY <1>2, <2>1
  <2>3. iter' \in 0 .. TotalIters + 1 /\ trained' \in Weights /\ rate' \in Nat
    BY <1>1, <1>6, <2>1, <2>2 DEF ResumeTraining
  <2>4. epoch' \in Nat
    BY <1>6, <2>2 DEF ResumeTraining, StartEpoch
  <2>5. 0 \in 0 .. EpochBatches /\ trainings + 1 \in Nat
    BY <1>1, <1>2
  <2> QED BY <1>2, <1>6, <2>3, <2>4, <2>5 DEF ResumeTraining, BeginTraining
<1>7. CASE BeginEpoch \/ FinishTraining \/ KillTraining
  BY <1>1, <1>2, <1>7 DEF BeginEpoch, FinishTraining, KillTraining
<1>8. CASE TrainBatch
  <2>1. batch' \in 1 .. EpochBatches /\ iter' \in 1 .. TotalIters
    BY <1>1, <1>2, <1>8 DEF TrainBatch
  <2>2. trained' \in Weights
    <3>1. <<epoch, batch'>> \in Nat \X (1 .. EpochBatches)
      BY <1>2, <2>1
    <3> QED BY <1>2, <1>8, <3>1 DEF TrainBatch, Weights
  <2>3. rate' \in Nat /\ trainer' \in TrainerPoints
    BY <1>2, <1>8 DEF TrainBatch
  <2>4. UNCHANGED <<epoch, nets, states, torn, trainings>>
    BY <1>8 DEF TrainBatch
  <2> QED BY <1>1, <1>2, <2>1, <2>2, <2>3, <2>4
<1>9. CASE EndEpoch
  <2>1. iter' \in 0 .. TotalIters + 1 /\ epoch' \in Nat
    BY <1>1, <1>2, <1>9 DEF EndEpoch
  <2> QED BY <1>2, <1>9, <2>1 DEF EndEpoch
<1>10. CASE OpenNet
  <2>1. <<"net", iter>> \in Files
    BY <1>3, <1>10 DEF OpenNet, OpenFile, Files
  <2>2. \A i \in DOMAIN nets' : nets'[i] \in Weights
    BY <1>2, <1>10 DEF OpenNet, Set
  <2> QED BY <1>2, <1>10, <2>1, <2>2 DEF OpenNet, OpenFile
<1>11. CASE OpenState
  <2>1. <<"state", iter>> \in Files
    BY <1>3, <1>11 DEF OpenState, OpenFile, Files
  <2>2. \A i \in DOMAIN states' : states'[i] \in [epoch : Nat, rate : Nat]
    BY <1>2, <1>11 DEF OpenState, Set
  <2> QED BY <1>2, <1>11, <2>1, <2>2 DEF OpenState, OpenFile
<1>12. CASE CloseNet \/ CloseState
  BY <1>2, <1>12 DEF CloseNet, CloseState, CloseFile
<1>13. CASE UNCHANGED basicsrVars
  BY <1>2, <1>13 DEF basicsrVars
<1> QED BY <1>5, <1>6, <1>7, <1>8, <1>9, <1>10, <1>11, <1>12, <1>13 DEF BasicsrNext

----------------------------------------------------------------------------
(* Side by side: what holds of each component alone holds of it here. *)

PartsInv ==
    /\ PartsTypeOK
    /\ PipelineInv /\ SortInv /\ OutputInv /\ GridInv /\ BasicsrInv /\ IniknetInv

LEMMA PartsStart == PartsInit => PartsInv
<1> SUFFICES ASSUME PartsInit PROVE PartsInv
  OBVIOUS
<1>1. PipelineInv /\ PipelineType /\ SortInv /\ OutputInv /\ GridInv /\ BasicsrInv /\ IniknetInv /\ IniknetType
  BY PipelineStarts, SortStarts, OutputStarts, GridInvInit, BasicsrInvInit, IniknetInvInit
  DEF PartsInit, PipelineInv, IniknetInv
<1>2. SortType
  BY DEF PartsInit, SortInit, SortType
<1>3. OutputType
  <2>1. 1 \in Names
    BY OutputAssumption DEF Names
  <2>2. NoStrategy \in [naming : {"none", "sequential", "timestamp"}, keep : Keeps \cup {0}]
    BY DEF NoStrategy
  <2>3. [k \in {"fault", "kill"} |-> 0] \in [{"fault", "kill"} -> Nat] /\ <<>> \in Seq(Names)
    OBVIOUS
  <2>4. OutputInit
    BY DEF PartsInit
  <2> HIDE DEF NoStrategy
  <2> QED BY <2>1, <2>2, <2>3, <2>4 DEF OutputInit, OutputType, Steps
<1>4. GridType
  <2>1. counts \in [Axes -> Lengths] /\ counts \in [Axes -> Nat \ {0}] /\ offset = Default
    <3>1. GridInit /\ (CHOOSE n \in Lengths : TRUE) \in Lengths
      BY LengthsAssumption DEF PartsInit
    <3>2. counts \in [Axes -> Lengths]
      BY <3>1 DEF GridInit
    <3> QED BY <3>1, <3>2, LengthsAssumption DEF GridInit
  <2>2. ASSUME NEW a \in Axes PROVE sampled[a] \in [Indices(counts[a]) -> Indices(counts[a])]
    <3>1. PICK n \in Nat \ {0} : n = counts[a]
      BY <2>1
    <3>2. sampled[a] = [i \in Indices(n) |-> (i + 0) % n]
      BY <2>1, <3>1 DEF PartsInit, GridInit, At0, Position, Default
    <3>3. \A i \in Indices(n) : (i + 0) % n \in Indices(n)
      BY DEF Indices
    <3> QED BY <3>1, <3>2, <3>3
  <2>3. calls \in 0 .. MaxCalls + 1 /\ {partial, aligned} \subseteq BOOLEAN
    <3>1. calls = 0 /\ partial = FALSE /\ aligned = TRUE
      BY DEF PartsInit, GridInit
    <3>2. 0 \in 0 .. MaxCalls + 1
      BY CallsAssumption
    <3> QED BY <3>1, <3>2
  <2>4. offset \in [Axes -> Int]
    BY <2>1 DEF Default
  <2> QED BY <2>1, <2>2, <2>3, <2>4 DEF GridType
<1>5. BasicsrType
  <2>1. 0 \in 0 .. TotalIters + 1 /\ 0 \in 0 .. EpochBatches
    BY Training
  <2>2. trained = <<>> /\ DOMAIN nets = {} /\ DOMAIN states = {} /\ torn = {}
    BY DEF PartsInit, BasicsrInit, Empty
  <2>3. \A w \in {trained} \cup {nets[i] : i \in DOMAIN nets} : w \in Seq(Nat \X (1 .. EpochBatches))
    BY <2>2
  <2>4. \A i \in DOMAIN states : states[i] \in [epoch : Nat, rate : Nat]
    BY <2>2
  <2>5. trainer = "down" /\ iter = 0 /\ batch = 0 /\ epoch = 0 /\ rate = 0 /\ trainings = 0
    BY DEF PartsInit, BasicsrInit
  <2> QED BY <2>1, <2>2, <2>3, <2>4, <2>5 DEF BasicsrType, TrainerPoints
<1> QED BY <1>1, <1>2, <1>3, <1>4, <1>5 DEF PartsInv, PartsTypeOK, PartsInit

LEMMA PartsStep == PartsInv /\ [PartsNext]_<<part, componentVars>> => PartsInv'
<1> SUFFICES ASSUME PartsInv, [PartsNext]_<<part, componentVars>> PROVE PartsInv'
  OBVIOUS
<1>1. /\ part' = part /\ [PipelineNext]_pipelineVars /\ [SortNext]_sortVars
      /\ [OutputNext]_outputVars /\ [GridNext]_gridVars
      /\ [BasicsrNext]_basicsrVars /\ [IniknetNext]_iniknetVars
  BY DEF PartsNext, PartStops, componentVars
<1>2. PipelineInv' /\ SortInv' /\ OutputInv' /\ GridInv' /\ BasicsrInv' /\ IniknetInv'
  BY <1>1, PipelineStep, SortStep, OutputStep, GridStep, BasicsrStep, IniknetStep DEF PartsInv
<1>3. SortType' /\ OutputType' /\ GridType' /\ BasicsrType'
  BY <1>1, SortTypes, OutputTypes, GridTypes, BasicsrTypes DEF PartsInv, PartsTypeOK
<1>4. PipelineType' /\ IniknetType'
  BY <1>2 DEF PipelineInv, IniknetInv
<1> QED BY <1>1, <1>2, <1>3, <1>4 DEF PartsInv, PartsTypeOK

\* Every component stays within its types, whichever is at work and for every
\* value of the constants.
THEOREM PartsTypeOKHolds == PartsSpec => []PartsTypeOK
<1>1. PartsInv => PartsTypeOK
  BY DEF PartsInv
<1> QED BY <1>1, PartsStart, PartsStep, PTL DEF PartsSpec

\* Side by side, each component behaves as by its own specification, so what
\* is proved of it alone is proved of the run of them all.
THEOREM PartsAreComponents ==
    PartsSpec => /\ Init /\ [][Next]_vars
                 /\ PipelineInit /\ [][PipelineNext]_pipelineVars
                 /\ SortSpec /\ OutputSpec /\ GridSpec /\ BasicsrSpec /\ IniknetSpec
<1>1. PartsInit => /\ Init /\ PipelineInit /\ SortInit
                   /\ OutputInit /\ GridInit /\ BasicsrInit /\ IniknetInit
  BY DEF PartsInit
<1>2. [PartsNext]_<<part, componentVars>> =>
        /\ [Next]_vars /\ [PipelineNext]_pipelineVars /\ [SortNext]_sortVars
        /\ [OutputNext]_outputVars /\ [GridNext]_gridVars
        /\ [BasicsrNext]_basicsrVars /\ [IniknetNext]_iniknetVars
  BY DEF PartsNext, PartStops, componentVars
<1> QED
  BY <1>1, <1>2, PTL DEF PartsSpec, SortSpec, OutputSpec, GridSpec, BasicsrSpec, IniknetSpec
=============================================================================
