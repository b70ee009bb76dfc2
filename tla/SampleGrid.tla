------------------------------ MODULE SampleGrid ------------------------------
(***************************************************************************)
(* DFTSampleGrid: values along each axis with an integer offset that says  *)
(* where they are, index i at position (i + offset) * spacing, periodic in *)
(* the length of the axis.  Calls roll the values and change the offset;   *)
(* rolling one axis leaves the others alone, so a value is represented per *)
(* axis by the position it was sampled at, in units of the spacing.  The   *)
(* values have the sampler's axes only: leading batch axes, which fft.py   *)
(* allows for and _roll_to_offset does not, are not modelled.              *)
(***************************************************************************)
EXTENDS Integers

CONSTANTS Axes,     \* the axes of the grid
          Lengths,  \* the lengths an axis may have
          MaxCalls  \* bound: calls on one grid

ASSUME LengthsAssumption == Lengths \subseteq Nat \ {0} /\ Lengths # {}
ASSUME CallsAssumption == MaxCalls \in Nat

VARIABLES
    counts,    \* DFTSampler.shape
    offset,    \* DFTSampler.offset
    sampled,   \* per axis, the position the value at each index belongs to
    calls,     \* how many calls were made
    partial,   \* history: an axis was left out of a roll that moved its offset
    aligned    \* history: every transform has read its axes from position 0 on

gridVars == <<counts, offset, sampled, calls, partial, aligned>>

Indices(n) == 0 .. n - 1

\* _default_offset and _centered_offset.
Default == [a \in Axes |-> 0]
Centered(n) == [a \in Axes |-> -(n[a] \div 2)]

\* positions_1d, up to the period.
Position(n, off, i) == (i + off) % n

At0(n, off) == [a \in Axes |-> [i \in Indices(n[a]) |-> Position(n[a], off[a], i)]]

GridType ==
    /\ counts \in [Axes -> Lengths] /\ offset \in [Axes -> Int]
    /\ \A a \in Axes : sampled[a] \in [Indices(counts[a]) -> Indices(counts[a])]
    /\ calls \in 0 .. MaxCalls + 1 /\ {partial, aligned} \subseteq BOOLEAN

\* Before the first call, the one grid that says nothing.
GridInit ==
    /\ counts = [a \in Axes |-> CHOOSE n \in Lengths : TRUE]
    /\ offset = Default /\ sampled = At0(counts, Default)
    /\ calls = 0 /\ partial = FALSE /\ aligned = TRUE

Call == calls \in 1 .. MaxCalls /\ calls' = calls + 1 /\ UNCHANGED counts

\* DFTSampleGrid.create, sample_centered, from_centered_values.
Create ==
    /\ calls = 0 /\ calls' = 1
    /\ counts' \in [Axes -> Lengths]
    /\ offset' \in {Default, Centered(counts')}
    /\ sampled' = At0(counts', offset')
    /\ UNCHANGED <<partial, aligned>>

\* jnp.roll: index i takes the value of index i - shift.
Roll(row, n, shift) == [i \in Indices(n) |-> row[(i - shift) % n]]

\* _roll_to_offset rolls by the difference of the offsets.
Shift(new, cur) == new - cur

Rolled(rows, new, cur, axes) ==
    [a \in Axes |-> IF a \in axes THEN Roll(rows[a], counts[a], Shift(new[a], cur[a])) ELSE rows[a]]

RollTo(new, axes) ==
    /\ sampled' = Rolled(sampled, new, offset, axes)
    /\ offset' = new
    /\ partial' = (partial \/ \E a \in Axes \ axes : new[a] # offset[a])

ToDftArrangement ==
    /\ Call /\ RollTo(Default, Axes)
    /\ UNCHANGED aligned

ToCentered ==
    /\ Call /\ RollTo(Centered(counts), Axes)
    /\ UNCHANGED aligned

\* bluestein_dft: its axis alone is centered.
CenterAxis(a) ==
    /\ Call /\ RollTo(Centered(counts), {a})
    /\ UNCHANGED aligned

\* Mutant: the transform takes the values as they lie.
TransformInPlace(axes) ==
    /\ Call
    /\ sampled' = [a \in Axes |-> IF a \in axes THEN [i \in Indices(counts[a]) |-> i] ELSE sampled[a]]
    /\ aligned' = (aligned /\ \A a \in axes : \A i \in Indices(counts[a]) : sampled[a][i] = i)
    /\ UNCHANGED <<offset, partial>>

\* _apply_transform over some axes: roll to the DFT arrangement, transform,
\* roll the result back.  Frequencies come out at positions 0, 1, ...
Transform(axes) ==
    /\ Call
    /\ LET ready == Rolled(sampled, Default, offset, Axes)
           result == [a \in Axes |->
                        IF a \in axes THEN [i \in Indices(counts[a]) |-> i] ELSE ready[a]]
       IN  /\ aligned' = (aligned /\ \A a \in axes : \A i \in Indices(counts[a]) : ready[a][i] = i)
           /\ sampled' = Rolled(result, offset, Default, Axes)
    /\ UNCHANGED <<offset, partial>>

GridNext ==
    \/ Create \/ ToDftArrangement \/ ToCentered
    \/ \E a \in Axes : CenterAxis(a)
    \/ \E axes \in (SUBSET Axes) \ {{}} : Transform(axes)

GridSpec == GridInit /\ [][GridNext]_gridVars

----------------------------------------------------------------------------
(* Properties. *)

\* Every value is where the offset says, and every transform has read its
\* input in the DFT arrangement ("The sampler's offset tracks where samples
\* are physically located", sampler.py:218).
ValuesAtPositions ==
    /\ aligned
    /\ \A a \in Axes : \A i \in Indices(counts[a]) :
        sampled[a][i] = Position(counts[a], offset[a], i)

\* So it is for even lengths, as long as no call rolls one axis and moves the
\* offsets of all: the shift is the opposite of the right one, and half of an
\* even length makes up for it.
EvenGridsKept ==
    (\A a \in Axes : counts[a] % 2 = 0) /\ ~partial => ValuesAtPositions
=============================================================================
