------------------------ MODULE MCTransfersRepository ------------------------
(***************************************************************************)
(* Values for the constants of TransfersRepository, for TLC.               *)
(***************************************************************************)
EXTENDS TransfersRepository, TLC

CONSTANTS t1, t2, t3, s1, s2, w1, w2, any

ThreeTransfers == {t1, t2, t3}
TwoWriters     == {w1, w2}
TwoStates      == {s1, s2}

\* One size under the maximum, one over it.
SmallAndLarge == {1, 3}

Symmetry == Permutations(ThreeTransfers) \cup Permutations(TwoWriters) \cup
            Permutations(TwoStates)
=============================================================================
