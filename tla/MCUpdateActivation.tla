------------------------- MODULE MCUpdateActivation -------------------------
(* Small instances of UpdateActivation.                                     *)
EXTENDS UpdateActivation, TLC

CONSTANTS u1, u2

\* Which of two updaters works does not matter.
UpdaterSymmetry == Permutations(Updaters)
=============================================================================
