------------------------- MODULE MCCheckpointIteration -------------------------
EXTENDS CheckpointIteration
CONSTANTS d1, d2, d3, none

\* A key that only one task has excludes nothing: the same as no key.
MCKeyLists == {<<>>}
MCLimitsPerCheckpoint == {none, 0, 1, 2}
MCTotalLimits == {none, 2}
\* Left undefined it lets the iteration continue; or it is false.
MCRepeatAnswers == {{TRUE}, {FALSE}}
DocumentSymmetry == Permutations({d1, d2, d3})
=============================================================================
