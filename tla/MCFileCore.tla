----------------------------- MODULE MCFileCore -----------------------------
\* Three fragments, whose ids are not in the order of their places.
EXTENDS FileCore

MCBase == [f \in Frags |-> CASE f = 1 -> 4 [] f = 2 -> 1 [] f = 3 -> 8]

\* RO530Hook in the middle of one fragment or at the start of the other, the
\* template beside it or in the other.
MCPlacings == {<<1, 1>>, <<3, 0>>} \X {<<1, 2>>, <<3, 1>>} \X {<<3, 2>>}

=============================================================================
