-------------------------- MODULE MCRegisterStore --------------------------
\* A small instance: two workers beside the default task, one coil and two holding
\* registers, single and multiple writes.
EXTENDS RegisterStore, TLC

CONSTANTS c1, h1, h2

Symmetry == Permutations(Workers)

MCRequests == {<<c1>>, <<h1, h2>>}
=============================================================================
