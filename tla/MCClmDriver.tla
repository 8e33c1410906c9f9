------------------------------ MODULE MCClmDriver ------------------------------
\* Instances of ClmDriver for TLC.
EXTENDS ClmDriver, TLC

\* Invocation numbers are only compared.
Symmetry == Permutations(Invocations)
=============================================================================
