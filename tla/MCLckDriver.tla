------------------------------ MODULE MCLckDriver ------------------------------
\* Instances of LckDriver for TLC.
EXTENDS LckDriver, TLC

\* Invocation numbers are only compared.
Symmetry == Permutations(Invocations)
=============================================================================
