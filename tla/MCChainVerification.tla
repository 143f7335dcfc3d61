------------------------- MODULE MCChainVerification -------------------------
\* Instances of ChainVerification for TLC: two calls, two blocks, one source
\* failing once, depths up to one more than the confirmations asked for.
EXTENDS ChainVerification, TLC

Symmetry == Permutations(Calls) \cup Permutations(Hashes)

\* Safety needs no fairness, and is checked up to the names of calls and hashes.
SafetySpec == Init /\ [][Next]_vars
=============================================================================
