-------------------------- MODULE MCQueenAsyncWorker --------------------------
\* Instance of QueenAsyncWorker for TLC: a lost receipt may publish the approval twice.
EXTENDS QueenAsyncWorker, TLC

CopiesInstance == [plan |-> 1, approve |-> 2]

Symmetry == Permutations(Workers)
=============================================================================
