---------------------------- MODULE Collections ----------------------------
(***************************************************************************)
(* Sums, tables, subsequences and sorted sets, in forms proofs can count.  *)
(*                                                                         *)
(* The sum of a function with natural values is the number of its coins,   *)
(* one pair <<x, i>> for each token held at x.  Counting coins is the same *)
(* number as adding recursively, and it lets the proofs about money use    *)
(* the library's facts about Cardinality.  A subsequence is given by the   *)
(* set of indices that are kept: the k-th element is the one at the index  *)
(* with k - 1 others below it.  A set is put in order in the same way, by  *)
(* the number of its elements before each.                                 *)
(***************************************************************************)
EXTENDS Naturals, FiniteSets, Sequences

Coins(f) == UNION { {x} \X (1..f[x]) : x \in DOMAIN f }

Total(f) == Cardinality(Coins(f))

\* An ERC-20 credit of amount to one account.
Credit(balance, who, amount) == [balance EXCEPT ![who] = @ + amount]

\* An ERC-20 debit; callers guard it with balance[who] >= amount.
Debit(balance, who, amount) == [balance EXCEPT ![who] = @ - amount]

Below(indices, i) == {j \in indices : j < i}
Nth(indices, k) == CHOOSE i \in indices : Cardinality(Below(indices, i)) = k - 1

\* A row for x in a table f, new or in place of the one there was.
Put(f, x, row) == [y \in DOMAIN f \cup {x} |-> IF y = x THEN row ELSE f[y]]

\* What is left of s at these indices, in the order of s.
Subsequence(s, indices) == [k \in 1..Cardinality(indices) |-> s[Nth(indices, k)]]

\* What is left of s of the elements of S.
Those(s, S) == Subsequence(s, {i \in 1..Len(s) : s[i] \in S})

\* The first n of s, or all of it.
Leading(s, n) == SubSeq(s, 1, IF Len(s) < n THEN Len(s) ELSE n)

\* Those of S before a, when R is an order, and S from the first to the last.
Ahead(S, R, a) == {b \in S : <<b, a>> \in R}
InOrder(S, R) == [k \in 1..Cardinality(S) |-> CHOOSE a \in S : Cardinality(Ahead(S, R, a)) = k - 1]
=============================================================================
