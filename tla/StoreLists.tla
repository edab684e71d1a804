----------------------------- MODULE StoreLists -----------------------------
(***************************************************************************)
(* The JavaScript arrays the job store keeps (steerQueues, claimedSteers,  *)
(* the parked payload) as sequences, and the one array operation the       *)
(* sequence library does not give in a form a proof can use: filter.       *)
(* Filtering is defined by counting positions instead of by recursion, so  *)
(* that StoreLists_proofs can say what it returns for every sequence.      *)
(***************************************************************************)
EXTENDS Integers, Sequences, FiniteSets

\* The elements of a list.
Items(q) == {q[i] : i \in DOMAIN q}

\* No element occurs twice.
Distinct(q) == \A i, j \in DOMAIN q : q[i] = q[j] => i = j

\* How many positions of K are at most i.
Rank(K, i) == Cardinality({j \in K : j <= i})

\* The n-th smallest position of K.
Nth(K, n) == CHOOSE i \in K : Rank(K, i) = n

\* The elements of q at the positions in K, in the order of q.
Pick(q, K) == [n \in 1..Cardinality(K) |-> q[Nth(K, n)]]

\* q.filter((x) => !S.has(x)) and q.filter((x) => S.has(x)).
Without(q, S) == Pick(q, {i \in DOMAIN q : q[i] \notin S})
Within(q, S)  == Pick(q, {i \in DOMAIN q : q[i] \in S})

\* [...p, ...q] with later copies of an element dropped, for lists that hold
\* no element twice themselves.
Merge(p, q) == p \o Without(q, Items(p))
=============================================================================
