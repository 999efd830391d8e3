------------------------------- MODULE Deques -------------------------------
(* Deques whose elements occur once: lanes, waiters, ready lists *)
EXTENDS Integers, SequencesExt

\* queue.remove(e), a no-op for an absent element
Without(s, e) ==
  IF \E i \in 1..Len(s) : s[i] = e
  THEN RemoveAt(s, CHOOSE i \in 1..Len(s) : s[i] = e)
  ELSE s

Before(s, a, b) == \E i, k \in 1..Len(s) : i < k /\ s[i] = a /\ s[k] = b

\* The order in which the elements of S stand in s, as a relation: a line of
\* those who wait without the places of those who do not any more
Order(s, S) == {p \in S \X S : Before(s, p[1], p[2])}
=============================================================================
