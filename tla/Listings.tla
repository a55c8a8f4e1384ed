------------------------------ MODULE Listings ------------------------------
(* Lists of things in an order, as loops and sorts of the program make them. *)
EXTENDS Naturals, Sequences, FiniteSets

(* The elements of S in the strict order R: the k-th has k - 1 before it.   *)
Listed(S, R) ==
    [k \in 1 .. Cardinality(S) |->
        CHOOSE x \in S : Cardinality({y \in S : <<y, x>> \in R}) = k - 1]

Less(S) == {p \in S \X S : p[1] < p[2]}

Ascending(S) == Listed(S, Less(S))

(* slices.Sort: numbers by their size, equal ones as they were.             *)
Sorted(s) ==
    LET D == DOMAIN s
        order == Listed(D, {p \in D \X D : s[p[1]] < s[p[2]] \/ (s[p[1]] = s[p[2]] /\ p[1] < p[2])})
    IN  [k \in D |-> s[order[k]]]

(* Lists that are appended to each other one after the other.               *)
AppendedUpTo(lists) ==
    LET upTo[i \in 0 .. Len(lists)] == IF i = 0 THEN <<>> ELSE upTo[i - 1] \o lists[i]
    IN  upTo

Appended(lists) == AppendedUpTo(lists)[Len(lists)]
=============================================================================
