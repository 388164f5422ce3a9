-------------------------------- MODULE Sums --------------------------------
(***************************************************************************)
(* Finite sums of naturals, as the SQL functions take them:                *)
(* `select coalesce(sum(column), 0) from table where ...`.  A table is a   *)
(* function on 1..n and a row the WHERE clause drops contributes 0.  And   *)
(* what a filter leaves of a list.                                         *)
(*                                                                         *)
(* The recursions are functions, not RECURSIVE operators, so that the      *)
(* modules that use them can be proved about (see SumsProofs).             *)
(***************************************************************************)
EXTENDS Integers, Sequences

(* s[i] is the sum of the first i entries of v. *)
PartialSums(v, n) ==
  LET s[i \in 0..n] == IF i = 0 THEN 0 ELSE s[i - 1] + v[i]
  IN  s

SumTo(v, n) == PartialSums(v, n)[n]

(* The elements of s that are not in S, in their order. *)
Without(s, S) ==
  LET left[i \in 0..Len(s)] ==
        IF i = 0 THEN <<>> ELSE IF s[i] \in S THEN left[i - 1] ELSE Append(left[i - 1], s[i])
  IN  left[Len(s)]
=============================================================================
