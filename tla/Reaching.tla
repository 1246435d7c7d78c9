------------------------------ MODULE Reaching ------------------------------
(***************************************************************************)
(* What a search along edges comes to, in a finite set.                    *)
(***************************************************************************)
EXTENDS Naturals, FiniteSets

(* The elements of all on a way from the set `from`, which is in it: as    *)
(* many steps as there are elements are enough.                            *)
ReachedFrom(all, from, next) ==
    LET R[i \in 0..Cardinality(all)] ==
          IF i = 0 THEN from
          ELSE LET nearer == R[i - 1] IN nearer \cup UNION {next[n] \cap all : n \in nearer}
    IN  R[Cardinality(all)]
=============================================================================
