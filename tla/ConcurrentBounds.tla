-------------------------- MODULE ConcurrentBounds --------------------------
(***************************************************************************)
(* The bounds that the models of concurrent.ts share.                      *)
(***************************************************************************)
EXTENDS Naturals

CONSTANTS MaxItems,     \* the longest list, or the most fetches
          MaxLimit      \* the largest limit, or window

ASSUME BoundsAssumption == MaxItems \in Nat /\ MaxLimit \in Nat \ {0}
=============================================================================
