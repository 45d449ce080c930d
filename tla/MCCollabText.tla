---------------------------- MODULE MCCollabText ----------------------------
(* Instances of CollabText for TLC. *)
EXTENDS CollabText, TLC

CONSTANTS a, b

Two == {a, b}
Swap == Permutations(Two)
=============================================================================
