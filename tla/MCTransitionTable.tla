---------------------------- MODULE MCTransitionTable ----------------------------
(* Small instances of TransitionTable: two states and a blank name; maps   *)
(* that are valid, empty, with an undefined target and with invalid names. *)
EXTENDS TransitionTable, TLC

CONSTANTS a, b, blank

MCInputs == {
  a :> {b} @@ b :> {},
  a :> {a, b} @@ b :> {a},
  a :> {},
  NoEntries,
  a :> {b},
  a :> {blank} @@ blank :> {a}}
================================================================================
