----------------------------- MODULE MCHookRegistry -----------------------------
(* A small instance of HookRegistry: concrete lists with a repetition, one *)
(* wildcard and two, and an unknown state next to a wildcard and without.  *)
EXTENDS HookRegistry, TLC

CONSTANTS h1, h2, h3, p1, a, b, ghost

MCPatterns == {
  <<<<a, a, b>>, <<b>>>>,
  <<<<Star>>, <<b>>>>, <<<<Star, ghost>>, <<Star>>>>,
  <<<<a>>, <<ghost>>>> }

Symmetry == Permutations(HookNames)
================================================================================
