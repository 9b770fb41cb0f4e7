-------------------------------- MODULE HookList --------------------------------
(***************************************************************************)
(* What hooks.Registry promises: the hooks in the order they were          *)
(* registered, and executions that call each hook matching the transition  *)
(* once, in that order, as the list was when the execution began.          *)
(***************************************************************************)
EXTENDS Naturals, Sequences

CONSTANTS
  Hooks,       (* what can be registered: records of name, type, from, to   *)
  StateNames,  (* the states of transitions                                 *)
  Star,        (* the wildcard pattern                                      *)
  Executors,   (* the goroutines whose transitions execute hooks            *)
  NoRun        (* "no execution under way"                                  *)

VARIABLES
  list,        (* the registered hooks, oldest first                        *)
  run          (* each goroutine's execution: its type and the hooks to go  *)

vars == <<list, run>>

Matches(h, from, to) ==
  h.from \cap {Star, from} # {} /\ h.to \cap {Star, to} # {}

Init == list = <<>> /\ run = [p \in Executors |-> NoRun]

Register(h) ==
  /\ \A i \in 1..Len(list) : list[i].name # h.name
  /\ list' = Append(list, h)
  /\ UNCHANGED run

Unregister(i) ==
  /\ list' = SubSeq(list, 1, i - 1) \o SubSeq(list, i + 1, Len(list))
  /\ UNCHANGED run

Clear == list' = <<>> /\ UNCHANGED run

(* The positions of the hooks that an execution calls, and going through   *)
(* all of them in order.                                                   *)
Due(type, from, to) ==
  {i \in 1..Len(list) : list[i].type = type /\ Matches(list[i], from, to)}

InTurn(at, positions) ==
  /\ \A m, n \in DOMAIN at : m < n => at[m] < at[n]
  /\ \A i \in positions : \E n \in DOMAIN at : at[n] = i

Begin(p, type, from, to) ==
  /\ run[p] = NoRun
  /\ \E n \in 0..Len(list) : \E at \in [1..n -> Due(type, from, to)] :
       /\ InTurn(at, Due(type, from, to))
       /\ run' = [run EXCEPT ![p] = [type |-> type, todo |-> [m \in 1..n |-> list[at[m]]]]]
  /\ UNCHANGED list

CallNext(p) ==
  /\ run[p] # NoRun
  /\ run[p].todo # <<>>
  /\ run' = [run EXCEPT ![p].todo = Tail(@)]
  /\ UNCHANGED list

(* Executions end when all hooks were called, or a guard has rejected.     *)
End(p) ==
  /\ run[p] # NoRun
  /\ run[p].todo = <<>> \/ run[p].type = "pre"
  /\ run' = [run EXCEPT ![p] = NoRun]
  /\ UNCHANGED list

Next ==
  \/ \E h \in Hooks : Register(h)
  \/ \E i \in 1..Len(list) : Unregister(i)
  \/ Clear
  \/ \E p \in Executors :
       \/ \E type \in {"pre", "post"}, from, to \in StateNames : Begin(p, type, from, to)
       \/ CallNext(p) \/ End(p)

Spec == Init /\ [][Next]_vars
================================================================================
