------------------------------- MODULE MCMachine -------------------------------
(* Small instances of Machine: a table with a cycle, a self-loop and a     *)
(* terminal state, and calls that name an undefined state as well.         *)
EXTENDS Machine, TLC

CONSTANTS p1, p2, p3, idle, run, stop, ghost, star

MCNames == {idle, run, stop, ghost, star}
MCInvalidNames == {star}

MCConfig == (idle :> {run}) @@ (run :> {run, idle, stop}) @@ (stop :> {})

Symmetry == Permutations(Procs)

Targets == {idle, run, stop, ghost}

(* Every call on every name: the exhaustive instance for two goroutines.   *)
AllCalls ==
  [op : {"Transition", "SetState", "MarshalJSON"}, from : {idle}, to : Targets]
    \cup [op : {"TransitionIfCurrentState"}, from : {idle, run, ghost}, to : Targets]

(* One call of each kind that can succeed or fail: three goroutines.       *)
FewCalls ==
  { [op |-> "Transition", from |-> run, to |-> run],
    [op |-> "TransitionIfCurrentState", from |-> run, to |-> idle],
    [op |-> "SetState", from |-> idle, to |-> run],
    [op |-> "MarshalJSON", from |-> idle, to |-> idle] }
================================================================================
