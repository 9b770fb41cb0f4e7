----------------------------- MODULE AtomicMachine -----------------------------
(***************************************************************************)
(* What fsm.Machine promises its callers, without its locks and hooks:     *)
(* every call takes effect, or fails, at one moment between its invocation *)
(* and its return, and what it reports is true of the state at that moment.*)
(***************************************************************************)
EXTENDS Transitions

CONSTANTS
  Procs,     (* the goroutines that call the machine                        *)
  Config,    (* the transition table's configuration                        *)
  Calls,     (* the calls they make, records of op, from and to             *)
  NoCall,    (* "no call under way"                                         *)
  NoName     (* "no state name"                                             *)

VARIABLES
  state,     (* the machine's current state                                 *)
  call,      (* each goroutine's call under way, or NoCall                  *)
  outcome,   (* "none" before the call took effect, then "ok" or an error   *)
  answer,    (* the state a MarshalJSON call reports                        *)
  canceled   (* whether the call's context has ended                        *)

vars == <<state, call, outcome, answer, canceled>>

Index == BuildIndex(Config)

Init ==
  /\ state \in DOMAIN Index
  /\ call = [p \in Procs |-> NoCall]
  /\ outcome = [p \in Procs |-> "none"]
  /\ answer = [p \in Procs |-> NoName]
  /\ canceled = [p \in Procs |-> FALSE]

Invoke(p) ==
  /\ call[p] = NoCall
  /\ \E c \in Calls, ended \in BOOLEAN :
       /\ call' = [call EXCEPT ![p] = c]
       /\ canceled' = [canceled EXCEPT ![p] = ended]
  /\ UNCHANGED <<state, outcome, answer>>

EndContext(p) ==
  /\ call[p] # NoCall
  /\ canceled' = [canceled EXCEPT ![p] = TRUE]
  /\ UNCHANGED <<state, call, outcome, answer>>

Pending(p) == call[p] # NoCall /\ outcome[p] = "none"

(* A transition that the table allows, from the expected state if one was  *)
(* given.                                                                  *)
CanMove(c) ==
  /\ c.op \in {"Transition", "TransitionIfCurrentState"}
  /\ c.op = "TransitionIfCurrentState" => state = c.from
  /\ IsTransitionAllowed(Index, state, c.to)

Move(p) ==
  /\ Pending(p)
  /\ \/ CanMove(call[p])
     \/ call[p].op = "SetState" /\ HasState(Index, call[p].to)
  /\ state' = call[p].to
  /\ outcome' = [outcome EXCEPT ![p] = "ok"]
  /\ UNCHANGED <<call, answer, canceled>>

Report(p) ==
  /\ Pending(p)
  /\ call[p].op = "MarshalJSON"
  /\ answer' = [answer EXCEPT ![p] = state]
  /\ outcome' = [outcome EXCEPT ![p] = "ok"]
  /\ UNCHANGED <<state, call, canceled>>

(* The errors that tell the truth about the call at this moment.           *)
TrueErrors(p) ==
  LET c == call[p] IN
  {e \in {"current", "invalid", "undefined", "canceled", "callback"} :
     \/ e = "current"   /\ c.op = "TransitionIfCurrentState" /\ state # c.from
     \/ e = "invalid"   /\ c.op \in {"Transition", "TransitionIfCurrentState"}
                        /\ ~IsTransitionAllowed(Index, state, c.to)
     \/ e = "undefined" /\ c.op = "SetState" /\ ~HasState(Index, c.to)
     \/ e = "canceled"  /\ c.op # "MarshalJSON" /\ canceled[p]
     \/ e = "callback"  /\ CanMove(c)}

Fail(p) ==
  /\ Pending(p)
  /\ \E e \in TrueErrors(p) : outcome' = [outcome EXCEPT ![p] = e]
  /\ UNCHANGED <<state, call, answer, canceled>>

Return(p) ==
  /\ call[p] # NoCall
  /\ outcome[p] # "none"
  /\ call' = [call EXCEPT ![p] = NoCall]
  /\ outcome' = [outcome EXCEPT ![p] = "none"]
  /\ canceled' = [canceled EXCEPT ![p] = FALSE]
  /\ answer' = [answer EXCEPT ![p] = NoName]
  /\ UNCHANGED state

Next ==
  \E p \in Procs :
    \/ Invoke(p) \/ EndContext(p)
    \/ Move(p) \/ Report(p) \/ Fail(p)
    \/ Return(p)

Spec == Init /\ [][Next]_vars
================================================================================
