------------------------------ MODULE HookRegistry ------------------------------
(***************************************************************************)
(* hooks.Registry: hooks filed by transition when their patterns are       *)
(* concrete, in a list of their own when they hold a wildcard, and put     *)
(* back into registration order when a transition executes them.           *)
(*                                                                         *)
(* r.mu makes each registration, removal and Clear one step, and so is the *)
(* snapshot an execution takes; the hooks then run without the mutex while *)
(* the registry changes.  Slices are values: the code never writes to an   *)
(* element that a snapshot can reach.  Calls that return an error (an      *)
(* empty name or list, no function, a name in use or not found) change     *)
(* nothing and are no step.                                                *)
(***************************************************************************)
EXTENDS Naturals, Sequences, FiniteSets

CONSTANTS
  HookNames,      (* the names given to hooks                               *)
  StateNames,     (* the strings used as states, known to the table or not  *)
  KnownStates,    (* those the transition table has                         *)
  HasTable,       (* whether WithTransitions gave the registry a table      *)
  Star,            (* the wildcard pattern "*"                               *)
  Patterns,       (* the pairs of from and to lists that callers pass       *)
  Executors,      (* the goroutines whose transitions execute hooks         *)
  MaxSeq,         (* bound: registrations between two Clears                *)
  NoHook, NoRun   (* "no hook", "no execution under way"                    *)

ASSUME StatesAssumption ==
  KnownStates \subseteq StateNames /\ Star \notin StateNames /\ HasTable \in BOOLEAN
ASSUME PatternsAssumption ==
  Patterns \subseteq Seq(StateNames \cup {Star}) \X Seq(StateNames \cup {Star})

Types == {"pre", "post"}
Keys == StateNames \X StateNames
Elements(s) == {s[i] : i \in 1..Len(s)}

VARIABLES
  hooks,      (* the entry of each name, or NoHook                          *)
  index,      (* per type and transition: its concrete hooks                *)
  wildcards,  (* per type: the hooks with a wildcard                        *)
  nextSeq,    (* the sequence number of the next registration               *)
  run         (* each goroutine's execution: its type and the entries to go *)

vars == <<hooks, index, wildcards, nextSeq, run>>

Init ==
  /\ hooks = [n \in HookNames |-> NoHook]
  /\ index = [t \in Types |-> [k \in Keys |-> <<>>]]
  /\ wildcards = [t \in Types |-> <<>>]
  /\ nextSeq = 0
  /\ run = [p \in Executors |-> NoRun]
--------------------------------------------------------------------------------
(* registerHookEntry.  A pattern list is stored as the set of its names    *)
(* (repeated ones count once, as validateUniqueStates sees to).  If one of *)
(* the lists holds the wildcard, neither is checked against the table.     *)
IsWildcard(from, to) == Star \in from \cup to

ValidPatterns(from, to) ==
  /\ from # {} /\ to # {}
  /\ IF IsWildcard(from, to)
       THEN HasTable
       ELSE HasTable => from \cup to \subseteq KnownStates

(* Seeded fault: repeated states are not dropped, and the entry is filed   *)
(* once per repetition.                                                    *)
Copies(list, s) == Cardinality({i \in 1..Len(list) : list[i] = s})

RegisterRepeatedly(name, type, lists) ==
  LET from  == Elements(lists[1])
      to    == Elements(lists[2])
      entry == [name |-> name, type |-> type, from |-> from, to |-> to, seq |-> nextSeq]
      n(k)  == Copies(lists[1], k[1]) * Copies(lists[2], k[2])
  IN
  /\ ValidPatterns(from, to)
  /\ hooks[name] = NoHook
  /\ nextSeq < MaxSeq
  /\ nextSeq' = nextSeq + 1
  /\ hooks' = [hooks EXCEPT ![name] = entry]
  /\ IF IsWildcard(from, to)
       THEN wildcards' = [wildcards EXCEPT ![type] = Append(@, entry)] /\ UNCHANGED index
       ELSE /\ index' = [index EXCEPT ![type] =
                 [k \in Keys |-> @[k] \o [i \in 1..n(k) |-> entry]]]
            /\ UNCHANGED wildcards
  /\ UNCHANGED run

Register(name, type, lists) ==
  LET from  == Elements(lists[1])
      to    == Elements(lists[2])
      entry == [name |-> name, type |-> type, from |-> from, to |-> to, seq |-> nextSeq]
  IN
  /\ ValidPatterns(from, to)
  /\ hooks[name] = NoHook
  /\ nextSeq < MaxSeq
  /\ nextSeq' = nextSeq + 1
  /\ hooks' = [hooks EXCEPT ![name] = entry]
  /\ IF IsWildcard(from, to)
       THEN wildcards' = [wildcards EXCEPT ![type] = Append(@, entry)] /\ UNCHANGED index
       ELSE /\ index' = [index EXCEPT ![type] =
                 [k \in Keys |-> IF k \in from \X to THEN Append(@[k], entry) ELSE @[k]]]
            /\ UNCHANGED wildcards
  /\ UNCHANGED run

(* Seeded fault: the entry is deleted in place, which leaves a nil entry   *)
(* in the slice.                                                           *)
RemoveHookInPlace(name) ==
  LET entry == hooks[name]
      Zeroed(s) == [i \in 1..Len(s) |-> IF s[i] = entry THEN NoHook ELSE s[i]]
  IN
  /\ entry # NoHook
  /\ index' = [index EXCEPT ![entry.type] = [k \in Keys |-> Zeroed(@[k])]]
  /\ wildcards' = [wildcards EXCEPT ![entry.type] = Zeroed(@)]
  /\ hooks' = [hooks EXCEPT ![name] = NoHook]
  /\ UNCHANGED <<nextSeq, run>>

(* removeFrom.  A slice holds an entry once at most (IndexMatchesHooks):   *)
(* those behind it move down.                                              *)
RemoveFrom(s, entry) ==
  LET at == CHOOSE i \in 1..Len(s) : s[i] = entry
  IN IF entry \notin Elements(s) THEN s
     ELSE [i \in 1..Len(s) - 1 |-> IF i < at THEN s[i] ELSE s[i + 1]]

(* RemoveHook takes the entry out of every slice of its type.              *)
RemoveHook(name) ==
  LET entry == hooks[name] IN
  /\ entry # NoHook
  /\ index' = [index EXCEPT ![entry.type] =
       [k \in Keys |-> RemoveFrom(@[k], entry)]]
  /\ wildcards' = [wildcards EXCEPT ![entry.type] = RemoveFrom(@, entry)]
  /\ hooks' = [hooks EXCEPT ![name] = NoHook]
  /\ UNCHANGED <<nextSeq, run>>

(* Seeded fault: Clear restarts the numbers and keeps the hooks of one     *)
(* kind.                                                                   *)
ClearPreHooks ==
  /\ hooks' = [n \in HookNames |->
       IF hooks[n] # NoHook /\ hooks[n].type = "pre" THEN NoHook ELSE hooks[n]]
  /\ index' = [index EXCEPT !["pre"] = [k \in Keys |-> <<>>]]
  /\ wildcards' = [wildcards EXCEPT !["pre"] = <<>>]
  /\ nextSeq' = 0
  /\ UNCHANGED run

Clear ==
  /\ hooks' = [n \in HookNames |-> NoHook]
  /\ index' = [t \in Types |-> [k \in Keys |-> <<>>]]
  /\ wildcards' = [t \in Types |-> <<>>]
  /\ nextSeq' = 0
  /\ UNCHANGED run
--------------------------------------------------------------------------------
(* ExecutePreTransitionHooks and ExecutePostTransitionHooks.  No entry is  *)
(* in two slices of a snapshot, so a set of entries is enough to sort.     *)
Matches(e, from, to) ==
  e.from \cap {Star, from} # {} /\ e.to \cap {Star, to} # {}

InOrder(entries) ==
  [i \in 1..Cardinality(entries) |->
     CHOOSE e \in entries : Cardinality({d \in entries : d.seq < e.seq}) = i - 1]

(* Seeded fault: concrete hooks run first, then the wildcard hooks.        *)
PlanUnsorted(type, from, to) ==
  LET Due(e) == Matches(e, from, to)
  IN index[type][<<from, to>>] \o SelectSeq(wildcards[type], Due)

Plan(type, from, to) ==
  LET concrete == index[type][<<from, to>>]
      matching == {e \in Elements(wildcards[type]) : Matches(e, from, to)}
  IN IF wildcards[type] = <<>> THEN concrete
     ELSE InOrder(Elements(concrete) \cup matching)

BeginExecution(p, type, from, to) ==
  /\ run[p] = NoRun
  /\ run' = [run EXCEPT ![p] = [type |-> type, todo |-> Plan(type, from, to)]]
  /\ UNCHANGED <<hooks, index, wildcards, nextSeq>>

(* safeCallGuard, safeCallAction: a guard accepts, or an action returns or *)
(* panics; the next hook is called.                                        *)
CallHook(p) ==
  /\ run[p] # NoRun
  /\ run[p].todo # <<>>
  /\ run' = [run EXCEPT ![p].todo = Tail(@)]
  /\ UNCHANGED <<hooks, index, wildcards, nextSeq>>

(* A guard that returns an error or panics ends the execution.             *)
RejectTransition(p) ==
  /\ run[p] # NoRun
  /\ run[p].type = "pre"
  /\ run[p].todo # <<>>
  /\ run' = [run EXCEPT ![p] = NoRun]
  /\ UNCHANGED <<hooks, index, wildcards, nextSeq>>

EndExecution(p) ==
  /\ run[p] # NoRun
  /\ run[p].todo = <<>>
  /\ run' = [run EXCEPT ![p] = NoRun]
  /\ UNCHANGED <<hooks, index, wildcards, nextSeq>>
--------------------------------------------------------------------------------
Next ==
  \/ \E n \in HookNames, t \in Types, l \in Patterns : Register(n, t, l)
  \/ \E n \in HookNames : RemoveHook(n)
  \/ Clear
  \/ \E p \in Executors :
       \/ \E t \in Types, from, to \in StateNames : BeginExecution(p, t, from, to)
       \/ CallHook(p) \/ RejectTransition(p) \/ EndExecution(p)

Spec == Init /\ [][Next]_vars
--------------------------------------------------------------------------------
Entries == [name : HookNames, type : Types, from : SUBSET (StateNames \cup {Star}),
            to : SUBSET (StateNames \cup {Star}), seq : Nat]

ASSUME NoHookAssumption == NoHook \notin Entries

(* The hooks as the list has them, without their sequence numbers.         *)
BareHooks == [name : HookNames, type : Types, from : SUBSET (StateNames \cup {Star}),
              to : SUBSET (StateNames \cup {Star})]

ASSUME BoundsAssumption == MaxSeq \in Nat
ASSUME NoRunAssumption ==
  NoRun \notin [type : Types, todo : Seq(Entries) \cup Seq(BareHooks)]

(* The types of the variables.                                             *)
TypeOK ==
  /\ hooks \in [HookNames -> Entries \cup {NoHook}]
  /\ index \in [Types -> [Keys -> Seq(Entries)]]
  /\ wildcards \in [Types -> Seq(Entries)]
  /\ nextSeq \in 0..MaxSeq
  /\ run \in [Executors -> {NoRun} \cup [type : Types, todo : Seq(Entries)]]

Registered == {hooks[n] : n \in HookNames} \ {NoHook}

(* The three structures agree: a slice holds exactly the registered        *)
(* entries that belong in it, each once, whatever registrations, removals  *)
(* and Clears came before.  A removed hook is filed nowhere.               *)
Once(s) == Cardinality(Elements(s)) = Len(s)

IndexMatchesHooks ==
  \A t \in Types :
    /\ Once(wildcards[t])
    /\ Elements(wildcards[t]) =
         {e \in Registered : e.type = t /\ IsWildcard(e.from, e.to)}
    /\ \A k \in Keys :
         /\ Once(index[t][k])
         /\ Elements(index[t][k]) =
              {e \in Registered : e.type = t /\ ~IsWildcard(e.from, e.to)
                                  /\ k \in e.from \X e.to}

(* Sequence numbers tell all registered hooks apart and order every slice, *)
(* also after Clear has restarted them: sorting by them is well defined.   *)
SequenceNumbersOrderHooks ==
  /\ \A d, e \in Registered : d.seq = e.seq => d = e
  /\ \A e \in Registered : e.seq < nextSeq
  /\ \A t \in Types :
       \A s \in {wildcards[t]} \cup {index[t][k] : k \in Keys} :
         \A i, j \in 1..Len(s) : i < j => s[i].seq < s[j].seq

(* The registry implements the list of hooks: each execution calls exactly *)
(* the hooks that match and were registered when it began, once each, in   *)
(* the order of registration, across concrete and wildcard hooks.          *)
Hook(e) == [name |-> e.name, type |-> e.type, from |-> e.from, to |-> e.to]
HooksOf(s) == [i \in 1..Len(s) |-> Hook(s[i])]

Listed == HooksOf(InOrder(Registered))
Running ==
  [p \in Executors |->
     IF run[p] = NoRun THEN NoRun
     ELSE [type |-> run[p].type, todo |-> HooksOf(run[p].todo)]]

List == INSTANCE HookList WITH
  Hooks <- {[name |-> n, type |-> t, from |-> Elements(l[1]), to |-> Elements(l[2])] :
              n \in HookNames, t \in Types, l \in Patterns},
  list <- Listed, run <- Running

ImplementsHookList == List!Spec
================================================================================
