------------------------------- MODULE HookSlices -------------------------------
(***************************************************************************)
(* One list of hook entries of hooks.Registry as the Go slice it is: a     *)
(* header that points into an array, which the headers that executions     *)
(* have taken may point into as well.                                      *)
(*                                                                         *)
(* HookRegistry takes its slices for values.  An execution reads its       *)
(* elements after it has released r.mu, while the registry appends to the  *)
(* list and removes from it: what is modelled here is which elements of    *)
(* which array these write to.  Every list of the registry has arrays of   *)
(* its own, so one of them is enough.                                      *)
(***************************************************************************)
EXTENDS Naturals, Sequences, FiniteSets

CONSTANTS
  HookNames,   (* the names given to hooks                                  *)
  Executors,   (* the goroutines that execute hooks                         *)
  MaxArrays,   (* bound: how many arrays are allocated                      *)
  MaxCap,      (* bound: the capacity of an array                           *)
  NoEntry,     (* nil                                                       *)
  NoRun        (* "no execution under way"                                  *)

ASSUME SlicesAssumption ==
  /\ MaxArrays \in Nat /\ MaxCap \in Nat
  /\ NoEntry \notin HookNames

Arrays == 1..MaxArrays

VARIABLES
  heap,        (* the elements of each array                                *)
  cap,         (* its capacity                                              *)
  used,        (* how many arrays have been allocated                       *)
  slice,       (* the registry's header: array 0 is nil                     *)
  run          (* each execution: its header, the index it reads next and,  *)
               (* as history, the elements when it took the header          *)

vars == <<heap, cap, used, slice, run>>

Contents(h) == [i \in 1..h.len |-> heap[h.array][i]]
Elements(list) == {list[i] : i \in 1..Len(list)}

Blank == [i \in 1..MaxCap |-> NoEntry]

Init ==
  /\ heap = [a \in Arrays |-> Blank]
  /\ cap = [a \in Arrays |-> 0]
  /\ used = 0
  /\ slice = [array |-> 0, len |-> 0]
  /\ run = [p \in Executors |-> NoRun]
--------------------------------------------------------------------------------
(* The runtime allocates an array with room for n elements or more.        *)
Allocate(n, elements) ==
  /\ used < MaxArrays
  /\ used' = used + 1
  /\ \E c \in n..MaxCap : cap' = [cap EXCEPT ![used + 1] = c]
  /\ heap' = [heap EXCEPT ![used + 1] = elements]

Capacity(h) == IF h.array = 0 THEN 0 ELSE cap[h.array]
Full == slice.len = Capacity(slice)

(* Seeded fault: the entry is put behind the last one whatever the room.   *)
AppendUnchecked(e) ==
  /\ e \notin Elements(Contents(slice))
  /\ heap' = [heap EXCEPT ![slice.array][slice.len + 1] = e]
  /\ slice' = [slice EXCEPT !.len = @ + 1]
  /\ UNCHANGED <<cap, used, run>>

(* append, when a hook is registered: in place if the array has room.      *)
AppendInPlace(e) ==
  /\ ~Full
  /\ e \notin Elements(Contents(slice))
  /\ heap' = [heap EXCEPT ![slice.array][slice.len + 1] = e]
  /\ slice' = [slice EXCEPT !.len = @ + 1]
  /\ UNCHANGED <<cap, used, run>>

AppendGrow(e) ==
  /\ Full
  /\ e \notin Elements(Contents(slice))
  /\ Allocate(slice.len + 1,
       [i \in 1..MaxCap |-> IF i <= slice.len THEN heap[slice.array][i]
                            ELSE IF i = slice.len + 1 THEN e ELSE NoEntry])
  /\ slice' = [array |-> used + 1, len |-> slice.len + 1]
  /\ UNCHANGED run

(* slices.DeleteFunc on the elements of the list, which has e once: those  *)
(* after it move down and the last one is cleared.                         *)
Deleted(e) ==
  LET old == heap[slice.array]
      at  == CHOOSE i \in 1..slice.len : old[i] = e
  IN [i \in 1..MaxCap |-> IF i < at THEN old[i]
                          ELSE IF i < slice.len THEN old[i + 1]
                          ELSE IF i = slice.len THEN NoEntry ELSE old[i]]

(* Seeded fault: the element is deleted without a clone.                   *)
RemoveFromInPlace(e) ==
  /\ e \in Elements(Contents(slice))
  /\ heap' = [heap EXCEPT ![slice.array] = Deleted(e)]
  /\ slice' = [slice EXCEPT !.len = @ - 1]
  /\ UNCHANGED <<cap, used, run>>

(* Seeded fault: the clone is as long as the rest and takes all of it.     *)
RemoveFromTruncating(e) ==
  /\ e \in Elements(Contents(slice))
  /\ Allocate(slice.len, [Deleted(e) EXCEPT ![slice.len] = heap[slice.array][slice.len]])
  /\ slice' = [array |-> used + 1, len |-> slice.len]
  /\ UNCHANGED run

(* removeFrom: slices.Clone and then DeleteFunc.                           *)
RemoveFrom(e) ==
  /\ e \in Elements(Contents(slice))
  /\ Allocate(slice.len, [i \in 1..MaxCap |-> IF i <= slice.len THEN Deleted(e)[i] ELSE NoEntry])
  /\ slice' = [array |-> used + 1, len |-> slice.len - 1]
  /\ UNCHANGED run

Clear ==
  /\ slice' = [array |-> 0, len |-> 0]
  /\ UNCHANGED <<heap, cap, used, run>>
--------------------------------------------------------------------------------
(* ExecutePreTransitionHooks: the header is taken under the read lock, the *)
(* elements are read after its release; a guard may end the execution.     *)
BeginExecution(p) ==
  /\ run[p] = NoRun
  /\ run' = [run EXCEPT ![p] = [header |-> slice, next |-> 1, list |-> Contents(slice)]]
  /\ UNCHANGED <<heap, cap, used, slice>>

CallHook(p) ==
  /\ run[p] # NoRun
  /\ run[p].next <= run[p].header.len
  /\ run' = [run EXCEPT ![p].next = @ + 1]
  /\ UNCHANGED <<heap, cap, used, slice>>

EndExecution(p) ==
  /\ run[p] # NoRun
  /\ run' = [run EXCEPT ![p] = NoRun]
  /\ UNCHANGED <<heap, cap, used, slice>>

Next ==
  \/ \E e \in HookNames : AppendInPlace(e) \/ AppendGrow(e) \/ RemoveFrom(e)
  \/ Clear
  \/ \E p \in Executors : BeginExecution(p) \/ CallHook(p) \/ EndExecution(p)

Spec == Init /\ [][Next]_vars
--------------------------------------------------------------------------------
(* The types of the variables; a header stays within an array that was     *)
(* allocated, and within its capacity.                                     *)
Headers ==
  {h \in [array : 0..MaxArrays, len : 0..MaxCap] :
     h.array <= used /\ h.len <= Capacity(h)}

TypeOK ==
  /\ heap \in [Arrays -> [1..MaxCap -> HookNames \cup {NoEntry}]]
  /\ cap \in [Arrays -> 0..MaxCap]
  /\ used \in 0..MaxArrays
  /\ slice \in Headers
  /\ DOMAIN run = Executors
  /\ \A p \in Executors : run[p] # NoRun =>
       /\ run[p] = [header |-> run[p].header, next |-> run[p].next, list |-> run[p].list]
       /\ run[p].header \in Headers
       /\ run[p].next \in 1..run[p].header.len + 1

(* The elements an execution has taken, read or not, stay what they were,  *)
(* whatever is registered and removed meanwhile: it never meets a nil      *)
(* entry, and skips or repeats none.                                       *)
SnapshotsStable ==
  \A p \in Executors : run[p] # NoRun => Contents(run[p].header) = run[p].list

(* The slice implements the list of hooks: its elements are the registered *)
(* hooks in order, and executions call what the list was when they began.  *)
Hook(e) == [name |-> e, type |-> "pre", from |-> {"*"}, to |-> {"*"}]

Listed == [i \in 1..slice.len |-> Hook(Contents(slice)[i])]
ToGo(r) ==
  [i \in 1..r.header.len - r.next + 1 |-> Hook(heap[r.header.array][r.next + i - 1])]
Running ==
  [p \in Executors |->
     IF run[p] = NoRun THEN NoRun ELSE [type |-> "pre", todo |-> ToGo(run[p])]]

(* "No execution under way" is neither an execution of the slice nor one   *)
(* of the list.                                                            *)
ASSUME NoRunAssumption ==
  /\ NoRun \notin [header : [array : 0..MaxArrays, len : 0..MaxCap], next : 1..MaxCap + 1,
                   list : Seq(HookNames \cup {NoEntry})]
  /\ NoRun \notin [type : {"pre"}, todo : Seq({Hook(e) : e \in HookNames \cup {NoEntry}})]

List == INSTANCE HookList WITH
  Hooks <- {Hook(e) : e \in HookNames}, StateNames <- {"state"}, Star <- "*",
  list <- Listed, run <- Running

ImplementsHookList == List!Spec
================================================================================
