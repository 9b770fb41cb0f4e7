------------------------------- MODULE Persistence -------------------------------
(***************************************************************************)
(* A machine saved with MarshalJSON and restored with NewFromJSON.         *)
(*                                                                         *)
(* MarshalJSON is one step here: Machine's MarshalReadsStableState says    *)
(* why it may be, and the hooks are what it reads last.  Their registry    *)
(* is not the machine's: hooks come and go at any time, they are saved     *)
(* with the machine, and a restore drops them.                             *)
(*                                                                         *)
(* The encoding is not the identity.  encoding/json replaces what is not   *)
(* UTF-8 in a string, so names can change, and two keys of the             *)
(* transitions can become one, of which the decoder keeps the entry that   *)
(* comes last.                                                             *)
(***************************************************************************)
EXTENDS Transitions

CONSTANTS
  Coerce,     (* what encoding and decoding make of each name               *)
  Inputs,     (* the transition maps that callers pass to NewSimple         *)
  HookNames,  (* the hooks that clients may register                        *)
  NoState     (* the state where there is no machine                        *)

(* The replacement character is neither white space nor the wildcard.      *)
ASSUME CoerceAssumption ==
  /\ Coerce \in [Names -> Names]
  /\ \A n \in Names : /\ Coerce[Coerce[n]] = Coerce[n]
                      /\ ValidStateName(n) <=> ValidStateName(Coerce[n])
ASSUME InputsAssumption == \A config \in Inputs : IsConfig(config)

NoEntries == [s \in {} |-> {}]
NoMachine == [state |-> NoState, config |-> NoEntries]
NoDocument == [state |-> NoState, transitions |-> NoEntries, hooks |-> {}]

VARIABLES
  machine,    (* the running machine's state and configuration              *)
  hooks,      (* what is registered in the registry that machines are given *)
  file,       (* the document that was saved last                           *)
  saved,      (* history: the machine that was saved                        *)
  fresh       (* history: whether the machine is as it was restored from    *)
              (* the file                                                   *)

vars == <<machine, hooks, file, saved, fresh>>

Init ==
  /\ machine = NoMachine
  /\ hooks = {}
  /\ file = NoDocument
  /\ saved = NoMachine
  /\ fresh = FALSE

Running == DOMAIN machine.config # {}
HasDocument == DOMAIN file.transitions # {}
Index(m) == BuildIndex(m.config)

(* New, of NewSimple and of NewFromJSON.                                   *)
Creates(config, initial) ==
  /\ ~Running
  /\ Accepts(config)
  /\ HasState(BuildIndex(config), initial)
  /\ machine' = [state |-> initial, config |-> config]

NewSimple(config, initial) ==
  /\ Creates(config, initial)
  /\ fresh' = FALSE
  /\ UNCHANGED <<hooks, file, saved>>

Transition(to) ==
  /\ Running
  /\ IsTransitionAllowed(Index(machine), machine.state, to)
  /\ machine' = [machine EXCEPT !.state = to]
  /\ fresh' = FALSE
  /\ UNCHANGED <<hooks, file, saved>>

(* Seeded fault: the state is not looked up in the table.                  *)
SetStateUnchecked(name) ==
  /\ Running
  /\ machine' = [machine EXCEPT !.state = name]
  /\ fresh' = FALSE
  /\ UNCHANGED <<hooks, file, saved>>

SetState(name) ==
  /\ Running
  /\ HasState(Index(machine), name)
  /\ machine' = [machine EXCEPT !.state = name]
  /\ fresh' = FALSE
  /\ UNCHANGED <<hooks, file, saved>>

(* RegisterPreTransitionHook, RegisterPostTransitionHook and Subscribe.     *)
RegisterHook(hook) ==
  /\ hook \notin hooks
  /\ hooks' = hooks \cup {hook}
  /\ UNCHANGED <<machine, file, saved, fresh>>

RemoveHook(hook) ==
  /\ hook \in hooks
  /\ hooks' = hooks \ {hook}
  /\ UNCHANGED <<machine, file, saved, fresh>>

(* The process ends, and with it the registry; the file stays.             *)
Exit ==
  /\ Running
  /\ machine' = NoMachine
  /\ hooks' = {}
  /\ fresh' = FALSE
  /\ UNCHANGED <<file, saved>>

CoerceAll(targets) == {Coerce[n] : n \in targets}

(* Seeded fault: states without targets are left out, as with omitempty.   *)
EncodingsOmitEmpty(config) ==
  LET kept == {from \in DOMAIN config : config[from] # {}} IN
  {[k \in CoerceAll(kept) |-> CoerceAll(config[source[k]])] :
     source \in {f \in [CoerceAll(kept) -> kept] : \A k \in CoerceAll(kept) : Coerce[f[k]] = k}}

(* Seeded fault: only the keys are written as JSON strings.                *)
EncodingsKeysOnly(config) ==
  LET keys == CoerceAll(DOMAIN config) IN
  {[k \in keys |-> config[source[k]]] :
     source \in {f \in [keys -> DOMAIN config] : \A k \in keys : Coerce[f[k]] = k}}

(* The transitions a document may be read back with: which of the entries  *)
(* with one key comes last depends on the order of the names.              *)
Encodings(config) ==
  LET keys == CoerceAll(DOMAIN config) IN
  {[k \in keys |-> CoerceAll(config[source[k]])] :
     source \in {f \in [keys -> DOMAIN config] : \A k \in keys : Coerce[f[k]] = k}}

(* The hooks are a set: GetHooks lists them in no particular order.        *)
MarshalJSON ==
  /\ Running
  /\ \E transitions \in Encodings(machine.config) :
       file' = [state |-> Coerce[machine.state], transitions |-> transitions,
                hooks |-> hooks]
  /\ saved' = machine
  /\ UNCHANGED <<machine, hooks, fresh>>

(* Seeded fault: the table is restored and the state is not.               *)
NewFromJSONReset ==
  /\ HasDocument
  /\ \E initial \in DOMAIN file.transitions : Creates(file.transitions, initial)
  /\ fresh' = TRUE
  /\ UNCHANGED <<hooks, file, saved>>

(* NewFromJSON.  A document without a state or without transitions, with   *)
(* transitions that transitions.New does not accept, or in a state they do *)
(* not define gives an error and no machine.  The document's hooks are     *)
(* dropped: the machine has those of the registry its options name.        *)
NewFromJSON ==
  /\ HasDocument
  /\ Creates(file.transitions, file.state)
  /\ fresh' = TRUE
  /\ UNCHANGED <<hooks, file, saved>>

Next ==
  \/ \E config \in Inputs : \E initial \in DOMAIN config : NewSimple(config, initial)
  \/ \E n \in Names : Transition(n) \/ SetState(n)
  \/ \E h \in HookNames : RegisterHook(h) \/ RemoveHook(h)
  \/ MarshalJSON \/ Exit \/ NewFromJSON

Spec == Init /\ [][Next]_vars
--------------------------------------------------------------------------------
(* A running machine has a table New accepts and is in a state of it; the  *)
(* file has the form NewFromJSON reads, and was saved by a machine.        *)
TypeOK ==
  /\ machine = [state |-> machine.state, config |-> machine.config]
  /\ file = [state |-> file.state, transitions |-> file.transitions, hooks |-> file.hooks]
  /\ hooks \subseteq HookNames /\ file.hooks \subseteq HookNames
  /\ Running =>
       /\ IsConfig(machine.config)
       /\ Accepts(machine.config)
       /\ HasState(Index(machine), machine.state)
  /\ HasDocument =>
       /\ IsConfig(file.transitions)
       /\ DOMAIN saved.config # {}
  /\ fresh \in BOOLEAN /\ (fresh => Running /\ HasDocument)

(* NewFromJSON accepts every document that MarshalJSON saved, also one in  *)
(* which names were changed or made one, saved in a state that SetState    *)
(* reached.                                                                *)
RestoreNeverFails ==
  HasDocument =>
    /\ Accepts(file.transitions)
    /\ HasState(BuildIndex(file.transitions), file.state)

(* The restored table allows what the saved one did, under the names that  *)
(* the encoding gave them: never more, and all of it unless two of its     *)
(* states have become one.  Guards are not part of this: a restored        *)
(* machine has those of its registry.                                      *)
NamesStayApart(config) ==
  \A m, n \in DOMAIN config : Coerce[m] = Coerce[n] => m = n

RestoredAllowsTheSame ==
  HasDocument =>
    LET restored == BuildIndex(file.transitions) IN
    /\ \A s, t \in Names :
         IsTransitionAllowed(restored, s, t) =>
           \E m, n \in Names : /\ IsTransitionAllowed(Index(saved), m, n)
                               /\ Coerce[m] = s /\ Coerce[n] = t
    /\ NamesStayApart(saved.config) =>
         \A m, n \in Names :
           IsTransitionAllowed(Index(saved), m, n) =>
             IsTransitionAllowed(restored, Coerce[m], Coerce[n])

(* Names change once at most: a machine that was restored and not used is  *)
(* saved in the state and with the table of the document it was restored   *)
(* from.  Its hooks need not be those of the document.                     *)
RestoredSavesStateAndTable ==
  [][fresh /\ MarshalJSON => UNCHANGED <<file.state, file.transitions>>]_vars
================================================================================
