------------------------------ MODULE Transitions ------------------------------
(***************************************************************************)
(* The transition table of transitions/config.go.                          *)
(*                                                                         *)
(* A configuration maps each source state to the set of its targets (the   *)
(* Go slices may repeat a target and are ordered; no lookup tells either   *)
(* apart).  The index is what every lookup reads: it keeps the valid names *)
(* only, and it is built once, before the table is handed out.             *)
(***************************************************************************)
CONSTANTS
  Names,          (* the strings callers use for states                     *)
  InvalidNames    (* those that are empty, blank, padded with white space   *)
                  (* or the reserved "*"                                    *)

ASSUME NamesAssumption == InvalidNames \subseteq Names

IsConfig(config) ==
  /\ DOMAIN config \subseteq Names
  /\ config \in [DOMAIN config -> SUBSET Names]

ValidStateName(name) == name \notin InvalidNames

(***************************************************************************)
(* buildIndex: the index it fills in, and the two kinds of error it joins. *)
(* An invalid source is skipped with all its targets, so a bad target is   *)
(* reported only under a valid source.                                     *)
(***************************************************************************)
BuildIndex(config) ==
  [from \in {s \in DOMAIN config : ValidStateName(s)} |->
      {to \in config[from] : ValidStateName(to)}]

HasInvalidName(config) ==
  \E from \in DOMAIN config :
    \/ ~ValidStateName(from)
    \/ \E to \in config[from] : ~ValidStateName(to)

UndefinedDestinations(config) ==
  (UNION {BuildIndex(config)[from] : from \in DOMAIN BuildIndex(config)})
    \ DOMAIN config

(* New returns a table for exactly these configurations.                   *)
Accepts(config) ==
  /\ DOMAIN config # {}
  /\ ~HasInvalidName(config)
  /\ UndefinedDestinations(config) = {}

(***************************************************************************)
(* Lookups.                                                                *)
(***************************************************************************)
HasState(index, name) == name \in DOMAIN index

IsTransitionAllowed(index, from, to) ==
  /\ from \in DOMAIN index
  /\ to \in index[from]

(* Of a source state; the second result of the code is HasState.           *)
GetAllowedTransitions(index, from) == index[from]

IsTerminal(index, name) == HasState(index, name) /\ index[name] = {}

GetAllStates(config) == DOMAIN config \cup UNION {config[from] : from \in DOMAIN config}

(* The Machine has an interface of three operations to the table, and asks *)
(* IsTransitionAllowed of every state GetAllStates returns.                *)
AvailableTransitions(config, index, current) ==
  {state \in GetAllStates(config) : IsTransitionAllowed(index, current, state)}

MachineIsTerminal(config, index, current) ==
  \A state \in GetAllStates(config) : ~IsTransitionAllowed(index, current, state)
================================================================================
