----------------------------- MODULE SharedRegistry -----------------------------
(***************************************************************************)
(* The names of broadcast hooks on a registry that many machines share, as *)
(* machines come and go.                                                   *)
(*                                                                         *)
(* Subscribe names a machine's hook after the machine's address.  The hook *)
(* refers to the machine's broadcast manager and not to the machine, so    *)
(* the registry does not keep a machine alive, and the hook of one that    *)
(* was collected stays when a new machine is allocated at its address.     *)
(***************************************************************************)
CONSTANTS
  Machines,    (* the machines created with the registry, each once         *)
  Addresses,   (* where they may be allocated                               *)
  NoAddress,   (* where a machine is before it is created                   *)
  NoMachine    (* "no machine"                                              *)

ASSUME RegistryAssumption ==
  NoAddress \notin Addresses /\ NoMachine \notin Machines

VARIABLES
  table,       (* whether the registry was created WithTransitions          *)
  address,     (* where each machine was allocated                          *)
  live,        (* the machines that the program still refers to             *)
  setup,       (* stateChanSetup and its error: "new", "ok" or "failed"     *)
  hooks        (* the machine whose manager each hook name broadcasts to    *)

vars == <<table, address, live, setup, hooks>>

(* Seeded fault: one name for the hook of every machine.                   *)
ConstantHookName(m) == CHOOSE a \in Addresses : TRUE

HookName(m) == address[m]

Init ==
  /\ table \in BOOLEAN
  /\ address = [m \in Machines |-> NoAddress]
  /\ live = {}
  /\ setup = [m \in Machines |-> "new"]
  /\ hooks = [a \in Addresses |-> NoMachine]

(* The allocator hands out memory that no live machine occupies.           *)
NewMachine(m, a) ==
  /\ address[m] = NoAddress
  /\ \A n \in live : address[n] # a
  /\ address' = [address EXCEPT ![m] = a]
  /\ live' = live \cup {m}
  /\ UNCHANGED <<table, setup, hooks>>

Collect(m) ==
  /\ m \in live
  /\ live' = live \ {m}
  /\ UNCHANGED <<table, address, setup, hooks>>

(* The first Subscribe call of a machine; its outcome is that of every     *)
(* later call.  The hook is for all transitions, which a registry without  *)
(* a table does not take.                                                  *)
Subscribe(m) ==
  /\ m \in live
  /\ setup[m] = "new"
  /\ IF table /\ hooks[HookName(m)] = NoMachine
       THEN /\ hooks' = [hooks EXCEPT ![HookName(m)] = m]
            /\ setup' = [setup EXCEPT ![m] = "ok"]
       ELSE /\ setup' = [setup EXCEPT ![m] = "failed"]
            /\ UNCHANGED hooks
  /\ UNCHANGED <<table, address, live>>

RemoveHook(a) ==
  /\ hooks[a] # NoMachine
  /\ hooks' = [hooks EXCEPT ![a] = NoMachine]
  /\ UNCHANGED <<table, address, live, setup>>

ClearRegistry ==
  /\ hooks' = [a \in Addresses |-> NoMachine]
  /\ UNCHANGED <<table, address, live, setup>>

Next ==
  \/ \E m \in Machines :
       \/ \E a \in Addresses : NewMachine(m, a)
       \/ Collect(m) \/ Subscribe(m)
  \/ \E a \in Addresses : RemoveHook(a)
  \/ ClearRegistry

Spec == Init /\ [][Next]_vars
--------------------------------------------------------------------------------
(* The types of the variables; only machines that were created have        *)
(* subscribed; every hook bears the name of the machine that registered it.*)
TypeOK ==
  /\ table \in BOOLEAN
  /\ address \in [Machines -> Addresses \cup {NoAddress}]
  /\ live \subseteq {m \in Machines : address[m] # NoAddress}
  /\ setup \in [Machines -> {"new", "ok", "failed"}]
  /\ \A m \in Machines : address[m] = NoAddress => setup[m] = "new"
  /\ hooks \in [Addresses -> Machines \cup {NoMachine}]
  /\ \A a \in Addresses : hooks[a] # NoMachine =>
       address[hooks[a]] = a /\ setup[hooks[a]] = "ok"

(* On a registry with a table Subscribe fails for one reason only: the     *)
(* machine was allocated where an earlier one was, which had subscribed    *)
(* and is gone.                                                            *)
FailuresComeFromReuse ==
  table => \A m \in Machines : setup[m] = "failed" =>
    \E n \in Machines \ live :
      n # m /\ setup[n] = "ok" /\ address[n] = address[m]

(* Whoever removes the hook of a live machine's name, or finds it taken,   *)
(* deals with that machine's own hook or with one of a machine that is     *)
(* gone: no two live machines ever compete for a name.                     *)
NoRivalHooks ==
  \A m \in live : LET n == hooks[HookName(m)] IN n \in live => n = m
================================================================================
