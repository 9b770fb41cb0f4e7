--------------------------- MODULE SharedRegistryProofs ---------------------------
(***************************************************************************)
(* Theorems about SharedRegistry, for any number of machines and           *)
(* addresses.                                                              *)
(***************************************************************************)
EXTENDS SharedRegistry, TLAPS

(* Machines that exist at the same time have different addresses.          *)
AddressesDiffer == \A m, n \in live : address[m] = address[n] => m = n

(* The hook names stay named after their machines, and no two machines     *)
(* that exist at the same time have one address.                           *)
LEMMA InitInv == Init => TypeOK /\ AddressesDiffer
  BY RegistryAssumption DEF Init, TypeOK, AddressesDiffer

LEMMA NextInv ==
  TypeOK /\ AddressesDiffer /\ [Next]_vars => TypeOK' /\ AddressesDiffer'
<1> SUFFICES ASSUME TypeOK, AddressesDiffer, [Next]_vars
             PROVE  TypeOK' /\ AddressesDiffer'
  OBVIOUS
<1> USE RegistryAssumption DEF TypeOK
<1>1. ASSUME NEW m \in Machines, NEW a \in Addresses, NewMachine(m, a)
      PROVE  TypeOK' /\ AddressesDiffer'
  <2>1. TypeOK'
    BY <1>1 DEF NewMachine
  <2>2. AddressesDiffer'
    BY <1>1 DEF NewMachine, AddressesDiffer
  <2> QED BY <2>1, <2>2
<1>2. ASSUME NEW m \in Machines, Collect(m)
      PROVE  TypeOK' /\ AddressesDiffer'
  BY <1>2 DEF Collect, AddressesDiffer
<1>3. ASSUME NEW m \in Machines, Subscribe(m)
      PROVE  TypeOK' /\ AddressesDiffer'
  <2>1. HookName(m) \in Addresses /\ address[m] = HookName(m)
    BY <1>3 DEF Subscribe, HookName
  <2>2. CASE table /\ hooks[HookName(m)] = NoMachine
    BY <1>3, <2>1, <2>2 DEF Subscribe, AddressesDiffer
  <2>3. CASE ~(table /\ hooks[HookName(m)] = NoMachine)
    BY <1>3, <2>1, <2>3 DEF Subscribe, AddressesDiffer
  <2> QED BY <2>2, <2>3
<1>4. ASSUME NEW a \in Addresses, RemoveHook(a)
      PROVE  TypeOK' /\ AddressesDiffer'
  BY <1>4 DEF RemoveHook, AddressesDiffer
<1>5. CASE ClearRegistry
  BY <1>5 DEF ClearRegistry, AddressesDiffer
<1>6. CASE UNCHANGED vars
  BY <1>6 DEF vars, AddressesDiffer
<1> QED BY <1>1, <1>2, <1>3, <1>4, <1>5, <1>6 DEF Next

(* Every hook bears the name of the machine that registered it, whatever   *)
(* RemoveHook and Clear did.                                               *)
THEOREM TypeCorrect == Spec => []TypeOK
<1>1. Spec => [](TypeOK /\ AddressesDiffer)
  BY InitInv, NextInv, PTL DEF Spec
<1> QED BY <1>1, PTL

(* Two live machines never compete for a hook name, also where the         *)
(* allocator uses addresses again.                                         *)
THEOREM NoRivals == Spec => []NoRivalHooks
<1>1. Spec => [](TypeOK /\ AddressesDiffer)
  BY InitInv, NextInv, PTL DEF Spec
<1>2. TypeOK /\ AddressesDiffer => NoRivalHooks
  BY RegistryAssumption DEF TypeOK, AddressesDiffer, NoRivalHooks, HookName
<1> QED BY <1>1, <1>2, PTL

(* On a shared registry with a table, Subscribe fails on a machine only    *)
(* because it was allocated where one that had subscribed and is gone      *)
(* was.                                                                    *)
THEOREM FailuresExplained == Spec => []FailuresComeFromReuse
<1> DEFINE Inv == TypeOK /\ AddressesDiffer /\ FailuresComeFromReuse
<1>1. Init => Inv
  BY InitInv DEF Init, FailuresComeFromReuse
<1>2. Inv /\ [Next]_vars => Inv'
  <2> SUFFICES ASSUME Inv, [Next]_vars PROVE FailuresComeFromReuse'
    BY NextInv
  <2> USE DEF FailuresComeFromReuse, TypeOK
  <2>1. ASSUME NEW m \in Machines, NEW a \in Addresses, NewMachine(m, a)
        PROVE  FailuresComeFromReuse'
    <3> SUFFICES ASSUME table', NEW k \in Machines, setup'[k] = "failed"
                 PROVE  \E n \in Machines \ live' :
                          n # k /\ setup'[n] = "ok" /\ address'[n] = address'[k]
      OBVIOUS
    <3>1. setup' = setup /\ table' = table
      BY <2>1 DEF NewMachine
    <3>2. PICK n \in Machines \ live :
            n # k /\ setup[n] = "ok" /\ address[n] = address[k]
      BY <3>1
    <3>3. address'[k] = address[k] /\ address'[n] = address[n] /\ n # m
      BY <2>1, <3>1, <3>2, RegistryAssumption DEF NewMachine
    <3> QED BY <2>1, <3>1, <3>2, <3>3 DEF NewMachine
  <2>2. ASSUME NEW m \in Machines, Collect(m) PROVE FailuresComeFromReuse'
    BY <2>2 DEF Collect
  <2>3. ASSUME NEW m \in Machines, Subscribe(m) PROVE FailuresComeFromReuse'
    <3>1. HookName(m) \in Addresses /\ address[m] = HookName(m)
      BY <2>3, RegistryAssumption DEF Subscribe, HookName
    <3>2. CASE ~table \/ hooks[HookName(m)] = NoMachine
      BY <2>3, <3>2 DEF Subscribe
    <3>3. CASE table /\ hooks[HookName(m)] # NoMachine
      <4> DEFINE n == hooks[HookName(m)]
      <4>1. n \in Machines /\ address[n] = address[m] /\ setup[n] = "ok"
        BY <3>1, <3>3
      <4>2. n # m /\ n \notin live
        BY <2>3, <4>1 DEF Subscribe, AddressesDiffer
      <4> QED BY <2>3, <3>3, <4>1, <4>2 DEF Subscribe
    <3> QED BY <3>2, <3>3
  <2>4. ASSUME UNCHANGED <<table, address, live, setup>> PROVE FailuresComeFromReuse'
    BY <2>4
  <2> QED BY <2>1, <2>2, <2>3, <2>4 DEF Next, vars, RemoveHook, ClearRegistry
<1>3. Spec => []Inv
  BY <1>1, <1>2, PTL DEF Spec
<1> QED BY <1>3, PTL DEF Inv
================================================================================
