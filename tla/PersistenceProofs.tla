---------------------------- MODULE PersistenceProofs ----------------------------
(***************************************************************************)
(* Theorems about saving and restoring machines, for any names, any        *)
(* encoding that changes names as Coerce may, and any tables.              *)
(***************************************************************************)
EXTENDS Persistence, TLAPS

(* The index of an accepted configuration is the configuration: no name is *)
(* left out of it.                                                         *)
LEMMA IndexOfAccepted ==
  ASSUME NEW config, IsConfig(config), Accepts(config)
  PROVE  /\ BuildIndex(config) = config
         /\ \A from \in DOMAIN config : ValidStateName(from) /\ config[from] \subseteq DOMAIN config
<1>1. \A from \in DOMAIN config :
        ValidStateName(from) /\ \A to \in config[from] : ValidStateName(to)
  BY DEF Accepts, HasInvalidName
<1>2. BuildIndex(config) = config
  <2>1. {s \in DOMAIN config : ValidStateName(s)} = DOMAIN config
    BY <1>1
  <2>2. \A from \in DOMAIN config :
          {to \in config[from] : ValidStateName(to)} = config[from]
    BY <1>1
  <2> QED BY <2>1, <2>2 DEF BuildIndex, IsConfig
<1>3. \A from \in DOMAIN config : config[from] \subseteq DOMAIN config
  BY <1>2 DEF Accepts, UndefinedDestinations
<1> QED BY <1>1, <1>2, <1>3

(* What an encoding of an accepted configuration is: an accepted           *)
(* configuration over the changed names, each entry that of a source with  *)
(* the name.                                                               *)
LEMMA EncodingAccepted ==
  ASSUME NEW config, IsConfig(config), Accepts(config),
         NEW t \in Encodings(config)
  PROVE  /\ IsConfig(t) /\ Accepts(t)
         /\ DOMAIN t = CoerceAll(DOMAIN config)
         /\ \A k \in DOMAIN t : \E from \in DOMAIN config :
              Coerce[from] = k /\ t[k] = CoerceAll(config[from])
<1> USE CoerceAssumption, NamesAssumption
<1> DEFINE keys == CoerceAll(DOMAIN config)
<1>1. PICK source \in [keys -> DOMAIN config] :
        /\ \A k \in keys : Coerce[source[k]] = k
        /\ t = [k \in keys |-> CoerceAll(config[source[k]])]
  BY DEF Encodings
<1>2. DOMAIN t = keys
  BY <1>1
<1>3. \A k \in DOMAIN t : \E from \in DOMAIN config :
        Coerce[from] = k /\ t[k] = CoerceAll(config[from])
  BY <1>1
<1>4. \A from \in DOMAIN config :
        ValidStateName(from) /\ config[from] \subseteq DOMAIN config
  BY IndexOfAccepted
<1>5. keys \subseteq Names /\ \A k \in keys : ValidStateName(k)
  BY <1>4 DEF CoerceAll, IsConfig
<1>6. \A k \in DOMAIN t : t[k] \subseteq keys
  BY <1>3, <1>4 DEF CoerceAll
<1>7. IsConfig(t)
  <2>1. t \in [keys -> SUBSET Names]
    BY <1>1, <1>2, <1>5, <1>6
  <2> QED BY <1>2, <1>5, <2>1 DEF IsConfig
<1>8. ~HasInvalidName(t)
  BY <1>2, <1>5, <1>6 DEF HasInvalidName
<1>9. UndefinedDestinations(t) = {}
  <2>1. \A k \in DOMAIN BuildIndex(t) : BuildIndex(t)[k] \subseteq keys
    BY <1>6 DEF BuildIndex
  <2> QED BY <1>2, <2>1 DEF UndefinedDestinations
<1>10. DOMAIN t # {}
  BY <1>2 DEF Accepts, CoerceAll
<1> QED BY <1>2, <1>3, <1>7, <1>8, <1>9, <1>10 DEF Accepts

(* The encoding changes nothing the second time.                           *)
LEMMA EncodingIdempotent ==
  ASSUME NEW config, IsConfig(config), Accepts(config),
         NEW t \in Encodings(config), NEW u \in Encodings(t)
  PROVE  u = t
<1> USE CoerceAssumption
<1>1. /\ IsConfig(t) /\ Accepts(t)
      /\ DOMAIN t = CoerceAll(DOMAIN config)
      /\ \A k \in DOMAIN t : \E from \in DOMAIN config :
           Coerce[from] = k /\ t[k] = CoerceAll(config[from])
  BY EncodingAccepted
<1>2. /\ IsConfig(u)
      /\ DOMAIN u = CoerceAll(DOMAIN t)
      /\ \A k \in DOMAIN u : \E from \in DOMAIN t :
           Coerce[from] = k /\ u[k] = CoerceAll(t[from])
  BY <1>1, EncodingAccepted
<1>3. ASSUME NEW S \in SUBSET Names
      PROVE  CoerceAll(CoerceAll(S)) = CoerceAll(S)
  BY DEF CoerceAll
<1>4. \A k \in DOMAIN t : Coerce[k] = k
  BY <1>1 DEF CoerceAll, IsConfig
<1>5. DOMAIN u = DOMAIN t
  BY <1>1, <1>2, <1>3 DEF IsConfig
<1>6. \A k \in DOMAIN t : CoerceAll(t[k]) = t[k]
  <2> SUFFICES ASSUME NEW k \in DOMAIN t PROVE CoerceAll(t[k]) = t[k]
    OBVIOUS
  <2>1. PICK from \in DOMAIN config : t[k] = CoerceAll(config[from])
    BY <1>1
  <2>2. config[from] \in SUBSET Names
    BY DEF IsConfig
  <2> QED BY <1>3, <2>1, <2>2
<1>7. \A k \in DOMAIN u : u[k] = t[k]
  BY <1>2, <1>4, <1>5, <1>6
<1> QED BY <1>1, <1>2, <1>5, <1>7 DEF IsConfig
--------------------------------------------------------------------------------
MachineOK(m) ==
  /\ m = [state |-> m.state, config |-> m.config]
  /\ IsConfig(m.config) /\ Accepts(m.config)
  /\ HasState(Index(m), m.state)

(* The file is an encoding of the machine that was saved, and a machine    *)
(* that was restored and not used is what the file says.                   *)
Inv ==
  /\ machine = [state |-> machine.state, config |-> machine.config]
  /\ file = [state |-> file.state, transitions |-> file.transitions, hooks |-> file.hooks]
  /\ hooks \subseteq HookNames /\ file.hooks \subseteq HookNames
  /\ Running => MachineOK(machine)
  /\ HasDocument =>
       /\ file.state = Coerce[saved.state]
       /\ file.transitions \in Encodings(saved.config)
       /\ MachineOK(saved)
  /\ fresh \in BOOLEAN
  /\ fresh => /\ Running /\ HasDocument
              /\ machine = [state |-> file.state, config |-> file.transitions]

LEMMA InitInv == Init => Inv
<1> SUFFICES ASSUME Init PROVE Inv
  OBVIOUS
<1>1. DOMAIN NoEntries = {}
  BY DEF NoEntries
<1>2. ~Running /\ ~HasDocument /\ fresh = FALSE
  BY <1>1 DEF Init, Running, HasDocument, NoMachine, NoDocument
<1>3. /\ machine = [state |-> machine.state, config |-> machine.config]
      /\ file = [state |-> file.state, transitions |-> file.transitions, hooks |-> file.hooks]
      /\ hooks = {} /\ file.hooks = {}
  BY DEF Init, NoMachine, NoDocument
<1> QED BY <1>2, <1>3 DEF Inv

LEMMA CreatesMachine ==
  ASSUME NEW config, IsConfig(config), NEW initial, Creates(config, initial)
  PROVE  /\ Running' /\ MachineOK(machine)'
         /\ machine' = [state |-> initial, config |-> config]
<1>1. machine' = [state |-> initial, config |-> config] /\ Accepts(config)
  BY DEF Creates
<1>2. MachineOK(machine)'
  BY <1>1 DEF Creates, MachineOK, Index
<1> QED BY <1>1, <1>2 DEF Running, Accepts

(* What follows from the file being an encoding of an accepted table.      *)
LEMMA DocumentOK ==
  ASSUME Inv, HasDocument
  PROVE  /\ IsConfig(file.transitions) /\ Accepts(file.transitions)
         /\ HasState(BuildIndex(file.transitions), file.state)
<1>1. /\ file.transitions \in Encodings(saved.config)
      /\ IsConfig(saved.config) /\ Accepts(saved.config)
      /\ HasState(Index(saved), saved.state) /\ file.state = Coerce[saved.state]
  BY DEF Inv, MachineOK
<1>2. /\ IsConfig(file.transitions) /\ Accepts(file.transitions)
      /\ DOMAIN file.transitions = CoerceAll(DOMAIN saved.config)
  BY <1>1, EncodingAccepted
<1>3. saved.state \in DOMAIN saved.config
  BY <1>1, IndexOfAccepted DEF HasState, Index
<1>4. file.state \in DOMAIN file.transitions
  BY <1>1, <1>2, <1>3 DEF CoerceAll
<1> QED BY <1>2, <1>4, IndexOfAccepted DEF HasState

LEMMA NextInv == Inv /\ [Next]_vars => Inv'
<1> SUFFICES ASSUME Inv, [Next]_vars PROVE Inv'
  OBVIOUS
<1>1. ASSUME NEW config \in Inputs, NEW initial \in DOMAIN config,
             NewSimple(config, initial)
      PROVE  Inv'
  <2>1. /\ Running' /\ MachineOK(machine)'
        /\ machine' = [state |-> initial, config |-> config]
    BY <1>1, InputsAssumption, CreatesMachine DEF NewSimple
  <2> QED BY <1>1, <2>1 DEF NewSimple, Inv, HasDocument
<1>2. ASSUME NEW n \in Names, Transition(n)
      PROVE  Inv'
  <2>1. MachineOK(machine)
    BY <1>2 DEF Transition, Inv
  <2>2. n \in DOMAIN machine.config
    BY <1>2, <2>1, IndexOfAccepted DEF Transition, MachineOK, IsTransitionAllowed, Index
  <2>3. machine' = [state |-> n, config |-> machine.config]
    BY <1>2, <2>1 DEF Transition, MachineOK
  <2>4. MachineOK(machine)'
    BY <2>1, <2>2, <2>3, IndexOfAccepted DEF MachineOK, Index, HasState
  <2> QED BY <1>2, <2>3, <2>4 DEF Transition, Inv, HasDocument
<1>3. ASSUME NEW n \in Names, SetState(n)
      PROVE  Inv'
  <2>1. MachineOK(machine)
    BY <1>3 DEF SetState, Inv
  <2>2. machine' = [state |-> n, config |-> machine.config]
    BY <1>3, <2>1 DEF SetState, MachineOK
  <2>3. MachineOK(machine)'
    BY <1>3, <2>1, <2>2 DEF SetState, MachineOK, Index
  <2> QED BY <1>3, <2>2, <2>3 DEF SetState, Inv, HasDocument
<1>4. CASE MarshalJSON
  <2>1. MachineOK(machine)
    BY <1>4 DEF MarshalJSON, Inv
  <2>2. PICK t \in Encodings(machine.config) :
          file' = [state |-> Coerce[machine.state], transitions |-> t, hooks |-> hooks]
    BY <1>4 DEF MarshalJSON
  <2>3. /\ saved' = machine /\ machine' = machine /\ fresh' = fresh /\ hooks' = hooks
        /\ file'.transitions = t /\ file'.state = Coerce[machine.state]
        /\ file'.hooks = hooks
    BY <1>4, <2>2 DEF MarshalJSON
  <2>4. MachineOK(saved)' /\ Running' = Running
    BY <2>1, <2>3 DEF MachineOK, Index, Running
  <2>5. HasDocument'
    BY <2>1, <2>3, EncodingAccepted DEF MachineOK, HasDocument, Accepts
  <2>6. ASSUME fresh
        PROVE  machine = [state |-> Coerce[machine.state], config |-> t]
    <3>1. /\ file.transitions \in Encodings(saved.config)
          /\ machine.state = file.state /\ machine.config = file.transitions
          /\ IsConfig(saved.config) /\ Accepts(saved.config)
          /\ HasState(Index(saved), saved.state) /\ file.state = Coerce[saved.state]
      BY <2>6 DEF Inv, MachineOK
    <3>2. t = machine.config
      BY <3>1, EncodingIdempotent
    <3>3. saved.state \in Names
      BY <3>1, IndexOfAccepted DEF HasState, Index, IsConfig
    <3>4. Coerce[machine.state] = machine.state
      BY <3>1, <3>3, CoerceAssumption
    <3> QED BY <2>1, <3>2, <3>4 DEF MachineOK
  <2> QED BY <1>4, <2>1, <2>2, <2>3, <2>4, <2>5, <2>6 DEF Inv, MachineOK, Index
<1>5. CASE Exit
  BY <1>5 DEF Exit, Inv, Running, NoMachine, NoEntries, HasDocument
<1>6. CASE NewFromJSON
  <2>1. IsConfig(file.transitions)
    BY <1>6, DocumentOK DEF NewFromJSON
  <2>2. /\ Running' /\ MachineOK(machine)'
        /\ machine' = [state |-> file.state, config |-> file.transitions]
    BY <1>6, <2>1, CreatesMachine DEF NewFromJSON
  <2> QED BY <1>6, <2>2 DEF NewFromJSON, Inv, HasDocument
<1>7. ASSUME NEW h \in HookNames, RegisterHook(h) \/ RemoveHook(h)
      PROVE  Inv'
  BY <1>7 DEF RegisterHook, RemoveHook, Inv, Running, HasDocument, MachineOK, Index
<1>8. CASE UNCHANGED vars
  BY <1>8 DEF vars, Inv, Running, HasDocument, MachineOK, Index
<1> QED BY <1>1, <1>2, <1>3, <1>4, <1>5, <1>6, <1>7, <1>8 DEF Next

LEMMA AlwaysInv == Spec => []Inv
  BY InitInv, NextInv, PTL DEF Spec

(* The types; the machine and the file stay well formed over any number of *)
(* restarts.                                                               *)
THEOREM TypeCorrect == Spec => []TypeOK
<1>1. Inv => TypeOK
  <2> SUFFICES ASSUME Inv PROVE TypeOK
    OBVIOUS
  <2>1. HasDocument => IsConfig(file.transitions) /\ DOMAIN saved.config # {}
    BY DocumentOK DEF Inv, MachineOK, Accepts
  <2> QED BY <2>1 DEF Inv, TypeOK, MachineOK
<1> QED BY <1>1, AlwaysInv, PTL

(* Whatever the names and the table are, NewFromJSON accepts what          *)
(* MarshalJSON saved.                                                      *)
THEOREM SavedMachinesRestore == Spec => []RestoreNeverFails
<1>1. Inv => RestoreNeverFails
  BY DocumentOK DEF RestoreNeverFails
<1> QED BY <1>1, AlwaysInv, PTL

(* A restored machine allows no transition the saved one did not, and all  *)
(* of them where no two states have become one.                            *)
THEOREM RestoredTablesAgree == Spec => []RestoredAllowsTheSame
<1>1. Inv => RestoredAllowsTheSame
  <2> SUFFICES ASSUME Inv, HasDocument PROVE RestoredAllowsTheSame
    BY DEF RestoredAllowsTheSame
  <2> DEFINE t == file.transitions
             c == saved.config
  <2>1. t \in Encodings(c) /\ IsConfig(c) /\ Accepts(c)
    BY DEF Inv, MachineOK
  <2> HIDE DEF t, c
  <2>2. /\ IsConfig(t) /\ Accepts(t)
        /\ DOMAIN t = CoerceAll(DOMAIN c)
        /\ \A k \in DOMAIN t : \E from \in DOMAIN c :
             Coerce[from] = k /\ t[k] = CoerceAll(c[from])
    BY <2>1, EncodingAccepted
  <2>3. BuildIndex(t) = t /\ BuildIndex(c) = c
    BY <2>1, <2>2, IndexOfAccepted
  <2>4. DOMAIN c \subseteq Names /\ \A from \in DOMAIN c : c[from] \subseteq Names
    BY <2>1 DEF IsConfig
  <2>5. ASSUME NEW s, NEW to, IsTransitionAllowed(t, s, to)
        PROVE  \E m, n \in Names : /\ IsTransitionAllowed(c, m, n)
                                   /\ Coerce[m] = s /\ Coerce[n] = to
    <3>1. PICK from \in DOMAIN c : Coerce[from] = s /\ t[s] = CoerceAll(c[from])
      BY <2>2, <2>5 DEF IsTransitionAllowed
    <3>2. PICK n \in c[from] : Coerce[n] = to
      BY <2>5, <3>1 DEF IsTransitionAllowed, CoerceAll
    <3> QED BY <2>4, <3>1, <3>2 DEF IsTransitionAllowed
  <2>6. ASSUME NamesStayApart(c), NEW m, NEW n, IsTransitionAllowed(c, m, n)
        PROVE  IsTransitionAllowed(t, Coerce[m], Coerce[n])
    <3>1. m \in DOMAIN c /\ Coerce[m] \in DOMAIN t
      BY <2>2, <2>6 DEF IsTransitionAllowed, CoerceAll
    <3>2. t[Coerce[m]] = CoerceAll(c[m])
      BY <2>2, <2>6, <3>1 DEF NamesStayApart
    <3> QED BY <2>6, <3>1, <3>2 DEF IsTransitionAllowed, CoerceAll
  <2> QED BY <2>3, <2>5, <2>6 DEF RestoredAllowsTheSame, Index, t, c
<1> QED BY <1>1, AlwaysInv, PTL

(* A machine that was restored and not used is saved in the same state and *)
(* with the same table, whatever its hooks are.                            *)
THEOREM SecondSaveKeepsStateAndTable == Spec => RestoredSavesStateAndTable
<1>1. Inv /\ Inv' /\ [Next]_vars =>
        [fresh /\ MarshalJSON => UNCHANGED <<file.state, file.transitions>>]_vars
  <2> SUFFICES ASSUME Inv, Inv', fresh, MarshalJSON
               PROVE  UNCHANGED <<file.state, file.transitions>>
    OBVIOUS
  <2>1. machine = [state |-> file.state, config |-> file.transitions]
    BY DEF Inv
  <2>2. machine' = machine /\ fresh' = fresh
    BY DEF MarshalJSON
  <2>3. machine' = [state |-> file'.state, config |-> file'.transitions]
    BY <2>2 DEF Inv
  <2> QED BY <2>1, <2>2, <2>3
<1> QED BY <1>1, AlwaysInv, PTL DEF Spec, RestoredSavesStateAndTable
================================================================================
