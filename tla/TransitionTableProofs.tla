-------------------------- MODULE TransitionTableProofs --------------------------
(***************************************************************************)
(* Theorems about the transition table, for any names and any maps that    *)
(* callers pass in or write to.                                            *)
(***************************************************************************)
EXTENDS TransitionTable, TLAPS

(* The index of an accepted configuration is the configuration: no name is *)
(* left out of it.                                                         *)
LEMMA IndexOfAccepted ==
  ASSUME NEW config, IsConfig(config), Accepts(config)
  PROVE  /\ BuildIndex(config) = config
         /\ \A from \in DOMAIN config : ValidStateName(from) /\ config[from] \subseteq DOMAIN config
<1>1. \A from \in DOMAIN config :
        ValidStateName(from) /\ \A to \in config[from] : ValidStateName(to)
  BY DEF Accepts, HasInvalidName
<1>2. BuildIndex(config) = config
  <2>1. {s \in DOMAIN config : ValidStateName(s)} = DOMAIN config
    BY <1>1
  <2>2. \A from \in DOMAIN config :
          {to \in config[from] : ValidStateName(to)} = config[from]
    BY <1>1
  <2> QED BY <2>1, <2>2 DEF BuildIndex, IsConfig
<1>3. \A from \in DOMAIN config : config[from] \subseteq DOMAIN config
  BY <1>2 DEF Accepts, UndefinedDestinations
<1> QED BY <1>1, <1>2, <1>3

(* What the Machine works out about a state from GetAllStates and          *)
(* IsTransitionAllowed is what the table's own lookups answer.             *)
THEOREM ViewsOfAccepted ==
  ASSUME NEW config, IsConfig(config), Accepts(config), NEW s \in DOMAIN config
  PROVE  /\ AvailableTransitions(config, BuildIndex(config), s)
              = GetAllowedTransitions(BuildIndex(config), s)
         /\ MachineIsTerminal(config, BuildIndex(config), s)
              <=> IsTerminal(BuildIndex(config), s)
<1>1. BuildIndex(config) = config
  BY IndexOfAccepted
<1>2. config[s] \subseteq GetAllStates(config)
  BY DEF GetAllStates
<1>3. AvailableTransitions(config, config, s) = config[s]
  BY <1>2 DEF AvailableTransitions, IsTransitionAllowed
<1>4. MachineIsTerminal(config, config, s) <=> config[s] = {}
  BY <1>2 DEF MachineIsTerminal, IsTransitionAllowed
<1> QED BY <1>1, <1>3, <1>4 DEF GetAllowedTransitions, IsTerminal, HasState
--------------------------------------------------------------------------------
(* No map shares a slice with another.                                     *)
NoAliases ==
  \A r \in Regions : \A from \in DOMAIN maps[r] : maps[r][from] = r

Safe ==
  /\ TypeOK
  /\ NoAliases
  /\ TableAgrees
  /\ step = "stored" => /\ Accepts(Contents("table"))
                        /\ pending = BuildIndex(Contents("table"))

(* The maps have states for keys and sets of states for values.            *)
LEMMA ContentsIsConfig ==
  ASSUME TypeOK, NEW r \in Regions
  PROVE  IsConfig(Contents(r))
<1>1. PICK D \in SUBSET Names : maps[r] \in [D -> Regions]
  BY DEF TypeOK
<1> QED BY <1>1 DEF Contents, IsConfig, TypeOK

(* A deep copy holds what it is a copy of and shares nothing with it.      *)
LEMMA DeepCopy ==
  ASSUME TypeOK, NoAliases, NEW r \in Regions, NEW config, IsConfig(config),
         Allocate(r, config)
  PROVE  /\ maps' \in [Regions -> UNION {[D -> Regions] : D \in SUBSET Names}]
         /\ slices' \in [Regions -> [Names -> SUBSET Names]]
         /\ NoAliases'
         /\ Contents(r)' = config
         /\ \A q \in Regions : q # r => Contents(q)' = Contents(q)
<1> DEFINE m == [from \in DOMAIN config |-> r]
           c == [from \in Names |-> IF from \in DOMAIN config THEN config[from] ELSE {}]
<1>1. m \in UNION {[D -> Regions] : D \in SUBSET Names}
  <2>1. DOMAIN config \in SUBSET Names /\ m \in [DOMAIN config -> Regions]
    BY DEF IsConfig
  <2> QED BY <2>1
<1>2. c \in [Names -> SUBSET Names]
  BY DEF IsConfig
<1>3. maps' = [maps EXCEPT ![r] = m] /\ slices' = [slices EXCEPT ![r] = c]
  BY DEF Allocate
<1> HIDE DEF m, c
<1>4. /\ maps' \in [Regions -> UNION {[D -> Regions] : D \in SUBSET Names}]
      /\ slices' \in [Regions -> [Names -> SUBSET Names]]
      /\ maps'[r] = m /\ slices'[r] = c
      /\ \A q \in Regions : q # r => maps'[q] = maps[q] /\ slices'[q] = slices[q]
  BY <1>1, <1>2, <1>3 DEF TypeOK
<1>5. NoAliases'
  BY <1>4 DEF NoAliases, m
<1>6. Contents(r)' = config
  <2>1. Contents(r)' = [from \in DOMAIN config |-> slices'[r][from]]
    BY <1>4 DEF Contents, m
  <2>2. \A from \in DOMAIN config : slices'[r][from] = config[from]
    BY <1>4 DEF c, IsConfig
  <2> QED BY <2>1, <2>2 DEF IsConfig
<1>7. ASSUME NEW q \in Regions, q # r
      PROVE  Contents(q)' = Contents(q)
  <2>1. \A from \in DOMAIN maps[q] : slices'[maps'[q][from]][from] = slices[maps[q][from]][from]
    BY <1>4, <1>7 DEF NoAliases
  <2> QED BY <1>4, <1>7, <2>1 DEF Contents
<1> QED BY <1>4, <1>5, <1>6, <1>7
(* A write of a caller reaches the slices and the map that it holds, and   *)
(* nothing else.                                                           *)
LEMMA WritesStayInRegion ==
  ASSUME TypeOK, NoAliases, NEW r \in {"caller", "copy"}, NEW from \in Names,
         CallerWrites(r, from)
  PROVE  /\ maps' \in [Regions -> UNION {[D -> Regions] : D \in SUBSET Names}]
         /\ slices' \in [Regions -> [Names -> SUBSET Names]]
         /\ NoAliases'
         /\ Contents("table")' = Contents("table")
<1>0. r \in Regions /\ "table" \in Regions /\ r # "table"
  BY DEF Regions
<1>1. PICK D \in SUBSET Names : maps[r] \in [D -> Regions]
  BY <1>0 DEF TypeOK
<1>2. ASSUME from \in DOMAIN maps[r], WriteTarget(r, from)
      PROVE  /\ maps' = maps
             /\ slices' \in [Regions -> [Names -> SUBSET Names]]
             /\ slices'["table"] = slices["table"]
  <2>1. maps[r][from] = r
    BY <1>0, <1>2 DEF NoAliases
  <2>2. PICK old \in Contents(r)[from], new \in Names, again \in BOOLEAN :
          slices' = [slices EXCEPT ![r][from] =
                       (IF again THEN @ ELSE @ \ {old}) \cup {new}]
    BY <1>2, <2>1 DEF WriteTarget
  <2> DEFINE v == (IF again THEN slices[r][from] ELSE slices[r][from] \ {old}) \cup {new}
  <2>3. slices[r] \in [Names -> SUBSET Names] /\ v \in SUBSET Names
    BY <1>0 DEF TypeOK
  <2>4. slices' = [slices EXCEPT ![r] = [@ EXCEPT ![from] = v]]
    BY <2>2
  <2> HIDE DEF v
  <2>5. /\ slices' \in [Regions -> [Names -> SUBSET Names]]
        /\ slices'["table"] = slices["table"]
    BY <1>0, <2>3, <2>4 DEF TypeOK
  <2> QED BY <1>2, <2>5 DEF WriteTarget
<1>3. ASSUME DeleteEntry(r, from)
      PROVE  /\ maps' \in [Regions -> UNION {[E -> Regions] : E \in SUBSET Names}]
             /\ slices' = slices /\ NoAliases' /\ maps'["table"] = maps["table"]
  <2> DEFINE m == [s \in DOMAIN maps[r] \ {from} |-> maps[r][s]]
  <2>1. m \in [D \ {from} -> Regions]
    BY <1>0, <1>1
  <2>2. m \in UNION {[E -> Regions] : E \in SUBSET Names}
    BY <2>1
  <2>3. \A s \in DOMAIN m : m[s] = r
    BY <1>0 DEF NoAliases
  <2>4. maps' = [maps EXCEPT ![r] = m]
    BY <1>3 DEF DeleteEntry
  <2> HIDE DEF m
  <2>5. /\ maps' \in [Regions -> UNION {[E -> Regions] : E \in SUBSET Names}]
        /\ maps'[r] = m
        /\ \A q \in Regions : q # r => maps'[q] = maps[q]
    BY <1>0, <2>2, <2>4 DEF TypeOK
  <2>6. NoAliases'
    BY <2>3, <2>5 DEF NoAliases
  <2> QED BY <1>0, <1>3, <2>5, <2>6 DEF DeleteEntry
<1>4. ASSUME PutEntry(r, from)
      PROVE  /\ maps' \in [Regions -> UNION {[E -> Regions] : E \in SUBSET Names}]
             /\ slices' \in [Regions -> [Names -> SUBSET Names]]
             /\ slices'["table"] = slices["table"]
             /\ NoAliases' /\ maps'["table"] = maps["table"]
  <2> DEFINE m == [s \in DOMAIN maps[r] \cup {from} |->
                     IF s = from THEN r ELSE maps[r][s]]
  <2>1. m \in [D \cup {from} -> Regions]
    BY <1>0, <1>1
  <2>2. m \in UNION {[E -> Regions] : E \in SUBSET Names}
    BY <2>1
  <2>3. \A s \in DOMAIN m : m[s] = r
    BY <1>0 DEF NoAliases
  <2>4. PICK targets \in SUBSET Names :
          /\ maps' = [maps EXCEPT ![r] = m]
          /\ slices' = [slices EXCEPT ![r][from] = targets]
    BY <1>4 DEF PutEntry
  <2> HIDE DEF m
  <2>5. /\ maps' \in [Regions -> UNION {[E -> Regions] : E \in SUBSET Names}]
        /\ maps'[r] = m
        /\ \A q \in Regions : q # r => maps'[q] = maps[q]
    BY <1>0, <2>2, <2>4 DEF TypeOK
  <2>6. NoAliases'
    BY <2>3, <2>5 DEF NoAliases
  <2>7. /\ slices' \in [Regions -> [Names -> SUBSET Names]]
        /\ slices'["table"] = slices["table"]
    BY <1>0, <2>4 DEF TypeOK
  <2> QED BY <1>0, <2>5, <2>6, <2>7
<1>5. /\ maps' \in [Regions -> UNION {[E -> Regions] : E \in SUBSET Names}]
      /\ slices' \in [Regions -> [Names -> SUBSET Names]]
      /\ NoAliases'
      /\ maps'["table"] = maps["table"] /\ slices'["table"] = slices["table"]
  BY <1>2, <1>3, <1>4 DEF CallerWrites, TypeOK, NoAliases
<1>6. \A s \in DOMAIN maps["table"] : maps["table"][s] = "table"
  BY <1>0 DEF NoAliases
<1> QED BY <1>0, <1>5, <1>6 DEF Contents
--------------------------------------------------------------------------------
(* The type of an index that buildIndex returned without an error.         *)
LEMMA IndexType ==
  ASSUME NEW config, IsConfig(config), Accepts(config)
  PROVE  BuildIndex(config)
           \in UNION {[D -> SUBSET D] : D \in SUBSET (Names \ InvalidNames)}
<1>1. DOMAIN config \in SUBSET (Names \ InvalidNames)
  BY IndexOfAccepted DEF IsConfig, ValidStateName
<1>2. config \in [DOMAIN config -> SUBSET DOMAIN config]
  BY IndexOfAccepted DEF IsConfig
<1>3. BuildIndex(config) = config
  BY IndexOfAccepted
<1> QED BY <1>1, <1>2, <1>3

LEMMA InitSafe == Init => Safe
<1> SUFFICES ASSUME Init PROVE Safe
  OBVIOUS
<1>1. PICK config \in Inputs :
        /\ maps = [r \in Regions |-> [from \in
                     IF r = "caller" THEN DOMAIN config ELSE {} |-> r]]
        /\ slices = [r \in Regions |-> [from \in Names |->
                       IF r = "caller" /\ from \in DOMAIN config
                         THEN config[from] ELSE {}]]
  BY DEF Init
<1>2. IsConfig(config)
  BY InputsAssumption
<1>3. maps \in [Regions -> UNION {[D -> Regions] : D \in SUBSET Names}]
  <2>1. ASSUME NEW r \in Regions
        PROVE  maps[r] \in UNION {[D -> Regions] : D \in SUBSET Names}
    <3> DEFINE D == IF r = "caller" THEN DOMAIN config ELSE {}
    <3>1. D \in SUBSET Names /\ maps[r] \in [D -> Regions]
      BY <1>1, <1>2 DEF IsConfig
    <3> QED BY <3>1
  <2> QED BY <1>1, <2>1
<1>4. slices \in [Regions -> [Names -> SUBSET Names]]
  BY <1>1, <1>2 DEF IsConfig
<1>5. DOMAIN index = {} /\ index \in [{} -> SUBSET {}] /\ pending = index
  BY DEF Init, NoEntries
<1>6. TypeOK
  <2>1. {index, pending} \subseteq
          UNION {[D -> SUBSET D] : D \in SUBSET (Names \ InvalidNames)}
    BY <1>5
  <2>2. step \in {"idle", "stored"} /\ writes \in 0..MaxWrites
    BY MaxWritesAssumption DEF Init
  <2> QED BY <1>3, <1>4, <2>1, <2>2 DEF TypeOK
<1>7. NoAliases
  BY <1>1 DEF NoAliases
<1> QED BY <1>5, <1>6, <1>7 DEF Safe, TableAgrees, Built, Init

LEMMA NextSafe == Safe /\ [Next]_vars => Safe'
<1> SUFFICES ASSUME Safe, [Next]_vars PROVE Safe'
  OBVIOUS
<1> USE DEF Safe
<1>0. "caller" \in Regions /\ "table" \in Regions /\ "copy" \in Regions
  BY DEF Regions
<1>1. CASE New
  <2>1. IsConfig(Contents("caller"))
    BY <1>0, ContentsIsConfig
  <2>2. NoAliases' /\ Contents("table")' = Contents("caller")
        /\ maps' \in [Regions -> UNION {[D -> Regions] : D \in SUBSET Names}]
        /\ slices' \in [Regions -> [Names -> SUBSET Names]]
    BY <1>0, <1>1, <2>1, DeepCopy DEF New
  <2>3. TypeOK'
    BY <1>1, <2>1, <2>2, IndexType DEF New, TypeOK
  <2> QED BY <1>1, <2>2, <2>3 DEF New, TableAgrees
<1>2. CASE AsMap
  <2>1. IsConfig(Contents("table"))
    BY <1>0, ContentsIsConfig
  <2>2. NoAliases' /\ Contents("table")' = Contents("table")
        /\ maps' \in [Regions -> UNION {[D -> Regions] : D \in SUBSET Names}]
        /\ slices' \in [Regions -> [Names -> SUBSET Names]]
    BY <1>0, <1>2, <2>1, DeepCopy DEF AsMap
  <2> QED BY <1>2, <2>2 DEF AsMap, TableAgrees, TypeOK, Built
<1>3. ASSUME NEW config \in Inputs, UnmarshalConfig(config)
      PROVE  Safe'
  <2>1. IsConfig(config)
    BY InputsAssumption
  <2>2. NoAliases' /\ Contents("table")' = config
        /\ maps' \in [Regions -> UNION {[D -> Regions] : D \in SUBSET Names}]
        /\ slices' \in [Regions -> [Names -> SUBSET Names]]
    BY <1>0, <1>3, <2>1, DeepCopy DEF UnmarshalConfig
  <2>3. TypeOK'
    BY <1>3, <2>1, <2>2, IndexType DEF UnmarshalConfig, TypeOK
  <2> QED BY <1>3, <2>2, <2>3 DEF UnmarshalConfig, TableAgrees
<1>4. CASE UnmarshalIndex
  <2>1. Contents("table")' = Contents("table") /\ NoAliases'
    BY <1>4 DEF UnmarshalIndex, Contents, NoAliases
  <2>2. TypeOK'
    <3>1. NoEntries \in UNION {[D -> SUBSET D] : D \in SUBSET (Names \ InvalidNames)}
      <4>1. NoEntries \in [{} -> SUBSET {}]
        BY DEF NoEntries
      <4> QED BY <4>1
    <3> QED BY <1>4, <3>1 DEF UnmarshalIndex, TypeOK
  <2> QED BY <1>4, <2>1, <2>2 DEF UnmarshalIndex, TableAgrees
<1>5. ASSUME NEW r \in {"caller", "copy"}, NEW from \in Names, CallerWrites(r, from)
      PROVE  Safe'
  <2>1. NoAliases' /\ Contents("table")' = Contents("table")
        /\ maps' \in [Regions -> UNION {[D -> Regions] : D \in SUBSET Names}]
        /\ slices' \in [Regions -> [Names -> SUBSET Names]]
    BY <1>5, WritesStayInRegion
  <2>2. writes' \in 0..MaxWrites
    BY <1>5, MaxWritesAssumption DEF CallerWrites, TypeOK
  <2> QED BY <1>5, <2>1, <2>2 DEF CallerWrites, TableAgrees, TypeOK, Built
<1>6. CASE UNCHANGED vars
  BY <1>6 DEF vars, TypeOK, NoAliases, TableAgrees, Contents, Built
<1> QED BY <1>1, <1>2, <1>3, <1>4, <1>5, <1>6 DEF Next

(* The type invariant, and with it that no transition leads out of the     *)
(* table.                                                                  *)
THEOREM TypeCorrect == Spec => []TypeOK
<1>1. Safe => TypeOK
  BY DEF Safe
<1> QED BY <1>1, InitSafe, NextSafe, PTL DEF Spec

(* No write of a caller, and no failed UnmarshalJSON, makes the            *)
(* configuration and the index drift apart.                                *)
THEOREM ConfigAndIndexAgree == Spec => []TableAgrees
<1>1. Safe => TableAgrees
  BY DEF Safe
<1> QED BY <1>1, InitSafe, NextSafe, PTL DEF Spec

(* The Machine's own views of the table agree with the table's answers.    *)
THEOREM MachineViewsAgree == Spec => []ViewsAgree
<1>1. Safe => ViewsAgree
  <2> SUFFICES ASSUME Safe, Built, step = "idle", NEW s \in DOMAIN index
      PROVE  /\ AvailableTransitions(Contents("table"), index, s) = GetAllowedTransitions(index, s)
             /\ MachineIsTerminal(Contents("table"), index, s) <=> IsTerminal(index, s)
    BY DEF ViewsAgree
  <2> DEFINE config == Contents("table")
  <2>1. Accepts(config) /\ index = BuildIndex(config)
    BY DEF Safe, TableAgrees
  <2>2. IsConfig(config)
    BY ContentsIsConfig DEF Safe, Regions
  <2>3. s \in DOMAIN config
    BY <2>1, <2>2, IndexOfAccepted
  <2> HIDE DEF config
  <2>4. /\ AvailableTransitions(config, index, s) = GetAllowedTransitions(index, s)
        /\ MachineIsTerminal(config, index, s) <=> IsTerminal(index, s)
    BY <2>1, <2>2, <2>3, ViewsOfAccepted
  <2> QED BY <2>4 DEF config
<1> QED BY <1>1, InitSafe, NextSafe, PTL DEF Spec
================================================================================
