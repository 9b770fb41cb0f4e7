----------------------------- MODULE TransitionTable -----------------------------
(***************************************************************************)
(* A transition table on the heap: who shares which Go map and slice.      *)
(*                                                                         *)
(* The caller's map, the configuration of the table and a map that AsMap   *)
(* returned each live in a region.  A map refers to its target slices by   *)
(* the region that they were allocated in, so two maps may share slices.   *)
(* Lookups read the index and listings the configuration: the two must not *)
(* drift apart, whoever keeps a reference to a map and writes to it.       *)
(***************************************************************************)
EXTENDS Naturals, Transitions

CONSTANTS
  Inputs,     (* the maps that callers pass in or that JSON decodes to      *)
  MaxWrites   (* bound: how often callers write to their maps               *)

ASSUME InputsAssumption == \A config \in Inputs : IsConfig(config)
ASSUME MaxWritesAssumption == MaxWrites \in Nat

Regions == {"caller", "table", "copy"}

VARIABLES
  maps,     (* each map: for its source states, the regions of the slices   *)
  slices,   (* the targets in each region's slices                          *)
  index,    (* the index of the table; it is empty until the table is built *)
  step,     (* where UnmarshalJSON is: "idle", or with the config stored    *)
  pending,  (* the index that UnmarshalJSON has built and not yet stored    *)
  writes    (* how often callers have written                               *)

vars == <<maps, slices, index, step, pending, writes>>

NoEntries == [s \in {} |-> {}]
Built == DOMAIN index # {}

Contents(r) == [from \in DOMAIN maps[r] |-> slices[maps[r][from]][from]]

(* A map in region r, all of whose slices were allocated with it.          *)
Allocate(r, config) ==
  /\ maps' = [maps EXCEPT ![r] = [from \in DOMAIN config |-> r]]
  /\ slices' = [slices EXCEPT ![r] = [from \in Names |->
                  IF from \in DOMAIN config THEN config[from] ELSE {}]]

Init ==
  /\ \E config \in Inputs :
       /\ maps = [r \in Regions |-> [from \in
                    IF r = "caller" THEN DOMAIN config ELSE {} |-> r]]
       /\ slices = [r \in Regions |-> [from \in Names |->
                      IF r = "caller" /\ from \in DOMAIN config
                        THEN config[from] ELSE {}]]
  /\ index = NoEntries
  /\ step = "idle"
  /\ pending = NoEntries
  /\ writes = 0

(* Seeded faults: New does not look at the error of buildIndex; it clones  *)
(* the caller's map and not its slices.                                    *)
NewUnvalidated ==
  /\ ~Built
  /\ step = "idle"
  /\ Contents("caller") # NoEntries
  /\ Allocate("table", Contents("caller"))
  /\ index' = BuildIndex(Contents("caller"))
  /\ UNCHANGED <<step, pending, writes>>

NewShallow ==
  /\ ~Built
  /\ step = "idle"
  /\ Accepts(Contents("caller"))
  /\ maps' = [maps EXCEPT !["table"] = maps["caller"]]
  /\ index' = BuildIndex(Contents("caller"))
  /\ UNCHANGED <<slices, step, pending, writes>>

New ==
  /\ ~Built
  /\ step = "idle"
  /\ Accepts(Contents("caller"))
  /\ Allocate("table", Contents("caller"))
  /\ index' = BuildIndex(Contents("caller"))
  /\ UNCHANGED <<step, pending, writes>>

(* Seeded fault: AsMap clones the map and not its slices.                  *)
AsMapShallow ==
  /\ Built
  /\ maps' = [maps EXCEPT !["copy"] = maps["table"]]
  /\ UNCHANGED <<slices, index, step, pending, writes>>

AsMap ==
  /\ Built
  /\ Allocate("copy", Contents("table"))
  /\ UNCHANGED <<index, step, pending, writes>>

(* Seeded fault: the configuration is stored before it is validated.       *)
UnmarshalConfigFirst(config) ==
  /\ step = "idle"
  /\ config # NoEntries
  /\ Allocate("table", config)
  /\ step' = IF Accepts(config) THEN "stored" ELSE "idle"
  /\ pending' = IF Accepts(config) THEN BuildIndex(config) ELSE NoEntries
  /\ UNCHANGED <<index, writes>>

(* UnmarshalJSON, of a table that is in use or of a zero one, once it has  *)
(* decoded the data and built an index from it: two assignments.           *)
UnmarshalConfig(config) ==
  /\ step = "idle"
  /\ Accepts(config)
  /\ Allocate("table", config)
  /\ step' = "stored"
  /\ pending' = BuildIndex(config)
  /\ UNCHANGED <<index, writes>>

UnmarshalIndex ==
  /\ step = "stored"
  /\ index' = pending
  /\ step' = "idle"
  /\ pending' = NoEntries
  /\ UNCHANGED <<maps, slices, writes>>

(* The writes that the holder of a map can make: to an element of one of   *)
(* its slices, a new entry, or no entry any more.                          *)
WriteTarget(r, from) ==
  \E old \in Contents(r)[from], new \in Names, again \in BOOLEAN :
    /\ slices' = [slices EXCEPT ![maps[r][from]][from] =
                    (IF again THEN @ ELSE @ \ {old}) \cup {new}]
    /\ UNCHANGED maps

PutEntry(r, from) ==
  \E targets \in SUBSET Names :
    /\ maps' = [maps EXCEPT ![r] = [s \in DOMAIN @ \cup {from} |->
                                      IF s = from THEN r ELSE @[s]]]
    /\ slices' = [slices EXCEPT ![r][from] = targets]

DeleteEntry(r, from) ==
  /\ maps' = [maps EXCEPT ![r] = [s \in DOMAIN @ \ {from} |-> @[s]]]
  /\ UNCHANGED slices

CallerWrites(r, from) ==
  /\ writes < MaxWrites
  /\ \/ from \in DOMAIN maps[r] /\ (WriteTarget(r, from) \/ DeleteEntry(r, from))
     \/ PutEntry(r, from)
  /\ writes' = writes + 1
  /\ UNCHANGED <<index, step, pending>>

Next ==
  \/ New \/ AsMap \/ UnmarshalIndex
  \/ \E config \in Inputs : UnmarshalConfig(config)
  \/ \E r \in {"caller", "copy"}, from \in Names : CallerWrites(r, from)

Spec == Init /\ [][Next]_vars
--------------------------------------------------------------------------------
(* The types of the variables; every state the index leads to is in it.    *)
TypeOK ==
  /\ maps \in [Regions -> UNION {[D -> Regions] : D \in SUBSET Names}]
  /\ slices \in [Regions -> [Names -> SUBSET Names]]
  /\ {index, pending} \subseteq
       UNION {[D -> SUBSET D] : D \in SUBSET (Names \ InvalidNames)}
  /\ step \in {"idle", "stored"}
  /\ writes \in 0..MaxWrites

(* Whatever callers do to the map they passed to New, or to one that AsMap *)
(* returned, the table's configuration is the valid one its index was      *)
(* built from; also after UnmarshalJSON, and after one that failed.        *)
TableAgrees ==
  Built /\ step = "idle" =>
    /\ Accepts(Contents("table"))
    /\ index = BuildIndex(Contents("table"))

(* So what the Machine works out from the listing of all states and        *)
(* single lookups is what the table itself answers from its index.         *)
ViewsAgree ==
  Built /\ step = "idle" =>
    \A s \in DOMAIN index :
      /\ AvailableTransitions(Contents("table"), index, s) = GetAllowedTransitions(index, s)
      /\ MachineIsTerminal(Contents("table"), index, s) <=> IsTerminal(index, s)
================================================================================
