-------------------------------- MODULE RWMutex --------------------------------
(***************************************************************************)
(* Go's sync.RWMutex, as Machine.mutex uses it.                            *)
(*                                                                         *)
(* Lock first wins the writers' inner mutex and announces itself, then     *)
(* waits until the readers that were inside have left.  A reader that      *)
(* arrives after the announcement is parked, and Unlock lets all parked    *)
(* readers in before the next writer can announce itself.  So a blocked    *)
(* reader inside the lock stops every writer, and one waiting writer       *)
(* stops every new reader.                                                 *)
(***************************************************************************)
CONSTANTS
  Procs,     (* the goroutines that call the machine                        *)
  NoProc     (* "no goroutine"                                              *)

ASSUME NoProcAssumption == NoProc \notin Procs

VARIABLES
  announced, (* the writer that holds or waits for the lock, or NoProc      *)
  owner,     (* the writer inside the lock, or NoProc                       *)
  readers,   (* the readers inside the lock                                 *)
  parked     (* the readers that wait for the announced writer to leave     *)

rwvars == <<announced, owner, readers, parked>>

RWTypeOK ==
  /\ announced \in Procs \cup {NoProc}
  /\ owner \in Procs \cup {NoProc}
  /\ readers \subseteq Procs
  /\ parked \subseteq Procs

RWInit ==
  /\ announced = NoProc
  /\ owner = NoProc
  /\ readers = {}
  /\ parked = {}

AnnounceLock(p) ==
  /\ announced = NoProc
  /\ announced' = p
  /\ UNCHANGED <<owner, readers, parked>>

AcquireLock(p) ==
  /\ announced = p
  /\ owner = NoProc
  /\ readers = {}
  /\ owner' = p
  /\ UNCHANGED <<announced, readers, parked>>

ReleaseLock(p) ==
  /\ owner = p
  /\ announced' = NoProc
  /\ owner' = NoProc
  /\ readers' = readers \cup parked
  /\ parked' = {}

RequestRLock(p) ==
  /\ IF announced = NoProc
       THEN readers' = readers \cup {p} /\ UNCHANGED parked
       ELSE parked' = parked \cup {p} /\ UNCHANGED readers
  /\ UNCHANGED <<announced, owner>>

ReleaseRLock(p) ==
  /\ p \in readers
  /\ readers' = readers \ {p}
  /\ UNCHANGED <<announced, owner, parked>>

(* A writer is alone inside the lock.                                      *)
RWExclusion ==
  /\ owner # NoProc => announced = owner /\ readers = {}
  /\ announced = NoProc => parked = {}
  /\ readers \cap parked = {}
================================================================================
