-------------------------------- MODULE Machine --------------------------------
(***************************************************************************)
(* fsm.Machine: the current state, the RWMutex that serialises its         *)
(* changes, and the calls of concurrent goroutines, step by step.          *)
(*                                                                         *)
(* A goroutine's step is what it does without being observable in between: *)
(* the lock-free ctx check of SetState, the wait for the lock, the checks  *)
(* made under the lock, the pre-transition hooks, the store, the           *)
(* post-transition hooks, the deferred unlock.  Hooks are the registry's;  *)
(* here a run of them takes time and pre-transition hooks accept or        *)
(* reject.  Hooks do not call back into the machine's locking methods.     *)
(***************************************************************************)
EXTENDS Transitions, RWMutex

CONSTANTS
  Config,    (* the configuration of the machine's transition table         *)
  Calls,     (* the calls clients make, records of op, from and to          *)
  NoCall,    (* "no call under way"                                         *)
  NoName     (* "no state name"                                             *)

Ops == {"Transition", "TransitionIfCurrentState", "SetState", "MarshalJSON"}

ASSUME TableAssumption == IsConfig(Config) /\ Accepts(Config)
ASSUME CallsAssumption == Calls \subseteq [op : Ops, from : Names, to : Names]
ASSUME NoCallAssumption == NoCall \notin Calls /\ NoName \notin Names

VARIABLES
  state,     (* Machine.state, readable without the lock                    *)
  callbacks, (* whether a callback executor is configured                   *)
  call,      (* each goroutine's call under way, or NoCall                  *)
  pc,        (* where the goroutine is in that call                         *)
  current,   (* its local copy of the state (currentState, fromState)       *)
  err,       (* the error it is going to return, "nil" for none             *)
  canceled,  (* whether the call's context has ended                        *)
  observed   (* history: the last "to" that post-transition hooks were told *)

procvars == <<call, pc, current, err, canceled>>
vars == <<state, callbacks, observed, procvars, rwvars>>

Index == BuildIndex(Config)

TransitionOps == {"Transition", "TransitionIfCurrentState"}
--------------------------------------------------------------------------------
(* Seeded fault: a zero Machine is used, one that New never initialised.   *)
InitZeroValue ==
  /\ state = NoName
  /\ callbacks = FALSE
  /\ observed = state
  /\ call = [p \in Procs |-> NoCall]
  /\ pc = [p \in Procs |-> "idle"]
  /\ current = [p \in Procs |-> NoName]
  /\ err = [p \in Procs |-> "nil"]
  /\ canceled = [p \in Procs |-> FALSE]
  /\ RWInit

(* New: the initial state has to be a source of the table.                 *)
Init ==
  /\ state \in {s \in Names : HasState(Index, s)}
  /\ callbacks \in BOOLEAN
  /\ observed = state
  /\ call = [p \in Procs |-> NoCall]
  /\ pc = [p \in Procs |-> "idle"]
  /\ current = [p \in Procs |-> NoName]
  /\ err = [p \in Procs |-> "nil"]
  /\ canceled = [p \in Procs |-> FALSE]
  /\ RWInit

Goto(p, label) == pc' = [pc EXCEPT ![p] = label]

(* The goroutine's locals die with the call.                               *)
Return(p) ==
  /\ Goto(p, "idle")
  /\ call' = [call EXCEPT ![p] = NoCall]
  /\ current' = [current EXCEPT ![p] = NoName]
  /\ err' = [err EXCEPT ![p] = "nil"]
  /\ canceled' = [canceled EXCEPT ![p] = FALSE]

(* A goroutine calls the machine, with a context that may have ended.  A   *)
(* call without a context argument uses one that never ends.               *)
Invoke(p) ==
  /\ pc[p] = "idle"
  /\ \E c \in Calls, ended \in BOOLEAN :
       /\ call' = [call EXCEPT ![p] = c]
       /\ canceled' = [canceled EXCEPT ![p] = ended]
       /\ Goto(p, CASE c.op = "SetState"    -> "context"
                    [] c.op = "MarshalJSON" -> "rlock"
                    [] OTHER                -> "lock")
  /\ UNCHANGED <<state, callbacks, observed, current, err, rwvars>>

EndContext(p) ==
  /\ pc[p] # "idle"
  /\ canceled' = [canceled EXCEPT ![p] = TRUE]
  /\ UNCHANGED <<state, callbacks, observed, call, pc, current, err, rwvars>>

Fail(p, e, label) ==
  /\ err' = [err EXCEPT ![p] = e]
  /\ Goto(p, label)
  /\ UNCHANGED <<state, current>>
--------------------------------------------------------------------------------
(* Seeded fault: SetState checks the state and stores it without the lock, *)
(* as if a lock-free fast path had been added for machines without hooks.  *)
CheckContextStoringUnlocked(p) ==
  /\ pc[p] = "context"
  /\ IF canceled[p]
       THEN Fail(p, "canceled", "return")
       ELSE IF HasState(Index, call[p].to)
         THEN state' = call[p].to /\ Goto(p, "return") /\ UNCHANGED <<current, err>>
         ELSE Fail(p, "undefined", "return")
  /\ UNCHANGED <<callbacks, observed, call, canceled, rwvars>>

(* SetState checks its context before it takes the lock, and never again.  *)
CheckContext(p) ==
  /\ pc[p] = "context"
  /\ IF canceled[p]
       THEN Fail(p, "canceled", "return")
       ELSE Goto(p, "lock") /\ UNCHANGED <<state, current, err>>
  /\ UNCHANGED <<callbacks, observed, call, canceled, rwvars>>

Lock(p) ==
  /\ pc[p] = "lock"
  /\ AnnounceLock(p)
  /\ Goto(p, "announced")
  /\ UNCHANGED <<state, callbacks, observed, call, current, err, canceled>>

EnterLock(p) ==
  /\ pc[p] = "announced"
  /\ AcquireLock(p)
  /\ Goto(p, "locked")
  /\ UNCHANGED <<state, callbacks, observed, call, current, err, canceled>>

(* Seeded fault: SetState does not ask whether the state is defined.       *)
ForceAnyState(p) ==
  /\ pc[p] = "locked"
  /\ call[p].op = "SetState"
  /\ current' = [current EXCEPT ![p] = state]
  /\ state' = call[p].to
  /\ Goto(p, IF callbacks THEN "post" ELSE "unlock")
  /\ UNCHANGED <<callbacks, observed, call, err, canceled, rwvars>>

(* Seeded fault: SetState bypasses the post-transition hooks as well.      *)
ForceStateSilently(p) ==
  /\ pc[p] = "locked"
  /\ call[p].op = "SetState"
  /\ IF HasState(Index, call[p].to)
       THEN state' = call[p].to /\ Goto(p, "unlock") /\ UNCHANGED <<current, err>>
       ELSE Fail(p, "undefined", "unlock")
  /\ UNCHANGED <<callbacks, observed, call, canceled, rwvars>>

(* SetState under the lock: no transition rules and no pre-transition      *)
(* hooks, but post-transition hooks.                                       *)
ForceState(p) ==
  /\ pc[p] = "locked"
  /\ call[p].op = "SetState"
  /\ IF HasState(Index, call[p].to)
       THEN /\ current' = [current EXCEPT ![p] = state]
            /\ state' = call[p].to
            /\ Goto(p, IF callbacks THEN "post" ELSE "unlock")
            /\ UNCHANGED err
       ELSE Fail(p, "undefined", "unlock")
  /\ UNCHANGED <<callbacks, observed, call, canceled, rwvars>>

(* Seeded fault: the expected state is compared by the caller, before the  *)
(* lock, instead of under it.                                              *)
CheckTransitionFromAnyState(p) ==
  /\ pc[p] = "locked"
  /\ call[p].op \in TransitionOps
  /\ LET allowed == IsTransitionAllowed(Index, state, call[p].to)
     IN  \/ canceled[p] /\ Fail(p, "canceled", "unlock")
         \/ ~canceled[p] /\ ~allowed /\ Fail(p, "invalid", "unlock")
         \/ /\ ~canceled[p] /\ allowed
            /\ current' = [current EXCEPT ![p] = state]
            /\ Goto(p, IF callbacks THEN "pre" ELSE "store")
            /\ UNCHANGED <<state, err>>
  /\ UNCHANGED <<callbacks, observed, call, canceled, rwvars>>

(* The checks of TransitionIfCurrentState and then of transition().        *)
CheckTransition(p) ==
  /\ pc[p] = "locked"
  /\ call[p].op \in TransitionOps
  /\ LET c == call[p]
         mismatch == c.op = "TransitionIfCurrentState" /\ state # c.from
         allowed  == IsTransitionAllowed(Index, state, c.to)
     IN  \/ mismatch /\ Fail(p, "current", "unlock")
         \/ ~mismatch /\ canceled[p] /\ Fail(p, "canceled", "unlock")
         \/ ~mismatch /\ ~canceled[p] /\ ~allowed /\ Fail(p, "invalid", "unlock")
         \/ /\ ~mismatch /\ ~canceled[p] /\ allowed
            /\ current' = [current EXCEPT ![p] = state]
            /\ Goto(p, IF callbacks THEN "pre" ELSE "store")
            /\ UNCHANGED <<state, err>>
  /\ UNCHANGED <<callbacks, observed, call, canceled, rwvars>>

(* Seeded faults: the error of a guard is kept but the transition goes on; *)
(* a failed guard is retried from the checks, without giving up the lock.  *)
RunPreTransitionHooksIgnoringErrors(p) ==
  /\ pc[p] = "pre"
  /\ \/ Goto(p, "store") /\ UNCHANGED <<state, current, err>>
     \/ Fail(p, "callback", "store")
  /\ UNCHANGED <<callbacks, observed, call, canceled, rwvars>>

RunPreTransitionHooksRetrying(p) ==
  /\ pc[p] = "pre"
  /\ Goto(p, "store") \/ Goto(p, "locked")
  /\ UNCHANGED <<state, callbacks, observed, call, current, err, canceled, rwvars>>

(* A guard that fails or panics aborts the transition.                     *)
RunPreTransitionHooks(p) ==
  /\ pc[p] = "pre"
  /\ \/ Goto(p, "store") /\ UNCHANGED <<state, current, err>>
     \/ Fail(p, "callback", "unlock")
  /\ UNCHANGED <<callbacks, observed, call, canceled, rwvars>>

StoreState(p) ==
  /\ pc[p] = "store"
  /\ state' = call[p].to
  /\ Goto(p, IF callbacks THEN "post" ELSE "unlock")
  /\ UNCHANGED <<callbacks, observed, call, current, err, canceled, rwvars>>

RunPostTransitionHooks(p) ==
  /\ pc[p] = "post"
  /\ observed' = call[p].to
  /\ Goto(p, "unlock")
  /\ UNCHANGED <<state, callbacks, call, current, err, canceled, rwvars>>

Unlock(p) ==
  /\ pc[p] = "unlock"
  /\ ReleaseLock(p)
  /\ Return(p)
  /\ UNCHANGED <<state, callbacks, observed>>

(* SetState returns without having locked.                                 *)
ReturnUnlocked(p) ==
  /\ pc[p] = "return"
  /\ Return(p)
  /\ UNCHANGED <<state, callbacks, observed, rwvars>>
--------------------------------------------------------------------------------
(* MarshalJSON reads the state under the read lock and holds it while it   *)
(* collects the table and the hooks and encodes them.                      *)
RLock(p) ==
  /\ pc[p] = "rlock"
  /\ RequestRLock(p)
  /\ Goto(p, "rlocked")
  /\ UNCHANGED <<state, callbacks, observed, call, current, err, canceled>>

(* Seeded fault: MarshalJSON reads the state without waiting for the lock. *)
ReadStateUnlocked(p) ==
  /\ pc[p] = "rlocked"
  /\ current' = [current EXCEPT ![p] = state]
  /\ Goto(p, "encode")
  /\ UNCHANGED <<state, callbacks, observed, call, err, canceled, rwvars>>

ReadState(p) ==
  /\ pc[p] = "rlocked"
  /\ p \in readers
  /\ current' = [current EXCEPT ![p] = state]
  /\ Goto(p, "encode")
  /\ UNCHANGED <<state, callbacks, observed, call, err, canceled, rwvars>>

RUnlock(p) ==
  /\ pc[p] = "encode"
  /\ ReleaseRLock(p)
  /\ Return(p)
  /\ UNCHANGED <<state, callbacks, observed>>
--------------------------------------------------------------------------------
(* The steps of a call, in the order the code takes them.                  *)
Step(p) ==
  \/ CheckContext(p) \/ Lock(p) \/ EnterLock(p)
  \/ ForceState(p) \/ CheckTransition(p)
  \/ RunPreTransitionHooks(p) \/ StoreState(p) \/ RunPostTransitionHooks(p)
  \/ Unlock(p) \/ ReturnUnlocked(p)
  \/ RLock(p) \/ ReadState(p) \/ RUnlock(p)

Next == \E p \in Procs : Invoke(p) \/ EndContext(p) \/ Step(p)

Spec == Init /\ [][Next]_vars

(***************************************************************************)
(* The scheduler runs every goroutine that can run and hooks return.  The  *)
(* inner mutex of a Go RWMutex hands over to the longest waiter once it    *)
(* has waited a millisecond, so a goroutine that keeps finding it free     *)
(* gets it.  Clients owe no call and no cancellation.                      *)
(***************************************************************************)
Fairness ==
  \A p \in Procs : WF_vars(Step(p)) /\ SF_vars(Lock(p))

FairSpec == Spec /\ Fairness
--------------------------------------------------------------------------------
(* The types of the variables.                                             *)
TypeOK ==
  /\ state \in Names
  /\ callbacks \in BOOLEAN
  /\ observed \in Names
  /\ call \in [Procs -> Calls \cup {NoCall}]
  /\ pc \in [Procs -> {"idle", "context", "lock", "announced", "locked", "pre",
                       "store", "post", "unlock", "return",
                       "rlock", "rlocked", "encode"}]
  /\ current \in [Procs -> Names \cup {NoName}]
  /\ err \in [Procs -> {"nil", "current", "invalid", "undefined", "canceled",
                        "callback"}]
  /\ canceled \in [Procs -> BOOLEAN]
  /\ RWTypeOK

(* The machine is always in a source state of its table, whatever mix of   *)
(* transitions and SetState calls came before: lookups keyed on the state  *)
(* never miss, and MarshalJSON never writes a state NewFromJSON rejects.   *)
StateDefined == HasState(Index, state)

(* Hooks run while the machine is where their arguments say: from the      *)
(* moment pre-transition hooks are entered until they are left GetState    *)
(* still returns their "from" (and the transition stays allowed until it   *)
(* is stored), and during post-transition hooks it returns their "to".     *)
HooksSeeCurrentState ==
  \A p \in Procs :
    /\ pc[p] \in {"pre", "store"} =>
         state = current[p] /\ IsTransitionAllowed(Index, state, call[p].to)
    /\ pc[p] = "post" => state = call[p].to

(* Post-transition hooks are told every state change, once and in order:   *)
(* the "from" of a run is the "to" of the run before, and when no writer   *)
(* is inside the lock they have been told the current state.               *)
PostHooksFollowEveryChange ==
  callbacks =>
    /\ \A p \in Procs : pc[p] = "post" => current[p] = observed
    /\ owner = NoProc => state = observed

(* No writer changes the state while MarshalJSON collects what belongs to  *)
(* the state it read.                                                      *)
MarshalReadsStableState ==
  \A p \in Procs : pc[p] = "encode" => state = current[p]

(* The state changes only in the hands of the goroutine inside the write   *)
(* lock, to the state its call names; unless that call is SetState, along  *)
(* an allowed transition, and for TransitionIfCurrentState from the state  *)
(* the caller expected.                                                    *)
LegalChange ==
  \E p \in Procs :
    /\ owner = p
    /\ state' = call[p].to
    /\ call[p].op # "SetState" => IsTransitionAllowed(Index, state, state')
    /\ call[p].op = "TransitionIfCurrentState" => state = call[p].from

ChangesAreLegal == [][LegalChange]_state

(* Every call returns, through contention, refusals, failing hooks and     *)
(* ended contexts, as long as hooks return.                                *)
EveryCallReturns == \A p \in Procs : pc[p] # "idle" ~> pc[p] = "idle"

(* The lock, the checks and the hooks together implement the atomic        *)
(* machine: a change takes effect at the store, a failure at its check.    *)
Decided == {"post", "unlock", "return", "encode"}

Outcome ==
  [p \in Procs |-> IF pc[p] \notin Decided THEN "none"
                   ELSE IF err[p] = "nil" THEN "ok" ELSE err[p]]
Answer ==
  [p \in Procs |-> IF pc[p] = "encode" THEN current[p] ELSE NoName]

Atomic == INSTANCE AtomicMachine WITH outcome <- Outcome, answer <- Answer

ImplementsAtomicMachine == Atomic!Spec

(* The inductive invariant: who is where in the lock, and what a goroutine *)
(* that has passed a check may rely on.                                    *)
WriterSteps == {"locked", "pre", "store", "post", "unlock"}

LockInv ==
  /\ RWExclusion
  /\ \A p \in Procs :
       /\ pc[p] \in WriterSteps <=> owner = p
       /\ pc[p] = "announced" => announced = p
       /\ pc[p] \in {"rlocked", "encode"} <=> p \in readers \cup parked
       /\ pc[p] = "encode" => p \in readers
       /\ call[p] = NoCall <=> pc[p] = "idle"

CheckedInv ==
  \A p \in Procs :
    /\ pc[p] \in {"pre", "store"} =>
         /\ call[p].op \in TransitionOps
         /\ call[p].op = "TransitionIfCurrentState" => call[p].from = state
    /\ pc[p] \in {"locked", "pre", "store", "unlock"} /\ callbacks => observed = state

(* Which steps belong to which call; an error is set only to be returned.  *)
CallInv ==
  \A p \in Procs :
    /\ pc[p] = "context" => call[p].op = "SetState"
    /\ pc[p] \in {"rlock", "rlocked", "encode"} => call[p].op = "MarshalJSON"
    /\ err[p] # "nil" => pc[p] \in {"unlock", "return"}
    /\ pc[p] = "return" => err[p] # "nil"

Inv == /\ TypeOK /\ LockInv /\ CheckedInv /\ CallInv
       /\ StateDefined /\ HooksSeeCurrentState
       /\ PostHooksFollowEveryChange /\ MarshalReadsStableState
================================================================================
