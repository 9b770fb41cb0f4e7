----------------------------- MODULE MachineProofs -----------------------------
(***************************************************************************)
(* Proofs of the safety properties of Machine, and that it implements      *)
(* AtomicMachine, for any set of goroutines, any accepted transition table *)
(* and any set of calls.                                                   *)
(*                                                                         *)
(* Inv is inductive.  LockInv says who is where in the RWMutex; with it a  *)
(* writer inside the lock knows that no other goroutine is at a step that  *)
(* changes the state, or has read it and not yet left, and CheckedInv      *)
(* keeps what it checked before.                                           *)
(***************************************************************************)
EXTENDS Machine, TLAPS

(* Every lookup answer about an accepted table is closed: a target of a    *)
(* transition is itself a source.                                          *)
LEMMA TargetsDefined ==
  ASSUME NEW from, NEW to, IsTransitionAllowed(Index, from, to)
  PROVE  HasState(Index, from) /\ HasState(Index, to) /\ to \in Names
<1>1. /\ from \in DOMAIN Index
      /\ to \in Index[from]
  BY DEF IsTransitionAllowed
<1>2. to \in UNION {BuildIndex(Config)[s] : s \in DOMAIN BuildIndex(Config)}
  BY <1>1 DEF Index
<1>3. to \in DOMAIN Config
  <2>1. UndefinedDestinations(Config) = {}
    BY TableAssumption DEF Accepts
  <2> QED
    BY <1>2, <2>1 DEF UndefinedDestinations
<1>4. ValidStateName(to)
  BY <1>1 DEF Index, BuildIndex
<1>5. to \in DOMAIN Index
  BY <1>3, <1>4 DEF Index, BuildIndex
<1>6. to \in Names
  BY <1>3, TableAssumption DEF IsConfig
<1> QED
  BY <1>1, <1>5, <1>6 DEF HasState

(* States the table knows are names.                                       *)
LEMMA StatesAreNames ==
  ASSUME NEW s, HasState(Index, s)
  PROVE  s \in Names
  BY TableAssumption DEF HasState, Index, BuildIndex, IsConfig

(* What the conjuncts of Inv say, unfolded for the provers.                *)
LEMMA InitInv == Init => Inv
<1> SUFFICES ASSUME Init PROVE Inv
  OBVIOUS
<1>1. TypeOK
  BY DEF Init, TypeOK, RWInit, RWTypeOK
<1>2. LockInv
  BY NoProcAssumption DEF Init, RWInit, LockInv, RWExclusion, WriterSteps
<1>3. CheckedInv /\ CallInv
  BY DEF Init, CheckedInv, CallInv
<1>4. /\ StateDefined /\ HooksSeeCurrentState
      /\ PostHooksFollowEveryChange /\ MarshalReadsStableState
  BY DEF Init, StateDefined, HooksSeeCurrentState,
         PostHooksFollowEveryChange, MarshalReadsStableState
<1> QED
  BY <1>1, <1>2, <1>3, <1>4 DEF Inv
--------------------------------------------------------------------------------
(* The types are preserved.  The state a goroutine stores is a name since  *)
(* the table knew it when the goroutine checked, and a writer's checks     *)
(* still hold when it stores.                                              *)
LEMMA NextTypeOK ==
  ASSUME Inv, [Next]_vars
  PROVE  TypeOK'
<1> USE DEF Inv, TypeOK, RWTypeOK
<1>1. ASSUME NEW p \in Procs, Invoke(p) PROVE TypeOK'
  <2>1. PICK c \in Calls, ended \in BOOLEAN :
          /\ call' = [call EXCEPT ![p] = c]
          /\ canceled' = [canceled EXCEPT ![p] = ended]
          /\ \E label \in {"context", "rlock", "lock"} :
               pc' = [pc EXCEPT ![p] = label]
    BY <1>1 DEF Invoke, Goto
  <2> QED
    BY <1>1, <2>1 DEF Invoke, rwvars
<1>2. ASSUME NEW p \in Procs, EndContext(p) PROVE TypeOK'
  BY <1>2 DEF EndContext, rwvars
<1>3. ASSUME NEW p \in Procs, CheckContext(p) PROVE TypeOK'
  BY <1>3 DEF CheckContext, Fail, Goto, rwvars
<1>4. ASSUME NEW p \in Procs, Lock(p) PROVE TypeOK'
  BY <1>4 DEF Lock, AnnounceLock, Goto
<1>5. ASSUME NEW p \in Procs, EnterLock(p) PROVE TypeOK'
  BY <1>5 DEF EnterLock, AcquireLock, Goto
<1>6. ASSUME NEW p \in Procs, ForceState(p) PROVE TypeOK'
  <2>1. HasState(Index, call[p].to) => call[p].to \in Names
    BY StatesAreNames
  <2> QED
    BY <1>6, <2>1 DEF ForceState, Fail, Goto, rwvars
<1>7. ASSUME NEW p \in Procs, CheckTransition(p) PROVE TypeOK'
  BY <1>7 DEF CheckTransition, Fail, Goto, rwvars
<1>8. ASSUME NEW p \in Procs, RunPreTransitionHooks(p) PROVE TypeOK'
  BY <1>8 DEF RunPreTransitionHooks, Fail, Goto, rwvars
<1>9. ASSUME NEW p \in Procs, StoreState(p) PROVE TypeOK'
  <2>1. IsTransitionAllowed(Index, state, call[p].to)
    BY <1>9 DEF StoreState, HooksSeeCurrentState
  <2>2. call[p].to \in Names
    BY <2>1, TargetsDefined
  <2> QED
    BY <1>9, <2>2 DEF StoreState, Goto, rwvars
<1>10. ASSUME NEW p \in Procs, RunPostTransitionHooks(p) PROVE TypeOK'
  <2>1. call[p].to \in Names
    BY <1>10 DEF RunPostTransitionHooks, HooksSeeCurrentState
  <2> QED
    BY <1>10, <2>1 DEF RunPostTransitionHooks, Goto, rwvars
<1>11. ASSUME NEW p \in Procs, Unlock(p) PROVE TypeOK'
  BY <1>11 DEF Unlock, ReleaseLock, Return, Goto
<1>12. ASSUME NEW p \in Procs, ReturnUnlocked(p) PROVE TypeOK'
  BY <1>12 DEF ReturnUnlocked, Return, Goto, rwvars
<1>13. ASSUME NEW p \in Procs, RLock(p) PROVE TypeOK'
  BY <1>13 DEF RLock, RequestRLock, Goto
<1>14. ASSUME NEW p \in Procs, ReadState(p) PROVE TypeOK'
  BY <1>14 DEF ReadState, Goto, rwvars
<1>15. ASSUME NEW p \in Procs, RUnlock(p) PROVE TypeOK'
  BY <1>15 DEF RUnlock, ReleaseRLock, Return, Goto
<1>16. ASSUME UNCHANGED vars PROVE TypeOK'
  BY <1>16 DEF vars, procvars, rwvars
<1> QED
  BY <1>1, <1>2, <1>3, <1>4, <1>5, <1>6, <1>7, <1>8, <1>9, <1>10, <1>11,
     <1>12, <1>13, <1>14, <1>15, <1>16 DEF Next, Step

(* The lock's bookkeeping is preserved: the goroutine inside the write     *)
(* lock is the only one at a writer's steps, readers are at a reader's.    *)
LEMMA NextLockInv ==
  ASSUME TypeOK, LockInv, [Next]_vars
  PROVE  LockInv'
<1> USE NoProcAssumption, NoCallAssumption
    DEF LockInv, RWExclusion, TypeOK, RWTypeOK, WriterSteps
<1>1. ASSUME NEW p \in Procs, Invoke(p) PROVE LockInv'
  <2>1. PICK c \in Calls :
          /\ call' = [call EXCEPT ![p] = c]
          /\ \E label \in {"context", "rlock", "lock"} :
               pc' = [pc EXCEPT ![p] = label]
    BY <1>1 DEF Invoke, Goto
  <2> QED
    BY <1>1, <2>1 DEF Invoke, rwvars
<1>2. ASSUME NEW p \in Procs, EndContext(p) PROVE LockInv'
  BY <1>2 DEF EndContext, rwvars
<1>3. ASSUME NEW p \in Procs, CheckContext(p) PROVE LockInv'
  BY <1>3 DEF CheckContext, Fail, Goto, rwvars
<1>4. ASSUME NEW p \in Procs, Lock(p) PROVE LockInv'
  BY <1>4 DEF Lock, AnnounceLock, Goto
<1>5. ASSUME NEW p \in Procs, EnterLock(p) PROVE LockInv'
  BY <1>5 DEF EnterLock, AcquireLock, Goto
<1>6. ASSUME NEW p \in Procs, ForceState(p) PROVE LockInv'
  BY <1>6 DEF ForceState, Fail, Goto, rwvars
<1>7. ASSUME NEW p \in Procs, CheckTransition(p) PROVE LockInv'
  BY <1>7 DEF CheckTransition, Fail, Goto, rwvars
<1>8. ASSUME NEW p \in Procs, RunPreTransitionHooks(p) PROVE LockInv'
  BY <1>8 DEF RunPreTransitionHooks, Fail, Goto, rwvars
<1>9. ASSUME NEW p \in Procs, StoreState(p) PROVE LockInv'
  BY <1>9 DEF StoreState, Goto, rwvars
<1>10. ASSUME NEW p \in Procs, RunPostTransitionHooks(p) PROVE LockInv'
  BY <1>10 DEF RunPostTransitionHooks, Goto, rwvars
<1>11. ASSUME NEW p \in Procs, Unlock(p) PROVE LockInv'
  BY <1>11 DEF Unlock, ReleaseLock, Return, Goto
<1>12. ASSUME NEW p \in Procs, ReturnUnlocked(p) PROVE LockInv'
  BY <1>12 DEF ReturnUnlocked, Return, Goto, rwvars
<1>13. ASSUME NEW p \in Procs, RLock(p) PROVE LockInv'
  BY <1>13 DEF RLock, RequestRLock, Goto
<1>14. ASSUME NEW p \in Procs, ReadState(p) PROVE LockInv'
  BY <1>14 DEF ReadState, Goto, rwvars
<1>15. ASSUME NEW p \in Procs, RUnlock(p) PROVE LockInv'
  BY <1>15 DEF RUnlock, ReleaseRLock, Return, Goto
<1>16. ASSUME UNCHANGED vars PROVE LockInv'
  BY <1>16 DEF vars, procvars, rwvars
<1> QED
  BY <1>1, <1>2, <1>3, <1>4, <1>5, <1>6, <1>7, <1>8, <1>9, <1>10, <1>11,
     <1>12, <1>13, <1>14, <1>15, <1>16 DEF Next, Step

(* The goroutine inside the write lock is alone with the state: nobody     *)
(* else is at a step of a writer or has read the state and not left.       *)
LEMMA WriterIsAlone ==
  ASSUME LockInv, NEW p \in Procs, pc[p] \in WriterSteps
  PROVE  \A q \in Procs : /\ pc[q] \in WriterSteps => q = p
                          /\ pc[q] # "encode"
         /\ owner # NoProc
  BY NoProcAssumption DEF LockInv, RWExclusion

(* The parts of Inv that relate the state to the goroutines' locals.       *)
StateInv ==
  /\ CheckedInv /\ StateDefined /\ HooksSeeCurrentState
  /\ PostHooksFollowEveryChange /\ MarshalReadsStableState

LEMMA NextStateInv ==
  ASSUME Inv, [Next]_vars, TypeOK', LockInv'
  PROVE  StateInv'
<1> USE NoProcAssumption
    DEF StateInv, CheckedInv, StateDefined, HooksSeeCurrentState,
        PostHooksFollowEveryChange, MarshalReadsStableState, Inv, TypeOK,
        WriterSteps
<1>1. ASSUME NEW p \in Procs, Invoke(p) PROVE StateInv'
  <2>1. PICK c \in Calls :
          /\ call' = [call EXCEPT ![p] = c]
          /\ \E label \in {"context", "rlock", "lock"} :
               pc' = [pc EXCEPT ![p] = label]
    BY <1>1 DEF Invoke, Goto
  <2> QED
    BY <1>1, <2>1 DEF Invoke, rwvars
<1>2. ASSUME NEW p \in Procs, EndContext(p) PROVE StateInv'
  BY <1>2 DEF EndContext, rwvars
<1>3. ASSUME NEW p \in Procs, CheckContext(p) PROVE StateInv'
  BY <1>3 DEF CheckContext, Fail, Goto, rwvars
<1>4. ASSUME NEW p \in Procs, Lock(p) PROVE StateInv'
  BY <1>4 DEF Lock, AnnounceLock, Goto
<1>5. ASSUME NEW p \in Procs, EnterLock(p) PROVE StateInv'
  BY <1>5 DEF EnterLock, AcquireLock, Goto
<1>6. ASSUME NEW p \in Procs, ForceState(p) PROVE StateInv'
  <2>1. \A q \in Procs : /\ pc[q] \in WriterSteps => q = p
                         /\ pc[q] # "encode"
    BY <1>6, WriterIsAlone DEF ForceState
  <2>2. owner = p /\ UNCHANGED owner
    BY <1>6 DEF ForceState, LockInv, rwvars
  <2>3. CASE HasState(Index, call[p].to)
    BY <1>6, <2>1, <2>2, <2>3 DEF ForceState, Goto
  <2>4. CASE ~HasState(Index, call[p].to)
    BY <1>6, <2>1, <2>2, <2>4 DEF ForceState, Fail, Goto
  <2> QED
    BY <2>3, <2>4
<1>7. ASSUME NEW p \in Procs, CheckTransition(p) PROVE StateInv'
  BY <1>7 DEF CheckTransition, Fail, Goto, rwvars
<1>8. ASSUME NEW p \in Procs, RunPreTransitionHooks(p) PROVE StateInv'
  BY <1>8 DEF RunPreTransitionHooks, Fail, Goto, rwvars
<1>9. ASSUME NEW p \in Procs, StoreState(p) PROVE StateInv'
  <2>1. \A q \in Procs : /\ pc[q] \in WriterSteps => q = p
                         /\ pc[q] # "encode"
    BY <1>9, WriterIsAlone DEF StoreState
  <2>2. owner = p /\ UNCHANGED owner
    BY <1>9 DEF StoreState, LockInv, rwvars
  <2>3. HasState(Index, call[p].to)
    BY <1>9, TargetsDefined DEF StoreState
  <2> QED
    BY <1>9, <2>1, <2>2, <2>3 DEF StoreState, Goto
<1>10. ASSUME NEW p \in Procs, RunPostTransitionHooks(p) PROVE StateInv'
  <2>1. \A q \in Procs : pc[q] \in WriterSteps => q = p
    BY <1>10, WriterIsAlone DEF RunPostTransitionHooks
  <2>2. owner = p /\ UNCHANGED owner
    BY <1>10 DEF RunPostTransitionHooks, LockInv, rwvars
  <2> QED
    BY <1>10, <2>1, <2>2 DEF RunPostTransitionHooks, Goto
<1>11. ASSUME NEW p \in Procs, Unlock(p) PROVE StateInv'
  BY <1>11 DEF Unlock, ReleaseLock, Return, Goto
<1>12. ASSUME NEW p \in Procs, ReturnUnlocked(p) PROVE StateInv'
  BY <1>12 DEF ReturnUnlocked, Return, Goto, rwvars
<1>13. ASSUME NEW p \in Procs, RLock(p) PROVE StateInv'
  BY <1>13 DEF RLock, RequestRLock, Goto
<1>14. ASSUME NEW p \in Procs, ReadState(p) PROVE StateInv'
  BY <1>14 DEF ReadState, Goto, rwvars
<1>15. ASSUME NEW p \in Procs, RUnlock(p) PROVE StateInv'
  BY <1>15 DEF RUnlock, ReleaseRLock, Return, Goto
<1>16. ASSUME UNCHANGED vars PROVE StateInv'
  BY <1>16 DEF vars, procvars, rwvars
<1> QED
  BY <1>1, <1>2, <1>3, <1>4, <1>5, <1>6, <1>7, <1>8, <1>9, <1>10, <1>11,
     <1>12, <1>13, <1>14, <1>15, <1>16 DEF Next, Step
(* The steps stay those of the call under way.                             *)
LEMMA NextCallInv ==
  ASSUME TypeOK, CallInv, [Next]_vars
  PROVE  CallInv'
<1> USE DEF TypeOK, CallInv
<1>1. ASSUME NEW p \in Procs, Invoke(p) PROVE CallInv'
  <2>1. PICK c \in Calls :
          /\ call' = [call EXCEPT ![p] = c]
          /\ \E label \in {"context", "rlock", "lock"} :
               /\ pc' = [pc EXCEPT ![p] = label]
               /\ label = "context" => c.op = "SetState"
               /\ label = "rlock" => c.op = "MarshalJSON"
    BY <1>1 DEF Invoke, Goto
  <2> QED
    BY <1>1, <2>1 DEF Invoke
<1>2. ASSUME NEW p \in Procs, EndContext(p) PROVE CallInv'
  BY <1>2 DEF EndContext
<1>3. ASSUME NEW p \in Procs, CheckContext(p) PROVE CallInv'
  BY <1>3 DEF CheckContext, Fail, Goto
<1>4. ASSUME NEW p \in Procs, Lock(p) PROVE CallInv'
  BY <1>4 DEF Lock, Goto
<1>5. ASSUME NEW p \in Procs, EnterLock(p) PROVE CallInv'
  BY <1>5 DEF EnterLock, Goto
<1>6. ASSUME NEW p \in Procs, ForceState(p) PROVE CallInv'
  BY <1>6 DEF ForceState, Fail, Goto
<1>7. ASSUME NEW p \in Procs, CheckTransition(p) PROVE CallInv'
  BY <1>7 DEF CheckTransition, Fail, Goto
<1>8. ASSUME NEW p \in Procs, RunPreTransitionHooks(p) PROVE CallInv'
  BY <1>8 DEF RunPreTransitionHooks, Fail, Goto
<1>9. ASSUME NEW p \in Procs, StoreState(p) PROVE CallInv'
  BY <1>9 DEF StoreState, Goto
<1>10. ASSUME NEW p \in Procs, RunPostTransitionHooks(p) PROVE CallInv'
  BY <1>10 DEF RunPostTransitionHooks, Goto
<1>11. ASSUME NEW p \in Procs, Unlock(p) PROVE CallInv'
  BY <1>11 DEF Unlock, Return, Goto
<1>12. ASSUME NEW p \in Procs, ReturnUnlocked(p) PROVE CallInv'
  BY <1>12 DEF ReturnUnlocked, Return, Goto
<1>13. ASSUME NEW p \in Procs, RLock(p) PROVE CallInv'
  BY <1>13 DEF RLock, Goto
<1>14. ASSUME NEW p \in Procs, ReadState(p) PROVE CallInv'
  BY <1>14 DEF ReadState, Goto
<1>15. ASSUME NEW p \in Procs, RUnlock(p) PROVE CallInv'
  BY <1>15 DEF RUnlock, Return, Goto
<1>16. ASSUME UNCHANGED vars PROVE CallInv'
  BY <1>16 DEF vars, procvars
<1> QED
  BY <1>1, <1>2, <1>3, <1>4, <1>5, <1>6, <1>7, <1>8, <1>9, <1>10, <1>11,
     <1>12, <1>13, <1>14, <1>15, <1>16 DEF Next, Step
--------------------------------------------------------------------------------
(* Inv holds in every reachable state.                                     *)
THEOREM Invariance == Spec => []Inv
<1>1. Inv /\ [Next]_vars => Inv'
  <2> SUFFICES ASSUME Inv, [Next]_vars PROVE Inv'
    OBVIOUS
  <2>1. TypeOK'
    BY NextTypeOK
  <2>2. LockInv'
    BY NextLockInv DEF Inv
  <2>3. StateInv'
    BY <2>1, <2>2, NextStateInv
  <2>4. CallInv'
    BY NextCallInv DEF Inv
  <2> QED
    BY <2>1, <2>2, <2>3, <2>4 DEF Inv, StateInv
<1> QED
  BY InitInv, <1>1, PTL DEF Spec

(* Type correctness.                                                       *)
THEOREM TypeCorrectness == Spec => []TypeOK
<1>1. Inv => TypeOK
  BY DEF Inv
<1> QED
  BY Invariance, <1>1, PTL

(* The machine never leaves the states of its table, although SetState     *)
(* bypasses the transition rules.                                          *)
THEOREM StateStaysDefined == Spec => []StateDefined
<1>1. Inv => StateDefined
  BY DEF Inv
<1> QED
  BY Invariance, <1>1, PTL

(* Hooks run in the state their arguments name.                            *)
THEOREM HooksAreTimely == Spec => []HooksSeeCurrentState
<1>1. Inv => HooksSeeCurrentState
  BY DEF Inv
<1> QED
  BY Invariance, <1>1, PTL

(* Post-transition hooks miss no change and see each in order.             *)
THEOREM PostHooksAreComplete == Spec => []PostHooksFollowEveryChange
<1>1. Inv => PostHooksFollowEveryChange
  BY DEF Inv
<1> QED
  BY Invariance, <1>1, PTL

(* What MarshalJSON collects belongs to one state.                         *)
THEOREM SnapshotsAreStable == Spec => []MarshalReadsStableState
<1>1. Inv => MarshalReadsStableState
  BY DEF Inv
<1> QED
  BY Invariance, <1>1, PTL

(* Only the goroutine inside the write lock changes the state, and only in *)
(* the way its call allows.                                                *)
THEOREM OnlyLegalChanges == Spec => ChangesAreLegal
<1>1. Inv /\ [Next]_vars => [LegalChange]_state
  <2> SUFFICES ASSUME Inv, Next, state' # state PROVE LegalChange
    BY DEF vars
  <2>1. PICK p \in Procs : Invoke(p) \/ EndContext(p) \/ Step(p)
    BY DEF Next
  <2>2. ForceState(p) \/ StoreState(p)
    BY <2>1 DEF Step, Invoke, EndContext, CheckContext, Lock, EnterLock,
       CheckTransition, RunPreTransitionHooks, RunPostTransitionHooks, Unlock,
       ReturnUnlocked, RLock, ReadState, RUnlock, Fail
  <2>3. owner = p
    BY <2>2 DEF ForceState, StoreState, Inv, LockInv, WriterSteps
  <2>4. CASE ForceState(p)
    BY <2>3, <2>4 DEF ForceState, Fail, LegalChange
  <2>5. CASE StoreState(p)
    BY <2>3, <2>5 DEF StoreState, LegalChange, Inv, HooksSeeCurrentState, CheckedInv
  <2> QED
    BY <2>2, <2>4, <2>5
<1> QED
  BY Invariance, <1>1, PTL DEF Spec, ChangesAreLegal
--------------------------------------------------------------------------------
(***************************************************************************)
(* Machine implements AtomicMachine, for any goroutines, table and calls.  *)
(*                                                                         *)
(* A call takes effect where it is decided: a change at the store, a       *)
(* failure at the check or the guard that fails, MarshalJSON at its read.  *)
(* Every other step is a stutter of the atomic machine.  Inv supplies what *)
(* was true at an earlier check and still is.                              *)
(***************************************************************************)
LEMMA AtomicIndex == Atomic!Index = Index
  BY DEF Atomic!Index, Index, Atomic!BuildIndex, BuildIndex,
         Atomic!ValidStateName, ValidStateName

LEMMA AtomicLookups ==
  /\ \A s : Atomic!HasState(Atomic!Index, s) <=> HasState(Index, s)
  /\ \A s, t : Atomic!IsTransitionAllowed(Atomic!Index, s, t)
                <=> IsTransitionAllowed(Index, s, t)
  BY AtomicIndex DEF Atomic!HasState, HasState,
     Atomic!IsTransitionAllowed, IsTransitionAllowed

(* The initial states are initial states of the atomic machine.            *)
LEMMA InitRefinement == Init => Atomic!Init
<1> SUFFICES ASSUME Init PROVE Atomic!Init
  OBVIOUS
<1>1. state \in DOMAIN Atomic!Index
  BY AtomicIndex DEF Init, HasState
<1>2. Outcome = [p \in Procs |-> "none"]
  BY DEF Init, Outcome, Decided
<1>3. Answer = [p \in Procs |-> NoName]
  BY DEF Init, Answer
<1> QED
  BY <1>1, <1>2, <1>3 DEF Init, Atomic!Init

(* Every step is a step of the atomic machine or a stutter.                *)
LEMMA StepRefinement ==
  ASSUME Inv, [Next]_vars
  PROVE  [Atomic!Next]_(Atomic!vars)
<1> USE DEF Inv, TypeOK, CallInv, Decided
<1>1. ASSUME NEW p \in Procs, Invoke(p) PROVE Atomic!Invoke(p)
  <2>1. PICK c \in Calls, ended \in BOOLEAN :
          /\ call' = [call EXCEPT ![p] = c]
          /\ canceled' = [canceled EXCEPT ![p] = ended]
          /\ \E label \in {"context", "rlock", "lock"} :
               pc' = [pc EXCEPT ![p] = label]
    BY <1>1 DEF Invoke, Goto
  <2>2. UNCHANGED <<Outcome, Answer>>
    BY <1>1, <2>1 DEF Invoke, Outcome, Answer
  <2>3. call[p] = NoCall
    BY <1>1 DEF Invoke, LockInv
  <2> QED
    BY <1>1, <2>1, <2>2, <2>3 DEF Invoke, Atomic!Invoke
<1>2. ASSUME NEW p \in Procs, EndContext(p) PROVE Atomic!EndContext(p)
  BY <1>2 DEF EndContext, Atomic!EndContext, Outcome, Answer, LockInv
<1>3. ASSUME NEW p \in Procs, CheckContext(p)
      PROVE  Atomic!Fail(p) \/ UNCHANGED Atomic!vars
  <2>1. CASE canceled[p]
    <3>1. /\ pc' = [pc EXCEPT ![p] = "return"]
          /\ err' = [err EXCEPT ![p] = "canceled"]
          /\ UNCHANGED <<current, call, canceled, state>>
          /\ pc[p] = "context"
      BY <1>3, <2>1 DEF CheckContext, Fail, Goto
    <3>2. Outcome' = [Outcome EXCEPT ![p] = "canceled"]
      BY <3>1 DEF Outcome
    <3>3. UNCHANGED Answer
      BY <3>1 DEF Answer
    <3>4. Atomic!Pending(p) /\ "canceled" \in Atomic!TrueErrors(p)
      BY <1>3, <2>1 DEF CheckContext, Atomic!Pending, Atomic!TrueErrors, Outcome, LockInv
    <3> QED
      BY <3>1, <3>2, <3>3, <3>4 DEF Atomic!Fail
  <2>2. CASE ~canceled[p]
    BY <1>3, <2>2 DEF CheckContext, Goto, Outcome, Answer, Atomic!vars
  <2> QED
    BY <2>1, <2>2
<1>4. ASSUME NEW p \in Procs, Lock(p) PROVE UNCHANGED Atomic!vars
  BY <1>4 DEF Lock, Goto, Outcome, Answer, Atomic!vars
<1>5. ASSUME NEW p \in Procs, EnterLock(p) PROVE UNCHANGED Atomic!vars
  BY <1>5 DEF EnterLock, Goto, Outcome, Answer, Atomic!vars
<1>6. ASSUME NEW p \in Procs, ForceState(p) PROVE Atomic!Move(p) \/ Atomic!Fail(p)
  <2>1. Atomic!Pending(p)
    BY <1>6 DEF ForceState, Atomic!Pending, Outcome, LockInv
  <2>2. CASE HasState(Index, call[p].to)
    <3>1. /\ \E label \in {"post", "unlock"} : pc' = [pc EXCEPT ![p] = label]
          /\ current' = [current EXCEPT ![p] = state]
          /\ state' = call[p].to
          /\ UNCHANGED <<err, call, canceled>>
          /\ pc[p] = "locked"
          /\ call[p].op = "SetState"
      BY <1>6, <2>2 DEF ForceState, Goto
    <3>2. err[p] = "nil"
      BY <3>1
    <3>3. Outcome' = [Outcome EXCEPT ![p] = "ok"]
      BY <3>1, <3>2 DEF Outcome
    <3>4. UNCHANGED Answer
      BY <3>1 DEF Answer
    <3> QED
      BY <2>1, <2>2, <3>1, <3>3, <3>4, AtomicLookups DEF Atomic!Move
  <2>3. CASE ~HasState(Index, call[p].to)
    <3>1. /\ pc' = [pc EXCEPT ![p] = "unlock"]
          /\ err' = [err EXCEPT ![p] = "undefined"]
          /\ UNCHANGED <<current, call, canceled, state>>
          /\ pc[p] = "locked"
      BY <1>6, <2>3 DEF ForceState, Fail, Goto
    <3>2. Outcome' = [Outcome EXCEPT ![p] = "undefined"]
      BY <3>1 DEF Outcome
    <3>3. UNCHANGED Answer
      BY <3>1 DEF Answer
    <3>4. "undefined" \in Atomic!TrueErrors(p)
      BY <1>6, <2>3, AtomicLookups DEF ForceState, Atomic!TrueErrors
    <3> QED
      BY <2>1, <3>1, <3>2, <3>3, <3>4 DEF Atomic!Fail
  <2> QED
    BY <2>2, <2>3
<1>7. ASSUME NEW p \in Procs, CheckTransition(p)
      PROVE  Atomic!Fail(p) \/ UNCHANGED Atomic!vars
  <2>1. Atomic!Pending(p)
    BY <1>7 DEF CheckTransition, Atomic!Pending, Outcome, LockInv
  <2>2. ASSUME NEW e \in {"current", "canceled", "invalid"},
               e \in Atomic!TrueErrors(p), Fail(p, e, "unlock")
        PROVE  Atomic!Fail(p)
    <3>1. Outcome' = [Outcome EXCEPT ![p] = e] /\ UNCHANGED Answer
      BY <1>7, <2>2 DEF CheckTransition, Fail, Goto, Outcome, Answer
    <3> QED
      BY <1>7, <2>1, <2>2, <3>1 DEF CheckTransition, Fail, Atomic!Fail
  <2>3. CASE call[p].op = "TransitionIfCurrentState" /\ state # call[p].from
    BY <1>7, <2>2, <2>3 DEF CheckTransition, Atomic!TrueErrors
  <2>4. CASE canceled[p] /\ Fail(p, "canceled", "unlock")
    BY <1>7, <2>2, <2>4 DEF CheckTransition, TransitionOps, Atomic!TrueErrors
  <2>5. CASE ~IsTransitionAllowed(Index, state, call[p].to) /\ Fail(p, "invalid", "unlock")
    BY <1>7, <2>2, <2>5, AtomicLookups
       DEF CheckTransition, TransitionOps, Atomic!TrueErrors
  <2>6. CASE /\ current' = [current EXCEPT ![p] = state]
             /\ Goto(p, IF callbacks THEN "pre" ELSE "store")
             /\ UNCHANGED <<state, err>>
    BY <1>7, <2>6 DEF CheckTransition, Goto, Outcome, Answer, Atomic!vars
  <2> QED
    BY <1>7, <2>3, <2>4, <2>5, <2>6 DEF CheckTransition
<1>8. ASSUME NEW p \in Procs, RunPreTransitionHooks(p)
      PROVE  Atomic!Fail(p) \/ UNCHANGED Atomic!vars
  <2>1. CASE Goto(p, "store") /\ UNCHANGED <<state, current, err>>
    BY <1>8, <2>1 DEF RunPreTransitionHooks, Goto, Outcome, Answer, Atomic!vars
  <2>2. CASE Fail(p, "callback", "unlock")
    <3>1. Outcome' = [Outcome EXCEPT ![p] = "callback"] /\ UNCHANGED Answer
      BY <1>8, <2>2 DEF RunPreTransitionHooks, Fail, Goto, Outcome, Answer
    <3>2. Atomic!Pending(p)
      BY <1>8 DEF RunPreTransitionHooks, Atomic!Pending, Outcome, LockInv
    <3>3. Atomic!CanMove(call[p])
      BY <1>8, AtomicLookups DEF RunPreTransitionHooks, Atomic!CanMove, CheckedInv,
         HooksSeeCurrentState, TransitionOps
    <3>4. "callback" \in Atomic!TrueErrors(p)
      BY <3>3 DEF Atomic!TrueErrors
    <3> QED
      BY <1>8, <2>2, <3>1, <3>2, <3>4 DEF RunPreTransitionHooks, Fail, Atomic!Fail
  <2> QED
    BY <1>8, <2>1, <2>2 DEF RunPreTransitionHooks
<1>9. ASSUME NEW p \in Procs, StoreState(p) PROVE Atomic!Move(p)
  <2>1. Atomic!Pending(p)
    BY <1>9 DEF StoreState, Atomic!Pending, Outcome, LockInv
  <2>2. Atomic!CanMove(call[p])
    BY <1>9, AtomicLookups DEF StoreState, Atomic!CanMove, CheckedInv,
       HooksSeeCurrentState, TransitionOps
  <2>3. Outcome' = [Outcome EXCEPT ![p] = "ok"] /\ UNCHANGED Answer
    BY <1>9 DEF StoreState, Goto, Outcome, Answer
  <2> QED
    BY <1>9, <2>1, <2>2, <2>3 DEF StoreState, Atomic!Move
<1>10. ASSUME NEW p \in Procs, RunPostTransitionHooks(p) PROVE UNCHANGED Atomic!vars
  BY <1>10 DEF RunPostTransitionHooks, Goto, Outcome, Answer, Atomic!vars
<1>11. ASSUME NEW p \in Procs, Unlock(p) \/ ReturnUnlocked(p) PROVE Atomic!Return(p)
  <2>1. call[p] # NoCall /\ Outcome[p] # "none"
    BY <1>11 DEF Unlock, ReturnUnlocked, LockInv, Outcome
  <2>2. Outcome' = [Outcome EXCEPT ![p] = "none"]
    BY <1>11 DEF Unlock, ReturnUnlocked, Return, Goto, Outcome
  <2>3. Answer' = [Answer EXCEPT ![p] = NoName]
    <3>1. /\ pc' = [pc EXCEPT ![p] = "idle"]
          /\ current' = [current EXCEPT ![p] = NoName]
          /\ pc[p] # "encode"
      BY <1>11 DEF Unlock, ReturnUnlocked, Return, Goto
    <3> QED
      BY <3>1 DEF Answer
  <2> QED
    BY <1>11, <2>1, <2>2, <2>3 DEF Unlock, ReturnUnlocked, Return, Atomic!Return
<1>12. ASSUME NEW p \in Procs, RLock(p) PROVE UNCHANGED Atomic!vars
  BY <1>12 DEF RLock, Goto, Outcome, Answer, Atomic!vars
<1>13. ASSUME NEW p \in Procs, ReadState(p) PROVE Atomic!Report(p)
  <2>1. Atomic!Pending(p)
    BY <1>13 DEF ReadState, Atomic!Pending, Outcome, LockInv
  <2>2. /\ Outcome' = [Outcome EXCEPT ![p] = "ok"]
        /\ Answer' = [Answer EXCEPT ![p] = state]
    BY <1>13 DEF ReadState, Goto, Outcome, Answer
  <2> QED
    BY <1>13, <2>1, <2>2 DEF ReadState, Atomic!Report
<1>14. ASSUME NEW p \in Procs, RUnlock(p) PROVE Atomic!Return(p)
  <2>1. call[p] # NoCall /\ Outcome[p] # "none"
    BY <1>14 DEF RUnlock, LockInv, Outcome
  <2>2. Outcome' = [Outcome EXCEPT ![p] = "none"] /\ Answer' = [Answer EXCEPT ![p] = NoName]
    BY <1>14 DEF RUnlock, Return, Goto, Outcome, Answer
  <2> QED
    BY <1>14, <2>1, <2>2 DEF RUnlock, Return, Atomic!Return
<1>15. ASSUME UNCHANGED vars PROVE UNCHANGED Atomic!vars
  BY <1>15 DEF vars, procvars, Outcome, Answer, Atomic!vars
<1> QED
  BY <1>1, <1>2, <1>3, <1>4, <1>5, <1>6, <1>7, <1>8, <1>9, <1>10, <1>11,
     <1>12, <1>13, <1>14, <1>15 DEF Next, Step, Atomic!Next

(* The machine's calls are linearizable: each takes effect, or fails, at   *)
(* one moment between its invocation and its return, and reports the truth *)
(* about that moment.                                                      *)
THEOREM Refinement == Spec => ImplementsAtomicMachine
<1>1. Inv /\ [Next]_vars => [Atomic!Next]_(Atomic!vars)
  BY StepRefinement
<1> QED
  BY InitRefinement, <1>1, Invariance, PTL DEF Spec, ImplementsAtomicMachine, Atomic!Spec
================================================================================
