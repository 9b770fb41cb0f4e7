------------------------------ MODULE Subscription ------------------------------
(***************************************************************************)
(* Machine.Subscribe: the machine's lock, its broadcast manager and the    *)
(* hook that connects them, composed.                                      *)
(*                                                                         *)
(* The manager is Broadcast, with a Subscribe call for each subscription   *)
(* and broadcasts made by post-transition hooks only.  The machine's state *)
(* is represented by the number of the change that stored it; how a change *)
(* is checked, and the other hooks, are Machine's subject.  The registry   *)
(* may be shared: another machine's transitions then run this machine's    *)
(* broadcast hook without this machine's lock.                             *)
(***************************************************************************)
EXTENDS Broadcast

CONSTANTS
  Channel,        (* the channel passed to each Subscribe call              *)
  Programs,       (* what uses the machine: the Subscribe calls it makes,   *)
                  (* the goroutines that change the machine's state and how *)
                  (* often, those that transition another machine on the    *)
                  (* registry, and whether it takes the hook out again      *)
  NoProc          (* "no goroutine"                                         *)

(* The goroutines that change the machine's state: the hook broadcasts on  *)
(* theirs.                                                                 *)
Callers == Broadcasters

ASSUME ClientsAssumption ==
  /\ Channel \in [Subs -> CustomChans]
  /\ Programs \subseteq [subs : SUBSET Subs, changers : SUBSET Callers,
                          changes : 0..MaxBroadcasts, others : SUBSET Callers,
                          unhooks : BOOLEAN]
  /\ NoProc \notin Callers \cup Subs

VARIABLES
  program,    (* the one of Programs that runs                              *)
  announced, owner, readers, queued,  (* Machine.mutex                      *)
  mode,       (* the delivery mode that broadcastTimeout stands for         *)
  version,    (* the number of the change that stored the current state     *)
  cpc,        (* where each caller is in its change                         *)
  setup,      (* stateChanSetup and its error: "new", "ok" or "failed"      *)
  hook,       (* the machine's broadcast hook in the registry: "absent",    *)
              (* "registered" or, by the client, "removed"                  *)
  spc,        (* where each Subscribe call is, at the end its outcome       *)
  initial,    (* history: the state each Subscribe call sent itself         *)
  carries     (* history: the state of each broadcast, 0 for a foreign one  *)

lockvars == <<announced, owner, readers, queued>>
rigid == <<program, mode>>
machinevars == <<rigid, version, cpc, setup, hook>>
callvars == <<spc, initial, carries>>
allvars == <<vars, lockvars, machinevars, callvars>>

Mutex == INSTANCE RWMutex WITH Procs <- Callers \cup Subs, parked <- queued

(* Seeded fault: New does not store the initial state.                     *)
SubscribeInitWithoutState ==
  /\ Init
  /\ program \in Programs
  /\ Mutex!RWInit
  /\ mode \in Modes
  /\ version = 0
  /\ cpc = [p \in Callers |-> "idle"]
  /\ setup = "new"
  /\ hook = "absent"
  /\ spc = [s \in Subs |-> "idle"]
  /\ initial = [s \in Subs |-> 0]
  /\ carries = <<>>

SubscribeInit ==
  /\ Init
  /\ program \in Programs
  /\ Mutex!RWInit
  /\ mode \in Modes
  /\ version = 1
  /\ cpc = [p \in Callers |-> "idle"]
  /\ setup = "new"
  /\ hook = "absent"
  /\ spc = [s \in Subs |-> "idle"]
  /\ initial = [s \in Subs |-> 0]
  /\ carries = <<>>
--------------------------------------------------------------------------------
(* Changes of the machine's state, as Machine has them: lock, store, run   *)
(* the post-transition hooks, unlock.                                      *)
Busy == {p \in Callers : cpc[p] # "idle"}
Idle(p) == cpc[p] = "idle" /\ bpc[p] = "idle"

(* The broadcasts made or still to be made, for the bound on them.         *)
Coming == seq + Cardinality(Waiting) + Cardinality({p \in Busy : cpc[p] # "hooks"})

Come(p, label) == cpc' = [cpc EXCEPT ![p] = label]

Announce(p) ==
  /\ p \in program.changers /\ Idle(p)
  /\ version + Cardinality(Busy) <= program.changes
  /\ Coming < MaxBroadcasts
  /\ Mutex!AnnounceLock(p)
  /\ Come(p, "announced")
  /\ UNCHANGED <<vars, rigid, version, setup, hook, callvars>>

(* Seeded fault: the post-transition hooks run after the unlock.           *)
StoreAndUnlock(p) ==
  /\ cpc[p] = "announced"
  /\ owner = NoProc /\ readers = {} /\ announced = p
  /\ announced' = NoProc /\ readers' = queued /\ queued' = {}
  /\ version' = version + 1
  /\ Come(p, "stored")
  /\ UNCHANGED <<vars, owner, rigid, setup, hook, callvars>>

Store(p) ==
  /\ cpc[p] = "announced"
  /\ Mutex!AcquireLock(p)
  /\ version' = version + 1
  /\ Come(p, "stored")
  /\ UNCHANGED <<vars, rigid, setup, hook, callvars>>

(* The broadcast hook runs if the registry has it when the hooks start.    *)
RunHooks(p) ==
  /\ cpc[p] = "stored"
  /\ IF hook = "registered" THEN CallBroadcast(p) ELSE UNCHANGED vars
  /\ Come(p, "hooks")
  /\ UNCHANGED <<lockvars, rigid, version, setup, hook, callvars>>

ReleaseWriter(p) ==
  /\ cpc[p] = "hooks"
  /\ bpc[p] = "idle"
  /\ Mutex!ReleaseLock(p)
  /\ Come(p, "idle")
  /\ UNCHANGED <<vars, rigid, version, setup, hook, callvars>>

(* The goroutine runs a transition of another machine on the registry, and *)
(* with it this machine's hook, without this machine's lock.               *)
ForeignTransition(p) ==
  /\ p \in program.others /\ Idle(p)
  /\ hook = "registered"
  /\ Coming < MaxBroadcasts
  /\ CallBroadcast(p)
  /\ UNCHANGED <<lockvars, machinevars, callvars>>

(* The manager's part of a broadcast.                                      *)
BeginBroadcast(b) ==
  /\ LockBroadcast(b)
  /\ carries' = Append(carries, IF cpc[b] = "hooks" THEN version ELSE 0)
  /\ UNCHANGED <<lockvars, machinevars, spc, initial>>

ManagerStep ==
  /\ \/ \E s \in Subs : VisitSubscriber(s)
     \/ \E g \in parked : Deliver(g) \/ GiveUp(g)
     \/ \E b \in Broadcasters : FinishBroadcast(b)
  /\ UNCHANGED <<lockvars, machinevars, callvars>>
--------------------------------------------------------------------------------
(* Subscribe.                                                              *)
Proceed(s, label) == spc' = [spc EXCEPT ![s] = label]

(* Seeded fault: the error of the registration is not kept, and a later    *)
(* call goes on as if there had been none.                                 *)
SetUpForgettingError(s) ==
  /\ s \in program.subs /\ spc[s] = "idle"
  /\ setup = "new" => setup' \in {"ok", "failed"}
  /\ setup # "new" => setup' = "ok"
  /\ hook' = IF setup = "new" /\ setup' = "ok" THEN "registered" ELSE hook
  /\ Proceed(s, IF setup' = "ok" THEN "rlock" ELSE "error")
  /\ UNCHANGED <<vars, lockvars, rigid, version, cpc, initial, carries>>

(* The call, and sync.Once: the first one makes the manager and registers  *)
(* the hook, which fails if the registry has no table or has the name.     *)
(* The outcome is kept for every later call.                               *)
SetUp(s) ==
  /\ s \in program.subs /\ spc[s] = "idle"
  /\ setup = "new" => setup' \in {"ok", "failed"}
  /\ setup # "new" => UNCHANGED setup
  /\ hook' = IF setup = "new" /\ setup' = "ok" THEN "registered" ELSE hook
  /\ Proceed(s, IF setup' = "ok" THEN "rlock" ELSE "error")
  /\ UNCHANGED <<vars, lockvars, rigid, version, cpc, initial, carries>>

RequestRead(s) ==
  /\ spc[s] = "rlock"
  /\ Mutex!RequestRLock(s)
  /\ Proceed(s, "register")
  /\ UNCHANGED <<vars, machinevars, initial, carries>>

(* Seeded fault: the channel is registered without the read lock.          *)
SubscribeChannelUnlocked(s) ==
  /\ spc[s] = "register"
  /\ GetStateChan(s)
  /\ sub'[s] = [ch |-> Channel[s], mode |-> mode]
  /\ Proceed(s, "arm")
  /\ UNCHANGED <<lockvars, machinevars, initial, carries>>

SubscribeChannel(s) ==
  /\ spc[s] = "register"
  /\ s \in readers
  /\ GetStateChan(s)
  /\ sub'[s] = [ch |-> Channel[s], mode |-> mode]
  /\ Proceed(s, "arm")
  /\ UNCHANGED <<lockvars, machinevars, initial, carries>>

WatchContext(s) ==
  /\ spc[s] = "arm"
  /\ ArmAfterFunc(s)
  /\ Proceed(s, "send")
  /\ UNCHANGED <<lockvars, machinevars, initial, carries>>

SendCurrentState(s) ==
  /\ spc[s] = "send"
  /\ CanSend(Channel[s])
  /\ Send(Channel[s], 0)
  /\ initial' = [initial EXCEPT ![s] = version]
  /\ Proceed(s, "sent")
  /\ UNCHANGED <<closed, taken, receiving, castvars, subvars, unsub,
                 lockvars, machinevars, carries>>

(* Seeded faults: a full channel is an error at once; the send does not    *)
(* watch the context.                                                      *)
AbandonSendWhenFull(s) ==
  /\ spc[s] = "send"
  /\ ended[s] \/ ~CanSend(Channel[s])
  /\ Proceed(s, "failed")
  /\ UNCHANGED <<vars, lockvars, machinevars, initial, carries>>

AbandonSendNever(s) ==
  /\ spc[s] = "send"
  /\ ended[s] /\ CanSend(Channel[s])
  /\ Proceed(s, "failed")
  /\ UNCHANGED <<vars, lockvars, machinevars, initial, carries>>

AbandonSend(s) ==
  /\ spc[s] = "send"
  /\ ended[s]
  /\ Proceed(s, "failed")
  /\ UNCHANGED <<vars, lockvars, machinevars, initial, carries>>

ReleaseReader(s) ==
  /\ spc[s] \in {"sent", "failed"}
  /\ Mutex!ReleaseRLock(s)
  /\ Proceed(s, IF spc[s] = "sent" THEN "ok" ELSE "error")
  /\ UNCHANGED <<vars, machinevars, initial, carries>>
--------------------------------------------------------------------------------
(* The clients: consumers, contexts, and the owner of the registry.        *)
ClientStep ==
  /\ \E s \in Subs : StartReceive(Channel[s]) \/ CancelContext(s)
  /\ UNCHANGED <<lockvars, machinevars, callvars>>

Consume(s) == FinishReceive(Channel[s]) /\ UNCHANGED <<lockvars, machinevars, callvars>>

Cleanup(s) == Remove(s) /\ UNCHANGED <<lockvars, machinevars, callvars>>

RemoveBroadcastHook ==
  /\ program.unhooks /\ hook = "registered"
  /\ hook' = "removed"
  /\ UNCHANGED <<vars, lockvars, rigid, version, cpc, setup, callvars>>

ChangeStep(p) == Store(p) \/ RunHooks(p) \/ ReleaseWriter(p)

SubscribeStep(s) ==
  \/ RequestRead(s) \/ SubscribeChannel(s) \/ WatchContext(s)
  \/ SendCurrentState(s) \/ AbandonSend(s) \/ ReleaseReader(s)

SubscribeNext ==
  \/ \E p \in Callers : \/ Announce(p) \/ ChangeStep(p)
                         \/ ForeignTransition(p) \/ BeginBroadcast(p)
  \/ \E s \in Subs : SetUp(s) \/ SubscribeStep(s) \/ Cleanup(s) \/ Consume(s)
  \/ ManagerStep \/ ClientStep \/ RemoveBroadcastHook

SubscribeSpec == SubscribeInit /\ [][SubscribeNext]_allvars

(* As in Machine and Broadcast: goroutines that can run do, mutexes are    *)
(* handed over, timeouts pass.  Clients owe nothing.                       *)
SubscribeFairness ==
  /\ \A p \in Callers : WF_allvars(ChangeStep(p)) /\ SF_allvars(BeginBroadcast(p))
  /\ WF_allvars(ManagerStep)
  /\ \A s \in Subs : /\ WF_allvars(SubscribeStep(s)) /\ SF_allvars(SubscribeChannel(s))
                     /\ SF_allvars(Cleanup(s)) /\ WF_allvars(Consume(s))

FairSubscribeSpec == SubscribeSpec /\ SubscribeFairness
--------------------------------------------------------------------------------
(* The types of the variables.                                             *)
SubscribeTypeOK ==
  /\ Mutex!RWTypeOK
  /\ mode \in Modes
  /\ program \in Programs
  /\ version \in 1..program.changes + 1
  /\ cpc \in [Callers -> {"idle", "announced", "stored", "hooks"}]
  /\ setup \in {"new", "ok", "failed"}
  /\ hook \in {"absent", "registered", "removed"}
  /\ spc \in [Subs -> {"idle", "rlock", "register", "arm", "send",
                       "sent", "failed", "ok", "error"}]
  /\ initial \in [Subs -> 0..version]
  /\ carries \in Seq(0..version) /\ Len(carries) = seq

(* What a subscriber was sent: the initial state under 0, a broadcast under *)
(* its number.  The broadcasts of other machines on the registry, which may *)
(* come anywhere, also first, are left out.                                *)
StateOf(s, n) == IF n = 0 THEN initial[s] ELSE carries[n]
StatesSent(s) ==
  [i \in 1..Len(sent[Channel[s]]) |-> StateOf(s, sent[Channel[s]][i])]

OwnPositions(s) == {i \in DOMAIN StatesSent(s) : StatesSent(s)[i] # 0}
OwnStates(s) == {StatesSent(s)[i] : i \in OwnPositions(s)}

(* The first of the machine's states that a subscriber is sent is the one  *)
(* Subscribe read: no change can broadcast between the registration of the *)
(* channel and the initial send.  (Unless the context ends the call: until *)
(* the cleanup has run broadcasts may reach a channel that was sent no     *)
(* initial state.)                                                         *)
InitialStateFirst ==
  \A s \in Subs : spc[s] \notin {"failed", "error"} =>
    \A first \in OwnPositions(s) :
      (\A i \in OwnPositions(s) : first <= i) => StatesSent(s)[first] = initial[s]

(* In every delivery mode, and through the end of its context, a           *)
(* subscriber is sent the machine's states in the order the machine went   *)
(* through them, none twice: the initial state is not broadcast to it as   *)
(* well.                                                                   *)
StatesArriveInOrder ==
  \A s \in Subs : \A i, j \in OwnPositions(s) :
    i < j => StatesSent(s)[i] < StatesSent(s)[j]

(* With guaranteed delivery a subscriber whose Subscribe call succeeded,   *)
(* and whose context has not ended, has been sent every state from its     *)
(* initial one to the current one, whenever no change is under way.  (A    *)
(* client that takes the broadcast hook out of the registry silences all   *)
(* subscriptions, later ones included: sync.Once does not register it      *)
(* again.)                                                                 *)
HearsEveryChange ==
  \A s \in Subs :
    /\ spc[s] = "ok" /\ ~ended[s] /\ mode = "guaranteed"
    /\ owner = NoProc /\ hook # "removed"
    => OwnStates(s) = initial[s]..version

(* A blocked initial send holds up the machine, and every other Subscribe  *)
(* call behind a waiting writer, no longer than its context lasts: if no   *)
(* live subscriber that does not receive does so for ever, every change    *)
(* and every Subscribe call returns.  (A program makes finitely many, so   *)
(* they all return if and only if the machine is at rest again and again.) *)
HeldUp == \E s \in Subs : HeldUpBy(s) \/ (spc[s] = "send" /\ ~ended[s])
AtRest == Busy = {} /\ \A s \in Subs : spc[s] \in {"idle", "ok", "error"}

OnlyLiveSubscribersBlockMachine == []<>(~HeldUp) => []<>AtRest

(* A Subscribe call that returned an error leaves no subscription behind,  *)
(* provided that broadcasts do not block for ever.                         *)
NothingLeft == \A s \in Subs : spc[s] = "error" => s \notin Registered

FailedSubscribeLeavesNothing == []<>(mu = NoOne) => <>[]NothingLeft
================================================================================
