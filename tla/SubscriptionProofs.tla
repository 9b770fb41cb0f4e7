--------------------------- MODULE SubscriptionProofs ---------------------------
(***************************************************************************)
(* Proofs of the safety properties of Machine.Subscribe, for any clients,  *)
(* channels, delivery modes and bounds.                                    *)
(*                                                                         *)
(* The machine's lock is what they rest on.  A Subscribe call holds it for *)
(* reading from the registration of its channel to its initial send, so no *)
(* broadcast of this machine's reaches the channel in between; a change    *)
(* holds it for writing until its broadcast has returned, so the state it  *)
(* stored is still the current one whenever that broadcast sends it.       *)
(***************************************************************************)
EXTENDS Subscription, FiniteSetTheorems, TLAPS

(* The types of the manager's variables.  (Broadcast's own TypeOK does not *)
(* know of the initial states, which bear the number 0.)                   *)
SubsType ==
  /\ subscribers \in [Chans -> Subs \cup {NoSub}]
  /\ sub \in [Subs -> [ch : Chans, mode : Modes \cup {"best effort"}]]
  /\ phase \in [Subs -> {"new", "stored", "armed", "removed"}]
  /\ ended \in [Subs -> BOOLEAN]
SentType == sent \in [Chans -> Seq(Nat)]
CastType ==
  /\ mu \in Broadcasters \cup {NoOne}
  /\ bpc \in [Broadcasters -> {"idle", "lock", "locked"}]
  /\ seq \in Nat

(* The lock: where the writer is, that the Subscribe calls which have      *)
(* registered their channel are readers, and that an announced change may  *)
(* still be counted.                                                       *)
InCall(s) == spc[s] \in {"arm", "send", "sent", "failed"}

LockInv ==
  /\ owner # NoProc => announced = owner /\ readers = {}
  /\ \A p \in Callers :
       /\ announced # p => cpc[p] = "idle"
       /\ announced = p /\ owner = NoProc => cpc[p] = "announced"
       /\ owner = p => cpc[p] \in {"stored", "hooks"}
       /\ cpc[p] \in {"announced", "stored"} => bpc[p] = "idle"
  /\ announced \in Callers \cup {NoProc}
  /\ \A s \in Subs : InCall(s) => s \in readers
  /\ announced # NoProc /\ owner = NoProc => version <= program.changes

(* The manager: a broadcast carries the current state if the machine's     *)
(* writer makes it, and visits subscriptions that stay registered until it *)
(* returns.                                                                *)
Pending == todo \cup {g.sub : g \in parked}

CastInv ==
  /\ \A b \in Broadcasters : bpc[b] = "locked" <=> mu = b
  /\ mu # NoOne => seq > 0 /\ carries[seq] = IF mu = owner THEN version ELSE 0
  /\ mu = NoOne => Pending = {}
  /\ Pending \subseteq Registered
  /\ \A g \in parked : g = [sub |-> g.sub, val |-> seq] /\ g.sub \notin todo

(* Where each channel is passed to one Subscribe call at most.             *)
OwnChannels == \A s, t \in Subs : Channel[s] = Channel[t] => s = t

(* Subscriptions: each Subscribe call makes one, for its own channel, and  *)
(* the channels of the live ones are registered.                           *)
SubInv ==
  /\ \A s \in Subs :
       /\ spc[s] \in {"idle", "rlock", "register"} => phase[s] = "new"
       /\ spc[s] \in {"arm", "send", "sent", "ok"} => phase[s] # "new"
       /\ phase[s] # "new" => sub[s] = [ch |-> Channel[s], mode |-> mode]
       /\ OwnChannels /\ phase[s] # "new" /\ ~ended[s] => s \in Registered
       /\ s \in Registered => phase[s] # "new"
       /\ spc[s] \notin {"idle", "error"} => hook # "absent"
  /\ setup = "ok" <=> hook # "absent"

Base ==
  /\ SubsType /\ SentType /\ CastType /\ SubscribeTypeOK
  /\ LockInv /\ CastInv /\ SubInv

(* What has been sent to a subscriber.  Due says that the current state    *)
(* has yet to be broadcast to it.                                          *)
Due(s) ==
  /\ owner # NoProc
  /\ \/ cpc[owner] = "stored" \/ bpc[owner] = "lock"
     \/ mu = owner /\ s \in Pending

Started(s) == spc[s] \in {"sent", "ok"}

Own(q) == {q[i] : i \in DOMAIN q} \ {0}
Increasing(q) ==
  \A i, j \in DOMAIN q : i < j /\ q[i] # 0 /\ q[j] # 0 => q[i] < q[j]

HeardBy(s) ==
  /\ \A i \in 1..Len(sent[Channel[s]]) :
       sent[Channel[s]][i] <= seq /\ (~Started(s) => sent[Channel[s]][i] # 0)
  /\ Increasing(StatesSent(s))
  /\ \A v \in Own(StatesSent(s)) : v <= version /\ (Due(s) => v < version)
  /\ Started(s) =>
       /\ initial[s] \in Own(StatesSent(s))
       /\ \A v \in Own(StatesSent(s)) : initial[s] <= v
  /\ ~Started(s) /\ spc[s] # "error" => Own(StatesSent(s)) = {}
  /\ Started(s) /\ ~ended[s] /\ mode = "guaranteed" /\ hook # "removed" =>
       Own(StatesSent(s)) = initial[s]..(IF Due(s) THEN version - 1 ELSE version)

HeardInv == \A s \in Subs : HeardBy(s)
--------------------------------------------------------------------------------
LEMMA Clients ==
  /\ Channel \in [Subs -> Chans] /\ NoProc \notin Callers /\ NoOne \notin Callers
  /\ NoProc \notin Subs /\ NoSub \notin Subs /\ Callers = Broadcasters
  /\ \A pr \in Programs :
       /\ pr.changes \in Nat /\ pr.changers \subseteq Callers /\ pr.others \subseteq Callers
  BY ClientsAssumption, ChannelsAssumption, BroadcastersAssumption DEF Chans, Callers

LEMMA Wider ==
  ASSUME NEW m \in Nat, NEW n \in Nat, m <= n, NEW q \in Seq(0..m)
  PROVE  q \in Seq(0..n)
  OBVIOUS

LEMMA InitBase == SubscribeInit => Base
<1> SUFFICES ASSUME SubscribeInit PROVE Base
  OBVIOUS
<1> USE Clients
<1>1. Init
  BY DEF SubscribeInit
<1>2. SubsType
  BY <1>1 DEF Init, SubsType, Chans
<1>3. SentType /\ CastType
  <2>1. <<>> \in Seq(Nat)
    OBVIOUS
  <2> QED BY <1>1, <2>1 DEF Init, SentType, CastType
<1>4. SubscribeTypeOK
  <2>1. <<>> \in Seq(0..1) /\ Len(<<>>) = 0
    OBVIOUS
  <2>2. Mutex!RWTypeOK
    BY DEF SubscribeInit, Mutex!RWInit, Mutex!RWTypeOK
  <2>3. version = 1 /\ version \in 1..program.changes + 1 /\ program \in Programs
    BY DEF SubscribeInit
  <2>4. initial \in [Subs -> 0..version] /\ carries \in Seq(0..version) /\ Len(carries) = seq
    <3>1. initial = [s \in Subs |-> 0] /\ carries = <<>> /\ seq = 0
      BY <1>1 DEF SubscribeInit, Init
    <3> QED BY <2>1, <2>3, <3>1
  <2> QED BY <2>2, <2>3, <2>4 DEF SubscribeInit, SubscribeTypeOK
<1>5. LockInv
  BY DEF SubscribeInit, LockInv, Mutex!RWInit, InCall
<1>6. CastInv
  <2>1. Pending = {}
    BY <1>1 DEF Init, Pending
  <2> QED BY <1>1, <2>1 DEF Init, CastInv
<1>7. SubInv
  <2>1. Registered = {}
    BY <1>1 DEF Init, Registered, Chans
  <2> QED BY <1>1, <2>1 DEF SubscribeInit, Init, SubInv
<1> QED BY <1>2, <1>3, <1>4, <1>5, <1>6, <1>7 DEF Base

(* What a step leaves alone keeps its part of the invariant.               *)
LEMMA Frame ==
  ASSUME Base
  PROVE  /\ UNCHANGED subvars => SubsType'
         /\ UNCHANGED sent => SentType'
         /\ UNCHANGED castvars => CastType'
         /\ UNCHANGED vars => SubsType' /\ SentType' /\ CastType'
         /\ UNCHANGED <<lockvars, machinevars, callvars, seq>> => SubscribeTypeOK'
         /\ UNCHANGED <<lockvars, rigid, version, cpc, spc, bpc>> => LockInv'
         /\ UNCHANGED <<subscribers, sub, castvars, carries, version, owner>> => CastInv'
         /\ UNCHANGED <<subvars, mode, setup, hook, spc>> => SubInv'
<1>1. UNCHANGED subvars => SubsType'
  BY DEF Base, subvars, SubsType
<1>2. UNCHANGED sent => SentType'
  BY DEF Base, SentType
<1>3. UNCHANGED castvars => CastType'
  BY DEF Base, castvars, CastType
<1>4. UNCHANGED <<lockvars, machinevars, callvars, seq>> => SubscribeTypeOK'
  BY Zenon DEF Base, lockvars, machinevars, rigid, callvars, SubscribeTypeOK, Mutex!RWTypeOK
<1>5. UNCHANGED <<lockvars, rigid, version, cpc, spc, bpc>> => LockInv'
  BY Zenon DEF Base, lockvars, rigid, LockInv, InCall
<1>6. UNCHANGED <<subscribers, sub, castvars, carries, version, owner>> => CastInv'
  BY Zenon DEF Base, castvars, CastInv, Pending, Registered
<1>7. UNCHANGED <<subvars, mode, setup, hook, spc>> => SubInv'
  BY Zenon DEF Base, subvars, SubInv, Registered
<1>8. UNCHANGED vars => UNCHANGED <<subvars, chanvars, castvars, sent>>
  BY DEF vars, chanvars
<1> QED BY <1>1, <1>2, <1>3, <1>4, <1>5, <1>6, <1>7, <1>8

(* The types of what changes of the machine's state need.                  *)
LEMMA Types ==
  ASSUME Base
  PROVE  /\ version \in Nat \ {0} /\ program.changes \in Nat /\ seq \in Nat
         /\ program.changers \subseteq Callers /\ program.others \subseteq Callers
         /\ initial \in [Subs -> 0..version] /\ carries \in Seq(0..version)
         /\ Len(carries) = seq
<1>1. program \in Programs /\ version \in 1..program.changes + 1
  BY DEF Base, SubscribeTypeOK
<1>2. program.changes \in Nat
  BY <1>1, Clients
<1> QED BY <1>1, <1>2, Clients DEF Base, SubscribeTypeOK, CastType
--------------------------------------------------------------------------------
(* Changes of the machine's state.                                         *)
LEMMA AnnounceBase ==
  ASSUME Base, NEW p \in Callers, Announce(p)
  PROVE  Base'
<1>1. /\ announced = NoProc /\ announced' = p /\ UNCHANGED <<owner, readers, queued>>
      /\ cpc' = [cpc EXCEPT ![p] = "announced"] /\ cpc[p] = "idle" /\ bpc[p] = "idle"
      /\ version + Cardinality(Busy) <= program.changes
      /\ UNCHANGED <<vars, program, mode, version, setup, hook, spc, initial, carries>>
  BY DEF Announce, Mutex!AnnounceLock, Come, Idle, rigid, callvars
<1>2. UNCHANGED <<subvars, castvars, seq, subscribers, sub, bpc>>
  BY <1>1 DEF vars, subvars, castvars
<1>3. version <= program.changes
  <2>1. IsFiniteSet(Busy)
    BY BroadcastersAssumption, FS_Subset DEF Busy, Callers
  <2>2. Cardinality(Busy) \in Nat
    BY <2>1, FS_CardinalityType
  <2> QED BY <1>1, <2>2, Types
<1>4. SubscribeTypeOK'
  <2>1. p \in Callers \cup Subs /\ cpc' \in [Callers -> {"idle", "announced", "stored", "hooks"}]
    BY <1>1 DEF Base, SubscribeTypeOK
  <2>2. Mutex!RWTypeOK'
    BY <1>1, <2>1 DEF Base, SubscribeTypeOK, Mutex!RWTypeOK
  <2> QED BY <1>1, <1>2, <2>1, <2>2 DEF Base, SubscribeTypeOK
<1>5. LockInv'
  <2>1. cpc \in [Callers -> {"idle", "announced", "stored", "hooks"}] /\ LockInv
    BY DEF Base, SubscribeTypeOK
  <2> QED BY <1>1, <1>2, <1>3, <2>1, Clients DEF LockInv, InCall
<1> QED BY <1>1, <1>2, <1>4, <1>5, Frame DEF Base

LEMMA StoreBase ==
  ASSUME Base, NEW p \in Callers, Store(p)
  PROVE  Base'
<1>1. /\ announced = p /\ owner = NoProc /\ readers = {} /\ owner' = p
      /\ UNCHANGED <<announced, readers, queued>>
      /\ version' = version + 1
      /\ cpc' = [cpc EXCEPT ![p] = "stored"] /\ cpc[p] = "announced"
      /\ UNCHANGED <<vars, program, mode, setup, hook, spc, initial, carries>>
  BY DEF Store, Mutex!AcquireLock, Come, rigid, callvars
<1>2. UNCHANGED <<subvars, mu, seq, todo, parked, bpc, subscribers, sub>>
  BY <1>1 DEF vars, subvars, castvars
<1>3. version <= program.changes /\ bpc[p] = "idle" /\ mu # p
  BY <1>1, Clients DEF Base, LockInv, CastInv
<1>4. SubscribeTypeOK'
  <2>1. p \in Callers \cup Subs /\ cpc' \in [Callers -> {"idle", "announced", "stored", "hooks"}]
    BY <1>1 DEF Base, SubscribeTypeOK
  <2>2. Mutex!RWTypeOK'
    BY <1>1, <2>1 DEF Base, SubscribeTypeOK, Mutex!RWTypeOK
  <2>3. version' \in 1..program'.changes + 1
    BY <1>1, <1>3, Types
  <2>4. initial' \in [Subs -> 0..version'] /\ carries' \in Seq(0..version')
    BY <1>1, Types, Wider
  <2> QED BY <1>1, <1>2, <2>1, <2>2, <2>3, <2>4 DEF Base, SubscribeTypeOK
<1>5. LockInv'
  <2>1. cpc \in [Callers -> {"idle", "announced", "stored", "hooks"}] /\ LockInv
    BY DEF Base, SubscribeTypeOK
  <2> QED BY <1>1, <1>2, <1>3, <2>1, Clients DEF LockInv, InCall
<1>6. CastInv'
  <2>1. mu # NoOne => mu # owner
    BY <1>1, Clients DEF Base, CastType
  <2>2. Pending' = Pending /\ Registered' = Registered
    BY <1>2 DEF Pending, Registered
  <2> QED BY <1>1, <1>2, <1>3, <2>1, <2>2 DEF Base, CastInv
<1> QED BY <1>1, <1>2, <1>4, <1>5, <1>6, Frame DEF Base

LEMMA RunHooksBase ==
  ASSUME Base, NEW p \in Callers, RunHooks(p)
  PROVE  Base'
<1>1. /\ cpc[p] = "stored" /\ cpc' = [cpc EXCEPT ![p] = "hooks"]
      /\ bpc' = [bpc EXCEPT ![p] = "lock"] \/ UNCHANGED bpc
      /\ UNCHANGED <<lockvars, program, mode, version, setup, hook, spc, initial, carries>>
      /\ UNCHANGED <<subvars, chanvars, mu, seq, todo, parked>>
  BY DEF RunHooks, CallBroadcast, Come, rigid, callvars, vars, castvars
<1>2. UNCHANGED <<announced, owner, readers, queued, sent, subscribers, sub>>
  BY <1>1 DEF lockvars, subvars, chanvars
<1>3. cpc \in [Callers -> {"idle", "announced", "stored", "hooks"}] /\ bpc[p] = "idle"
      /\ bpc \in [Callers -> {"idle", "lock", "locked"}] /\ LockInv
  BY <1>1 DEF Base, SubscribeTypeOK, LockInv, CastType, Callers
<1>4. CastType'
  BY <1>1, <1>3, Clients DEF Base, CastType
<1>5. SubscribeTypeOK'
  BY <1>1, <1>2, <1>3 DEF Base, SubscribeTypeOK, Mutex!RWTypeOK
<1>6. LockInv'
  BY <1>1, <1>2, <1>3, Clients DEF LockInv, InCall
<1>7. CastInv'
  <2>1. Pending' = Pending /\ Registered' = Registered
    BY <1>1, <1>2 DEF Pending, Registered
  <2> QED BY <1>1, <1>2, <1>3, <2>1, Clients DEF Base, CastInv
<1> QED BY <1>1, <1>2, <1>4, <1>5, <1>6, <1>7, Frame DEF Base

LEMMA ReleaseWriterBase ==
  ASSUME Base, NEW p \in Callers, ReleaseWriter(p)
  PROVE  Base'
<1>1. /\ cpc[p] = "hooks" /\ bpc[p] = "idle" /\ cpc' = [cpc EXCEPT ![p] = "idle"]
      /\ owner = p /\ announced' = NoProc /\ owner' = NoProc
      /\ readers' = readers \cup queued /\ queued' = {}
      /\ UNCHANGED <<vars, program, mode, version, setup, hook, spc, initial, carries>>
  BY DEF ReleaseWriter, Mutex!ReleaseLock, Come, rigid, callvars
<1>2. UNCHANGED <<subvars, castvars, mu, seq, todo, parked, bpc, subscribers, sub>>
  BY <1>1 DEF vars, subvars, castvars
<1>3. cpc \in [Callers -> {"idle", "announced", "stored", "hooks"}] /\ LockInv
  BY DEF Base, SubscribeTypeOK
<1>4. SubscribeTypeOK'
  <2>1. Mutex!RWTypeOK'
    BY <1>1 DEF Base, SubscribeTypeOK, Mutex!RWTypeOK
  <2> QED BY <1>1, <1>2, <1>3, <2>1 DEF Base, SubscribeTypeOK
<1>5. LockInv'
  BY <1>1, <1>2, <1>3, Clients DEF LockInv, InCall
<1>6. CastInv'
  <2>1. Pending' = Pending /\ Registered' = Registered
    BY <1>2 DEF Pending, Registered
  <2>2. mu # NoOne => mu # owner /\ mu # owner'
    BY <1>1, Clients DEF Base, CastInv, CastType
  <2> QED BY <1>1, <1>2, <2>1, <2>2 DEF Base, CastInv
<1> QED BY <1>1, <1>2, <1>4, <1>5, <1>6, Frame DEF Base

LEMMA ForeignTransitionBase ==
  ASSUME Base, NEW p \in Callers, ForeignTransition(p)
  PROVE  Base'
<1>1. /\ cpc[p] = "idle" /\ bpc[p] = "idle" /\ bpc' = [bpc EXCEPT ![p] = "lock"]
      /\ UNCHANGED <<lockvars, machinevars, callvars>>
      /\ UNCHANGED <<subvars, chanvars, mu, seq, todo, parked>>
  BY DEF ForeignTransition, Idle, CallBroadcast
<1>2. UNCHANGED <<announced, owner, readers, queued, program, version, cpc, spc, carries>>
      /\ UNCHANGED <<sent, subscribers, sub, mode, setup, hook>>
  BY <1>1 DEF lockvars, machinevars, rigid, callvars, subvars, chanvars
<1>3. LockInv /\ CastInv /\ bpc \in [Callers -> {"idle", "lock", "locked"}]
  BY DEF Base, CastType, Callers
<1>4. CastType'
  BY <1>1, <1>3, Clients DEF Base, CastType
<1>5. LockInv'
  BY <1>1, <1>2, <1>3 DEF LockInv, InCall
<1>6. CastInv'
  <2>1. Pending' = Pending /\ Registered' = Registered
    BY <1>1, <1>2 DEF Pending, Registered
  <2> QED BY <1>1, <1>2, <1>3, <2>1, Clients DEF CastInv
<1> QED BY <1>1, <1>2, <1>4, <1>5, <1>6, Frame DEF Base
--------------------------------------------------------------------------------
(* The manager's part of a broadcast.                                      *)
LEMMA OwnBroadcast ==
  ASSUME Base, NEW b \in Callers, bpc[b] # "idle"
  PROVE  cpc[b] = "hooks" <=> b = owner
  BY Clients DEF Base, LockInv

LEMMA BeginBroadcastBase ==
  ASSUME Base, NEW b \in Callers, BeginBroadcast(b)
  PROVE  Base'
<1>1. /\ bpc[b] = "lock" /\ mu = NoOne /\ mu' = b /\ bpc' = [bpc EXCEPT ![b] = "locked"]
      /\ seq' = seq + 1 /\ todo' = Registered
      /\ carries' = Append(carries, IF cpc[b] = "hooks" THEN version ELSE 0)
      /\ UNCHANGED <<parked, chanvars, subvars, lockvars, machinevars, spc, initial>>
  BY DEF BeginBroadcast, LockBroadcast
<1>2. /\ UNCHANGED <<announced, owner, readers, queued, program, version, cpc, spc>>
      /\ UNCHANGED <<sent, subscribers, sub, mode, setup, hook, initial>>
  BY <1>1 DEF lockvars, machinevars, rigid, subvars, chanvars
<1>3. LockInv /\ CastInv /\ bpc \in [Callers -> {"idle", "lock", "locked"}] /\ seq \in Nat
  BY DEF Base, CastType, Callers
<1>4. /\ carries' \in Seq(0..version) /\ Len(carries') = seq'
      /\ carries'[seq'] = IF b = owner THEN version ELSE 0
  <2> DEFINE v == IF cpc[b] = "hooks" THEN version ELSE 0
  <2>1. v \in 0..version /\ v = IF b = owner THEN version ELSE 0
    BY <1>1, OwnBroadcast, Types
  <2>2. carries \in Seq(0..version) /\ Len(carries) = seq /\ carries' = Append(carries, v)
    BY <1>1, Types
  <2> HIDE DEF v
  <2>3. carries' \in Seq(0..version) /\ Len(carries') = seq + 1 /\ carries'[seq + 1] = v
    BY <2>1, <2>2
  <2> QED BY <1>1, <2>1, <2>3
<1>5. CastType'
  BY <1>1, <1>3, Clients DEF Base, CastType
<1>6. SubscribeTypeOK'
  BY <1>1, <1>2, <1>4 DEF Base, SubscribeTypeOK, Mutex!RWTypeOK
<1>7. LockInv'
  BY <1>1, <1>2, <1>3 DEF LockInv, InCall
<1>8. CastInv'
  <2>1. parked' = {} /\ Pending' = Registered /\ Registered' = Registered
    BY <1>1, <1>2, <1>3 DEF Pending, Registered, CastInv
  <2> QED BY <1>1, <1>2, <1>3, <1>4, <2>1, Clients DEF CastInv
<1> QED BY <1>1, <1>2, <1>5, <1>6, <1>7, <1>8, Frame DEF Base

LEMMA SendType ==
  ASSUME SentType, NEW c, NEW n \in Nat, Send(c, n)
  PROVE  SentType'
<1>1. \A q \in Seq(Nat) : Append(q, n) \in Seq(Nat)
  OBVIOUS
<1>2. sent' = [sent EXCEPT ![c] = Append(sent[c], n)]
  BY DEF Send
<1> DEFINE r == Append(sent[c], n)
<1>3. c \in Chans => r \in Seq(Nat)
  BY <1>1 DEF SentType
<1> HIDE DEF r
<1> QED BY <1>2, <1>3 DEF SentType, r

(* A step of the broadcast that holds the mutex.                           *)
LEMMA CastStepBase ==
  ASSUME Base, mu # NoOne, SentType',
         todo' \subseteq todo, Pending' \subseteq Pending,
         \A g \in parked' : g = [sub |-> g.sub, val |-> seq] /\ g.sub \notin todo',
         UNCHANGED <<mu, bpc, seq, subvars, lockvars, machinevars, callvars>>
  PROVE  Base'
<1>1. UNCHANGED <<program, version, cpc, spc, carries, mode, setup, hook, owner>>
      /\ UNCHANGED rigid
  BY DEF machinevars, rigid, callvars, lockvars
<1>2. CastType'
  BY DEF Base, CastType
<1>3. CastInv'
  <2>1. Registered' = Registered
    BY DEF Registered, subvars
  <2> QED BY <1>1, <2>1 DEF Base, CastInv
<1> QED BY <1>1, <1>2, <1>3, Frame DEF Base

LEMMA VisitBase ==
  ASSUME Base, NEW s \in Subs, VisitSubscriber(s),
         UNCHANGED <<lockvars, machinevars, callvars>>
  PROVE  Base'
<1>1. /\ s \in todo /\ todo' = todo \ {s}
      /\ UNCHANGED <<mu, bpc, seq, subvars>>
  BY DEF VisitSubscriber
<1>2. mu # NoOne /\ SentType /\ seq \in Nat /\ CastInv
  BY <1>1 DEF Base, CastInv, Pending, CastType
<1>3. CASE sub[s].mode = "best effort"
  <2>1. parked' = parked /\ (UNCHANGED sent \/ Send(sub[s].ch, seq))
    BY <1>3 DEF VisitSubscriber
  <2>2. SentType'
    <3>1. CASE UNCHANGED sent
      BY <1>2, <3>1 DEF SentType
    <3>2. CASE Send(sub[s].ch, seq)
      BY <1>2, <3>2, SendType
    <3> QED BY <2>1, <3>1, <3>2
  <2> QED BY <1>1, <1>2, <2>1, <2>2, CastStepBase DEF Pending, CastInv
<1>4. CASE sub[s].mode # "best effort"
  <2> DEFINE new == [sub |-> s, val |-> seq]
  <2>1. parked' = parked \cup {new} /\ UNCHANGED sent
    BY <1>4 DEF VisitSubscriber
  <2>2. new.sub = s /\ new = [sub |-> new.sub, val |-> seq]
    OBVIOUS
  <2> HIDE DEF new
  <2>3. SentType'
    BY <1>2, <2>1 DEF SentType
  <2>4. Pending' \subseteq Pending
    BY <1>1, <2>1, <2>2 DEF Pending
  <2>5. \A g \in parked' : g = [sub |-> g.sub, val |-> seq] /\ g.sub \notin todo'
    BY <1>1, <1>2, <2>1, <2>2, Zenon DEF CastInv
  <2>6. todo' \subseteq todo
    BY <1>1
  <2> QED BY <1>1, <1>2, <2>3, <2>4, <2>5, <2>6, CastStepBase
<1> QED BY <1>3, <1>4

LEMMA DeliverBase ==
  ASSUME Base, NEW g \in parked, Deliver(g) \/ GiveUp(g),
         UNCHANGED <<lockvars, machinevars, callvars>>
  PROVE  Base'
<1>1. todo' = todo /\ parked' = parked \ {g} /\ UNCHANGED <<mu, bpc, seq, subvars>>
  BY DEF Deliver, GiveUp
<1>2. mu # NoOne /\ SentType /\ seq \in Nat /\ CastInv /\ g.val = seq
  BY DEF Base, CastInv, Pending, CastType
<1>3. SentType'
  <2>1. CASE Deliver(g)
    BY <1>2, <2>1, SendType DEF Deliver
  <2>2. CASE GiveUp(g)
    BY <1>2, <2>2 DEF SentType, GiveUp, chanvars
  <2> QED BY <2>1, <2>2
<1> QED BY <1>1, <1>2, <1>3, CastStepBase DEF Pending, CastInv

LEMMA FinishBroadcastBase ==
  ASSUME Base, NEW b \in Callers, FinishBroadcast(b),
         UNCHANGED <<lockvars, machinevars, callvars>>
  PROVE  Base'
<1>1. /\ mu = b /\ todo = {} /\ parked = {} /\ mu' = NoOne
      /\ bpc' = [bpc EXCEPT ![b] = "idle"]
      /\ UNCHANGED <<seq, todo, parked, chanvars, subvars>>
  BY DEF FinishBroadcast
<1>2. /\ UNCHANGED <<announced, owner, readers, queued, program, version, cpc, spc>>
      /\ UNCHANGED <<sent, subscribers, sub, mode, setup, hook, carries>>
  BY <1>1 DEF lockvars, machinevars, rigid, subvars, chanvars, callvars
<1>3. LockInv /\ CastInv /\ bpc \in [Callers -> {"idle", "lock", "locked"}]
  BY DEF Base, CastType, Callers
<1>4. CastType'
  BY <1>1, <1>3, Clients DEF Base, CastType
<1>5. LockInv'
  BY <1>1, <1>2, <1>3 DEF LockInv, InCall
<1>6. CastInv'
  <2>1. Pending' = {} /\ parked' = {}
    BY <1>1 DEF Pending
  <2> QED BY <1>1, <1>2, <1>3, <2>1, Clients DEF CastInv
<1> QED BY <1>1, <1>2, <1>4, <1>5, <1>6, Frame DEF Base
--------------------------------------------------------------------------------
(* Subscribe.                                                              *)
Places == {"idle", "rlock", "register", "arm", "send", "sent", "failed", "ok", "error"}

LEMMA Proceeds ==
  ASSUME Base, NEW s \in Subs, NEW label \in Places, Proceed(s, label)
  PROVE  /\ spc' \in [Subs -> Places] /\ spc'[s] = label
         /\ \A t \in Subs : t # s => spc'[t] = spc[t]
  BY DEF Base, SubscribeTypeOK, Proceed, Places

LEMMA SetUpBase ==
  ASSUME Base, NEW s \in Subs, SetUp(s)
  PROVE  Base'
<1>1. /\ spc[s] = "idle"
      /\ setup = "new" => setup' \in {"ok", "failed"}
      /\ setup # "new" => UNCHANGED setup
      /\ hook' = IF setup = "new" /\ setup' = "ok" THEN "registered" ELSE hook
      /\ Proceed(s, IF setup' = "ok" THEN "rlock" ELSE "error")
      /\ UNCHANGED <<vars, lockvars, rigid, version, cpc, initial, carries>>
  BY DEF SetUp
<1>2. /\ UNCHANGED <<announced, owner, readers, queued, program, mode, bpc>>
      /\ UNCHANGED <<subscribers, sub, castvars, seq, phase, ended>>
  BY <1>1 DEF lockvars, rigid, vars, castvars, subvars
<1>3. /\ spc' \in [Subs -> Places]
      /\ spc'[s] = IF setup' = "ok" THEN "rlock" ELSE "error"
      /\ \A t \in Subs : t # s => spc'[t] = spc[t]
  BY <1>1, Proceeds DEF Places
<1>4. setup \in {"new", "ok", "failed"} /\ hook \in {"absent", "registered", "removed"}
  BY DEF Base, SubscribeTypeOK
<1>5. SubscribeTypeOK'
  BY <1>1, <1>2, <1>3, <1>4 DEF Base, SubscribeTypeOK, Mutex!RWTypeOK, Places
<1>6. LockInv'
  BY <1>1, <1>2, <1>3 DEF Base, LockInv, InCall
<1>7. SubInv'
  <2>1. Registered' = Registered
    BY <1>2 DEF Registered
  <2>2. setup' = "ok" <=> hook' # "absent"
    BY <1>1, <1>4 DEF Base, SubInv
  <2>3. \A t \in Subs : spc'[t] \notin {"idle", "error"} => hook' # "absent"
    BY <1>1, <1>3, <1>4 DEF Base, SubInv
  <2> QED BY <1>1, <1>2, <1>3, <2>1, <2>2, <2>3 DEF Base, SubInv
<1> QED BY <1>1, <1>2, <1>5, <1>6, <1>7, Frame DEF Base

(* A step that moves the Subscribe call s on and may let it into the lock, *)
(* or out of it, but changes nothing of its subscription's.                *)
LEMMA CallStepBase ==
  ASSUME Base, NEW s \in Subs, NEW label \in Places, Proceed(s, label),
         UNCHANGED <<vars, machinevars, announced, owner, initial, carries>>,
         readers' \subseteq readers \cup {s}, queued' \subseteq queued \cup {s},
         \A t \in readers : t # s => t \in readers',
         s \in readers' => announced = NoProc \/ s \in readers,
         label \in {"register", "failed", "ok", "error"},
         label = "register" => spc[s] = "rlock",
         label = "failed" => spc[s] = "send" /\ s \in readers',
         label = "ok" => spc[s] = "sent"
  PROVE  Base'
<1>1. /\ UNCHANGED <<program, mode, version, cpc, setup, hook, bpc>>
      /\ UNCHANGED <<subscribers, sub, castvars, seq, phase, ended>>
  BY DEF machinevars, rigid, vars, castvars, subvars
<1>2. /\ spc' \in [Subs -> Places] /\ spc'[s] = label
      /\ \A t \in Subs : t # s => spc'[t] = spc[t]
  BY Proceeds
<1>3. SubscribeTypeOK'
  <2>1. Mutex!RWTypeOK'
    BY DEF Base, SubscribeTypeOK, Mutex!RWTypeOK
  <2> QED BY <1>1, <1>2, <2>1 DEF Base, SubscribeTypeOK, Places
<1>4. LockInv'
  <2>1. owner' # NoProc => announced' = owner' /\ readers' = {}
    BY DEF Base, LockInv
  <2>2. \A t \in Subs : InCall(t)' => t \in readers'
    BY <1>2 DEF Base, LockInv, InCall
  <2> QED BY <1>1, <2>1, <2>2 DEF Base, LockInv
<1>5. SubInv'
  <2>1. Registered' = Registered
    BY <1>1 DEF Registered
  <2> QED BY <1>1, <1>2, <2>1 DEF Base, SubInv
<1> QED BY <1>1, <1>3, <1>4, <1>5, Frame DEF Base

LEMMA LockStepsBase ==
  ASSUME Base, NEW s \in Subs, RequestRead(s) \/ AbandonSend(s) \/ ReleaseReader(s)
  PROVE  Base'
<1>1. CASE RequestRead(s)
  <2>1. /\ spc[s] = "rlock" /\ Proceed(s, "register")
        /\ UNCHANGED <<vars, machinevars, announced, owner, initial, carries>>
        /\ IF announced = NoProc
             THEN readers' = readers \cup {s} /\ UNCHANGED queued
             ELSE queued' = queued \cup {s} /\ UNCHANGED readers
    BY <1>1 DEF RequestRead, Mutex!RequestRLock
  <2> QED BY <2>1, CallStepBase DEF Places
<1>2. CASE AbandonSend(s)
  <2>1. /\ spc[s] = "send" /\ Proceed(s, "failed")
        /\ UNCHANGED <<vars, machinevars, lockvars, initial, carries>>
    BY <1>2 DEF AbandonSend
  <2>2. s \in readers /\ UNCHANGED <<announced, owner, readers, queued>>
    BY <2>1 DEF Base, LockInv, InCall, lockvars
  <2> QED BY <2>1, <2>2, CallStepBase DEF Places
<1>3. CASE ReleaseReader(s)
  <2>1. /\ spc[s] \in {"sent", "failed"}
        /\ Proceed(s, IF spc[s] = "sent" THEN "ok" ELSE "error")
        /\ readers' = readers \ {s}
        /\ UNCHANGED <<vars, machinevars, announced, owner, queued, initial, carries>>
    BY <1>3 DEF ReleaseReader, Mutex!ReleaseRLock
  <2>2. CASE spc[s] = "sent"
    <3>1. Proceed(s, "ok")
      BY <2>1, <2>2
    <3> QED BY <2>1, <2>2, <3>1, CallStepBase DEF Places
  <2>3. CASE spc[s] # "sent"
    <3>1. Proceed(s, "error")
      BY <2>1, <2>3
    <3> QED BY <2>1, <2>3, <3>1, CallStepBase DEF Places
  <2> QED BY <2>2, <2>3
<1> QED BY <1>1, <1>2, <1>3

LEMMA SubscribeChannelBase ==
  ASSUME Base, NEW s \in Subs, SubscribeChannel(s)
  PROVE  Base'
<1>1. /\ spc[s] = "register" /\ s \in readers /\ phase[s] = "new" /\ mu = NoOne
      /\ phase' = [phase EXCEPT ![s] = "stored"]
      /\ Proceed(s, "arm")
      /\ UNCHANGED <<chanvars, castvars, lockvars, machinevars, initial, carries>>
  BY DEF SubscribeChannel, GetStateChan
<1>2. PICK c \in {s} \cup CustomChans, m \in Modes, e \in BOOLEAN :
        /\ sub' = [sub EXCEPT ![s] = [ch |-> c, mode |-> m]]
        /\ subscribers' = [subscribers EXCEPT ![c] = s]
        /\ ended' = [ended EXCEPT ![s] = e]
  BY DEF SubscribeChannel, GetStateChan
<1>3. SubsType /\ Channel[s] \in Chans /\ c \in Chans
  BY Clients DEF Base, Chans
<1>4. c = Channel[s] /\ m = mode
  <2>1. [ch |-> c, mode |-> m] = [ch |-> Channel[s], mode |-> mode]
    BY <1>2, <1>3 DEF SubscribeChannel, SubsType
  <2> QED BY <2>1
<1>5. /\ sub'[s] = [ch |-> Channel[s], mode |-> mode] /\ subscribers'[Channel[s]] = s
      /\ phase'[s] = "stored" /\ sub'[s].ch = Channel[s]
      /\ \A t \in Subs : t # s => sub'[t] = sub[t] /\ phase'[t] = phase[t] /\ ended'[t] = ended[t]
      /\ \A d \in Chans : d # Channel[s] => subscribers'[d] = subscribers[d]
      /\ \A t \in Subs : sub[t].ch \in Chans
  BY <1>1, <1>2, <1>3, <1>4 DEF SubsType
<1>6. SubsType'
  <2>1. [ch |-> c, mode |-> m] \in [ch : Chans, mode : Modes \cup {"best effort"}]
    BY <1>3
  <2> DEFINE new == [ch |-> c, mode |-> m]
  <2> HIDE DEF new
  <2>2. sub' \in [Subs -> [ch : Chans, mode : Modes \cup {"best effort"}]]
    BY <1>2, <1>3, <2>1 DEF SubsType, new
  <2> QED BY <1>1, <1>2, <1>3, <2>2 DEF SubsType
<1>7. /\ UNCHANGED <<announced, owner, readers, queued, program, mode, version, cpc, setup, hook>>
      /\ UNCHANGED <<rigid, sent, bpc, seq, mu, todo, parked>>
  BY <1>1 DEF lockvars, machinevars, rigid, castvars, chanvars
<1>8. /\ spc' \in [Subs -> Places] /\ spc'[s] = "arm"
      /\ \A t \in Subs : t # s => spc'[t] = spc[t]
  BY <1>1, Proceeds DEF Places
<1>9. SubscribeTypeOK'
  BY <1>1, <1>7, <1>8 DEF Base, SubscribeTypeOK, Mutex!RWTypeOK, Places
<1>10. LockInv'
  BY <1>1, <1>7, <1>8 DEF Base, LockInv, InCall
<1>11. CastInv'
  <2>1. Pending = {} /\ Pending' = {} /\ parked' = {}
    BY <1>1, <1>7 DEF Base, CastInv, Pending
  <2> QED BY <1>1, <1>7, <2>1 DEF Base, CastInv
<1>12. SubInv'
  <2>1. s \in Registered' /\ \A t \in Registered' : t = s \/ t \in Registered
    BY <1>3, <1>5 DEF Registered
  <2>2. \A t \in Registered : sub[t].ch # Channel[s] => t \in Registered'
    BY <1>3, <1>5 DEF Registered
  <2>3. \A t \in Subs : OwnChannels /\ phase'[t] # "new" /\ ~ended'[t] => t \in Registered'
    <3> SUFFICES ASSUME NEW t \in Subs, OwnChannels, phase'[t] # "new", ~ended'[t], t # s
                 PROVE  t \in Registered'
      BY <2>1
    <3>1. t \in Registered /\ sub[t] = [ch |-> Channel[t], mode |-> mode]
      BY <1>5 DEF Base, SubInv
    <3>2. sub[t].ch # Channel[s]
      BY <3>1 DEF OwnChannels
    <3> QED BY <2>2, <3>1, <3>2
  <2>4. hook # "absent" /\ mode' = mode
    BY <1>1, <1>7 DEF Base, SubInv
  <2>5. \A t \in Subs : phase'[t] # "new" => sub'[t] = [ch |-> Channel[t], mode |-> mode]
    BY <1>5 DEF Base, SubInv
  <2>6. \A t \in Registered' : phase'[t] # "new"
    BY <1>5, <2>1 DEF Base, SubInv, Registered
  <2>7. \A t \in Subs :
          /\ spc'[t] \in {"idle", "rlock", "register"} => phase'[t] = "new"
          /\ spc'[t] \in {"arm", "send", "sent", "ok"} => phase'[t] # "new"
          /\ spc'[t] \notin {"idle", "error"} => hook' # "absent"
    BY <1>5, <1>7, <1>8, <2>4 DEF Base, SubInv
  <2> QED BY <1>7, <2>3, <2>4, <2>5, <2>6, <2>7 DEF Base, SubInv
<1> QED BY <1>1, <1>6, <1>7, <1>9, <1>10, <1>11, <1>12, Frame DEF Base

LEMMA WatchContextBase ==
  ASSUME Base, NEW s \in Subs, WatchContext(s)
  PROVE  Base'
<1>1. /\ spc[s] = "arm" /\ phase' = [phase EXCEPT ![s] = "armed"]
      /\ Proceed(s, "send")
      /\ UNCHANGED <<subscribers, sub, ended, since, chanvars, castvars>>
      /\ UNCHANGED <<lockvars, machinevars, initial, carries>>
  BY DEF WatchContext, ArmAfterFunc
<1>2. /\ UNCHANGED <<announced, owner, readers, queued, program, mode, version, cpc, setup, hook>>
      /\ UNCHANGED <<rigid, sent, bpc, seq>>
  BY <1>1 DEF lockvars, machinevars, rigid, castvars, chanvars
<1>3. /\ spc' \in [Subs -> Places] /\ spc'[s] = "send"
      /\ \A t \in Subs : t # s => spc'[t] = spc[t]
  BY <1>1, Proceeds DEF Places
<1>4. SubsType' /\ phase'[s] = "armed" /\ \A t \in Subs : t # s => phase'[t] = phase[t]
  BY <1>1 DEF Base, SubsType
<1>5. SubscribeTypeOK'
  BY <1>1, <1>2, <1>3 DEF Base, SubscribeTypeOK, Mutex!RWTypeOK, Places
<1>6. LockInv'
  BY <1>1, <1>2, <1>3 DEF Base, LockInv, InCall
<1>7. SubInv'
  <2>1. Registered' = Registered /\ phase[s] # "new"
    BY <1>1 DEF Registered, Base, SubInv
  <2> QED BY <1>1, <1>2, <1>3, <1>4, <2>1 DEF Base, SubInv
<1> QED BY <1>1, <1>2, <1>4, <1>5, <1>6, <1>7, Frame DEF Base

LEMMA SendCurrentStateBase ==
  ASSUME Base, NEW s \in Subs, SendCurrentState(s)
  PROVE  Base'
<1>1. /\ spc[s] = "send" /\ Send(Channel[s], 0)
      /\ initial' = [initial EXCEPT ![s] = version]
      /\ Proceed(s, "sent")
      /\ UNCHANGED <<castvars, subvars, lockvars, machinevars, carries>>
  BY DEF SendCurrentState
<1>2. /\ UNCHANGED <<announced, owner, readers, queued, program, mode, version, cpc, setup, hook>>
      /\ UNCHANGED <<rigid, bpc, seq, subscribers, sub, phase, ended>>
  BY <1>1 DEF lockvars, machinevars, rigid, castvars, subvars
<1>3. /\ spc' \in [Subs -> Places] /\ spc'[s] = "sent"
      /\ \A t \in Subs : t # s => spc'[t] = spc[t]
  BY <1>1, Proceeds DEF Places
<1>4. SentType'
  BY <1>1, SendType DEF Base
<1>5. SubscribeTypeOK'
  <2>1. initial' \in [Subs -> 0..version]
    BY <1>1, Types
  <2> QED BY <1>1, <1>2, <1>3, <2>1 DEF Base, SubscribeTypeOK, Mutex!RWTypeOK, Places
<1>6. LockInv'
  BY <1>1, <1>2, <1>3 DEF Base, LockInv, InCall
<1>7. SubInv'
  <2>1. Registered' = Registered
    BY <1>2 DEF Registered
  <2> QED BY <1>1, <1>2, <1>3, <2>1 DEF Base, SubInv
<1> QED BY <1>1, <1>2, <1>4, <1>5, <1>6, <1>7, Frame DEF Base
--------------------------------------------------------------------------------
(* The clients.                                                            *)
LEMMA CleanupBase ==
  ASSUME Base, NEW s \in Subs, Cleanup(s)
  PROVE  Base'
<1>1. /\ phase[s] = "armed" /\ ended[s] /\ mu = NoOne
      /\ subscribers' = [subscribers EXCEPT ![sub[s].ch] = NoSub]
      /\ phase' = [phase EXCEPT ![s] = "removed"]
      /\ UNCHANGED <<sub, ended, since, sent, castvars, lockvars, machinevars, callvars>>
  BY DEF Cleanup, Remove, RemoveLocked
<1>2. /\ UNCHANGED <<announced, owner, readers, queued, program, mode, version, cpc, setup, hook>>
      /\ UNCHANGED <<rigid, bpc, seq, mu, todo, parked, spc, initial, carries>>
  BY <1>1 DEF lockvars, machinevars, rigid, castvars, callvars
<1>3. /\ SubsType' /\ phase'[s] = "removed"
      /\ \A t \in Subs : t # s => phase'[t] = phase[t]
      /\ \A t \in Subs : sub[t].ch \in Chans
      /\ \A d \in Chans : subscribers'[d] = IF d = sub[s].ch THEN NoSub ELSE subscribers[d]
  BY <1>1 DEF Base, SubsType
<1>4. CastInv'
  <2>1. Pending = {} /\ Pending' = {} /\ parked' = {}
    BY <1>1, <1>2 DEF Base, CastInv, Pending
  <2> QED BY <1>1, <1>2, <2>1 DEF Base, CastInv
<1>5. SubInv'
  <2>1. Registered' \subseteq Registered /\ \A t \in Registered : sub[t].ch # sub[s].ch => t \in Registered'
    BY <1>1, <1>3, Clients DEF Registered
  <2>2. \A t \in Subs : OwnChannels /\ phase'[t] # "new" /\ ~ended'[t] => t \in Registered'
    <3> SUFFICES ASSUME NEW t \in Subs, OwnChannels, phase'[t] # "new", ~ended'[t]
                 PROVE  t \in Registered'
      OBVIOUS
    <3>1. t # s /\ phase[t] # "new" /\ t \in Registered
      BY <1>1, <1>3 DEF Base, SubInv
    <3>2. sub[t].ch = Channel[t] /\ sub[s].ch = Channel[s]
      <4>1. \A r \in {s, t} : sub[r] = [ch |-> Channel[r], mode |-> mode]
        BY <1>1, <3>1 DEF Base, SubInv
      <4> QED BY <4>1
    <3>3. Channel[t] # Channel[s]
      BY <3>1 DEF OwnChannels
    <3> QED BY <2>1, <3>1, <3>2, <3>3
  <2>3. \A t \in Subs : phase'[t] = "new" <=> phase[t] = "new"
    BY <1>1, <1>3
  <2> QED BY <1>1, <1>2, <2>1, <2>2, <2>3 DEF Base, SubInv
<1> QED BY <1>1, <1>2, <1>3, <1>4, <1>5, Frame DEF Base

LEMMA ClientsBase ==
  ASSUME Base, NEW s \in Subs,
         Consume(s) \/ ((StartReceive(Channel[s]) \/ CancelContext(s))
                          /\ UNCHANGED <<lockvars, machinevars, callvars>>)
  PROVE  Base'
<1>1. /\ UNCHANGED <<sent, castvars, lockvars, machinevars, callvars, subscribers, sub, phase>>
      /\ UNCHANGED ended \/ ended' = [ended EXCEPT ![s] = TRUE]
  BY DEF Consume, FinishReceive, StartReceive, CancelContext, subvars, chanvars
<1>2. /\ UNCHANGED <<owner, version, cpc, mode, setup, hook, rigid, bpc, seq, spc, carries>>
  BY <1>1 DEF lockvars, machinevars, rigid, castvars, callvars
<1>3. SubsType' /\ \A t \in Subs : ~ended'[t] => ~ended[t]
  BY <1>1 DEF Base, SubsType
<1>4. SubInv'
  <2>1. Registered' = Registered
    BY <1>1 DEF Registered
  <2> QED BY <1>1, <1>2, <1>3, <2>1 DEF Base, SubInv
<1> QED BY <1>1, <1>2, <1>3, <1>4, Frame DEF Base

LEMMA RemoveBroadcastHookBase ==
  ASSUME Base, RemoveBroadcastHook
  PROVE  Base'
<1>1. /\ hook = "registered" /\ hook' = "removed"
      /\ UNCHANGED <<vars, lockvars, rigid, version, cpc, setup, callvars>>
  BY DEF RemoveBroadcastHook
<1>2. /\ UNCHANGED <<announced, owner, readers, queued, program, mode, spc, initial, carries>>
      /\ UNCHANGED <<subscribers, sub, castvars, seq, phase, ended, bpc>>
  BY <1>1 DEF lockvars, rigid, vars, castvars, subvars, callvars
<1>3. SubscribeTypeOK'
  BY <1>1, <1>2 DEF Base, SubscribeTypeOK, Mutex!RWTypeOK
<1>4. SubInv'
  <2>1. Registered' = Registered
    BY <1>2 DEF Registered
  <2> QED BY <1>1, <1>2, <2>1 DEF Base, SubInv
<1> QED BY <1>1, <1>2, <1>3, <1>4, Frame DEF Base

LEMMA NextBase ==
  ASSUME Base, [SubscribeNext]_allvars
  PROVE  Base'
<1>1. ASSUME NEW p \in Callers, \/ Announce(p) \/ ChangeStep(p)
                                \/ ForeignTransition(p) \/ BeginBroadcast(p)
      PROVE  Base'
  BY <1>1, AnnounceBase, StoreBase, RunHooksBase, ReleaseWriterBase,
     ForeignTransitionBase, BeginBroadcastBase DEF ChangeStep
<1>2. ASSUME NEW s \in Subs, SetUp(s) \/ SubscribeStep(s) \/ Cleanup(s) \/ Consume(s)
      PROVE  Base'
  BY <1>2, SetUpBase, LockStepsBase, SubscribeChannelBase, WatchContextBase,
     SendCurrentStateBase, CleanupBase, ClientsBase DEF SubscribeStep
<1>3. ASSUME ManagerStep PROVE Base'
  BY <1>3, VisitBase, DeliverBase, FinishBroadcastBase DEF ManagerStep, Callers
<1>4. ASSUME ClientStep PROVE Base'
  BY <1>4, ClientsBase DEF ClientStep
<1>5. ASSUME UNCHANGED allvars PROVE Base'
  <2>1. UNCHANGED <<vars, subvars, castvars, sent, subscribers, sub, bpc, seq, owner,
                    carries, spc, rigid, version, cpc, mode, setup, hook>>
    BY <1>5 DEF allvars, vars, subvars, castvars, chanvars, lockvars, machinevars, rigid, callvars
  <2>2. UNCHANGED <<lockvars, machinevars, callvars>>
    BY <1>5 DEF allvars
  <2> QED BY <2>1, <2>2, Frame DEF Base
<1> QED BY <1>1, <1>2, <1>3, <1>4, <1>5, RemoveBroadcastHookBase DEF SubscribeNext

(* The variables keep their types: no change is announced beyond those the *)
(* program may make, and every broadcast has the state it carries on       *)
(* record.                                                                 *)
THEOREM SubscribeTypeCorrect == SubscribeSpec => []SubscribeTypeOK
<1>1. SubscribeSpec => []Base
  BY InitBase, NextBase, PTL DEF SubscribeSpec
<1>2. Base => SubscribeTypeOK
  BY DEF Base
<1> QED BY <1>1, <1>2, PTL
--------------------------------------------------------------------------------
(* What is sent to a subscriber.                                           *)
LEMMA AppendOwn ==
  ASSUME NEW q \in Seq(Nat), NEW v \in Nat, Increasing(q),
         v # 0 => \A u \in Own(q) : u < v
  PROVE  /\ Own(Append(q, v)) = Own(q) \cup ({v} \ {0})
         /\ Increasing(Append(q, v))
<1> DEFINE r == Append(q, v)
           l == Len(q)
<1>1. /\ l \in Nat /\ DOMAIN q = 1..l /\ DOMAIN r = 1..l + 1
      /\ \A i \in 1..l : r[i] = q[i] /\ q[i] \in Nat
      /\ r[l + 1] = v
  OBVIOUS
<1> HIDE DEF r, l
<1>2. \A i \in 1..l + 1 : i \in 1..l \/ i = l + 1
  BY <1>1
<1>3. Own(r) = Own(q) \cup ({v} \ {0})
  <2>1. ASSUME NEW u \in Own(r) PROVE u \in Own(q) \cup ({v} \ {0})
    BY <1>1, <1>2, <2>1 DEF Own
  <2>2. ASSUME NEW u \in Own(q) \cup ({v} \ {0}) PROVE u \in Own(r)
    <3>1. 1..l \subseteq 1..l + 1 /\ l + 1 \in 1..l + 1
      BY <1>1
    <3> QED BY <1>1, <3>1 DEF Own
  <2> QED BY <2>1, <2>2
<1>4. Increasing(r)
  <2> SUFFICES ASSUME NEW i \in 1..l + 1, NEW j \in 1..l + 1, i < j, r[i] # 0, r[j] # 0
               PROVE  r[i] < r[j]
    BY <1>1 DEF Increasing
  <2>1. i \in 1..l
    BY <1>1
  <2>2. CASE j \in 1..l
    BY <1>1, <2>1, <2>2 DEF Increasing
  <2>3. CASE j = l + 1
    <3>1. q[i] \in Own(q)
      BY <1>1, <2>1 DEF Own
    <3> QED BY <1>1, <2>1, <2>3, <3>1
  <2> QED BY <1>2, <2>2, <2>3
<1> QED BY <1>3, <1>4 DEF r

LEMMA SentTypes ==
  ASSUME Base, NEW s \in Subs, HeardBy(s)
  PROVE  /\ sent[Channel[s]] \in Seq(Nat) /\ Len(sent[Channel[s]]) \in Nat
         /\ \A i \in 1..Len(sent[Channel[s]]) : sent[Channel[s]][i] \in 0..seq
         /\ \A n \in 0..seq : StateOf(s, n) \in 0..version
         /\ StatesSent(s) \in Seq(Nat) /\ Own(StatesSent(s)) \subseteq 1..version
<1> DEFINE q == sent[Channel[s]]
<1>1. q \in Seq(Nat)
  BY Clients DEF Base, SentType
<1>2. Len(q) \in Nat /\ \A i \in 1..Len(q) : q[i] \in Nat
  BY <1>1
<1>3. \A i \in 1..Len(q) : q[i] <= seq
  BY DEF HeardBy
<1>4. seq \in Nat /\ \A i \in 1..Len(q) : q[i] \in 0..seq
  BY <1>2, <1>3, Types
<1>5. \A n \in 0..seq : StateOf(s, n) \in 0..version
  <2>1. initial[s] \in 0..version /\ \A n \in 1..seq : carries[n] \in 0..version
    BY Types
  <2> QED BY <1>4, <2>1 DEF StateOf
<1> HIDE DEF q
<1>6. StatesSent(s) = [i \in 1..Len(q) |-> StateOf(s, q[i])]
  BY DEF StatesSent, q
<1>7. \A i \in 1..Len(q) : StateOf(s, q[i]) \in Nat /\ StateOf(s, q[i]) \in 0..version
  BY <1>4, <1>5, Types
<1>8. StatesSent(s) \in [1..Len(q) -> Nat]
  BY <1>6, <1>7
<1>9. StatesSent(s) \in Seq(Nat)
  BY <1>2, <1>8
<1>10. Own(StatesSent(s)) \subseteq 1..version
  BY <1>6, <1>7, Types DEF Own
<1> QED BY <1>1, <1>2, <1>4, <1>5, <1>9, <1>10 DEF q

(* The states that the numbers of q stand for.                             *)
States(q, c, v) == [i \in 1..Len(q) |-> IF q[i] = 0 THEN v ELSE c[q[i]]]

LEMMA StatesAre ==
  ASSUME NEW s \in Subs
  PROVE  /\ StatesSent(s) = States(sent[Channel[s]], carries, initial[s])
         /\ StatesSent(s)' = States(sent'[Channel[s]], carries', initial'[s])
  BY Zenon DEF StatesSent, StateOf, States

LEMMA StatesSame ==
  ASSUME NEW q, NEW c, NEW d, NEW v, \A i \in 1..Len(q) : q[i] # 0 => d[q[i]] = c[q[i]]
  PROVE  States(q, d, v) = States(q, c, v)
  BY Zenon DEF States

LEMMA StatesAppend ==
  ASSUME NEW q \in Seq(Nat), NEW n \in Nat, NEW c, NEW v, NEW w,
         v = w \/ \A i \in 1..Len(q) : q[i] # 0,
         States(q, c, v) \in Seq(Nat), (IF n = 0 THEN w ELSE c[n]) \in Nat
  PROVE  States(Append(q, n), c, w) = Append(States(q, c, v), IF n = 0 THEN w ELSE c[n])
<1> DEFINE r == Append(q, n)
           l == Len(q)
           a == States(q, c, v)
           b == States(r, c, w)
           x == IF n = 0 THEN w ELSE c[n]
<1>1. l \in Nat /\ Len(r) = l + 1 /\ (\A i \in 1..l : r[i] = q[i]) /\ r[l + 1] = n
  OBVIOUS
<1> HIDE DEF r, l
<1>2. a = [i \in 1..l |-> a[i]] /\ \A i \in 1..l : a[i] = IF q[i] = 0 THEN v ELSE c[q[i]]
  BY DEF States, l
<1>3. b = [i \in 1..l + 1 |-> b[i]]
      /\ \A i \in 1..l + 1 : b[i] = IF r[i] = 0 THEN w ELSE c[r[i]]
  BY <1>1 DEF States
<1>4. \A i \in 1..l : b[i] = a[i]
  <2> HIDE DEF a, b
  <2> SUFFICES ASSUME NEW i \in 1..l PROVE b[i] = a[i]
    OBVIOUS
  <2>1. i \in 1..l + 1 /\ (v = w \/ q[i] # 0)
    BY <1>1 DEF l
  <2>2. b[i] = IF q[i] = 0 THEN w ELSE c[q[i]]
    BY <1>1, <1>3, <2>1, Zenon
  <2>3. a[i] = IF q[i] = 0 THEN v ELSE c[q[i]]
    BY <1>2, Zenon
  <2> QED BY <2>1, <2>2, <2>3, Zenon
<1>5. b[l + 1] = x
  <2>1. l + 1 \in 1..l + 1
    BY <1>1
  <2> HIDE DEF b
  <2> QED BY <1>1, <1>3, <2>1
<1>6. Len(a) = l
  BY <1>1 DEF States, l
<1> HIDE DEF a, b, x
<1>7. a \in Seq(Nat) /\ x \in Nat
  BY DEF a, x
<1> DEFINE e == Append(a, x)
<1>8. /\ e = [i \in 1..l + 1 |-> e[i]] /\ e[l + 1] = x
      /\ \A i \in 1..l : e[i] = a[i]
  <2>1. /\ e \in Seq(Nat) /\ Len(e) = l + 1 /\ e[l + 1] = x
        /\ \A i \in 1..l : e[i] = a[i]
    BY <1>6, <1>7
  <2> HIDE DEF e
  <2> QED BY <2>1
<1> HIDE DEF e
<1>9. \A i \in 1..l + 1 : b[i] = e[i]
  <2>1. \A i \in 1..l + 1 : i \in 1..l \/ i = l + 1
    BY <1>1
  <2> QED BY <1>4, <1>5, <1>8, <2>1
<1>10. b = e
  BY <1>3, <1>8, <1>9, Zenon
<1> QED BY <1>10 DEF a, b, e, x, r
--------------------------------------------------------------------------------
(* Steps that send nothing to s.  Those that leave the lock and the        *)
(* broadcast alone change nothing for any subscriber.                      *)
LEMMA NothingHeard ==
  ASSUME Base, NEW s \in Subs, HeardBy(s),
         sent'[Channel[s]] = sent[Channel[s]], initial'[s] = initial[s],
         UNCHANGED <<version, mode>>, seq' \in Nat, seq <= seq',
         \A n \in 1..seq : carries'[n] = carries[n],
         Started(s)' <=> Started(s), spc[s] = "error" => spc'[s] = "error",
         Due(s)' => Due(s),
         Started(s) /\ ~ended'[s] /\ mode = "guaranteed" /\ hook' # "removed" =>
           ~ended[s] /\ hook # "removed" /\ (Due(s)' <=> Due(s))
  PROVE  HeardBy(s)'
<1>1. StatesSent(s)' = StatesSent(s)
  <2> DEFINE q == sent[Channel[s]]
  <2>1. q \in Seq(Nat) /\ seq \in Nat /\ \A i \in 1..Len(q) : q[i] \in 0..seq
    BY SentTypes, Types
  <2> HIDE DEF q
  <2>2. \A i \in 1..Len(q) : q[i] # 0 => carries'[q[i]] = carries[q[i]]
    BY <2>1
  <2>3. States(q, carries', initial[s]) = States(q, carries, initial[s])
    BY <2>2, StatesSame
  <2> QED BY <2>3, StatesAre DEF q
<1>2. \A i \in 1..Len(sent[Channel[s]]) : sent[Channel[s]][i] \in 0..seq
  BY SentTypes
<1>3. \A i \in 1..Len(sent'[Channel[s]]) :
        sent'[Channel[s]][i] <= seq' /\ (~Started(s)' => sent'[Channel[s]][i] # 0)
  BY <1>2, Types DEF HeardBy
<1>4. Increasing(StatesSent(s)') /\ Own(StatesSent(s)') = Own(StatesSent(s))
  BY <1>1 DEF HeardBy
<1>5. \A v \in Own(StatesSent(s)) : v <= version' /\ (Due(s)' => v < version')
  BY DEF HeardBy
<1>6. Started(s)' => /\ initial'[s] \in Own(StatesSent(s))
                     /\ \A v \in Own(StatesSent(s)) : initial'[s] <= v
  BY DEF HeardBy
<1>7. ~Started(s)' /\ spc'[s] # "error" => Own(StatesSent(s)) = {}
  BY DEF HeardBy
<1>8. Started(s)' /\ ~ended'[s] /\ mode' = "guaranteed" /\ hook' # "removed" =>
        Own(StatesSent(s)) = initial'[s]..(IF Due(s)' THEN version' - 1 ELSE version')
  BY DEF HeardBy
<1> QED BY <1>3, <1>4, <1>5, <1>6, <1>7, <1>8, Zenon DEF HeardBy

LEMMA QuietHeard ==
  ASSUME Base, HeardInv,
         UNCHANGED <<sent, initial, seq, carries, version, mode>>,
         UNCHANGED <<owner, cpc, bpc, mu, todo, parked>>,
         \A s \in Subs :
           /\ Started(s)' <=> Started(s)
           /\ spc[s] = "error" => spc'[s] = "error"
           /\ Started(s) /\ ~ended'[s] /\ hook' # "removed" => ~ended[s] /\ hook # "removed"
  PROVE  HeardInv'
<1> SUFFICES ASSUME NEW s \in Subs PROVE HeardBy(s)'
  BY DEF HeardInv
<1>1. Due(s)' <=> Due(s)
  BY DEF Due, Pending
<1>2. HeardBy(s) /\ seq \in Nat
  BY Types DEF HeardInv
<1> QED BY <1>1, <1>2, NothingHeard

(* Steps of the lock and of a broadcast before and after its sends.        *)
LEMMA DueHeard ==
  ASSUME Base, HeardInv,
         UNCHANGED <<sent, initial, version, mode, spc, ended, hook>>,
         seq' \in Nat, seq <= seq', \A n \in 1..seq : carries'[n] = carries[n],
         \A s \in Subs :
           /\ Due(s)' => Due(s)
           /\ Due(s) /\ Started(s) /\ ~ended[s] /\ mode = "guaranteed" /\ hook # "removed"
                => Due(s)'
  PROVE  HeardInv'
<1> SUFFICES ASSUME NEW s \in Subs PROVE HeardBy(s)'
  BY DEF HeardInv
<1>1. HeardBy(s) /\ (Started(s)' <=> Started(s)) /\ (spc[s] = "error" => spc'[s] = "error")
  BY DEF HeardInv, Started
<1>2. Due(s)' => Due(s)
  BY Zenon DEF Due
<1>3. Started(s) /\ ~ended'[s] /\ mode = "guaranteed" /\ hook' # "removed" =>
        ~ended[s] /\ hook # "removed" /\ (Due(s)' <=> Due(s))
  BY Zenon DEF Due
<1> QED BY <1>1, <1>2, <1>3, NothingHeard

LEMMA CallersHeard ==
  ASSUME OwnChannels, Base, HeardInv, NEW p \in Callers,
         \/ Announce(p) \/ RunHooks(p) \/ ReleaseWriter(p)
         \/ ForeignTransition(p) \/ BeginBroadcast(p)
  PROVE  HeardInv'
<1>1. /\ LockInv /\ CastInv /\ cpc \in [Callers -> {"idle", "announced", "stored", "hooks"}]
      /\ bpc \in [Callers -> {"idle", "lock", "locked"}] /\ seq \in Nat
      /\ owner # NoProc => owner \in Callers
      /\ NoProc \notin Callers /\ NoOne \notin Callers
  BY Clients DEF Base, SubscribeTypeOK, CastType, Callers, LockInv
<1>2. CASE Announce(p)
  <2>1. /\ announced = NoProc /\ UNCHANGED <<vars, owner, carries, initial, spc, mode, version, hook>>
    BY <1>2 DEF Announce, Mutex!AnnounceLock, callvars, rigid
  <2>2. UNCHANGED <<sent, ended, seq>> /\ owner = NoProc
    BY <1>1, <2>1, Zenon DEF vars, chanvars, subvars, castvars, LockInv
  <2>3. \A s \in Subs : ~Due(s) /\ ~Due(s)'
    BY <2>1, <2>2 DEF Due
  <2> QED BY <1>1, <2>1, <2>2, <2>3, DueHeard
<1>3. CASE RunHooks(p)
  <2>1. /\ cpc[p] = "stored" /\ cpc' = [cpc EXCEPT ![p] = "hooks"]
        /\ IF hook = "registered" THEN bpc' = [bpc EXCEPT ![p] = "lock"] ELSE UNCHANGED bpc
        /\ UNCHANGED <<lockvars, mode, version, hook, callvars, subvars, chanvars, mu, seq, todo, parked>>
    BY <1>3 DEF RunHooks, CallBroadcast, Come, rigid, vars, castvars
  <2>2. UNCHANGED <<owner, carries, initial, spc, sent, ended>>
    BY <2>1 DEF lockvars, callvars, chanvars, subvars
  <2>3. owner = p
    BY <1>1, <2>1 DEF LockInv
  <2>4. \A s \in Subs : Due(s)
    BY <1>1, <2>1, <2>3 DEF Due
  <2>5. \A s \in Subs : Started(s) /\ hook # "removed" => Due(s)'
    <3>1. \A s \in Subs : Started(s) => hook # "absent"
      BY DEF Base, SubInv, Started
    <3>2. hook \in {"absent", "registered", "removed"}
      BY DEF Base, SubscribeTypeOK
    <3>3. hook = "registered" => bpc'[p] = "lock"
      BY <1>1, <2>1
    <3> QED BY <1>1, <2>2, <2>3, <3>1, <3>2, <3>3 DEF Due
  <2> QED BY <1>1, <2>1, <2>2, <2>4, <2>5, DueHeard
<1>4. CASE ReleaseWriter(p)
  <2>1. /\ cpc[p] = "hooks" /\ bpc[p] = "idle" /\ owner = p /\ owner' = NoProc
        /\ UNCHANGED <<vars, mode, version, hook, carries, initial, spc>>
    BY <1>4 DEF ReleaseWriter, Mutex!ReleaseLock, rigid, callvars
  <2>2. UNCHANGED <<sent, ended, seq>>
    BY <2>1 DEF vars, chanvars, subvars, castvars
  <2>3. mu # p
    BY <1>1, <2>1 DEF CastInv, Callers
  <2>4. \A s \in Subs : ~Due(s) /\ ~Due(s)'
    BY <2>1, <2>3 DEF Due
  <2> QED BY <1>1, <2>1, <2>2, <2>4, DueHeard
<1>5. CASE ForeignTransition(p)
  <2>1. /\ cpc[p] = "idle" /\ bpc' = [bpc EXCEPT ![p] = "lock"]
        /\ UNCHANGED <<lockvars, machinevars, callvars, subvars, chanvars, mu, seq, todo, parked>>
    BY <1>5 DEF ForeignTransition, Idle, CallBroadcast
  <2>2. UNCHANGED <<owner, cpc, carries, initial, spc, sent, ended, mode, version, hook>>
    BY <2>1 DEF lockvars, machinevars, rigid, callvars, chanvars, subvars
  <2>3. owner # p
    BY <1>1, <2>1 DEF LockInv
  <2>4. \A s \in Subs : Due(s)' <=> Due(s)
    <3>1. owner # NoProc => bpc'[owner] = bpc[owner]
      BY <1>1, <2>1, <2>3
    <3> QED BY <2>1, <2>2, <3>1 DEF Due, Pending
  <2> QED BY <1>1, <2>1, <2>2, <2>4, DueHeard
<1>6. CASE BeginBroadcast(p)
  <2>1. /\ bpc[p] = "lock" /\ mu = NoOne /\ mu' = p /\ bpc' = [bpc EXCEPT ![p] = "locked"]
        /\ seq' = seq + 1 /\ todo' = Registered
        /\ carries' = Append(carries, IF cpc[p] = "hooks" THEN version ELSE 0)
        /\ UNCHANGED <<parked, chanvars, subvars, lockvars, machinevars, spc, initial>>
    BY <1>6 DEF BeginBroadcast, LockBroadcast
  <2>2. UNCHANGED <<owner, cpc, initial, spc, sent, ended, mode, version, hook>>
    BY <2>1 DEF lockvars, machinevars, rigid, chanvars, subvars
  <2>3. \A n \in 1..seq : carries'[n] = carries[n]
    <3> DEFINE v == IF cpc[p] = "hooks" THEN version ELSE 0
    <3>1. carries \in Seq(Nat) /\ Len(carries) = seq /\ v \in Nat
      BY Types
    <3> HIDE DEF v
    <3>2. \A n \in 1..seq : Append(carries, v)[n] = carries[n]
      BY <3>1
    <3> QED BY <2>1, <3>2 DEF v
  <2>4. ASSUME NEW s \in Subs
        PROVE  /\ Due(s)' => Due(s)
               /\ Due(s) /\ Started(s) /\ ~ended[s] /\ hook # "removed" => Due(s)'
    <3>1. CASE owner = p
      <4>1. Due(s)
        BY <1>1, <2>1, <3>1 DEF Due
      <4>2. Started(s) /\ ~ended[s] => s \in Pending'
        BY <2>1 DEF Base, SubInv, Started, Pending
      <4> QED BY <1>1, <2>1, <2>2, <3>1, <4>1, <4>2 DEF Due
    <3>2. CASE owner # p
      <4>1. owner # NoProc => bpc'[owner] = bpc[owner] /\ mu # owner
        BY <1>1, <2>1, <3>2
      <4> QED BY <2>1, <2>2, <3>2, <4>1 DEF Due
    <3> QED BY <3>1, <3>2
  <2>5. seq' \in Nat /\ seq <= seq'
    BY <1>1, <2>1
  <2> QED BY <2>2, <2>3, <2>4, <2>5, DueHeard
<1> QED BY <1>2, <1>3, <1>4, <1>5, <1>6

(* The change that stores a state owes it to every subscriber.             *)
LEMMA StoreHeard ==
  ASSUME Base, HeardInv, NEW p \in Callers, Store(p)
  PROVE  HeardInv'
<1> SUFFICES ASSUME NEW s \in Subs PROVE HeardBy(s)'
  BY DEF HeardInv
<1>1. /\ owner = NoProc /\ owner' = p /\ version' = version + 1
      /\ cpc[p] = "announced" /\ cpc' = [cpc EXCEPT ![p] = "stored"]
      /\ UNCHANGED <<vars, mode, hook, spc, initial, carries>>
  BY DEF Store, Mutex!AcquireLock, Come, rigid, callvars
<1>2. UNCHANGED <<sent, ended, seq>>
  BY <1>1 DEF vars, chanvars, subvars, castvars
<1>3. HeardBy(s) /\ version \in Nat /\ Own(StatesSent(s)) \subseteq 1..version
  BY SentTypes, Types DEF HeardInv
<1>4. StatesSent(s)' = StatesSent(s)
  BY <1>1, <1>2 DEF StatesSent, StateOf
<1>5. ~Due(s) /\ Due(s)'
  <2>1. cpc'[p] = "stored" /\ p # NoProc
    BY <1>1, Clients DEF Base, SubscribeTypeOK
  <2> QED BY <1>1, <2>1 DEF Due
<1>6. Started(s)' <=> Started(s)
  BY <1>1 DEF Started
<1>7. \A v \in Own(StatesSent(s)) : v <= version' /\ v < version'
  BY <1>1, <1>3
<1>8. (IF Due(s)' THEN version' - 1 ELSE version') = IF Due(s) THEN version - 1 ELSE version
  BY <1>1, <1>3, <1>5
<1>9. \A i \in 1..Len(sent'[Channel[s]]) :
        sent'[Channel[s]][i] <= seq' /\ (~Started(s)' => sent'[Channel[s]][i] # 0)
  BY <1>2, <1>3, <1>6 DEF HeardBy
<1>10. Started(s)' /\ ~ended'[s] /\ mode' = "guaranteed" /\ hook' # "removed" =>
         Own(StatesSent(s)) = initial'[s]..(IF Due(s)' THEN version' - 1 ELSE version')
  BY <1>1, <1>2, <1>3, <1>6, <1>8 DEF HeardBy
<1>11. /\ Started(s)' => /\ initial'[s] \in Own(StatesSent(s))
                         /\ \A v \in Own(StatesSent(s)) : initial'[s] <= v
       /\ ~Started(s)' /\ spc'[s] # "error" => Own(StatesSent(s)) = {}
       /\ Increasing(StatesSent(s))
  BY <1>1, <1>3, <1>6 DEF HeardBy
<1> QED BY <1>4, <1>7, <1>9, <1>10, <1>11, Zenon DEF HeardBy
--------------------------------------------------------------------------------
(* A send appends a state to what the subscriber has been sent.            *)
LEMMA StateSent ==
  ASSUME Base, NEW s \in Subs, HeardBy(s), NEW n \in 0..seq, Send(Channel[s], n),
         carries' = carries, initial'[s] \in Nat, initial'[s] = initial[s] \/ ~Started(s),
         NEW v \in Nat, v = IF n = 0 THEN initial'[s] ELSE carries[n],
         v # 0 => \A u \in Own(StatesSent(s)) : u < v
  PROVE  /\ Own(StatesSent(s)') = Own(StatesSent(s)) \cup ({v} \ {0})
         /\ Increasing(StatesSent(s)')
         /\ \A i \in 1..Len(sent'[Channel[s]]) :
              sent'[Channel[s]][i] = n \/ \E j \in 1..Len(sent[Channel[s]]) :
                sent'[Channel[s]][i] = sent[Channel[s]][j]
<1> DEFINE q == sent[Channel[s]]
           r == sent'[Channel[s]]
<1>1. q \in Seq(Nat) /\ n \in Nat /\ StatesSent(s) \in Seq(Nat)
  BY SentTypes, Types
<1>2. r = Append(q, n)
  BY Clients DEF Send, Base, SentType
<1>3. initial[s] = initial'[s] \/ \A i \in 1..Len(q) : q[i] # 0
  BY DEF HeardBy
<1>4. StatesSent(s) = States(q, carries, initial[s])
      /\ StatesSent(s)' = States(r, carries, initial'[s])
  BY StatesAre
<1> HIDE DEF q, r
<1>5. StatesSent(s)' = Append(StatesSent(s), v)
  BY <1>1, <1>2, <1>3, <1>4, StatesAppend
<1>6. \A i \in 1..Len(r) : r[i] = n \/ \E j \in 1..Len(q) : r[i] = q[j]
  BY <1>1, <1>2
<1>7. Increasing(StatesSent(s))
  BY DEF HeardBy
<1> QED BY <1>1, <1>5, <1>6, <1>7, AppendOwn DEF q, r

(* The initial send: no change is under way, and none has been broadcast   *)
(* to this subscriber.                                                     *)
LEMMA SendCurrentStateHeard ==
  ASSUME OwnChannels, Base, HeardInv, NEW t \in Subs, SendCurrentState(t)
  PROVE  HeardInv'
<1> SUFFICES ASSUME NEW s \in Subs PROVE HeardBy(s)'
  BY DEF HeardInv
<1>1. /\ spc[t] = "send" /\ Send(Channel[t], 0)
      /\ initial' = [initial EXCEPT ![t] = version]
      /\ Proceed(t, "sent")
      /\ UNCHANGED <<castvars, subvars, lockvars, machinevars, carries>>
  BY DEF SendCurrentState
<1>2. /\ UNCHANGED <<owner, mode, version, cpc, hook, bpc, seq, mu, todo, parked, ended>>
  BY <1>1 DEF lockvars, machinevars, rigid, castvars, subvars
<1>3. /\ spc'[t] = "sent"
      /\ \A r \in Subs : r # t => spc'[r] = spc[r]
  BY <1>1, Proceeds DEF Places
<1>4. /\ initial'[t] = version /\ \A r \in Subs : r # t => initial'[r] = initial[r]
      /\ version \in Nat \ {0} /\ seq \in Nat
  BY <1>1, Types
<1>5. HeardBy(s)
  BY DEF HeardInv
<1>6. CASE s # t
  <2>1. sent'[Channel[s]] = sent[Channel[s]]
    BY <1>1, <1>6, Clients DEF Send, Base, SentType, OwnChannels
  <2>2. Due(s)' <=> Due(s)
    BY <1>2 DEF Due, Pending
  <2>3. (Started(s)' <=> Started(s)) /\ (spc[s] = "error" => spc'[s] = "error")
    BY <1>3, <1>6 DEF Started
  <2> QED BY <1>1, <1>2, <1>4, <1>5, <1>6, <2>1, <2>2, <2>3, NothingHeard
<1>7. CASE s = t
  <2>1. ~Started(s) /\ Started(s)' /\ Own(StatesSent(s)) = {}
    BY <1>1, <1>3, <1>5, <1>7 DEF Started, HeardBy
  <2>2. 0 \in 0..seq
    BY <1>4
  <2>3. /\ Own(StatesSent(s)') = {version} /\ Increasing(StatesSent(s)')
        /\ \A i \in 1..Len(sent'[Channel[s]]) :
             sent'[Channel[s]][i] = 0 \/ \E j \in 1..Len(sent[Channel[s]]) :
               sent'[Channel[s]][i] = sent[Channel[s]][j]
    <3>1. /\ Own(StatesSent(s)') = Own(StatesSent(s)) \cup ({version} \ {0})
          /\ Increasing(StatesSent(s)')
          /\ \A i \in 1..Len(sent'[Channel[s]]) :
               sent'[Channel[s]][i] = 0 \/ \E j \in 1..Len(sent[Channel[s]]) :
                 sent'[Channel[s]][i] = sent[Channel[s]][j]
      BY <1>1, <1>4, <1>5, <1>7, <2>1, <2>2, StateSent
    <3> QED BY <1>4, <2>1, <3>1
  <2>4. ~Due(s)'
    <3>1. s \in readers
      BY <1>1, <1>7 DEF Base, LockInv, InCall
    <3>2. owner = NoProc
      BY <3>1 DEF Base, LockInv
    <3> QED BY <1>2, <3>2 DEF Due
  <2>5. \A i \in 1..Len(sent'[Channel[s]]) : sent'[Channel[s]][i] <= seq'
    BY <1>2, <1>4, <1>5, <2>3 DEF HeardBy
  <2>6. version..version = {version}
    BY <1>4
  <2> QED BY <1>2, <1>4, <1>7, <2>1, <2>3, <2>4, <2>5, <2>6 DEF HeardBy
<1> QED BY <1>6, <1>7

(* The broadcast sends to t, which it owed a state until then.             *)
LEMMA SendHeard ==
  ASSUME OwnChannels, Base, HeardInv, NEW t \in Pending, Send(sub[t].ch, seq),
         Pending' = Pending \ {t}, UNCHANGED <<mu, bpc, seq, ended>>,
         UNCHANGED <<lockvars, machinevars, callvars>>
  PROVE  HeardInv'
<1> SUFFICES ASSUME NEW s \in Subs PROVE HeardBy(s)'
  BY DEF HeardInv
<1>1. /\ UNCHANGED <<owner, mode, version, cpc, hook, spc, initial, carries>>
  BY DEF lockvars, machinevars, rigid, callvars
<1>2. /\ t \in Subs /\ t \in Registered /\ phase[t] # "new" /\ sub[t].ch = Channel[t]
  <2>1. t \in Registered /\ t \in Subs /\ phase[t] # "new"
    BY DEF Base, CastInv, SubInv, Registered
  <2>2. sub[t] = [ch |-> Channel[t], mode |-> mode]
    BY <2>1 DEF Base, SubInv
  <2> QED BY <2>1, <2>2
<1>3. /\ mu \in Callers /\ seq \in Nat \ {0} /\ mu # NoProc
      /\ carries[seq] = IF mu = owner THEN version ELSE 0
      /\ bpc[mu] = "locked"
  BY Clients, Types DEF Base, CastInv, CastType
<1>4. version \in Nat \ {0} /\ initial[s] \in Nat
  BY Types
<1>5. HeardBy(s) /\ (Started(s)' <=> Started(s))
  BY <1>1 DEF HeardInv, Started
<1>6. CASE s # t
  <2>1. sent'[Channel[s]] = sent[Channel[s]]
    BY <1>2, <1>6, Clients DEF Send, Base, SentType, OwnChannels
  <2>2. Due(s)' <=> Due(s)
    BY <1>1, <1>6 DEF Due
  <2> QED BY <1>1, <1>3, <1>5, <2>1, <2>2, NothingHeard
<1>7. CASE s = t
  <2> DEFINE v == IF mu = owner THEN version ELSE 0
  <2>1. mu = owner => Due(s)
    BY <1>3, <1>7 DEF Due
  <2>2. v \in Nat /\ v = carries[seq] /\ seq \in 0..seq /\ seq # 0
    BY <1>3, <1>4
  <2>3. v # 0 => \A u \in Own(StatesSent(s)) : u < v
    BY <1>5, <2>1 DEF HeardBy
  <2> HIDE DEF v
  <2>4. /\ Own(StatesSent(s)') = Own(StatesSent(s)) \cup ({v} \ {0})
        /\ Increasing(StatesSent(s)')
        /\ \A i \in 1..Len(sent'[Channel[s]]) :
             sent'[Channel[s]][i] = seq \/ \E j \in 1..Len(sent[Channel[s]]) :
               sent'[Channel[s]][i] = sent[Channel[s]][j]
    BY <1>1, <1>2, <1>4, <1>5, <1>7, <2>2, <2>3, StateSent
  <2>5. \A i \in 1..Len(sent'[Channel[s]]) :
          sent'[Channel[s]][i] <= seq' /\ (~Started(s)' => sent'[Channel[s]][i] # 0)
    BY <1>3, <1>5, <2>4 DEF HeardBy
  <2>6. CASE mu # owner
    <3>1. v = 0 /\ Own(StatesSent(s)') = Own(StatesSent(s))
      BY <2>4, <2>6 DEF v
    <3>2. Due(s)' <=> Due(s)
      BY <1>1, <2>6 DEF Due
    <3>3. /\ \A u \in Own(StatesSent(s)) : u <= version' /\ (Due(s)' => u < version')
          /\ Started(s)' => /\ initial'[s] \in Own(StatesSent(s))
                            /\ \A u \in Own(StatesSent(s)) : initial'[s] <= u
          /\ ~Started(s)' /\ spc'[s] # "error" => Own(StatesSent(s)) = {}
          /\ Started(s)' /\ ~ended'[s] /\ mode' = "guaranteed" /\ hook' # "removed" =>
               Own(StatesSent(s)) = initial'[s]..(IF Due(s)' THEN version' - 1 ELSE version')
      BY <1>1, <1>5, <3>2 DEF HeardBy
    <3> QED BY <2>4, <2>5, <3>1, <3>3, Zenon DEF HeardBy
  <2>7. CASE mu = owner
    <3>1. Own(StatesSent(s)') = Own(StatesSent(s)) \cup {version}
      BY <1>4, <2>4, <2>7 DEF v
    <3>2. ~Due(s)'
      <4>1. cpc[mu] # "stored"
        BY <1>3 DEF Base, LockInv
      <4> QED BY <1>1, <1>3, <1>7, <2>7, <4>1 DEF Due
    <3>3. Due(s) /\ Own(StatesSent(s)) \subseteq 1..version
      BY <1>5, <2>1, <2>7, SentTypes
    <3>4. Started(s) \/ spc[s] = "error"
      <4>1. readers = {}
        BY <1>3, <2>7 DEF Base, LockInv
      <4>2. spc[s] \notin {"idle", "rlock", "register", "arm", "send", "sent", "failed"}
        BY <1>2, <1>7, <4>1 DEF Base, LockInv, InCall, SubInv
      <4>3. spc[s] \in {"idle", "rlock", "register", "arm", "send", "sent", "failed", "ok", "error"}
        BY DEF Base, SubscribeTypeOK
      <4> QED BY <4>2, <4>3 DEF Started
    <3>5. \A u \in Own(StatesSent(s)') : u <= version'
      BY <1>1, <1>4, <3>1, <3>3
    <3>6. Started(s)' => /\ initial'[s] \in Own(StatesSent(s)')
                        /\ \A u \in Own(StatesSent(s)') : initial'[s] <= u
      <4>1. Started(s) => initial[s] \in Own(StatesSent(s)) /\ initial[s] <= version
        BY <1>4, <1>5, <3>3 DEF HeardBy
      <4> QED BY <1>1, <1>5, <3>1, <4>1 DEF HeardBy
    <3>7. Started(s)' /\ ~ended'[s] /\ mode' = "guaranteed" /\ hook' # "removed" =>
            Own(StatesSent(s)') = initial'[s]..version'
      <4> SUFFICES ASSUME Started(s), ~ended[s], mode = "guaranteed", hook # "removed"
                   PROVE  Own(StatesSent(s)') = initial[s]..version
        BY <1>1, <1>5
      <4>1. Own(StatesSent(s)) = initial[s]..version - 1 /\ initial[s] \in Own(StatesSent(s))
        BY <1>5, <3>3 DEF HeardBy
      <4>2. initial[s] \in Nat /\ initial[s] <= version
        BY <1>4, <3>3, <4>1
      <4>3. initial[s]..version = (initial[s]..version - 1) \cup {version}
        BY <1>4, <4>2
      <4> QED BY <3>1, <4>1, <4>3
    <3> QED BY <1>1, <1>5, <2>4, <2>5, <3>2, <3>4, <3>5, <3>6, <3>7 DEF HeardBy
  <2> QED BY <2>6, <2>7
<1> QED BY <1>6, <1>7

(* A step of the broadcast that sends nothing: it drops the state for a    *)
(* best-effort subscriber, starts a goroutine, gives up on a subscriber    *)
(* that has departed or let its timeout pass, or returns.                  *)
LEMMA DropHeard ==
  ASSUME Base, HeardInv, mu # NoOne, Pending' \subseteq Pending,
         UNCHANGED <<sent, ended, mu, bpc, seq>>,
         UNCHANGED <<lockvars, machinevars, callvars>>,
         \A s \in Pending \ Pending' : mode = "guaranteed" => ended[s]
  PROVE  HeardInv'
<1>1. UNCHANGED <<owner, mode, version, cpc, hook, spc, initial, carries>> /\ seq \in Nat
  BY Types DEF lockvars, machinevars, rigid, callvars
<1>2. \A s \in Subs :
        /\ Due(s)' => Due(s)
        /\ Due(s) /\ Started(s) /\ ~ended[s] /\ mode = "guaranteed" /\ hook # "removed"
             => Due(s)'
  BY <1>1 DEF Due
<1> QED BY <1>1, <1>2, DueHeard

(* A registered subscription is its call's, in the machine's mode.         *)
LEMMA PendingSubs ==
  ASSUME Base, NEW s \in Pending
  PROVE  /\ s \in Subs /\ sub[s].mode = mode /\ mu # NoOne /\ mu \in Callers
         /\ \A g \in parked : g = [sub |-> g.sub, val |-> seq] /\ g.sub \notin todo
<1>1. s \in Registered /\ s \in Subs /\ phase[s] # "new"
  BY DEF Base, CastInv, SubInv, Registered
<1>2. sub[s] = [ch |-> Channel[s], mode |-> mode]
  BY <1>1 DEF Base, SubInv
<1> QED BY <1>1, <1>2 DEF Base, CastInv, CastType, Callers

LEMMA ManagerHeard ==
  ASSUME OwnChannels, Base, HeardInv, ManagerStep
  PROVE  HeardInv'
<1>1. UNCHANGED <<lockvars, machinevars, callvars>>
  BY DEF ManagerStep
<1>2. ASSUME NEW s \in Subs, VisitSubscriber(s) PROVE HeardInv'
  <2>1. s \in todo /\ todo' = todo \ {s} /\ UNCHANGED <<mu, bpc, seq, ended>> /\ s \in Pending
    BY <1>2 DEF VisitSubscriber, subvars, Pending
  <2>2. CASE sub[s].mode = "best effort"
    <3>1. parked' = parked /\ (UNCHANGED sent \/ Send(sub[s].ch, seq))
      BY <1>2, <2>2 DEF VisitSubscriber
    <3>2. Pending' = Pending \ {s}
      BY <2>1, <3>1, PendingSubs DEF Pending
    <3>3. CASE UNCHANGED sent
      BY <1>1, <2>1, <2>2, <3>2, <3>3, PendingSubs, DropHeard
    <3>4. CASE Send(sub[s].ch, seq)
      BY <1>1, <2>1, <3>2, <3>4, SendHeard
    <3> QED BY <3>1, <3>3, <3>4
  <2>3. CASE sub[s].mode # "best effort"
    <3>1. parked' = parked \cup {[sub |-> s, val |-> seq]} /\ UNCHANGED sent
      BY <1>2, <2>3 DEF VisitSubscriber
    <3>2. Pending' = Pending
      <4>1. \A r : r \in {g.sub : g \in parked'} <=> r \in {g.sub : g \in parked} \/ r = s
        <5>1. [sub |-> s, val |-> seq].sub = s
          OBVIOUS
        <5> QED BY <3>1, <5>1
      <4> QED BY <2>1, <4>1, Zenon DEF Pending
    <3> QED BY <1>1, <2>1, <3>1, <3>2, PendingSubs, DropHeard
  <2> QED BY <2>2, <2>3
<1>3. ASSUME NEW g \in parked, Deliver(g) \/ GiveUp(g) PROVE HeardInv'
  <2>1. /\ g.sub \in Pending /\ parked' = parked \ {g} /\ UNCHANGED <<mu, bpc, seq, todo, ended>>
        /\ g.val = seq
    BY <1>3, PendingSubs DEF Deliver, GiveUp, Pending, subvars
  <2>2. CASE Deliver(g)
    <3>1. Pending' = Pending \ {g.sub}
      <4>1. g.sub \notin todo /\ \A h \in parked : h.sub = g.sub => h = g
        BY <2>1, PendingSubs, Zenon
      <4> QED BY <2>1, <4>1, Zenon DEF Pending
    <3>2. Send(sub[g.sub].ch, seq)
      BY <2>1, <2>2 DEF Deliver
    <3> QED BY <1>1, <2>1, <3>1, <3>2, SendHeard
  <2>3. CASE GiveUp(g)
    <3>1. Pending' \subseteq Pending /\ Pending \ Pending' \subseteq {g.sub}
      BY <2>1 DEF Pending
    <3>2. UNCHANGED sent /\ (ended[g.sub] \/ sub[g.sub].mode = "timeout")
      BY <2>3 DEF GiveUp, chanvars
    <3> QED BY <1>1, <2>1, <3>1, <3>2, PendingSubs, DropHeard
  <2> QED BY <1>3, <2>2, <2>3
<1>4. ASSUME NEW b \in Broadcasters, FinishBroadcast(b) PROVE HeardInv'
  <2>1. /\ mu = b /\ todo = {} /\ parked = {} /\ mu' = NoOne /\ bpc' = [bpc EXCEPT ![b] = "idle"]
        /\ UNCHANGED <<seq, todo, parked, sent, ended>>
    BY <1>4 DEF FinishBroadcast, chanvars, subvars
  <2>2. UNCHANGED <<owner, mode, version, cpc, hook, spc, initial, carries>> /\ seq \in Nat
    BY <1>1, Types DEF lockvars, machinevars, rigid, callvars
  <2>3. \A s \in Subs : Due(s)' <=> Due(s)
    <3>1. Pending = {} /\ Pending' = {} /\ bpc[b] = "locked" /\ bpc \in [Broadcasters -> {"idle", "lock", "locked"}]
      BY <2>1, Clients DEF Pending, Base, CastInv, CastType
    <3>2. bpc'[b] = "idle" /\ \A p \in Callers : p # b => bpc'[p] = bpc[p]
      BY <2>1, <3>1 DEF Callers
    <3>3. owner # NoProc => owner \in Callers
      BY DEF Base, LockInv
    <3> QED BY <2>2, <3>1, <3>2, <3>3 DEF Due
  <2> QED BY <2>1, <2>2, <2>3, DueHeard
<1> QED BY <1>2, <1>3, <1>4 DEF ManagerStep
--------------------------------------------------------------------------------
(* The steps of a Subscribe call but its send.                             *)
LEMMA CallStepHeard ==
  ASSUME Base, HeardInv, NEW s \in Subs, NEW label \in Places, Proceed(s, label),
         UNCHANGED <<sent, initial, seq, carries, version, mode>>,
         UNCHANGED <<owner, cpc, bpc, mu, todo, parked>>,
         spc[s] # "error", Started(s) <=> label \in {"sent", "ok"},
         hook = "removed" => hook' = "removed",
         \A r \in Subs : r # s \/ Started(s) => ended'[r] = ended[r]
  PROVE  HeardInv'
<1>1. \A r \in Subs : /\ r # s => spc'[r] = spc[r]
                      /\ Started(r)' <=> Started(r)
  BY Proceeds DEF Started
<1> QED BY <1>1, QuietHeard

LEMMA CallHeard ==
  ASSUME Base, HeardInv, NEW s \in Subs,
         \/ SetUp(s) \/ RequestRead(s) \/ SubscribeChannel(s) \/ WatchContext(s)
         \/ AbandonSend(s) \/ ReleaseReader(s)
  PROVE  HeardInv'
<1>1. CASE SetUp(s)
  <2>1. /\ spc[s] = "idle"
        /\ setup = "new" \/ hook' = hook
        /\ Proceed(s, IF setup' = "ok" THEN "rlock" ELSE "error")
        /\ UNCHANGED <<vars, lockvars, rigid, version, cpc, initial, carries>>
    BY <1>1 DEF SetUp
  <2>2. UNCHANGED <<sent, seq, mode, owner, bpc, mu, todo, parked, ended>>
    BY <2>1 DEF vars, chanvars, castvars, subvars, lockvars, rigid
  <2>3. hook = "removed" => hook' = "removed"
    BY <2>1 DEF Base, SubInv
  <2> QED BY <2>1, <2>2, <2>3, CallStepHeard DEF Started, Places
<1>2. CASE RequestRead(s)
  <2>1. /\ spc[s] = "rlock" /\ Proceed(s, "register") /\ UNCHANGED owner
        /\ UNCHANGED <<vars, machinevars, initial, carries>>
    BY <1>2 DEF RequestRead, Mutex!RequestRLock
  <2>2. UNCHANGED <<sent, seq, mode, version, cpc, hook, bpc, mu, todo, parked, ended>>
    BY <2>1 DEF vars, chanvars, castvars, subvars, machinevars, rigid
  <2> QED BY <2>1, <2>2, CallStepHeard DEF Started, Places
<1>3. CASE SubscribeChannel(s)
  <2>1. /\ spc[s] = "register" /\ Proceed(s, "arm") /\ GetStateChan(s)
        /\ UNCHANGED <<lockvars, machinevars, initial, carries>>
    BY <1>3 DEF SubscribeChannel
  <2>2. /\ UNCHANGED <<sent, seq, bpc, mu, todo, parked>>
        /\ \A r \in Subs : r # s => ended'[r] = ended[r]
    BY <2>1 DEF GetStateChan, chanvars, castvars, Base, SubsType
  <2>3. UNCHANGED <<owner, mode, version, cpc, hook>>
    BY <2>1 DEF lockvars, machinevars, rigid
  <2> QED BY <2>1, <2>2, <2>3, CallStepHeard DEF Started, Places
<1>4. CASE WatchContext(s)
  <2>1. /\ spc[s] = "arm" /\ Proceed(s, "send") /\ ArmAfterFunc(s)
        /\ UNCHANGED <<lockvars, machinevars, initial, carries>>
    BY <1>4 DEF WatchContext
  <2>2. UNCHANGED <<sent, seq, bpc, mu, todo, parked, ended, owner, mode, version, cpc, hook>>
    BY <2>1 DEF ArmAfterFunc, chanvars, castvars, lockvars, machinevars, rigid
  <2> QED BY <2>1, <2>2, CallStepHeard DEF Started, Places
<1>5. CASE AbandonSend(s)
  <2>1. /\ spc[s] = "send" /\ Proceed(s, "failed")
        /\ UNCHANGED <<vars, lockvars, machinevars, initial, carries>>
    BY <1>5 DEF AbandonSend
  <2>2. UNCHANGED <<sent, seq, bpc, mu, todo, parked, ended, owner, mode, version, cpc, hook>>
    BY <2>1 DEF vars, chanvars, castvars, subvars, lockvars, machinevars, rigid
  <2> QED BY <2>1, <2>2, CallStepHeard DEF Started, Places
<1>6. CASE ReleaseReader(s)
  <2>1. /\ spc[s] \in {"sent", "failed"} /\ UNCHANGED owner
        /\ Proceed(s, IF spc[s] = "sent" THEN "ok" ELSE "error")
        /\ UNCHANGED <<vars, machinevars, initial, carries>>
    BY <1>6 DEF ReleaseReader, Mutex!ReleaseRLock
  <2>2. UNCHANGED <<sent, seq, bpc, mu, todo, parked, ended, mode, version, cpc, hook>>
    BY <2>1 DEF vars, chanvars, castvars, subvars, machinevars, rigid
  <2> QED BY <2>1, <2>2, CallStepHeard DEF Started, Places
<1> QED BY <1>1, <1>2, <1>3, <1>4, <1>5, <1>6

(* The cleanups and the clients.                                           *)
LEMMA ClientsHeard ==
  ASSUME Base, HeardInv,
         \/ \E s \in Subs : Cleanup(s) \/ Consume(s)
         \/ ClientStep \/ RemoveBroadcastHook \/ UNCHANGED allvars
  PROVE  HeardInv'
<1>1. /\ UNCHANGED <<sent, castvars, lockvars, rigid, version, cpc, callvars>>
      /\ UNCHANGED hook \/ hook' = "removed"
  <2>1. UNCHANGED <<sent, castvars>>
    BY DEF Cleanup, Consume, ClientStep, RemoveBroadcastHook, Remove, FinishReceive,
           StartReceive, CancelContext, vars, chanvars, allvars
  <2>2. /\ UNCHANGED <<lockvars, rigid, version, cpc, callvars>>
        /\ UNCHANGED hook \/ hook' = "removed"
    BY DEF Cleanup, Consume, ClientStep, RemoveBroadcastHook, machinevars, allvars
  <2> QED BY <2>1, <2>2
<1>2. \A r \in Subs : ended[r] => ended'[r]
  <2>1. CASE \E s \in Subs : CancelContext(s)
    BY <2>1 DEF CancelContext, Base, SubsType
  <2>2. CASE UNCHANGED ended
    BY <2>2
  <2>3. \/ \E s \in Subs : CancelContext(s)
        \/ UNCHANGED ended
    BY DEF Cleanup, Consume, ClientStep, RemoveBroadcastHook, Remove, FinishReceive,
           StartReceive, vars, subvars, allvars
  <2> QED BY <2>1, <2>2, <2>3
<1>3. UNCHANGED <<initial, seq, carries, mode, owner, bpc, mu, todo, parked, spc>>
  BY <1>1 DEF castvars, lockvars, rigid, callvars
<1>4. \A r \in Subs : Started(r)' <=> Started(r)
  BY <1>3 DEF Started
<1> QED BY <1>1, <1>2, <1>3, <1>4, QuietHeard

LEMMA InitHeard == SubscribeInit => HeardInv
<1> SUFFICES ASSUME SubscribeInit, NEW s \in Subs PROVE HeardBy(s)
  BY DEF HeardInv
<1>1. spc[s] = "idle" /\ sent[Channel[s]] = <<>>
  BY Clients DEF SubscribeInit, Init
<1>2. Len(sent[Channel[s]]) = 0
  BY <1>1
<1>3. StatesSent(s) = <<>>
  BY <1>2 DEF StatesSent
<1>4. Own(StatesSent(s)) = {} /\ Increasing(StatesSent(s))
  BY <1>3 DEF Own, Increasing
<1> QED BY <1>1, <1>2, <1>4 DEF HeardBy, Started

LEMMA NextHeard == OwnChannels /\ Base /\ HeardInv /\ [SubscribeNext]_allvars => HeardInv'
<1> SUFFICES ASSUME OwnChannels, Base, HeardInv, [SubscribeNext]_allvars PROVE HeardInv'
  OBVIOUS
<1>1. ASSUME NEW p \in Callers,
             \/ Announce(p) \/ ChangeStep(p) \/ ForeignTransition(p) \/ BeginBroadcast(p)
      PROVE  HeardInv'
  BY <1>1, CallersHeard, StoreHeard DEF ChangeStep
<1>2. ASSUME NEW s \in Subs, SetUp(s) \/ SubscribeStep(s) \/ Cleanup(s) \/ Consume(s)
      PROVE  HeardInv'
  BY <1>2, CallHeard, SendCurrentStateHeard, ClientsHeard DEF SubscribeStep
<1>3. CASE ManagerStep
  BY <1>3, ManagerHeard
<1>4. CASE ClientStep \/ RemoveBroadcastHook \/ UNCHANGED allvars
  BY <1>4, ClientsHeard
<1> QED BY <1>1, <1>2, <1>3, <1>4 DEF SubscribeNext
--------------------------------------------------------------------------------
LEMMA Heard == OwnChannels => (SubscribeSpec => [](Base /\ HeardInv))
<1> SUFFICES ASSUME OwnChannels PROVE SubscribeSpec => [](Base /\ HeardInv)
  OBVIOUS
<1>1. SubscribeInit => Base /\ HeardInv
  BY InitBase, InitHeard
<1>2. Base /\ HeardInv /\ [SubscribeNext]_allvars => (Base /\ HeardInv)'
  BY NextBase, NextHeard
<1> QED BY <1>1, <1>2, PTL DEF SubscribeSpec

(* The properties' positions and states are those of the invariant.        *)
LEMMA OwnSame ==
  ASSUME NEW s \in Subs
  PROVE  OwnStates(s) = Own(StatesSent(s))
  BY Zenon DEF OwnStates, OwnPositions, Own

(* The initial send comes before every broadcast of this machine's: no     *)
(* change can broadcast between the registration of the channel, under the *)
(* read lock, and the send.                                                *)
THEOREM InitialStateComesFirst == OwnChannels => (SubscribeSpec => []InitialStateFirst)
<1> SUFFICES ASSUME OwnChannels PROVE SubscribeSpec => []InitialStateFirst
  OBVIOUS
<1>1. Base /\ HeardInv => InitialStateFirst
  <2> SUFFICES ASSUME Base, HeardInv, NEW s \in Subs, spc[s] \notin {"failed", "error"},
                      NEW first \in OwnPositions(s),
                      \A i \in OwnPositions(s) : first <= i
               PROVE  StatesSent(s)[first] = initial[s]
    BY DEF InitialStateFirst
  <2>1. HeardBy(s) /\ StatesSent(s) \in Seq(Nat) /\ initial[s] \in Nat
    BY SentTypes, Types DEF HeardInv
  <2> DEFINE q == StatesSent(s)
  <2> HIDE DEF q
  <2>2. first \in DOMAIN q /\ q[first] \in Own(q)
    BY DEF OwnPositions, Own, q
  <2>3. Started(s)
    BY <2>1, <2>2 DEF HeardBy, q
  <2>4. PICK i \in DOMAIN q : q[i] = initial[s] /\ q[i] # 0
    BY <2>1, <2>3 DEF HeardBy, Own, q
  <2>5. first <= i /\ initial[s] <= q[first]
    BY <2>1, <2>2, <2>3, <2>4 DEF HeardBy, OwnPositions, q
  <2>6. first < i => q[first] < q[i]
    BY <2>1, <2>2, <2>4 DEF HeardBy, Increasing, OwnPositions, q
  <2>7. first \in Nat /\ i \in Nat /\ q[first] \in Nat
    BY <2>1, <2>2, <2>4 DEF q
  <2>8. first = i \/ first < i
    BY <2>5, <2>7
  <2> QED BY <2>1, <2>4, <2>5, <2>6, <2>7, <2>8 DEF q
<1> QED BY <1>1, Heard, PTL

(* In every delivery mode a subscriber is sent this machine's states in    *)
(* the order of the changes that stored them, none twice, the initial one  *)
(* included.                                                               *)
THEOREM StatesInOrder == OwnChannels => (SubscribeSpec => []StatesArriveInOrder)
<1> SUFFICES ASSUME OwnChannels PROVE SubscribeSpec => []StatesArriveInOrder
  OBVIOUS
<1>1. Base /\ HeardInv => StatesArriveInOrder
  BY DEF HeardInv, HeardBy, Increasing, StatesArriveInOrder, OwnPositions
<1> QED BY <1>1, Heard, PTL

(* With guaranteed delivery a live subscriber whose Subscribe call has     *)
(* succeeded has been sent every state since its initial one whenever no   *)
(* change is under way: the change's lock covers its broadcast.            *)
THEOREM EveryChangeHeard == OwnChannels => (SubscribeSpec => []HearsEveryChange)
<1> SUFFICES ASSUME OwnChannels PROVE SubscribeSpec => []HearsEveryChange
  OBVIOUS
<1>1. Base /\ HeardInv => HearsEveryChange
  <2> SUFFICES ASSUME Base, HeardInv, NEW s \in Subs,
                      spc[s] = "ok", ~ended[s], mode = "guaranteed",
                      owner = NoProc, hook # "removed"
               PROVE  OwnStates(s) = initial[s]..version
    BY DEF HearsEveryChange
  <2>1. HeardBy(s) /\ Started(s) /\ ~Due(s)
    BY DEF HeardInv, Started, Due
  <2> QED BY <2>1, OwnSame DEF HeardBy
<1> QED BY <1>1, Heard, PTL
================================================================================
