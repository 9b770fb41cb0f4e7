------------------------------- MODULE Broadcast -------------------------------
(***************************************************************************)
(* hooks/broadcast.Manager: subscriptions that come and go while states    *)
(* are broadcast to their channels.                                        *)
(*                                                                         *)
(* m.mu is held by one broadcast at a time, for as long as it takes, and   *)
(* otherwise only for a moment: GetStateChan's store, the removal of an    *)
(* ended subscription and the second pass of UnsubscribeAll are one step   *)
(* each, taken when no broadcast holds the mutex.  What needs no mutex is  *)
(* a step of its own: the end of a context, arming the AfterFunc, the      *)
(* first pass of UnsubscribeAll, the sends of a broadcast, the consumers.  *)
(*                                                                         *)
(* A broadcast state is represented by the number of its broadcast in the  *)
(* order in which they got the mutex.                                      *)
(***************************************************************************)
EXTENDS Naturals, Sequences, FiniteSets

CONSTANTS
  Subs,           (* the subscriptions GetStateChan makes, each at most once *)
  CustomChans,    (* the channels callers pass in WithCustomChannel          *)
  SharedChans,    (* those of them that several subscriptions may use        *)
  Capacity,       (* the buffer size of every channel                        *)
  Modes,          (* the delivery modes in use                               *)
  Broadcasters,   (* the goroutines that call Broadcast                      *)
  MaxBroadcasts,  (* bound: how many broadcasts there are                    *)
  MaxUnsubscribe, (* bound: how often UnsubscribeAll is called               *)
  NoSub, NoOne    (* "no subscription", "no broadcaster"                     *)

(* The channel the manager makes for a subscription bears its name.        *)
Chans == Subs \cup CustomChans

ASSUME ChannelsAssumption ==
  /\ Subs \cap CustomChans = {}
  /\ SharedChans \subseteq CustomChans
  /\ Capacity \in [Chans -> Nat]
  /\ NoSub \notin Subs
ASSUME ModesAssumption == Modes \subseteq {"best effort", "timeout", "guaranteed"}
ASSUME BroadcastersAssumption ==
  IsFiniteSet(Broadcasters) /\ NoOne \notin Broadcasters /\ MaxBroadcasts \in Nat /\ MaxUnsubscribe \in Nat

VARIABLES
  subscribers, (* the subscription stored under each channel, or NoSub      *)
  sub,         (* each subscription's channel and delivery mode             *)
  phase,       (* how far its life has come                                 *)
  ended,       (* whether its context has ended (done is closed)            *)
  closed,      (* the channels that have been closed                        *)
  sent,        (* all that was ever sent to each channel                    *)
  taken,       (* how much of it has been received                          *)
  receiving,   (* whether a consumer is blocked receiving from the channel  *)
  mu,          (* the broadcaster inside the mutex, or NoOne                *)
  bpc,         (* where each broadcaster is                                 *)
  seq,         (* the number of the latest broadcast to get the mutex       *)
  todo,        (* the subscriptions it has not come to yet                  *)
  parked,      (* the goroutines blocked in a send                          *)
  since,       (* history: the latest broadcast before the subscription     *)
  unsub        (* UnsubscribeAll: its step, the channels its first pass     *)
               (* still owes and has had, the calls left and, as history,   *)
               (* the subscriptions that were there when it began           *)

chanvars == <<closed, sent, taken, receiving>>
castvars == <<mu, bpc, seq, todo, parked>>
subvars  == <<subscribers, sub, phase, ended, since>>
vars == <<chanvars, castvars, subvars, unsub>>

Owned(s) == sub[s].ch = s
Registered == {s \in Subs : subscribers[sub[s].ch] = s}

Init ==
  /\ subscribers = [c \in Chans |-> NoSub]
  /\ sub = [s \in Subs |-> [ch |-> s, mode |-> "best effort"]]
  /\ phase = [s \in Subs |-> "new"]
  /\ ended = [s \in Subs |-> FALSE]
  /\ closed = {}
  /\ sent = [c \in Chans |-> <<>>]
  /\ taken = [c \in Chans |-> 0]
  /\ receiving = [c \in Chans |-> FALSE]
  /\ mu = NoOne
  /\ bpc = [b \in Broadcasters |-> "idle"]
  /\ seq = 0
  /\ todo = {}
  /\ parked = {}
  /\ since = [s \in Subs |-> 0]
  /\ unsub = [pc |-> "idle", owed |-> {}, visited |-> {},
              left |-> MaxUnsubscribe, early |-> {}]
--------------------------------------------------------------------------------
UsedBefore(c) == \E s \in Subs : phase[s] # "new" /\ sub[s].ch = c

(* Consumers: a goroutine blocks in a receive and gets the oldest state,   *)
(* or, when the channel is closed and drained, learns that it is.          *)
(* A state sent to a blocked receiver stays in "sent" beyond the capacity  *)
(* until the receiver has run.                                             *)
Buffered(c) == Len(sent[c]) - taken[c]

CanSend(c) == Buffered(c) < Capacity[c] + (IF receiving[c] THEN 1 ELSE 0)

StartReceive(c) ==
  /\ UsedBefore(c)
  /\ ~receiving[c]
  /\ c \in closed => Buffered(c) > 0
  /\ receiving' = [receiving EXCEPT ![c] = TRUE]
  /\ UNCHANGED <<closed, sent, taken, castvars, subvars, unsub>>

FinishReceive(c) ==
  /\ receiving[c]
  /\ \/ Buffered(c) > 0 /\ taken' = [taken EXCEPT ![c] = @ + 1]
     \/ Buffered(c) = 0 /\ c \in closed /\ UNCHANGED taken
  /\ receiving' = [receiving EXCEPT ![c] = FALSE]
  /\ UNCHANGED <<closed, sent, castvars, subvars, unsub>>
--------------------------------------------------------------------------------
(* Seeded fault: AfterFunc is called before the subscription is stored, so *)
(* that of an already ended context finds nothing to remove.               *)
GetStateChanArmingFirst(s) ==
  /\ phase[s] = "new"
  /\ mu = NoOne
  /\ \E c \in {s} \cup CustomChans, m \in Modes, e \in BOOLEAN :
       /\ UsedBefore(c) => c \in SharedChans
       /\ sub' = [sub EXCEPT ![s] = [ch |-> c, mode |-> m]]
       /\ subscribers' = [subscribers EXCEPT ![c] = s]
       /\ ended' = [ended EXCEPT ![s] = e]
       /\ phase' = [phase EXCEPT ![s] = IF e THEN "removed" ELSE "stored"]
  /\ since' = [since EXCEPT ![s] = seq]
  /\ UNCHANGED <<chanvars, castvars, unsub>>

(* Seeded fault: WithCustomChannel(nil) is taken at its word.              *)
GetStateChanNilChannel(s) ==
  /\ phase[s] = "new"
  /\ mu = NoOne
  /\ \E m \in Modes : sub' = [sub EXCEPT ![s] = [ch |-> NoSub, mode |-> m]]
  /\ phase' = [phase EXCEPT ![s] = "stored"]
  /\ since' = [since EXCEPT ![s] = seq]
  /\ UNCHANGED <<subscribers, ended, chanvars, castvars, unsub>>

(* GetStateChan under the mutex, with a context that may have ended        *)
(* before: the last subscription stored under a channel wins.              *)
GetStateChan(s) ==
  /\ phase[s] = "new"
  /\ mu = NoOne
  /\ \E c \in {s} \cup CustomChans, m \in Modes, e \in BOOLEAN :
       /\ UsedBefore(c) => c \in SharedChans
       /\ sub' = [sub EXCEPT ![s] = [ch |-> c, mode |-> m]]
       /\ subscribers' = [subscribers EXCEPT ![c] = s]
       /\ ended' = [ended EXCEPT ![s] = e]
  /\ phase' = [phase EXCEPT ![s] = "stored"]
  /\ since' = [since EXCEPT ![s] = seq]
  /\ UNCHANGED <<chanvars, castvars, unsub>>

(* context.AfterFunc: from here on the end of the context runs remove.     *)
ArmAfterFunc(s) ==
  /\ phase[s] = "stored"
  /\ phase' = [phase EXCEPT ![s] = "armed"]
  /\ UNCHANGED <<subscribers, sub, ended, since, chanvars, castvars, unsub>>

CancelContext(s) ==
  /\ phase[s] # "new"
  /\ ~ended[s]
  /\ ended' = [ended EXCEPT ![s] = TRUE]
  /\ UNCHANGED <<subscribers, sub, phase, since, chanvars, castvars, unsub>>

(* removeLocked: LoadAndDelete by channel; whoever took an entry out       *)
(* closes its own channel if the manager made it.                          *)
RemoveLocked(s) ==
  LET c == sub[s].ch IN
  /\ subscribers' = [subscribers EXCEPT ![c] = NoSub]
  /\ closed' = IF subscribers[c] # NoSub /\ Owned(s) THEN closed \cup {c} ELSE closed

(* Seeded fault: the cleanup does not wait for the mutex.                  *)
RemoveUnlocked(s) ==
  /\ phase[s] = "armed"
  /\ ended[s]
  /\ RemoveLocked(s)
  /\ phase' = [phase EXCEPT ![s] = "removed"]
  /\ unsub' = [unsub EXCEPT !.owed = @ \ {sub[s].ch}]
  /\ UNCHANGED <<sub, ended, since, sent, taken, receiving, castvars>>

Remove(s) ==
  /\ phase[s] = "armed"
  /\ ended[s]
  /\ mu = NoOne
  /\ RemoveLocked(s)
  /\ phase' = [phase EXCEPT ![s] = "removed"]
  /\ unsub' = [unsub EXCEPT !.owed = @ \ {sub[s].ch}]
  /\ UNCHANGED <<sub, ended, since, sent, taken, receiving, castvars>>
--------------------------------------------------------------------------------
(* Seeded fault: UnsubscribeAll has no first pass.                         *)
CallUnsubscribeAllLocking ==
  /\ unsub.pc = "idle"
  /\ unsub.left > 0
  /\ unsub' = [pc |-> "lock", owed |-> {}, visited |-> {},
               left |-> unsub.left - 1, early |-> Registered]
  /\ UNCHANGED <<chanvars, castvars, subvars>>

(* UnsubscribeAll.  Its first pass ranges over the sync.Map without the    *)
(* mutex: it visits every channel that stays registered meanwhile, once,   *)
(* and may or may not visit those that are stored while it runs.           *)
CallUnsubscribeAll ==
  /\ unsub.pc = "idle"
  /\ unsub.left > 0
  /\ unsub' = [pc |-> "signal", owed |-> {c \in Chans : subscribers[c] # NoSub},
               visited |-> {}, left |-> unsub.left - 1, early |-> Registered]
  /\ UNCHANGED <<chanvars, castvars, subvars>>

SignalSubscription(c) ==
  /\ unsub.pc = "signal"
  /\ subscribers[c] # NoSub
  /\ c \notin unsub.visited
  /\ ended' = [ended EXCEPT ![subscribers[c]] = TRUE]
  /\ unsub' = [unsub EXCEPT !.owed = @ \ {c}, !.visited = @ \cup {c}]
  /\ UNCHANGED <<subscribers, sub, phase, since, chanvars, castvars>>

EndFirstPass ==
  /\ unsub.pc = "signal"
  /\ unsub.owed = {}
  /\ unsub' = [unsub EXCEPT !.pc = "lock"]
  /\ UNCHANGED <<chanvars, castvars, subvars>>

(* Seeded fault: the second pass removes subscriptions and does not cancel *)
(* them.                                                                   *)
RemoveAllUncancelled ==
  /\ unsub.pc = "lock"
  /\ mu = NoOne
  /\ subscribers' = [c \in Chans |-> NoSub]
  /\ closed' = closed \cup {s \in Registered : Owned(s)}
  /\ unsub' = [unsub EXCEPT !.pc = "idle", !.owed = {}, !.visited = {}, !.early = {}]
  /\ UNCHANGED <<sub, phase, ended, since, sent, taken, receiving, castvars>>

RemoveAll ==
  /\ unsub.pc = "lock"
  /\ mu = NoOne
  /\ ended' = [s \in Subs |-> ended[s] \/ s \in Registered]
  /\ subscribers' = [c \in Chans |-> NoSub]
  /\ closed' = closed \cup {s \in Registered : Owned(s)}
  /\ unsub' = [unsub EXCEPT !.pc = "idle", !.owed = {}, !.visited = {}, !.early = {}]
  /\ UNCHANGED <<sub, phase, since, sent, taken, receiving, castvars>>
--------------------------------------------------------------------------------
(* Broadcast.  It holds the mutex from LockBroadcast to FinishBroadcast,   *)
(* so the set of subscriptions cannot change while it iterates.            *)
Waiting == {b \in Broadcasters : bpc[b] = "lock"}

CallBroadcast(b) ==
  /\ bpc[b] = "idle"
  /\ seq + Cardinality(Waiting) < MaxBroadcasts
  /\ bpc' = [bpc EXCEPT ![b] = "lock"]
  /\ UNCHANGED <<mu, seq, todo, parked, chanvars, subvars, unsub>>

LockBroadcast(b) ==
  /\ bpc[b] = "lock"
  /\ mu = NoOne
  /\ mu' = b
  /\ bpc' = [bpc EXCEPT ![b] = "locked"]
  /\ seq' = seq + 1
  /\ todo' = Registered
  /\ UNCHANGED <<parked, chanvars, subvars, unsub>>

Send(c, n) == sent' = [sent EXCEPT ![c] = Append(@, n)]

(* Best effort sends at once or drops; the other modes get a goroutine.    *)
VisitSubscriber(s) ==
  /\ s \in todo
  /\ todo' = todo \ {s}
  /\ IF sub[s].mode = "best effort"
       THEN /\ IF CanSend(sub[s].ch) THEN Send(sub[s].ch, seq) ELSE UNCHANGED sent
            /\ UNCHANGED parked
       ELSE /\ parked' = parked \cup {[sub |-> s, val |-> seq]}
            /\ UNCHANGED sent
  /\ UNCHANGED <<mu, bpc, seq, closed, taken, receiving, subvars, unsub>>

Deliver(g) ==
  /\ g \in parked
  /\ CanSend(sub[g.sub].ch)
  /\ Send(sub[g.sub].ch, g.val)
  /\ parked' = parked \ {g}
  /\ UNCHANGED <<mu, bpc, seq, todo, closed, taken, receiving, subvars, unsub>>

(* Seeded faults: a send does not watch for the subscriber's departure;    *)
(* every blocking send is given the timeout.                               *)
GiveUpOnTimeoutOnly(g) ==
  /\ g \in parked
  /\ sub[g.sub].mode = "timeout"
  /\ parked' = parked \ {g}
  /\ UNCHANGED <<mu, bpc, seq, todo, chanvars, subvars, unsub>>

GiveUpAnyMode(g) ==
  /\ g \in parked
  /\ parked' = parked \ {g}
  /\ UNCHANGED <<mu, bpc, seq, todo, chanvars, subvars, unsub>>

(* The subscriber has departed, or its timeout has passed.                 *)
GiveUp(g) ==
  /\ g \in parked
  /\ ended[g.sub] \/ sub[g.sub].mode = "timeout"
  /\ parked' = parked \ {g}
  /\ UNCHANGED <<mu, bpc, seq, todo, chanvars, subvars, unsub>>

(* Seeded fault: Broadcast does not wait for the goroutines it started.    *)
FinishBroadcastAtOnce(b) ==
  /\ mu = b
  /\ todo = {}
  /\ mu' = NoOne
  /\ bpc' = [bpc EXCEPT ![b] = "idle"]
  /\ UNCHANGED <<seq, todo, parked, chanvars, subvars, unsub>>

FinishBroadcast(b) ==
  /\ mu = b
  /\ todo = {}
  /\ parked = {}
  /\ mu' = NoOne
  /\ bpc' = [bpc EXCEPT ![b] = "idle"]
  /\ UNCHANGED <<seq, todo, parked, chanvars, subvars, unsub>>
--------------------------------------------------------------------------------
Goroutines == [sub : Subs, val : 1..MaxBroadcasts]

Next ==
  \/ \E c \in Chans : StartReceive(c) \/ FinishReceive(c) \/ SignalSubscription(c)
  \/ \E s \in Subs : \/ GetStateChan(s) \/ ArmAfterFunc(s)
                     \/ CancelContext(s) \/ Remove(s)
                     \/ VisitSubscriber(s)
  \/ \E b \in Broadcasters :
       CallBroadcast(b) \/ LockBroadcast(b) \/ FinishBroadcast(b)
  \/ \E g \in parked : Deliver(g) \/ GiveUp(g)
  \/ CallUnsubscribeAll \/ EndFirstPass \/ RemoveAll

Spec == Init /\ [][Next]_vars

(***************************************************************************)
(* Goroutines that can run do, and a Go mutex hands over to a goroutine    *)
(* that has waited a millisecond, so whoever keeps finding it free gets it *)
(* (strong fairness).  Callers owe no call and no cancellation, and a      *)
(* consumer that received once need not receive again.                     *)
(***************************************************************************)
Fairness ==
  /\ \A s \in Subs : /\ WF_vars(ArmAfterFunc(s)) /\ SF_vars(Remove(s))
                     /\ WF_vars(VisitSubscriber(s))
  /\ \A b \in Broadcasters :
       SF_vars(LockBroadcast(b)) /\ WF_vars(FinishBroadcast(b))
  /\ \A g \in Goroutines : WF_vars(Deliver(g)) /\ WF_vars(GiveUp(g))
  /\ \A c \in Chans : WF_vars(SignalSubscription(c)) /\ WF_vars(FinishReceive(c))
  /\ WF_vars(EndFirstPass) /\ SF_vars(RemoveAll)

FairSpec == Spec /\ Fairness
--------------------------------------------------------------------------------
(* The types of the variables.                                             *)
TypeOK ==
  /\ subscribers \in [Chans -> Subs \cup {NoSub}]
  /\ sub \in [Subs -> [ch : Chans, mode : Modes \cup {"best effort"}]]
  /\ phase \in [Subs -> {"new", "stored", "armed", "removed"}]
  /\ ended \in [Subs -> BOOLEAN]
  /\ closed \subseteq Chans
  /\ sent \in [Chans -> Seq(1..MaxBroadcasts)]
  /\ taken \in [Chans -> 0..MaxBroadcasts]
  /\ receiving \in [Chans -> BOOLEAN]
  /\ mu \in Broadcasters \cup {NoOne}
  /\ bpc \in [Broadcasters -> {"idle", "lock", "locked"}]
  /\ seq \in 0..MaxBroadcasts
  /\ todo \subseteq Subs
  /\ parked \subseteq Goroutines
  /\ since \in [Subs -> 0..MaxBroadcasts]
  /\ unsub \in [pc : {"idle", "signal", "lock"}, owed : SUBSET Chans,
                visited : SUBSET Chans, left : 0..MaxUnsubscribe,
                early : SUBSET Subs]

(* The manager never sends on a closed channel and never closes one twice, *)
(* either of which panics: whatever a cleanup, UnsubscribeAll and a        *)
(* broadcast do at the same time, the channels that are registered, still  *)
(* to be visited or blocked in a send are open, and the channels it does   *)
(* close are its own.                                                      *)
NoUseOfClosedChannel ==
  /\ closed \subseteq Subs
  /\ \A c \in Chans : subscribers[c] # NoSub => c \notin closed
  /\ \A s \in todo \cup {g.sub : g \in parked} : sub[s].ch \notin closed

(* All subscribers see the broadcasts in one order, that of the mutex, and *)
(* none twice, although each broadcast sends from many goroutines.         *)
SameOrderEverywhere ==
  \A c \in Chans : \A i, j \in 1..Len(sent[c]) :
    i < j => sent[c][i] < sent[c][j]

(* Guaranteed delivery: a subscription whose context has not ended has     *)
(* been sent every broadcast that was made and finished since it was       *)
(* stored.  (For channels that no two subscriptions share.)                *)
Finished == IF mu = NoOne THEN seq ELSE seq - 1

GuaranteedDelivery ==
  \A s \in Subs :
    phase[s] # "new" /\ ~ended[s] /\ sub[s].mode = "guaranteed" =>
      \A n \in since[s] + 1 .. Finished :
        \E i \in 1..Len(sent[sub[s].ch]) : sent[sub[s].ch][i] = n

(* The channel of a subscription whose context has not ended is registered:*)
(* broadcasts reach it.                                                    *)
LiveChannelStaysRegistered ==
  \A s \in Subs :
    phase[s] # "new" /\ ~ended[s] => subscribers[sub[s].ch] # NoSub

(* An ended subscription is taken out of the subscriber set and its own    *)
(* channel is closed, provided that broadcasts do not block for ever: also *)
(* one whose context ended before or while GetStateChan ran.               *)
EndedSubscriptionsLeave ==
  []<>(mu = NoOne) =>
    \A s \in Subs :
      phase[s] # "new" /\ ended[s] ~>
        s \notin Registered /\ (Owned(s) => sub[s].ch \in closed)

(* Only a live guaranteed-delivery subscriber that does not receive can    *)
(* hold up broadcasts: if none does so for ever, every Broadcast returns,  *)
(* whatever becomes of the other subscribers.                              *)
HeldUpBy(s) ==
  \E g \in parked : g.sub = s /\ sub[s].mode = "guaranteed" /\ ~ended[s]

OnlyLiveSubscribersBlock ==
  []<>(\A s \in Subs : ~HeldUpBy(s)) =>
    \A b \in Broadcasters : bpc[b] # "idle" ~> bpc[b] = "idle"

(* UnsubscribeAll returns although broadcasts are parked on the            *)
(* subscribers it ends: of those registered when it was called none can    *)
(* keep it from the mutex, only a subscription that is stored meanwhile.   *)
UnsubscribeAllReturns ==
  unsub.pc # "idle" ~>
    \/ unsub.pc = "idle"
    \/ \E s \in Subs \ unsub.early : HeldUpBy(s)

(* What the comment of UnsubscribeAll says without that exception: it does *)
(* not wait for a broadcast parked on a blocking send.                     *)
UnsubscribeAllNeverBlocked == unsub.pc # "idle" ~> unsub.pc = "idle"
================================================================================
