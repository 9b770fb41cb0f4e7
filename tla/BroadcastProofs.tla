----------------------------- MODULE BroadcastProofs -----------------------------
(***************************************************************************)
(* Proofs of the safety properties of Broadcast, for any subscriptions,    *)
(* channels, capacities, delivery modes and bounds.                        *)
(*                                                                         *)
(* The mutex is what it rests on: a subscription that a broadcast has yet  *)
(* to visit, or is blocked sending to, stays the one registered under its  *)
(* channel until the broadcast returns.  So no two sends under way have    *)
(* the same channel, and none of those channels can be closed.             *)
(***************************************************************************)
EXTENDS Broadcast, FiniteSetTheorems, TLAPS

Pending == todo \cup {g.sub : g \in parked}

(* What is stored under a channel is a subscription of that channel, and   *)
(* only channels that the manager made and gave out are closed.            *)
EntriesInv ==
  /\ \A c \in Chans : subscribers[c] # NoSub =>
       /\ sub[subscribers[c]].ch = c
       /\ phase[subscribers[c]] # "new"
       /\ c \notin closed
  /\ \A s \in Subs : sub[s].ch \in {s} \cup CustomChans
  /\ closed \subseteq Subs
  /\ \A s \in closed : phase[s] # "new"

PendingInv ==
  /\ Pending \subseteq Registered
  /\ mu = NoOne => Pending = {}
  /\ mu # NoOne => seq > 0
  /\ \A g \in parked : g.val = seq /\ g.sub \notin todo

(* The states sent to a channel carry growing numbers of broadcasts so     *)
(* far, and sends that are yet to come carry a greater one.                *)
OrderInv ==
  /\ \A c \in Chans :
       /\ taken[c] <= Len(sent[c])
       /\ \A i \in 1..Len(sent[c]) : i <= sent[c][i] /\ sent[c][i] <= seq
       /\ \A i, j \in 1..Len(sent[c]) : i < j => sent[c][i] < sent[c][j]
  /\ \A s \in Pending : \A i \in 1..Len(sent[sub[s].ch]) : sent[sub[s].ch][i] < seq

BoundInv == seq + Cardinality(Waiting) <= MaxBroadcasts

Inv == TypeOK /\ EntriesInv /\ PendingInv /\ OrderInv /\ BoundInv

(* Where no two subscriptions share a channel: a live subscription is the  *)
(* one stored under its channel, and a live guaranteed one has been sent   *)
(* every broadcast since it was stored, or the one under way will send to  *)
(* it yet.                                                                 *)
Live(s) == phase[s] # "new" /\ ~ended[s]

LiveInv ==
  /\ \A s, t \in Subs :
       phase[s] # "new" /\ phase[t] # "new" /\ sub[s].ch = sub[t].ch => s = t
  /\ \A s \in Subs : Live(s) => subscribers[sub[s].ch] = s

HasBeenSent(c, n) == \E i \in 1..Len(sent[c]) : sent[c][i] = n

DeliveryInv ==
  \A s \in Subs : Live(s) /\ sub[s].mode = "guaranteed" =>
    /\ since[s] <= seq
    /\ \A n \in since[s] + 1 .. seq :
         HasBeenSent(sub[s].ch, n) \/ (n = seq /\ s \in Pending)
--------------------------------------------------------------------------------
(* The parts of the state that the steps of subscriptions leave alone.     *)
LEMMA SentTypes ==
  ASSUME TypeOK, NEW c \in Chans
  PROVE  /\ sent[c] \in Seq(1..MaxBroadcasts) /\ Len(sent[c]) \in Nat
         /\ \A i \in 1..Len(sent[c]) : sent[c][i] \in 1..MaxBroadcasts
<1>1. sent[c] \in Seq(1..MaxBroadcasts)
  BY DEF TypeOK
<1>2. ASSUME NEW S, NEW q \in Seq(S)
      PROVE  Len(q) \in Nat /\ \A i \in 1..Len(q) : q[i] \in S
  OBVIOUS
<1> QED BY <1>1, <1>2

LEMMA RegisteredApart ==
  ASSUME NEW s \in Registered, NEW t \in Registered, sub[s].ch = sub[t].ch
  PROVE  s = t
  BY DEF Registered

LEMMA InitInv == Init => Inv
<1> SUFFICES ASSUME Init PROVE Inv
  OBVIOUS
<1> USE ChannelsAssumption, BroadcastersAssumption
<1>1. TypeOK
  <2>1. /\ subscribers = [c \in Chans |-> NoSub] /\ closed = {}
        /\ phase = [s \in Subs |-> "new"] /\ ended = [s \in Subs |-> FALSE]
        /\ sub = [s \in Subs |-> [ch |-> s, mode |-> "best effort"]]
    BY DEF Init
  <2>2. /\ sent = [c \in Chans |-> <<>>]
        /\ taken = [c \in Chans |-> 0] /\ receiving = [c \in Chans |-> FALSE]
    BY DEF Init
  <2>3. /\ mu = NoOne /\ bpc = [b \in Broadcasters |-> "idle"] /\ seq = 0
        /\ todo = {} /\ parked = {} /\ since = [s \in Subs |-> 0]
        /\ unsub = [pc |-> "idle", owed |-> {}, visited |-> {},
                    left |-> MaxUnsubscribe, early |-> {}]
    BY DEF Init
  <2>4. /\ subscribers \in [Chans -> Subs \cup {NoSub}] /\ closed \subseteq Chans
        /\ phase \in [Subs -> {"new", "stored", "armed", "removed"}]
        /\ ended \in [Subs -> BOOLEAN]
    BY <2>1
  <2>5. sub \in [Subs -> [ch : Chans, mode : Modes \cup {"best effort"}]]
    BY <2>1 DEF Chans
  <2>6. sent \in [Chans -> Seq(1..MaxBroadcasts)]
    <3>1. <<>> \in Seq(1..MaxBroadcasts)
      OBVIOUS
    <3> QED BY <2>2, <3>1, Zenon
  <2>7. taken \in [Chans -> 0..MaxBroadcasts] /\ receiving \in [Chans -> BOOLEAN]
    BY <2>2
  <2>8. /\ mu \in Broadcasters \cup {NoOne} /\ seq \in 0..MaxBroadcasts
        /\ bpc \in [Broadcasters -> {"idle", "lock", "locked"}]
        /\ todo \subseteq Subs /\ parked \subseteq Goroutines
        /\ since \in [Subs -> 0..MaxBroadcasts]
    BY <2>3
  <2>9. unsub \in [pc : {"idle", "signal", "lock"}, owed : SUBSET Chans,
                   visited : SUBSET Chans, left : 0..MaxUnsubscribe, early : SUBSET Subs]
    BY <2>3
  <2> QED BY <2>4, <2>5, <2>6, <2>7, <2>8, <2>9 DEF TypeOK
<1>2. EntriesInv
  BY DEF Init, EntriesInv, Chans
<1>3. Pending = {}
  BY DEF Init, Pending
<1>4. PendingInv
  BY <1>3 DEF Init, PendingInv
<1>5. OrderInv
  <2>1. \A c \in Chans : taken[c] = 0 /\ sent[c] = <<>>
    BY DEF Init
  <2>2. Len(<<>>) = 0 /\ 0 <= 0 /\ 1..0 = {}
    OBVIOUS
  <2>3. \A c \in Chans : taken[c] <= Len(sent[c]) /\ 1..Len(sent[c]) = {}
    BY <2>1, <2>2, Zenon
  <2> QED BY <1>3, <2>3 DEF OrderInv
<1>6. BoundInv
  <2>1. Waiting = {} /\ seq = 0
    BY DEF Init, Waiting
  <2>2. Cardinality(Waiting) = 0
    BY <2>1, FS_EmptySet
  <2> QED BY <2>1, <2>2 DEF BoundInv
<1> QED BY <1>1, <1>2, <1>4, <1>5, <1>6 DEF Inv
--------------------------------------------------------------------------------
(* TypeOK by the part of the state it is about.                            *)
SubsType ==
  /\ subscribers \in [Chans -> Subs \cup {NoSub}]
  /\ sub \in [Subs -> [ch : Chans, mode : Modes \cup {"best effort"}]]
  /\ phase \in [Subs -> {"new", "stored", "armed", "removed"}]
  /\ ended \in [Subs -> BOOLEAN]
  /\ since \in [Subs -> 0..MaxBroadcasts]
ChansType ==
  /\ sent \in [Chans -> Seq(1..MaxBroadcasts)]
  /\ taken \in [Chans -> 0..MaxBroadcasts]
  /\ receiving \in [Chans -> BOOLEAN]
CastType ==
  /\ mu \in Broadcasters \cup {NoOne}
  /\ bpc \in [Broadcasters -> {"idle", "lock", "locked"}]
  /\ seq \in 0..MaxBroadcasts
  /\ todo \subseteq Subs
  /\ parked \subseteq Goroutines
UnsubType ==
  unsub \in [pc : {"idle", "signal", "lock"}, owed : SUBSET Chans,
             visited : SUBSET Chans, left : 0..MaxUnsubscribe, early : SUBSET Subs]

LEMMA TypeParts ==
  TypeOK <=> SubsType /\ ChansType /\ CastType /\ UnsubType /\ closed \subseteq Chans
  BY DEF TypeOK, SubsType, ChansType, CastType, UnsubType

(* A growing sequence of broadcast numbers stays one when a greater number *)
(* is added; that it grows bounds its length.                              *)
Growing(q, n) ==
  /\ \A i \in 1..Len(q) : i <= q[i] /\ q[i] <= n
  /\ \A i, j \in 1..Len(q) : i < j => q[i] < q[j]

LEMMA BelowLast ==
  ASSUME NEW l \in Nat, NEW k \in 1..l + 1, k # l + 1
  PROVE  k \in 1..l
  OBVIOUS

LEMMA AppendGrows ==
  ASSUME NEW M \in Nat, NEW n \in 1..M, NEW q \in Seq(1..M), Growing(q, n),
         \A i \in 1..Len(q) : q[i] < n
  PROVE  /\ Append(q, n) \in Seq(1..M)
         /\ Len(Append(q, n)) = Len(q) + 1
         /\ \A i \in 1..Len(q) : Append(q, n)[i] = q[i]
         /\ Append(q, n)[Len(q) + 1] = n
         /\ Growing(Append(q, n), n)
<1> DEFINE r == Append(q, n)
<1>1. /\ r \in Seq(1..M) /\ Len(r) = Len(q) + 1
      /\ \A i \in 1..Len(q) : r[i] = q[i]
      /\ r[Len(q) + 1] = n
  OBVIOUS
<1>2. Len(q) \in Nat /\ \A i \in 1..Len(q) : q[i] \in 1..M
  OBVIOUS
<1> HIDE DEF r
<1>3. Len(q) + 1 <= n
  <2>1. CASE Len(q) = 0
    BY <2>1
  <2>2. CASE Len(q) > 0
    <3>1. Len(q) <= q[Len(q)] /\ q[Len(q)] < n /\ q[Len(q)] \in 1..M
      BY <1>2, <2>2 DEF Growing
    <3> QED BY <1>2, <3>1
  <2> QED BY <1>2, <2>1, <2>2
<1>4. \A i \in 1..Len(r) : i <= r[i] /\ r[i] <= n
  <2> SUFFICES ASSUME NEW i \in 1..Len(r) PROVE i <= r[i] /\ r[i] <= n
    OBVIOUS
  <2>1. CASE i = Len(q) + 1
    BY <1>1, <1>3, <2>1
  <2>2. CASE i # Len(q) + 1
    <3>1. i \in 1..Len(q)
      BY <1>1, <1>2, <2>2
    <3> QED BY <1>1, <1>2, <3>1 DEF Growing
  <2> QED BY <2>1, <2>2
<1>5. \A i, j \in 1..Len(r) : i < j => r[i] < r[j]
  <2> SUFFICES ASSUME NEW i \in 1..Len(r), NEW j \in 1..Len(r), i < j
               PROVE  r[i] < r[j]
    OBVIOUS
  <2>1. i \in 1..Len(q)
    BY <1>1, <1>2
  <2>2. CASE j = Len(q) + 1
    BY <1>1, <2>1, <2>2
  <2>3. CASE j # Len(q) + 1
    <3>1. j \in 1..Len(q) + 1
      BY <1>1
    <3>2. Len(q) \in Nat
      BY <1>2
    <3>3. j \in 1..Len(q)
      BY <2>3, <3>1, <3>2, BelowLast
    <3> QED BY <1>1, <2>1, <3>3 DEF Growing
  <2> QED BY <2>2, <2>3
<1> QED BY <1>1, <1>4, <1>5 DEF Growing, r

(* A state is sent to the channel of a pending subscription.               *)
LEMMA SendKeepsOrder ==
  ASSUME Inv, NEW s \in Pending, Send(sub[s].ch, seq)
  PROVE  /\ sent' \in [Chans -> Seq(1..MaxBroadcasts)]
         /\ \A c \in Chans : Len(sent[c]) <= Len(sent'[c]) /\ Growing(sent'[c], seq)
         /\ \A c \in Chans : \A i \in 1..Len(sent[c]) :
              i \in 1..Len(sent'[c]) /\ sent'[c][i] = sent[c][i]
         /\ \E i \in 1..Len(sent'[sub[s].ch]) : sent'[sub[s].ch][i] = seq
         /\ \A t \in Pending : t # s => sent'[sub[t].ch] = sent[sub[t].ch]
<1> DEFINE c == sub[s].ch
           q == sent[c]
<1>1. s \in Registered /\ s \in Subs /\ c \in Chans
  BY TypeParts DEF Inv, PendingInv, Registered, SubsType
<1>2. mu # NoOne /\ seq \in 1..MaxBroadcasts
  <2>1. mu # NoOne /\ seq > 0 /\ seq \in 0..MaxBroadcasts
    BY TypeParts DEF Inv, PendingInv, CastType
  <2> QED BY <2>1, BroadcastersAssumption
<1>3. q \in Seq(1..MaxBroadcasts) /\ Growing(q, seq)
      /\ \A i \in 1..Len(q) : q[i] < seq
  BY <1>1, SentTypes DEF Inv, OrderInv, Growing
<1>4. sent \in [Chans -> Seq(1..MaxBroadcasts)]
  BY TypeParts DEF Inv, ChansType
<1>5. sent' = [sent EXCEPT ![c] = Append(q, seq)]
  BY DEF Send
<1>6. \A d \in Chans : Growing(sent[d], seq) /\ Len(sent[d]) \in Nat
  BY SentTypes DEF Inv, OrderInv, Growing
<1>7. \A t \in Pending : t # s => sub[t].ch # c /\ sub[t].ch \in Chans
  BY <1>1, RegisteredApart, TypeParts DEF Inv, PendingInv, Registered, SubsType
<1> HIDE DEF c, q
<1>8. /\ Append(q, seq) \in Seq(1..MaxBroadcasts)
      /\ Len(Append(q, seq)) = Len(q) + 1
      /\ \A i \in 1..Len(q) : Append(q, seq)[i] = q[i]
      /\ Append(q, seq)[Len(q) + 1] = seq
      /\ Growing(Append(q, seq), seq)
  BY <1>2, <1>3, AppendGrows, BroadcastersAssumption
<1> DEFINE r == Append(q, seq)
<1> HIDE DEF r
<1>9. /\ sent' \in [Chans -> Seq(1..MaxBroadcasts)]
      /\ sent'[c] = r
      /\ \A d \in Chans : d # c => sent'[d] = sent[d]
  BY <1>1, <1>4, <1>5, <1>8 DEF r
<1>10. Len(q) \in Nat /\ Len(r) = Len(q) + 1 /\ q = sent[c]
  BY <1>1, <1>6, <1>8 DEF q, r
<1>11. ASSUME NEW d \in Chans
       PROVE  /\ Len(sent[d]) <= Len(sent'[d]) /\ Growing(sent'[d], seq)
              /\ \A i \in 1..Len(sent[d]) :
                   i \in 1..Len(sent'[d]) /\ sent'[d][i] = sent[d][i]
  <2>1. CASE d = c
    <3>1. Growing(r, seq) /\ \A i \in 1..Len(q) : r[i] = q[i]
      BY <1>8 DEF r
    <3>2. Len(q) <= Len(r) /\ \A i \in 1..Len(q) : i \in 1..Len(r)
      BY <1>10
    <3> QED BY <1>9, <1>10, <2>1, <3>1, <3>2
  <2>2. CASE d # c
    BY <1>6, <1>9, <2>2
  <2> QED BY <2>1, <2>2
<1>13. \E i \in 1..Len(sent'[c]) : sent'[c][i] = seq
  <2>1. Len(q) + 1 \in 1..Len(sent'[c])
    BY <1>9, <1>10
  <2> QED BY <1>8, <1>9, <2>1 DEF r
<1>14. \A t \in Pending : t # s => sent'[sub[t].ch] = sent[sub[t].ch]
  BY <1>7, <1>9
<1> QED BY <1>9, <1>11, <1>13, <1>14 DEF c
--------------------------------------------------------------------------------
(* What a step leaves alone keeps its part of the invariant.               *)
LEMMA Frame ==
  ASSUME Inv
  PROVE  /\ UNCHANGED subvars => SubsType'
         /\ UNCHANGED chanvars => ChansType' /\ closed' \subseteq Chans
         /\ UNCHANGED castvars => CastType' /\ BoundInv'
         /\ UNCHANGED unsub => UnsubType'
         /\ UNCHANGED <<subscribers, sub, phase, closed>> => EntriesInv'
         /\ UNCHANGED <<subscribers, sub, castvars>> => PendingInv'
         /\ UNCHANGED <<sent, taken, sub, castvars>> => OrderInv'
<1>1. UNCHANGED subvars => SubsType'
  BY TypeParts DEF Inv, subvars, SubsType
<1>2. UNCHANGED chanvars => ChansType' /\ closed' \subseteq Chans
  BY TypeParts, Zenon DEF Inv, chanvars, ChansType
<1>3. UNCHANGED castvars => CastType' /\ BoundInv'
  <2>1. UNCHANGED castvars => CastType'
    BY TypeParts DEF Inv, castvars, CastType
  <2>2. UNCHANGED castvars => BoundInv'
    BY DEF Inv, castvars, BoundInv, Waiting
  <2> QED BY <2>1, <2>2
<1>4. UNCHANGED unsub => UnsubType'
  BY TypeParts, Zenon DEF Inv, UnsubType
<1>5. UNCHANGED <<subscribers, sub, phase, closed>> => EntriesInv'
  BY DEF Inv, EntriesInv
<1>6. UNCHANGED <<subscribers, sub, castvars>> => PendingInv'
  BY DEF Inv, PendingInv, castvars, Pending, Registered
<1>7. UNCHANGED <<sent, taken, sub, castvars>> => OrderInv'
  BY Zenon DEF Inv, OrderInv, castvars, Pending
<1> QED BY <1>1, <1>2, <1>3, <1>4, <1>5, <1>6, <1>7

(* When no broadcast holds the mutex no send is pending, so subscriptions  *)
(* may change.                                                             *)
LEMMA FreeMutex ==
  ASSUME Inv, mu = NoOne, UNCHANGED castvars
  PROVE  /\ Pending = {} /\ Pending' = {}
         /\ PendingInv'
         /\ UNCHANGED <<sent, taken>> => OrderInv'
<1>1. Pending = {} /\ Pending' = {}
  BY DEF Inv, PendingInv, Pending, castvars
<1>2. PendingInv'
  <2>1. mu' = NoOne /\ parked' = {}
    BY <1>1 DEF castvars, Pending
  <2> QED BY <1>1, <2>1 DEF PendingInv
<1>3. UNCHANGED <<sent, taken>> => OrderInv'
  <2>1. seq' = seq
    BY DEF castvars
  <2> QED BY <1>1, <2>1, Zenon DEF Inv, OrderInv
<1> QED BY <1>1, <1>2, <1>3

LEMMA InvParts ==
  Inv <=> /\ SubsType /\ ChansType /\ CastType /\ UnsubType /\ closed \subseteq Chans
          /\ EntriesInv /\ PendingInv /\ OrderInv /\ BoundInv
  BY TypeParts DEF Inv
LEMMA InvPrimed ==
  ASSUME SubsType', ChansType', CastType', UnsubType', closed' \subseteq Chans,
         EntriesInv', PendingInv', OrderInv', BoundInv'
  PROVE  Inv'
<1>1. TypeOK'
  BY Zenon DEF TypeOK, SubsType, ChansType, CastType, UnsubType
<1> QED BY <1>1 DEF Inv
--------------------------------------------------------------------------------
(* One lemma per group of actions.                                         *)
LEMMA ConsumersKeepInv ==
  ASSUME Inv, NEW c \in Chans, StartReceive(c) \/ FinishReceive(c)
  PROVE  Inv'
<1>1. UNCHANGED <<closed, sent, castvars, subvars, unsub>>
  BY DEF StartReceive, FinishReceive
<1>2. SubsType' /\ CastType' /\ BoundInv' /\ UnsubType' /\ EntriesInv' /\ PendingInv'
      /\ closed' \subseteq Chans
  BY <1>1, Frame, InvParts DEF subvars
<1>3. receiving' \in [Chans -> BOOLEAN]
  BY InvParts DEF StartReceive, FinishReceive, ChansType
<1>4. \/ taken' = taken
      \/ taken[c] < Len(sent[c]) /\ taken' = [taken EXCEPT ![c] = @ + 1]
  <2>1. taken \in [Chans -> 0..MaxBroadcasts]
    BY InvParts DEF ChansType
  <2>2. taken[c] \in Nat /\ Len(sent[c]) \in Nat
    BY <2>1, SentTypes, BroadcastersAssumption DEF Inv
  <2>3. Len(sent[c]) - taken[c] > 0 => taken[c] < Len(sent[c])
    BY <2>2
  <2> QED BY <2>3 DEF StartReceive, FinishReceive, Buffered
<1>5. taken' \in [Chans -> 0..MaxBroadcasts] /\ \A d \in Chans : taken'[d] <= Len(sent[d])
  <2>1. taken \in [Chans -> 0..MaxBroadcasts] /\ \A d \in Chans : taken[d] <= Len(sent[d])
    BY InvParts DEF ChansType, OrderInv
  <2>2. CASE taken' = taken
    BY <2>1, <2>2
  <2>3. CASE taken[c] < Len(sent[c]) /\ taken' = [taken EXCEPT ![c] = @ + 1]
    <3> DEFINE l == Len(sent[c])
    <3>1. l \in Nat /\ l <= MaxBroadcasts
      <4>1. l \in Nat /\ \A i \in 1..l : sent[c][i] \in 1..MaxBroadcasts /\ i <= sent[c][i]
        BY SentTypes DEF Inv, OrderInv
      <4> HIDE DEF l
      <4>2. CASE l = 0
        BY <4>2, BroadcastersAssumption
      <4>3. CASE l > 0
        <5>1. l <= sent[c][l] /\ sent[c][l] \in 1..MaxBroadcasts
          BY <4>1, <4>3
        <5> QED BY <4>1, <5>1, BroadcastersAssumption
      <4> QED BY <4>1, <4>2, <4>3
    <3>2. taken[c] + 1 \in 0..MaxBroadcasts /\ taken[c] + 1 <= l
      BY <2>1, <2>3, <3>1, BroadcastersAssumption
    <3> QED BY <2>1, <2>3, <3>2
  <2> QED BY <1>4, <2>2, <2>3
<1>6. ChansType'
  BY <1>1, <1>3, <1>5, InvParts, Zenon DEF ChansType
<1>7. OrderInv'
  <2>1. sent' = sent /\ seq' = seq /\ Pending' = Pending /\ sub' = sub
    BY <1>1 DEF castvars, subvars, Pending
  <2>2. /\ \A d \in Chans : Growing(sent[d], seq)
        /\ \A s \in Pending : \A i \in 1..Len(sent[sub[s].ch]) : sent[sub[s].ch][i] < seq
    BY InvParts DEF OrderInv, Growing
  <2> QED BY <1>5, <2>1, <2>2, Zenon DEF OrderInv, Growing
<1> QED BY <1>2, <1>6, <1>7, InvPrimed

LEMMA GetStateChanKeepsInv ==
  ASSUME Inv, NEW s \in Subs, GetStateChan(s)
  PROVE  Inv'
<1>1. PICK c \in {s} \cup CustomChans, m \in Modes, e \in BOOLEAN :
        /\ sub' = [sub EXCEPT ![s] = [ch |-> c, mode |-> m]]
        /\ subscribers' = [subscribers EXCEPT ![c] = s]
        /\ ended' = [ended EXCEPT ![s] = e]
  BY DEF GetStateChan
<1>2. /\ phase[s] = "new" /\ mu = NoOne
      /\ phase' = [phase EXCEPT ![s] = "stored"]
      /\ since' = [since EXCEPT ![s] = seq]
      /\ UNCHANGED <<chanvars, castvars, unsub>>
  BY DEF GetStateChan
<1>3. SubsType /\ seq \in 0..MaxBroadcasts /\ c \in Chans
  BY InvParts DEF CastType, Chans
<1>4. SubsType'
  BY <1>1, <1>2, <1>3 DEF SubsType
<1>5. EntriesInv'
  <2>1. EntriesInv /\ closed' = closed
    BY <1>2, InvParts DEF chanvars
  <2>2. c \notin closed
    BY <1>2, <2>1, ChannelsAssumption DEF EntriesInv
  <2>3. \A d \in Chans : d # c /\ subscribers[d] # NoSub => subscribers[d] # s
    BY <1>2, <2>1 DEF EntriesInv
  <2>4. ASSUME NEW d \in Chans, subscribers'[d] # NoSub
        PROVE  /\ sub'[subscribers'[d]].ch = d
               /\ phase'[subscribers'[d]] # "new"
               /\ d \notin closed'
    <3>1. CASE d = c
      BY <1>1, <1>2, <1>3, <2>1, <2>2, <3>1 DEF SubsType
    <3>2. CASE d # c
      <4>1. subscribers'[d] = subscribers[d]
        BY <1>1, <1>3, <3>2 DEF SubsType
      <4>2. subscribers[d] # NoSub /\ subscribers[d] # s /\ subscribers[d] \in Subs
        BY <1>3, <2>3, <2>4, <3>2, <4>1 DEF SubsType
      <4>3. sub'[subscribers[d]] = sub[subscribers[d]]
            /\ phase'[subscribers[d]] = phase[subscribers[d]]
        BY <1>1, <1>2, <1>3, <4>2 DEF SubsType
      <4> QED BY <2>1, <4>1, <4>2, <4>3 DEF EntriesInv
    <3> QED BY <3>1, <3>2
  <2>5. \A t \in Subs : sub'[t].ch \in {t} \cup CustomChans
    BY <1>1, <1>3, <2>1 DEF SubsType, EntriesInv
  <2>6. \A t \in closed' : phase'[t] # "new"
    BY <1>2, <1>3, <2>1 DEF SubsType, EntriesInv
  <2> QED BY <2>1, <2>4, <2>5, <2>6 DEF EntriesInv
<1>6. ChansType' /\ closed' \subseteq Chans /\ CastType' /\ BoundInv' /\ UnsubType'
  BY <1>2, Frame
<1>7. PendingInv' /\ OrderInv'
  BY <1>2, FreeMutex DEF chanvars
<1> QED BY <1>4, <1>5, <1>6, <1>7, InvPrimed

LEMMA SignalsKeepInv ==
  ASSUME Inv,
         \/ \E s \in Subs : ArmAfterFunc(s) \/ CancelContext(s)
         \/ \E c \in Chans : SignalSubscription(c)
         \/ CallUnsubscribeAll \/ EndFirstPass
  PROVE  Inv'
<1>1. UNCHANGED <<subscribers, sub, since, chanvars, castvars>>
  BY DEF ArmAfterFunc, CancelContext, SignalSubscription, CallUnsubscribeAll,
         EndFirstPass, subvars
<1>2. SubsType
  BY InvParts
<1>3. \/ UNCHANGED phase
      \/ \E s \in Subs : phase[s] # "new" /\ phase' = [phase EXCEPT ![s] = "armed"]
  BY DEF ArmAfterFunc, CancelContext, SignalSubscription, CallUnsubscribeAll,
         EndFirstPass, subvars
<1>4. \/ UNCHANGED ended
      \/ \E s \in Subs : ended' = [ended EXCEPT ![s] = TRUE]
  BY <1>2 DEF ArmAfterFunc, CancelContext, SignalSubscription, CallUnsubscribeAll,
         EndFirstPass, subvars, SubsType
<1>5. SubsType'
  <2>1. phase' \in [Subs -> {"new", "stored", "armed", "removed"}]
    BY <1>2, <1>3 DEF SubsType
  <2>2. ended' \in [Subs -> BOOLEAN]
    BY <1>2, <1>4 DEF SubsType
  <2> QED BY <1>1, <1>2, <2>1, <2>2 DEF SubsType
<1>6. EntriesInv'
  <2>1. \A s \in Subs : phase[s] # "new" => phase'[s] # "new"
    BY <1>2, <1>3 DEF SubsType
  <2>2. subscribers' = subscribers /\ sub' = sub /\ closed' = closed
    BY <1>1 DEF chanvars
  <2>3. EntriesInv /\ \A c \in Chans : subscribers[c] # NoSub => subscribers[c] \in Subs
    BY <1>2, InvParts DEF SubsType
  <2> QED BY <2>1, <2>2, <2>3 DEF EntriesInv
<1>7. UnsubType'
  <2>1. UnsubType
    BY InvParts
  <2>2. CASE UNCHANGED unsub
    BY <2>1, <2>2 DEF UnsubType
  <2>3. CASE CallUnsubscribeAll
    BY <2>1, <2>3, BroadcastersAssumption DEF CallUnsubscribeAll, UnsubType, Registered
  <2>4. CASE EndFirstPass
    BY <2>1, <2>4 DEF EndFirstPass, UnsubType
  <2>5. ASSUME NEW c \in Chans, SignalSubscription(c) PROVE UnsubType'
    BY <2>1, <2>5 DEF SignalSubscription, UnsubType
  <2> QED BY <2>2, <2>3, <2>4, <2>5 DEF ArmAfterFunc, CancelContext
<1>8. ChansType' /\ closed' \subseteq Chans /\ CastType' /\ BoundInv'
  BY <1>1, Frame
<1>9. PendingInv' /\ OrderInv'
  BY <1>1, Frame DEF chanvars
<1> QED BY <1>5, <1>6, <1>7, <1>8, <1>9, InvPrimed

LEMMA RemovalsKeepInv ==
  ASSUME Inv, RemoveAll \/ \E s \in Subs : Remove(s)
  PROVE  Inv'
<1>1. /\ mu = NoOne /\ UNCHANGED <<sub, since, sent, taken, receiving, castvars>>
      /\ UNCHANGED phase \/ \E s \in Subs : phase' = [phase EXCEPT ![s] = "removed"]
  BY DEF RemoveAll, Remove
<1>2. SubsType /\ EntriesInv /\ UnsubType
  BY InvParts
<1>3. \A c \in Chans : subscribers'[c] \in {subscribers[c], NoSub}
  BY <1>2 DEF RemoveAll, Remove, RemoveLocked, SubsType
<1>4. ended' \in [Subs -> BOOLEAN] /\ subscribers' \in [Chans -> Subs \cup {NoSub}]
  <2>1. ended \in [Subs -> BOOLEAN] /\ subscribers \in [Chans -> Subs \cup {NoSub}]
    BY <1>2 DEF SubsType
  <2>2. CASE RemoveAll
    BY <2>1, <2>2 DEF RemoveAll
  <2>3. ASSUME NEW s \in Subs, Remove(s)
        PROVE  ended' = ended /\ subscribers' \in [Chans -> Subs \cup {NoSub}]
    BY <2>1, <2>3 DEF Remove, RemoveLocked
  <2> QED BY <2>1, <2>2, <2>3
<1>5. \A t \in Subs : phase[t] # "new" => phase'[t] # "new"
  BY <1>1, <1>2 DEF SubsType
<1>6. SubsType'
  <2>1. phase' \in [Subs -> {"new", "stored", "armed", "removed"}]
    BY <1>1, <1>2 DEF SubsType
  <2> QED BY <1>1, <1>2, <1>4, <2>1 DEF SubsType
<1>7. ASSUME NEW c \in closed', c \notin closed
      PROVE  c \in Subs /\ phase[c] # "new" /\ subscribers'[c] = NoSub
  <2>1. CASE RemoveAll
    <3>1. c \in Registered /\ Owned(c)
      BY <1>7, <2>1 DEF RemoveAll
    <3>2. c \in Subs /\ subscribers[c] = c /\ c \in Chans
      BY <3>1 DEF Registered, Owned, Chans
    <3>3. subscribers' = [d \in Chans |-> NoSub]
      BY <2>1 DEF RemoveAll
    <3> QED BY <1>2, <3>2, <3>3, ChannelsAssumption DEF EntriesInv
  <2>2. ASSUME NEW s \in Subs, Remove(s)
        PROVE  c \in Subs /\ phase[c] # "new" /\ subscribers'[c] = NoSub
    <3>1. c = s /\ sub[s].ch = s /\ phase[s] = "armed"
          /\ subscribers' = [subscribers EXCEPT ![s] = NoSub]
      BY <1>7, <2>2 DEF Remove, RemoveLocked, Owned
    <3> QED BY <1>2, <3>1 DEF SubsType, Chans
  <2> QED BY <2>1, <2>2
<1>8. EntriesInv' /\ closed' \subseteq Chans
  <2>1. closed' \subseteq Subs /\ \A s \in closed' : phase'[s] # "new"
    BY <1>2, <1>5, <1>7 DEF EntriesInv
  <2>2. \A c \in Chans : subscribers'[c] # NoSub =>
          /\ sub'[subscribers'[c]].ch = c
          /\ phase'[subscribers'[c]] # "new"
          /\ c \notin closed'
    <3> SUFFICES ASSUME NEW c \in Chans, subscribers'[c] # NoSub
                 PROVE  /\ sub'[subscribers'[c]].ch = c
                        /\ phase'[subscribers'[c]] # "new"
                        /\ c \notin closed'
      OBVIOUS
    <3>1. subscribers'[c] = subscribers[c] /\ subscribers[c] # NoSub
      BY <1>3
    <3>2. subscribers[c] \in Subs
      BY <1>2, <3>1 DEF SubsType
    <3>3. sub[subscribers[c]].ch = c /\ phase[subscribers[c]] # "new" /\ c \notin closed
      BY <1>2, <3>1 DEF EntriesInv
    <3>4. phase'[subscribers[c]] # "new"
      BY <1>5, <3>2, <3>3
    <3>5. c \notin closed'
      BY <1>7, <3>1, <3>3
    <3> QED BY <1>1, <3>1, <3>3, <3>4, <3>5
  <2> QED BY <1>1, <1>2, <2>1, <2>2 DEF EntriesInv, Chans
<1>9. UnsubType'
  <2>1. CASE RemoveAll
    BY <1>2, <2>1 DEF RemoveAll, UnsubType
  <2>2. ASSUME NEW s \in Subs, Remove(s) PROVE UnsubType'
    BY <1>2, <2>2 DEF Remove, UnsubType
  <2> QED BY <2>1, <2>2
<1>10. CastType' /\ BoundInv'
  BY <1>1, Frame
<1>11. PendingInv' /\ OrderInv'
  BY <1>1, FreeMutex
<1>12. ChansType'
  BY <1>1, InvParts, Zenon DEF ChansType
<1> QED BY <1>6, <1>8, <1>9, <1>10, <1>11, <1>12, InvPrimed

LEMMA MutexStepsKeepInv ==
  ASSUME Inv, NEW b \in Broadcasters,
         CallBroadcast(b) \/ LockBroadcast(b) \/ FinishBroadcast(b)
  PROVE  Inv'
<1>1. UNCHANGED <<parked, chanvars, subvars, unsub>>
  BY DEF CallBroadcast, LockBroadcast, FinishBroadcast
<1>2. SubsType' /\ ChansType' /\ UnsubType' /\ EntriesInv' /\ closed' \subseteq Chans
  BY <1>1, Frame DEF chanvars, subvars
<1>3. CastType /\ PendingInv /\ OrderInv /\ BoundInv /\ SubsType
  BY InvParts
<1>4. IsFiniteSet(Waiting) /\ Cardinality(Waiting) \in Nat
  BY BroadcastersAssumption, FS_Subset, FS_CardinalityType DEF Waiting
<1>5. Registered' = Registered /\ Registered \subseteq Subs
  BY <1>1 DEF Registered, subvars
<1>6. CASE CallBroadcast(b)
  <2>1. Waiting' = Waiting \cup {b} /\ b \notin Waiting
    BY <1>3, <1>6 DEF CallBroadcast, Waiting, CastType
  <2>2. Cardinality(Waiting') = Cardinality(Waiting) + 1
    BY <1>4, <2>1, FS_AddElement
  <2>3. seq' = seq /\ seq \in Nat /\ seq + Cardinality(Waiting) < MaxBroadcasts
    BY <1>3, <1>6, BroadcastersAssumption DEF CallBroadcast, CastType
  <2>4. BoundInv'
    BY <1>4, <2>2, <2>3, BroadcastersAssumption DEF BoundInv
  <2>5. CastType'
    BY <1>3, <1>6 DEF CallBroadcast, CastType
  <2>6. UNCHANGED <<mu, seq, todo, parked, sub, sent, taken>> /\ Pending' = Pending
    BY <1>6 DEF CallBroadcast, Pending, subvars, chanvars
  <2>7. PendingInv'
    BY <1>3, <1>5, <2>6 DEF PendingInv
  <2>8. OrderInv'
    BY <1>3, <2>6, Zenon DEF OrderInv
  <2> QED BY <1>2, <2>4, <2>5, <2>7, <2>8, InvPrimed
<1>7. CASE LockBroadcast(b)
  <2>1. Waiting' = Waiting \ {b} /\ b \in Waiting
    BY <1>3, <1>7 DEF LockBroadcast, Waiting, CastType
  <2>2. Cardinality(Waiting') = Cardinality(Waiting) - 1
    BY <1>4, <2>1, FS_RemoveElement
  <2>3. Cardinality(Waiting) > 0
    BY <1>4, <2>1, FS_EmptySet
  <2>4. seq' = seq + 1 /\ seq \in Nat /\ seq + Cardinality(Waiting) <= MaxBroadcasts
    BY <1>3, <1>7, BroadcastersAssumption DEF LockBroadcast, CastType, BoundInv
  <2>5. BoundInv' /\ seq' \in 1..MaxBroadcasts
    BY <1>4, <2>2, <2>3, <2>4, BroadcastersAssumption DEF BoundInv
  <2>6. /\ mu = NoOne /\ mu' = b /\ todo' = Registered /\ parked' = parked
        /\ bpc' = [bpc EXCEPT ![b] = "locked"]
    BY <1>7 DEF LockBroadcast
  <2>7. CastType'
    BY <1>3, <1>5, <2>5, <2>6, BroadcastersAssumption DEF CastType
  <2>8. parked = {} /\ Pending' = Registered
    BY <1>3, <2>6 DEF PendingInv, Pending
  <2>9. PendingInv'
    BY <1>5, <2>5, <2>6, <2>8, BroadcastersAssumption DEF PendingInv
  <2>10. \A c \in Chans : \A i \in 1..Len(sent[c]) :
           sent[c][i] \in Nat /\ sent[c][i] <= seq /\ sent[c][i] <= seq' /\ sent[c][i] < seq'
    BY <1>3, <2>4, SentTypes, BroadcastersAssumption DEF Inv, OrderInv
  <2>11. \A c \in Chans :
           /\ taken[c] <= Len(sent[c])
           /\ \A i \in 1..Len(sent[c]) : i <= sent[c][i] /\ sent[c][i] <= seq'
           /\ \A i, j \in 1..Len(sent[c]) : i < j => sent[c][i] < sent[c][j]
    BY <1>3, <2>10, Zenon DEF OrderInv
  <2>14. \A s \in Registered : sub[s].ch \in Chans
    BY <1>3, <1>5 DEF SubsType
  <2>12. sent' = sent /\ taken' = taken /\ sub' = sub
    BY <1>1 DEF chanvars, subvars
  <2>13. OrderInv'
    BY <2>8, <2>10, <2>11, <2>12, <2>14, Zenon DEF OrderInv
  <2> QED BY <1>2, <2>5, <2>7, <2>9, <2>13, InvPrimed
<1>8. CASE FinishBroadcast(b)
  <2>1. /\ mu' = NoOne /\ todo' = {} /\ parked' = {} /\ seq' = seq
        /\ bpc' = [bpc EXCEPT ![b] = "idle"]
    BY <1>8 DEF FinishBroadcast
  <2>2. Pending' = {} /\ Pending = {}
    BY <1>8, <2>1 DEF FinishBroadcast, Pending
  <2>3. CastType' /\ PendingInv'
    BY <1>3, <2>1, <2>2 DEF CastType, PendingInv
  <2>4. OrderInv'
    BY <1>1, <1>3, <2>1, <2>2, Zenon DEF OrderInv, chanvars, subvars
  <2>5. Waiting' = Waiting \ {b}
    BY <1>3, <2>1 DEF Waiting, CastType
  <2>6. Cardinality(Waiting') <= Cardinality(Waiting) /\ Cardinality(Waiting') \in Nat
    BY <1>4, <2>5, FS_Subset, FS_CardinalityType
  <2>7. BoundInv'
    BY <1>3, <1>4, <2>1, <2>6, BroadcastersAssumption DEF BoundInv, CastType
  <2> QED BY <1>2, <2>3, <2>4, <2>7, InvPrimed
<1> QED BY <1>6, <1>7, <1>8

LEMMA SendsKeepInv ==
  ASSUME Inv, \/ \E s \in Subs : VisitSubscriber(s)
              \/ \E g \in parked : Deliver(g) \/ GiveUp(g)
  PROVE  Inv'
<1>1. UNCHANGED <<mu, bpc, seq, closed, taken, receiving, subvars, unsub>>
  BY DEF VisitSubscriber, Deliver, GiveUp, chanvars
<1>2. SubsType' /\ UnsubType' /\ EntriesInv' /\ closed' \subseteq Chans /\ BoundInv'
  <2>1. UNCHANGED <<subscribers, sub, phase, closed, since, ended, unsub, seq, bpc>>
    BY <1>1 DEF subvars
  <2>2. BoundInv'
    BY <2>1, InvParts DEF BoundInv, Waiting
  <2>3. closed' \subseteq Chans
    BY <2>1, InvParts
  <2>4. UNCHANGED subvars
    BY <1>1
  <2> QED BY <2>1, <2>2, <2>3, <2>4, Frame
<1>3. CastType /\ ChansType /\ PendingInv /\ OrderInv /\ SubsType
  BY InvParts
<1>4. Registered' = Registered /\ Registered \subseteq Subs
  BY <1>1 DEF Registered, subvars
(* A send, if any, is to a subscription that is pending no longer.         *)
<1>5. /\ Pending' \subseteq Pending
      /\ parked' \subseteq Goroutines /\ todo' \subseteq Subs
      /\ \A g \in parked' : g.val = seq /\ g.sub \notin todo'
      /\ \/ UNCHANGED sent
         \/ \E s \in Pending : Send(sub[s].ch, seq) /\ s \notin Pending'
  <2>1. ASSUME NEW s \in Subs, VisitSubscriber(s) PROVE <1>5!:
    <3>1. s \in Pending /\ s \in todo /\ todo' = todo \ {s}
      BY <2>1 DEF VisitSubscriber, Pending
    <3>2. mu # NoOne /\ seq \in 1..MaxBroadcasts
      BY <1>3, <3>1, BroadcastersAssumption DEF PendingInv, CastType
    <3>3. CASE sub[s].mode = "best effort"
      <4>1. parked' = parked
        BY <2>1, <3>3 DEF VisitSubscriber
      <4>2. UNCHANGED sent \/ Send(sub[s].ch, seq)
        BY <2>1, <3>3 DEF VisitSubscriber
      <4>3. s \notin Pending' /\ Pending' \subseteq Pending
        BY <1>3, <3>1, <4>1 DEF Pending, PendingInv
      <4> QED BY <1>3, <3>1, <4>1, <4>2, <4>3 DEF PendingInv, CastType
    <3>4. CASE sub[s].mode # "best effort"
      <4> DEFINE new == [sub |-> s, val |-> seq]
      <4>1. parked' = parked \cup {new} /\ UNCHANGED sent
        BY <2>1, <3>4 DEF VisitSubscriber
      <4>2. new.sub = s /\ new.val = seq /\ new \in Goroutines
        BY <3>2 DEF Goroutines
      <4> HIDE DEF new
      <4>3. Pending' \subseteq Pending
        BY <3>1, <4>1, <4>2 DEF Pending
      <4> QED BY <1>3, <3>1, <4>1, <4>2, <4>3 DEF PendingInv, CastType
    <3> QED BY <3>3, <3>4
  <2>2. ASSUME NEW g \in parked, Deliver(g) \/ GiveUp(g) PROVE <1>5!:
    <3>1. todo' = todo /\ parked' = parked \ {g}
      BY <2>2 DEF Deliver, GiveUp
    <3>2. g.val = seq /\ g.sub \in Pending /\ g \in Goroutines
      BY <1>3 DEF PendingInv, Pending, CastType
    <3>3. \A h \in parked : h.sub = g.sub => h = g
      <4>1. \A h \in Goroutines : h = [sub |-> h.sub, val |-> h.val]
        BY DEF Goroutines
      <4> QED BY <1>3, <3>2, <4>1 DEF PendingInv, CastType
    <3>4. g.sub \notin Pending' /\ Pending' \subseteq Pending
      BY <1>3, <3>1, <3>3 DEF PendingInv, Pending
    <3>5. UNCHANGED sent \/ Send(sub[g.sub].ch, seq)
      BY <2>2, <3>2 DEF Deliver, GiveUp, chanvars
    <3> QED BY <1>3, <3>1, <3>2, <3>4, <3>5 DEF PendingInv, CastType
  <2> QED BY <2>1, <2>2
<1>6. CastType'
  BY <1>1, <1>3, <1>5 DEF CastType
<1>7. PendingInv'
  BY <1>1, <1>3, <1>4, <1>5 DEF PendingInv
<1>8. ChansType' /\ OrderInv'
  <2>1. CASE UNCHANGED sent
    <3>1. ChansType'
      BY <1>1, <1>3, <2>1 DEF ChansType
    <3>2. OrderInv'
      <4>1. sent' = sent /\ taken' = taken /\ seq' = seq /\ sub' = sub
        BY <1>1, <2>1 DEF subvars
      <4> QED BY <1>3, <1>5, <4>1, Zenon DEF OrderInv
    <3> QED BY <3>1, <3>2
  <2>2. ASSUME NEW s \in Pending, Send(sub[s].ch, seq), s \notin Pending'
        PROVE  ChansType' /\ OrderInv'
    <3>1. /\ sent' \in [Chans -> Seq(1..MaxBroadcasts)]
          /\ \A c \in Chans : Len(sent[c]) <= Len(sent'[c]) /\ Growing(sent'[c], seq)
          /\ \A t \in Pending : t # s => sent'[sub[t].ch] = sent[sub[t].ch]
      BY <2>2, SendKeepsOrder
    <3>2. taken' = taken /\ receiving' = receiving /\ seq' = seq /\ sub' = sub
      BY <1>1 DEF subvars
    <3>3. ChansType'
      BY <1>3, <3>1, <3>2, Zenon DEF ChansType
    <3>4. \A c \in Chans : taken'[c] <= Len(sent'[c])
      <4> SUFFICES ASSUME NEW c \in Chans PROVE taken[c] <= Len(sent'[c])
        BY <3>2
      <4>1. taken[c] \in Nat /\ taken[c] <= Len(sent[c]) /\ Len(sent[c]) <= Len(sent'[c])
        BY <1>3, <3>1, BroadcastersAssumption DEF ChansType, OrderInv
      <4>2. Len(sent[c]) \in Nat
        BY SentTypes DEF Inv
      <4>3. \A q \in Seq(1..MaxBroadcasts) : Len(q) \in Nat
        OBVIOUS
      <4>4. Len(sent'[c]) \in Nat
        BY <3>1, <4>3
      <4> QED BY <4>1, <4>2, <4>4
    <3>5. \A t \in Pending' : \A i \in 1..Len(sent'[sub[t].ch]) :
            sent'[sub[t].ch][i] < seq
      <4> SUFFICES ASSUME NEW t \in Pending'
                   PROVE  \A i \in 1..Len(sent'[sub[t].ch]) : sent'[sub[t].ch][i] < seq
        OBVIOUS
      <4>1. t \in Pending /\ t # s
        BY <1>5, <2>2
      <4>2. sent'[sub[t].ch] = sent[sub[t].ch]
        BY <3>1, <4>1
      <4> QED BY <1>3, <4>1, <4>2, Zenon DEF OrderInv
    <3>6. OrderInv'
      BY <3>1, <3>2, <3>4, <3>5, Zenon DEF OrderInv, Growing
    <3> QED BY <3>3, <3>6
  <2> QED BY <1>5, <2>1, <2>2
<1> QED BY <1>2, <1>6, <1>7, <1>8, InvPrimed

LEMMA NextInv == Inv /\ [Next]_vars => Inv'
<1> SUFFICES ASSUME Inv, [Next]_vars PROVE Inv'
  OBVIOUS
<1>1. ASSUME NEW c \in Chans, StartReceive(c) \/ FinishReceive(c) PROVE Inv'
  BY <1>1, ConsumersKeepInv
<1>2. ASSUME NEW s \in Subs, GetStateChan(s) PROVE Inv'
  BY <1>2, GetStateChanKeepsInv
<1>3. ASSUME NEW b \in Broadcasters,
             CallBroadcast(b) \/ LockBroadcast(b) \/ FinishBroadcast(b)
      PROVE  Inv'
  BY <1>3, MutexStepsKeepInv
<1>4. CASE UNCHANGED vars
  <2>1. UNCHANGED <<chanvars, castvars, subvars, unsub>>
    BY <1>4 DEF vars
  <2>2. UNCHANGED <<closed, sent, taken, receiving, castvars, subvars, unsub>>
    BY <2>1 DEF chanvars
  <2>3. UNCHANGED <<subscribers, sub, phase, ended, since, closed, sent, taken, receiving, castvars, unsub>>
    BY <2>2 DEF subvars
  <2> QED BY <2>1, <2>3, Frame, InvPrimed
<1> QED BY <1>1, <1>2, <1>3, <1>4, SignalsKeepInv, RemovalsKeepInv, SendsKeepInv DEF Next

LEMMA AlwaysInv == Spec => []Inv
  BY InitInv, NextInv, PTL DEF Spec
--------------------------------------------------------------------------------
(* Every variable keeps its type, and the broadcasts keep to their bound.  *)
THEOREM TypeCorrect == Spec => []TypeOK
<1>1. Inv => TypeOK
  BY DEF Inv
<1> QED BY <1>1, AlwaysInv, PTL

(* Broadcast never sends on a channel that removeLocked or UnsubscribeAll  *)
(* has closed, and neither closes a channel twice or one of a caller.      *)
THEOREM ClosedChannelsUnused == Spec => []NoUseOfClosedChannel
<1>1. Inv => NoUseOfClosedChannel
  <2> SUFFICES ASSUME Inv PROVE NoUseOfClosedChannel
    OBVIOUS
  <2>1. EntriesInv /\ PendingInv /\ SubsType
    BY InvParts
  <2>2. \A s \in Pending : sub[s].ch \notin closed
    <3> SUFFICES ASSUME NEW s \in Pending PROVE sub[s].ch \notin closed
      OBVIOUS
    <3>1. s \in Subs /\ subscribers[sub[s].ch] = s
      BY <2>1 DEF PendingInv, Registered
    <3>2. sub[s].ch \in Chans /\ s # NoSub
      BY <2>1, <3>1, ChannelsAssumption DEF SubsType
    <3> QED BY <2>1, <3>1, <3>2 DEF EntriesInv
  <2> QED BY <2>1, <2>2 DEF NoUseOfClosedChannel, EntriesInv, Pending
<1> QED BY <1>1, AlwaysInv, PTL

(* The sends of Broadcast reach every channel in the order of the mutex.   *)
THEOREM OneOrder == Spec => []SameOrderEverywhere
<1>1. Inv => SameOrderEverywhere
  BY DEF Inv, OrderInv, SameOrderEverywhere
<1> QED BY <1>1, AlwaysInv, PTL
--------------------------------------------------------------------------------
(* Where no two subscriptions share a channel.                             *)
LEMMA InitLive == Init => LiveInv /\ DeliveryInv
  BY DEF Init, LiveInv, DeliveryInv, Live

LEMMA LivesEnd ==
  ASSUME Inv, [Next]_vars,
         ~ \E s \in Subs : GetStateChan(s)
  PROVE  /\ sub' = sub /\ since' = since
         /\ \A s \in Subs : (phase'[s] # "new" => phase[s] # "new") /\ (Live(s)' => Live(s))
<1>1. SubsType
  BY InvParts
<1>2. ASSUME UNCHANGED subvars
      PROVE  /\ sub' = sub /\ since' = since
             /\ \A s \in Subs : (phase'[s] # "new" => phase[s] # "new") /\ (Live(s)' => Live(s))
  BY <1>2 DEF subvars, Live
<1>3. ASSUME sub' = sub, since' = since,
             UNCHANGED phase \/ \E s \in Subs :
               phase[s] # "new" /\ \E p \in {"armed", "removed"} : phase' = [phase EXCEPT ![s] = p],
             \A s \in Subs : ~ended'[s] => ~ended[s]
      PROVE  /\ sub' = sub /\ since' = since
             /\ \A s \in Subs : (phase'[s] # "new" => phase[s] # "new") /\ (Live(s)' => Live(s))
  BY <1>1, <1>3 DEF SubsType, Live
<1>4. ASSUME NEW s \in Subs, ArmAfterFunc(s) \/ CancelContext(s) \/ Remove(s)
      PROVE  /\ sub' = sub /\ since' = since
             /\ UNCHANGED phase \/ \E t \in Subs :
                  phase[t] # "new" /\ \E p \in {"armed", "removed"} : phase' = [phase EXCEPT ![t] = p]
             /\ \A t \in Subs : ~ended'[t] => ~ended[t]
  BY <1>1, <1>4 DEF ArmAfterFunc, CancelContext, Remove, SubsType
<1>5. ASSUME RemoveAll \/ \E c \in Chans : SignalSubscription(c)
      PROVE  /\ sub' = sub /\ since' = since /\ phase' = phase
             /\ \A t \in Subs : ~ended'[t] => ~ended[t]
  BY <1>1, <1>5 DEF RemoveAll, SignalSubscription, SubsType
<1>6. ASSUME \/ \E c \in Chans : StartReceive(c) \/ FinishReceive(c)
             \/ \E s \in Subs : VisitSubscriber(s)
             \/ \E b \in Broadcasters :
                  CallBroadcast(b) \/ LockBroadcast(b) \/ FinishBroadcast(b)
             \/ \E g \in parked : Deliver(g) \/ GiveUp(g)
             \/ CallUnsubscribeAll \/ EndFirstPass \/ UNCHANGED vars
      PROVE  UNCHANGED subvars
  BY <1>6 DEF StartReceive, FinishReceive, VisitSubscriber, CallBroadcast, LockBroadcast,
     FinishBroadcast, Deliver, GiveUp, CallUnsubscribeAll, EndFirstPass, vars
<1> QED BY <1>2, <1>3, <1>4, <1>5, <1>6, Zenon DEF Next

LEMMA LiveNext ==
  ASSUME SharedChans = {}, Inv, LiveInv, [Next]_vars
  PROVE  LiveInv'
<1>1. SubsType /\ EntriesInv
  BY InvParts
<1>2. CASE \E s \in Subs : GetStateChan(s)
  <2>1. PICK s \in Subs : GetStateChan(s)
    BY <1>2
  <2>2. PICK c \in {s} \cup CustomChans, m \in Modes, e \in BOOLEAN :
          /\ ~UsedBefore(c)
          /\ sub' = [sub EXCEPT ![s] = [ch |-> c, mode |-> m]]
          /\ subscribers' = [subscribers EXCEPT ![c] = s]
          /\ ended' = [ended EXCEPT ![s] = e]
    BY <2>1 DEF GetStateChan
  <2>3. phase[s] = "new" /\ phase' = [phase EXCEPT ![s] = "stored"]
    BY <2>1 DEF GetStateChan
  <2>4. \A t \in Subs : phase[t] # "new" => sub[t].ch # c
    BY <2>2 DEF UsedBefore
  <2>5. /\ sub'[s].ch = c /\ subscribers'[c] = s
        /\ \A t \in Subs : t # s => /\ sub'[t] = sub[t] /\ phase'[t] = phase[t]
                                    /\ ended'[t] = ended[t]
        /\ \A d \in Chans : d # c => subscribers'[d] = subscribers[d]
    BY <1>1, <2>2, <2>3 DEF SubsType, Chans
  <2>6. \A t \in Subs : sub[t].ch \in Chans
    BY <1>1 DEF SubsType
  <2> QED BY <2>4, <2>5, <2>6 DEF LiveInv, Live
<1>3. CASE ~ \E s \in Subs : GetStateChan(s)
  <2>1. /\ sub' = sub
        /\ \A s \in Subs : (phase'[s] # "new" => phase[s] # "new") /\ (Live(s)' => Live(s))
    BY <1>3, LivesEnd
  <2>2. \A s \in Subs : Live(s)' => subscribers'[sub[s].ch] = s
    <3> SUFFICES ASSUME NEW s \in Subs, Live(s)' PROVE subscribers'[sub[s].ch] = s
      OBVIOUS
    <3>1. Live(s) /\ subscribers[sub[s].ch] = s
      BY <2>1 DEF LiveInv
    <3>2. ~RemoveAll
      <4>1. SUFFICES ASSUME RemoveAll PROVE FALSE
        OBVIOUS
      <4>2. ended'[s]
        BY <3>1, <4>1 DEF RemoveAll, Registered
      <4> QED BY <4>2 DEF Live
    <3>3. ASSUME NEW t \in Subs, Remove(t) PROVE subscribers'[sub[s].ch] = s
      <4>1. t # s /\ phase[t] # "new" /\ phase[s] # "new"
        BY <3>1, <3>3 DEF Remove, Live
      <4>2. sub[t].ch # sub[s].ch
        BY <4>1 DEF LiveInv
      <4>3. subscribers' = [subscribers EXCEPT ![sub[t].ch] = NoSub]
        BY <3>3 DEF Remove, RemoveLocked
      <4>4. sub[s].ch \in Chans
        BY <1>1 DEF SubsType
      <4> QED BY <1>1, <3>1, <4>2, <4>3, <4>4 DEF SubsType
    <3>4. \/ subscribers' = subscribers \/ RemoveAll \/ \E t \in Subs : Remove(t)
      BY <1>3 DEF Next, vars, subvars, StartReceive, FinishReceive, SignalSubscription,
         ArmAfterFunc, CancelContext, VisitSubscriber, CallBroadcast, LockBroadcast,
         FinishBroadcast, Deliver, GiveUp, CallUnsubscribeAll, EndFirstPass
    <3> QED BY <3>1, <3>2, <3>3, <3>4
  <2> QED BY <2>1, <2>2 DEF LiveInv
<1> QED BY <1>2, <1>3

(* Nothing is forgotten by a step that leaves the broadcast's number alone *)
(* and keeps each live guaranteed subscription pending or sends to it.     *)
LEMMA DeliveryFrame ==
  ASSUME Inv, DeliveryInv, seq' = seq,
         \A s \in Subs : phase'[s] # "new" /\ ~ended'[s] /\ sub'[s].mode = "guaranteed" =>
           /\ Live(s) /\ sub'[s] = sub[s] /\ since'[s] = since[s]
           /\ s \in Pending =>
                s \in Pending' \/ \E i \in 1..Len(sent'[sub[s].ch]) : sent'[sub[s].ch][i] = seq,
         \A c \in Chans : \A i \in 1..Len(sent[c]) :
           i \in 1..Len(sent'[c]) /\ sent'[c][i] = sent[c][i]
  PROVE  DeliveryInv'
<1> SUFFICES ASSUME NEW s \in Subs, phase'[s] # "new", ~ended'[s],
                    sub'[s].mode = "guaranteed"
             PROVE  /\ since'[s] <= seq'
                    /\ \A n \in since'[s] + 1 .. seq' :
                         \/ \E i \in 1..Len(sent'[sub'[s].ch]) : sent'[sub'[s].ch][i] = n
                         \/ n = seq' /\ s \in Pending'
  BY DEF DeliveryInv, HasBeenSent, Live
<1>1. /\ Live(s) /\ sub'[s] = sub[s] /\ since'[s] = since[s]
      /\ s \in Pending =>
           s \in Pending' \/ \E i \in 1..Len(sent'[sub[s].ch]) : sent'[sub[s].ch][i] = seq
  OBVIOUS
<1>2. sub[s].ch \in Chans
  BY InvParts DEF SubsType
<1>3. since[s] <= seq /\ \A n \in since[s] + 1 .. seq :
        \/ \E i \in 1..Len(sent[sub[s].ch]) : sent[sub[s].ch][i] = n
        \/ n = seq /\ s \in Pending
  BY <1>1 DEF DeliveryInv, HasBeenSent
<1>4. \A i \in 1..Len(sent[sub[s].ch]) :
        i \in 1..Len(sent'[sub[s].ch]) /\ sent'[sub[s].ch][i] = sent[sub[s].ch][i]
  BY <1>2
<1>5. ASSUME NEW n \in since[s] + 1 .. seq
      PROVE  \/ \E i \in 1..Len(sent'[sub[s].ch]) : sent'[sub[s].ch][i] = n
             \/ n = seq /\ s \in Pending'
  BY <1>1, <1>3, <1>4, Zenon
<1> QED BY <1>1, <1>3, <1>5

LEMMA Counts ==
  ASSUME Inv
  PROVE  seq \in Nat /\ \A s \in Subs : since[s] \in Nat
<1>1. since \in [Subs -> 0..MaxBroadcasts] /\ seq \in 0..MaxBroadcasts
  BY InvParts DEF SubsType, CastType
<1> QED BY <1>1, BroadcastersAssumption

LEMMA DeliveryNext ==
  ASSUME SharedChans = {}, Inv, LiveInv, DeliveryInv, [Next]_vars
  PROVE  DeliveryInv'
<1>1. SubsType /\ CastType /\ PendingInv
  BY InvParts
<1>2. CASE \E s \in Subs : GetStateChan(s)
  <2>1. PICK s \in Subs : GetStateChan(s)
    BY <1>2
  <2>2. /\ since' = [since EXCEPT ![s] = seq] /\ phase' = [phase EXCEPT ![s] = "stored"]
        /\ mu = NoOne /\ UNCHANGED <<chanvars, castvars>>
        /\ \E e \in BOOLEAN : ended' = [ended EXCEPT ![s] = e]
        /\ \E c, m : sub' = [sub EXCEPT ![s] = [ch |-> c, mode |-> m]]
    BY <2>1, Zenon DEF GetStateChan
  <2>3. seq' = seq /\ sent' = sent /\ Pending = {}
    BY <2>2, <1>1 DEF castvars, chanvars, PendingInv
  <2>4. since'[s] = seq /\ seq \in Nat
    <3>1. since \in [Subs -> 0..MaxBroadcasts]
      BY <1>1 DEF SubsType
    <3> QED BY <2>2, <3>1, Counts
  <2>5. \A t \in Subs : t # s => /\ since'[t] = since[t] /\ sub'[t] = sub[t]
                                /\ phase'[t] = phase[t] /\ ended'[t] = ended[t]
    BY <1>1, <2>2 DEF SubsType
  <2> SUFFICES ASSUME NEW t \in Subs, phase'[t] # "new", ~ended'[t],
                      sub'[t].mode = "guaranteed"
               PROVE  /\ since'[t] <= seq'
                      /\ \A n \in since'[t] + 1 .. seq' :
                           \E i \in 1..Len(sent'[sub'[t].ch]) : sent'[sub'[t].ch][i] = n
    BY Zenon DEF DeliveryInv, HasBeenSent, Live
  <2>6. CASE t = s
    BY <2>3, <2>4, <2>6
  <2>7. CASE t # s
    <3>1. /\ since[t] <= seq
          /\ \A n \in since[t] + 1 .. seq :
               \E i \in 1..Len(sent[sub[t].ch]) : sent[sub[t].ch][i] = n
      BY <2>3, <2>5, <2>7, Zenon DEF DeliveryInv, HasBeenSent, Live
    <3>2. since'[t] = since[t] /\ sub'[t] = sub[t]
      BY <2>5, <2>7
    <3> QED BY <2>3, <3>1, <3>2, Zenon
  <2> QED BY <2>6, <2>7
<1>3. CASE \E b \in Broadcasters : LockBroadcast(b)
  <2>1. /\ mu = NoOne /\ seq' = seq + 1 /\ todo' = Registered /\ parked' = parked
        /\ UNCHANGED <<chanvars, subvars>>
    BY <1>3 DEF LockBroadcast
  <2>2. Pending = {} /\ Registered \subseteq Pending' /\ seq \in Nat
    BY <1>1, <2>1, BroadcastersAssumption DEF PendingInv, Pending, CastType
  <2>3. sent' = sent /\ sub' = sub /\ since' = since /\ phase' = phase /\ ended' = ended
    BY <2>1 DEF chanvars, subvars
  <2> SUFFICES ASSUME NEW t \in Subs, Live(t), sub[t].mode = "guaranteed"
               PROVE  /\ since[t] <= seq'
                      /\ \A n \in since[t] + 1 .. seq' :
                           \/ \E i \in 1..Len(sent[sub[t].ch]) : sent[sub[t].ch][i] = n
                           \/ n = seq' /\ t \in Pending'
    BY <2>3, Zenon DEF DeliveryInv, HasBeenSent, Live
  <2>4. /\ since[t] <= seq
        /\ \A n \in since[t] + 1 .. seq :
             \E i \in 1..Len(sent[sub[t].ch]) : sent[sub[t].ch][i] = n
    BY <2>2, Zenon DEF DeliveryInv, HasBeenSent
  <2>5. t \in Pending'
    BY <2>2 DEF LiveInv, Registered
  <2>6. since[t] \in Nat
    BY Counts
  <2>7. \A n \in since[t] + 1 .. seq + 1 : n = seq + 1 \/ n \in since[t] + 1 .. seq
    BY <2>2, <2>6
  <2> QED BY <2>1, <2>2, <2>4, <2>5, <2>6, <2>7
<1>4. CASE \E s \in Subs : VisitSubscriber(s)
  <2>1. PICK s \in Subs : VisitSubscriber(s)
    BY <1>4
  <2>2. /\ s \in todo /\ todo' = todo \ {s}
        /\ UNCHANGED <<seq, subvars>>
    BY <2>1 DEF VisitSubscriber
  <2>3. sub' = sub /\ since' = since /\ phase' = phase /\ ended' = ended
    BY <2>2 DEF subvars
  <2>4. \A c \in Chans : \A i \in 1..Len(sent[c]) :
           i \in 1..Len(sent'[c]) /\ sent'[c][i] = sent[c][i]
    <3>1. CASE UNCHANGED sent
      BY <3>1
    <3>2. CASE Send(sub[s].ch, seq)
      BY <2>2, <3>2, SendKeepsOrder DEF Pending
    <3> QED BY <2>1, <3>1, <3>2 DEF VisitSubscriber
  <2>5. \A t \in Pending : sub[t].mode = "guaranteed" => t \in Pending'
    <3>1. CASE sub[s].mode = "best effort"
      <4>1. parked' = parked
        BY <2>1, <3>1 DEF VisitSubscriber
      <4> QED BY <2>2, <3>1, <4>1 DEF Pending
    <3>2. CASE sub[s].mode # "best effort"
      <4> DEFINE new == [sub |-> s, val |-> seq]
      <4>1. parked' = parked \cup {new} /\ new.sub = s
        BY <2>1, <3>2 DEF VisitSubscriber
      <4> HIDE DEF new
      <4> QED BY <2>2, <4>1 DEF Pending
    <3> QED BY <3>1, <3>2
  <2> QED BY <2>2, <2>3, <2>4, <2>5, DeliveryFrame DEF Live
<1>5. CASE \E g \in parked : Deliver(g) \/ GiveUp(g)
  <2>1. PICK g \in parked : Deliver(g) \/ GiveUp(g)
    BY <1>5
  <2>2. todo' = todo /\ parked' = parked \ {g} /\ UNCHANGED <<seq, subvars>>
    BY <2>1 DEF Deliver, GiveUp
  <2>3. sub' = sub /\ since' = since /\ phase' = phase /\ ended' = ended
    BY <2>2 DEF subvars
  <2>4. g.sub \in Pending /\ g.val = seq
    BY <1>1 DEF PendingInv, Pending
  <2>5. \A t \in Pending : t # g.sub => t \in Pending'
    BY <2>2 DEF Pending
  <2>6. CASE Deliver(g)
    <3>1. Send(sub[g.sub].ch, seq)
      BY <2>4, <2>6 DEF Deliver
    <3>2. /\ \A c \in Chans : \A i \in 1..Len(sent[c]) :
                i \in 1..Len(sent'[c]) /\ sent'[c][i] = sent[c][i]
          /\ \E i \in 1..Len(sent'[sub[g.sub].ch]) : sent'[sub[g.sub].ch][i] = seq
      BY <2>4, <3>1, SendKeepsOrder
    <3> QED BY <2>2, <2>3, <2>5, <3>2, DeliveryFrame DEF Live
  <2>7. CASE GiveUp(g)
    <3>1. sent' = sent /\ (ended[g.sub] \/ sub[g.sub].mode = "timeout")
      BY <2>7 DEF GiveUp, chanvars
    <3> QED BY <2>2, <2>3, <2>5, <3>1, DeliveryFrame DEF Live
  <2> QED BY <2>1, <2>6, <2>7
<1>6. CASE /\ ~ \E s \in Subs : GetStateChan(s) \/ VisitSubscriber(s)
           /\ ~ \E b \in Broadcasters : LockBroadcast(b)
           /\ ~ \E g \in parked : Deliver(g) \/ GiveUp(g)
  <2>1. UNCHANGED <<sent, seq, todo, parked>>
    BY <1>6, Zenon DEF Next, vars, chanvars, castvars, StartReceive, FinishReceive,
       SignalSubscription, ArmAfterFunc, CancelContext, Remove, CallBroadcast,
       FinishBroadcast, CallUnsubscribeAll, EndFirstPass, RemoveAll
  <2>2. sub' = sub /\ since' = since /\ \A s \in Subs : Live(s)' => Live(s)
    BY <1>6, LivesEnd
  <2>3. Pending' = Pending
    BY <2>1 DEF Pending
  <2>4. \A s \in Subs : phase'[s] # "new" /\ ~ended'[s] => Live(s)
    BY <2>2 DEF Live
  <2> QED BY <2>1, <2>2, <2>3, <2>4, DeliveryFrame
<1> QED BY <1>2, <1>3, <1>4, <1>5, <1>6

LEMMA AlwaysDelivered ==
  SharedChans = {} => (Spec => [](Inv /\ LiveInv /\ DeliveryInv))
<1> SUFFICES ASSUME SharedChans = {}
             PROVE  Spec => [](Inv /\ LiveInv /\ DeliveryInv)
  OBVIOUS
<1>1. Inv /\ LiveInv /\ DeliveryInv /\ [Next]_vars => (Inv /\ LiveInv /\ DeliveryInv)'
  BY NextInv, LiveNext, DeliveryNext
<1> QED BY <1>1, InitInv, InitLive, PTL DEF Spec

(* Where no two subscriptions use one channel, GetStateChan, removeLocked  *)
(* and UnsubscribeAll between them never take a live subscription out of   *)
(* the map.                                                                *)
THEOREM LiveStayRegistered ==
  SharedChans = {} => (Spec => []LiveChannelStaysRegistered)
<1>1. Inv /\ LiveInv /\ DeliveryInv => LiveChannelStaysRegistered
  BY ChannelsAssumption DEF LiveInv, Live, LiveChannelStaysRegistered
<1> QED BY <1>1, AlwaysDelivered, PTL

(* Broadcast keeps the promise of guaranteed delivery: when it returns, a  *)
(* live subscription has been sent the state, whatever else ran meanwhile. *)
THEOREM DeliveryIsGuaranteed ==
  SharedChans = {} => (Spec => []GuaranteedDelivery)
<1>1. Inv /\ LiveInv /\ DeliveryInv => GuaranteedDelivery
  <2> SUFFICES ASSUME Inv, DeliveryInv, NEW s \in Subs, Live(s),
                      sub[s].mode = "guaranteed", NEW n \in since[s] + 1 .. Finished
               PROVE  \E i \in 1..Len(sent[sub[s].ch]) : sent[sub[s].ch][i] = n
    BY DEF GuaranteedDelivery, Live
  <2>1. seq \in Nat /\ since[s] \in Nat /\ PendingInv
    BY InvParts, Counts
  <2>2. n \in since[s] + 1 .. seq /\ ~(n = seq /\ s \in Pending)
    <3>1. CASE mu = NoOne
      BY <2>1, <3>1 DEF Finished, PendingInv
    <3>2. CASE mu # NoOne
      BY <2>1, <3>2 DEF Finished
    <3> QED BY <3>1, <3>2
  <2> QED BY <2>2 DEF DeliveryInv, HasBeenSent
<1> QED BY <1>1, AlwaysDelivered, PTL
================================================================================
