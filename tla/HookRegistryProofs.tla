--------------------------- MODULE HookRegistryProofs ---------------------------
(***************************************************************************)
(* Theorems about HookRegistry, for any names, states and pattern lists.   *)
(*                                                                         *)
(* Those about the slices follow from one invariant: every slice is in     *)
(* strict order of sequence numbers, which tell registered hooks apart,    *)
(* and holds the entries that belong in it.  The order of execution needs  *)
(* more: that every set of registered entries can be sorted, which is      *)
(* shown along the registrations, since each comes behind the earlier.     *)
(***************************************************************************)
EXTENDS HookRegistry, FiniteSetTheorems, SequenceTheorems, TLAPS

Ordered(s) == \A i, j \in 1..Len(s) : i < j => s[i].seq < s[j].seq

(* What belongs in the slices.                                             *)
Wild(t) == {e \in Registered : e.type = t /\ IsWildcard(e.from, e.to)}
Filed(t, k) == {e \in Registered : e.type = t /\ ~IsWildcard(e.from, e.to)
                                   /\ k \in e.from \X e.to}

Holds(s, entries) == s \in Seq(Entries) /\ Ordered(s) /\ Elements(s) = entries

RegistryInv ==
  /\ hooks \in [HookNames -> Entries \cup {NoHook}]
  /\ index \in [Types -> [Keys -> Seq(Entries)]]
  /\ wildcards \in [Types -> Seq(Entries)]
  /\ nextSeq \in Nat
  /\ \A n \in HookNames : hooks[n] # NoHook => hooks[n].seq < nextSeq
  /\ \A m, n \in HookNames :
       hooks[m] # NoHook /\ hooks[n] # NoHook /\ hooks[m].seq = hooks[n].seq => m = n
  /\ \A t \in Types : Holds(wildcards[t], Wild(t))
  /\ \A t \in Types : \A k \in Keys : Holds(index[t][k], Filed(t, k))

LEMMA EntryTypes ==
  \A e \in Entries : /\ e.name \in HookNames /\ e.type \in Types /\ e.seq \in Nat
                     /\ e.from \subseteq StateNames \cup {Star}
                     /\ e.to \subseteq StateNames \cup {Star}
  BY DEF Entries

(* A slice in strict order has no entry twice.                             *)
LEMMA OrderedOnce ==
  ASSUME NEW s \in Seq(Entries), Ordered(s)
  PROVE  Once(s)
<1>1. \A i, j \in 1..Len(s) : s[i] = s[j] => i = j
  <2> SUFFICES ASSUME NEW i \in 1..Len(s), NEW j \in 1..Len(s), s[i] = s[j], i # j
               PROVE  FALSE
    OBVIOUS
  <2>1. s[i] \in Entries /\ s[j] \in Entries
    OBVIOUS
  <2>2. s[i].seq < s[j].seq \/ s[j].seq < s[i].seq
    BY DEF Ordered
  <2> QED BY <2>1, <2>2, EntryTypes
<1>2. s \in Bijection(1..Len(s), Elements(s))
  <2>1. s \in [1..Len(s) -> Elements(s)]
    BY DEF Elements
  <2>2. \A x \in Elements(s) : \E i \in 1..Len(s) : s[i] = x
    BY DEF Elements
  <2> QED BY <1>1, <2>1, <2>2 DEF Bijection, Injection, Surjection, IsInjective
<1>3. ExistsBijection(1..Len(s), Elements(s))
  BY <1>2 DEF ExistsBijection
<1> QED BY <1>3, FS_CountingElements DEF Once

(* append: a hook that is newer than those in the slice goes behind them.  *)
LEMMA AppendHolds ==
  ASSUME NEW s, NEW entries, Holds(s, entries), NEW e \in Entries,
         \A d \in entries : d.seq < e.seq
  PROVE  Holds(Append(s, e), entries \cup {e})
<1> DEFINE a == Append(s, e)
<1>1. a \in Seq(Entries) /\ Len(a) = Len(s) + 1 /\ a[Len(s) + 1] = e
      /\ \A i \in 1..Len(s) : a[i] = s[i]
  BY DEF Holds
<1>2. \A i \in 1..Len(s) : s[i] \in entries
  BY DEF Holds, Elements
<1>3. Len(s) \in Nat
  BY DEF Holds
<1>4. Ordered(a)
  <2> SUFFICES ASSUME NEW i \in 1..Len(a), NEW j \in 1..Len(a), i < j
               PROVE  a[i].seq < a[j].seq
    BY DEF Ordered
  <2>1. CASE j = Len(s) + 1
    BY <1>1, <1>2, <1>3, <2>1
  <2>2. CASE j # Len(s) + 1
    BY <1>1, <1>3, <2>2 DEF Holds, Ordered
  <2> QED BY <2>1, <2>2
<1>5. Elements(a) = entries \cup {e}
  <2>1. \A x \in Elements(a) : x \in entries \cup {e}
    BY <1>1, <1>2, <1>3 DEF Elements
  <2>2. \A x \in entries : x \in Elements(a)
    <3> SUFFICES ASSUME NEW x \in entries PROVE x \in Elements(a)
      OBVIOUS
    <3>1. PICK i \in 1..Len(s) : x = s[i]
      BY DEF Holds, Elements
    <3> QED BY <1>1, <1>3, <3>1 DEF Elements
  <2>3. e \in Elements(a)
    BY <1>1, <1>3 DEF Elements
  <2> QED BY <2>1, <2>2, <2>3
<1> QED BY <1>1, <1>4, <1>5 DEF Holds

(* removeFrom: the others stay, in their order.                            *)
LEMMA RemoveHolds ==
  ASSUME NEW s, NEW entries, Holds(s, entries), NEW e
  PROVE  Holds(RemoveFrom(s, e), entries \ {e})
<1>1. CASE e \notin Elements(s)
  BY <1>1 DEF RemoveFrom, Holds
<1>2. CASE e \in Elements(s)
  <2> DEFINE at == CHOOSE i \in 1..Len(s) : s[i] = e
             r  == RemoveFrom(s, e)
  <2>1. at \in 1..Len(s) /\ s[at] = e
    BY <1>2 DEF Elements
  <2>2. r = [i \in 1..Len(s) - 1 |-> IF i < at THEN s[i] ELSE s[i + 1]]
    BY <1>2 DEF RemoveFrom
  <2>3. Len(s) \in Nat /\ Len(s) - 1 \in Nat /\ s \in Seq(Entries)
    BY <2>1 DEF Holds
  <2>4. \A i \in 1..Len(s) : s[i] \in Entries /\ (s[i] = e => i = at)
    <3> SUFFICES ASSUME NEW i \in 1..Len(s), s[i] = e PROVE i = at
      BY <2>3
    <3>1. e.seq \in Nat
      BY <2>1, <2>3, EntryTypes
    <3>2. ~(i < at) /\ ~(at < i)
      BY <2>1, <3>1 DEF Holds, Ordered
    <3> QED BY <2>1, <3>2
  <2> HIDE DEF at, r
  <2>5. r \in Seq(Entries) /\ Len(r) = Len(s) - 1
    <3>1. r \in [1..Len(s) - 1 -> Entries]
      BY <2>1, <2>2, <2>3, <2>4
    <3> QED BY <2>3, <3>1
  <2>6. Ordered(r)
    <3> SUFFICES ASSUME NEW i \in 1..Len(r), NEW j \in 1..Len(r), i < j
                 PROVE  r[i].seq < r[j].seq
      BY DEF Ordered
    <3> DEFINE Src(x) == IF x < at THEN x ELSE x + 1
    <3>1. Src(i) \in 1..Len(s) /\ Src(j) \in 1..Len(s) /\ Src(i) < Src(j)
      BY <2>1, <2>3, <2>5
    <3>2. r[i] = s[Src(i)] /\ r[j] = s[Src(j)]
      BY <2>2, <2>5
    <3> QED BY <3>1, <3>2 DEF Holds, Ordered
  <2>7. \A x \in Elements(r) : x \in entries \ {e}
    <3> SUFFICES ASSUME NEW i \in 1..Len(s) - 1 PROVE r[i] \in entries \ {e}
      BY <2>5 DEF Elements
    <3> DEFINE k == IF i < at THEN i ELSE i + 1
    <3>1. k \in 1..Len(s) /\ k # at /\ r[i] = s[k]
      BY <2>1, <2>2, <2>3
    <3>2. s[k] # e /\ s[k] \in entries
      BY <2>4, <3>1 DEF Holds, Elements
    <3> QED BY <3>1, <3>2
  <2>8. \A x \in entries \ {e} : x \in Elements(r)
    <3> SUFFICES ASSUME NEW x \in entries \ {e} PROVE x \in Elements(r)
      OBVIOUS
    <3>1. PICK k \in 1..Len(s) : x = s[k]
      BY DEF Holds, Elements
    <3>2. k # at
      BY <2>1, <3>1
    <3> DEFINE i == IF k < at THEN k ELSE k - 1
    <3>3. i \in 1..Len(s) - 1 /\ r[i] = s[k]
      BY <2>1, <2>2, <2>3, <3>2
    <3> QED BY <2>5, <3>1, <3>3 DEF Elements
  <2> QED BY <2>5, <2>6, <2>7, <2>8 DEF Holds, r
<1> QED BY <1>1, <1>2

LEMMA RegisteredEntries ==
  ASSUME RegistryInv, NEW e \in Registered
  PROVE  e \in Entries /\ e.seq < nextSeq
BY DEF RegistryInv, Registered

LEMMA InitRegistry == Init => RegistryInv
<1> SUFFICES ASSUME Init PROVE RegistryInv
  OBVIOUS
<1>1. Registered = {}
  BY DEF Init, Registered
<1>2. /\ hooks \in [HookNames -> Entries \cup {NoHook}]
      /\ index \in [Types -> [Keys -> Seq(Entries)]]
      /\ wildcards \in [Types -> Seq(Entries)]
      /\ nextSeq \in Nat
      /\ \A n \in HookNames : hooks[n] = NoHook
  BY DEF Init
<1>3. Holds(<<>>, {})
  BY DEF Holds, Ordered, Elements
<1>4. \A t \in Types : Wild(t) = {} /\ \A k \in Keys : Filed(t, k) = {}
  BY <1>1 DEF Wild, Filed
<1>5. \A t \in Types : wildcards[t] = <<>> /\ \A k \in Keys : index[t][k] = <<>>
  BY DEF Init
<1> QED BY <1>2, <1>3, <1>4, <1>5 DEF RegistryInv

LEMMA RegisterKeeps ==
  ASSUME RegistryInv, NEW name \in HookNames, NEW type \in Types, NEW l \in Patterns,
         Register(name, type, l)
  PROVE  RegistryInv'
<1> DEFINE from  == Elements(l[1])
           to    == Elements(l[2])
           entry == [name |-> name, type |-> type, from |-> from, to |-> to,
                     seq |-> nextSeq]
<1>1. entry \in Entries
  <2>1. l[1] \in Seq(StateNames \cup {Star}) /\ l[2] \in Seq(StateNames \cup {Star})
    BY PatternsAssumption
  <2>2. from \subseteq StateNames \cup {Star} /\ to \subseteq StateNames \cup {Star}
    BY <2>1 DEF Elements
  <2> HIDE DEF from, to
  <2> QED BY <2>2 DEF Entries, RegistryInv
<1>2. /\ entry.type = type /\ entry.from = from /\ entry.to = to /\ entry.seq = nextSeq
      /\ hooks[name] = NoHook
      /\ nextSeq' = nextSeq + 1
      /\ hooks' = [hooks EXCEPT ![name] = entry]
  BY DEF Register
<1>3. /\ IF IsWildcard(from, to)
           THEN wildcards' = [wildcards EXCEPT ![type] = Append(@, entry)]
           ELSE UNCHANGED wildcards
      /\ IF IsWildcard(from, to)
           THEN UNCHANGED index
           ELSE index' = [index EXCEPT ![type] =
                  [k \in Keys |-> IF k \in from \X to THEN Append(@[k], entry) ELSE @[k]]]
  BY DEF Register
<1> HIDE DEF entry, from, to
<1>4. Registered' = Registered \cup {entry}
  <2>1. \A n \in HookNames : hooks'[n] = IF n = name THEN entry ELSE hooks[n]
    BY <1>2 DEF RegistryInv
  <2>2. entry # NoHook
    BY <1>1, NoHookAssumption
  <2> QED BY <1>2, <2>1, <2>2 DEF Registered
<1>5. /\ hooks' \in [HookNames -> Entries \cup {NoHook}]
      /\ nextSeq' \in Nat
      /\ \A n \in HookNames : hooks'[n] # NoHook => hooks'[n].seq < nextSeq'
      /\ \A m, n \in HookNames :
           hooks'[m] # NoHook /\ hooks'[n] # NoHook /\ hooks'[m].seq = hooks'[n].seq => m = n
  <2>1. nextSeq \in Nat /\ hooks \in [HookNames -> Entries \cup {NoHook}]
    BY DEF RegistryInv
  <2>2. \A n \in HookNames : hooks'[n] = IF n = name THEN entry ELSE hooks[n]
    BY <1>2, <2>1
  <2>3. \A n \in HookNames : hooks[n] # NoHook => hooks[n].seq \in Nat /\ hooks[n].seq < nextSeq
    BY EntryTypes DEF RegistryInv
  <2>4. \A n \in HookNames : hooks'[n] # NoHook => hooks'[n].seq < nextSeq'
    BY <1>2, <2>1, <2>2, <2>3
  <2>5. \A m, n \in HookNames :
          hooks'[m] # NoHook /\ hooks'[n] # NoHook /\ hooks'[m].seq = hooks'[n].seq => m = n
    BY <1>2, <2>1, <2>2, <2>3 DEF RegistryInv
  <2> QED BY <1>1, <1>2, <2>1, <2>4, <2>5
<1>6. \A e \in Registered : e.seq < entry.seq
  BY <1>2, RegisteredEntries
<1>7. \A t \in Types : Holds(wildcards'[t], Wild(t)')
  <2> SUFFICES ASSUME NEW t \in Types PROVE Holds(wildcards'[t], Wild(t)')
    OBVIOUS
  <2>1. Holds(wildcards[t], Wild(t)) /\ wildcards \in [Types -> Seq(Entries)]
    BY DEF RegistryInv
  <2>2. CASE t = type /\ IsWildcard(from, to)
    <3>1. Wild(t)' = Wild(t) \cup {entry}
      BY <1>2, <1>4, <2>2 DEF Wild
    <3>2. wildcards'[t] = Append(wildcards[t], entry)
      BY <1>3, <2>1, <2>2
    <3>3. \A e \in Wild(t) : e.seq < entry.seq
      BY <1>6 DEF Wild
    <3>4. Holds(Append(wildcards[t], entry), Wild(t) \cup {entry})
      BY <1>1, <2>1, <3>3, AppendHolds
    <3> QED BY <3>1, <3>2, <3>4
  <2>3. CASE ~(t = type /\ IsWildcard(from, to))
    <3>1. Wild(t)' = Wild(t)
      BY <1>2, <1>4, <2>3 DEF Wild
    <3>2. wildcards'[t] = wildcards[t]
      BY <1>3, <2>1, <2>3
    <3> QED BY <2>1, <3>1, <3>2
  <2> QED BY <2>2, <2>3
<1>8. \A t \in Types : \A k \in Keys : Holds(index'[t][k], Filed(t, k)')
  <2> SUFFICES ASSUME NEW t \in Types, NEW k \in Keys
               PROVE  Holds(index'[t][k], Filed(t, k)')
    OBVIOUS
  <2>1. Holds(index[t][k], Filed(t, k)) /\ index \in [Types -> [Keys -> Seq(Entries)]]
    BY DEF RegistryInv
  <2>2. CASE t = type /\ ~IsWildcard(from, to) /\ k \in from \X to
    <3>1. Filed(t, k)' = Filed(t, k) \cup {entry}
      BY <1>2, <1>4, <2>2 DEF Filed
    <3>2. index'[t][k] = Append(index[t][k], entry)
      BY <1>3, <2>1, <2>2
    <3>3. \A e \in Filed(t, k) : e.seq < entry.seq
      BY <1>6 DEF Filed
    <3>4. Holds(Append(index[t][k], entry), Filed(t, k) \cup {entry})
      BY <1>1, <2>1, <3>3, AppendHolds
    <3> QED BY <3>1, <3>2, <3>4
  <2>3. CASE ~(t = type /\ ~IsWildcard(from, to) /\ k \in from \X to)
    <3>1. Filed(t, k)' = Filed(t, k)
      BY <1>2, <1>4, <2>3 DEF Filed
    <3>2. index'[t][k] = index[t][k]
      BY <1>3, <2>1, <2>3
    <3> QED BY <2>1, <3>1, <3>2
  <2> QED BY <2>2, <2>3
<1>9. index' \in [Types -> [Keys -> Seq(Entries)]] /\ wildcards' \in [Types -> Seq(Entries)]
  <2>1. \A s \in Seq(Entries) : Append(s, entry) \in Seq(Entries)
    BY <1>1
  <2>2. wildcards' \in [Types -> Seq(Entries)]
    BY <1>3, <2>1 DEF RegistryInv
  <2> DEFINE filed == [k \in Keys |-> IF k \in from \X to
                                      THEN Append(index[type][k], entry)
                                      ELSE index[type][k]]
  <2>3. filed \in [Keys -> Seq(Entries)]
    BY <2>1 DEF RegistryInv
  <2>4. index' = index \/ index' = [index EXCEPT ![type] = filed]
    BY <1>3
  <2> HIDE DEF filed
  <2>5. index' \in [Types -> [Keys -> Seq(Entries)]]
    BY <2>3, <2>4 DEF RegistryInv
  <2> QED BY <2>2, <2>5
<1> QED BY <1>5, <1>7, <1>8, <1>9 DEF RegistryInv

LEMMA RemoveKeeps ==
  ASSUME RegistryInv, NEW name \in HookNames, RemoveHook(name)
  PROVE  RegistryInv'
<1> DEFINE entry == hooks[name]
<1>1. /\ entry # NoHook
      /\ hooks' = [hooks EXCEPT ![name] = NoHook]
      /\ nextSeq' = nextSeq
      /\ wildcards' = [wildcards EXCEPT ![entry.type] = RemoveFrom(@, entry)]
      /\ index' = [index EXCEPT ![entry.type] = [k \in Keys |-> RemoveFrom(@[k], entry)]]
  BY DEF RemoveHook
<1>2. entry \in Entries /\ entry.type \in Types
  BY <1>1, EntryTypes DEF RegistryInv
<1>3. \A n \in HookNames : hooks'[n] = IF n = name THEN NoHook ELSE hooks[n]
  BY <1>1 DEF RegistryInv
<1>4. Registered' = Registered \ {entry}
  <2>1. \A n \in HookNames : n # name /\ hooks[n] # NoHook => hooks[n] # entry
    BY <1>1 DEF RegistryInv
  <2> QED BY <1>1, <1>3, <2>1 DEF Registered
<1>5. /\ hooks' \in [HookNames -> Entries \cup {NoHook}]
      /\ nextSeq' \in Nat
      /\ \A n \in HookNames : hooks'[n] # NoHook => hooks'[n].seq < nextSeq'
      /\ \A m, n \in HookNames :
           hooks'[m] # NoHook /\ hooks'[n] # NoHook /\ hooks'[m].seq = hooks'[n].seq => m = n
  BY <1>1, <1>3 DEF RegistryInv
<1> HIDE DEF entry
<1>6. \A t \in Types : Holds(wildcards'[t], Wild(t)')
  <2> SUFFICES ASSUME NEW t \in Types PROVE Holds(wildcards'[t], Wild(t)')
    OBVIOUS
  <2>1. Holds(wildcards[t], Wild(t)) /\ wildcards \in [Types -> Seq(Entries)]
    BY DEF RegistryInv
  <2>2. Wild(t)' = Wild(t) \ {entry}
    BY <1>4 DEF Wild
  <2>3. CASE t = entry.type
    <3>1. wildcards'[t] = RemoveFrom(wildcards[t], entry)
      BY <1>1, <2>1, <2>3
    <3>2. Holds(RemoveFrom(wildcards[t], entry), Wild(t) \ {entry})
      BY <2>1, RemoveHolds
    <3> QED BY <2>2, <3>1, <3>2
  <2>4. CASE t # entry.type
    <3>1. wildcards'[t] = wildcards[t]
      BY <1>1, <2>1, <2>4
    <3>2. Wild(t) \ {entry} = Wild(t)
      BY <2>4 DEF Wild
    <3> QED BY <2>1, <2>2, <3>1, <3>2
  <2> QED BY <2>3, <2>4
<1>7. \A t \in Types : \A k \in Keys : Holds(index'[t][k], Filed(t, k)')
  <2> SUFFICES ASSUME NEW t \in Types, NEW k \in Keys
               PROVE  Holds(index'[t][k], Filed(t, k)')
    OBVIOUS
  <2>1. Holds(index[t][k], Filed(t, k)) /\ index \in [Types -> [Keys -> Seq(Entries)]]
    BY DEF RegistryInv
  <2>2. Filed(t, k)' = Filed(t, k) \ {entry}
    BY <1>4 DEF Filed
  <2>3. CASE t = entry.type
    <3>1. index'[t][k] = RemoveFrom(index[t][k], entry)
      BY <1>1, <2>1, <2>3
    <3>2. Holds(RemoveFrom(index[t][k], entry), Filed(t, k) \ {entry})
      BY <2>1, RemoveHolds
    <3> QED BY <2>2, <3>1, <3>2
  <2>4. CASE t # entry.type
    <3>1. index'[t][k] = index[t][k]
      BY <1>1, <2>1, <2>4
    <3>2. Filed(t, k) \ {entry} = Filed(t, k)
      BY <2>4 DEF Filed
    <3> QED BY <2>1, <2>2, <3>1, <3>2
  <2> QED BY <2>3, <2>4
<1>8. index' \in [Types -> [Keys -> Seq(Entries)]] /\ wildcards' \in [Types -> Seq(Entries)]
  <2>1. \A t \in Types : RemoveFrom(wildcards[t], entry) \in Seq(Entries)
    BY RemoveHolds DEF RegistryInv, Holds
  <2>2. \A t \in Types : \A k \in Keys : RemoveFrom(index[t][k], entry) \in Seq(Entries)
    BY RemoveHolds DEF RegistryInv, Holds
  <2> DEFINE rest == [k \in Keys |-> RemoveFrom(index[entry.type][k], entry)]
  <2>3. rest \in [Keys -> Seq(Entries)]
    BY <1>2, <2>2
  <2>4. index' = [index EXCEPT ![entry.type] = rest]
    BY <1>1
  <2> HIDE DEF rest
  <2>5. index' \in [Types -> [Keys -> Seq(Entries)]]
    BY <2>3, <2>4 DEF RegistryInv
  <2>6. wildcards' \in [Types -> Seq(Entries)]
    BY <1>1, <1>2, <2>1 DEF RegistryInv
  <2> QED BY <2>5, <2>6
<1> QED BY <1>5, <1>6, <1>7, <1>8 DEF RegistryInv

LEMMA NextRegistry == RegistryInv /\ [Next]_vars => RegistryInv'
<1> SUFFICES ASSUME RegistryInv, [Next]_vars PROVE RegistryInv'
  OBVIOUS
<1>1. ASSUME NEW n \in HookNames, NEW t \in Types, NEW l \in Patterns, Register(n, t, l)
      PROVE  RegistryInv'
  BY <1>1, RegisterKeeps
<1>2. ASSUME NEW n \in HookNames, RemoveHook(n) PROVE RegistryInv'
  BY <1>2, RemoveKeeps
<1>3. CASE Clear
  <2>1. Registered' = {}
    BY <1>3 DEF Clear, Registered
  <2>2. Holds(<<>>, {})
    BY DEF Holds, Ordered, Elements
  <2>3. \A t \in Types : Wild(t)' = {} /\ \A k \in Keys : Filed(t, k)' = {}
    BY <2>1 DEF Wild, Filed
  <2>4. \A t \in Types : wildcards'[t] = <<>> /\ \A k \in Keys : index'[t][k] = <<>>
    BY <1>3 DEF Clear
  <2>5. /\ hooks' \in [HookNames -> Entries \cup {NoHook}]
        /\ index' \in [Types -> [Keys -> Seq(Entries)]]
        /\ wildcards' \in [Types -> Seq(Entries)]
        /\ nextSeq' \in Nat
        /\ \A n \in HookNames : hooks'[n] = NoHook
    BY <1>3 DEF Clear
  <2> QED BY <2>2, <2>3, <2>4, <2>5 DEF RegistryInv
<1>4. ASSUME UNCHANGED <<hooks, index, wildcards, nextSeq>> PROVE RegistryInv'
  <2>1. Registered' = Registered
    BY <1>4 DEF Registered
  <2>2. \A t \in Types : Wild(t)' = Wild(t) /\ \A k \in Keys : Filed(t, k)' = Filed(t, k)
    BY <2>1 DEF Wild, Filed
  <2> QED BY <1>4, <2>2 DEF RegistryInv
<1> QED
  BY <1>1, <1>2, <1>3, <1>4
     DEF Next, vars, BeginExecution, CallHook, RejectTransition, EndExecution

(* The structures of the registry agree after any sequence of              *)
(* registrations, removals and Clears: no slice keeps an entry that is not *)
(* registered, misses one, or has one twice.                               *)
THEOREM SlicesMatchHooks == Spec => []IndexMatchesHooks
<1>1. Spec => []RegistryInv
  BY InitRegistry, NextRegistry, PTL DEF Spec
<1>2. RegistryInv => IndexMatchesHooks
  <2> SUFFICES ASSUME RegistryInv, NEW t \in Types
               PROVE  /\ Once(wildcards[t]) /\ Elements(wildcards[t]) = Wild(t)
                      /\ \A k \in Keys :
                           Once(index[t][k]) /\ Elements(index[t][k]) = Filed(t, k)
    BY DEF IndexMatchesHooks, Wild, Filed
  <2>1. Holds(wildcards[t], Wild(t)) /\ \A k \in Keys : Holds(index[t][k], Filed(t, k))
    BY DEF RegistryInv
  <2> QED BY <2>1, OrderedOnce DEF Holds
<1> QED BY <1>1, <1>2, PTL

(* Sequence numbers tell the registered hooks apart and order every slice, *)
(* also after Clear has restarted them.                                    *)
THEOREM NumbersOrderHooks == Spec => []SequenceNumbersOrderHooks
<1>1. Spec => []RegistryInv
  BY InitRegistry, NextRegistry, PTL DEF Spec
<1>2. RegistryInv => SequenceNumbersOrderHooks
  <2> SUFFICES ASSUME RegistryInv PROVE SequenceNumbersOrderHooks
    OBVIOUS
  <2>1. \A d, e \in Registered : d.seq = e.seq => d = e
    BY DEF RegistryInv, Registered
  <2>2. \A e \in Registered : e.seq < nextSeq
    BY RegisteredEntries
  <2>3. \A t \in Types : Ordered(wildcards[t]) /\ \A k \in Keys : Ordered(index[t][k])
    BY DEF RegistryInv, Holds
  <2> QED BY <2>1, <2>2, <2>3 DEF SequenceNumbersOrderHooks, Ordered
<1> QED BY <1>1, <1>2, PTL
--------------------------------------------------------------------------------
(* Executions.  Every set of registered entries has an order, which the    *)
(* invariant says because it is the registrations that build it up.        *)
OrderInv ==
  /\ nextSeq \in 0..MaxSeq
  /\ \A n \in HookNames : hooks[n] # NoHook => hooks[n].name = n
  /\ \A entries \in SUBSET Registered : \E s : Holds(s, entries)

RunType == run \in [Executors -> {NoRun} \cup [type : Types, todo : Seq(Entries)]]

(* Sorting by counting the smaller numbers gives the one sequence that is  *)
(* in order.                                                               *)
LEMMA Sorted ==
  ASSUME NEW s, NEW entries, Holds(s, entries)
  PROVE  InOrder(entries) = s
<1>1. s \in Seq(Entries) /\ Ordered(s) /\ Elements(s) = entries /\ Len(s) \in Nat
  BY DEF Holds
<1>2. Cardinality(entries) = Len(s)
  BY <1>1, OrderedOnce DEF Once
<1> DEFINE Below(e) == {d \in entries : d.seq < e.seq}
<1>3. \A i \in 1..Len(s) : s[i] \in Entries /\ s[i].seq \in Nat /\ s[i] \in entries
  BY <1>1, EntryTypes DEF Elements
<1>4. \A i, j \in 1..Len(s) : s[i].seq < s[j].seq <=> i < j
  <2> SUFFICES ASSUME NEW i \in 1..Len(s), NEW j \in 1..Len(s), s[i].seq < s[j].seq
               PROVE  i < j
    BY <1>1 DEF Ordered
  <2>1. ~(j < i) /\ i # j
    BY <1>1, <1>3 DEF Ordered
  <2> QED BY <2>1
<1>5. ASSUME NEW i \in 1..Len(s) PROVE Cardinality(Below(s[i])) = i - 1
  <2>1. [j \in 1..i - 1 |-> s[j]] \in Bijection(1..i - 1, Below(s[i]))
    <3>1. 1..i - 1 \subseteq 1..Len(s) /\ \A j \in 1..i - 1 : s[j] \in Below(s[i])
      BY <1>1, <1>3, <1>4
    <3>2. \A j, k \in 1..i - 1 : s[j] = s[k] => j = k
      <4> SUFFICES ASSUME NEW j \in 1..i - 1, NEW k \in 1..i - 1, s[j] = s[k]
                   PROVE  j = k
        OBVIOUS
      <4>1. s[j].seq \in Nat /\ ~(j < k) /\ ~(k < j)
        BY <1>3, <1>4, <3>1
      <4> QED BY <4>1
    <3>3. \A d \in Below(s[i]) : \E j \in 1..i - 1 : d = s[j]
      <4> SUFFICES ASSUME NEW d \in Below(s[i]) PROVE \E j \in 1..i - 1 : d = s[j]
        OBVIOUS
      <4>1. PICK j \in 1..Len(s) : d = s[j]
        BY <1>1 DEF Elements
      <4>2. j < i
        BY <1>4, <4>1
      <4> QED BY <4>1, <4>2
    <3> HIDE DEF Below
    <3> QED BY <3>1, <3>2, <3>3 DEF Bijection, Injection, Surjection, IsInjective
  <2>2. ExistsBijection(1..i - 1, Below(s[i]))
    BY <2>1 DEF ExistsBijection
  <2>3. i - 1 \in Nat
    OBVIOUS
  <2> QED BY <2>2, <2>3, FS_CountingElements
<1>6. ASSUME NEW i \in 1..Len(s)
      PROVE  (CHOOSE e \in entries : Cardinality(Below(e)) = i - 1) = s[i]
  <2> DEFINE e == CHOOSE e \in entries : Cardinality(Below(e)) = i - 1
  <2>1. e \in entries /\ Cardinality(Below(e)) = i - 1
    BY <1>3, <1>5
  <2> HIDE DEF e
  <2>2. PICK j \in 1..Len(s) : e = s[j]
    BY <1>1, <2>1 DEF Elements
  <2>3. j - 1 = i - 1
    BY <1>5, <2>1, <2>2
  <2> QED BY <2>2, <2>3 DEF e
<1>7. InOrder(entries) = [i \in 1..Len(s) |-> s[i]]
  BY <1>2, <1>6 DEF InOrder
<1> QED BY <1>1, <1>7

(* What an execution is to call.                                           *)
Called(type, from, to) == {e \in Registered : e.type = type /\ Matches(e, from, to)}

LEMMA PlanHolds ==
  ASSUME RegistryInv, OrderInv, NEW type \in Types,
         NEW from \in StateNames, NEW to \in StateNames
  PROVE  Holds(Plan(type, from, to), Called(type, from, to))
<1> DEFINE concrete == index[type][<<from, to>>]
           matching == {e \in Elements(wildcards[type]) : Matches(e, from, to)}
<1>1. /\ Holds(wildcards[type], Wild(type))
      /\ Holds(concrete, Filed(type, <<from, to>>))
  BY DEF RegistryInv, Keys
<1>2. \A e \in Registered : ~IsWildcard(e.from, e.to) =>
        (Matches(e, from, to) <=> <<from, to>> \in e.from \X e.to)
  BY DEF Matches, IsWildcard
<1>3. Elements(concrete) \cup matching = Called(type, from, to)
  BY <1>1, <1>2 DEF Holds, Wild, Filed, Called
<1>4. CASE wildcards[type] = <<>>
  <2>1. matching = {}
    BY <1>4 DEF Elements
  <2> QED BY <1>1, <1>3, <1>4, <2>1 DEF Plan, Holds
<1>5. CASE wildcards[type] # <<>>
  <2>1. PICK s : Holds(s, Called(type, from, to))
    BY DEF OrderInv, Called
  <2> QED BY <1>3, <1>5, <2>1, Sorted DEF Plan
<1> QED BY <1>4, <1>5

LEMMA InitOrder == Init => OrderInv /\ RunType
<1> SUFFICES ASSUME Init PROVE OrderInv /\ RunType
  OBVIOUS
<1>1. Registered = {}
  BY DEF Init, Registered
<1>2. Holds(<<>>, {})
  BY DEF Holds, Ordered, Elements
<1>3. OrderInv
  <2>1. \A entries \in SUBSET Registered : Holds(<<>>, entries)
    BY <1>1, <1>2
  <2>2. nextSeq \in 0..MaxSeq /\ \A n \in HookNames : hooks[n] = NoHook
    BY BoundsAssumption DEF Init
  <2> QED BY <2>1, <2>2, Zenon DEF OrderInv
<1> QED BY <1>3 DEF Init, RunType

LEMMA RegisterOrder ==
  ASSUME RegistryInv, OrderInv, NEW name \in HookNames, NEW type \in Types,
         NEW l \in Patterns, Register(name, type, l)
  PROVE  /\ OrderInv'
         /\ \E entry \in Entries :
              /\ Registered' = Registered \cup {entry}
              /\ Hook(entry) = [name |-> name, type |-> type,
                                from |-> Elements(l[1]), to |-> Elements(l[2])]
              /\ \A e \in Registered : e.seq < entry.seq /\ e.name # name
<1> DEFINE entry == [name |-> name, type |-> type, from |-> Elements(l[1]),
                     to |-> Elements(l[2]), seq |-> nextSeq]
<1>1. /\ hooks[name] = NoHook /\ nextSeq < MaxSeq /\ nextSeq' = nextSeq + 1
      /\ hooks' = [hooks EXCEPT ![name] = entry]
  BY DEF Register
<1>2. /\ Hook(entry) = [name |-> name, type |-> type,
                        from |-> Elements(l[1]), to |-> Elements(l[2])]
      /\ entry.seq = nextSeq /\ entry.name = name
  BY DEF Hook
<1>3. hooks'[name] = entry /\ \A n \in HookNames : n # name => hooks'[n] = hooks[n]
  BY <1>1 DEF RegistryInv
<1>4. RegistryInv'
  BY RegisterKeeps
<1> HIDE DEF entry
<1>5. entry \in Entries
  <2>1. hooks'[name] = entry /\ hooks' \in [HookNames -> Entries \cup {NoHook}]
    BY <1>3, <1>4 DEF RegistryInv
  <2>2. entry # NoHook
    <3> DEFINE fr == Elements(l[1])
               tt == Elements(l[2])
    <3>1. l[1] \in Seq(StateNames \cup {Star}) /\ l[2] \in Seq(StateNames \cup {Star})
      BY PatternsAssumption
    <3>2. fr \subseteq StateNames \cup {Star} /\ tt \subseteq StateNames \cup {Star}
      BY <3>1 DEF Elements
    <3> HIDE DEF fr, tt
    <3>3. [name |-> name, type |-> type, from |-> fr, to |-> tt, seq |-> nextSeq] \in Entries
      BY <3>2 DEF Entries, RegistryInv
    <3> QED BY <3>3, NoHookAssumption DEF entry, fr, tt
  <2> QED BY <2>1, <2>2
<1>6. Registered' = Registered \cup {entry}
  BY <1>1, <1>3, <1>5, NoHookAssumption DEF Registered
<1>7. \A e \in Registered : e.seq < entry.seq /\ e.name # name
  BY <1>1, <1>2, RegisteredEntries DEF Registered, OrderInv
<1>8. \A entries \in SUBSET Registered' : \E s : Holds(s, entries)
  <2> SUFFICES ASSUME NEW entries \in SUBSET Registered' PROVE \E s : Holds(s, entries)
    OBVIOUS
  <2>1. PICK s : Holds(s, entries \ {entry})
    BY <1>6 DEF OrderInv
  <2>2. CASE entry \in entries
    <3>1. \A d \in entries \ {entry} : d.seq < entry.seq
      BY <1>6, <1>7
    <3>2. Holds(Append(s, entry), (entries \ {entry}) \cup {entry})
      BY <1>5, <2>1, <3>1, AppendHolds
    <3>3. (entries \ {entry}) \cup {entry} = entries
      BY <2>2
    <3> QED BY <3>2, <3>3
  <2>3. CASE entry \notin entries
    BY <2>1, <2>3
  <2> QED BY <2>2, <2>3
<1>9. OrderInv'
  <2>1. nextSeq' \in 0..MaxSeq
    BY <1>1, BoundsAssumption DEF OrderInv
  <2>2. \A n \in HookNames : hooks'[n] # NoHook => hooks'[n].name = n
    BY <1>2, <1>3 DEF OrderInv
  <2> QED BY <1>8, <2>1, <2>2, Zenon DEF OrderInv
<1> QED BY <1>2, <1>5, <1>6, <1>7, <1>9

LEMMA NextOrder == RegistryInv /\ OrderInv /\ RunType /\ [Next]_vars => OrderInv' /\ RunType'
<1> SUFFICES ASSUME RegistryInv, OrderInv, RunType, [Next]_vars PROVE OrderInv' /\ RunType'
  OBVIOUS
<1>1. ASSUME NEW n \in HookNames, NEW t \in Types, NEW l \in Patterns, Register(n, t, l)
      PROVE  OrderInv' /\ RunType'
  BY <1>1, RegisterOrder DEF Register, RunType
<1>2. ASSUME NEW name \in HookNames, RemoveHook(name) PROVE OrderInv' /\ RunType'
  <2>1. /\ hooks' = [hooks EXCEPT ![name] = NoHook] /\ UNCHANGED <<nextSeq, run>>
    BY <1>2 DEF RemoveHook
  <2>2. Registered' \subseteq Registered
    BY <2>1 DEF Registered, RegistryInv
  <2>3. \A n \in HookNames : hooks'[n] # NoHook => hooks'[n].name = n
    BY <2>1 DEF OrderInv, RegistryInv
  <2> QED BY <2>1, <2>2, <2>3 DEF OrderInv, RunType
<1>3. CASE Clear
  <2>1. /\ \A n \in HookNames : hooks'[n] = NoHook
        /\ nextSeq' = 0 /\ UNCHANGED run
    BY <1>3 DEF Clear
  <2>2. Registered' = {}
    BY <2>1 DEF Registered
  <2>3. Holds(<<>>, {})
    BY DEF Holds, Ordered, Elements
  <2>4. \A entries \in SUBSET Registered' : Holds(<<>>, entries)
    BY <2>2, <2>3
  <2>5. nextSeq' \in 0..MaxSeq /\ RunType'
    BY <2>1, BoundsAssumption DEF RunType
  <2> QED BY <2>1, <2>4, <2>5, Zenon DEF OrderInv
<1>4. ASSUME UNCHANGED <<hooks, index, wildcards, nextSeq>> PROVE OrderInv'
  BY <1>4 DEF OrderInv, Registered
<1>5. ASSUME NEW p \in Executors, NEW t \in Types, NEW from \in StateNames,
             NEW to \in StateNames, BeginExecution(p, t, from, to)
      PROVE  OrderInv' /\ RunType'
  <2>1. Plan(t, from, to) \in Seq(Entries)
    BY PlanHolds DEF Holds
  <2> QED BY <1>4, <1>5, <2>1 DEF BeginExecution, RunType
<1>6. ASSUME NEW p \in Executors, CallHook(p) PROVE OrderInv' /\ RunType'
  <2>1. /\ run[p] \in [type : Types, todo : Seq(Entries)] /\ run[p].todo # <<>>
        /\ run' = [run EXCEPT ![p].todo = Tail(run[p].todo)]
    BY <1>6 DEF CallHook, RunType
  <2>2. Tail(run[p].todo) \in Seq(Entries)
    BY <2>1
  <2> QED BY <1>4, <1>6, <2>1, <2>2 DEF CallHook, RunType
<1>7. ASSUME NEW p \in Executors, RejectTransition(p) \/ EndExecution(p)
      PROVE  OrderInv' /\ RunType'
  BY <1>4, <1>7 DEF RejectTransition, EndExecution, RunType
<1>8. CASE UNCHANGED vars
  BY <1>4, <1>8 DEF vars, RunType
<1> QED BY <1>1, <1>2, <1>3, <1>5, <1>6, <1>7, <1>8 DEF Next

LEMMA AlwaysOrdered == Spec => [](RegistryInv /\ OrderInv /\ RunType)
<1>1. Init => RegistryInv /\ OrderInv /\ RunType
  BY InitRegistry, InitOrder
<1>2. RegistryInv /\ OrderInv /\ RunType /\ [Next]_vars
        => (RegistryInv /\ OrderInv /\ RunType)'
  BY NextRegistry, NextOrder
<1> QED BY <1>1, <1>2, PTL DEF Spec

(* The numbers stay within the bound, and an execution's plan is a         *)
(* sequence of entries: sorting finds an entry for every place, and never  *)
(* the same one twice.                                                     *)
THEOREM TypeCorrect == Spec => []TypeOK
<1>1. RegistryInv /\ OrderInv /\ RunType => TypeOK
  BY DEF RegistryInv, OrderInv, RunType, TypeOK
<1> QED BY <1>1, AlwaysOrdered, PTL
--------------------------------------------------------------------------------
(* The registry implements the list of hooks.                              *)
LEMMA HooksOfFacts ==
  ASSUME NEW s \in Seq(Entries)
  PROVE  /\ HooksOf(s) \in Seq(BareHooks) /\ Len(HooksOf(s)) = Len(s)
         /\ \A i \in 1..Len(s) : HooksOf(s)[i] = Hook(s[i])
         /\ HooksOf(s) = <<>> <=> s = <<>>
<1>1. \A e \in Entries : Hook(e) \in BareHooks
  BY DEF Entries, Hook, BareHooks
<1>2. HooksOf(s) \in [1..Len(s) -> BareHooks] /\ Len(s) \in Nat
  BY <1>1 DEF HooksOf
<1> QED BY <1>2 DEF HooksOf

LEMMA HooksOfAppend ==
  ASSUME NEW s \in Seq(Entries), NEW e \in Entries
  PROVE  HooksOf(Append(s, e)) = Append(HooksOf(s), Hook(e))
<1> DEFINE a == Append(s, e)
           h == HooksOf(s)
           b == HooksOf(a)
           x == Hook(e)
<1>1. a \in Seq(Entries) /\ Len(a) = Len(s) + 1 /\ a[Len(s) + 1] = e
      /\ Len(s) \in Nat /\ \A i \in 1..Len(s) : a[i] = s[i]
  OBVIOUS
<1>2. /\ b \in Seq(BareHooks) /\ Len(b) = Len(a) /\ \A i \in 1..Len(a) : b[i] = Hook(a[i])
      /\ h \in Seq(BareHooks) /\ Len(h) = Len(s) /\ \A i \in 1..Len(s) : h[i] = Hook(s[i])
  BY <1>1, HooksOfFacts
<1>3. x \in BareHooks
  BY DEF Entries, Hook, BareHooks
<1> HIDE DEF a, b, h
<1>4. \A i \in 1..Len(s) : b[i] = h[i]
  BY <1>1, <1>2
<1>5. b[Len(s) + 1] = x
  BY <1>1, <1>2
<1> HIDE DEF x
<1> QED BY <1>1, <1>2, <1>3, <1>4, <1>5 DEF a, b, h, x

LEMMA HooksOfTail ==
  ASSUME NEW s \in Seq(Entries), s # <<>>
  PROVE  HooksOf(Tail(s)) = Tail(HooksOf(s))
<1>1. /\ Tail(s) \in Seq(Entries) /\ Len(Tail(s)) = Len(s) - 1 /\ Len(s) \in Nat \ {0}
      /\ \A i \in 1..Len(s) - 1 : Tail(s)[i] = s[i + 1]
  OBVIOUS
<1> DEFINE h == HooksOf(s)
           t == HooksOf(Tail(s))
<1>2. /\ h \in Seq(BareHooks) /\ Len(h) = Len(s) /\ \A i \in 1..Len(s) : h[i] = Hook(s[i])
      /\ t \in Seq(BareHooks) /\ Len(t) = Len(s) - 1
      /\ \A i \in 1..Len(s) - 1 : t[i] = Hook(Tail(s)[i])
  BY <1>1, HooksOfFacts
<1> HIDE DEF h, t
<1>3. \A i \in 1..Len(s) - 1 : t[i] = h[i + 1]
  BY <1>1, <1>2
<1>4. Tail(h) \in Seq(BareHooks) /\ Len(Tail(h)) = Len(s) - 1
      /\ \A i \in 1..Len(s) - 1 : Tail(h)[i] = h[i + 1]
  BY <1>1, <1>2
<1> QED BY <1>2, <1>3, <1>4 DEF h, t

(* A sequence that has all elements but one is what lies before it and     *)
(* what lies behind it.                                                    *)
LEMMA RemovedAt ==
  ASSUME NEW S, NEW h \in Seq(S), NEW at \in 1..Len(h), NEW k \in Seq(S),
         Len(k) = Len(h) - 1,
         \A i \in 1..Len(h) - 1 : k[i] = IF i < at THEN h[i] ELSE h[i + 1]
  PROVE  k = SubSeq(h, 1, at - 1) \o SubSeq(h, at + 1, Len(h))
<1> DEFINE a == SubSeq(h, 1, at - 1)
           b == SubSeq(h, at + 1, Len(h))
           c == a \o b
<1>1. /\ Len(h) \in Nat
      /\ a \in Seq(S) /\ Len(a) = at - 1 /\ \A i \in 1..at - 1 : a[i] = h[i]
      /\ b \in Seq(S) /\ Len(b) = Len(h) - at
      /\ \A i \in 1..Len(h) - at : b[i] = h[at + i]
  OBVIOUS
<1> HIDE DEF a, b
<1>2. /\ c \in Seq(S) /\ Len(c) = Len(a) + Len(b)
      /\ \A i \in 1..Len(a) + Len(b) : c[i] = IF i <= Len(a) THEN a[i] ELSE b[i - Len(a)]
  BY <1>1, ConcatProperties
<1> HIDE DEF c
<1>3. Len(c) = Len(k)
  BY <1>1, <1>2
<1>4. ASSUME NEW i \in 1..Len(h) - 1 PROVE k[i] = c[i]
  <2>1. i \in 1..Len(a) + Len(b)
    BY <1>1
  <2>2. c[i] = IF i <= Len(a) THEN a[i] ELSE b[i - Len(a)]
    BY <1>2, <2>1
  <2>3. CASE i < at
    <3>1. i \in 1..at - 1 /\ i <= Len(a)
      BY <1>1, <2>3
    <3>2. a[i] = h[i]
      BY <1>1, <3>1
    <3> QED BY <2>2, <2>3, <3>1, <3>2
  <2>4. CASE ~(i < at)
    <3>1. /\ ~(i <= Len(a)) /\ i - Len(a) \in 1..Len(h) - at
          /\ at + (i - Len(a)) = i + 1
      BY <1>1, <2>4
    <3>2. b[i - Len(a)] = h[at + (i - Len(a))]
      BY <1>1, <3>1
    <3> QED BY <2>2, <2>4, <3>1, <3>2
  <2> QED BY <2>3, <2>4
<1>5. k = c
  BY <1>2, <1>3, <1>4, SeqEqual
<1> QED BY <1>5 DEF c, a, b

LEMMA HooksOfRemove ==
  ASSUME NEW s \in Seq(Entries), NEW e \in Elements(s)
  PROVE  \E i \in 1..Len(HooksOf(s)) :
           HooksOf(RemoveFrom(s, e)) =
             SubSeq(HooksOf(s), 1, i - 1) \o SubSeq(HooksOf(s), i + 1, Len(HooksOf(s)))
<1> DEFINE at == CHOOSE i \in 1..Len(s) : s[i] = e
           r  == RemoveFrom(s, e)
           h  == HooksOf(s)
           k  == HooksOf(r)
<1>1. at \in 1..Len(s) /\ r = [i \in 1..Len(s) - 1 |-> IF i < at THEN s[i] ELSE s[i + 1]]
  BY DEF Elements, RemoveFrom
<1> HIDE DEF at, r
<1>2. Len(s) \in Nat /\ Len(s) - 1 \in Nat
  BY <1>1
<1>3. r \in Seq(Entries) /\ Len(r) = Len(s) - 1
  <2>1. r \in [1..Len(s) - 1 -> Entries]
    BY <1>1, <1>2
  <2> QED BY <1>2, <2>1
<1>4. /\ h \in Seq(BareHooks) /\ Len(h) = Len(s) /\ \A i \in 1..Len(s) : h[i] = Hook(s[i])
      /\ k \in Seq(BareHooks) /\ Len(k) = Len(s) - 1
      /\ \A i \in 1..Len(s) - 1 : k[i] = Hook(r[i])
  BY <1>3, HooksOfFacts
<1> HIDE DEF h, k
<1>5. \A i \in 1..Len(h) - 1 : k[i] = IF i < at THEN h[i] ELSE h[i + 1]
  BY <1>1, <1>2, <1>4
<1>6. at \in 1..Len(h) /\ Len(k) = Len(h) - 1 /\ h \in Seq(BareHooks) /\ k \in Seq(BareHooks)
  BY <1>1, <1>4
<1>7. k = SubSeq(h, 1, at - 1) \o SubSeq(h, at + 1, Len(h))
  BY <1>5, <1>6, RemovedAt, Zenon
<1> QED BY <1>6, <1>7 DEF h, k, r

(* The list is the order of the registered entries.                        *)
LEMMA ListedIs ==
  ASSUME NEW s
  PROVE  /\ Holds(s, Registered) => Listed = HooksOf(s)
         /\ Holds(s, Registered') => Listed' = HooksOf(s)
  BY Sorted DEF Listed

LEMMA RegisterRefines ==
  ASSUME RegistryInv, OrderInv, NEW name \in HookNames, NEW type \in Types,
         NEW l \in Patterns, Register(name, type, l)
  PROVE  List!Next
<1>1. PICK entry \in Entries :
        /\ Registered' = Registered \cup {entry}
        /\ Hook(entry) = [name |-> name, type |-> type,
                          from |-> Elements(l[1]), to |-> Elements(l[2])]
        /\ \A e \in Registered : e.seq < entry.seq /\ e.name # name
  BY RegisterOrder
<1>2. PICK s : Holds(s, Registered)
  BY DEF OrderInv
<1>3. s \in Seq(Entries) /\ \A i \in 1..Len(s) : s[i] \in Registered
  BY <1>2 DEF Holds, Elements
<1>4. Holds(Append(s, entry), Registered')
  BY <1>1, <1>2, AppendHolds
<1>5. Listed = HooksOf(s) /\ Listed' = Append(Listed, Hook(entry))
  BY <1>2, <1>3, <1>4, ListedIs, HooksOfAppend
<1>6. \A i \in 1..Len(Listed) : Listed[i].name # Hook(entry).name
  <2>1. Len(Listed) = Len(s) /\ \A i \in 1..Len(s) : Listed[i] = Hook(s[i])
    BY <1>3, <1>5, HooksOfFacts
  <2>2. Hook(entry).name = name /\ \A e : Hook(e).name = e.name
    BY <1>1 DEF Hook
  <2> QED BY <1>1, <1>3, <2>1, <2>2
<1>7. Running' = Running
  BY DEF Register, Running
<1>8. List!Register(Hook(entry))
  BY <1>5, <1>6, <1>7 DEF List!Register
<1> QED BY <1>1, <1>8 DEF List!Next

LEMMA RemoveRefines ==
  ASSUME RegistryInv, OrderInv, NEW name \in HookNames, RemoveHook(name)
  PROVE  List!Next
<1> DEFINE entry == hooks[name]
<1>1. entry \in Registered /\ hooks' = [hooks EXCEPT ![name] = NoHook] /\ run' = run
  BY DEF RemoveHook, Registered
<1>2. PICK s : Holds(s, Registered)
  BY DEF OrderInv
<1>3. Registered' = Registered \ {entry}
  <2>1. \A n \in HookNames : hooks'[n] = IF n = name THEN NoHook ELSE hooks[n]
    BY <1>1 DEF RegistryInv
  <2>2. \A n \in HookNames : n # name /\ hooks[n] # NoHook => hooks[n] # entry
    BY <1>1 DEF RegistryInv, Registered
  <2> QED BY <2>1, <2>2 DEF Registered
<1> HIDE DEF entry
<1>4. Holds(RemoveFrom(s, entry), Registered')
  BY <1>2, <1>3, RemoveHolds
<1>5. Listed = HooksOf(s) /\ Listed' = HooksOf(RemoveFrom(s, entry))
  BY <1>2, <1>4, ListedIs
<1>6. PICK i \in 1..Len(Listed) :
        Listed' = SubSeq(Listed, 1, i - 1) \o SubSeq(Listed, i + 1, Len(Listed))
  BY <1>1, <1>2, <1>5, HooksOfRemove DEF Holds
<1>7. List!Unregister(i)
  BY <1>1, <1>6 DEF List!Unregister, Running
<1> QED BY <1>7 DEF List!Next

LEMMA BeginRefines ==
  ASSUME RegistryInv, OrderInv, RunType, NEW p \in Executors, NEW type \in Types,
         NEW from \in StateNames, NEW to \in StateNames,
         BeginExecution(p, type, from, to)
  PROVE  List!Next
<1> DEFINE q == Plan(type, from, to)
           due == List!Due(type, from, to)
<1>1. PICK s : Holds(s, Registered)
  BY DEF OrderInv
<1>2. /\ Holds(q, Called(type, from, to))
      /\ run[p] = NoRun /\ run' = [run EXCEPT ![p] = [type |-> type, todo |-> q]]
      /\ UNCHANGED <<hooks, index, wildcards, nextSeq>>
  BY PlanHolds DEF BeginExecution
<1> HIDE DEF q
<1>3. /\ s \in Seq(Entries) /\ Ordered(s) /\ Elements(s) = Registered /\ Len(s) \in Nat
      /\ q \in Seq(Entries) /\ Ordered(q) /\ Elements(q) = Called(type, from, to)
      /\ Len(q) \in Nat
  BY <1>1, <1>2 DEF Holds
<1>4. /\ Listed = HooksOf(s) /\ Len(Listed) = Len(s)
      /\ \A i \in 1..Len(s) : Listed[i] = Hook(s[i])
  BY <1>1, <1>3, ListedIs, HooksOfFacts
<1>5. due = {i \in 1..Len(s) : s[i] \in Elements(q)}
  <2>1. due = {i \in 1..Len(s) : Hook(s[i]).type = type /\ List!Matches(Hook(s[i]), from, to)}
    BY <1>4 DEF List!Due
  <2>2. \A i \in 1..Len(s) :
          Hook(s[i]).type = type /\ List!Matches(Hook(s[i]), from, to)
            <=> s[i] \in Called(type, from, to)
    BY <1>3 DEF Hook, List!Matches, Matches, Called, Elements
  <2> HIDE DEF due
  <2> QED BY <1>3, <2>1, <2>2
<1> HIDE DEF due
<1> DEFINE at == [n \in 1..Len(q) |-> CHOOSE i \in 1..Len(s) : s[i] = q[n]]
<1>6. \A n \in 1..Len(q) : at[n] \in 1..Len(s) /\ s[at[n]] = q[n] /\ at[n] \in due
  <2> SUFFICES ASSUME NEW n \in 1..Len(q)
               PROVE  at[n] \in 1..Len(s) /\ s[at[n]] = q[n] /\ at[n] \in due
    OBVIOUS
  <2>1. q[n] \in Elements(q) /\ q[n] \in Elements(s)
    BY <1>3 DEF Elements, Called
  <2>2. \E i \in 1..Len(s) : s[i] = q[n]
    BY <2>1 DEF Elements
  <2> QED BY <1>5, <2>1, <2>2
<1>7. at \in [1..Len(q) -> due]
  BY <1>6
<1>8. \A i \in 1..Len(s) : s[i].seq \in Nat
  BY <1>3, EntryTypes
<1> HIDE DEF at
<1>9. \A m, n \in 1..Len(q) : m < n => at[m] < at[n]
  <2> SUFFICES ASSUME NEW m \in 1..Len(q), NEW n \in 1..Len(q), m < n
               PROVE  at[m] < at[n]
    OBVIOUS
  <2>1. s[at[m]].seq < s[at[n]].seq
    BY <1>3, <1>6 DEF Ordered
  <2>2. ~(at[n] < at[m]) /\ at[n] # at[m]
    BY <1>3, <1>6, <1>8, <2>1 DEF Ordered
  <2> QED BY <1>6, <2>2
<1>10. \A i \in due : \E n \in 1..Len(q) : at[n] = i
  <2> SUFFICES ASSUME NEW i \in due PROVE \E n \in 1..Len(q) : at[n] = i
    OBVIOUS
  <2>1. PICK n \in 1..Len(q) : s[i] = q[n]
    BY <1>5 DEF Elements
  <2>2. i \in 1..Len(s) /\ ~(i < at[n]) /\ ~(at[n] < i)
    BY <1>3, <1>5, <1>6, <1>8, <2>1 DEF Ordered
  <2> QED BY <1>6, <2>2
<1>11. Len(q) \in 0..Len(Listed)
  <2>1. \A m, n \in 1..Len(q) : at[m] = at[n] => m = n
    <3> SUFFICES ASSUME NEW m \in 1..Len(q), NEW n \in 1..Len(q), at[m] = at[n]
                 PROVE  m = n
      OBVIOUS
    <3>1. ~(m < n) /\ ~(n < m)
      BY <1>6, <1>9
    <3> QED BY <3>1
  <2>2. at \in Injection(1..Len(q), 1..Len(s))
    BY <1>6, <1>7, <2>1 DEF Injection, IsInjective
  <2>3. Cardinality(1..Len(q)) <= Cardinality(1..Len(s))
    BY <1>3, <2>2, FS_Injection, FS_Interval
  <2>4. \A n \in Nat : Cardinality(1..n) = n
    <3> SUFFICES ASSUME NEW n \in Nat PROVE Cardinality(1..n) = n
      OBVIOUS
    <3>1. Cardinality(1..n) = IF 1 > n THEN 0 ELSE n - 1 + 1
      BY FS_Interval
    <3> QED BY <3>1
  <2>5. Cardinality(1..Len(q)) = Len(q) /\ Cardinality(1..Len(s)) = Len(s)
    BY <1>3, <2>4
  <2> QED BY <1>3, <1>4, <2>3, <2>5
<1>12. DOMAIN at = 1..Len(q)
  BY <1>7
<1>13. HooksOf(q) = [n \in 1..Len(q) |-> Listed[at[n]]]
  BY <1>4, <1>6 DEF HooksOf
<1>14. Running[p] = NoRun
       /\ Running' = [Running EXCEPT ![p] = [type |-> type, todo |-> HooksOf(q)]]
  <2>1. [type |-> type, todo |-> q] # NoRun
    BY <1>3, NoRunAssumption
  <2> QED BY <1>2, <2>1 DEF Running, RunType
<1>15. Listed' = Listed
  BY <1>2 DEF Listed, Registered
<1>16. List!Begin(p, type, from, to)
  <2>1. List!InTurn(at, due)
    BY <1>9, <1>10, <1>12 DEF List!InTurn
  <2>2. Running' = [Running EXCEPT ![p] =
          [type |-> type, todo |-> [n \in 1..Len(q) |-> Listed[at[n]]]]]
    BY <1>13, <1>14
  <2> QED BY <1>7, <1>11, <1>14, <1>15, <2>1, <2>2, Zenon DEF List!Begin, due
<1> QED BY <1>16 DEF List!Next, Types

LEMMA ExecutionRefines ==
  ASSUME RunType, NEW p \in Executors,
         CallHook(p) \/ RejectTransition(p) \/ EndExecution(p)
  PROVE  List!Next
<1>1. Listed' = Listed
  BY DEF CallHook, RejectTransition, EndExecution, Listed, Registered
<1>2. run[p] # NoRun /\ run[p] \in [type : Types, todo : Seq(Entries)]
  BY DEF CallHook, RejectTransition, EndExecution, RunType
<1>3. /\ HooksOf(run[p].todo) \in Seq(BareHooks)
      /\ HooksOf(run[p].todo) = <<>> <=> run[p].todo = <<>>
  BY <1>2, HooksOfFacts
<1>4. Running[p] = [type |-> run[p].type, todo |-> HooksOf(run[p].todo)]
  BY <1>2 DEF Running
<1>5. Running[p] # NoRun
  BY <1>2, <1>3, <1>4, NoRunAssumption
<1>6. CASE CallHook(p)
  <2> DEFINE rest == Tail(run[p].todo)
  <2>1. run[p].todo # <<>> /\ run' = [run EXCEPT ![p].todo = rest] /\ rest \in Seq(Entries)
    BY <1>2, <1>6 DEF CallHook
  <2>2. HooksOf(rest) = Tail(Running[p].todo)
    BY <1>2, <1>4, <2>1, HooksOfTail
  <2> HIDE DEF rest
  <2>3. run'[p] = [type |-> run[p].type, todo |-> rest]
        /\ \A r \in Executors : r # p => run'[r] = run[r]
    BY <1>2, <2>1 DEF RunType
  <2>4. run'[p] # NoRun
    BY <1>2, <2>1, <2>3, NoRunAssumption
  <2>5. Running' = [Running EXCEPT ![p] =
          [type |-> run[p].type, todo |-> HooksOf(rest)]]
    <3>1. \A r \in Executors :
            (IF run'[r] = NoRun THEN NoRun
             ELSE [type |-> run'[r].type, todo |-> HooksOf(run'[r].todo)])
              = IF r = p THEN [type |-> run[p].type, todo |-> HooksOf(rest)] ELSE Running[r]
      BY <2>3, <2>4 DEF Running
    <3> QED BY <3>1, Zenon DEF Running
  <2>6. Running' = [Running EXCEPT ![p].todo = Tail(Running[p].todo)]
    <3>1. [Running[p] EXCEPT !.todo = HooksOf(rest)]
            = [type |-> run[p].type, todo |-> HooksOf(rest)]
      BY <1>4
    <3> QED BY <2>2, <2>5, <3>1, Zenon
  <2>7. List!CallNext(p)
    BY <1>1, <1>3, <1>4, <1>5, <2>1, <2>6 DEF List!CallNext
  <2> QED BY <2>7 DEF List!Next
<1>7. CASE RejectTransition(p) \/ EndExecution(p)
  <2>1. run' = [run EXCEPT ![p] = NoRun] /\ (run[p].todo = <<>> \/ run[p].type = "pre")
    BY <1>7 DEF RejectTransition, EndExecution
  <2>2. Running' = [Running EXCEPT ![p] = NoRun]
    BY <2>1 DEF Running, RunType
  <2>3. List!End(p)
    BY <1>1, <1>3, <1>4, <1>5, <2>1, <2>2 DEF List!End
  <2> QED BY <2>3 DEF List!Next
<1> QED BY <1>6, <1>7

(* Every step of the registry is one of the list's.                        *)
LEMMA NextRefines ==
  RegistryInv /\ OrderInv /\ RunType /\ [Next]_vars => [List!Next]_(List!vars)
<1> SUFFICES ASSUME RegistryInv, OrderInv, RunType, [Next]_vars
             PROVE  List!Next \/ UNCHANGED List!vars
  OBVIOUS
<1>1. CASE Clear
  <2>1. Registered' = {}
    BY <1>1 DEF Clear, Registered
  <2>2. Holds(<<>>, {})
    BY DEF Holds, Ordered, Elements
  <2>3. Listed' = <<>>
    BY <2>1, <2>2, ListedIs DEF HooksOf
  <2>4. List!Clear
    BY <1>1, <2>3 DEF Clear, List!Clear, Running
  <2> QED BY <2>4 DEF List!Next
<1>2. CASE UNCHANGED vars
  BY <1>2 DEF vars, List!vars, Listed, Registered, Running
<1> QED
  BY <1>1, <1>2, RegisterRefines, RemoveRefines, BeginRefines, ExecutionRefines DEF Next

LEMMA InitRefines == Init => List!Init
<1> SUFFICES ASSUME Init PROVE List!Init
  OBVIOUS
<1>1. Registered = {} /\ Holds(<<>>, {})
  BY DEF Init, Registered, Holds, Ordered, Elements
<1>2. Listed = <<>>
  BY <1>1, ListedIs DEF HooksOf
<1>3. Running = [p \in Executors |-> NoRun]
  BY DEF Init, Running
<1> QED BY <1>2, <1>3 DEF List!Init

(* Filing hooks by transition, keeping wildcards apart and sorting when    *)
(* hooks are executed comes to the same as one list in the order of        *)
(* registration: each execution calls the hooks that matched when it       *)
(* began, once each and in that order.                                     *)
THEOREM Refinement == Spec => ImplementsHookList
<1>1. RegistryInv /\ OrderInv /\ RunType /\ [Next]_vars => [List!Next]_(List!vars)
  BY NextRefines
<1> QED
  BY InitRefines, <1>1, AlwaysOrdered, PTL DEF Spec, ImplementsHookList, List!Spec
================================================================================
