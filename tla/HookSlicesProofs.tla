---------------------------- MODULE HookSlicesProofs ----------------------------
(***************************************************************************)
(* Proof that the elements an execution has taken are never written to,    *)
(* and that the slice implements the list of hooks, for any hooks,         *)
(* executions, capacities and numbers of arrays.                           *)
(*                                                                         *)
(* The registry writes to an element in two ways: to one of a new array,   *)
(* and behind the last one of its own header.  So it is enough that no     *)
(* execution has a longer header into the registry's array.                *)
(***************************************************************************)
EXTENDS HookSlices, SequenceTheorems, TLAPS

NoLongerHeader ==
  \A p \in Executors :
    run[p] # NoRun /\ run[p].header.array = slice.array =>
      run[p].header.len <= slice.len

Inv == TypeOK /\ SnapshotsStable /\ NoLongerHeader

HeapType ==
  /\ heap \in [Arrays -> [1..MaxCap -> HookNames \cup {NoEntry}]]
  /\ cap \in [Arrays -> 0..MaxCap]
  /\ used \in 0..MaxArrays

LEMMA InitInv == Init => Inv
<1> SUFFICES ASSUME Init PROVE Inv
  OBVIOUS
<1> USE SlicesAssumption
<1>1. HeapType
  BY DEF Init, HeapType, Blank
<1>2. slice \in Headers
  BY DEF Init, Headers, Capacity
<1>3. \A p \in Executors : run[p] = NoRun
  BY DEF Init
<1>4. DOMAIN run = Executors
  BY DEF Init
<1>5. TypeOK
  BY <1>1, <1>2, <1>3, <1>4 DEF TypeOK, HeapType
<1> QED BY <1>3, <1>5 DEF Inv, SnapshotsStable, NoLongerHeader

(* What a header that is in use says.                                      *)
LEMMA HeaderFacts ==
  ASSUME HeapType, NEW h \in Headers
  PROVE  /\ h.array \in 0..used /\ h.len \in 0..MaxCap
         /\ h.array = 0 => h.len = 0
         /\ h.array # 0 => h.array \in Arrays /\ h.len <= cap[h.array]
  BY SlicesAssumption DEF HeapType, Headers, Capacity, Arrays

(* A step that begins no execution keeps the invariant if it writes to no  *)
(* element that a header covers.                                           *)
LEMMA HeadersKept ==
  ASSUME Inv, HeapType', slice' \in Headers', used <= used',
         \A a \in Arrays : a <= used => cap'[a] = cap[a],
         \A p \in Executors : run[p] # NoRun =>
           \A i \in 1..run[p].header.len :
             heap'[run[p].header.array][i] = heap[run[p].header.array][i],
         \A p \in Executors : run[p] # NoRun /\ run[p].header.array = slice'.array =>
           run[p].header.len <= slice'.len,
         run' = run
  PROVE  Inv'
<1>1. HeapType
  BY DEF Inv, TypeOK, HeapType
<1>2. ASSUME NEW h \in Headers PROVE h \in Headers'
  <2>1. h.array \in 0..used /\ h.len <= Capacity(h)
        /\ h \in [array : 0..MaxArrays, len : 0..MaxCap]
    BY <1>1, <1>2, HeaderFacts DEF Headers
  <2>2. h.array <= used'
    BY <1>1, <2>1, SlicesAssumption DEF HeapType
  <2>3. Capacity(h)' = Capacity(h)
    <3>1. CASE h.array = 0
      BY <3>1 DEF Capacity
    <3>2. CASE h.array # 0
      BY <1>1, <1>2, <2>1, <3>2, HeaderFacts, SlicesAssumption DEF Capacity, HeapType
    <3> QED BY <3>1, <3>2
  <2> QED BY <2>1, <2>2, <2>3 DEF Headers
<1>3. TypeOK'
  <2>1. \A p \in Executors : run[p] # NoRun =>
       /\ run[p] = [header |-> run[p].header, next |-> run[p].next, list |-> run[p].list]
       /\ run[p].header \in Headers
       /\ run[p].next \in 1..run[p].header.len + 1
    BY DEF Inv, TypeOK
  <2>2. DOMAIN run = Executors
    BY DEF Inv, TypeOK
  <2> QED BY <1>2, <2>1, <2>2 DEF TypeOK, HeapType
<1>4. SnapshotsStable'
  <2> SUFFICES ASSUME NEW p \in Executors, run[p] # NoRun
               PROVE  [i \in 1..run[p].header.len |-> heap'[run[p].header.array][i]]
                        = run[p].list
    BY DEF SnapshotsStable, Contents
  <2>1. [i \in 1..run[p].header.len |-> heap[run[p].header.array][i]] = run[p].list
    BY DEF Inv, SnapshotsStable, Contents
  <2> QED BY <2>1
<1>5. NoLongerHeader'
  BY DEF NoLongerHeader
<1> QED BY <1>3, <1>4, <1>5 DEF Inv

(* The elements of the headers are not in an array that is yet to come.    *)
LEMMA AllocateKeeps ==
  ASSUME Inv, NEW n \in 0..MaxCap, NEW elements \in [1..MaxCap -> HookNames \cup {NoEntry}],
         NEW len \in 0..n, Allocate(n, elements),
         slice' = [array |-> used + 1, len |-> len], run' = run
  PROVE  Inv'
<1>1. HeapType
  BY DEF Inv, TypeOK, HeapType
<1>2. used \in Nat /\ used' = used + 1 /\ used + 1 \in Arrays
  BY <1>1, SlicesAssumption DEF Allocate, HeapType, Arrays
<1>3. PICK c \in n..MaxCap : cap' = [cap EXCEPT ![used + 1] = c]
  BY DEF Allocate
<1>4. heap' = [heap EXCEPT ![used + 1] = elements]
  BY DEF Allocate
<1>5. c \in 0..MaxCap /\ len <= c
  BY SlicesAssumption
<1>6. HeapType'
  BY <1>1, <1>2, <1>3, <1>4, <1>5 DEF HeapType, Arrays
<1>7. cap'[used + 1] = c /\ used + 1 # 0
  BY <1>1, <1>2, <1>3 DEF HeapType
<1>8. slice' \in Headers'
  BY <1>2, <1>5, <1>7, SlicesAssumption DEF Headers, Capacity, Arrays
<1>9. ASSUME NEW p \in Executors, run[p] # NoRun
      PROVE  run[p].header \in Headers /\ run[p].header.array # used + 1
  <2>1. run[p].header \in Headers
    BY <1>9 DEF Inv, TypeOK
  <2> QED BY <1>1, <1>2, <2>1, HeaderFacts
<1>10. \A p \in Executors : run[p] # NoRun =>
         \A i \in 1..run[p].header.len :
           heap'[run[p].header.array][i] = heap[run[p].header.array][i]
  <2> SUFFICES ASSUME NEW p \in Executors, run[p] # NoRun,
                      NEW i \in 1..run[p].header.len
               PROVE  heap'[run[p].header.array][i] = heap[run[p].header.array][i]
    OBVIOUS
  <2>1. run[p].header.array \in Arrays
    BY <1>1, <1>9, HeaderFacts
  <2> QED BY <1>1, <1>4, <1>9, <2>1 DEF HeapType
<1>11. \A a \in Arrays : a <= used => cap'[a] = cap[a]
  BY <1>1, <1>2, <1>3 DEF HeapType
<1> QED BY <1>2, <1>6, <1>8, <1>9, <1>10, <1>11, HeadersKept

LEMMA NextInv == Inv /\ [Next]_vars => Inv'
<1> SUFFICES ASSUME Inv, [Next]_vars PROVE Inv'
  OBVIOUS
<1> USE SlicesAssumption
<1>1. HeapType /\ slice \in Headers
  BY DEF Inv, TypeOK, HeapType
<1>2. /\ slice.array \in 0..used /\ slice.len \in 0..MaxCap
      /\ slice.array # 0 => slice.array \in Arrays /\ slice.len <= cap[slice.array]
      /\ slice = [array |-> slice.array, len |-> slice.len]
  BY <1>1, HeaderFacts DEF Headers
<1>3. \A p \in Executors : run[p] # NoRun => run[p].header \in Headers
  BY DEF Inv, TypeOK
<1>4. ASSUME NEW e \in HookNames, AppendInPlace(e) PROVE Inv'
  <2>1. slice.array \in Arrays /\ slice.len + 1 \in 1..MaxCap
        /\ slice.len + 1 <= cap[slice.array]
    <3>1. slice.len # Capacity(slice) /\ slice.len <= Capacity(slice)
      BY <1>1, <1>4 DEF AppendInPlace, Full, Headers
    <3>2. slice.array # 0
      BY <1>2, <3>1 DEF Capacity
    <3>3. cap[slice.array] \in 0..MaxCap
      BY <1>1, <1>2, <3>2 DEF HeapType
    <3> QED BY <1>2, <3>1, <3>2, <3>3 DEF Capacity
  <2>2. /\ heap' = [heap EXCEPT ![slice.array][slice.len + 1] = e]
        /\ slice' = [array |-> slice.array, len |-> slice.len + 1]
        /\ cap' = cap /\ used' = used /\ run' = run
    BY <1>2, <1>4 DEF AppendInPlace
  <2>3. HeapType'
    BY <1>1, <2>1, <2>2 DEF HeapType
  <2>4. slice' \in Headers'
    BY <1>2, <2>1, <2>2 DEF Headers, Capacity, Arrays
  <2>5. ASSUME NEW p \in Executors, run[p] # NoRun
        PROVE  /\ \A i \in 1..run[p].header.len :
                    heap'[run[p].header.array][i] = heap[run[p].header.array][i]
               /\ run[p].header.array = slice'.array => run[p].header.len <= slice'.len
    <3> DEFINE h == run[p].header
    <3>1. h \in Headers /\ h.len \in 0..MaxCap
          /\ (h.array = 0 => h.len = 0) /\ (h.array # 0 => h.array \in Arrays)
      BY <1>1, <1>3, <2>5, HeaderFacts
    <3>2. h.array = slice.array => h.len <= slice.len
      BY <2>5 DEF Inv, NoLongerHeader
    <3> HIDE DEF h
    <3>3. CASE h.array = slice.array
      <4>1. \A i \in 1..h.len : i # slice.len + 1
        BY <1>2, <3>1, <3>2, <3>3
      <4>2. \A i \in 1..h.len : heap'[h.array][i] = heap[h.array][i]
        BY <1>1, <2>1, <2>2, <3>1, <3>3, <4>1 DEF HeapType
      <4>3. h.len <= slice'.len
        BY <1>2, <2>2, <3>1, <3>2, <3>3
      <4> QED BY <4>2, <4>3 DEF h
    <3>4. CASE h.array # slice.array
      <4>1. \A i \in 1..h.len : heap'[h.array][i] = heap[h.array][i]
        <5>1. CASE h.array = 0
          BY <3>1, <5>1
        <5>2. CASE h.array # 0
          BY <1>1, <2>1, <2>2, <3>1, <3>4, <5>2 DEF HeapType
        <5> QED BY <5>1, <5>2
      <4> QED BY <2>2, <3>4, <4>1 DEF h
    <3> QED BY <3>3, <3>4
  <2> QED BY <1>1, <2>2, <2>3, <2>4, <2>5, HeadersKept DEF HeapType
<1>5. ASSUME NEW e \in HookNames, AppendGrow(e) PROVE Inv'
  <2> DEFINE elements == [i \in 1..MaxCap |-> IF i <= slice.len THEN heap[slice.array][i]
                            ELSE IF i = slice.len + 1 THEN e ELSE NoEntry]
  <2>1. elements \in [1..MaxCap -> HookNames \cup {NoEntry}]
    <3> SUFFICES ASSUME NEW i \in 1..MaxCap, i <= slice.len
                 PROVE  heap[slice.array][i] \in HookNames \cup {NoEntry}
      OBVIOUS
    <3>1. slice.array \in Arrays
      BY <1>1, <1>2, HeaderFacts
    <3> QED BY <1>1, <3>1 DEF HeapType
  <2>2. Allocate(slice.len + 1, elements)
        /\ slice' = [array |-> used + 1, len |-> slice.len + 1] /\ run' = run
    BY <1>5 DEF AppendGrow
  <2> HIDE DEF elements
  <2>3. slice.len + 1 \in 0..MaxCap
    BY <1>2, <2>2 DEF Allocate
  <2> QED BY <2>1, <2>2, <2>3, AllocateKeeps
<1>6. ASSUME NEW e \in HookNames, RemoveFrom(e) PROVE Inv'
  <2> DEFINE elements == [i \in 1..MaxCap |->
                            IF i <= slice.len THEN Deleted(e)[i] ELSE NoEntry]
  <2>1. PICK j \in 1..slice.len : heap[slice.array][j] = e
    <3>1. e \in Elements([i \in 1..slice.len |-> heap[slice.array][i]])
      BY <1>6 DEF RemoveFrom, Contents
    <3>2. Len([i \in 1..slice.len |-> heap[slice.array][i]]) = slice.len
      BY <1>2
    <3> QED BY <3>1, <3>2 DEF Elements
  <2>2. slice.array \in Arrays /\ slice.len \in 1..MaxCap
    BY <1>1, <1>2, <2>1, HeaderFacts
  <2>3. elements \in [1..MaxCap -> HookNames \cup {NoEntry}]
    <3> SUFFICES ASSUME NEW i \in 1..MaxCap, i <= slice.len
                 PROVE  Deleted(e)[i] \in HookNames \cup {NoEntry}
      OBVIOUS
    <3> DEFINE old == heap[slice.array]
               at == CHOOSE k \in 1..slice.len : old[k] = e
    <3>1. old \in [1..MaxCap -> HookNames \cup {NoEntry}]
      BY <1>1, <2>2 DEF HeapType
    <3>2. Deleted(e)[i] = IF i < at THEN old[i]
                          ELSE IF i < slice.len THEN old[i + 1] ELSE NoEntry
      BY <1>2 DEF Deleted
    <3> HIDE DEF old, at
    <3>3. i < slice.len => i + 1 \in 1..MaxCap
      BY <2>2
    <3> QED BY <3>1, <3>2, <3>3
  <2>4. Allocate(slice.len, elements)
        /\ slice' = [array |-> used + 1, len |-> slice.len - 1] /\ run' = run
    BY <1>6 DEF RemoveFrom
  <2> HIDE DEF elements
  <2>5. slice.len \in 0..MaxCap /\ slice.len - 1 \in 0..slice.len
    BY <2>2
  <2> QED BY <2>3, <2>4, <2>5, AllocateKeeps
<1>7. CASE Clear
  <2>1. /\ slice' = [array |-> 0, len |-> 0] /\ UNCHANGED <<heap, cap, used, run>>
    BY <1>7 DEF Clear
  <2>2. slice' \in Headers'
    BY <1>1, <2>1 DEF Headers, Capacity, HeapType
  <2>3. \A p \in Executors : run[p] # NoRun /\ run[p].header.array = 0 =>
          run[p].header.len <= 0
    BY <1>1, <1>3, HeaderFacts
  <2>4. HeapType' /\ used <= used'
    BY <1>1, <2>1 DEF HeapType
  <2> QED BY <2>1, <2>2, <2>3, <2>4, HeadersKept
<1>8. ASSUME NEW p \in Executors, BeginExecution(p) \/ CallHook(p) \/ EndExecution(p)
      PROVE  Inv'
  <2>0. DOMAIN run = Executors
    BY DEF Inv, TypeOK
  <2>1. UNCHANGED <<heap, cap, used, slice>>
    BY <1>8 DEF BeginExecution, CallHook, EndExecution
  <2>2. HeapType' /\ slice' \in Headers' /\ \A h \in Headers : h \in Headers'
    <3>1. \A h : Capacity(h)' = Capacity(h)
      BY <2>1 DEF Capacity
    <3>2. used' = used /\ slice' = slice
      BY <2>1
    <3>3. \A h \in Headers : h \in Headers'
      BY <3>1, <3>2 DEF Headers
    <3>4. HeapType'
      BY <1>1, <2>1 DEF HeapType
    <3> QED BY <1>1, <3>2, <3>3, <3>4
  <2>3. \A q \in Executors : q # p => run'[q] = run[q]
    BY <1>8, <2>0 DEF BeginExecution, CallHook, EndExecution
  <2>4. run'[p] # NoRun =>
          /\ run'[p] = [header |-> run'[p].header, next |-> run'[p].next,
                        list |-> run'[p].list]
          /\ run'[p].header \in Headers
          /\ run'[p].next \in 1..run'[p].header.len + 1
          /\ Contents(run'[p].header) = run'[p].list
          /\ run'[p].header.array = slice.array => run'[p].header.len <= slice.len
    <3>1. CASE BeginExecution(p)
      <4>1. run'[p] = [header |-> slice, next |-> 1, list |-> Contents(slice)]
        BY <2>0, <3>1 DEF BeginExecution
      <4>2. 1 \in 1..slice.len + 1
        BY <1>2
      <4> QED BY <1>1, <1>2, <4>1, <4>2
    <3>2. CASE CallHook(p)
      <4>1. run[p] # NoRun /\ run[p].next <= run[p].header.len
            /\ run' = [run EXCEPT ![p].next = run[p].next + 1]
        BY <3>2 DEF CallHook
      <4>2. /\ run[p] = [header |-> run[p].header, next |-> run[p].next,
                         list |-> run[p].list]
            /\ run[p].header \in Headers /\ run[p].next \in 1..run[p].header.len + 1
        BY <4>1 DEF Inv, TypeOK
      <4>3. run'[p] = [header |-> run[p].header, next |-> run[p].next + 1,
                       list |-> run[p].list]
        BY <2>0, <4>1, <4>2
      <4>4. run[p].header.len \in Nat
        BY <1>1, <4>2, HeaderFacts
      <4>5. run[p].next + 1 \in 1..run[p].header.len + 1
        BY <4>1, <4>2, <4>4
      <4>6. Contents(run[p].header) = run[p].list
        BY <4>1 DEF Inv, SnapshotsStable
      <4>7. run[p].header.array = slice.array => run[p].header.len <= slice.len
        BY <4>1 DEF Inv, NoLongerHeader
      <4> QED BY <4>2, <4>3, <4>5, <4>6, <4>7
    <3>3. CASE EndExecution(p)
      BY <2>0, <3>3 DEF EndExecution
    <3> QED BY <1>8, <3>1, <3>2, <3>3
  <2>5. TypeOK'
    <3>1. DOMAIN run' = Executors
      BY <1>8, <2>0 DEF BeginExecution, CallHook, EndExecution
    <3>2. ASSUME NEW q \in Executors, run'[q] # NoRun
          PROVE  /\ run'[q] = [header |-> run'[q].header, next |-> run'[q].next,
                               list |-> run'[q].list]
                 /\ run'[q].header \in Headers
                 /\ run'[q].next \in 1..run'[q].header.len + 1
      <4>1. CASE q = p
        BY <2>4, <3>2, <4>1
      <4>2. CASE q # p
        BY <2>3, <3>2, <4>2 DEF Inv, TypeOK
      <4> QED BY <4>1, <4>2
    <3> QED BY <2>2, <3>1, <3>2 DEF TypeOK, HeapType
  <2>6. SnapshotsStable'
    BY <2>1, <2>3, <2>4 DEF Inv, SnapshotsStable, Contents
  <2>7. NoLongerHeader'
    BY <2>1, <2>3, <2>4 DEF Inv, NoLongerHeader
  <2> QED BY <2>5, <2>6, <2>7 DEF Inv
<1>9. CASE UNCHANGED vars
  <2>1. /\ UNCHANGED <<heap, cap, used, run>> /\ slice' = slice
    BY <1>9 DEF vars
  <2>2. HeapType' /\ slice' \in Headers' /\ used <= used'
    BY <1>1, <2>1 DEF HeapType, Headers, Capacity
  <2>3. \A p \in Executors : run[p] # NoRun /\ run[p].header.array = slice.array =>
          run[p].header.len <= slice.len
    BY DEF Inv, NoLongerHeader
  <2> QED BY <2>1, <2>2, <2>3, HeadersKept
<1> QED BY <1>4, <1>5, <1>6, <1>7, <1>8, <1>9 DEF Next

LEMMA AlwaysInv == Spec => []Inv
  BY InitInv, NextInv, PTL DEF Spec

(* Headers stay within the arrays they point into.                         *)
THEOREM TypeCorrect == Spec => []TypeOK
<1>1. Inv => TypeOK
  BY DEF Inv
<1> QED BY <1>1, AlwaysInv, PTL

(* No registration, removal or Clear writes to an element that an          *)
(* execution may read after it has released the registry's lock.           *)
THEOREM SnapshotsAreStable == Spec => []SnapshotsStable
<1>1. Inv => SnapshotsStable
  BY DEF Inv
<1> QED BY <1>1, AlwaysInv, PTL
--------------------------------------------------------------------------------
(* The slice implements the list of hooks: its elements are the list, and  *)
(* what an execution has yet to call are those it took and has not read.   *)
AnyHook == {Hook(e) : e \in HookNames \cup {NoEntry}}

Rest(r) == [i \in 1..r.header.len - r.next + 1 |-> Hook(r.list[r.next + i - 1])]

(* A sequence that has all elements but one is what lies before it and     *)
(* what lies behind it.                                                    *)
LEMMA RemovedAt ==
  ASSUME NEW S, NEW h \in Seq(S), NEW at \in 1..Len(h), NEW k \in Seq(S),
         Len(k) = Len(h) - 1,
         \A i \in 1..Len(h) - 1 : k[i] = IF i < at THEN h[i] ELSE h[i + 1]
  PROVE  k = SubSeq(h, 1, at - 1) \o SubSeq(h, at + 1, Len(h))
<1> DEFINE a == SubSeq(h, 1, at - 1)
           b == SubSeq(h, at + 1, Len(h))
           c == a \o b
<1>1. /\ Len(h) \in Nat
      /\ a \in Seq(S) /\ Len(a) = at - 1 /\ \A i \in 1..at - 1 : a[i] = h[i]
      /\ b \in Seq(S) /\ Len(b) = Len(h) - at
      /\ \A i \in 1..Len(h) - at : b[i] = h[at + i]
  OBVIOUS
<1> HIDE DEF a, b
<1>2. /\ c \in Seq(S) /\ Len(c) = Len(a) + Len(b)
      /\ \A i \in 1..Len(a) + Len(b) : c[i] = IF i <= Len(a) THEN a[i] ELSE b[i - Len(a)]
  BY <1>1, ConcatProperties
<1> HIDE DEF c
<1>3. Len(c) = Len(k)
  BY <1>1, <1>2
<1>4. ASSUME NEW i \in 1..Len(h) - 1 PROVE k[i] = c[i]
  <2>1. i \in 1..Len(a) + Len(b)
    BY <1>1
  <2>2. c[i] = IF i <= Len(a) THEN a[i] ELSE b[i - Len(a)]
    BY <1>2, <2>1
  <2>3. CASE i < at
    <3>1. i \in 1..at - 1 /\ i <= Len(a)
      BY <1>1, <2>3
    <3>2. a[i] = h[i]
      BY <1>1, <3>1
    <3> QED BY <2>2, <2>3, <3>1, <3>2
  <2>4. CASE ~(i < at)
    <3>1. /\ ~(i <= Len(a)) /\ i - Len(a) \in 1..Len(h) - at
          /\ at + (i - Len(a)) = i + 1
      BY <1>1, <2>4
    <3>2. b[i - Len(a)] = h[at + (i - Len(a))]
      BY <1>1, <3>1
    <3> QED BY <2>2, <2>4, <3>1, <3>2
  <2> QED BY <2>3, <2>4
<1>5. k = c
  BY <1>2, <1>3, <1>4, SeqEqual
<1> QED BY <1>5 DEF c, a, b

(* The elements of a header, as a sequence.                                *)
LEMMA ContentsFacts ==
  ASSUME HeapType, NEW h \in Headers
  PROVE  /\ Contents(h) \in Seq(HookNames \cup {NoEntry}) /\ Len(Contents(h)) = h.len
         /\ \A i \in 1..h.len : Contents(h)[i] = heap[h.array][i]
<1>1. h.len \in 0..MaxCap /\ (h.array = 0 => h.len = 0) /\ (h.array # 0 => h.array \in Arrays)
  BY HeaderFacts
<1>2. \A i \in 1..h.len : heap[h.array][i] \in HookNames \cup {NoEntry}
  BY <1>1, SlicesAssumption DEF HeapType
<1>3. Contents(h) \in [1..h.len -> HookNames \cup {NoEntry}] /\ h.len \in Nat
  BY <1>1, <1>2, SlicesAssumption DEF Contents
<1> QED BY <1>3 DEF Contents

LEMMA ListedFacts ==
  ASSUME HeapType, slice \in Headers
  PROVE  /\ Listed \in Seq(AnyHook) /\ Len(Listed) = slice.len /\ slice.len \in 0..MaxCap
         /\ \A i \in 1..slice.len : Listed[i] = Hook(heap[slice.array][i])
<1>1. /\ slice.len \in 0..MaxCap
      /\ \A i \in 1..slice.len : /\ Contents(slice)[i] = heap[slice.array][i]
                                 /\ Contents(slice)[i] \in HookNames \cup {NoEntry}
  BY ContentsFacts, HeaderFacts
<1>2. Listed \in [1..slice.len -> AnyHook] /\ slice.len \in Nat
  BY <1>1, SlicesAssumption DEF Listed, AnyHook
<1> QED BY <1>1, <1>2 DEF Listed

LEMMA ListedFactsNext ==
  ASSUME HeapType', slice' \in Headers'
  PROVE  /\ Listed' \in Seq(AnyHook) /\ Len(Listed') = slice'.len /\ slice'.len \in 0..MaxCap
         /\ \A i \in 1..slice'.len : Listed'[i] = Hook(heap'[slice'.array][i])
<1>1. slice'.len \in 0..MaxCap /\ (slice'.array # 0 => slice'.array \in Arrays)
      /\ (slice'.array = 0 => slice'.len = 0)
  BY SlicesAssumption DEF HeapType, Headers, Capacity, Arrays
<1>2. \A i \in 1..slice'.len : heap'[slice'.array][i] \in HookNames \cup {NoEntry}
  BY <1>1, SlicesAssumption DEF HeapType
<1>3. Listed' = [i \in 1..slice'.len |-> Hook(heap'[slice'.array][i])]
  BY DEF Listed, Contents
<1>4. Listed' \in [1..slice'.len -> AnyHook] /\ slice'.len \in Nat
  BY <1>1, <1>2, <1>3, SlicesAssumption DEF AnyHook
<1> QED BY <1>1, <1>3, <1>4

(* What an execution has yet to call, from the history instead of from the *)
(* array: before and after a step.                                         *)
Runs(runs) ==
  [p \in Executors |->
     IF runs[p] = NoRun THEN NoRun ELSE [type |-> "pre", todo |-> Rest(runs[p])]]

LEMMA RunningIs == /\ Inv => Running = Runs(run)
                   /\ Inv' => Running' = Runs(run')
<1>1. ASSUME Inv PROVE Running = Runs(run)
  <2> SUFFICES ASSUME NEW p \in Executors, run[p] # NoRun PROVE ToGo(run[p]) = Rest(run[p])
    BY DEF Running, Runs
  <2>1. /\ run[p].header.len \in 0..MaxCap /\ run[p].next \in 1..run[p].header.len + 1
        /\ run[p].list = [i \in 1..run[p].header.len |-> heap[run[p].header.array][i]]
    BY <1>1 DEF Inv, TypeOK, Headers, SnapshotsStable, Contents
  <2>2. \A i \in 1..run[p].header.len - run[p].next + 1 :
          /\ run[p].next + i - 1 \in 1..run[p].header.len
          /\ run[p].list[run[p].next + i - 1] = heap[run[p].header.array][run[p].next + i - 1]
    BY <2>1, SlicesAssumption
  <2> QED BY <2>2 DEF ToGo, Rest
<1>2. ASSUME Inv' PROVE Running' = Runs(run')
  <2> SUFFICES ASSUME NEW p \in Executors, run'[p] # NoRun
               PROVE  ToGo(run[p])' = Rest(run'[p])
    BY DEF Running, Runs
  <2>1. /\ run'[p].header.len \in 0..MaxCap /\ run'[p].next \in 1..run'[p].header.len + 1
        /\ run'[p].list = [i \in 1..run'[p].header.len |-> heap'[run'[p].header.array][i]]
    BY <1>2 DEF Inv, TypeOK, Headers, SnapshotsStable, Contents
  <2>2. \A i \in 1..run'[p].header.len - run'[p].next + 1 :
          /\ run'[p].next + i - 1 \in 1..run'[p].header.len
          /\ run'[p].list[run'[p].next + i - 1] = heap'[run'[p].header.array][run'[p].next + i - 1]
    BY <2>1, SlicesAssumption
  <2> QED BY <2>2 DEF ToGo, Rest
<1> QED BY <1>1, <1>2

LEMMA RegisterRefines ==
  ASSUME Inv, Inv', NEW e \in HookNames, AppendInPlace(e) \/ AppendGrow(e)
  PROVE  List!Next
<1>1. /\ HeapType /\ slice \in Headers
      /\ HeapType' /\ slice' \in Headers'
  BY DEF Inv, TypeOK, HeapType
<1>2. slice = [array |-> slice.array, len |-> slice.len] /\ slice.len \in 0..MaxCap
      /\ (slice.array = 0 => slice.len = 0)
      /\ (slice.array # 0 => slice.array \in Arrays /\ slice.len <= cap[slice.array])
  BY <1>1, HeaderFacts DEF Headers
<1>3. /\ e \notin Elements(Contents(slice)) /\ run' = run
      /\ slice'.len = slice.len + 1
      /\ heap'[slice'.array][slice.len + 1] = e
      /\ \A i \in 1..slice.len : heap'[slice'.array][i] = heap[slice.array][i]
  <2>1. CASE AppendInPlace(e)
    <3>1. slice.array \in Arrays /\ slice.len + 1 \in 1..MaxCap
      <4>1. slice.len # Capacity(slice) /\ slice.len <= Capacity(slice)
        BY <1>1, <2>1 DEF AppendInPlace, Full, Headers
      <4>2. slice.array # 0
        BY <1>2, <4>1 DEF Capacity
      <4>3. cap[slice.array] \in 0..MaxCap
        BY <1>1, <1>2, <4>2 DEF HeapType
      <4> QED BY <1>2, <4>1, <4>2, <4>3, SlicesAssumption DEF Capacity
    <3>2. /\ heap' = [heap EXCEPT ![slice.array][slice.len + 1] = e]
          /\ slice' = [array |-> slice.array, len |-> slice.len + 1]
          /\ e \notin Elements(Contents(slice)) /\ run' = run
      BY <1>2, <2>1 DEF AppendInPlace
    <3>3. heap'[slice.array] = [heap[slice.array] EXCEPT ![slice.len + 1] = e]
          /\ heap[slice.array] \in [1..MaxCap -> HookNames \cup {NoEntry}]
      BY <1>1, <3>1, <3>2 DEF HeapType
    <3>4. \A i \in 1..slice.len : i # slice.len + 1 /\ i \in 1..MaxCap
      BY <1>2, SlicesAssumption
    <3> QED BY <3>1, <3>2, <3>3, <3>4
  <2>2. CASE AppendGrow(e)
    <3> DEFINE elements == [i \in 1..MaxCap |-> IF i <= slice.len THEN heap[slice.array][i]
                              ELSE IF i = slice.len + 1 THEN e ELSE NoEntry]
    <3>1. /\ Allocate(slice.len + 1, elements)
          /\ slice' = [array |-> used + 1, len |-> slice.len + 1]
          /\ e \notin Elements(Contents(slice)) /\ run' = run
      BY <2>2 DEF AppendGrow
    <3>2. used + 1 \in Arrays /\ slice.len + 1 \in 1..MaxCap
      BY <1>1, <1>2, <3>1, SlicesAssumption DEF Allocate, HeapType, Arrays
    <3>3. heap'[used + 1] = elements
      BY <1>1, <3>1, <3>2 DEF Allocate, HeapType
    <3>4. \A i \in 1..slice.len : i <= slice.len /\ i \in 1..MaxCap
      BY <1>2, SlicesAssumption
    <3>5. ~(slice.len + 1 <= slice.len)
      BY <1>2, SlicesAssumption
    <3> QED BY <3>1, <3>2, <3>3, <3>4, <3>5
  <2> QED BY <2>1, <2>2
<1>4. /\ Listed \in Seq(AnyHook) /\ Len(Listed) = slice.len /\ slice.len \in Nat
      /\ \A i \in 1..slice.len : Listed[i] = Hook(heap[slice.array][i])
      /\ Listed' \in Seq(AnyHook) /\ Len(Listed') = slice.len + 1
      /\ \A i \in 1..slice.len + 1 : Listed'[i] = Hook(heap'[slice'.array][i])
  <2>1. /\ Listed \in Seq(AnyHook) /\ Len(Listed) = slice.len
        /\ \A i \in 1..slice.len : Listed[i] = Hook(heap[slice.array][i])
    BY <1>1, ListedFacts
  <2>2. /\ Listed' \in Seq(AnyHook) /\ Len(Listed') = slice'.len
        /\ \A i \in 1..slice'.len : Listed'[i] = Hook(heap'[slice'.array][i])
    BY <1>1, ListedFactsNext
  <2>3. slice.len \in Nat /\ slice'.len = slice.len + 1
    BY <1>2, <1>3, SlicesAssumption
  <2> QED BY <2>1, <2>2, <2>3, Zenon
<1>5. Hook(e) \in AnyHook
  BY DEF AnyHook
<1> HIDE DEF Hook
<1>6. Listed' = Append(Listed, Hook(e))
  <2>1. \A i \in 1..slice.len : Listed'[i] = Listed[i]
    <3>1. \A i \in 1..slice.len : i \in 1..slice.len + 1
      BY <1>4
    <3> QED BY <1>3, <1>4, <3>1
  <2>2. Listed'[slice.len + 1] = Hook(e)
    <3>1. slice.len + 1 \in 1..slice.len + 1
      BY <1>4
    <3> QED BY <1>3, <1>4, <3>1
  <2> DEFINE a == Listed
             b == Listed'
             x == Hook(e)
  <2>3. /\ a \in Seq(AnyHook) /\ b \in Seq(AnyHook) /\ Len(b) = Len(a) + 1 /\ Len(a) \in Nat
        /\ x \in AnyHook /\ b[Len(a) + 1] = x /\ \A i \in 1..Len(a) : b[i] = a[i]
    BY <1>4, <1>5, <2>1, <2>2
  <2> HIDE DEF a, b, x
  <2>4. b = Append(a, x)
    BY <2>3
  <2> QED BY <2>4 DEF a, b, x
<1>7. \A i \in 1..Len(Listed) : Listed[i].name # Hook(e).name
  <2>1. \A i \in 1..slice.len : heap[slice.array][i] # e
    <3>1. Len(Contents(slice)) = slice.len
          /\ \A i \in 1..slice.len : Contents(slice)[i] = heap[slice.array][i]
      BY <1>1, ContentsFacts
    <3>2. \A i \in 1..slice.len : Contents(slice)[i] \in Elements(Contents(slice))
      BY <3>1 DEF Elements
    <3> QED BY <1>3, <3>1, <3>2
  <2>2. \A x : Hook(x).name = x
    BY DEF Hook
  <2>3. \A i \in 1..slice.len : Listed[i].name = heap[slice.array][i]
    BY <1>4, <2>2, Zenon
  <2>4. Len(Listed) = slice.len /\ Hook(e).name = e
    BY <1>4, <2>2
  <2> QED BY <2>1, <2>3, <2>4, Zenon
<1>8. Running' = Running
  BY <1>3, RunningIs
<1>9. List!Register(Hook(e))
  BY <1>6, <1>7, <1>8 DEF List!Register
<1> QED BY <1>9 DEF List!Next

LEMMA RemoveRefines ==
  ASSUME Inv, Inv', NEW e \in HookNames, RemoveFrom(e)
  PROVE  List!Next
<1> DEFINE old == heap[slice.array]
           at == CHOOSE k \in 1..slice.len : old[k] = e
<1>1. /\ HeapType /\ slice \in Headers
      /\ HeapType' /\ slice' \in Headers'
  BY DEF Inv, TypeOK, HeapType
<1>2. /\ Len(Contents(slice)) = slice.len /\ slice.len \in 0..MaxCap
      /\ \A i \in 1..slice.len : Contents(slice)[i] = old[i]
  BY <1>1, ContentsFacts, HeaderFacts
<1>3. at \in 1..slice.len
  BY <1>2 DEF RemoveFrom, Elements
<1> HIDE DEF old, at
<1>4. /\ slice' = [array |-> used + 1, len |-> slice.len - 1] /\ run' = run
      /\ used + 1 \in Arrays
      /\ heap'[used + 1] = [i \in 1..MaxCap |->
                              IF i <= slice.len THEN Deleted(e)[i] ELSE NoEntry]
  BY <1>1, SlicesAssumption DEF RemoveFrom, Allocate, HeapType, Arrays
<1>5. ASSUME NEW i \in 1..slice.len - 1
      PROVE  heap'[slice'.array][i] = IF i < at THEN old[i] ELSE old[i + 1]
  <2>1. i \in 1..MaxCap /\ i <= slice.len /\ i < slice.len
    BY <1>2, SlicesAssumption
  <2>2. Deleted(e)[i] = IF i < at THEN old[i] ELSE old[i + 1]
    BY <2>1 DEF Deleted, at, old
  <2> QED BY <1>4, <2>1, <2>2
<1>6. /\ Listed \in Seq(AnyHook) /\ Len(Listed) = slice.len /\ slice.len \in Nat
      /\ \A i \in 1..slice.len : Listed[i] = Hook(old[i])
      /\ Listed' \in Seq(AnyHook) /\ Len(Listed') = slice.len - 1
      /\ \A i \in 1..slice.len - 1 : Listed'[i] = Hook(heap'[slice'.array][i])
  BY <1>1, <1>4, ListedFacts, ListedFactsNext, SlicesAssumption DEF old
<1> HIDE DEF Hook
<1>7. \A i \in 1..Len(Listed) - 1 : Listed'[i] = IF i < at THEN Listed[i] ELSE Listed[i + 1]
  <2>1. \A i \in 1..slice.len - 1 : i \in 1..slice.len /\ i + 1 \in 1..slice.len
    BY <1>6
  <2> QED BY <1>5, <1>6, <2>1
<1>8. at \in 1..Len(Listed) /\ Len(Listed') = Len(Listed) - 1
  BY <1>3, <1>6
<1>9. Listed' = SubSeq(Listed, 1, at - 1) \o SubSeq(Listed, at + 1, Len(Listed))
  BY <1>6, <1>7, <1>8, RemovedAt, Zenon
<1>10. Running' = Running
  BY <1>4, RunningIs
<1>11. List!Unregister(at)
  BY <1>9, <1>10 DEF List!Unregister
<1> QED BY <1>8, <1>11 DEF List!Next

(* What an execution has to call is a sequence of hooks.                   *)
LEMMA RestFacts ==
  ASSUME NEW r, r.header.len \in Nat, r.next \in 1..r.header.len + 1,
         r.list \in Seq(HookNames \cup {NoEntry}), Len(r.list) = r.header.len
  PROVE  /\ Rest(r) \in Seq(AnyHook) /\ Len(Rest(r)) = r.header.len - r.next + 1
         /\ \A i \in 1..r.header.len - r.next + 1 : Rest(r)[i] = Hook(r.list[r.next + i - 1])
<1>1. \A i \in 1..r.header.len - r.next + 1 : r.list[r.next + i - 1] \in HookNames \cup {NoEntry}
  <2>1. \A i \in 1..r.header.len - r.next + 1 : r.next + i - 1 \in 1..Len(r.list)
    OBVIOUS
  <2>2. \A j \in 1..Len(r.list) : r.list[j] \in HookNames \cup {NoEntry}
    OBVIOUS
  <2> QED BY <2>1, <2>2, Zenon
<1>2. Rest(r) \in [1..r.header.len - r.next + 1 -> AnyHook] /\ r.header.len - r.next + 1 \in Nat
  <2>1. \A x \in HookNames \cup {NoEntry} : Hook(x) \in AnyHook
    BY DEF AnyHook
  <2>2. r.header.len - r.next + 1 \in Nat
    OBVIOUS
  <2> HIDE DEF Hook
  <2> QED BY <1>1, <2>1, <2>2 DEF Rest
<1>3. \A i \in 1..r.header.len - r.next + 1 : Rest(r)[i] = Hook(r.list[r.next + i - 1])
  BY DEF Rest
<1> DEFINE n == r.header.len - r.next + 1
           f == Rest(r)
<1>4. n \in Nat /\ f \in [1..n -> AnyHook]
  BY <1>2
<1> HIDE DEF n, f
<1>5. f \in Seq(AnyHook) /\ Len(f) = n
  BY <1>4
<1> QED BY <1>3, <1>5 DEF n, f

LEMMA RunFacts ==
  ASSUME Inv, NEW p \in Executors, run[p] # NoRun
  PROVE  /\ run[p] = [header |-> run[p].header, next |-> run[p].next, list |-> run[p].list]
         /\ run[p].header.len \in 0..MaxCap /\ run[p].next \in 1..run[p].header.len + 1
         /\ run[p].list \in Seq(HookNames \cup {NoEntry}) /\ Len(run[p].list) = run[p].header.len
         /\ run[p].header \in [array : 0..MaxArrays, len : 0..MaxCap]
<1>1. HeapType /\ run[p].header \in Headers /\ run[p].list = Contents(run[p].header)
  BY DEF Inv, TypeOK, HeapType, SnapshotsStable
<1> QED BY <1>1, ContentsFacts DEF Inv, TypeOK, Headers

LEMMA BeginRefines ==
  ASSUME Inv, Inv', NEW p \in Executors, BeginExecution(p)
  PROVE  List!Next
<1> DEFINE r  == [header |-> slice, next |-> 1, list |-> Contents(slice)]
           at == [i \in 1..Len(Listed) |-> i]
           due == List!Due("pre", "state", "state")
<1>1. HeapType /\ slice \in Headers
  BY DEF Inv, TypeOK, HeapType
<1>2. /\ run[p] = NoRun /\ run' = [run EXCEPT ![p] = r] /\ UNCHANGED <<heap, slice>>
      /\ DOMAIN run = Executors
  BY DEF BeginExecution, Inv, TypeOK
<1>3. /\ slice.len \in 0..MaxCap /\ Contents(slice) \in Seq(HookNames \cup {NoEntry})
      /\ Len(Contents(slice)) = slice.len /\ slice \in [array : 0..MaxArrays, len : 0..MaxCap]
      /\ \A i \in 1..slice.len : Contents(slice)[i] = heap[slice.array][i]
  BY <1>1, ContentsFacts, HeaderFacts DEF Headers
<1>4. r # NoRun
  BY <1>3, NoRunAssumption, SlicesAssumption
<1>5. /\ Listed \in Seq(AnyHook) /\ Len(Listed) = slice.len /\ slice.len \in Nat
      /\ \A i \in 1..slice.len : Listed[i] = Hook(heap[slice.array][i])
  BY <1>1, ListedFacts, SlicesAssumption
<1>6. Rest(r) = Listed
  <2>1. r.header.len = slice.len /\ r.next = 1 /\ r.list = Contents(slice)
    OBVIOUS
  <2> HIDE DEF r
  <2>2. /\ Rest(r) \in Seq(AnyHook) /\ Len(Rest(r)) = slice.len
        /\ \A i \in 1..slice.len : Rest(r)[i] = Hook(Contents(slice)[i])
    <3>1. /\ r.header.len \in Nat /\ r.next \in 1..r.header.len + 1
          /\ r.list \in Seq(HookNames \cup {NoEntry}) /\ Len(r.list) = r.header.len
      BY <1>3, <1>5, <2>1
    <3>2. /\ Rest(r) \in Seq(AnyHook) /\ Len(Rest(r)) = r.header.len - r.next + 1
          /\ \A i \in 1..r.header.len - r.next + 1 : Rest(r)[i] = Hook(r.list[r.next + i - 1])
      BY <3>1, RestFacts
    <3>3. slice.len - 1 + 1 = slice.len /\ \A i \in 1..slice.len : 1 + i - 1 = i
      BY <1>5
    <3> QED BY <2>1, <3>2, <3>3
  <2>3. \A i \in 1..slice.len : Rest(r)[i] = Listed[i]
    BY <1>3, <1>5, <2>2
  <2> QED BY <1>5, <2>2, <2>3, SeqEqual
<1> HIDE DEF r
<1>7. /\ Running[p] = NoRun
      /\ Running' = [Running EXCEPT ![p] = [type |-> "pre", todo |-> Listed]]
  BY <1>2, <1>4, <1>6, RunningIs DEF Runs
<1>8. due = 1..Len(Listed)
  <2>1. \A x : Hook(x).type = "pre" /\ List!Matches(Hook(x), "state", "state")
    BY DEF Hook, List!Matches
  <2> QED BY <1>5, <2>1 DEF List!Due
<1>9. Listed' = Listed
  BY <1>2 DEF Listed, Contents
<1> HIDE DEF due
<1>10. /\ at \in [1..Len(Listed) -> due] /\ Len(Listed) \in 0..Len(Listed)
       /\ List!InTurn(at, due)
  BY <1>5, <1>8 DEF List!InTurn
<1>11. Listed = [i \in 1..Len(Listed) |-> Listed[at[i]]]
  <2>1. Listed = [i \in 1..Len(Listed) |-> Listed[i]]
    BY <1>5
  <2>2. \A i \in 1..Len(Listed) : at[i] = i
    OBVIOUS
  <2> HIDE DEF at
  <2> QED BY <2>1, <2>2
<1> HIDE DEF at
<1>12. Running' = [Running EXCEPT ![p] =
         [type |-> "pre", todo |-> [i \in 1..Len(Listed) |-> Listed[at[i]]]]]
  BY <1>7, <1>11
<1>13. List!Begin(p, "pre", "state", "state")
  BY <1>7, <1>9, <1>10, <1>12, Zenon DEF List!Begin, due
<1> QED BY <1>13 DEF List!Next

LEMMA ExecutionRefines ==
  ASSUME Inv, Inv', NEW p \in Executors, CallHook(p) \/ EndExecution(p)
  PROVE  List!Next
<1> DEFINE r == run[p]
           s == [header |-> r.header, next |-> r.next + 1, list |-> r.list]
<1>1. run[p] # NoRun /\ UNCHANGED <<heap, slice>> /\ DOMAIN run = Executors
  BY DEF CallHook, EndExecution, Inv, TypeOK
<1>2. Listed' = Listed
  BY <1>1 DEF Listed, Contents
<1>3. /\ r = [header |-> r.header, next |-> r.next, list |-> r.list]
      /\ r.header.len \in Nat /\ r.next \in 1..r.header.len + 1
      /\ r.list \in Seq(HookNames \cup {NoEntry}) /\ Len(r.list) = r.header.len
      /\ r.header \in [array : 0..MaxArrays, len : 0..MaxCap] /\ r.header.len \in 0..MaxCap
  BY <1>1, RunFacts, SlicesAssumption
<1>4. /\ Rest(r) \in Seq(AnyHook) /\ Len(Rest(r)) = r.header.len - r.next + 1
      /\ \A i \in 1..r.header.len - r.next + 1 : Rest(r)[i] = Hook(r.list[r.next + i - 1])
  BY <1>3, RestFacts
<1>5. Running = Runs(run) /\ Running' = Runs(run')
  BY RunningIs
<1>6. /\ Running[p] = [type |-> "pre", todo |-> Rest(r)]
      /\ Running[p] # NoRun
  <2>1. [type |-> "pre", todo |-> Rest(r)] # NoRun
    BY <1>4, NoRunAssumption DEF AnyHook
  <2> QED BY <1>1, <1>5, <2>1 DEF Runs
<1>7. CASE CallHook(p)
  <2>1. r.next <= r.header.len /\ run' = [run EXCEPT ![p] = s]
    <3>1. /\ run[p].next <= run[p].header.len
          /\ run' = [run EXCEPT ![p] = [run[p] EXCEPT !.next = run[p].next + 1]]
      BY <1>1, <1>7 DEF CallHook
    <3>2. [run[p] EXCEPT !.next = run[p].next + 1] = s
      BY <1>3
    <3> QED BY <3>1, <3>2
  <2>2. s # NoRun
    BY <1>3, <2>1, NoRunAssumption, SlicesAssumption
  <2>3. /\ Rest(s) \in Seq(AnyHook) /\ Len(Rest(s)) = r.header.len - r.next
        /\ \A i \in 1..r.header.len - r.next : Rest(s)[i] = Hook(r.list[r.next + i])
    <3>1. s.header = r.header /\ s.next = r.next + 1 /\ s.list = r.list
      OBVIOUS
    <3> HIDE DEF s, r
    <3>2. /\ s.header.len \in Nat /\ s.next \in 1..s.header.len + 1
          /\ s.list \in Seq(HookNames \cup {NoEntry}) /\ Len(s.list) = s.header.len
      BY <1>3, <2>1, <3>1
    <3>3. /\ Rest(s) \in Seq(AnyHook) /\ Len(Rest(s)) = s.header.len - s.next + 1
          /\ \A i \in 1..s.header.len - s.next + 1 : Rest(s)[i] = Hook(s.list[s.next + i - 1])
      BY <3>2, RestFacts
    <3>4. r.header.len \in Nat /\ r.next \in Nat
      BY <1>3
    <3>5. r.header.len - (r.next + 1) + 1 = r.header.len - r.next
          /\ \A i \in 1..r.header.len - r.next : (r.next + 1) + i - 1 = r.next + i
      BY <3>4
    <3> QED BY <3>1, <3>3, <3>5
  <2> HIDE DEF r, s
  <2>4. Rest(r) # <<>> /\ Rest(s) = Tail(Rest(r))
    <3> DEFINE a == Rest(r)
               b == Rest(s)
    <3>1. /\ a \in Seq(AnyHook) /\ b \in Seq(AnyHook) /\ Len(a) = Len(b) + 1 /\ Len(b) \in Nat
      BY <1>3, <1>4, <2>1, <2>3
    <3>2. \A i \in 1..Len(b) : b[i] = a[i + 1]
      <4>1. \A i \in 1..r.header.len - r.next :
              i + 1 \in 1..r.header.len - r.next + 1 /\ r.next + (i + 1) - 1 = r.next + i
        BY <1>3
      <4> QED BY <1>4, <2>3, <4>1
    <3> HIDE DEF a, b
    <3>3. a # <<>> /\ Tail(a) \in Seq(AnyHook) /\ Len(Tail(a)) = Len(b)
          /\ \A i \in 1..Len(b) : Tail(a)[i] = a[i + 1]
      BY <3>1
    <3>4. b = Tail(a)
      BY <3>1, <3>2, <3>3, SeqEqual
    <3> QED BY <3>3, <3>4 DEF a, b
  <2>5. Running' = [Running EXCEPT ![p] = [type |-> "pre", todo |-> Rest(s)]]
    BY <1>1, <1>5, <2>1, <2>2 DEF Runs
  <2>6. Running' = [Running EXCEPT ![p].todo = Tail(@)]
    <3>1. Tail(Running[p].todo) = Rest(s)
      BY <1>6, <2>4
    <3>2. [Running[p] EXCEPT !.todo = Rest(s)] = [type |-> "pre", todo |-> Rest(s)]
      BY <1>6
    <3> QED BY <2>5, <3>1, <3>2, Zenon
  <2>7. Running[p].todo # <<>>
    BY <1>6, <2>4
  <2>8. List!CallNext(p)
    BY <1>2, <1>6, <2>6, <2>7 DEF List!CallNext
  <2> QED BY <2>8 DEF List!Next
<1>8. CASE EndExecution(p)
  <2>1. run' = [run EXCEPT ![p] = NoRun]
    BY <1>8 DEF EndExecution
  <2>2. Running' = [Running EXCEPT ![p] = NoRun]
    BY <1>1, <1>5, <2>1 DEF Runs
  <2>3. List!End(p)
    BY <1>2, <1>6, <2>2 DEF List!End
  <2> QED BY <2>3 DEF List!Next
<1> QED BY <1>7, <1>8

LEMMA NextRefines == Inv /\ Inv' /\ [Next]_vars => [List!Next]_(List!vars)
<1> SUFFICES ASSUME Inv, Inv', [Next]_vars PROVE List!Next \/ UNCHANGED List!vars
  OBVIOUS
<1>1. CASE Clear
  <2>1. Listed' = <<>>
    BY <1>1 DEF Clear, Listed
  <2>2. Running' = Running
    BY <1>1, RunningIs DEF Clear
  <2> QED BY <2>1, <2>2 DEF List!Next, List!Clear
<1>2. CASE UNCHANGED vars
  BY <1>2 DEF vars, List!vars, Listed, Contents, Running, ToGo
<1> QED
  BY <1>1, <1>2, RegisterRefines, RemoveRefines, BeginRefines, ExecutionRefines DEF Next

LEMMA InitRefines == Init => List!Init
  BY DEF Init, List!Init, Listed, Running

(* Whatever the arrays hold, registering, removing and executing are what  *)
(* they are on a list: an execution calls the hooks that were registered   *)
(* when it began, each once and in order, although it reads the elements   *)
(* one by one after the registry has gone on.                              *)
THEOREM Refinement == Spec => ImplementsHookList
<1>1. Inv /\ [Next]_vars => [List!Next]_(List!vars)
  BY NextInv, NextRefines
<1> QED BY <1>1, AlwaysInv, InitRefines, PTL DEF Spec, ImplementsHookList, List!Spec
================================================================================
