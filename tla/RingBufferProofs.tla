--------------------------- MODULE RingBufferProofs ---------------------------
(***************************************************************************)
(* Proofs about RingBuffer, for every capacity and every set of entries.    *)
(***************************************************************************)
EXTENDS RingBuffer, SequenceTheorems, TLAPS

LEMMA CapacityPositive == Capacity \in Nat \ {0}
BY RingBufferAssumption DEF Capacity

(* Reading the array modulo its length wraps at most once. *)
LEMMA WrapOnce ==
  ASSUME NEW c \in Nat \ {0}, NEW s \in 0 .. c - 1, NEW k \in 0 .. c
  PROVE  /\ (s + k) % c = IF s + k < c THEN s + k ELSE s + k - c
         /\ (s + k) % c \in 0 .. c - 1
<1>1. (s + k) % c = IF s + k < c THEN s + k ELSE s + k - c
  OBVIOUS
<1>2. QED
  BY <1>1

LEMMA WrapAtCapacity ==
  ASSUME NEW s \in 0 .. Capacity - 1, NEW k \in 0 .. Capacity
  PROVE  /\ (s + k) % Capacity = IF s + k < Capacity THEN s + k ELSE s + k - Capacity
         /\ (s + k) % Capacity \in 0 .. Capacity - 1
BY WrapOnce, CapacityPositive, Zenon

(* Where the k-th entry is, and that it is inside the array. *)
LEMMA SlotValue ==
  ASSUME TypeOK, NEW k \in 0 .. Capacity
  PROVE  /\ Slot(k) = IF start + k < Capacity THEN start + k ELSE start + k - Capacity
         /\ Slot(k) \in 0 .. Capacity - 1
BY WrapAtCapacity DEF TypeOK, Slot

(* The window after an append to a full buffer starts one slot further. *)
LEMMA NextStart ==
  ASSUME TypeOK
  PROVE  /\ (start + 1) % Capacity = IF start + 1 < Capacity THEN start + 1 ELSE 0
         /\ (start + 1) % Capacity \in 0 .. Capacity - 1
<1>1. start \in 0 .. Capacity - 1 /\ 1 \in 0 .. Capacity
  BY CapacityPositive DEF TypeOK
<1>2. /\ (start + 1) % Capacity = IF start + 1 < Capacity THEN start + 1 ELSE start + 1 - Capacity
      /\ (start + 1) % Capacity \in 0 .. Capacity - 1
  BY <1>1, WrapAtCapacity, Zenon
<1>3. start + 1 - Capacity = 0 \/ start + 1 < Capacity
  BY <1>1, CapacityPositive
<1>4. QED
  BY <1>2, <1>3

LEMMA InitType == Init => TypeOK
BY CapacityPositive, RingBufferAssumption DEF Init, TypeOK

LEMMA StepType == TypeOK /\ [Next]_vars => TypeOK'
<1> SUFFICES ASSUME TypeOK, [Next]_vars PROVE TypeOK'
  OBVIOUS
<1> USE CapacityPositive DEF TypeOK
<1>1. ASSUME NEW e \in Entry, AppendWithLevel(e) PROVE TypeOK'
  <2>1. items' \in [0 .. Capacity - 1 -> Entry]
    BY <1>1, SlotValue DEF AppendWithLevel
  <2>2. version' \in 0 .. MaxVersion
    BY <1>1, RingBufferAssumption DEF AppendWithLevel
  <2>3. CASE size < Capacity
    BY <1>1, <2>1, <2>2, <2>3 DEF AppendWithLevel
  <2>4. CASE size >= Capacity
    <3>1. start' = (start + 1) % Capacity /\ size' = size
      BY <1>1, <2>4 DEF AppendWithLevel
    <3>2. QED
      BY <2>1, <2>2, <2>4, <3>1, NextStart
  <2>5. QED
    BY <2>3, <2>4
<1>2. CASE Clear
  BY <1>2, RingBufferAssumption DEF Clear
<1>3. CASE UNCHANGED vars
  BY <1>3 DEF vars
<1>4. QED
  BY <1>1, <1>2, <1>3 DEF Next

(* The array index and the window never leave the array, and the oldest entry
   stays in slot 0 until the buffer is full. *)
THEOREM TypeCorrect == Spec => []TypeOK
BY InitType, StepType, PTL DEF Spec

-------------------------------------------------------------------------------
(* What a reader copies out, entry by entry. *)
WellFormedItems ==
  /\ Items \in Seq(Entry)
  /\ Len(Items) = size
  /\ \A i \in 1 .. size : Items[i] = items[Slot(i - 1)]

LEMMA ItemsSeq == TypeOK => WellFormedItems
<1> SUFFICES ASSUME TypeOK PROVE WellFormedItems
  OBVIOUS
<1>1. \A i \in 1 .. size : items[Slot(i - 1)] \in Entry
  BY SlotValue, CapacityPositive DEF TypeOK
<1>2. size \in Nat
  BY CapacityPositive DEF TypeOK
<1>3. QED
  BY <1>1, <1>2 DEF Items, WellFormedItems

LEMMA ItemsSeqNext == TypeOK' => WellFormedItems'
BY ItemsSeq, PTL

(* An append to the array is an append to the log that forgets the oldest
   entry when there is no room. *)
LEMMA AppendRefines ==
  ASSUME TypeOK, TypeOK', NEW e \in Entry, AppendWithLevel(e)
  PROVE  Items' = Log!Latest(Append(Items, e))
<1> DEFINE longer == Append(Items, e)
<1> USE CapacityPositive
<1>1. /\ longer \in Seq(Entry)
      /\ Len(longer) = size + 1
      /\ \A i \in 1 .. size : longer[i] = items[Slot(i - 1)]
      /\ longer[size + 1] = e
  BY ItemsSeq DEF WellFormedItems
<1>2. /\ Items' \in Seq(Entry)
      /\ Len(Items') = size'
      /\ \A i \in 1 .. size' : Items'[i] = items'[Slot(i - 1)']
  BY ItemsSeqNext DEF WellFormedItems
<1>3. /\ Slot(size) \in 0 .. Capacity - 1
      /\ items' = [items EXCEPT ![Slot(size)] = e]
      /\ size \in Nat
  BY SlotValue DEF AppendWithLevel, TypeOK
<1>4. CASE size < Capacity
  <2>1. start = 0 /\ start' = 0 /\ size' = size + 1
    BY <1>4 DEF AppendWithLevel, TypeOK
  <2>2. ASSUME NEW k \in 0 .. size PROVE Slot(k) = k /\ Slot(k)' = k
    <3>1. 0 \in 0 .. Capacity - 1 /\ k \in 0 .. Capacity /\ k < Capacity
      BY <1>3, <1>4, CapacityPositive
    <3>2. (0 + k) % Capacity = IF 0 + k < Capacity THEN 0 + k ELSE 0 + k - Capacity
      BY <3>1, WrapAtCapacity, Zenon
    <3>3. 0 + k = k /\ 0 + k < Capacity
      BY <3>1, CapacityPositive
    <3>4. (0 + k) % Capacity = k
      BY <3>2, <3>3
    <3>5. QED
      BY <2>1, <3>4 DEF Slot
  <2>3. ASSUME NEW i \in 1 .. size + 1 PROVE Items'[i] = longer[i]
    <3>1. i - 1 \in 0 .. size /\ i \in 1 .. size'
      BY <1>3, <2>1
    <3>2. Items'[i] = items'[i - 1]
      BY <1>2, <2>2, <3>1
    <3>3. Slot(size) = size
      BY <1>3, <2>2
    <3>4. CASE i = size + 1
      BY <1>1, <1>3, <3>2, <3>3, <3>4 DEF TypeOK
    <3>5. CASE i \in 1 .. size
      <4>1. longer[i] = items[i - 1]
        BY <1>1, <2>2, <3>1, <3>5
      <4>2. items'[i - 1] = items[i - 1]
        BY <1>3, <1>4, <3>1, <3>3, <3>5 DEF TypeOK
      <4>3. QED
        BY <3>2, <4>1, <4>2
    <3>6. i = size + 1 \/ i \in 1 .. size
      BY <1>3
    <3>7. QED
      BY <3>4, <3>5, <3>6
  <2>4. Items' = longer
    BY <1>1, <1>2, <2>1, <2>3, SeqEqual
  <2>5. Log!Latest(longer) = longer
    BY <1>1, <1>4 DEF Log!Latest, TypeOK
  <2>6. QED
    BY <2>4, <2>5
<1>5. CASE size >= Capacity
  <2>1. size = Capacity /\ size' = Capacity /\ start' = (start + 1) % Capacity
    BY <1>5 DEF AppendWithLevel, TypeOK
  <2>2. Slot(size) = start
    BY <2>1, SlotValue DEF TypeOK
  <2>3. /\ Tail(longer) \in Seq(Entry)
        /\ Len(Tail(longer)) = Capacity
        /\ \A i \in 1 .. Capacity : Tail(longer)[i] = longer[i + 1]
    BY <1>1, <2>1
  <2>4. ASSUME NEW i \in 1 .. Capacity
        PROVE  Items'[i] = longer[i + 1]
    <3>1. i - 1 \in 0 .. Capacity /\ i \in 0 .. Capacity
      OBVIOUS
    <3>2. Slot(i - 1)' = IF start' + (i - 1) < Capacity
                         THEN start' + (i - 1) ELSE start' + (i - 1) - Capacity
      <4>1. start' \in 0 .. Capacity - 1
        BY DEF TypeOK
      <4>2. Slot(i - 1)' = (start' + (i - 1)) % Capacity
        BY DEF Slot
      <4>3. QED
        BY <3>1, <4>1, <4>2, WrapAtCapacity
    <3>3. Slot(i) = IF start + i < Capacity THEN start + i ELSE start + i - Capacity
      BY <3>1, SlotValue
    <3>4. Slot(i - 1)' = Slot(i)
      BY <2>1, <3>2, <3>3, NextStart DEF TypeOK
    <3>5. Slot(i) \in 0 .. Capacity - 1
      BY <3>1, SlotValue
    <3>6. Items'[i] = items'[Slot(i)]
      BY <1>2, <2>1, <3>4
    <3>7. CASE i = Capacity
      <4>1. Slot(i) = start
        BY <2>1, <2>2, <3>7
      <4>2. QED
        BY <1>1, <1>3, <2>1, <2>2, <3>5, <3>6, <3>7, <4>1 DEF TypeOK
    <3>8. CASE i < Capacity
      <4>1. Slot(i) # start
        BY <3>3, <3>8 DEF TypeOK
      <4>2. items'[Slot(i)] = items[Slot(i)]
        BY <1>3, <2>2, <3>5, <4>1 DEF TypeOK
      <4>3. longer[i + 1] = items[Slot(i)]
        BY <1>1, <2>1, <3>8
      <4>4. QED
        BY <3>6, <4>2, <4>3
    <3>9. i = Capacity \/ i < Capacity
      BY CapacityPositive
    <3>10. QED
      BY <3>7, <3>8, <3>9
  <2>5. Items' = Tail(longer)
    BY <1>2, <2>1, <2>3, <2>4, SeqEqual
  <2>6. Log!Latest(longer) = Tail(longer)
    BY <1>1, <2>1 DEF Log!Latest
  <2>7. QED
    BY <2>5, <2>6
<1>6. QED
  BY <1>4, <1>5 DEF TypeOK

(* The array with its rotating window implements the bounded log: what a reader
   copies out is always the latest Capacity entries since the last clear. *)
THEOREM ImplementsBoundedLog == Spec => KeepsLatestEntries
<1>1. Init => Log!Init
  <2> SUFFICES ASSUME Init PROVE Items = << >>
    BY DEF Log!Init
  <2>1. Items \in Seq(Entry) /\ Len(Items) = 0
    BY InitType, ItemsSeq DEF Init, WellFormedItems
  <2>2. QED
    BY <2>1
<1>2. TypeOK /\ TypeOK' /\ [Next]_vars => [Log!Next]_Items
  <2> SUFFICES ASSUME TypeOK, TypeOK', [Next]_vars PROVE [Log!Next]_Items
    OBVIOUS
  <2>1. ASSUME NEW e \in Entry, AppendWithLevel(e) PROVE Log!Next
    BY <2>1, AppendRefines DEF Log!Next, Log!AppendEntry
  <2>2. CASE Clear
    <3>1. Items' \in Seq(Entry) /\ Len(Items') = 0
      BY <2>2, ItemsSeqNext DEF Clear, WellFormedItems
    <3>2. Items' = << >>
      BY <3>1
    <3>3. QED
      BY <3>2 DEF Log!Next, Log!Clear
  <2>3. CASE UNCHANGED vars
    BY <2>3 DEF vars, Items, Slot
  <2>4. QED
    BY <2>1, <2>2, <2>3 DEF Next
<1>3. QED
  BY <1>1, <1>2, TypeCorrect, PTL DEF Spec, KeepsLatestEntries, Log!Spec

(* Equal versions mean equal contents from one step to the next: every step
   that changes what a reader would copy out raises the version. *)
THEOREM VersionIsFresh == Spec => VersionTracksItems
<1>1. TypeOK /\ [Next]_vars => [Items' # Items => version' > version]_vars
  <2> SUFFICES ASSUME TypeOK, [Next]_vars
               PROVE  [Items' # Items => version' > version]_vars
    OBVIOUS
  <2>1. ASSUME NEW e \in Entry, AppendWithLevel(e) PROVE version' > version
    BY <2>1, RingBufferAssumption DEF AppendWithLevel, TypeOK
  <2>2. CASE Clear
    BY <2>2, RingBufferAssumption DEF Clear, TypeOK
  <2>3. CASE UNCHANGED vars
    BY <2>3
  <2>4. QED
    BY <2>1, <2>2, <2>3 DEF Next
<1>2. QED
  BY <1>1, TypeCorrect, PTL DEF Spec, VersionTracksItems
===============================================================================
