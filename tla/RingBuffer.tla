------------------------------ MODULE RingBuffer ------------------------------
(***************************************************************************)
(* internal/store/ring_buffer.go: a fixed array of slots, the index of the *)
(* oldest entry, the number of entries, and a version that the engine's     *)
(* filter cache compares to decide whether its lines are still current.     *)
(* A slot stands for the pair items[i], levels[i], which the code always    *)
(* writes together.                                                         *)
(***************************************************************************)
EXTENDS Integers, Sequences

CONSTANTS
  Entry,       (* the values of a slot                                     *)
  Blank,       (* the value of a slot never written or cleared: ("", 0),
                  which is also what an empty log line stores              *)
  Requested,   (* the capacity asked for in the limits, any integer        *)
  MaxVersion   (* bound on the number of changes, for model checking       *)

ASSUME RingBufferAssumption ==
  /\ Blank \in Entry
  /\ Requested \in Int
  /\ MaxVersion \in Nat

VARIABLES items, start, size, version

vars == <<items, start, size, version>>

(* NewRingBuffer never makes an empty array: a capacity of zero or less is one. *)
Capacity == IF Requested <= 0 THEN 1 ELSE Requested

(* The slot of the k-th entry, counting from zero at the oldest. *)
Slot(k) == (start + k) % Capacity

(* ItemsWithLevels: a copy of the entries, oldest first. *)
Items == [i \in 1 .. size |-> items[Slot(i - 1)]]

Init ==
  /\ items = [k \in 0 .. Capacity - 1 |-> Blank]
  /\ start = 0
  /\ size = 0
  /\ version = 0

AppendWithLevel_StartFirst(e) ==
  /\ version < MaxVersion
  /\ start' = IF size < Capacity THEN start ELSE (start + 1) % Capacity
  /\ items' = [items EXCEPT ![(start' + size) % Capacity] = e]
  /\ size' = IF size < Capacity THEN size + 1 ELSE size
  /\ version' = version + 1

AppendWithLevel(e) ==
  /\ version < MaxVersion
  /\ items' = [items EXCEPT ![Slot(size)] = e]
  /\ version' = version + 1
  /\ \/ /\ size < Capacity
        /\ size' = size + 1
        /\ UNCHANGED start
     \/ /\ size >= Capacity
        /\ start' = (start + 1) % Capacity
        /\ UNCHANGED size

Clear_KeepsVersion ==
  /\ items' = [k \in 0 .. Capacity - 1 |-> Blank]
  /\ start' = 0
  /\ size' = 0
  /\ UNCHANGED version

Clear_KeepsStart ==
  /\ version < MaxVersion
  /\ items' = [k \in 0 .. Capacity - 1 |-> Blank]
  /\ size' = 0
  /\ version' = version + 1
  /\ UNCHANGED start

Clear ==
  /\ version < MaxVersion
  /\ items' = [k \in 0 .. Capacity - 1 |-> Blank]
  /\ start' = 0
  /\ size' = 0
  /\ version' = version + 1

Next == (\E e \in Entry : AppendWithLevel(e)) \/ Clear

Spec == Init /\ [][Next]_vars

-------------------------------------------------------------------------------
(* Type correctness: the window stays inside the array (ring_buffer.go:26 and
   :34 index it modulo its length without a bounds check), and the oldest entry
   leaves slot 0 only once the buffer is full. *)
TypeOK ==
  /\ items \in [0 .. Capacity - 1 -> Entry]
  /\ start \in 0 .. Capacity - 1
  /\ size \in 0 .. Capacity
  /\ version \in 0 .. MaxVersion
  /\ size < Capacity => start = 0

(* The buffer is the bounded log: what Items returns after any sequence of
   appends and clears is the latest Capacity entries in the order they came,
   whatever the array's rotation (ring_buffer.go:22-35, :46-55, :61-69). *)
Log == INSTANCE BoundedLog WITH log <- Items

KeepsLatestEntries == Log!Spec

(* A reader that finds the version it remembered may reuse the lines it
   remembered: no step changes what Items returns and keeps the version
   (engine/snapshot.go:51 reuses the cached lines on an equal version). *)
VersionTracksItems == [][Items' # Items => version' > version]_vars
===============================================================================
