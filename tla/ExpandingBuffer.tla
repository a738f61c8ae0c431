--------------------------- MODULE ExpandingBuffer ---------------------------
(***************************************************************************)
(* expanding_circular_buffer: a queue in a circular array that is made on  *)
(* the first push and doubled when a push finds it full.  (A push that     *)
(* finds it too large to double throws and changes nothing.)               *)
(***************************************************************************)
EXTENDS Integers, Sequences

CONSTANTS
  Elements,
  Zero,             \* what make_unique<T[]> initialises an element with
  InitialCapacity,  \* initial_capacity
  SizeMax           \* the largest size_t

ASSUME BufferAssumption ==
  /\ Zero \in Elements
  /\ InitialCapacity \in Nat \ {0}
  /\ SizeMax \in Nat
  /\ InitialCapacity <= SizeMax

VARIABLES
  capacity,   \* capacity_
  size,       \* size_
  front_pos,  \* front_pos_
  back_pos,   \* back_pos_
  storage,    \* the array storage_ points to, empty when it is null
  result      \* what pop() returned last

bufferVars == <<capacity, size, front_pos, back_pos, storage, result>>

BufferTypeOK ==
  /\ capacity \in 0 .. SizeMax
  /\ size \in 0 .. capacity
  /\ {front_pos, back_pos} \subseteq IF capacity = 0 THEN {0} ELSE 0 .. capacity - 1
  /\ storage \in [0 .. capacity - 1 -> Elements]
  /\ result \in Elements

BufferInit ==
  /\ capacity = 0
  /\ size = 0
  /\ front_pos = 0
  /\ back_pos = 0
  /\ storage = [i \in {} |-> Zero]
  /\ result = Zero

-----------------------------------------------------------------------------
\* The next position; the array wraps round after cap elements.
Advance(pos, cap) == IF pos + 1 >= cap THEN pos + 1 - cap ELSE pos + 1

\* The elements of storage from a up to b, not including b.
Slice(a, b) == [i \in 1 .. b - a |-> storage[a + i - 1]]

\* What grow() copies to the start of the new array.
Copied ==
  IF back_pos <= front_pos
  THEN Slice(front_pos, capacity) \o Slice(0, back_pos)
  ELSE Slice(front_pos, back_pos)

(***************************************************************************)
(* push(p) with an array of cap elements s, when the queue begins at f and *)
(* ends at b.                                                              *)
(***************************************************************************)
Store(p, cap, f, b, s) ==
  /\ capacity' = cap
  /\ size' = size + 1
  /\ front_pos' = f
  /\ back_pos' = Advance(b, cap)
  /\ storage' = [s EXCEPT ![b] = p]
  /\ UNCHANGED result

\* No array yet: init().
PushFirst(p) ==
  /\ size = capacity
  /\ capacity = 0
  /\ Store(p, InitialCapacity, 0, 0, [i \in 0 .. InitialCapacity - 1 |-> Zero])

GrowUnsplit(p) ==  \* fault: the split buffer is not rejoined
  /\ size = capacity
  /\ capacity > 0
  /\ capacity <= SizeMax \div 2
  /\ Store(p, 2 * capacity, 0, size,
       [i \in 0 .. 2 * capacity - 1 |-> IF i < capacity THEN storage[i] ELSE Zero])

\* A full array: grow().
PushGrowing(p) ==
  /\ size = capacity
  /\ capacity > 0
  /\ capacity <= SizeMax \div 2
  /\ Store(p, 2 * capacity, 0, Len(Copied),
       [i \in 0 .. 2 * capacity - 1 |-> IF i < Len(Copied) THEN Copied[i + 1] ELSE Zero])

\* Room left.
PushStoring(p) ==
  /\ size # capacity
  /\ Store(p, capacity, front_pos, back_pos, storage)

Pop ==
  /\ size > 0
  /\ result' = storage[front_pos]
  /\ front_pos' = Advance(front_pos, capacity)
  /\ size' = size - 1
  /\ UNCHANGED <<capacity, back_pos, storage>>

BufferNext ==
  \/ \E p \in Elements : PushFirst(p) \/ PushGrowing(p) \/ PushStoring(p)
  \/ Pop

BufferSpec == BufferInit /\ [][BufferNext]_bufferVars

-----------------------------------------------------------------------------
(***************************************************************************)
(* Properties.                                                             *)
(***************************************************************************)
\* Elements come out in the order in which they went in.
Queue == INSTANCE Fifo WITH
  queue <- [i \in 1 .. size |-> storage[(front_pos + i - 1) % capacity]],
  out <- result

ImplementsFifo == Queue!Spec
=============================================================================
