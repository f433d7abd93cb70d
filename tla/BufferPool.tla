---------------------------- MODULE BufferPool ----------------------------
(***************************************************************************)
(* What the data path promises about netmap buffers, without rings, queues *)
(* or threads: a buffer belongs to a slot of a NIC ring, to the free list  *)
(* or to a frame under way, and buffers change owner by swaps.  A frame    *)
(* may also be dropped without its buffer being reclaimed; such a buffer   *)
(* is lost for good.                                                       *)
(***************************************************************************)
CONSTANTS InitNic, InitPool     \* buffers of the slots, extra buffers

VARIABLES nic, free, frames

PoolInit == nic = InitNic /\ free = InitPool /\ frames = {}

(* A received buffer b is taken out of its slot against a free one.        *)
Receive(b, c) ==
  /\ nic' = (nic \ {b}) \cup {c}
  /\ free' = free \ {c}
  /\ frames' = frames \cup {b}

(* The buffer of a frame goes into a slot, the slot's buffer becomes free. *)
Send(b, c) ==
  /\ nic' = (nic \ {c}) \cup {b}
  /\ free' = free \cup {c}
  /\ frames' = frames \ {b}

Discard(b) == nic' = nic /\ free' = free \cup {b} /\ frames' = frames \ {b}

Lose(S) == nic' = nic /\ free' = free /\ frames' = frames \ S

PoolNext ==
  \/ \E b \in nic, c \in free : Receive(b, c)
  \/ \E b \in frames, c \in nic : Send(b, c)
  \/ \E b \in frames : Discard(b)
  \/ \E S \in SUBSET frames : Lose(S)

PoolSpec == PoolInit /\ [][PoolNext]_<<nic, free, frames>>
=============================================================================
