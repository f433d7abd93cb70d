---------------------------- MODULE NetmapRing ----------------------------
(***************************************************************************)
(* The arithmetic of a netmap ring, as net/netmap_user.h defines it for    *)
(* the program (manager.cpp calls nm_ring_space and nm_ring_next).  A ring *)
(* has NumSlots slots.  The program owns the slots head, head+1, ...,      *)
(* tail-1 (modulo NumSlots); the kernel owns the others and only moves     *)
(* tail, inside poll().  The code keeps cur equal to head, so cur is left  *)
(* out.                                                                    *)
(***************************************************************************)
EXTENDS Integers

CONSTANT NumSlots       \* slots of a ring (2048 in the code)

ASSUME NumSlotsAssumption == NumSlots \in Nat /\ NumSlots >= 2

Slots == 0 .. NumSlots - 1

nm_ring_next(s) == IF s + 1 = NumSlots THEN 0 ELSE s + 1

nm_ring_space(h, t) == IF t >= h THEN t - h ELSE t - h + NumSlots

(* Slot s is one of the slots the program owns. *)
UserSlot(h, t, s) == nm_ring_space(h, s) < nm_ring_space(h, t)
=============================================================================
