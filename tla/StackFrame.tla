----------------------------- MODULE StackFrame -----------------------------
(***************************************************************************)
(* The vocabulary shared by the two halves of the per-object stack model:  *)
(* the frame slots that generateAsm reads back from the backend            *)
(* (lifter/run_backend.cpp) and that rewriteStackObjects carves out of the *)
(* lifted stack block (bpf-tv.cpp).                                        *)
(*                                                                         *)
(* A slot's offset is relative to r10 and negative; a byte of the lifted   *)
(* stack block is numbered from the block's start, so that r10 points at   *)
(* byte Base.  A slot's alignment only matters to the access alignments    *)
(* clamped after the split, and is left out.                               *)
(***************************************************************************)
EXTENDS Integers, Sequences

CONSTANT Base   \* StackFrameTopOffset: the block's byte that r10 points at

ASSUME BaseAssumption == Base \in Nat \ {0}

(* struct StackSlot: its extent and the source line of its alloca. *)
StackSlot == [offset : Int, size : Nat \ {0}, srcLine : Nat]

(* The test of slotAt: byte c of the stack block belongs to slot s. *)
Covers(s, c) == Base + s.offset <= c /\ c < Base + s.offset + s.size

(* No slot of ss holds byte c: slotAt(c) returns null. *)
Residual(ss, c) == \A i \in 1..Len(ss) : ~ Covers(ss[i], c)

(* Two slots, or frame objects, share a byte. *)
Overlap(s, t) ==
  /\ s.offset < t.offset + t.size
  /\ t.offset < s.offset + s.size

Disjoint(ss) ==
  \A i, j \in 1..Len(ss) : i # j => ~ Overlap(ss[i], ss[j])

(***************************************************************************)
(* What the split takes for granted about the slots it is given: they lie  *)
(* strictly inside the block, below r10, and no two share a byte.  Byte 0  *)
(* is never part of a slot, because the backend refuses a frame larger     *)
(* than BPF's stack limit, which is half of StackFrameTopOffset.           *)
(***************************************************************************)
SplittableSlots(ss) ==
  /\ ss \in Seq(StackSlot)
  /\ Disjoint(ss)
  /\ \A i \in 1..Len(ss) : -Base < ss[i].offset /\ ss[i].offset < 0
=============================================================================
