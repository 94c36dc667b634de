---------------------------- MODULE MCStackSplit ----------------------------
(***************************************************************************)
(* A stack block whose r10 is byte 6, with up to two slots below it, and   *)
(* functions with up to MaxUses uses of the frame's address.  The offsets  *)
(* are those the lifted code shows: r10 itself (+6), the slots' own        *)
(* distances below it, and a step of one byte.                             *)
(***************************************************************************)
EXTENDS StackSplit

MCBase == 6

Slot(off, sz, ln) == [offset |-> off, size |-> sz, srcLine |-> ln]

MCSlots ==
  { << >>,
    << Slot(-2, 2, 1) >>,
    << Slot(-5, 2, 1) >>,
    << Slot(-4, 2, 1), Slot(-2, 2, 2) >>,
    << Slot(-5, 1, 1), Slot(-3, 2, 2) >> }

MCOffsets == {-4, -2, 1, 6}
=============================================================================
