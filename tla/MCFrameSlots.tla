---------------------------- MODULE MCFrameSlots ----------------------------
(***************************************************************************)
(* Small frames for FrameSlots: up to three objects, the ones that pass    *)
(* the filter in every position and extent of a six byte frame, plus one   *)
(* object of each kind the filter refuses.                                 *)
(***************************************************************************)
EXTENDS FrameSlots

MCBase == 6

Obj(off, sz, ln) == [dead |-> FALSE, isAlloca |-> TRUE, hasLoc |-> TRUE,
                     offset |-> off, size |-> sz, srcLine |-> ln]

(* Allocas that stay below r10: PEI lays locals out downwards from it. *)
Allocas(ln) == {Obj(off, sz, ln) : off \in -6..-1, sz \in 1..4}

Refused ==
  { [Obj(-3, 2, 9) EXCEPT !.dead = TRUE],
    [Obj(-3, 2, 9) EXCEPT !.isAlloca = FALSE],
    [Obj(-3, 2, 9) EXCEPT !.hasLoc = FALSE],
    Obj(-3, 0, 9),
    Obj(0, 2, 9),
    Obj(-7, 2, 9) }

BelowTop(o) == o.offset + o.size <= 0 \/ o \in Refused

Choice(ln) == {o \in Allocas(ln) \cup Refused : BelowTop(o)}

MCFrames ==
  {<< >>} \cup {<<a>> : a \in Choice(1)}
  \cup (Choice(1) \X Choice(2)) \cup (Choice(1) \X Choice(2) \X Choice(3))
=============================================================================
