----------------------------- MODULE FrameSlots -----------------------------
(***************************************************************************)
(* The frame read-back at the end of generateAsm (lifter/run_backend.cpp): *)
(* the finalized MachineFrameInfo of the compiled function is filtered     *)
(* into a vector of stack slots, the vector is sorted by offset, and one   *)
(* pass over neighbours erases the pairs that overlap.                     *)
(*                                                                         *)
(* The frame itself is the backend's and any value of it may be met: dead  *)
(* objects, spill slots without an alloca, allocas whose debug location    *)
(* was lost, fixed objects at or above r10, empty objects, and objects     *)
(* that share bytes.  std::sort is not stable, so objects with one offset  *)
(* come out in either order.                                               *)
(***************************************************************************)
EXTENDS StackFrame

CONSTANT Frames   \* the frame layouts considered: sequences of FrameObject

(* What the loop asks MachineFrameInfo about one object.  Line 0 is a      *)
(* debug location like any other; hasLoc tells whether there is one.       *)
FrameObject == [dead : BOOLEAN, isAlloca : BOOLEAN, hasLoc : BOOLEAN,
                offset : Int, size : Nat, srcLine : Nat]

ASSUME FramesAssumption == Frames \subseteq Seq(FrameObject)

VARIABLES
  frame,   \* the objects of MachineFrameInfo, in index order
  next,    \* index of the object the read loop looks at
  slots,   \* *slotsOut
  i,       \* position of the overlap loop in slots
  pc       \* "read", "drop" or "done"

vars == <<frame, next, slots, i, pc>>

Init ==
  /\ frame \in Frames
  /\ next = 1
  /\ slots = << >>
  /\ i = 1
  /\ pc = "read"

(* Mutation of IsSlot: empty objects pass.                                 *)
IsSlotOrEmpty(o) ==
  /\ ~ o.dead /\ o.isAlloca /\ o.hasLoc
  /\ o.offset < 0 /\ Base + o.offset >= 0

(* The conditions under which an object becomes a slot. *)
IsSlot(o) ==
  /\ ~ o.dead
  /\ o.isAlloca
  /\ o.hasLoc
  /\ o.size > 0
  /\ o.offset < 0
  /\ Base + o.offset >= 0

SlotOf(o) == [offset |-> o.offset, size |-> o.size, srcLine |-> o.srcLine]

(* Mutation of ReadObject: spill slots are taken for allocas.              *)
ReadLive ==
  /\ pc = "read"
  /\ next <= Len(frame)
  /\ slots' = IF frame[next].dead THEN slots ELSE Append(slots, SlotOf(frame[next]))
  /\ next' = next + 1
  /\ UNCHANGED <<frame, i, pc>>

ReadObject ==
  /\ pc = "read"
  /\ next <= Len(frame)
  /\ slots' = IF IsSlot(frame[next])
                THEN Append(slots, SlotOf(frame[next]))
                ELSE slots
  /\ next' = next + 1
  /\ UNCHANGED <<frame, i, pc>>

(* The orders std::sort may leave a vector of n elements in. *)
Orders(n) == {p \in [1..n -> 1..n] : \A a, b \in 1..n : p[a] = p[b] => a = b}

SortedByOffset(ss) ==
  \A a, b \in 1..Len(ss) : a < b => ss[a].offset <= ss[b].offset

Sort ==
  /\ pc = "read"
  /\ next > Len(frame)
  /\ \E p \in Orders(Len(slots)) :
       /\ slots' = [a \in 1..Len(slots) |-> slots[p[a]]]
       /\ SortedByOffset(slots')
  /\ pc' = "drop"
  /\ UNCHANGED <<frame, next, i>>

(* Mutation of RunsIntoNext: one shared byte is let through.               *)
RunsFarIntoNext(ss, a) == ss[a].offset + ss[a].size > ss[a + 1].offset + 1

(* The loop's test: slot i reaches past the start of its neighbour. *)
RunsIntoNext(ss, a) == ss[a].offset + ss[a].size > ss[a + 1].offset

(* slotsOut->erase(begin + i, begin + i + 2) *)
ErasePair(ss, a) ==
  [b \in 1..(Len(ss) - 2) |-> IF b < a THEN ss[b] ELSE ss[b + 2]]

(* Mutation of DropPair: only the second slot of the pair goes.            *)
DropSecond ==
  /\ pc = "drop"
  /\ i + 1 <= Len(slots)
  /\ RunsIntoNext(slots, i)
  /\ slots' = [b \in 1..(Len(slots) - 1) |-> IF b <= i THEN slots[b] ELSE slots[b + 1]]
  /\ UNCHANGED <<frame, next, i, pc>>

DropPair ==
  /\ pc = "drop"
  /\ i + 1 <= Len(slots)
  /\ RunsIntoNext(slots, i)
  /\ slots' = ErasePair(slots, i)
  /\ UNCHANGED <<frame, next, i, pc>>

KeepSlot ==
  /\ pc = "drop"
  /\ i + 1 <= Len(slots)
  /\ ~ RunsIntoNext(slots, i)
  /\ i' = i + 1
  /\ UNCHANGED <<frame, next, slots, pc>>

(* Mutation of Finish: the loop is left one position too late.             *)
FinishLate ==
  /\ pc = "drop"
  /\ i > Len(slots)
  /\ pc' = "done"
  /\ UNCHANGED <<frame, next, slots, i>>

Finish ==
  /\ pc = "drop"
  /\ i + 1 > Len(slots)
  /\ pc' = "done"
  /\ UNCHANGED <<frame, next, slots, i>>

Next == ReadObject \/ Sort \/ DropPair \/ KeepSlot \/ Finish

Spec == Init /\ [][Next]_vars

(* generateAsm is straight-line code on one thread: it keeps running. *)
FairSpec == Spec /\ WF_vars(Next)

-----------------------------------------------------------------------------
TypeOK ==
  /\ frame \in Seq(FrameObject)
  /\ next \in 1..(Len(frame) + 1)
  /\ slots \in Seq(StackSlot)
  /\ i \in Nat \ {0}
  /\ pc \in {"read", "drop", "done"}

(* The slots handed to the driver never share a byte, although the loop    *)
(* compares neighbours only, erases two at a time and does not look back:  *)
(* slotAt's answer does not depend on the order of the vector.             *)
KeptDisjoint == pc = "done" => Disjoint(slots)

(* The backend kept the frame within BPF's stack limit.                    *)
WithinStackLimit ==
  \A n \in 1..Len(frame) : IsSlot(frame[n]) => -Base < frame[n].offset

(* What the driver's rewrite relies on, provided the backend kept to its   *)
(* own limit: the precondition of module StackSplit.                       *)
FitForSplit == pc = "done" /\ WithinStackLimit => SplittableSlots(slots)

(* Every slot handed out is a live, located alloca of the frame that       *)
(* starts inside the part of the lifted block below r10, and no object is  *)
(* reported twice.                                                         *)
KeptReported ==
  pc = "done" =>
    \E f \in [1..Len(slots) -> 1..Len(frame)] :
      /\ \A a, b \in 1..Len(slots) : f[a] = f[b] => a = b
      /\ \A a \in 1..Len(slots) :
           IsSlot(frame[f[a]]) /\ slots[a] = SlotOf(frame[f[a]])

(* The frame's objects that pass the filter and overlap object a. *)
Rivals(a) ==
  {b \in 1..Len(frame) :
     b # a /\ IsSlot(frame[b]) /\ Overlap(frame[a], frame[b])}

Kept(a) == \E s \in 1..Len(slots) : slots[s] = SlotOf(frame[a])

(* "slots whose alloca ... overlap another slot ... are dropped", for one  *)
(* merged pair at a time: if no object overlaps more than one other, the   *)
(* vector ends with exactly the slots that overlap none.                   *)
PairsDropped ==
  /\ pc = "done"
  /\ \A a \in 1..Len(frame) : \A b, c \in Rivals(a) : b = c
  => \A a \in 1..Len(frame) :
       IsSlot(frame[a]) => (Kept(a) <=> Rivals(a) = {})

(* The read-back ends, although the overlap loop does not advance when it  *)
(* erases.                                                                 *)
Terminates == <>(pc = "done")
=============================================================================
