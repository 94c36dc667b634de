-------------------------- MODULE StackSplitProofs --------------------------
(***************************************************************************)
(* For every slot vector that FrameSlots can hand out, every set of        *)
(* offsets and access widths and any number of uses: what                  *)
(* rewriteStackObjects leaves on the residual block starts outside every   *)
(* slot, and what it moves goes to the byte the machine would touch.       *)
(*                                                                         *)
(* The invariant carries the classifiers' calling convention through the   *)
(* recursion: every activation, of whichever of the three functions, works *)
(* on an offset that no slot covers.                                       *)
(***************************************************************************)
EXTENDS StackSplit, SequenceTheorems, TLAPS

(* What is left of a sequence, used as a stack, when its last element goes. *)
LEMMA PopProperties ==
  ASSUME NEW S, NEW seq \in Seq(S), seq # << >>
  PROVE  /\ SubSeq(seq, 1, Len(seq) - 1) \in Seq(S)
         /\ Len(SubSeq(seq, 1, Len(seq) - 1)) = Len(seq) - 1
         /\ \A n \in 1..(Len(seq) - 1) : SubSeq(seq, 1, Len(seq) - 1)[n] = seq[n]
<1>1. PICK m : m = Len(seq) - 1 /\ m \in Nat /\ Len(seq) \in Nat
  BY EmptySeq
<1>2. \A n \in 1..m : seq[n] \in S
  BY <1>1, ElementOfSeq
<1>3. PICK rest : rest = SubSeq(seq, 1, m)
  OBVIOUS
<1>4. /\ rest \in Seq(S) /\ Len(rest) = IF 1 <= m THEN m - 1 + 1 ELSE 0
      /\ \A n \in 1..(m - 1 + 1) : rest[n] = seq[1 + n - 1]
  BY <1>1, <1>2, <1>3, SubSeqProperties
<1>5. Len(rest) = m /\ \A n \in 1..m : rest[n] = seq[n]
  BY <1>1, <1>4
<1> QED
  BY <1>1, <1>3, <1>4, <1>5

(* The convention of classifyPtr, classifyIntUses and classifyAddr.        *)
CallsResidual == \A n \in 1..Len(calls) : Residual(slots, calls[n].c)

(* One plan sends its address to the byte of the slot that it denotes.     *)
PlanExact(p) ==
  /\ p.slot \in 1..Len(slots)
  /\ p.rel \in 0..(slots[p.slot].size - 1)
  /\ Base + slots[p.slot].offset + p.rel = p.at

IInv ==
  /\ TypeOK
  /\ CallsResidual
  /\ ResidualOutsideSlots
  /\ \A p \in plans : PlanExact(p)
  /\ pc # "split" => objs = {}
  /\ pc \in {"entry", "apply", "split"} => calls = << >>

-----------------------------------------------------------------------------
(* The slot vector of a run is one the assumption speaks of.               *)
LEMMA SlotFacts ==
  ASSUME TypeOK
  PROVE  /\ Len(slots) \in Nat
         /\ Disjoint(slots)
         /\ \A s \in 1..Len(slots) :
              /\ slots[s] \in StackSlot
              /\ -Base < slots[s].offset
  BY SlotChoicesAssumption, LenProperties DEF TypeOK, SplittableSlots

(* The block's first byte, where the stack pointer starts, is in no slot.  *)
LEMMA BlockStartResidual ==
  ASSUME TypeOK PROVE Residual(slots, 0)
  BY SlotFacts, BaseAssumption DEF Residual, Covers, StackSlot

(* The activation on top of the call stack.                                *)
LEMMA TopFacts ==
  ASSUME TypeOK, CallsResidual, calls # << >>
  PROVE  /\ Len(calls) \in 1..Len(calls) /\ Len(calls) \in Nat
         /\ Top \in Activation
         /\ Residual(slots, Top.c)
<1>1. calls \in Seq(Activation)
  BY DEF TypeOK
<1>2. Len(calls) \in Nat \ {0}
  BY <1>1, EmptySeq
<1>3. Len(calls) \in 1..Len(calls)
  BY <1>2
<1>4. calls[Len(calls)] \in Activation
  BY <1>1, <1>3, ElementOfSeq
<1> QED
  BY <1>2, <1>3, <1>4 DEF Top, CallsResidual

(* A recursive call on an offset outside every slot keeps the convention.  *)
LEMMA DescendStep ==
  ASSUME IInv, pc = "classify", uses' \in 0..MaxUses,
         NEW sort \in {"ptr", "int", "sum"}, NEW c \in Int,
         Residual(slots, c), Descend(sort, c)
  PROVE  IInv'
<1> DEFINE a == [of |-> sort, c |-> c]
<1>1. a \in Activation /\ calls \in Seq(Activation)
  BY DEF Activation, IInv, TypeOK
<1>2. /\ calls' \in Seq(Activation)
      /\ Len(calls') = Len(calls) + 1
      /\ \A n \in 1..Len(calls) : calls'[n] = calls[n]
      /\ calls'[Len(calls) + 1] = a
  BY <1>1, AppendProperties DEF Descend
<1>3. Len(calls) \in Nat
  BY <1>1, LenProperties
<1>4. CallsResidual'
  <2> SUFFICES ASSUME NEW n \in 1..Len(calls') PROVE Residual(slots, calls'[n].c)
    BY DEF CallsResidual, Descend
  <2>1. n \in 1..Len(calls) \/ n = Len(calls) + 1
    BY <1>2, <1>3
  <2> QED
    BY <1>2, <2>1 DEF IInv, CallsResidual
<1> QED
  BY <1>2, <1>4 DEF Descend, IInv, TypeOK, ResidualOutsideSlots, PlanExact

(* A plan for an address that a slot covers is exact.                      *)
LEMMA AddPlanStep ==
  ASSUME IInv, pc = "classify", uses' \in 0..MaxUses,
         NEW kind \in {"gep", "varGep", "int"}, NEW c \in Int,
         NEW s \in 1..Len(slots), IsSlotAt(c, s), AddPlan(kind, c, s)
  PROVE  IInv'
<1> DEFINE p == [kind |-> kind, at |-> c, slot |-> s,
                 rel |-> c - (Base + slots[s].offset)]
<1>1. slots[s] \in StackSlot /\ Covers(slots[s], c) /\ s \in Nat
  BY SlotFacts DEF IInv, IsSlotAt
<1>2. p \in Plan /\ PlanExact(p)
  BY <1>1, BaseAssumption DEF Plan, PlanExact, Covers, StackSlot
<1> HIDE DEF p
<1>3. plans' = plans \cup {p} /\ UNCHANGED <<slots, calls, accesses, stored, objs, pc>>
  BY DEF AddPlan, p
<1> QED
  BY <1>2, <1>3
    DEF IInv, TypeOK, CallsResidual, ResidualOutsideSlots, PlanExact

(* An access through a residual pointer.                                   *)
LEMMA TouchStep ==
  ASSUME IInv, pc = "classify", uses' \in 0..MaxUses, calls # << >>,
         NEW len \in Lengths, Touch(len), stored' \subseteq Int
  PROVE  IInv'
<1>1. Top.c \in Int /\ Residual(slots, Top.c)
  BY TopFacts DEF IInv, Activation
<1>2. [at |-> Top.c, len |-> len] \in Access
  BY <1>1, LengthsAssumption DEF Access
<1> QED
  BY <1>1, <1>2
    DEF Touch, IInv, TypeOK, CallsResidual, ResidualOutsideSlots, PlanExact

(* bail, or a user that needs no attention.                                *)
LEMMA BailStep ==
  ASSUME IInv, pc = "classify", uses' \in 0..MaxUses, Bail \/ Accept
  PROVE  IInv'
  BY DEF Bail, Accept, IInv, TypeOK, CallsResidual, ResidualOutsideSlots, PlanExact

-----------------------------------------------------------------------------
LEMMA InitInv == Init => IInv
<1> SUFFICES ASSUME Init PROVE IInv
  OBVIOUS
<1>1. calls \in Seq(Activation) /\ Len(calls) = 0
  BY EmptySeq DEF Init
<1> QED
  BY <1>1, MaxUsesAssumption
    DEF Init, IInv, TypeOK, CallsResidual, ResidualOutsideSlots

(* Every user classified, every return, and the split itself.              *)
LEMMA InvStep == IInv /\ [Next]_vars => IInv'
<1> SUFFICES ASSUME IInv, [Next]_vars PROVE IInv'
  OBVIOUS
<1>a. TypeOK /\ CallsResidual
  BY DEF IInv
<1>b. ASSUME NEW sort, Visiting(sort)
      PROVE  /\ pc = "classify" /\ calls # << >> /\ Top.of = sort
             /\ uses' \in 0..MaxUses
             /\ Top.c \in Int /\ Residual(slots, Top.c)
  BY <1>a, <1>b, TopFacts, MaxUsesAssumption DEF Visiting, Activation, TypeOK
<1>1. ASSUME NEW k \in Offsets, ConstGep(k) PROVE IInv'
  <2>1. Visiting("ptr") /\ Top.c + k \in Int
    BY <1>1, <1>b, OffsetsAssumption DEF ConstGep
  <2> QED
    BY <1>1, <1>b, <2>1, AddPlanStep, DescendStep DEF ConstGep
<1>2. ASSUME NEW k \in Offsets, VarGep(k) PROVE IInv'
  <2>1. Visiting("ptr") /\ Top.c + k \in Int
    BY <1>2, <1>b, OffsetsAssumption DEF VarGep
  <2> QED
    BY <1>2, <1>b, <2>1, AddPlanStep, BailStep DEF VarGep
<1>3. ASSUME NEW k \in Offsets, AddConst(k) PROVE IInv'
  <2>1. Visiting("int") /\ Top.c + k \in Int
    BY <1>3, <1>b, OffsetsAssumption DEF AddConst
  <2> QED
    BY <1>3, <1>b, <2>1, AddPlanStep, DescendStep DEF AddConst
<1>4. ASSUME NEW len \in Lengths, LoadOrStore(len) PROVE IInv'
  <2>1. stored \subseteq Int
    BY <1>a DEF TypeOK
  <2> QED
    BY <1>4, <1>b, <2>1, TouchStep, BailStep DEF LoadOrStore
<1>5. ASSUME NEW len \in Lengths, StoreToItself(len) PROVE IInv'
  <2>1. stored \cup {Top.c} \subseteq Int
    BY <1>5, <1>a, <1>b DEF TypeOK, StoreToItself
  <2> QED
    BY <1>5, <1>b, <2>1, TouchStep, BailStep DEF StoreToItself
<1>6. ASSUME NEW len \in Lengths, CallArgument(len) PROVE IInv'
  <2>1. stored \subseteq Int
    BY <1>a DEF TypeOK
  <2> QED
    BY <1>6, <1>b, <2>1, TouchStep DEF CallArgument
<1>7. CASE PtrToInt
  BY <1>7, <1>b, DescendStep DEF PtrToInt
<1>8. CASE IntToPtr
  <2>1. CASE Visiting("int")
    BY <1>8, <1>b, <2>1, AddPlanStep, DescendStep DEF IntToPtr, Visiting
  <2>2. CASE Visiting("sum")
    BY <1>8, <1>b, <2>2, DescendStep DEF IntToPtr, Visiting
  <2> QED
    BY <1>8, <2>1, <2>2 DEF IntToPtr
<1>9. CASE Compare \/ OtherUse
  BY <1>9, <1>b, BailStep DEF Compare, OtherUse
<1>10. CASE Return
  <2>1. /\ calls # << >> /\ pc = "classify"
        /\ calls' = SubSeq(calls, 1, Len(calls) - 1)
        /\ pc' = IF Len(calls) = 1 THEN "apply" ELSE "classify"
        /\ UNCHANGED <<slots, plans, accesses, stored, objs, uses>>
    BY <1>10 DEF Return
  <2>2. Len(calls) \in Nat \ {0} /\ calls \in Seq(Activation)
    BY <1>a, <2>1, EmptySeq DEF TypeOK
  <2>4. /\ calls' \in Seq(Activation)
        /\ Len(calls') = Len(calls) - 1
        /\ \A n \in 1..(Len(calls) - 1) : calls'[n] = calls[n]
    BY <1>a, <2>1, PopProperties DEF TypeOK
  <2>5. pc' = "apply" => calls' = << >>
    BY <2>1, <2>2, <2>4, EmptySeq
  <2>6. CallsResidual'
    BY <1>a, <2>1, <2>2, <2>4 DEF CallsResidual
  <2> QED
    BY <2>1, <2>4, <2>5, <2>6 DEF IInv, TypeOK, ResidualOutsideSlots, PlanExact
<1>11. CASE Apply
  <2>1. {p.slot : p \in plans} \subseteq 1..Len(slots)
    BY DEF IInv, PlanExact
  <2> QED
    BY <1>11, <2>1
      DEF Apply, IInv, TypeOK, CallsResidual, ResidualOutsideSlots, PlanExact
<1>12. CASE Enter
  <2> DEFINE root == << [of |-> "ptr", c |-> 0] >>
  <2>1. root \in Seq(Activation) /\ Len(root) = 1 /\ root[1].c = 0
    BY DEF Activation
  <2>2. calls' = root
    BY <1>12 DEF Enter
  <2> HIDE DEF root
  <2> QED
    BY <1>12, <1>a, <2>1, <2>2, BlockStartResidual
      DEF Enter, IInv, TypeOK, CallsResidual, ResidualOutsideSlots, PlanExact
<1>13. CASE NothingToSplit \/ UNCHANGED vars
  BY <1>13
    DEF NothingToSplit, vars, IInv, TypeOK, CallsResidual, ResidualOutsideSlots,
        PlanExact
<1> QED
  BY <1>1, <1>2, <1>3, <1>4, <1>5, <1>6, <1>7, <1>8, <1>9, <1>10, <1>11, <1>12,
     <1>13 DEF Next

(* Exact plans and disjoint slots leave one object for every address.      *)
LEMMA InvImpliesPlansExact == IInv => PlansExact
<1> SUFFICES ASSUME IInv, NEW p \in plans, NEW q \in plans,
                    Base + slots[p.slot].offset <= q.at, q.at <= p.at
             PROVE  q.slot = p.slot
  BY DEF PlansExact, IInv, PlanExact
<1>1. PlanExact(p) /\ PlanExact(q) /\ p \in Plan /\ q \in Plan /\ TypeOK
  BY DEF IInv, TypeOK
<1>2. /\ p.slot \in 1..Len(slots) /\ q.slot \in 1..Len(slots)
      /\ slots[p.slot] \in StackSlot /\ slots[q.slot] \in StackSlot
      /\ Disjoint(slots)
  BY <1>1, SlotFacts DEF PlanExact
<1>3. Overlap(slots[p.slot], slots[q.slot])
  <2> DEFINE P == slots[p.slot]
             Q == slots[q.slot]
  <2>1. /\ P.offset \in Int /\ P.size \in Nat /\ Q.offset \in Int /\ Q.size \in Nat
        /\ p.at \in Int /\ q.at \in Int
    BY <1>1, <1>2 DEF StackSlot, Plan
  <2>a. /\ p.rel \in 0..(P.size - 1) /\ Base + P.offset + p.rel = p.at
        /\ q.rel \in 0..(Q.size - 1) /\ Base + Q.offset + q.rel = q.at
        /\ Base + P.offset <= q.at
    BY <1>1 DEF PlanExact
  <2> HIDE DEF P, Q
  <2>2. p.at < Base + P.offset + P.size
    BY <2>a, <2>1, BaseAssumption
  <2>3. Base + Q.offset <= q.at /\ q.at < Base + Q.offset + Q.size
    BY <2>a, <2>1, BaseAssumption
  <2>4. Base + P.offset <= q.at /\ q.at < Base + P.offset + P.size
    BY <2>a, <2>1, <2>2, BaseAssumption
  <2>5. P.offset < Q.offset + Q.size /\ Q.offset < P.offset + P.size
    BY <2>1, <2>3, <2>4, BaseAssumption
  <2> QED
    BY <2>5 DEF Overlap, P, Q
<1> QED
  BY <1>2, <1>3 DEF Disjoint

-----------------------------------------------------------------------------
(* Type correctness of rewriteStackObjects' classification state.          *)
THEOREM TypeCorrect == Spec => []TypeOK
<1>1. IInv => TypeOK
  BY DEF IInv
<1> QED
  BY InitInv, InvStep, <1>1, PTL DEF Spec

(* Whatever is left on the residual block starts outside every slot.       *)
THEOREM ResidualSound == Spec => []ResidualOutsideSlots
<1>1. IInv => ResidualOutsideSlots
  BY DEF IInv
<1> QED
  BY InitInv, InvStep, <1>1, PTL DEF Spec

(* Every address that moves, moves to the byte the machine would touch,    *)
(* in the one object of that byte.                                         *)
THEOREM PlansSound == Spec => []PlansExact
  BY InitInv, InvStep, InvImpliesPlansExact, PTL DEF Spec

(* No object exists before every use is classified, nor after giving up.   *)
THEOREM SplitAllOrNothing == Spec => []AllOrNothing
<1>1. IInv => AllOrNothing
  BY DEF IInv, AllOrNothing
<1> QED
  BY InitInv, InvStep, <1>1, PTL DEF Spec
=============================================================================
