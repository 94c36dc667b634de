----------------------------- MODULE StackSplit -----------------------------
(***************************************************************************)
(* rewriteStackObjects (bpf-tv.cpp): the lifted function has one block for *)
(* the whole BPF frame; every use of its address is classified, and only   *)
(* if all of them can be attributed are the frame slots carved out of the  *)
(* block into objects of their own.                                        *)
(*                                                                         *)
(* The classifiers classifyPtr, classifyIntUses and classifyAddr are       *)
(* mutually recursive over the def-use graph.  The model keeps their call  *)
(* stack: an activation is the value whose users are being looked at, with *)
(* the offset c of the stack block it is known to hold.  The lifted        *)
(* function is the optimizer's, so each step meets any next user there may *)
(* be; MaxUses bounds how many a function has.                             *)
(*                                                                         *)
(* An access of Lengths bytes is a load, a store, or a call to a memory    *)
(* intrinsic.  The name given to an object, its alignment and the clamping *)
(* of access alignments are left out.                                      *)
(***************************************************************************)
EXTENDS StackFrame, FiniteSets

CONSTANTS
  SlotChoices,   \* the slot vectors generateAsm may have produced
  Offsets,       \* the constants the function adds to frame addresses
  Lengths,       \* the widths of its accesses
  MaxUses        \* bound: how many users are classified in one function

ASSUME SlotChoicesAssumption == \A ss \in SlotChoices : SplittableSlots(ss)
ASSUME OffsetsAssumption == Offsets \subseteq Int
ASSUME LengthsAssumption == Lengths \subseteq Nat \ {0}
ASSUME MaxUsesAssumption == MaxUses \in Nat

VARIABLES
  slots,      \* the slots argument
  calls,      \* activations of the classifiers, outermost first
  plans,      \* gepPlans and intPlans
  accesses,   \* accesses and call arguments left on the residual block
  stored,     \* residual frame pointers that were stored to memory
  objs,       \* indices of the slots that became objects
  uses,       \* users classified so far
  pc          \* "entry", "classify", "apply"; or the result, "split" (true)
              \* or "bailed" (false)

vars == <<slots, calls, plans, accesses, stored, objs, uses, pc>>

(* An activation: classifyPtr for a pointer, classifyIntUses for a frame   *)
(* address in an integer, and the tail of classifyAddr for the sum of one  *)
(* with a constant.                                                        *)
Activation == [of : {"ptr", "int", "sum"}, c : Int]

(* A plan: the address computation at stack byte "at" is replaced by one   *)
(* that starts at byte rel of the slot's object.                           *)
Plan == [kind : {"gep", "varGep", "int"}, at : Int, slot : Nat, rel : Int]

Access == [at : Int, len : Nat \ {0}]

Init ==
  /\ slots \in SlotChoices
  /\ calls = << >>
  /\ plans = {}
  /\ accesses = {}
  /\ stored = {}
  /\ objs = {}
  /\ uses = 0
  /\ pc = "entry"

(* Without slots there is nothing to do; and -O3 may have left no stack    *)
(* block at all.  Either way the result is true.                           *)
NothingToSplit ==
  /\ pc = "entry"
  /\ pc' = "split"
  /\ UNCHANGED <<slots, calls, plans, accesses, stored, objs, uses>>

(* classifyPtr(stackMem, 0) *)
Enter ==
  /\ pc = "entry"
  /\ slots # << >>
  /\ calls' = << [of |-> "ptr", c |-> 0] >>
  /\ pc' = "classify"
  /\ UNCHANGED <<slots, plans, accesses, stored, objs, uses>>

-----------------------------------------------------------------------------
(* slotAt: the first slot that holds byte c.                               *)
IsSlotAt(c, s) ==
  /\ s \in 1..Len(slots)
  /\ Covers(slots[s], c)
  /\ \A t \in 1..(s - 1) : ~ Covers(slots[t], c)

Top == calls[Len(calls)]

(* The user being classified is a user of a value of the given sort.       *)
Visiting(sort) ==
  /\ pc = "classify"
  /\ calls # << >>
  /\ Top.of = sort
  /\ uses < MaxUses
  /\ uses' = uses + 1

(* A residual value that has users of its own: recurse into them.          *)
Descend(sort, c) ==
  /\ calls' = Append(calls, [of |-> sort, c |-> c])
  /\ UNCHANGED <<slots, plans, accesses, stored, objs, pc>>

(* Mutation of AddPlan: r10's place in the block is forgotten.             *)
AddPlanFromTop(kind, c, s) ==
  /\ plans' = plans \cup
       {[kind |-> kind, at |-> c, slot |-> s, rel |-> c - slots[s].offset]}
  /\ UNCHANGED <<slots, calls, accesses, stored, objs, pc>>

AddPlan(kind, c, s) ==
  /\ plans' = plans \cup
       {[kind |-> kind, at |-> c, slot |-> s, rel |-> c - (Base + slots[s].offset)]}
  /\ UNCHANGED <<slots, calls, accesses, stored, objs, pc>>

Accept == UNCHANGED <<slots, calls, plans, accesses, stored, objs, pc>>

(* Mutation of Bail: the plans made so far are applied.                    *)
BailAndApply ==
  /\ pc' = "apply"
  /\ UNCHANGED <<slots, calls, plans, accesses, stored, objs>>

(* return bail(...): false propagates through every activation.            *)
Bail ==
  /\ pc' = "bailed"
  /\ UNCHANGED <<slots, calls, plans, accesses, stored, objs>>

-----------------------------------------------------------------------------
(* Users of a pointer: classifyPtr.                                        *)

(* Mutation of ConstGep: a residual gep is planned with a null slot.       *)
ConstGepNull(k) ==
  /\ Visiting("ptr")
  /\ LET c == Top.c + k
     IN  \/ \E s \in 1..Len(slots) : IsSlotAt(c, s) /\ AddPlan("gep", c, s)
         \/ /\ Residual(slots, c)
            /\ plans' = plans \cup {[kind |-> "gep", at |-> c, slot |-> 0, rel |-> 0]}
            /\ UNCHANGED <<slots, calls, accesses, stored, objs, pc>>

(* A gep with constant offset k is planned if it lands in a slot, and its  *)
(* users are then left alone; otherwise they are classified too.           *)
ConstGep(k) ==
  /\ Visiting("ptr")
  /\ LET c == Top.c + k
     IN  \/ \E s \in 1..Len(slots) : IsSlotAt(c, s) /\ AddPlan("gep", c, s)
         \/ Residual(slots, c) /\ Descend("ptr", c)

(* A gep with a variable index: only "base + k + variable" with k in a     *)
(* slot is attributed.                                                     *)
VarGep(k) ==
  /\ Visiting("ptr")
  /\ LET c == Top.c + k
     IN  \/ \E s \in 1..Len(slots) : IsSlotAt(c, s) /\ AddPlan("varGep", c, s)
         \/ Residual(slots, c) /\ Bail

PtrToInt ==
  /\ Visiting("ptr")
  /\ Descend("int", Top.c)

Touch(len) ==
  /\ accesses' = accesses \cup {[at |-> Top.c, len |-> len]}
  /\ UNCHANGED <<slots, calls, plans, objs, pc>>

LoadOrStore(len) ==
  /\ Visiting("ptr")
  /\ \/ ~ Residual(slots, Top.c) /\ Bail
     \/ Residual(slots, Top.c) /\ Touch(len) /\ UNCHANGED stored

(* store p, p: getPointerOperand() is p for both uses, so neither of them  *)
(* counts as storing p as data.                                            *)
StoreToItself(len) ==
  /\ Visiting("ptr")
  /\ \/ ~ Residual(slots, Top.c) /\ Bail
     \/ /\ Residual(slots, Top.c)
        /\ Touch(len)
        /\ stored' = stored \cup {Top.c}

(* A call argument: a memory intrinsic that touches len bytes.             *)
CallArgument(len) ==
  /\ Visiting("ptr")
  /\ Touch(len)
  /\ UNCHANGED stored

(* Comparing a frame address, as a pointer or as an integer.               *)
Compare ==
  /\ \/ Visiting("ptr") \/ Visiting("int") \/ Visiting("sum")
  /\ Accept

(* Any other user of a frame address: a store as data, a phi, a select, a  *)
(* gep of another shape, arithmetic other than adding a constant.          *)
OtherUse ==
  /\ \/ Visiting("ptr") \/ Visiting("int") \/ Visiting("sum")
  /\ Bail

-----------------------------------------------------------------------------
(* Users of a frame address in an integer: classifyIntUses, classifyAddr.  *)

(* Mutation of AddConst: the address is looked up before the addition.     *)
AddConstStale(k) ==
  /\ Visiting("int")
  /\ \/ \E s \in 1..Len(slots) : IsSlotAt(Top.c, s) /\ AddPlan("int", Top.c + k, s)
     \/ Residual(slots, Top.c) /\ Descend("sum", Top.c + k)

AddConst(k) ==
  /\ Visiting("int")
  /\ LET c == Top.c + k
     IN  \/ \E s \in 1..Len(slots) : IsSlotAt(c, s) /\ AddPlan("int", c, s)
         \/ Residual(slots, c) /\ Descend("sum", c)

IntToPtr ==
  \/ /\ Visiting("int")
     /\ \/ \E s \in 1..Len(slots) :
             IsSlotAt(Top.c, s) /\ AddPlan("int", Top.c, s)
        \/ Residual(slots, Top.c) /\ Descend("ptr", Top.c)
  \/ /\ Visiting("sum")
     /\ Descend("ptr", Top.c)

(* The activation has looked at every user of its value.                   *)
Return ==
  /\ pc = "classify"
  /\ calls # << >>
  /\ calls' = SubSeq(calls, 1, Len(calls) - 1)
  /\ pc' = IF Len(calls) = 1 THEN "apply" ELSE "classify"
  /\ UNCHANGED <<slots, plans, accesses, stored, objs, uses>>

(* One alloca per slot that some plan refers to; the planned computations  *)
(* now start from it.                                                      *)
Apply ==
  /\ pc = "apply"
  /\ objs' = {p.slot : p \in plans}
  /\ pc' = "split"
  /\ UNCHANGED <<slots, calls, plans, accesses, stored, uses>>

Next ==
  \/ \E k \in Offsets : ConstGep(k) \/ VarGep(k) \/ AddConst(k)
  \/ \E len \in Lengths : LoadOrStore(len) \/ StoreToItself(len) \/ CallArgument(len)
  \/ PtrToInt \/ IntToPtr \/ Compare \/ OtherUse
  \/ Return \/ Apply \/ Enter \/ NothingToSplit

Spec == Init /\ [][Next]_vars

-----------------------------------------------------------------------------
TypeOK ==
  /\ slots \in SlotChoices
  /\ calls \in Seq(Activation)
  /\ plans \subseteq Plan
  /\ accesses \subseteq Access
  /\ stored \subseteq Int
  /\ objs \subseteq 1..Len(slots)
  /\ uses \in 0..MaxUses
  /\ pc \in {"entry", "classify", "apply", "split", "bailed"}

(* No access or call argument stays on the residual block when the address *)
(* it is given belongs to a slot, however many geps, integer round trips   *)
(* and additions the address went through: "c is NOT inside any slot".     *)
ResidualOutsideSlots == \A a \in accesses : Residual(slots, a.at)

(* Every planned address is moved to the byte of the object that the       *)
(* machine would touch, and two computations whose addresses lie in one    *)
(* slot are given the same object.                                         *)
PlansExact ==
  \A p \in plans :
    /\ p.slot \in 1..Len(slots)
    /\ p.rel \in 0..(slots[p.slot].size - 1)
    /\ Base + slots[p.slot].offset + p.rel = p.at
    /\ \A q \in plans :
         Base + slots[p.slot].offset <= q.at /\ q.at <= p.at => q.slot = p.slot

(* ALL-OR-NOTHING: an object is carved out only when every use of the      *)
(* frame's address was classified and none was given up on.                *)
AllOrNothing == objs # {} => pc = "split" /\ calls = << >>

(* "an unattributed access could touch a split object's bytes in the       *)
(* machine but miss its block in the model": after a split, no access that *)
(* was left on the residual block reaches a byte of a split object.        *)
NoMissedBytes ==
  pc = "split" =>
    \A a \in accesses, s \in objs :
      \/ a.at + a.len <= Base + slots[s].offset
      \/ Base + slots[s].offset + slots[s].size <= a.at

(* A residual frame pointer is never stored as data: read back, it could   *)
(* reach a slot untracked.                                                 *)
ResidualNeverStored == pc = "split" => stored = {}
=============================================================================
