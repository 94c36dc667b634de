-------------------------- MODULE FrameSlotsProofs --------------------------
(***************************************************************************)
(* For every frame layout and every order std::sort may produce, the slots *)
(* that generateAsm hands to the driver share no byte.  The overlap loop   *)
(* only compares neighbours, so the invariant says why that is enough: the *)
(* vector stays sorted, and every slot before position i ends where, or    *)
(* before, each later one starts.  The second part traces each slot back   *)
(* to the frame object it was read from.                                   *)
(***************************************************************************)
EXTENDS FrameSlots, SequenceTheorems, FiniteSetTheorems, TLAPS

(* A function on 1..n is a sequence of length n.                           *)
LEMMA FunctionIsSeq ==
  ASSUME NEW S, NEW n \in Nat, NEW f \in [1..n -> S]
  PROVE  f \in Seq(S) /\ Len(f) = n
<1>1. f \in Seq(S)
  BY SeqDef
<1>2. PICK m \in Nat : m = Len(f) /\ 1..m = 1..n
  BY <1>1, LenProperties
<1>3. (m > 0 => m \in 1..n) /\ (n > 0 => n \in 1..m)
  BY <1>2
<1> QED
  BY <1>1, <1>2, <1>3

(* The slots before position n end before every slot after them.           *)
PrefixClear(ss, n) ==
  \A a, b \in 1..Len(ss) :
    a < b /\ a < n => ss[a].offset + ss[a].size <= ss[b].offset

IInv ==
  /\ TypeOK
  /\ pc = "read" => i = 1
  /\ pc # "read" => SortedByOffset(slots) /\ PrefixClear(slots, i)
  /\ pc = "done" => Len(slots) <= i

-----------------------------------------------------------------------------
(* What erase(begin + i, begin + i + 2) leaves: the slots before i and,    *)
(* two positions earlier, those after the pair.                            *)
LEMMA ErasePairProperties ==
  ASSUME NEW ss \in Seq(StackSlot), NEW a \in Nat \ {0}, a + 1 <= Len(ss)
  PROVE  /\ ErasePair(ss, a) \in Seq(StackSlot)
         /\ Len(ErasePair(ss, a)) = Len(ss) - 2
         /\ \A b \in 1..(Len(ss) - 2) :
              ErasePair(ss, a)[b] = IF b < a THEN ss[b] ELSE ss[b + 2]
<1> DEFINE n == Len(ss) - 2
           e == [b \in 1..n |-> IF b < a THEN ss[b] ELSE ss[b + 2]]
<1>1. Len(ss) \in Nat /\ n \in Nat /\ ss \in [1..Len(ss) -> StackSlot]
  BY LenProperties
<1>2. \A b \in 1..n : b \in 1..Len(ss) /\ b + 2 \in 1..Len(ss)
  BY <1>1
<1>3. \A b \in 1..n : (IF b < a THEN ss[b] ELSE ss[b + 2]) \in StackSlot
  BY <1>1, <1>2
<1>4. e \in [1..n -> StackSlot]
  BY <1>3
<1> HIDE DEF e
<1>5. e \in Seq(StackSlot) /\ Len(e) = n
  BY <1>1, <1>4, FunctionIsSeq
<1>6. ErasePair(ss, a) = e
  BY DEF ErasePair, e
<1>7. \A b \in 1..n : e[b] = IF b < a THEN ss[b] ELSE ss[b + 2]
  BY DEF e
<1> QED
  BY <1>5, <1>6, <1>7

(* The sort permutes the vector and puts it in order.                      *)
LEMMA SortProperties ==
  ASSUME NEW ss \in Seq(StackSlot), NEW p \in Orders(Len(ss))
  PROVE  LET r == [a \in 1..Len(ss) |-> ss[p[a]]]
         IN  r \in Seq(StackSlot) /\ Len(r) = Len(ss)
<1> DEFINE r == [a \in 1..Len(ss) |-> ss[p[a]]]
<1>1. Len(ss) \in Nat /\ ss \in [1..Len(ss) -> StackSlot]
  BY LenProperties
<1>2. p \in [1..Len(ss) -> 1..Len(ss)]
  BY DEF Orders
<1>3. r \in [1..Len(ss) -> StackSlot]
  BY <1>1, <1>2
<1> HIDE DEF r
<1>4. r \in Seq(StackSlot) /\ Len(r) = Len(ss)
  BY <1>1, <1>3, FunctionIsSeq
<1> QED
  BY <1>4 DEF r

-----------------------------------------------------------------------------
(* Each step of the read-back keeps the types of its variables.            *)
LEMMA TypeStep == TypeOK /\ [Next]_vars => TypeOK'
<1> SUFFICES ASSUME TypeOK, [Next]_vars
             PROVE  TypeOK'
  OBVIOUS
<1> USE DEF TypeOK
<1>1. Len(frame) \in Nat /\ frame \in [1..Len(frame) -> FrameObject]
  BY LenProperties
<1>2. CASE ReadObject
  <2>1. next \in 1..Len(frame) /\ next + 1 \in 1..(Len(frame) + 1)
    BY <1>1, <1>2 DEF ReadObject
  <2>2. frame[next] \in FrameObject
    BY <1>1, <2>1
  <2>3. IsSlot(frame[next]) => SlotOf(frame[next]) \in StackSlot
    BY <2>2 DEF IsSlot, SlotOf, FrameObject, StackSlot
  <2>4. slots' \in Seq(StackSlot)
    BY <1>2, <2>3, AppendProperties DEF ReadObject
  <2> QED
    BY <1>2, <2>1, <2>4 DEF ReadObject
<1>3. CASE Sort
  <2>1. PICK p \in Orders(Len(slots)) :
          slots' = [a \in 1..Len(slots) |-> slots[p[a]]]
    BY <1>3 DEF Sort
  <2>2. slots' \in Seq(StackSlot)
    BY <2>1, SortProperties
  <2> QED
    BY <1>3, <2>2 DEF Sort
<1>4. CASE DropPair
  <2>1. slots' \in Seq(StackSlot)
    BY <1>4, ErasePairProperties DEF DropPair
  <2> QED
    BY <1>4, <2>1 DEF DropPair
<1>5. CASE KeepSlot
  BY <1>5 DEF KeepSlot
<1>6. CASE Finish
  BY <1>6 DEF Finish
<1>7. CASE UNCHANGED vars
  BY <1>7 DEF vars
<1> QED
  BY <1>2, <1>3, <1>4, <1>5, <1>6, <1>7 DEF Next

(* Initially the vector is empty and the loops are at their start.         *)
LEMMA InitInv == Init => IInv
<1> SUFFICES ASSUME Init PROVE IInv
  OBVIOUS
<1>1. frame \in Seq(FrameObject) /\ Len(frame) \in Nat
  BY FramesAssumption, LenProperties DEF Init
<1>2. slots \in Seq(StackSlot)
  BY EmptySeq DEF Init
<1> QED
  BY <1>1, <1>2 DEF Init, IInv, TypeOK

(* Sorting, erasing a pair and advancing keep the vector sorted and its    *)
(* prefix clear of what follows.                                           *)
LEMMA InvStep == IInv /\ [Next]_vars => IInv'
<1> SUFFICES ASSUME IInv, [Next]_vars
             PROVE  IInv'
  OBVIOUS
<1>1. TypeOK /\ TypeOK'
  BY TypeStep DEF IInv
<1>2. Len(slots) \in Nat /\ i \in Nat \ {0} /\ slots \in Seq(StackSlot)
      /\ slots \in [1..Len(slots) -> StackSlot]
  BY <1>1, LenProperties DEF TypeOK
<1>3. CASE ReadObject
  BY <1>1, <1>3 DEF ReadObject, IInv
<1>4. CASE Sort
  <2>1. i' = 1 /\ pc' = "drop" /\ SortedByOffset(slots')
    BY <1>4 DEF Sort, IInv
  <2>2. Len(slots') \in Nat
    BY <1>1, LenProperties DEF TypeOK
  <2>3. PrefixClear(slots', i')
    BY <2>1, <2>2 DEF PrefixClear
  <2> QED
    BY <1>1, <2>1, <2>3 DEF IInv
<1>5. CASE DropPair
  <2> DEFINE n == Len(slots) - 2
  <2>1. /\ pc = "drop" /\ pc' = "drop" /\ i' = i
        /\ i + 1 <= Len(slots)
        /\ slots' = ErasePair(slots, i)
        /\ SortedByOffset(slots) /\ PrefixClear(slots, i)
    BY <1>5 DEF DropPair, IInv
  <2>2. /\ Len(slots') = n /\ n \in Nat
        /\ \A b \in 1..n : slots'[b] = IF b < i THEN slots[b] ELSE slots[b + 2]
    <3>1. n \in Nat
      BY <1>2, <2>1
    <3>2. /\ Len(ErasePair(slots, i)) = n
          /\ \A b \in 1..n :
               ErasePair(slots, i)[b] = IF b < i THEN slots[b] ELSE slots[b + 2]
      BY <1>2, <2>1, ErasePairProperties
    <3> QED
      BY <2>1, <3>1, <3>2
  <2>3. SortedByOffset(slots')
    <3> SUFFICES ASSUME NEW a \in 1..n, NEW b \in 1..n, a < b
                 PROVE  slots'[a].offset <= slots'[b].offset
      BY <2>2 DEF SortedByOffset
    <3>1. /\ a \in 1..Len(slots) /\ a + 2 \in 1..Len(slots)
          /\ b \in 1..Len(slots) /\ b + 2 \in 1..Len(slots)
      BY <1>2
    <3>2. \A x, y \in 1..Len(slots) : x < y => slots[x].offset <= slots[y].offset
      BY <2>1 DEF SortedByOffset
    <3> QED
      BY <1>2, <2>2, <3>1, <3>2
  <2>4. PrefixClear(slots', i')
    <3> SUFFICES ASSUME NEW a \in 1..n, NEW b \in 1..n, a < b, a < i
                 PROVE  slots'[a].offset + slots'[a].size <= slots'[b].offset
      BY <2>1, <2>2 DEF PrefixClear
    <3>1. a \in 1..Len(slots) /\ b \in 1..Len(slots) /\ b + 2 \in 1..Len(slots)
      BY <1>2
    <3>2. \A y \in 1..Len(slots) :
            a < y => slots[a].offset + slots[a].size <= slots[y].offset
      BY <2>1, <3>1 DEF PrefixClear
    <3> QED
      BY <1>2, <2>2, <3>1, <3>2
  <2> QED
    BY <1>1, <2>1, <2>3, <2>4 DEF IInv
<1>6. CASE KeepSlot
  <2>1. /\ pc = "drop" /\ pc' = "drop" /\ i' = i + 1
        /\ i + 1 <= Len(slots) /\ slots' = slots
        /\ slots[i].offset + slots[i].size <= slots[i + 1].offset
        /\ SortedByOffset(slots) /\ PrefixClear(slots, i)
    <3>1. i \in 1..Len(slots) /\ i + 1 \in 1..Len(slots)
      BY <1>2, <1>6 DEF KeepSlot
    <3>2. slots[i] \in StackSlot /\ slots[i + 1] \in StackSlot
      BY <1>2, <3>1
    <3> QED
      BY <1>6, <3>2 DEF KeepSlot, RunsIntoNext, StackSlot, IInv
  <2>2. PrefixClear(slots, i + 1)
    <3> SUFFICES ASSUME NEW a \in 1..Len(slots), NEW b \in 1..Len(slots),
                        a < b, a < i + 1
                 PROVE  slots[a].offset + slots[a].size <= slots[b].offset
      BY DEF PrefixClear
    <3>1. CASE a < i
      BY <2>1, <3>1 DEF PrefixClear
    <3>2. CASE a = i
      <4>1. i + 1 \in 1..Len(slots) /\ (b = i + 1 \/ i + 1 < b)
        BY <1>2, <2>1, <3>2
      <4>2. slots[i + 1].offset <= slots[b].offset
        <5>1. slots[b].offset \in Int
          BY <1>2 DEF StackSlot
        <5> QED
          BY <2>1, <4>1, <5>1 DEF SortedByOffset
      <4>3. slots[a] \in StackSlot /\ slots[b] \in StackSlot
            /\ slots[i + 1] \in StackSlot
        BY <1>2, <4>1
      <4> QED
        BY <2>1, <3>2, <4>2, <4>3 DEF StackSlot
    <3> QED
      BY <1>2, <3>1, <3>2
  <2> QED
    BY <1>1, <2>1, <2>2 DEF IInv
<1>7. CASE Finish
  <2>1. pc = "drop" /\ pc' = "done" /\ UNCHANGED <<slots, i>> /\ i + 1 > Len(slots)
    BY <1>7 DEF Finish
  <2>2. Len(slots) <= i
    BY <1>2, <2>1
  <2> QED
    BY <1>1, <2>1, <2>2 DEF IInv
<1>8. CASE UNCHANGED vars
  BY <1>1, <1>8 DEF vars, IInv
<1> QED
  BY <1>3, <1>4, <1>5, <1>6, <1>7, <1>8 DEF Next

(* When the loop has ended, the clear prefix is the whole vector.          *)
LEMMA InvImpliesDisjoint == IInv => KeptDisjoint
<1> SUFFICES ASSUME IInv, pc = "done",
                    NEW a \in 1..Len(slots), NEW b \in 1..Len(slots), a # b
             PROVE  ~ Overlap(slots[a], slots[b])
  BY DEF KeptDisjoint, Disjoint
<1>1. /\ Len(slots) \in Nat /\ i \in Nat
      /\ slots[a] \in StackSlot /\ slots[b] \in StackSlot
  BY LenProperties DEF IInv, TypeOK
<1>2. PrefixClear(slots, i) /\ Len(slots) <= i
  BY DEF IInv
<1>3. a < b => slots[a].offset + slots[a].size <= slots[b].offset
  BY <1>1, <1>2 DEF PrefixClear
<1>4. b < a => slots[b].offset + slots[b].size <= slots[a].offset
  BY <1>1, <1>2 DEF PrefixClear
<1> QED
  BY <1>1, <1>3, <1>4 DEF Overlap, StackSlot

-----------------------------------------------------------------------------
(* Type correctness of the frame read-back in generateAsm.                 *)
THEOREM TypeCorrect == Spec => []TypeOK
<1>1. IInv => TypeOK
  BY DEF IInv
<1> QED
  BY InitInv, InvStep, <1>1, PTL DEF Spec

(* Whatever frame the backend laid out, the slots that generateAsm hands   *)
(* out share no byte.                                                      *)
THEOREM SlotsDisjoint == Spec => []KeptDisjoint
  BY InitInv, InvStep, InvImpliesDisjoint, PTL DEF Spec

-----------------------------------------------------------------------------
(* Every slot of the vector is one that some object of the frame passed    *)
(* the filter for, so it lies where the filter lets objects lie.           *)
FromFrame ==
  WithinStackLimit =>
    \A n \in 1..Len(slots) : -Base < slots[n].offset /\ slots[n].offset < 0

LEMMA FromFrameStep == TypeOK /\ FromFrame /\ [Next]_vars => FromFrame'
<1> SUFFICES ASSUME TypeOK, [Next]_vars, FromFrame, WithinStackLimit',
                    NEW n \in 1..Len(slots')
             PROVE  -Base < slots'[n].offset /\ slots'[n].offset < 0
  BY DEF FromFrame
<1>1. frame' = frame
  BY DEF Next, vars, ReadObject, Sort, DropPair, KeepSlot, Finish
<1>2. /\ WithinStackLimit
      /\ \A m \in 1..Len(slots) : -Base < slots[m].offset /\ slots[m].offset < 0
  BY <1>1 DEF WithinStackLimit, FromFrame
<1>3. /\ slots \in Seq(StackSlot) /\ Len(slots) \in Nat /\ i \in Nat \ {0}
      /\ frame \in Seq(FrameObject) /\ Len(frame) \in Nat
      /\ next \in 1..(Len(frame) + 1)
  BY LenProperties DEF TypeOK
<1>4. CASE slots' = slots
  BY <1>2, <1>4
<1>5. CASE ReadObject /\ slots' # slots
  <2>1. /\ next \in 1..Len(frame) /\ IsSlot(frame[next])
        /\ slots' = Append(slots, SlotOf(frame[next]))
    BY <1>3, <1>5 DEF ReadObject
  <2>2. frame[next] \in FrameObject
    BY <1>3, <2>1, ElementOfSeq
  <2>3. SlotOf(frame[next]) \in StackSlot
    BY <2>1, <2>2 DEF IsSlot, SlotOf, FrameObject, StackSlot
  <2>4. /\ Len(slots') = Len(slots) + 1
        /\ \A m \in 1..Len(slots) : slots'[m] = slots[m]
        /\ slots'[Len(slots) + 1] = SlotOf(frame[next])
    BY <1>3, <2>1, <2>3, AppendProperties
  <2>5. CASE n \in 1..Len(slots)
    BY <1>2, <2>4, <2>5
  <2>6. CASE n = Len(slots) + 1
    BY <1>2, <2>1, <2>4, <2>6 DEF WithinStackLimit, IsSlot, SlotOf
  <2> QED
    BY <1>3, <2>4, <2>5, <2>6
<1>6. CASE Sort
  <2>1. PICK p \in Orders(Len(slots)) :
          slots' = [a \in 1..Len(slots) |-> slots[p[a]]]
    BY <1>6 DEF Sort
  <2>2. Len(slots') = Len(slots)
    BY <1>3, <2>1, SortProperties
  <2>3. p[n] \in 1..Len(slots) /\ slots'[n] = slots[p[n]]
    BY <2>1, <2>2 DEF Orders
  <2> QED
    BY <1>2, <2>3
<1>7. CASE DropPair
  <2>1. i + 1 <= Len(slots) /\ slots' = ErasePair(slots, i)
    BY <1>7 DEF DropPair
  <2>2. /\ Len(slots') = Len(slots) - 2
        /\ \A b \in 1..(Len(slots) - 2) :
             slots'[b] = IF b < i THEN slots[b] ELSE slots[b + 2]
    BY <1>3, <2>1, ErasePairProperties
  <2>3. n \in 1..(Len(slots) - 2) /\ n \in 1..Len(slots) /\ n + 2 \in 1..Len(slots)
    BY <1>3, <2>2
  <2>4. slots'[n] = IF n < i THEN slots[n] ELSE slots[n + 2]
    BY <2>2, <2>3
  <2> QED
    BY <1>2, <2>3, <2>4
<1> QED
  BY <1>4, <1>5, <1>6, <1>7 DEF Next, vars, KeepSlot, Finish

(* What generateAsm hands out is what rewriteStackObjects may be given:    *)
(* the assumption of StackSplit holds of every frame within the limit.     *)
THEOREM SlotsFitSplit == Spec => []FitForSplit
<1>1. Init => FromFrame
  BY EmptySeq DEF Init, FromFrame
<1>2. IInv => TypeOK
  BY DEF IInv
<1>3. IInv /\ FromFrame => FitForSplit
  BY InvImpliesDisjoint
    DEF IInv, TypeOK, FromFrame, FitForSplit, SplittableSlots, KeptDisjoint
<1> QED
  BY InitInv, InvStep, FromFrameStep, <1>1, <1>2, <1>3, PTL DEF Spec

-----------------------------------------------------------------------------
(* Where the slots come from.  f names the frame object that each slot was *)
(* read from; it exists at every step, and the invariants below say which  *)
(* objects it reaches.                                                     *)
Origin(f) ==
  /\ f \in [1..Len(slots) -> 1..Len(frame)]
  /\ \A a, b \in 1..Len(slots) : f[a] = f[b] => a = b
  /\ \A a \in 1..Len(slots) :
       f[a] < next /\ IsSlot(frame[f[a]]) /\ slots[a] = SlotOf(frame[f[a]])

Reached(f, n) == \E a \in 1..Len(slots) : f[a] = n

(* An object that was read and is not reached was dropped for a rival.     *)
Complete(f) ==
  \A n \in 1..Len(frame) :
    n < next /\ IsSlot(frame[n]) => Reached(f, n) \/ (pc # "read" /\ Rivals(n) # {})

(* If objects have one rival at most, both of a pair are reached or none.  *)
OneRival == \A a \in 1..Len(frame) : \A b, c \in Rivals(a) : b = c
Paired(f) ==
  pc # "read" /\ OneRival =>
    \A a \in 1..Len(slots) : \A b \in Rivals(f[a]) : Reached(f, b)

History ==
  /\ pc # "read" => next = Len(frame) + 1
  /\ \E f : Origin(f) /\ Complete(f) /\ Paired(f)

(* Overlap, and with it rivalry, is mutual.                                *)
LEMMA RivalsMutual ==
  ASSUME NEW a \in 1..Len(frame), NEW b \in Rivals(a), IsSlot(frame[a])
  PROVE  b \in 1..Len(frame) /\ a \in Rivals(b)
BY DEF Rivals, Overlap

LEMMA RivalsKept ==
  ASSUME frame' = frame
  PROVE  \A n : Rivals(n)' = Rivals(n)
BY DEF Rivals

(* The positions of a sorted vector are those of the vector as it was.     *)
LEMMA OrdersOnto ==
  ASSUME NEW n \in Nat, NEW p \in Orders(n), NEW b \in 1..n
  PROVE  \E a \in 1..n : p[a] = b
<1>1. p \in [1..n -> 1..n] /\ \A x, y \in 1..n : p[x] = p[y] => x = y
  BY DEF Orders
<1>2. p \in Injection(1..n, 1..n)
  BY <1>1 DEF Injection, IsInjective
<1>3. IsFiniteSet(1..n)
  BY FS_Interval
<1>4. p \in Surjection(1..n, 1..n)
  BY <1>2, <1>3, FS_Injection
<1> QED
  BY <1>4 DEF Surjection

LEMMA HistoryRead ==
  ASSUME TypeOK, History, ReadObject
  PROVE  History'
<1>1. /\ slots \in Seq(StackSlot) /\ Len(slots) \in Nat
      /\ frame \in Seq(FrameObject) /\ Len(frame) \in Nat
      /\ next \in 1..Len(frame) /\ frame[next] \in FrameObject
  BY LenProperties, ElementOfSeq DEF TypeOK, ReadObject
<1>2. pc = "read" /\ pc' = "read" /\ next' = next + 1 /\ frame' = frame
  BY DEF ReadObject
<1>3. PICK f : Origin(f) /\ Complete(f)
  BY DEF History
<1>4. CASE ~ IsSlot(frame[next])
  <2>1. slots' = slots
    BY <1>4 DEF ReadObject
  <2>2. Origin(f)' /\ Complete(f)' /\ Paired(f)'
    BY <1>1, <1>2, <1>3, <1>4, <2>1 DEF Origin, Complete, Paired, Reached
  <2> QED
    BY <1>2, <2>2 DEF History
<1>5. CASE IsSlot(frame[next])
  <2> DEFINE m == Len(slots) + 1
  <2>1. slots' = Append(slots, SlotOf(frame[next])) /\ SlotOf(frame[next]) \in StackSlot
    <3>1. slots' = Append(slots, SlotOf(frame[next]))
      BY <1>5 DEF ReadObject
    <3>2. PICK o : o = frame[next]
      OBVIOUS
    <3>3. o \in FrameObject /\ IsSlot(o)
      BY <1>1, <1>5, <3>2
    <3>4. SlotOf(o) \in StackSlot
      BY <3>3 DEF IsSlot, SlotOf, FrameObject, StackSlot
    <3> QED
      BY <3>1, <3>2, <3>4
  <2>2. /\ Len(slots') = m /\ slots'[m] = SlotOf(frame[next])
        /\ \A a \in 1..Len(slots) : slots'[a] = slots[a]
    BY <1>1, <2>1, AppendProperties
  <2>3. /\ \A a \in 1..m : a = m \/ a \in 1..Len(slots)
        /\ m \in 1..m /\ \A a \in 1..Len(slots) : a \in 1..m /\ a # m
    BY <1>1
  <2>g. PICK g : g = [a \in 1..m |-> IF a = m THEN next ELSE f[a]]
    OBVIOUS
  <2>4. g[m] = next /\ \A a \in 1..Len(slots) : g[a] = f[a] /\ f[a] \in 1..Len(frame) /\ f[a] < next
    BY <1>3, <2>3, <2>g DEF Origin
  <2>5. g \in [1..m -> 1..Len(frame)]
    BY <1>1, <2>3, <2>4, <2>g
  <2> HIDE DEF m
  <2>6. \A a, b \in 1..m : g[a] = g[b] => a = b
    BY <1>1, <1>3, <2>3, <2>4 DEF Origin
  <2>7. \A a \in 1..m : g[a] < next + 1 /\ IsSlot(frame[g[a]]) /\ slots'[a] = SlotOf(frame[g[a]])
    BY <1>1, <1>3, <1>5, <2>2, <2>3, <2>4 DEF Origin
  <2>8. Origin(g)'
    BY <1>2, <2>2, <2>5, <2>6, <2>7 DEF Origin, IsSlot, SlotOf
  <2>9. Complete(g)'
    <3> SUFFICES ASSUME NEW n \in 1..Len(frame), n < next + 1, IsSlot(frame[n])
                 PROVE  \E a \in 1..m : g[a] = n
      BY <1>2, <2>2 DEF Complete, Reached, IsSlot
    <3>1. CASE n = next
      BY <2>3, <2>4, <3>1
    <3>2. CASE n < next
      BY <1>2, <1>3, <2>3, <2>4, <3>2 DEF Complete, Reached
    <3> QED
      BY <1>1, <3>1, <3>2
  <2> QED
    BY <1>2, <2>8, <2>9 DEF History, Paired
<1> QED
  BY <1>4, <1>5

LEMMA HistorySort ==
  ASSUME TypeOK, History, Sort
  PROVE  History'
<1>1. slots \in Seq(StackSlot) /\ Len(slots) \in Nat /\ Len(frame) \in Nat
  BY LenProperties DEF TypeOK
<1>2. pc = "read" /\ pc' = "drop" /\ UNCHANGED <<frame, next>> /\ next = Len(frame) + 1
  BY <1>1 DEF Sort, TypeOK
<1>3. PICK f : Origin(f) /\ Complete(f)
  BY DEF History
<1>4. PICK p \in Orders(Len(slots)) : slots' = [a \in 1..Len(slots) |-> slots[p[a]]]
  BY DEF Sort
<1>5. Len(slots') = Len(slots) /\ \A a \in 1..Len(slots) : slots'[a] = slots[p[a]]
  BY <1>1, <1>4, SortProperties
<1>6. p \in [1..Len(slots) -> 1..Len(slots)] /\ \A a, b \in 1..Len(slots) : p[a] = p[b] => a = b
  BY DEF Orders
<1>g. PICK g : g = [a \in 1..Len(slots) |-> f[p[a]]]
  OBVIOUS
<1>7. g \in [1..Len(slots) -> 1..Len(frame)] /\ \A a \in 1..Len(slots) : g[a] = f[p[a]]
  BY <1>3, <1>6, <1>g DEF Origin
<1>8. Origin(g)'
  <2>1. \A a, b \in 1..Len(slots) : g[a] = g[b] => a = b
    BY <1>3, <1>6, <1>7 DEF Origin
  <2>2. \A a \in 1..Len(slots) :
          g[a] < next /\ IsSlot(frame[g[a]]) /\ slots'[a] = SlotOf(frame[g[a]])
    BY <1>3, <1>5, <1>6, <1>7 DEF Origin
  <2> QED
    BY <1>2, <1>5, <1>7, <2>1, <2>2 DEF Origin
<1>9. \A n \in 1..Len(frame) : IsSlot(frame[n]) => \E a \in 1..Len(slots) : g[a] = n
  <2> SUFFICES ASSUME NEW n \in 1..Len(frame), IsSlot(frame[n])
               PROVE  \E a \in 1..Len(slots) : g[a] = n
    OBVIOUS
  <2>1. n < next
    BY <1>1, <1>2
  <2>2. PICK b \in 1..Len(slots) : f[b] = n
    BY <1>2, <1>3, <2>1 DEF Complete, Reached
  <2>3. PICK a \in 1..Len(slots) : p[a] = b
    BY <1>1, OrdersOnto
  <2> QED
    BY <1>7, <2>2, <2>3
<1>10. Complete(g)' /\ Paired(g)'
  BY <1>2, <1>5, <1>9 DEF Complete, Paired, Reached, Rivals
<1> QED
  BY <1>2, <1>8, <1>10 DEF History

(* The pair that is erased overlaps, because the vector is sorted.         *)
LEMMA HistoryDrop ==
  ASSUME IInv, History, DropPair
  PROVE  History'
<1> DEFINE n == Len(slots) - 2
<1>1. /\ slots \in Seq(StackSlot) /\ Len(slots) \in Nat /\ i \in Nat \ {0}
      /\ slots \in [1..Len(slots) -> StackSlot]
  BY LenProperties DEF IInv, TypeOK
<1>2. /\ pc = "drop" /\ pc' = "drop" /\ UNCHANGED <<frame, next>> /\ next = Len(frame) + 1
      /\ i + 1 <= Len(slots) /\ RunsIntoNext(slots, i) /\ slots' = ErasePair(slots, i)
      /\ SortedByOffset(slots)
  BY DEF DropPair, IInv, History
<1>3. i \in 1..Len(slots) /\ i + 1 \in 1..Len(slots) /\ n \in Nat
  BY <1>1, <1>2
<1>4. Len(slots') = n /\ \A b \in 1..n : slots'[b] = IF b < i THEN slots[b] ELSE slots[b + 2]
  BY <1>1, <1>2, ErasePairProperties
<1>5. PICK f : Origin(f) /\ Complete(f) /\ Paired(f)
  BY DEF History
<1> DEFINE x == f[i]
           y == f[i + 1]
           h(b) == IF b < i THEN b ELSE b + 2
<1>6. /\ \A b \in 1..n : h(b) \in 1..Len(slots) /\ h(b) # i /\ h(b) # i + 1
      /\ \A b, c \in 1..n : h(b) = h(c) => b = c
      /\ \A c \in 1..Len(slots) : c # i /\ c # i + 1 => \E b \in 1..n : h(b) = c
  <2>1. \A c \in 1..Len(slots) : c # i /\ c # i + 1 => \E b \in 1..n : h(b) = c
    <3> SUFFICES ASSUME NEW c \in 1..Len(slots), c # i, c # i + 1
                 PROVE  \E b \in 1..n : h(b) = c
      OBVIOUS
    <3>1. CASE c < i
      <4>1. c \in 1..n /\ h(c) = c
        BY <1>1, <1>3, <3>1
      <4> QED
        BY <4>1
    <3>2. CASE c > i + 1
      <4>1. c - 2 \in 1..n /\ h(c - 2) = c
        BY <1>1, <1>3, <3>2
      <4> QED
        BY <4>1
    <3> QED
      BY <1>1, <3>1, <3>2
  <2> QED
    BY <1>1, <1>3, <2>1
<1>g. PICK g : g = [b \in 1..n |-> f[h(b)]]
  OBVIOUS
<1>7. g \in [1..n -> 1..Len(frame)] /\ \A b \in 1..n : g[b] = f[h(b)]
  BY <1>5, <1>6, <1>g DEF Origin
<1>8. \A b \in 1..n : slots'[b] = slots[h(b)]
  BY <1>4
<1> HIDE DEF h, n
<1>9. Origin(g)'
  <2>1. \A a, b \in 1..n : g[a] = g[b] => a = b
    BY <1>5, <1>6, <1>7 DEF Origin
  <2>2. \A a \in 1..n : g[a] < next /\ IsSlot(frame[g[a]]) /\ slots'[a] = SlotOf(frame[g[a]])
    BY <1>5, <1>6, <1>7, <1>8 DEF Origin
  <2> QED
    BY <1>2, <1>4, <1>7, <2>1, <2>2 DEF Origin
<1>10. \A m : m # x /\ m # y /\ Reached(f, m) => \E a \in 1..n : g[a] = m
  BY <1>6, <1>7 DEF Reached
<1>11. /\ x \in 1..Len(frame) /\ y \in 1..Len(frame) /\ x # y
       /\ IsSlot(frame[x]) /\ IsSlot(frame[y])
       /\ slots[i] = SlotOf(frame[x]) /\ slots[i + 1] = SlotOf(frame[y])
  <2>1. i # i + 1
    BY <1>1
  <2> QED
    BY <1>3, <1>5, <2>1 DEF Origin
<1>12. y \in Rivals(x) /\ x \in Rivals(y)
  <2>1. slots[i] \in StackSlot /\ slots[i + 1] \in StackSlot /\ i < i + 1
    BY <1>1, <1>3
  <2>2. slots[i].offset <= slots[i + 1].offset
    BY <1>2, <1>3, <2>1 DEF SortedByOffset
  <2>3. Overlap(slots[i], slots[i + 1])
    BY <1>2, <2>1, <2>2 DEF RunsIntoNext, Overlap, StackSlot
  <2>4. Overlap(frame[x], frame[y]) /\ Overlap(frame[y], frame[x])
    BY <1>11, <2>3 DEF Overlap, SlotOf
  <2> QED
    BY <1>11, <2>4 DEF Rivals
<1>13. Complete(g)'
  <2> SUFFICES ASSUME NEW m \in 1..Len(frame), m < next, IsSlot(frame[m])
               PROVE  (\E a \in 1..n : g[a] = m) \/ Rivals(m) # {}
    BY <1>2, <1>4 DEF Complete, Reached, Rivals
  <2>1. CASE m \in {x, y}
    BY <1>12, <2>1
  <2>2. CASE m \notin {x, y}
    BY <1>5, <1>10, <2>2 DEF Complete
  <2> QED
    BY <2>1, <2>2
<1>14. Paired(g)'
  <2> SUFFICES ASSUME OneRival, NEW a \in 1..n, NEW b \in Rivals(g[a])
               PROVE  \E c \in 1..n : g[c] = b
    <3>1. \A m : Rivals(m)' = Rivals(m)
      BY <1>2, RivalsKept
    <3> QED
      BY <1>2, <1>4, <3>1 DEF Paired, Reached, OneRival
  <2>1. /\ g[a] = f[h(a)] /\ h(a) \in 1..Len(slots) /\ g[a] \in 1..Len(frame)
        /\ IsSlot(frame[g[a]])
    BY <1>5, <1>6, <1>7 DEF Origin
  <2>2. g[a] # x /\ g[a] # y
    BY <1>3, <1>5, <1>6, <2>1 DEF Origin
  <2>3. b \in 1..Len(frame) /\ g[a] \in Rivals(b)
    BY <2>1, RivalsMutual
  <2>4. b # x /\ b # y
    BY <1>11, <1>12, <2>2, <2>3 DEF OneRival
  <2>5. Reached(f, b)
    BY <1>2, <1>5, <2>1 DEF Paired
  <2> QED
    BY <1>10, <2>4, <2>5
<1> QED
  BY <1>2, <1>9, <1>13, <1>14 DEF History

LEMMA HistoryStep == IInv /\ History /\ [Next]_vars => History'
<1> SUFFICES ASSUME IInv, History, [Next]_vars
             PROVE  History'
  OBVIOUS
<1>1. TypeOK
  BY DEF IInv
<1>2. CASE ReadObject
  BY <1>1, <1>2, HistoryRead
<1>3. CASE Sort
  BY <1>1, <1>3, HistorySort
<1>4. CASE DropPair
  BY <1>4, HistoryDrop
<1>5. CASE KeepSlot \/ Finish \/ UNCHANGED vars
  <2>1. UNCHANGED <<frame, next, slots>> /\ (pc = "read" <=> pc' = "read")
    BY <1>5 DEF KeepSlot, Finish, vars
  <2>2. PICK f : Origin(f) /\ Complete(f) /\ Paired(f)
    BY DEF History
  <2>3. \A n : Rivals(n)' = Rivals(n)
    BY <2>1, RivalsKept
  <2>4. Origin(f)'
    BY <2>1, <2>2 DEF Origin
  <2>5. Complete(f)'
    BY <2>1, <2>2, <2>3 DEF Complete, Reached
  <2>6. Paired(f)'
    BY <2>1, <2>2, <2>3 DEF Paired, Reached, OneRival
  <2> QED
    BY <2>1, <2>4, <2>5, <2>6 DEF History
<1> QED
  BY <1>2, <1>3, <1>4, <1>5 DEF Next

LEMMA HistoryInit == Init => History
<1> SUFFICES ASSUME Init PROVE History
  OBVIOUS
<1> DEFINE f == [a \in 1..0 |-> 1]
<1>1. slots = << >> /\ Len(slots) = 0 /\ next = 1 /\ pc = "read"
  BY EmptySeq DEF Init
<1>2. f \in [1..0 -> 1..Len(frame)] /\ \A a \in 1..0 : FALSE
  OBVIOUS
<1> HIDE DEF f
<1>3. Len(frame) \in Nat
  BY FramesAssumption, LenProperties DEF Init
<1>4. Origin(f) /\ Complete(f) /\ Paired(f)
  BY <1>1, <1>2, <1>3 DEF Origin, Complete, Paired
<1> QED
  BY <1>1, <1>4 DEF History

(* Every slot that generateAsm hands out is a live, located alloca of the  *)
(* frame, and no two are the same object, in whatever order std::sort      *)
(* leaves them and however many pairs are erased.                          *)
THEOREM SlotsReported == Spec => []KeptReported
<1>1. History => KeptReported
  BY DEF History, Origin, KeptReported
<1> QED
  BY InitInv, InvStep, HistoryInit, HistoryStep, <1>1, PTL DEF Spec

(* Where objects overlap in pairs only, the pass over neighbours erases    *)
(* exactly the objects that overlap another one.                           *)
THEOREM SlotsComplete == Spec => []PairsDropped
<1>1. ASSUME IInv, History PROVE PairsDropped
  <2> SUFFICES ASSUME pc = "done", OneRival, NEW a \in 1..Len(frame), IsSlot(frame[a])
               PROVE  Kept(a) <=> Rivals(a) = {}
    BY DEF PairsDropped, OneRival
  <2>1. PICK f : Origin(f) /\ Complete(f) /\ Paired(f)
    BY <1>1 DEF History
  <2>2. Disjoint(slots)
    BY <1>1, InvImpliesDisjoint DEF KeptDisjoint
  <2>3. ASSUME NEW s \in 1..Len(slots) PROVE Rivals(f[s]) = {}
    <3> SUFFICES ASSUME NEW b \in Rivals(f[s]) PROVE FALSE
      OBVIOUS
    <3>1. PICK t \in 1..Len(slots) : f[t] = b
      BY <2>1 DEF Paired, Reached
    <3>2. s # t /\ Overlap(frame[f[s]], frame[f[t]])
      BY <3>1 DEF Rivals
    <3>3. Overlap(slots[s], slots[t])
      <4>1. slots[s] = SlotOf(frame[f[s]]) /\ slots[t] = SlotOf(frame[f[t]])
        BY <2>1 DEF Origin
      <4> QED
        BY <3>2, <4>1 DEF Overlap, SlotOf
    <3> QED
      BY <2>2, <3>2, <3>3 DEF Disjoint
  <2>4. ASSUME Kept(a) PROVE Rivals(a) = {}
    <3>1. PICK s \in 1..Len(slots) : slots[s] = SlotOf(frame[a])
      BY <2>4 DEF Kept
    <3>2. CASE f[s] = a
      BY <2>3, <3>2
    <3>3. CASE f[s] # a
      <4>1. slots[s] = SlotOf(frame[f[s]]) /\ f[s] \in 1..Len(frame)
        BY <2>1 DEF Origin
      <4>2. slots[s] \in StackSlot
        BY <1>1, ElementOfSeq DEF IInv, TypeOK
      <4>3. /\ frame[f[s]].offset = slots[s].offset /\ frame[f[s]].size = slots[s].size
            /\ frame[a].offset = slots[s].offset /\ frame[a].size = slots[s].size
        BY <3>1, <4>1 DEF SlotOf
      <4>4. Overlap(frame[f[s]], frame[a])
        BY <4>2, <4>3 DEF Overlap, StackSlot
      <4>5. a \in Rivals(f[s])
        BY <3>3, <4>4 DEF Rivals
      <4> QED
        BY <2>3, <4>5
    <3> QED
      BY <3>2, <3>3
  <2>5. ASSUME Rivals(a) = {} PROVE Kept(a)
    <3>1. a < next
      BY <1>1, LenProperties DEF History, IInv, TypeOK
    <3>2. PICK s \in 1..Len(slots) : f[s] = a
      BY <2>1, <2>5, <3>1 DEF Complete, Reached
    <3> QED
      BY <2>1, <3>2 DEF Origin, Kept
  <2> QED
    BY <2>4, <2>5
<1> QED
  BY InitInv, InvStep, HistoryInit, HistoryStep, <1>1, PTL DEF Spec
=============================================================================
