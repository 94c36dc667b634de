-------------------------------- MODULE Lift --------------------------------
(***************************************************************************)
(* bpf2llvm::lift: the LLVM code that is emitted for each BPF instruction, *)
(* and what that code computes.  A value of type iW is a number in         *)
(* Word(W); Poison is a result that LLVM does not define, poison or        *)
(* undefined behaviour.  adjustSrc and doReturn, which bring the source    *)
(* function and the lifted one to a common return type, are at the end.    *)
(*                                                                         *)
(* An opcode is its class, its operation and its widths: w is the width of *)
(* the registers it names (R or W), n the width of a narrower operand or   *)
(* of a memory access.  Calls are in module Calls, branch targets in Cfg,  *)
(* and the addresses of globals in Globals.                                *)
(***************************************************************************)
EXTENDS Bits

CONSTANTS
  Registers,      \* the general purpose registers, 0 among them
  Instructions,   \* the instructions a function may have
  Contents,       \* what the registers may hold at first: functions on Registers
  Memories,       \* and the memory
  MaxSteps        \* bound: the instructions executed

(* What the decoder delivers.  Only a register is extended, exchanged or    *)
(* added to memory, and loads that extend the sign fill a whole register.  *)
Source(i) == \/ i.src[1] = "reg" /\ i.src[2] \in Registers
             \/ i.src[1] = "imm" /\ i.src[2] \in Int
Addressed(i) == i.base \in Registers /\ i.off \in Int /\ i.n \in {W8, W16, W32, W64}

Encodable(i) ==
  /\ i.class \in {"nop", "alu", "neg", "mov", "movsx", "endian", "load", "store",
                  "jump", "atomic", "cmpxchg", "exit", "other"}
  /\ i.class \in {"alu", "neg", "mov", "movsx", "load", "store", "jump"} => i.w \in {W32, W64}
  /\ i.class \in {"alu", "neg", "mov", "movsx", "endian", "load", "jump", "atomic"} =>
       i.dst \in Registers
  /\ i.class \in {"alu", "mov", "movsx", "store", "jump", "atomic", "cmpxchg"} => Source(i)
  /\ i.class \in {"movsx", "atomic", "cmpxchg"} => i.src[1] = "reg"
  /\ i.class = "alu" =>
       i.op \in {"add", "sub", "mul", "and", "or", "xor", "lsh", "rsh", "arsh",
                "div", "mod", "sdiv", "smod"}
  /\ i.class = "jump" =>
       i.op \in {"eq", "ne", "gt", "ge", "lt", "le", "sgt", "sge", "slt", "sle", "set"}
  /\ i.class = "movsx" => i.n \in {W8, W16, W32} /\ i.n <= i.w
  /\ i.class = "endian" => i.n \in {W16, W32, W64}
  /\ i.class \in {"load", "store", "atomic", "cmpxchg"} => Addressed(i)
  /\ i.class \in {"load", "store"} => i.n <= i.w
  /\ i.class = "load" /\ i.op = "sx" => i.w = W64
  /\ i.class \in {"atomic", "cmpxchg"} => i.n \in {W32, W64}
  /\ i.class = "atomic" => i.op \in {"add", "and", "or", "xor", "xchg"} /\ i.fetch \in BOOLEAN

ASSUME LiftAssumption ==
  /\ 0 \in Registers
  /\ \A i \in Instructions : Encodable(i)
  /\ Contents \subseteq [Registers -> Word(W64)]
  /\ Memories \subseteq [Addresses -> Word(Byte)]
  /\ MaxSteps \in Nat

VARIABLES
  reg,        \* RegFile: the register storage
  mem,        \* memory
  insn,       \* CurInst
  taken,      \* if the last instruction was a conditional branch that branches
  halted,     \* the lifted function has returned
  ret,        \* the source function's return type: width, ext ("sext", "zext", "none")
  returned,   \* what the lifted function returns
  refused,    \* visitError ended the run
  steps       \* instructions executed

vars == <<reg, mem, insn, taken, halted, ret, returned, refused, steps>>

Poison == -1

(* Width 0 is a function that returns nothing.                             *)
ReturnTypes == [w : 1..W64, ext : {"none", "sext", "zext"}] \cup [w : {0}, ext : {"none"}]

Init ==
  /\ reg \in Contents
  /\ mem \in Memories
  /\ insn = [class |-> "none"]
  /\ taken = FALSE /\ halted = FALSE /\ refused = FALSE
  /\ ret = [w |-> 0, ext |-> "none"]
  /\ returned = 0
  /\ steps = 0

---------------------------------------------------------------------------
(* LLVM's instructions.                                                    *)

Binop(op, a, b, w) ==
  CASE op = "add" -> Trunc(a + b, w)
    [] op = "sub" -> Trunc(a - b, w)
    [] op = "mul" -> Trunc(a * b, w)
    [] op = "and" -> And(a, b, w)
    [] op = "or"  -> Or(a, b, w)
    [] op = "xor" -> Xor(a, b, w)

Shift(op, a, b, w) ==
  IF b >= w THEN Poison
  ELSE CASE op = "lsh"  -> Trunc(a * 2^b, w)
         [] op = "rsh"  -> a \div 2^b
         [] op = "arsh" -> Trunc(Signed(a, w) \div 2^b, w)

Overflows(a, b, w) == a = 2^(w - 1) /\ b = 2^w - 1

UDiv(a, b) == IF b = 0 THEN Poison ELSE a \div b
URem(a, b) == IF b = 0 THEN Poison ELSE a % b
SDiv(a, b, w) ==
  IF b = 0 \/ Overflows(a, b, w) THEN Poison
  ELSE Trunc(Quotient(Signed(a, w), Signed(b, w)), w)
SRem(a, b, w) ==
  IF b = 0 \/ Overflows(a, b, w) THEN Poison
  ELSE LET x == Signed(a, w) y == Signed(b, w) IN Trunc(x - y * Quotient(x, y), w)

Bias(a, w) == (a + 2^(w - 1)) % 2^w

(* A signed comparison is an unsigned one with the sign bits flipped.      *)
ICmp(pred, a, b, w) ==
  CASE pred = "eq"  -> a = b
    [] pred = "ne"  -> a # b
    [] pred = "gt"  -> a > b
    [] pred = "ge"  -> a >= b
    [] pred = "lt"  -> a < b
    [] pred = "le"  -> a <= b
    [] pred = "sgt" -> Bias(a, w) > Bias(b, w)
    [] pred = "sge" -> Bias(a, w) >= Bias(b, w)
    [] pred = "slt" -> Bias(a, w) < Bias(b, w)
    [] pred = "sle" -> Bias(a, w) <= Bias(b, w)

---------------------------------------------------------------------------
(* The checked operations of mc2llvm.                                      *)

GetMaskByType(w) == w - 1

(* Mutation of CreateMasked: the shift amount as it is.                    *)
RawShift(op, a, b, w) == Shift(op, a, b, w)

CreateMasked(op, a, b, w) == Shift(op, a, And(GetMaskByType(w), b, w), w)

CreateCheckedUDiv(a, b, ifDivByZero) == IF b = 0 THEN ifDivByZero ELSE UDiv(a, b)

CreateCheckedSDiv(a, b, w, ifDivByZero, ifOverflow) ==
  IF b = 0 THEN ifDivByZero ELSE IF Overflows(a, b, w) THEN ifOverflow ELSE SDiv(a, b, w)

CreateCheckedURem(a, b, ifDivByZero) == IF b = 0 THEN ifDivByZero ELSE URem(a, b)

CreateCheckedSRem(a, b, w, ifDivByZero, ifOverflow) ==
  IF b = 0 THEN ifDivByZero ELSE IF Overflows(a, b, w) THEN ifOverflow ELSE SRem(a, b, w)

---------------------------------------------------------------------------
(* Registers and operands.                                                 *)

ReadReg(r, w) == IF w = W64 THEN reg[r] ELSE Trunc(reg[r], W32)

(* Mutation of UpdateReg: a write to a W register keeps the upper half.    *)
MergeReg(v, r, w) ==
  [reg EXCEPT ![r] = IF w = W64 THEN v ELSE v + 2^W32 * (reg[r] \div 2^W32)]

(* createZExt leaves the number as it is, so the upper half becomes zero.  *)
UpdateReg(v, r, w) == [reg EXCEPT ![r] = v]

ReadImmOperand(imm, w) == Trunc(imm, w)

ReadALUSrcOperand(src, w) ==
  IF src[1] = "imm" THEN ReadImmOperand(src[2], w) ELSE ReadReg(src[2], w)

GetMemPointerOperand(i) == Trunc(reg[i.base] + ReadImmOperand(i.off, W64), W64)

(* The atomic instructions are emitted with the alignment of their width.  *)
Aligned(p, w) == p % Bytes(w) = 0

Emit(r, m, t) ==
  /\ reg' = r /\ mem' = m /\ taken' = t
  /\ steps' = steps + 1
  /\ UNCHANGED <<halted, ret, returned, refused>>

Write(i, v, w) == Emit(UpdateReg(v, i.dst, w), mem, FALSE)

---------------------------------------------------------------------------
(* One action for each of the functions that lift is made of.              *)

Nop(i) == i.class = "nop" /\ Emit(reg, mem, FALSE)

Alu(i) ==
  /\ i.class = "alu"
  /\ i.op \in {"add", "sub", "mul", "and", "or", "xor"}
  /\ Write(i, Binop(i.op, ReadReg(i.dst, i.w), ReadALUSrcOperand(i.src, i.w), i.w), i.w)

ShiftBy(i) ==
  /\ i.class = "alu"
  /\ i.op \in {"lsh", "rsh", "arsh"}
  /\ Write(i, CreateMasked(i.op, ReadReg(i.dst, i.w), ReadALUSrcOperand(i.src, i.w), i.w), i.w)

Divided(op, a, b, w) ==
  CASE op = "div"  -> CreateCheckedUDiv(a, b, 0)
    [] op = "mod"  -> CreateCheckedURem(a, b, a)
    [] op = "sdiv" -> CreateCheckedSDiv(a, b, w, 0, a)
    [] op = "smod" -> CreateCheckedSRem(a, b, w, a, 0)

Divide(i) ==
  /\ i.class = "alu"
  /\ i.op \in {"div", "mod", "sdiv", "smod"}
  /\ Write(i, Divided(i.op, ReadReg(i.dst, i.w), ReadALUSrcOperand(i.src, i.w), i.w), i.w)

Neg(i) == i.class = "neg" /\ Write(i, Binop("sub", 0, ReadReg(i.dst, i.w), i.w), i.w)

Mov(i) == i.class = "mov" /\ Write(i, ReadALUSrcOperand(i.src, i.w), i.w)

MovSx(i) ==
  /\ i.class = "movsx"
  /\ Write(i, SExt(Trunc(ReadReg(i.src[2], i.w), i.n), i.n, i.w), i.w)

(* LE and BE on a little-endian target, and BSWAP                          *)
Endian(i) ==
  /\ i.class = "endian"
  /\ LET v == Trunc(ReadReg(i.dst, W64), i.n)
     IN  Write(i, IF i.op = "swap" THEN ByteSwap(v, i.n) ELSE v, W64)

(* A load to a W register is never a sign-extending one.                   *)
Load(i) ==
  /\ i.class = "load"
  /\ LET p == GetMemPointerOperand(i)
     IN  /\ InMemory(p, i.n)
         /\ LET v == Fetch(mem, p, i.n)
            IN  Write(i, IF i.op = "sx" THEN SExt(v, i.n, W64) ELSE v, i.w)

Store(i) ==
  /\ i.class = "store"
  /\ LET p == GetMemPointerOperand(i)
     IN  /\ InMemory(p, i.n)
         /\ \/ /\ i.src[1] = "reg"
               /\ Emit(reg, Put(mem, p, i.n, Trunc(ReadReg(i.src[2], i.w), i.n)), FALSE)
            \/ /\ i.src[1] = "imm"
               /\ Emit(reg, Put(mem, p, i.n, And(Trunc(i.src[2], W64), 2^i.n - 1, W64)), FALSE)

CondBr(i) ==
  /\ i.class = "jump" /\ i.op # "set"
  /\ Emit(reg, mem, ICmp(i.op, ReadReg(i.dst, i.w), ReadALUSrcOperand(i.src, i.w), i.w))

JSet(i) ==
  /\ i.class = "jump" /\ i.op = "set"
  /\ Emit(reg, mem,
          ICmp("ne", And(ReadReg(i.dst, i.w), ReadALUSrcOperand(i.src, i.w), i.w), 0, i.w))

Atomic(i) ==
  /\ i.class = "atomic"
  /\ LET p == GetMemPointerOperand(i)
         old == Fetch(mem, p, i.n)
         val == ReadReg(i.src[2], i.n)
         new == IF i.op = "xchg" THEN val ELSE Binop(i.op, old, val, i.n)
     IN  /\ InMemory(p, i.n) /\ Aligned(p, i.n)
         /\ Emit(IF i.fetch THEN UpdateReg(old, i.dst, i.n) ELSE reg,
                 Put(mem, p, i.n, new), FALSE)

CmpXchg(i) ==
  /\ i.class = "cmpxchg"
  /\ LET p == GetMemPointerOperand(i)
         old == Fetch(mem, p, i.n)
         expected == ReadReg(0, i.n)
         newVal == ReadReg(i.src[2], i.n)
     IN  /\ InMemory(p, i.n) /\ Aligned(p, i.n)
         /\ Emit(UpdateReg(old, 0, i.n),
                 IF old = expected THEN Put(mem, p, i.n, newVal) ELSE mem, FALSE)

---------------------------------------------------------------------------
(* adjustSrc and doReturn.                                                 *)

HasRetAttr(t) == t.ext # "none"

(* A function of a narrow or odd width with an extension attribute is      *)
(* turned into one that returns 64 bits.                                   *)
Adjusted(t) == HasRetAttr(t) /\ t.w # W32 /\ t.w # W64
ActualRetWidth(t) == IF Adjusted(t) THEN W64 ELSE t.w

(* What the adjusted source function returns for the source's value v      *)
AdjustedReturn(t, v) ==
  IF ~ Adjusted(t) \/ t.ext = "zext" THEN v
  ELSE SExt(v, t.w, IF t.ext = "sext" /\ t.w < W32 THEN W32 ELSE W64)

(* Mutation of DoReturn: the don't-care bits are not masked off.           *)
UnmaskedReturn(t, r0) == Trunc(r0, ActualRetWidth(t))

DoReturn(t, r0) ==
  LET retVal == Trunc(r0, ActualRetWidth(t))
  IN  IF HasRetAttr(t) /\ t.w < W32 THEN Trunc(retVal, W32) ELSE retVal

Exit(i) ==
  /\ i.class = "exit"
  /\ \E t \in ReturnTypes :
       /\ ret' = t
       /\ returned' = IF t.w = 0 THEN 0 ELSE DoReturn(t, ReadReg(0, W64))
  /\ halted' = TRUE /\ taken' = FALSE
  /\ steps' = steps + 1
  /\ UNCHANGED <<reg, mem, refused>>

Lifting == ~ halted /\ ~ refused /\ steps < MaxSteps

(* The cases of the switch, in its order                                   *)
Arithmetic(i) == Nop(i) \/ Alu(i) \/ ShiftBy(i) \/ Divide(i) \/ Neg(i)
Moves(i) == Mov(i) \/ MovSx(i) \/ Endian(i)
Memory(i) == Load(i) \/ Store(i)
Branches(i) == CondBr(i) \/ JSet(i)
Atomics(i) == Atomic(i) \/ CmpXchg(i)

Lift(i) ==
  /\ Lifting
  /\ insn' = i
  /\ Arithmetic(i) \/ Moves(i) \/ Memory(i) \/ Branches(i) \/ Atomics(i) \/ Exit(i)

(* An opcode that lift does not know: visitError ends the run.             *)
VisitError(i) ==
  /\ i.class = "other"
  /\ Lifting
  /\ refused' = TRUE
  /\ UNCHANGED <<reg, mem, insn, taken, halted, ret, returned, steps>>

Done == ~ Lifting /\ UNCHANGED vars

Next ==
  \/ \E i \in Instructions : Lift(i)
  \/ \E i \in Instructions : VisitError(i)
  \/ Done

Spec == Init /\ [][Next]_vars

---------------------------------------------------------------------------
(* Every register, byte of memory and returned value is a number of its    *)
(* width.  Poison is not one: no emitted shift or division is undefined,   *)
(* whatever its operands are (the masks of createMaskedShl and its like,   *)
(* the branches of createCheckedUDiv and its like), so undefined behaviour *)
(* of the lifted function can only come from its memory accesses.          *)
TypeOK ==
  /\ reg \in [Registers -> Word(W64)]
  /\ mem \in [Addresses -> Word(Byte)]
  /\ insn.class = "none" \/ insn \in Instructions
  /\ taken \in BOOLEAN /\ halted \in BOOLEAN /\ refused \in BOOLEAN
  /\ ret \in ReturnTypes
  /\ returned \in Word(W64)
  /\ steps \in 0..MaxSteps

I == INSTANCE Isa

(* The lifted code does to the registers and the memory, and decides at a  *)
(* branch, what the instruction set defines for the instruction: widths,   *)
(* zero extension of W registers, shift counts, division by zero, INT_MIN  *)
(* / -1, byte order, fetch and compare-and-exchange included.              *)
FollowsIsa == I!Spec

(* What the ABI asks of r0 when a function of type t returns v: its low    *)
(* bits are v; with an extension attribute the extension too, up to 32     *)
(* bits, or to 64 for a type wider than 32.                                *)
ObeysAbi(t, r0, v) ==
  LET upTo == IF ~ Adjusted(t) THEN t.w ELSE IF t.w < W32 THEN W32 ELSE W64
  IN  \A k \in 0..(upTo - 1) :
        k \in BitsOf(r0, W64) <=> IF k < t.w THEN k \in BitsOf(v, t.w)
                                  ELSE t.ext = "sext" /\ t.w - 1 \in BitsOf(v, t.w)

(* adjustSrc and doReturn together compare exactly what the ABI fixes: the *)
(* lifted function returns what the adjusted source function returns for v *)
(* if and only if r0 is a correct return of v.  A wrong extension is a     *)
(* different result, and bits the ABI leaves open are never a difference.  *)
ReturnExact ==
  halted /\ ret.w > 0 =>
    \A v \in Word(ret.w) :
      returned = AdjustedReturn(ret, v) <=> ObeysAbi(ret, reg[0], v)
=============================================================================
