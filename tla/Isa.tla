--------------------------------- MODULE Isa ---------------------------------
(***************************************************************************)
(* What a BPF machine does with one instruction, as RFC 9669 defines it    *)
(* and the comments of bpf2llvm::lift quote it.  It is stated in terms of  *)
(* numbers: a result is an integer, of which the register keeps as many    *)
(* bits as the operation has, and zeroes above.                            *)
(***************************************************************************)
EXTENDS Bits

CONSTANTS
  Registers,
  Instructions   \* records: class, op, w, n, dst, src, base, off

VARIABLES
  reg,      \* the registers
  mem,      \* the memory
  insn,     \* the instruction last executed
  taken,    \* if it was a conditional jump that jumps
  halted

vars == <<reg, mem, insn, taken, halted>>

None == [class |-> "none"]

Init ==
  /\ reg \in [Registers -> Word(W64)]
  /\ mem \in [Addresses -> Word(Byte)]
  /\ insn = None
  /\ taken = FALSE
  /\ halted = FALSE

(* An immediate is a signed number; of a register, the low w bits count.   *)
Operand(src, w) == Trunc(IF src[1] = "imm" THEN src[2] ELSE reg[src[2]], w)

Arithmetic(op, a, b, w) ==
  LET x == Signed(a, w)
      y == Signed(b, w)
  IN  CASE op = "add"  -> a + b
        [] op = "sub"  -> a - b
        [] op = "mul"  -> a * b
        [] op = "and"  -> And(a, b, w)
        [] op = "or"   -> Or(a, b, w)
        [] op = "xor"  -> Xor(a, b, w)
        [] op = "lsh"  -> a * 2^(b % w)
        [] op = "rsh"  -> a \div 2^(b % w)
        [] op = "arsh" -> x \div 2^(b % w)
        [] op = "div"  -> IF b = 0 THEN 0 ELSE a \div b
        [] op = "mod"  -> IF b = 0 THEN a ELSE a % b
        [] op = "sdiv" -> IF b = 0 THEN 0 ELSE Quotient(x, y)
        [] op = "smod" -> IF b = 0 THEN a ELSE x - y * Quotient(x, y)
        [] op = "xchg" -> b

Holds(pred, a, b, w) ==
  LET x == Signed(a, w)
      y == Signed(b, w)
  IN  CASE pred = "eq"  -> a = b
        [] pred = "ne"  -> a # b
        [] pred = "gt"  -> a > b
        [] pred = "ge"  -> a >= b
        [] pred = "lt"  -> a < b
        [] pred = "le"  -> a <= b
        [] pred = "sgt" -> x > y
        [] pred = "sge" -> x >= y
        [] pred = "slt" -> x < y
        [] pred = "sle" -> x <= y
        [] pred = "set" -> BitsOf(a, w) \cap BitsOf(b, w) # {}

Address(i) == Trunc(reg[i.base] + i.off, W64)

Becomes(r, m, t) == reg' = r /\ mem' = m /\ taken' = t /\ UNCHANGED halted
Assign(r, v, w) == Becomes([reg EXCEPT ![r] = Trunc(v, w)], mem, FALSE)

Compute(i) ==
  \/ /\ i.class = "alu"
     /\ Assign(i.dst, Arithmetic(i.op, Trunc(reg[i.dst], i.w), Operand(i.src, i.w), i.w), i.w)
  \/ i.class = "neg" /\ Assign(i.dst, - reg[i.dst], i.w)
  \/ i.class = "mov" /\ Assign(i.dst, Operand(i.src, i.w), i.w)
  \/ i.class = "movsx" /\ Assign(i.dst, Signed(Operand(i.src, i.n), i.n), i.w)
  \/ /\ i.class = "endian"
     /\ LET v == Trunc(reg[i.dst], i.n)
        IN  Assign(i.dst, IF i.op = "swap" THEN ByteSwap(v, i.n) ELSE v, W64)

Jump(i) ==
  /\ i.class = "jump"
  /\ Becomes(reg, mem, Holds(i.op, Trunc(reg[i.dst], i.w), Operand(i.src, i.w), i.w))

Access(i) ==
  /\ i.class \in {"load", "store", "atomic", "cmpxchg"}
  /\ InMemory(Address(i), i.n)
  /\ LET p == Address(i)
         old == Fetch(mem, p, i.n)
     IN  \/ /\ i.class = "load"
            /\ Assign(i.dst, IF i.op = "sx" THEN Signed(old, i.n) ELSE old, W64)
         \/ /\ i.class = "store"
            /\ Becomes(reg, Put(mem, p, i.n, Operand(i.src, i.n)), FALSE)
         \/ /\ i.class = "atomic"
            /\ LET new == Trunc(Arithmetic(i.op, old, Operand(i.src, i.n), i.n), i.n)
               IN  Becomes(IF i.fetch THEN [reg EXCEPT ![i.dst] = old] ELSE reg,
                           Put(mem, p, i.n, new), FALSE)
         \/ /\ i.class = "cmpxchg"
            /\ Becomes([reg EXCEPT ![0] = old],
                       IF old = Trunc(reg[0], i.n) THEN Put(mem, p, i.n, Operand(i.src, i.n)) ELSE mem,
                       FALSE)

Nop(i) == i.class = "nop" /\ Becomes(reg, mem, FALSE)

Halt(i) ==
  /\ i.class = "exit"
  /\ halted' = TRUE /\ taken' = FALSE
  /\ UNCHANGED <<reg, mem>>

Execute(i) ==
  /\ ~ halted
  /\ Compute(i) \/ Jump(i) \/ Access(i) \/ Nop(i) \/ Halt(i)

Next == insn' \in Instructions /\ Execute(insn')

Spec == Init /\ [][Next]_vars
=============================================================================
