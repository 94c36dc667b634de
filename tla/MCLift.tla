------------------------------- MODULE MCLift -------------------------------
(***************************************************************************)
(* Bytes of one bit: the registers have eight bits, their halves four.     *)
(* The first operand is in register 1, the second in 1 or 2 or an          *)
(* immediate, and addresses are in register 2.                             *)
(***************************************************************************)
EXTENDS Lift

MCRegisters == 0..2

Edges == {0, 1, 2, 5, 7, 8, 15, 23, 127, 128, 240, 255}

Registered(a, b, c) == [r \in MCRegisters |-> CASE r = 0 -> a [] r = 1 -> b [] r = 2 -> c]

MCContents == {Registered(3, b, c) : b \in Edges, c \in Edges}
              \cup {Registered(a, 5, 1) : a \in {0, 1, 3, 4, 7, 8, 12, 15, 24, 31, 56, 63, 96, 127, 128, 192, 240, 248, 254, 255}}
MCMemories == {[a \in Addresses |-> IF a \in {0, 1, 4} THEN 1 ELSE 0],
               [a \in Addresses |-> IF a \in {0, 2, 7} THEN 0 ELSE 1]}

Sources == {<<"reg", 1>>, <<"reg", 2>>} \cup {<<"imm", v>> : v \in {-8, -1, 0, 1, 4, 7}}
Widths == {W32, W64}
Narrow == {W8, W16, W32}

AluOps == {"add", "sub", "mul", "and", "or", "xor", "lsh", "rsh", "arsh", "div", "mod", "sdiv", "smod"}
Predicates == {"eq", "ne", "gt", "ge", "lt", "le", "sgt", "sge", "slt", "sle", "set"}

Insn(c, op, w, n, d, s, f) ==
  [class |-> c, op |-> op, w |-> w, n |-> n, dst |-> d, src |-> s, base |-> 2, off |-> 0, fetch |-> f]

At(i, off) == [i EXCEPT !.off = off]

Encodings ==
  {Insn("alu", op, w, w, 1, s, FALSE) : op \in AluOps, w \in Widths, s \in Sources}
  \cup {Insn("jump", op, w, w, 1, s, FALSE) : op \in Predicates, w \in Widths, s \in Sources}
  \cup {Insn("neg", "", w, w, 1, <<"reg", 1>>, FALSE) : w \in Widths}
  \cup {Insn("mov", "", w, w, 1, s, FALSE) : w \in Widths, s \in Sources}
  \cup {Insn("movsx", "", w, n, 1, <<"reg", 2>>, FALSE) : w \in Widths, n \in Narrow}
  \cup {Insn("endian", op, W64, n, 1, <<"reg", 1>>, FALSE) : op \in {"swap", "mask"}, n \in {W16, W32, W64}}
  \cup {At(Insn("load", "zx", w, n, 1, <<"reg", 2>>, FALSE), off) :
          w \in Widths, n \in Narrow \cup {W64}, off \in {-1, 0}}
  \cup {Insn("load", "sx", W64, n, 1, <<"reg", 2>>, FALSE) : n \in Narrow}
  \cup {Insn("store", "", w, n, 0, <<"reg", 1>>, FALSE) : w \in Widths, n \in Narrow \cup {W64}}
  \cup {Insn("store", "", W64, n, 0, <<"imm", v>>, FALSE) : n \in Narrow \cup {W64}, v \in {-7, 5}}
  \cup {Insn("atomic", op, w, w, 1, <<"reg", 1>>, f) :
          op \in {"add", "and", "or", "xor", "xchg"}, w \in Widths, f \in BOOLEAN}
  \cup {Insn("cmpxchg", "", w, w, 0, <<"reg", 1>>, TRUE) : w \in Widths}
  \cup {Insn(c, "", W64, W64, 0, <<"reg", 0>>, FALSE) : c \in {"nop", "exit", "other"}}

(* An operand is no wider than its register, and an exchange fetches.      *)
MCInstructions ==
  {i \in Encodings :
     /\ i.n <= i.w
     /\ i.class = "movsx" => i.n < i.w
     /\ i.op = "xchg" => i.fetch}
=============================================================================
