------------------------------- MODULE Machine -------------------------------
(***************************************************************************)
(* The control flow of one BPF function as the machine runs it, from its   *)
(* assembly or from its bytes: what a lifted control flow graph promises   *)
(* to follow (module Cfg).                                                 *)
(*                                                                         *)
(* Lines of assembly are labels and instructions; the line "end" is the    *)
(* function's end label.  Bytes are instructions only.  In assembly, "to"  *)
(* is the label that a line defines or branches to; in bytes it is the     *)
(* offset of a branch, in units of eight bytes from the next instruction.  *)
(***************************************************************************)
EXTENDS Integers, Sequences, FiniteSets

Line == [kind : {"label", "end", "op", "wide", "jmp", "cond", "exit"}, to : Int]

Program == [bytes : BOOLEAN, lines : Seq(Line)]

VARIABLES
  program,   \* the program run
  at,        \* the line to be executed; 0 when the function has returned
  flag       \* the outcome of the last condition

vars == <<program, at, flag>>

Returned == 0
Lines == program.lines

Branches == {"jmp", "cond"}
Terminators == Branches \cup {"exit"}

(* Instructions take one unit, 64-bit immediate loads two.                 *)
UnitsOf(p) == IF Lines[p].kind = "wide" THEN 2 ELSE 1
Unit(p) == (p - 1) + Cardinality({q \in 1..(p - 1) : Lines[q].kind = "wide"})

(* The line that the branch at p leads to, if there is one.                *)
LeadsTo(p, q) ==
  /\ q \in 1..Len(Lines)
  /\ IF program.bytes
       THEN Unit(q) = Unit(p) + UnitsOf(p) + Lines[p].to
       ELSE Lines[q].kind = "label" /\ Lines[q].to = Lines[p].to

(* Execution has left the function at its end: nothing is known then.      *)
OffTheEnd == at = Len(Lines) + 1 \/ (at \in 1..Len(Lines) /\ Lines[at].kind = "end")

Init ==
  /\ program \in Program
  /\ at = 1
  /\ flag = FALSE

At(kinds) ==
  /\ at \in 1..Len(Lines)
  /\ Lines[at].kind \in kinds
  /\ UNCHANGED program

Plain == At({"label", "op", "wide"}) /\ at' = at + 1 /\ UNCHANGED flag

Jump == At({"jmp"}) /\ LeadsTo(at, at') /\ UNCHANGED flag

Cond ==
  /\ At({"cond"})
  /\ \/ flag' = TRUE /\ LeadsTo(at, at')
     \/ flag' = FALSE /\ at' = at + 1

Exit == At({"exit"}) /\ at' = Returned /\ UNCHANGED flag

Undefined ==
  /\ OffTheEnd
  /\ at' \in 0..Len(Lines) + 1
  /\ flag' \in BOOLEAN
  /\ UNCHANGED program

Next == Plain \/ Jump \/ Cond \/ Exit \/ Undefined

Spec == Init /\ [][Next]_vars
=============================================================================
