--------------------------------- MODULE Cfg ---------------------------------
(***************************************************************************)
(* The control flow graph of a function, from its assembly as the parser   *)
(* hands it to MCStreamerWrapper (lifter/streamerwrapper.cpp) or from its  *)
(* bytes (bpf2llvm::runBytes), to the terminators that liftMCFunction      *)
(* gives the lifted blocks; and a run of the lifted function.              *)
(*                                                                         *)
(* A block holds the numbers of its lines: the no-op that emitLabel puts   *)
(* first is its label's line, and line 0 is the jump of the block that     *)
(* checkEntryBlock inserts.  Instructions that are neither branches nor    *)
(* returns are lifted to straight-line code.                               *)
(***************************************************************************)
EXTENDS Integers, Sequences, FiniteSets

CONSTANTS
  Programs,  \* the programs considered
  Half       \* a branch offset lies in -Half .. Half - 1

VARIABLES
  program,   \* the program
  next,      \* the line, or the block, to be looked at
  prev,      \* prev_line, in assembly
  ended,     \* FunctionEnded
  blocks,    \* MF.BBs
  succs,     \* the successors of each block
  terms,     \* the terminators of the lifted blocks so far
  here,      \* of a run: the block and the place in it
  flag,      \* of a run: the outcome of the last condition
  pc         \* "read", "link", "lift", "run", "returned", or "failed" (exit, assert)

vars == <<program, next, prev, ended, blocks, succs, terms, here, flag, pc>>

(* What of the program has been executed.                                  *)
Position ==
  CASE pc = "returned" -> 0
    [] pc = "run" /\ here.block > 1 /\ here.place <= Len(blocks[here.block].lines) ->
         blocks[here.block].lines[here.place]
    [] pc = "run" /\ here.block > 1 /\ here.place > Len(blocks[here.block].lines) ->
         blocks[here.block].lines[here.place - 1] + 1
    [] OTHER -> 1

M == INSTANCE Machine WITH at <- Position

(* What the backend, the parser and the decoder hand over.  Assembly has   *)
(* the function's label first, no label twice (the parser refuses it), and *)
(* behind the function's end the labels of data; bytes decode to           *)
(* instructions, whose offsets fit their field.                            *)
Wellformed(p) ==
  /\ p \in M!Program
  /\ p.bytes => \A i \in 1..Len(p.lines) :
       p.lines[i].kind \notin {"label", "end"} /\ p.lines[i].to \in -Half .. Half - 1
  /\ ~ p.bytes =>
       /\ Len(p.lines) > 0 /\ p.lines[1].kind = "label"
       /\ \A i, j \in 1..Len(p.lines) :
            /\ p.lines[i].kind = "label" /\ p.lines[i] = p.lines[j] => i = j
            /\ p.lines[i].kind = "end" /\ i < j => p.lines[j].kind \in {"label", "end"}

ASSUME ProgramsAssumption ==
  /\ Half \in Nat \ {0}
  /\ \A p \in Programs : Wellformed(p)

(* No condition is the last line of a function: control would fall off its *)
(* end.                                                                    *)
ASSUME LastLineAssumption ==
  \A p \in Programs : \A i \in 1..Len(p.lines) :
    p.lines[i].kind = "cond" => i < Len(p.lines) /\ p.lines[i + 1].kind # "end"

Lines == program.lines
Kind(p) == IF p = 0 THEN "entry" ELSE Lines[p].kind

(* Block names: labels, the names getLabel makes up, the unit a block of   *)
(* bytes starts at, and "bpf-tv#entry".                                    *)
Name(of, id) == [of |-> of, id |-> id]
Block == [name : [of : {"label", "made", "unit", "entry"}, id : Int], lines : Seq(Nat)]

Init ==
  /\ program \in Programs
  /\ next = 1
  /\ prev = "none"
  /\ ended = FALSE
  /\ blocks = << >>
  /\ succs = << >>
  /\ terms = << >>
  /\ here = [block |-> 1, place |-> 1]
  /\ flag = FALSE
  /\ pc = "read"

Fail ==
  /\ pc' = "failed"
  /\ UNCHANGED <<program, next, prev, ended, blocks, succs, terms, here, flag>>

NewBlock(name) == blocks' = Append(blocks, [name |-> name, lines |-> <<next>>])
SameBlock == blocks' = [blocks EXCEPT ![Len(blocks)].lines = Append(@, next)]

-----------------------------------------------------------------------------
(* Assembly: the streamer's callbacks                                      *)

(* Labels behind the function's end are data's.                            *)
EmitLabel ==
  /\ pc = "read" /\ ~ program.bytes
  /\ next <= Len(Lines)
  /\ Kind(next) \in {"label", "end"}
  /\ ended' = (ended \/ Kind(next) = "end")
  /\ IF ended'
       THEN UNCHANGED <<blocks, prev>>
       ELSE NewBlock(Name("label", Lines[next].to)) /\ prev' = "label"
  /\ next' = next + 1
  /\ UNCHANGED <<program, succs, terms, here, flag, pc>>

(* Mutation of EmitInstruction: code behind a terminator stays in its block. *)
EmitInSameBlock ==
  /\ pc = "read" /\ ~ program.bytes
  /\ next <= Len(Lines)
  /\ Kind(next) \notin {"label", "end"}
  /\ SameBlock
  /\ prev' = IF Kind(next) \in M!Terminators THEN "terminator" ELSE "other"
  /\ next' = next + 1
  /\ UNCHANGED <<program, ended, succs, terms, here, flag, pc>>

(* An instruction behind a terminator starts a block with a made-up name.  *)
EmitInstruction ==
  /\ pc = "read" /\ ~ program.bytes
  /\ next <= Len(Lines)
  /\ Kind(next) \notin {"label", "end"}
  /\ IF prev = "terminator" THEN NewBlock(Name("made", next)) ELSE SameBlock
  /\ prev' = IF Kind(next) \in M!Terminators THEN "terminator" ELSE "other"
  /\ next' = next + 1
  /\ UNCHANGED <<program, ended, succs, terms, here, flag, pc>>

-----------------------------------------------------------------------------
(* Bytes: runBytes                                                         *)

(* The decoder zero-extends the offset field; runBytes sign-extends it.    *)
Encoded(off) == off % (2 * Half)
Sext(v) == IF v >= Half THEN v - 2 * Half ELSE v

(* Mutation of BranchTargetUnit: from the branch, not from behind it.      *)
BranchTargetFromStart(p) == M!Unit(p) + Sext(Encoded(Lines[p].to))

BranchTargetUnit(p) == M!Unit(p) + M!UnitsOf(p) + Sext(Encoded(Lines[p].to))

Boundaries == {M!Unit(p) : p \in 1..Len(Lines)}
BranchLines == {p \in 1..Len(Lines) : Kind(p) \in M!Branches}

Leaders ==
  {0} \cup {BranchTargetUnit(p) : p \in BranchLines}
      \cup {M!Unit(p) + M!UnitsOf(p) : p \in {q \in 1..Len(Lines) : Kind(q) \in M!Terminators}}

RefuseTarget ==
  /\ pc = "read" /\ program.bytes
  /\ \E p \in BranchLines : BranchTargetUnit(p) \notin Boundaries
  /\ Fail

AddInsn ==
  /\ pc = "read" /\ program.bytes
  /\ \A p \in BranchLines : BranchTargetUnit(p) \in Boundaries
  /\ next <= Len(Lines)
  /\ IF M!Unit(next) \in Leaders THEN NewBlock(Name("unit", M!Unit(next))) ELSE SameBlock
  /\ next' = next + 1
  /\ UNCHANGED <<program, prev, ended, succs, terms, here, flag, pc>>

-----------------------------------------------------------------------------
(* Mutation of CheckEntryBlock: the first block is the entry block.        *)
NoEntryBlock ==
  /\ pc = "read"
  /\ next = Len(Lines) + 1
  /\ blocks # << >>
  /\ next' = 1
  /\ pc' = "link"
  /\ UNCHANGED <<program, prev, ended, blocks, succs, terms, here, flag>>

(* removeEmptyBlocks finds none: every block was begun with a line.        *)
CheckEntryBlock ==
  /\ pc = "read"
  /\ next = Len(Lines) + 1
  /\ blocks # << >>
  /\ blocks' = << [name |-> Name("entry", 0), lines |-> <<0>>] >> \o blocks
  /\ next' = 1
  /\ pc' = "link"
  /\ UNCHANGED <<program, prev, ended, succs, terms, here, flag>>

(* What a branch's operand names.                                          *)
TargetName(p) ==
  IF program.bytes THEN Name("unit", BranchTargetUnit(p)) ELSE Name("label", Lines[p].to)

(* findBlockByName and getBBByName; 0 for none.  Block names are distinct:  *)
(* the parser refuses a label that is defined twice.                       *)
BlockNamed(name) ==
  LET named == {b \in 1..Len(blocks) : blocks[b].name = name}
  IN  IF named = {} THEN 0 ELSE CHOOSE b \in named : TRUE

LastLine(b) == blocks[b].lines[Len(blocks[b].lines)]

Target(b) == BlockNamed(TargetName(LastLine(b)))
FallsTo(b) == IF b < Len(blocks) THEN <<b + 1>> ELSE << >>

(* Mutation of SuccsOf: a jump's target is not tested before it is added.  *)
SuccsOfAnyTarget(b) ==
  CASE Kind(LastLine(b)) = "cond" -> IF b < Len(blocks) THEN <<Target(b), b + 1>> ELSE <<Target(b)>>
    [] Kind(LastLine(b)) = "jmp" -> <<Target(b)>>
    [] Kind(LastLine(b)) = "exit" -> << >>
    [] OTHER -> FallsTo(b)

(* A SetVector: the target, then the next block if it is another one.  A   *)
(* jump without a target "looks like a tail call".                         *)
SuccsOf(b) ==
  CASE Kind(LastLine(b)) = "cond" ->
         IF b < Len(blocks) /\ Target(b) # b + 1 THEN <<Target(b), b + 1>> ELSE <<Target(b)>>
    [] Kind(LastLine(b)) = "jmp" -> IF Target(b) = 0 THEN << >> ELSE <<Target(b)>>
    [] Kind(LastLine(b)) = "exit" -> << >>
    [] OTHER -> FallsTo(b)

(* assert(target_bb): a condition must have its target in the function.    *)
NoCondTarget ==
  /\ pc = "link"
  /\ Kind(LastLine(next)) = "cond"
  /\ Target(next) = 0
  /\ Fail

GenerateSuccessors ==
  /\ pc = "link"
  /\ Kind(LastLine(next)) = "cond" => Target(next) # 0
  /\ succs' = Append(succs, SuccsOf(next))
  /\ IF next = Len(blocks)
       THEN pc' = "lift" /\ next' = 1
       ELSE pc' = "link" /\ next' = next + 1
  /\ UNCHANGED <<program, prev, ended, blocks, terms, here, flag>>

-----------------------------------------------------------------------------
(* liftMCFunction: one terminator per block                                *)

Br(b) == [kind |-> "br", t |-> b, f |-> b]
CondBr(t, f) == [kind |-> "cond", t |-> t, f |-> f]
Ret == [kind |-> "ret", t |-> 0, f |-> 0]
Term == [kind : {"br", "cond", "ret"}, t : Nat, f : Nat]

(* Mutation of FalseSucc: the first successor is taken for the fallthrough. *)
FirstSucc(b) == succs[b][1]

(* getBranchTargetsOperand: the successor that is not the target, of which *)
(* there is one at most, else the target.                                  *)
FalseSucc(b) ==
  LET others == {succs[b][j] : j \in 1..Len(succs[b])} \ {Target(b)}
  IN  IF others = {} THEN Target(b) ELSE CHOOSE c \in others : TRUE

TermOf(b) ==
  CASE Kind(LastLine(b)) = "cond" -> CondBr(Target(b), FalseSucc(b))
    [] Kind(LastLine(b)) = "jmp" -> Br(Target(b))
    [] Kind(LastLine(b)) = "exit" -> Ret
    [] OTHER -> IF succs[b] = << >> THEN Ret ELSE Br(succs[b][1])

(* getBB's and getBBByName's assertion: the target must be lifted.         *)
NoTarget ==
  /\ pc = "lift"
  /\ Kind(LastLine(next)) \in M!Branches
  /\ Target(next) = 0
  /\ Fail

LiftBlock ==
  /\ pc = "lift"
  /\ Kind(LastLine(next)) \in M!Branches => Target(next) # 0
  /\ terms' = Append(terms, TermOf(next))
  /\ IF next = Len(blocks)
       THEN pc' = "run" /\ next' = 1
       ELSE pc' = "lift" /\ next' = next + 1
  /\ UNCHANGED <<program, prev, ended, blocks, succs, here, flag>>

-----------------------------------------------------------------------------
(* A run of the lifted function                                            *)

Lifted == <<program, next, prev, ended, blocks, succs, terms>>
Here == blocks[here.block].lines
GoTo(b) == here' = [block |-> b, place |-> 1] /\ UNCHANGED pc

(* The last line of a block is its terminator only if it is a branch, a    *)
(* return, or the entry block's jump.                                      *)
AtTerm ==
  \/ here.place > Len(Here)
  \/ here.place = Len(Here) /\ Kind(Here[here.place]) \in M!Terminators \cup {"entry"}

RunPlain ==
  /\ pc = "run"
  /\ ~ AtTerm
  /\ here' = [here EXCEPT !.place = @ + 1]
  /\ UNCHANGED <<Lifted, flag, pc>>

RunTerm ==
  /\ pc = "run"
  /\ AtTerm
  /\ LET term == terms[here.block]
     IN  \/ term.kind = "br" /\ GoTo(term.t) /\ UNCHANGED flag
         \/ term.kind = "cond" /\ GoTo(term.t) /\ flag' = TRUE
         \/ term.kind = "cond" /\ GoTo(term.f) /\ flag' = FALSE
         \/ term.kind = "ret" /\ pc' = "returned" /\ UNCHANGED <<here, flag>>
  /\ UNCHANGED Lifted

Next ==
  \/ EmitLabel \/ EmitInstruction \/ RefuseTarget \/ AddInsn
  \/ CheckEntryBlock \/ NoCondTarget \/ GenerateSuccessors
  \/ NoTarget \/ LiftBlock
  \/ RunPlain \/ RunTerm

Spec == Init /\ [][Next]_vars
-----------------------------------------------------------------------------
TypeOK ==
  /\ program \in M!Program
  /\ next \in Nat \ {0}
  /\ prev \in {"none", "label", "terminator", "other"}
  /\ ended \in BOOLEAN
  /\ blocks \in Seq(Block)
  /\ succs \in Seq(Seq(Nat \ {0}))
  /\ terms \in Seq(Term)
  /\ here \in [block : Nat \ {0}, place : Nat \ {0}]
  /\ flag \in BOOLEAN
  /\ pc \in {"read", "link", "lift", "run", "returned", "failed"}

(* The lifted function runs the program's lines as the machine does, block *)
(* for block: a condition that holds leads to the branch's target, one     *)
(* that does not to the line behind it.                                    *)
FollowsMachine == M!Spec

(* Code before the function's end label. *)
CodeLines == {p \in 1..Len(Lines) : \A q \in 1..p : Kind(q) # "end"}

(* The blocks, each with a name of its own, cut the code into runs of      *)
(* lines that only the last line can leave, and that branches enter at the *)
(* first only.                                                             *)
BlocksFaithful ==
  pc \in {"link", "lift", "run", "returned"} =>
    /\ \A b, c \in 1..Len(blocks) : blocks[b].name = blocks[c].name => b = c
    /\ \A p \in CodeLines :
         \E b \in 1..Len(blocks) : \E j \in 1..Len(blocks[b].lines) :
           /\ blocks[b].lines[j] = p
           /\ \A c \in 1..Len(blocks) : \A m \in 1..Len(blocks[c].lines) :
                blocks[c].lines[m] = p => c = b /\ m = j
           /\ Kind(p) \in M!Terminators => j = Len(blocks[b].lines)
           /\ (\E q \in CodeLines \cap BranchLines : M!LeadsTo(q, p)) => j = 1

(* "LLVM doesn't let the entry block be a jump target, but assembly does"  *)
(* (checkEntryBlock): no lifted terminator leads to the first block.       *)
EntryNotATarget ==
  \A b \in 1..Len(terms) : terms[b].kind # "ret" => terms[b].t # 1 /\ terms[b].f # 1

(* A function is given up exactly when one of its branches leads nowhere:  *)
(* before its first byte, behind its last, into an instruction, or to a    *)
(* label that is not the function's.                                       *)
RefusedRightly ==
  LET astray == \E p \in CodeLines \cap BranchLines : \A q \in CodeLines : ~ M!LeadsTo(p, q)
  IN  /\ pc = "failed" => astray
      /\ pc \in {"run", "returned"} => ~ astray
=============================================================================
