------------------------------ MODULE CfgProofs ------------------------------
(***************************************************************************)
(* Proofs about the control flow graph, for every program and every offset *)
(* width: its type invariant; that every lifted terminator leads to a      *)
(* block of the function other than its entry block; that the blocks cut   *)
(* the code where control enters and leaves it; that a function is refused *)
(* exactly when one of its branches leads nowhere; and that the lifted     *)
(* function runs as the machine does.                                      *)
(*                                                                         *)
(* Inv ties the lengths of the sequences to the stage.  Graph ties blocks  *)
(* to lines: the blocks hold the lines read so far, in order, a line       *)
(* begins a block exactly if StartsBlock says so, and the block is named   *)
(* for it.  Units grow with the lines and labels are defined once, so the  *)
(* block a branch names is the one that begins where the branch leads.     *)
(***************************************************************************)
EXTENDS Cfg, FiniteSetTheorems, SequenceTheorems, TLAPS

Linked == {"link", "lift", "run", "returned"}

(* How far each stage has come.                                            *)
Stages ==
  /\ pc = "read" => succs = << >>
  /\ pc \in {"read", "link"} => terms = << >>
  /\ pc \in {"read", "link", "lift"} => here.block = 1
  /\ pc \in Linked => Len(blocks) >= 1 /\ blocks[1].name.of = "entry"
  /\ pc = "link" => next = Len(succs) + 1 /\ next <= Len(blocks)
  /\ pc = "lift" => Len(succs) = Len(blocks) /\ next = Len(terms) + 1 /\ next <= Len(blocks)
  /\ pc = "run" => Len(terms) = Len(blocks) /\ here.block <= Len(blocks)

(* Successors and terminators lead to blocks behind the entry block.       *)
Inner == 2..Len(blocks)
SuccsInside == \A b \in 1..Len(succs) : succs[b] \in Seq(Inner)
TermsInside ==
  \A b \in 1..Len(terms) : terms[b].kind # "ret" => terms[b].t \in Inner /\ terms[b].f \in Inner

Inv == TypeOK /\ Stages /\ SuccsInside /\ TermsInside

(* The line p begins a block, which is then named for it.                  *)
StartsBlock(p) ==
  IF program.bytes THEN M!Unit(p) \in Leaders
  ELSE Kind(p) = "label" \/ (p > 1 /\ Kind(p - 1) \in M!Terminators)

NameAt(p) ==
  IF program.bytes THEN Name("unit", M!Unit(p))
  ELSE IF Kind(p) = "label" THEN Name("label", Lines[p].to) ELSE Name("made", p)

(* A block holds the lines from one that begins a block up to the next.    *)
BlockOK(block) ==
  /\ Len(block.lines) >= 1
  /\ \A j \in 1..Len(block.lines) : block.lines[j] = block.lines[1] + j - 1
  /\ StartsBlock(block.lines[1]) /\ block.name = NameAt(block.lines[1])
  /\ \A j \in 2..Len(block.lines) : ~ StartsBlock(block.lines[j])

(* The first block of the program's own, and the last line in a block.     *)
Base == IF pc = "read" THEN 1 ELSE 2
First(b) == blocks[b].lines[1]
CodeEnd == IF Len(blocks) < Base THEN 0 ELSE LastLine(Len(blocks))

(* The blocks hold the lines up to CodeEnd, in order and without a gap.    *)
Covers ==
  /\ \A b \in Base..Len(blocks) : BlockOK(blocks[b])
  /\ \A b \in Base..Len(blocks) : \A c \in (b + 1)..Len(blocks) : LastLine(b) < First(c)
  /\ \A b \in Base..(Len(blocks) - 1) : First(b + 1) = LastLine(b) + 1
  /\ Len(blocks) >= Base => First(Base) = 1
  /\ \A p \in 1..CodeEnd :
       \E b \in Base..Len(blocks) : \E j \in 1..Len(blocks[b].lines) : blocks[b].lines[j] = p

(* How far the blocks have come: to the line read last, or to the          *)
(* function's end.                                                         *)
EndsAt ==
  /\ CodeEnd \in 0..Len(Lines)
  /\ \A p \in 1..CodeEnd : Kind(p) # "end"
  /\ pc = "read" =>
       /\ next <= Len(Lines) + 1
       /\ ended => ~ program.bytes /\ CodeEnd + 1 < next /\ Kind(CodeEnd + 1) = "end"
       /\ ~ ended => CodeEnd = next - 1
       /\ ~ program.bytes /\ ~ ended /\ next > 1 =>
            (prev = "terminator" <=> Kind(next - 1) \in M!Terminators)
       /\ program.bytes /\ next > 1 => \A p \in BranchLines : BranchTargetUnit(p) \in Boundaries
  /\ pc \in Linked =>
       /\ CodeEnd = Len(Lines) \/ Kind(CodeEnd + 1) = "end"
       /\ blocks[1].lines = <<0>>
       /\ Len(blocks) >= 2
       /\ program.bytes => \A p \in BranchLines : BranchTargetUnit(p) \in Boundaries

(* Successors and terminators are those of the blocks, and every branch    *)
(* lifted so far has its target.                                           *)
TermsOK ==
  /\ \A b \in 1..Len(succs) : succs[b] = SuccsOf(b)
  /\ \A b \in 1..Len(terms) :
       /\ terms[b] = TermOf(b)
       /\ Kind(LastLine(b)) \in M!Branches => Target(b) # 0
  /\ pc \in {"run", "returned"} => Len(succs) = Len(blocks) /\ Len(terms) = Len(blocks)

(* Where a run can be in its block.                                        *)
InBlock ==
  /\ pc \in {"read", "link", "lift"} => here.place = 1
  /\ pc = "run" =>
       /\ here.place <= Len(Here) + 1
       /\ here.place = Len(Here) + 1 =>
            Kind(LastLine(here.block)) \notin M!Terminators \cup {"entry"}

Astray == \E p \in CodeLines \cap BranchLines : \A q \in CodeLines : ~ M!LeadsTo(p, q)

Graph ==
  /\ program \in Programs
  /\ pc # "failed" => Covers /\ EndsAt /\ TermsOK /\ InBlock
  /\ pc = "failed" => Astray

-----------------------------------------------------------------------------
LEMMA UnitType ==
  ASSUME NEW p \in Nat
  PROVE  M!Unit(p) \in Int
<1> DEFINE wide == {q \in 1..(p - 1) : Lines[q].kind = "wide"}
<1>1. IsFiniteSet(1..(p - 1))
  BY FS_Interval
<1>2. IsFiniteSet(wide)
  BY <1>1, FS_Subset
<1>3. Cardinality(wide) \in Nat
  BY <1>2, FS_CardinalityType
<1> QED
  BY <1>3 DEF M!Unit, M!Lines, Lines, M!Cardinality, Cardinality

(* A branch's target, if there is one, is not the entry block, whose name  *)
(* is no label and no unit.                                                *)
LEMMA TargetInside ==
  ASSUME Inv, blocks[1].name.of = "entry", NEW b
  PROVE  Target(b) \in {0} \cup Inner
<1> DEFINE name == TargetName(LastLine(b))
           named == {c \in 1..Len(blocks) : blocks[c].name = name}
<1>1. name.of # "entry"
  BY DEF TargetName, Name
<1>2. Len(blocks) \in Nat
  BY DEF Inv, TypeOK
<1>3. Target(b) \in {0} \cup named
  BY DEF Target, BlockNamed
<1> HIDE DEF name
<1>4. 1 \notin named
  BY <1>1
<1> QED
  BY <1>2, <1>3, <1>4 DEF Inner

LEMMA SuccsOfInside ==
  ASSUME Inv, blocks[1].name.of = "entry", NEW b \in 1..Len(blocks),
         Kind(LastLine(b)) = "cond" => Target(b) # 0
  PROVE  SuccsOf(b) \in Seq(Inner)
<1>1. Target(b) \in {0} \cup Inner
  BY TargetInside
<1>2. Len(blocks) \in Nat
  BY DEF Inv, TypeOK
<1>3. b < Len(blocks) => b + 1 \in Inner
  BY <1>2 DEF Inner
<1>4. FallsTo(b) \in Seq(Inner)
  BY <1>3 DEF FallsTo
<1> HIDE DEF Inner
<1>5. CASE Kind(LastLine(b)) = "cond"
  BY <1>1, <1>3, <1>5 DEF SuccsOf
<1>6. CASE Kind(LastLine(b)) = "jmp"
  BY <1>1, <1>6 DEF SuccsOf
<1>7. CASE Kind(LastLine(b)) = "exit"
  BY <1>7 DEF SuccsOf
<1>8. CASE Kind(LastLine(b)) \notin {"cond", "jmp", "exit"}
  BY <1>4, <1>8 DEF SuccsOf
<1> QED
  BY <1>5, <1>6, <1>7, <1>8

LEMMA BrType ==
  ASSUME NEW t \in Nat
  PROVE  Br(t) \in Term /\ Br(t).t = t /\ Br(t).f = t
BY DEF Br, Term

LEMMA CondBrType ==
  ASSUME NEW t \in Nat, NEW f \in Nat
  PROVE  CondBr(t, f) \in Term /\ CondBr(t, f).t = t /\ CondBr(t, f).f = f
BY DEF CondBr, Term

LEMMA RetType == Ret \in Term /\ Ret.kind = "ret"
BY DEF Ret, Term

LEMMA TermOfInside ==
  ASSUME Inv, blocks[1].name.of = "entry", NEW b \in 1..Len(succs),
         Kind(LastLine(b)) \in M!Branches => Target(b) # 0
  PROVE  /\ TermOf(b) \in Term
         /\ TermOf(b).kind # "ret" => TermOf(b).t \in Inner /\ TermOf(b).f \in Inner
<1>1. Target(b) \in {0} \cup Inner
  BY TargetInside
<1>2. succs[b] \in Seq(Inner)
  BY DEF Inv, SuccsInside
<1>3. Inner \subseteq Nat
  BY DEF Inner
<1>4. \A j \in 1..Len(succs[b]) : succs[b][j] \in Inner
  BY <1>2
<1> HIDE DEF Inner
<1>5. CASE Kind(LastLine(b)) = "cond"
  <2> DEFINE others == {succs[b][j] : j \in 1..Len(succs[b])} \ {Target(b)}
  <2>1. Target(b) \in Inner
    BY <1>1, <1>5 DEF M!Branches
  <2>2. others \subseteq Inner
    BY <1>4
  <2>3. FalseSucc(b) \in {Target(b)} \cup others
    BY DEF FalseSucc
  <2>4. FalseSucc(b) \in Inner
    BY <2>1, <2>2, <2>3
  <2>5. TermOf(b) = CondBr(Target(b), FalseSucc(b))
    BY <1>5 DEF TermOf
  <2>6. Target(b) \in Nat /\ FalseSucc(b) \in Nat
    BY <1>3, <2>1, <2>4
  <2>7. /\ CondBr(Target(b), FalseSucc(b)) \in Term
        /\ CondBr(Target(b), FalseSucc(b)).t = Target(b)
        /\ CondBr(Target(b), FalseSucc(b)).f = FalseSucc(b)
    BY <2>6, CondBrType
  <2> QED
    BY <2>1, <2>4, <2>5, <2>7
<1>6. CASE Kind(LastLine(b)) = "jmp"
  <2>1. Target(b) \in Inner
    BY <1>1, <1>6 DEF M!Branches
  <2>2. TermOf(b) = Br(Target(b))
    BY <1>6 DEF TermOf
  <2> QED
    BY <1>3, <2>1, <2>2, BrType
<1>7. CASE Kind(LastLine(b)) \notin M!Branches
  <2>1. TermOf(b) = Ret \/ (succs[b] # << >> /\ TermOf(b) = Br(succs[b][1]))
    BY <1>7 DEF TermOf, M!Branches
  <2>2. succs[b] # << >> => succs[b][1] \in Inner
    BY <1>2, <1>4
  <2> QED
    BY <1>3, <2>1, <2>2, BrType, RetType
<1> QED
  BY <1>5, <1>6, <1>7 DEF M!Branches

-----------------------------------------------------------------------------
LEMMA InvInit == Init => Inv
<1> SUFFICES ASSUME Init PROVE Inv
  OBVIOUS
<1>1. program \in M!Program
  BY ProgramsAssumption DEF Init, Wellformed
<1>2. blocks \in Seq(Block) /\ succs \in Seq(Seq(Nat \ {0})) /\ terms \in Seq(Term)
  BY DEF Init
<1>3. Len(succs) = 0 /\ Len(terms) = 0
  BY DEF Init
<1>4. here \in [block : Nat \ {0}, place : Nat \ {0}]
  BY DEF Init
<1>5. TypeOK
  BY <1>1, <1>2, <1>4 DEF Init, TypeOK
<1>6. Stages
  BY DEF Init, Stages, Linked
<1> QED
  BY <1>3, <1>5, <1>6 DEF Inv, SuccsInside, TermsInside

(* While the blocks are made, only their types matter.                     *)
LEMMA ReadKeepsInv ==
  ASSUME Inv, pc = "read", UNCHANGED <<program, succs, terms, here, flag, pc>>,
         next' = next + 1, ended' \in BOOLEAN,
         prev' \in {"none", "label", "terminator", "other"}, blocks' \in Seq(Block)
  PROVE  Inv'
<1>1. succs' = << >> /\ terms' = << >>
  BY DEF Inv, Stages
<1>2. TypeOK'
  BY DEF Inv, TypeOK
<1>3. Stages'
  BY <1>1 DEF Inv, Stages, Linked
<1>4. SuccsInside' /\ TermsInside'
  BY <1>1 DEF SuccsInside, TermsInside
<1> QED
  BY <1>2, <1>3, <1>4 DEF Inv

LEMMA BlockTypes ==
  ASSUME Inv, next <= Len(Lines)
  PROVE  /\ SameBlock => blocks' \in Seq(Block)
         /\ \A of \in {"label", "made", "unit"}, id \in Int :
              NewBlock(Name(of, id)) => blocks' \in Seq(Block)
<1>1. blocks \in Seq(Block) /\ next \in Nat
  BY DEF Inv, TypeOK
<1>2. ASSUME SameBlock PROVE blocks' \in Seq(Block)
  <2>1. CASE Len(blocks) \in 1..Len(blocks)
    <3> DEFINE last == blocks[Len(blocks)]
               more == [last EXCEPT !.lines = Append(@, next)]
    <3>1. last \in Block
      BY <1>1, <2>1
    <3>2. last.lines \in Seq(Nat) /\ Append(last.lines, next) \in Seq(Nat)
      BY <1>1, <3>1 DEF Block
    <3>3. more \in Block
      BY <3>1, <3>2 DEF Block
    <3>4. blocks' = [blocks EXCEPT ![Len(blocks)] = more]
      BY <1>2 DEF SameBlock
    <3> QED
      BY <1>1, <2>1, <3>3, <3>4
  <2>2. CASE Len(blocks) \notin 1..Len(blocks)
    <3>1. DOMAIN blocks = 1..Len(blocks)
      BY <1>1
    <3>2. blocks' = blocks
      BY <1>1, <1>2, <2>2, <3>1 DEF SameBlock
    <3> QED
      BY <1>1, <3>2
  <2> QED
    BY <2>1, <2>2
<1>3. ASSUME NEW of \in {"label", "made", "unit"}, NEW id \in Int, NewBlock(Name(of, id))
      PROVE  blocks' \in Seq(Block)
  <2>1. [name |-> Name(of, id), lines |-> <<next>>] \in Block
    BY <1>1 DEF Block, Name
  <2> QED
    BY <1>1, <1>3, <2>1 DEF NewBlock
<1> QED
  BY <1>2, <1>3

LEMMA FailKeepsInv ==
  ASSUME Inv, Fail
  PROVE  Inv'
<1>1. TypeOK'
  BY DEF Inv, TypeOK, Fail
<1>2. Stages'
  BY DEF Inv, Stages, Linked, Fail
<1>3. SuccsInside' /\ TermsInside'
  BY DEF Inv, SuccsInside, TermsInside, Inner, Fail
<1> QED
  BY <1>1, <1>2, <1>3 DEF Inv

LEMMA EmitLabelInv == ASSUME Inv, EmitLabel PROVE Inv'
<1>1. /\ pc = "read" /\ next <= Len(Lines) /\ next' = next + 1
      /\ UNCHANGED <<program, succs, terms, here, flag, pc>>
      /\ ended' \in BOOLEAN
      /\ prev' \in {prev, "label"}
      /\ blocks' = blocks \/ NewBlock(Name("label", Lines[next].to))
  BY DEF EmitLabel, Inv, TypeOK
<1>2. Lines[next].to \in Int
  <2>1. Lines \in Seq(M!Line) /\ next \in 1..Len(Lines)
    BY <1>1 DEF Inv, TypeOK, M!Program, Lines
  <2>2. Lines[next] \in M!Line
    BY <2>1
  <2> QED
    BY <2>2 DEF M!Line
<1>3. blocks' \in Seq(Block)
  BY <1>1, <1>2, BlockTypes DEF Inv, TypeOK
<1>4. prev' \in {"none", "label", "terminator", "other"}
  BY <1>1 DEF Inv, TypeOK
<1> QED
  BY <1>1, <1>3, <1>4, ReadKeepsInv

LEMMA EmitInstructionInv == ASSUME Inv, EmitInstruction PROVE Inv'
<1>1. /\ pc = "read" /\ next <= Len(Lines) /\ next' = next + 1
      /\ UNCHANGED <<program, ended, succs, terms, here, flag, pc>>
      /\ prev' \in {"terminator", "other"}
      /\ SameBlock \/ NewBlock(Name("made", next))
  BY DEF EmitInstruction
<1>2. next \in Int /\ ended' \in BOOLEAN
  BY <1>1 DEF Inv, TypeOK
<1>3. blocks' \in Seq(Block)
  BY <1>1, <1>2, BlockTypes
<1> QED
  BY <1>1, <1>2, <1>3, ReadKeepsInv

LEMMA AddInsnInv == ASSUME Inv, AddInsn PROVE Inv'
<1>1. /\ pc = "read" /\ next <= Len(Lines) /\ next' = next + 1
      /\ UNCHANGED <<program, prev, ended, succs, terms, here, flag, pc>>
      /\ SameBlock \/ NewBlock(Name("unit", M!Unit(next)))
  BY DEF AddInsn
<1>2. M!Unit(next) \in Int
  BY UnitType DEF Inv, TypeOK
<1>3. blocks' \in Seq(Block)
  BY <1>1, <1>2, BlockTypes
<1>4. ended' \in BOOLEAN /\ prev' \in {"none", "label", "terminator", "other"}
  BY <1>1 DEF Inv, TypeOK
<1> QED
  BY <1>1, <1>3, <1>4, ReadKeepsInv

LEMMA CheckEntryBlockInv == ASSUME Inv, CheckEntryBlock PROVE Inv'
<1> DEFINE entry == [name |-> Name("entry", 0), lines |-> <<0>>]
<1>1. blocks \in Seq(Block) /\ Len(blocks) \in Nat
  BY DEF Inv, TypeOK
<1>2. entry \in Block /\ entry.name.of = "entry"
  BY DEF Block, Name
<1>3. blocks' = <<entry>> \o blocks
  BY DEF CheckEntryBlock
<1> HIDE DEF entry
<1>4. blocks' \in Seq(Block) /\ Len(blocks') = Len(blocks) + 1 /\ blocks'[1] = entry
  BY <1>1, <1>2, <1>3
<1>5. /\ succs' = << >> /\ terms' = << >> /\ next' = 1 /\ pc' = "link"
      /\ here'.block = 1
      /\ UNCHANGED <<program, prev, ended, here, flag>>
  BY DEF CheckEntryBlock, Inv, Stages
<1>6. TypeOK'
  BY <1>4, <1>5 DEF Inv, TypeOK
<1>7. Stages'
  BY <1>1, <1>2, <1>4, <1>5 DEF Stages, Linked
<1>8. SuccsInside' /\ TermsInside'
  BY <1>5 DEF SuccsInside, TermsInside
<1> QED
  BY <1>6, <1>7, <1>8 DEF Inv

LEMMA GenerateSuccessorsInv == ASSUME Inv, GenerateSuccessors PROVE Inv'
<1>1. /\ Len(blocks) \in Nat /\ succs \in Seq(Seq(Nat \ {0})) /\ Len(succs) \in Nat
      /\ next = Len(succs) + 1 /\ next \in 1..Len(blocks)
      /\ blocks[1].name.of = "entry" /\ terms = << >>
  BY DEF Inv, TypeOK, Stages, Linked, GenerateSuccessors
<1>2. SuccsOf(next) \in Seq(Inner)
  BY <1>1, SuccsOfInside DEF GenerateSuccessors
<1>3. SuccsOf(next) \in Seq(Nat \ {0})
  BY <1>2 DEF Inner
<1>4. /\ succs' \in Seq(Seq(Nat \ {0})) /\ Len(succs') = next
      /\ \A b \in 1..Len(succs) : succs'[b] = succs[b]
      /\ succs'[next] = SuccsOf(next)
  BY <1>1, <1>3 DEF GenerateSuccessors
<1>5. UNCHANGED <<program, prev, ended, blocks, terms, here, flag>>
  BY DEF GenerateSuccessors
<1>6. /\ next = Len(blocks) => pc' = "lift" /\ next' = 1
      /\ next # Len(blocks) => pc' = "link" /\ next' = next + 1
  BY DEF GenerateSuccessors
<1>7. TypeOK'
  BY <1>1, <1>4, <1>5, <1>6 DEF Inv, TypeOK
<1>8. Stages'
  <2>1. pc = "link"
    BY DEF GenerateSuccessors
  <2>2. Len(terms') = 0 /\ terms' = << >>
    BY <1>1, <1>5
  <2> QED
    BY <1>1, <1>4, <1>5, <1>6, <2>1, <2>2 DEF Inv, Stages, Linked
<1>9. SuccsInside'
  <2>1. Inner' = Inner
    BY <1>5 DEF Inner
  <2>2. \A b \in 1..Len(succs') : b \in 1..Len(succs) \/ b = next
    BY <1>1, <1>4
  <2> QED
    BY <1>2, <1>4, <2>1, <2>2 DEF Inv, SuccsInside
<1>10. TermsInside'
  BY <1>1, <1>5 DEF TermsInside
<1> QED
  BY <1>7, <1>8, <1>9, <1>10 DEF Inv

LEMMA LiftBlockInv == ASSUME Inv, LiftBlock PROVE Inv'
<1>1. /\ Len(blocks) \in Nat /\ Len(succs) = Len(blocks) /\ Len(terms) \in Nat
      /\ next = Len(terms) + 1 /\ next \in 1..Len(blocks) /\ terms \in Seq(Term)
      /\ blocks[1].name.of = "entry" /\ here.block = 1
  BY DEF Inv, TypeOK, Stages, Linked, LiftBlock
<1>2. /\ TermOf(next) \in Term
      /\ TermOf(next).kind # "ret" => TermOf(next).t \in Inner /\ TermOf(next).f \in Inner
  BY <1>1, TermOfInside DEF LiftBlock
<1>3. /\ terms' \in Seq(Term) /\ Len(terms') = next
      /\ \A b \in 1..Len(terms) : terms'[b] = terms[b]
      /\ terms'[next] = TermOf(next)
  BY <1>1, <1>2 DEF LiftBlock
<1>4. UNCHANGED <<program, prev, ended, blocks, succs, here, flag>>
  BY DEF LiftBlock
<1>5. /\ next = Len(blocks) => pc' = "run" /\ next' = 1
      /\ next # Len(blocks) => pc' = "lift" /\ next' = next + 1
  BY DEF LiftBlock
<1>6. TypeOK'
  BY <1>1, <1>3, <1>4, <1>5 DEF Inv, TypeOK
<1>7. Stages'
  <2>1. pc = "lift"
    BY DEF LiftBlock
  <2> QED
    BY <1>1, <1>3, <1>4, <1>5, <2>1 DEF Inv, Stages, Linked
<1>8. Inner' = Inner
  BY <1>4 DEF Inner
<1>9. SuccsInside'
  BY <1>4, <1>8 DEF Inv, SuccsInside
<1>10. TermsInside'
  <2>1. \A b \in 1..Len(terms') : b \in 1..Len(terms) \/ b = next
    BY <1>1, <1>3
  <2> QED
    BY <1>2, <1>3, <1>8, <2>1 DEF Inv, TermsInside
<1> QED
  BY <1>6, <1>7, <1>9, <1>10 DEF Inv

(* A run changes only where it is, and stays among the blocks.             *)
LEMMA RunKeepsInv ==
  ASSUME Inv, pc = "run", UNCHANGED Lifted, flag' \in BOOLEAN,
         pc' \in {"run", "returned"},
         here' \in [block : 1..Len(blocks), place : Nat \ {0}]
  PROVE  Inv'
<1>1. here' \in [block : Nat \ {0}, place : Nat \ {0}] /\ here'.block <= Len(blocks)
  BY DEF Inv, TypeOK
<1>2. TypeOK'
  BY <1>1 DEF Inv, TypeOK, Lifted
<1>3. Stages'
  BY <1>1 DEF Inv, Stages, Linked, Lifted
<1>4. SuccsInside' /\ TermsInside'
  BY DEF Inv, SuccsInside, TermsInside, Inner, Lifted
<1> QED
  BY <1>2, <1>3, <1>4 DEF Inv

LEMMA RunPlainInv == ASSUME Inv, RunPlain PROVE Inv'
<1>1. here \in [block : Nat \ {0}, place : Nat \ {0}] /\ here.block <= Len(blocks)
  BY DEF RunPlain, Inv, TypeOK, Stages
<1>2. here' = [here EXCEPT !.place = here.place + 1] /\ Len(blocks) \in Nat
  BY DEF RunPlain, Inv, TypeOK
<1>3. here' \in [block : 1..Len(blocks), place : Nat \ {0}]
  BY <1>1, <1>2
<1> QED
  BY <1>3, RunKeepsInv DEF RunPlain, Inv, TypeOK

LEMMA RunTermInv == ASSUME Inv, RunTerm PROVE Inv'
<1> DEFINE term == terms[here.block]
<1>1. /\ here \in [block : 1..Len(blocks), place : Nat \ {0}]
      /\ here.block \in 1..Len(terms) /\ Len(blocks) \in Nat
  BY DEF RunTerm, Inv, TypeOK, Stages
<1>2. term.kind # "ret" => term.t \in 1..Len(blocks) /\ term.f \in 1..Len(blocks)
  BY <1>1 DEF Inv, TermsInside, Inner
<1>3. ASSUME NEW b \in 1..Len(blocks), GoTo(b)
      PROVE  here' \in [block : 1..Len(blocks), place : Nat \ {0}] /\ pc' = pc
  BY <1>3 DEF GoTo
<1>4. \/ term.kind # "ret" /\ GoTo(term.t)
      \/ term.kind # "ret" /\ GoTo(term.f)
      \/ pc' = "returned" /\ here' = here
  BY DEF RunTerm
<1>5. here' \in [block : 1..Len(blocks), place : Nat \ {0}] /\ pc' \in {pc, "returned"}
  BY <1>1, <1>2, <1>3, <1>4
<1>6. flag' \in BOOLEAN
  BY DEF RunTerm, Inv, TypeOK
<1> QED
  BY <1>5, <1>6, RunKeepsInv DEF RunTerm

LEMMA InvStep == Inv /\ [Next]_vars => Inv'
<1> SUFFICES ASSUME Inv, [Next]_vars PROVE Inv'
  OBVIOUS
<1>1. CASE EmitLabel
  BY <1>1, EmitLabelInv
<1>2. CASE EmitInstruction
  BY <1>2, EmitInstructionInv
<1>3. CASE RefuseTarget
  BY <1>3, FailKeepsInv DEF RefuseTarget
<1>4. CASE AddInsn
  BY <1>4, AddInsnInv
<1>5. CASE CheckEntryBlock
  BY <1>5, CheckEntryBlockInv
<1>6. CASE NoCondTarget
  BY <1>6, FailKeepsInv DEF NoCondTarget
<1>7. CASE GenerateSuccessors
  BY <1>7, GenerateSuccessorsInv
<1>8. CASE NoTarget
  BY <1>8, FailKeepsInv DEF NoTarget
<1>9. CASE LiftBlock
  BY <1>9, LiftBlockInv
<1>10. CASE RunPlain
  BY <1>10, RunPlainInv
<1>11. CASE RunTerm
  BY <1>11, RunTermInv
<1>12. CASE UNCHANGED vars
  <2>1. TypeOK'
    BY <1>12 DEF Inv, TypeOK, vars
  <2>2. Stages'
    BY <1>12 DEF Inv, Stages, vars
  <2>3. SuccsInside' /\ TermsInside'
    BY <1>12 DEF Inv, SuccsInside, TermsInside, Inner, vars
  <2> QED
    BY <2>1, <2>2, <2>3 DEF Inv
<1> QED
  BY <1>1, <1>2, <1>3, <1>4, <1>5, <1>6, <1>7, <1>8, <1>9, <1>10, <1>11, <1>12 DEF Next

THEOREM Invariance == Spec => []Inv
<1> QED
  BY InvInit, InvStep, PTL DEF Spec

(* Type correctness of the construction of the graph (streamer callbacks,  *)
(* runBytes, generateSuccessors, liftMCFunction) for every program.        *)
THEOREM TypeCorrect == Spec => []TypeOK
<1>1. Inv => TypeOK
  BY DEF Inv
<1> QED
  BY <1>1, Invariance, PTL

(* The entry block that checkEntryBlock inserts is no branch's target, in  *)
(* any function, whatever its labels and offsets.                          *)
THEOREM EntrySound == Spec => []EntryNotATarget
<1>1. Inv => EntryNotATarget
  BY DEF Inv, TypeOK, TermsInside, EntryNotATarget, Inner
<1> QED
  BY <1>1, Invariance, PTL

-----------------------------------------------------------------------------
(* Where blocks begin                                                      *)

(* The wide instructions before line p.                                    *)
WideBefore(p) == {q \in 1..(p - 1) : Lines[q].kind = "wide"}

LEMMA WideFinite ==
  ASSUME NEW p \in Nat
  PROVE  /\ IsFiniteSet(WideBefore(p)) /\ Cardinality(WideBefore(p)) \in Nat
         /\ M!Unit(p) = (p - 1) + Cardinality(WideBefore(p))
<1>1. IsFiniteSet(1..(p - 1))
  BY FS_Interval
<1>2. IsFiniteSet(WideBefore(p))
  BY <1>1, FS_Subset DEF WideBefore
<1>3. Cardinality(WideBefore(p)) \in Nat
  BY <1>2, FS_CardinalityType
<1>4. M!Unit(p) = (p - 1) + Cardinality(WideBefore(p))
  BY DEF M!Unit, M!Lines, Lines, M!Cardinality, Cardinality, WideBefore
<1> QED
  BY <1>2, <1>3, <1>4

(* Units grow from line to line, by the size of the instruction.           *)
LEMMA UnitFacts ==
  ASSUME NEW p \in Nat \ {0}
  PROVE  /\ M!Unit(p) \in Nat
         /\ M!Unit(1) = 0
         /\ M!Unit(p + 1) = M!Unit(p) + M!UnitsOf(p)
         /\ \A q \in Nat \ {0} : p < q => M!Unit(p) < M!Unit(q)
<1>1. M!Unit(p) \in Nat
  <2>1. M!Unit(p) = (p - 1) + Cardinality(WideBefore(p)) /\ Cardinality(WideBefore(p)) \in Nat
    BY WideFinite
  <2> QED
    BY <2>1
<1>2. M!Unit(1) = 0
  <2>1. M!Unit(1) = (1 - 1) + Cardinality(WideBefore(1))
    BY WideFinite
  <2>2. WideBefore(1) = {}
    BY DEF WideBefore
  <2> QED
    BY <2>1, <2>2, FS_EmptySet
<1>3. ASSUME NEW q \in Nat \ {0}, p < q PROVE M!Unit(p) < M!Unit(q)
  <2>1. WideBefore(p) \subseteq WideBefore(q)
    BY <1>3 DEF WideBefore
  <2>2. Cardinality(WideBefore(p)) <= Cardinality(WideBefore(q))
    BY <2>1, WideFinite, FS_Subset
  <2>3. /\ M!Unit(p) = (p - 1) + Cardinality(WideBefore(p)) /\ Cardinality(WideBefore(p)) \in Nat
        /\ M!Unit(q) = (q - 1) + Cardinality(WideBefore(q)) /\ Cardinality(WideBefore(q)) \in Nat
    BY WideFinite
  <2> QED
    BY <1>3, <2>2, <2>3
<1>4. M!Unit(p + 1) = M!Unit(p) + M!UnitsOf(p)
  <2>1. /\ M!Unit(p) = (p - 1) + Cardinality(WideBefore(p)) /\ Cardinality(WideBefore(p)) \in Nat
        /\ IsFiniteSet(WideBefore(p))
        /\ M!Unit(p + 1) = (p + 1 - 1) + Cardinality(WideBefore(p + 1))
    <3>1. p \in Nat /\ p + 1 \in Nat
      OBVIOUS
    <3> QED
      BY <3>1, WideFinite
  <2>2. CASE Lines[p].kind = "wide"
    <3>1. WideBefore(p + 1) = WideBefore(p) \cup {p} /\ p \notin WideBefore(p)
      BY <2>2 DEF WideBefore
    <3>2. Cardinality(WideBefore(p + 1)) = Cardinality(WideBefore(p)) + 1
      BY <2>1, <3>1, FS_AddElement
    <3>3. M!UnitsOf(p) = 2
      BY <2>2 DEF M!UnitsOf, M!Lines, Lines
    <3> QED
      BY <2>1, <3>2, <3>3
  <2>3. CASE Lines[p].kind # "wide"
    <3>1. WideBefore(p + 1) = WideBefore(p)
      BY <2>3 DEF WideBefore
    <3>2. M!UnitsOf(p) = 1
      BY <2>3 DEF M!UnitsOf, M!Lines, Lines
    <3> QED
      BY <2>1, <3>1, <3>2
  <2> QED
    BY <2>2, <2>3
<1> QED
  BY <1>1, <1>2, <1>3, <1>4

(* Extending the sign of an encoded offset gives the offset back.          *)
LEMMA OffsetDecoded ==
  ASSUME NEW off \in -Half .. Half - 1
  PROVE  Sext(Encoded(off)) = off
<1>1. Half \in Nat \ {0}
  BY ProgramsAssumption
<1> DEFINE w == 2 * Half
<1>2. w \in Nat \ {0} /\ off \in Int /\ -Half <= off /\ off <= Half - 1
  BY <1>1
<1>3. CASE off >= 0
  <2>1. off % w = off
    BY <1>1, <1>2, <1>3
  <2> QED
    BY <1>1, <1>2, <1>3, <2>1 DEF Sext, Encoded
<1>4. CASE off < 0
  <2>1. off % w = off + w
    BY <1>1, <1>2, <1>4
  <2> QED
    BY <1>1, <1>2, <1>4, <2>1 DEF Sext, Encoded
<1> QED
  BY <1>2, <1>3, <1>4

(* What is known of the program's lines.                                   *)
LEMMA LineFacts ==
  ASSUME program \in Programs
  PROVE  /\ Len(Lines) \in Nat
         /\ \A p \in 1..Len(Lines) : Kind(p) = Lines[p].kind /\ Lines[p].to \in Int
         /\ program.bytes \in BOOLEAN
         /\ program.bytes => \A p \in 1..Len(Lines) :
              Kind(p) \notin {"label", "end"} /\ Lines[p].to \in -Half .. Half - 1
         /\ ~ program.bytes =>
              /\ Len(Lines) > 0 /\ Kind(1) = "label"
              /\ \A p, q \in 1..Len(Lines) :
                   /\ Kind(p) = "label" /\ Kind(q) = "label" /\ Lines[p].to = Lines[q].to => p = q
                   /\ Kind(p) = "end" /\ p < q => Kind(q) \in {"label", "end"}
         /\ \A p \in 1..Len(Lines) :
              Kind(p) = "cond" => p < Len(Lines) /\ Kind(p + 1) # "end"
<1>1. Wellformed(program) /\ program \in M!Program
  BY ProgramsAssumption DEF Wellformed
<1>2. Lines \in Seq(M!Line) /\ program.bytes \in BOOLEAN
  BY <1>1 DEF M!Program, Lines
<1>3. Len(Lines) \in Nat /\ \A p \in 1..Len(Lines) : Lines[p] \in M!Line
  BY <1>2, LenProperties, ElementOfSeq
<1>4. \A p \in 1..Len(Lines) : Kind(p) = Lines[p].kind /\ Lines[p].to \in Int
  BY <1>3 DEF Kind, M!Line
<1>5. program.bytes => \A p \in 1..Len(Lines) :
        Kind(p) \notin {"label", "end"} /\ Lines[p].to \in -Half .. Half - 1
  BY <1>1, <1>4 DEF Wellformed, Lines
<1>6. ASSUME ~ program.bytes
      PROVE  /\ Len(Lines) > 0 /\ Kind(1) = "label"
             /\ \A p, q \in 1..Len(Lines) :
                  /\ Kind(p) = "label" /\ Kind(q) = "label" /\ Lines[p].to = Lines[q].to => p = q
                  /\ Kind(p) = "end" /\ p < q => Kind(q) \in {"label", "end"}
  <2>1. /\ Len(Lines) > 0 /\ Lines[1].kind = "label"
        /\ \A p, q \in 1..Len(Lines) :
             /\ Lines[p].kind = "label" /\ Lines[p] = Lines[q] => p = q
             /\ Lines[p].kind = "end" /\ p < q => Lines[q].kind \in {"label", "end"}
    BY <1>1, <1>6 DEF Wellformed, Lines
  <2>2. 1 \in 1..Len(Lines)
    BY <1>3, <2>1
  <2>3. ASSUME NEW p \in 1..Len(Lines), NEW q \in 1..Len(Lines),
               Lines[p].kind = Lines[q].kind, Lines[p].to = Lines[q].to
        PROVE  Lines[p] = Lines[q]
    BY <1>3, <2>3 DEF M!Line
  <2> QED
    BY <1>4, <2>1, <2>2, <2>3
<1>7. ASSUME NEW p \in 1..Len(Lines), Kind(p) = "cond"
      PROVE  p < Len(Lines) /\ Kind(p + 1) # "end"
  <2>1. p < Len(Lines) /\ Lines[p + 1].kind # "end"
    BY <1>4, <1>7, LastLineAssumption DEF Lines
  <2>2. p + 1 \in 1..Len(Lines)
    BY <1>3, <2>1
  <2> QED
    BY <1>4, <2>1, <2>2
<1> QED
  BY <1>2, <1>3, <1>4, <1>5, <1>6, <1>7

(* The first line begins a block, and so does a line behind a terminator.  *)
LEMMA FirstStarts ==
  ASSUME program \in Programs
  PROVE  StartsBlock(1)
<1>1. CASE program.bytes
  <2>1. M!Unit(1) = 0
    BY UnitFacts
  <2> QED
    BY <1>1, <2>1 DEF StartsBlock, Leaders
<1>2. CASE ~ program.bytes
  BY <1>2, LineFacts DEF StartsBlock
<1> QED
  BY <1>1, <1>2

LEMMA TerminatorEnds ==
  ASSUME program \in Programs, NEW p \in 1..Len(Lines), Kind(p) \in M!Terminators
  PROVE  StartsBlock(p + 1)
<1>1. Len(Lines) \in Nat
  BY LineFacts
<1>2. CASE program.bytes
  <2>1. p \in Nat \ {0}
    BY <1>1
  <2>2. M!Unit(p + 1) = M!Unit(p) + M!UnitsOf(p)
    BY <2>1, UnitFacts
  <2>3. M!Unit(p) + M!UnitsOf(p) \in Leaders
    BY DEF Leaders
  <2> QED
    BY <1>2, <2>2, <2>3 DEF StartsBlock
<1>3. CASE ~ program.bytes
  <2>1. p + 1 > 1 /\ (p + 1) - 1 = p
    BY <1>1
  <2> QED
    BY <1>3, <2>1 DEF StartsBlock
<1> QED
  BY <1>2, <1>3

(* Lines give different names.                                             *)
LEMMA NamesApart ==
  ASSUME program \in Programs, NEW p \in 1..Len(Lines), NEW q \in 1..Len(Lines),
         NameAt(p) = NameAt(q)
  PROVE  p = q
<1>1. Len(Lines) \in Nat
  BY LineFacts
<1>2. p \in Nat \ {0} /\ q \in Nat \ {0}
  BY <1>1
<1>3. CASE program.bytes
  <2>1. M!Unit(p) = M!Unit(q)
    BY <1>3 DEF NameAt, Name
  <2>2. /\ p < q => M!Unit(p) < M!Unit(q)
        /\ q < p => M!Unit(q) < M!Unit(p)
        /\ M!Unit(p) \in Nat
    BY <1>2, UnitFacts
  <2> QED
    BY <1>2, <2>1, <2>2
<1>4. CASE ~ program.bytes
  <2>1. CASE Kind(p) = "label"
    <3>1. Kind(q) = "label" /\ Lines[p].to = Lines[q].to
      BY <1>4, <2>1 DEF NameAt, Name
    <3> QED
      BY <1>4, <2>1, <3>1, LineFacts
  <2>2. CASE Kind(p) # "label"
    BY <1>4, <2>2 DEF NameAt, Name
  <2> QED
    BY <2>1, <2>2
<1> QED
  BY <1>3, <1>4

(* A branch leads to the line that its operand names, which begins a       *)
(* block.                                                                  *)
LEMMA TargetNamed ==
  ASSUME program \in Programs, NEW p \in BranchLines, NEW q \in 1..Len(Lines)
  PROVE  /\ M!LeadsTo(p, q) => StartsBlock(q) /\ NameAt(q) = TargetName(p)
         /\ NameAt(q) = TargetName(p) => M!LeadsTo(p, q)
<1>1. Len(Lines) \in Nat /\ p \in 1..Len(Lines)
  BY LineFacts DEF BranchLines
<1>2. q \in 1..Len(M!Lines) /\ M!Lines = Lines
  BY DEF M!Lines, Lines
<1>3. CASE program.bytes
  <2>1. Lines[p].to \in -Half .. Half - 1
    BY <1>1, <1>3, LineFacts
  <2>2. BranchTargetUnit(p) = M!Unit(p) + M!UnitsOf(p) + Lines[p].to
    BY <2>1, OffsetDecoded DEF BranchTargetUnit
  <2>3. M!LeadsTo(p, q) <=> M!Unit(q) = BranchTargetUnit(p)
    BY <1>2, <1>3, <2>2 DEF M!LeadsTo
  <2>4. BranchTargetUnit(p) \in Leaders
    BY DEF Leaders
  <2> QED
    BY <1>3, <2>3, <2>4 DEF StartsBlock, NameAt, TargetName, Name
<1>4. CASE ~ program.bytes
  <2>1. M!LeadsTo(p, q) <=> Kind(q) = "label" /\ Lines[q].to = Lines[p].to
    BY <1>2, <1>4, LineFacts DEF M!LeadsTo
  <2> QED
    BY <1>4, <2>1 DEF StartsBlock, NameAt, TargetName, Name
<1> QED
  BY <1>3, <1>4

(* Everything that is said of the program alone stays as it is.            *)
LEMMA SameProgram ==
  ASSUME program' = program
  PROVE  /\ Lines' = Lines /\ BranchLines' = BranchLines /\ CodeLines' = CodeLines
         /\ Boundaries' = Boundaries
         /\ \A p : /\ Kind(p)' = Kind(p) /\ BranchTargetUnit(p)' = BranchTargetUnit(p)
                   /\ StartsBlock(p)' <=> StartsBlock(p)
                   /\ NameAt(p)' = NameAt(p)
                   /\ TargetName(p)' = TargetName(p)
         /\ \A block : BlockOK(block)' <=> BlockOK(block)
         /\ Astray' <=> Astray
<1>1. Lines' = Lines /\ M!Lines' = M!Lines
  BY DEF Lines, M!Lines
<1>2. \A p : Kind(p)' = Kind(p) /\ M!Unit(p)' = M!Unit(p) /\ M!UnitsOf(p)' = M!UnitsOf(p)
  BY <1>1 DEF Kind, M!Unit, M!UnitsOf
<1>3. BranchLines' = BranchLines /\ CodeLines' = CodeLines /\ Boundaries' = Boundaries
  BY <1>1, <1>2 DEF BranchLines, CodeLines, Boundaries
<1>4. \A p : BranchTargetUnit(p)' = BranchTargetUnit(p)
  BY <1>1, <1>2 DEF BranchTargetUnit, Sext, Encoded
<1>5. Leaders' = Leaders
  BY <1>1, <1>2, <1>3, <1>4 DEF Leaders
<1>6. \A p : /\ StartsBlock(p)' <=> StartsBlock(p)
             /\ NameAt(p)' = NameAt(p)
             /\ TargetName(p)' = TargetName(p)
  BY <1>1, <1>2, <1>4, <1>5 DEF StartsBlock, NameAt, TargetName, Name
<1>7. \A block : BlockOK(block)' <=> BlockOK(block)
  BY <1>6 DEF BlockOK
<1>8. \A p, q : M!LeadsTo(p, q)' <=> M!LeadsTo(p, q)
  BY <1>1, <1>2 DEF M!LeadsTo
<1>9. Astray' <=> Astray
  BY <1>3, <1>8 DEF Astray
<1> QED
  BY <1>1, <1>2, <1>3, <1>4, <1>6, <1>7, <1>9

(* A block's lines lie between its first and its last, none of them behind *)
(* the last line of the blocks.                                            *)
LEMMA BlockFacts ==
  ASSUME Inv, Covers, NEW b \in Base..Len(blocks)
  PROVE  /\ Len(blocks) \in Nat /\ b \in Nat /\ Base \in Nat
         /\ blocks[b].lines \in Seq(Nat) /\ Len(blocks[b].lines) \in Nat \ {0}
         /\ First(b) \in Nat \ {0} /\ LastLine(b) = First(b) + Len(blocks[b].lines) - 1
         /\ \A j \in 1..Len(blocks[b].lines) :
              blocks[b].lines[j] = First(b) + j - 1 /\ blocks[b].lines[j] \in 1..CodeEnd
         /\ LastLine(b) <= CodeEnd /\ First(b) <= LastLine(b)
<1>1. Len(blocks) \in Nat /\ Base \in {1, 2} /\ blocks \in Seq(Block)
  BY DEF Inv, TypeOK, Base
<1>2. ASSUME NEW c \in Base..Len(blocks)
      PROVE  /\ blocks[c].lines \in Seq(Nat) /\ Len(blocks[c].lines) \in Nat \ {0}
             /\ First(c) \in Nat /\ LastLine(c) = First(c) + Len(blocks[c].lines) - 1
             /\ \A j \in 1..Len(blocks[c].lines) : blocks[c].lines[j] = First(c) + j - 1
  <2>1. blocks[c] \in Block
    <3>1. c \in 1..Len(blocks)
      BY <1>1
    <3> QED
      BY <1>1, <3>1, ElementOfSeq
  <2>2. blocks[c].lines \in Seq(Nat) /\ BlockOK(blocks[c])
    BY <2>1 DEF Block, Covers
  <2>3. Len(blocks[c].lines) \in Nat \ {0}
    BY <2>2, LenProperties DEF BlockOK
  <2>4. First(c) \in Nat
    BY <2>2, <2>3, ElementOfSeq DEF First
  <2>5. \A j \in 1..Len(blocks[c].lines) : blocks[c].lines[j] = First(c) + j - 1
    BY <2>2 DEF BlockOK, First
  <2>6. LastLine(c) = First(c) + Len(blocks[c].lines) - 1
    BY <2>3, <2>5 DEF LastLine
  <2> QED
    BY <2>2, <2>3, <2>4, <2>5, <2>6
<1>3. \A c \in Base..Len(blocks) :
        First(c) \in Nat /\ LastLine(c) \in Nat /\ First(c) <= LastLine(c)
  <2> TAKE c \in Base..Len(blocks)
  <2>1. PICK k : k = Len(blocks[c].lines)
    OBVIOUS
  <2>2. First(c) \in Nat /\ k \in Nat \ {0} /\ LastLine(c) = First(c) + k - 1
    BY <1>2, <2>1
  <2> QED
    BY <2>2
<1>4. First(b) >= 1
  <2>1. Base \in Base..Len(blocks) /\ First(Base) = 1
    BY <1>1 DEF Covers
  <2>2. CASE b = Base
    BY <2>1, <2>2
  <2>3. CASE b # Base
    <3>1. b \in (Base + 1)..Len(blocks)
      BY <1>1, <2>3
    <3>2. LastLine(Base) < First(b)
      BY <2>1, <3>1 DEF Covers
    <3> QED
      BY <1>3, <2>1, <3>2
  <2> QED
    BY <2>2, <2>3
<1>5. LastLine(b) <= CodeEnd /\ CodeEnd \in Nat
  <2>1. Len(blocks) \in Base..Len(blocks) /\ CodeEnd = LastLine(Len(blocks))
    BY <1>1 DEF CodeEnd
  <2>2. CASE b = Len(blocks)
    BY <1>3, <2>1, <2>2
  <2>3. CASE b # Len(blocks)
    <3>1. Len(blocks) \in (b + 1)..Len(blocks)
      BY <1>1, <2>3
    <3>2. LastLine(b) < First(Len(blocks))
      BY <3>1 DEF Covers
    <3> QED
      BY <1>3, <2>1, <3>2
  <2> QED
    BY <2>2, <2>3
<1>6. \A j \in 1..Len(blocks[b].lines) : blocks[b].lines[j] \in 1..CodeEnd
  <2>1. PICK k : k = Len(blocks[b].lines)
    OBVIOUS
  <2>2. First(b) \in Nat /\ k \in Nat \ {0} /\ LastLine(b) = First(b) + k - 1
    BY <1>2, <2>1
  <2>3. ASSUME NEW j \in 1..k PROVE First(b) + j - 1 \in 1..CodeEnd
    BY <1>4, <1>5, <2>2
  <2> QED
    BY <1>2, <2>1, <2>3
<1>7. b \in Nat
  BY <1>1
<1> QED
  BY <1>1, <1>2, <1>3, <1>4, <1>5, <1>6, <1>7

(* One more line is read: it begins a block, or is the next of the last.   *)
LEMMA ReadLine ==
  ASSUME Inv, Covers, program \in Programs, program' = program, pc = "read", pc' = "read",
         next \in 1..Len(Lines), CodeEnd = next - 1,
         IF StartsBlock(next) THEN NewBlock(NameAt(next)) ELSE SameBlock
  PROVE  Covers' /\ CodeEnd' = next
<1>0. PICK n : n = Len(blocks)
  OBVIOUS
<1>1. n \in Nat /\ next \in Nat \ {0} /\ Base = 1 /\ Base' = 1 /\ blocks \in Seq(Block)
  BY <1>0 DEF Inv, TypeOK, Base
<1>2. \A b \in 1..n : /\ First(b) \in Nat \ {0} /\ LastLine(b) \in Nat
                      /\ LastLine(b) <= next - 1 /\ First(b) <= LastLine(b)
                      /\ Len(blocks[b].lines) \in Nat \ {0}
                      /\ \A j \in 1..Len(blocks[b].lines) : blocks[b].lines[j] \in 1..(next - 1)
  BY <1>0, <1>1, BlockFacts
<1>3. CASE StartsBlock(next)
  <2> DEFINE new == [name |-> NameAt(next), lines |-> <<next>>]
  <2>1. blocks' = Append(blocks, new) /\ new.lines = <<next>> /\ new.name = NameAt(next)
    BY <1>3 DEF NewBlock
  <2>2. BlockOK(new)
    <3>1. Len(new.lines) = 1 /\ new.lines[1] = next
      BY <2>1
    <3> HIDE DEF new
    <3> QED
      BY <1>0, <1>1, <1>3, <2>1, <3>1 DEF BlockOK
  <2> HIDE DEF new
  <2>3. /\ Len(blocks') = n + 1 /\ blocks'[n + 1] = new
        /\ \A b \in 1..n : blocks'[b] = blocks[b]
    <3>1. blocks \in Seq(Block \cup {new}) /\ new \in Block \cup {new}
      <4>1. DOMAIN blocks = 1..n /\ blocks \in [1..n -> Block]
        BY <1>0, <1>1
      <4>2. blocks \in [1..n -> Block \cup {new}]
        BY <4>1
      <4> QED
        BY <1>0, <1>1, <4>2, SeqDef
    <3> QED
      BY <1>0, <2>1, <3>1, AppendProperties
  <2>4. /\ \A b \in 1..n : First(b)' = First(b) /\ LastLine(b)' = LastLine(b)
        /\ First(n + 1)' = next /\ LastLine(n + 1)' = next
    <3>1. new.lines[1] = next /\ new.lines[Len(new.lines)] = next
      BY <2>1
    <3> QED
      BY <2>3, <3>1 DEF First, LastLine
  <2>5. \A b \in 1..(n + 1) : b \in 1..n \/ b = n + 1
    BY <1>0, <1>1
  <2>6. ASSUME NEW b \in 1..(n + 1) PROVE BlockOK(blocks[b])'
    <3>1. PICK block : block = blocks'[b]
      OBVIOUS
    <3>2. BlockOK(block)
      BY <1>0, <1>1, <2>2, <2>3, <2>5, <3>1 DEF Covers
    <3> QED
      BY <3>1, <3>2, SameProgram
  <2>7. \A b \in 1..(n + 1) : \A c \in (b + 1)..(n + 1) : LastLine(b)' < First(c)'
    <3> SUFFICES ASSUME NEW b \in 1..(n + 1), NEW c \in (b + 1)..(n + 1)
                 PROVE  LastLine(b)' < First(c)'
      OBVIOUS
    <3>1. b \in 1..n
      BY <1>0, <1>1
    <3>2. CASE c = n + 1
      BY <1>0, <1>1, <1>2, <2>4, <3>1, <3>2
    <3>3. CASE c # n + 1
      <4>1. c \in (b + 1)..n /\ c \in 1..n
        BY <1>0, <1>1, <3>1, <3>3
      <4> QED
        BY <1>0, <1>1, <2>4, <3>1, <4>1 DEF Covers
    <3> QED
      BY <3>2, <3>3
  <2>8. \A b \in 1..n : First(b + 1)' = LastLine(b)' + 1
    <3> TAKE b \in 1..n
    <3>1. CASE b = n
      <4>1. LastLine(n) = next - 1
        BY <1>0, <1>1, <3>1 DEF CodeEnd
      <4> QED
        BY <1>0, <1>1, <2>4, <3>1, <4>1
    <3>2. CASE b # n
      <4>1. b \in 1..(n - 1) /\ b + 1 \in 1..n
        BY <1>0, <1>1, <3>2
      <4> QED
        BY <1>0, <1>1, <2>4, <4>1 DEF Covers
    <3> QED
      BY <3>1, <3>2
  <2>9. First(1)' = 1
    <3>1. CASE n = 0
      BY <1>0, <1>1, <2>4, <3>1 DEF CodeEnd
    <3>2. CASE n > 0
      <4>1. 1 \in 1..n /\ First(1) = 1
        BY <1>0, <1>1, <3>2 DEF Covers
      <4> QED
        BY <2>4, <4>1
    <3> QED
      BY <1>0, <1>1, <3>1, <3>2
  <2>10. CodeEnd' = next
    BY <1>0, <1>1, <2>3, <2>4 DEF CodeEnd
  <2>11. ASSUME NEW p \in 1..next
         PROVE  \E b \in 1..(n + 1) : \E j \in 1..Len(blocks'[b].lines) : blocks'[b].lines[j] = p
    <3>1. CASE p = next
      <4>1. 1 \in 1..Len(blocks'[n + 1].lines) /\ blocks'[n + 1].lines[1] = p
        BY <2>1, <2>3, <3>1
      <4>2. n + 1 \in 1..(n + 1)
        BY <1>0, <1>1
      <4> QED
        BY <4>1, <4>2
    <3>2. CASE p # next
      <4>1. p \in 1..CodeEnd
        BY <1>0, <1>1, <3>2
      <4>2. PICK b \in 1..n : \E j \in 1..Len(blocks[b].lines) : blocks[b].lines[j] = p
        BY <1>0, <1>1, <4>1 DEF Covers
      <4>3. b \in 1..(n + 1) /\ blocks'[b] = blocks[b]
        BY <1>0, <1>1, <2>3
      <4> QED
        BY <4>2, <4>3
    <3> QED
      BY <3>1, <3>2
  <2>12. \A b \in 1..(Len(blocks') - 1) : b \in 1..n
    BY <1>0, <1>1, <2>3
  <2> QED
    BY <1>0, <1>1, <2>3, <2>6, <2>7, <2>8, <2>9, <2>10, <2>11, <2>12 DEF Covers
<1>4. CASE ~ StartsBlock(next)
  <2> DEFINE last == blocks[n]
             more == [last EXCEPT !.lines = Append(last.lines, next)]
             len == Len(last.lines)
  <2>1. n > 0
    <3>1. next # 1
      BY <1>4, FirstStarts
    <3> QED
      BY <1>0, <1>1, <3>1 DEF CodeEnd
  <2>2. n \in 1..n /\ last \in Block /\ last.lines \in Seq(Nat) /\ len \in Nat \ {0} /\ BlockOK(last)
    <3>1. n \in 1..n
      BY <1>0, <1>1, <2>1
    <3>2. last \in Block
      BY <1>0, <1>1, <3>1, ElementOfSeq
    <3> QED
      BY <1>0, <1>1, <1>2, <3>1, <3>2 DEF Block, Covers
  <2>3. blocks' = [blocks EXCEPT ![n] = more]
    BY <1>0, <1>4 DEF SameBlock
  <2>4. more.name = last.name /\ more.lines = Append(last.lines, next)
    BY <2>2 DEF Block
  <2>5. DOMAIN blocks = 1..n
    BY <1>0, <1>1
  <2>6. blocks'[n] = more /\ \A b \in 1..n : b # n => blocks'[b] = blocks[b]
    BY <1>0, <2>2, <2>3, <2>5
  <2>7. Len(blocks') = n
    <3>1. more \in Block
      <4>1. Append(last.lines, next) \in Seq(Nat)
        BY <1>0, <1>1, <2>2, AppendProperties
      <4> QED
        BY <2>2, <4>1 DEF Block
    <3> HIDE DEF more
    <3> QED
      BY <1>0, <1>1, <2>2, <2>3, <3>1
  <2>8. /\ Len(more.lines) = len + 1 /\ more.lines[len + 1] = next
        /\ \A j \in 1..len : more.lines[j] = last.lines[j]
    BY <1>0, <1>1, <2>2, <2>4, AppendProperties
  <2> HIDE DEF more
  <2>9. /\ \A b \in 1..n : First(b)' = First(b)
        /\ \A b \in 1..n : b # n => LastLine(b)' = LastLine(b)
        /\ LastLine(n)' = next
    <3>1. more.lines[1] = last.lines[1]
      BY <2>2, <2>8
    <3>2. \A b \in 1..n : First(b)' = First(b)
      BY <2>6, <3>1 DEF First
    <3>3. LastLine(n)' = next
      BY <2>6, <2>7, <2>8 DEF LastLine
    <3>4. \A b \in 1..n : b # n => LastLine(b)' = LastLine(b)
      BY <2>6 DEF LastLine
    <3> QED
      BY <3>2, <3>3, <3>4
  <2>10. BlockOK(more)
    <3>1. last.lines[len] = next - 1
      BY <1>0, <1>1, <2>1 DEF CodeEnd, LastLine
    <3>2. /\ \A j \in 1..len : last.lines[j] = last.lines[1] + j - 1
          /\ StartsBlock(last.lines[1]) /\ last.name = NameAt(last.lines[1])
          /\ \A j \in 2..len : ~ StartsBlock(last.lines[j])
      BY <2>2 DEF BlockOK
    <3>3. last.lines[1] \in Nat /\ more.lines[1] = last.lines[1]
      BY <2>2, <2>8, ElementOfSeq
    <3>4. len \in 1..len
      BY <2>2
    <3>5. next = last.lines[1] + (len + 1) - 1
      <4>1. PICK a, k : a = last.lines[1] /\ k = len
        OBVIOUS
      <4>2. next - 1 = a + k - 1 /\ a \in Nat /\ k \in Nat
        <5> HIDE DEF last, len
        <5> QED
          BY <2>2, <3>1, <3>2, <3>3, <3>4, <4>1
      <4>3. next = a + (k + 1) - 1
        BY <1>1, <4>2
      <4> QED
        BY <4>1, <4>3
    <3>6. ASSUME NEW j \in 1..(len + 1) PROVE more.lines[j] = more.lines[1] + j - 1
      <4>1. CASE j = len + 1
        BY <2>8, <3>3, <3>5, <4>1
      <4>2. CASE j \in 1..len
        BY <2>8, <3>2, <3>3, <4>2
      <4> QED
        BY <2>2, <4>1, <4>2
    <3>7. ASSUME NEW j \in 2..(len + 1) PROVE ~ StartsBlock(more.lines[j])
      <4>1. CASE j = len + 1
        BY <1>4, <2>8, <4>1
      <4>2. CASE j # len + 1
        <5>1. j \in 1..len /\ j \in 2..len
          BY <2>2, <4>2
        <5> QED
          BY <2>8, <3>2, <5>1
      <4> QED
        BY <4>1, <4>2
    <3>8. len + 1 >= 1
      BY <2>2
    <3> HIDE DEF len, last
    <3> QED
      BY <2>4, <2>8, <3>2, <3>3, <3>6, <3>7, <3>8 DEF BlockOK
  <2>11. ASSUME NEW b \in 1..n PROVE BlockOK(blocks[b])'
    <3>1. PICK block : block = blocks'[b]
      OBVIOUS
    <3>2. BlockOK(block)
      BY <1>0, <1>1, <2>6, <2>10, <3>1 DEF Covers
    <3> QED
      BY <3>1, <3>2, SameProgram
  <2>12. \A b \in 1..n : \A c \in (b + 1)..n : LastLine(b)' < First(c)'
    <3> SUFFICES ASSUME NEW b \in 1..n, NEW c \in (b + 1)..n PROVE LastLine(b)' < First(c)'
      OBVIOUS
    <3>1. b # n /\ c \in 1..n
      BY <1>0, <1>1
    <3> QED
      BY <1>0, <1>1, <2>9, <3>1 DEF Covers
  <2>13. \A b \in 1..(n - 1) : First(b + 1)' = LastLine(b)' + 1
    <3> TAKE b \in 1..(n - 1)
    <3>1. b \in 1..n /\ b # n /\ b + 1 \in 1..n
      BY <1>0, <1>1
    <3> QED
      BY <1>0, <1>1, <2>9, <3>1 DEF Covers
  <2>14. First(1)' = 1
    BY <1>0, <1>1, <2>1, <2>9 DEF Covers
  <2>15. CodeEnd' = next
    BY <1>0, <1>1, <2>1, <2>7, <2>9 DEF CodeEnd
  <2>16. ASSUME NEW p \in 1..next
         PROVE  \E b \in 1..n : \E j \in 1..Len(blocks'[b].lines) : blocks'[b].lines[j] = p
    <3>1. CASE p = next
      <4>1. len + 1 \in 1..Len(blocks'[n].lines) /\ blocks'[n].lines[len + 1] = p
        BY <2>2, <2>6, <2>8, <3>1
      <4> QED
        BY <2>2, <4>1
    <3>2. CASE p # next
      <4>1. p \in 1..CodeEnd
        BY <1>0, <1>1, <3>2
      <4>2. PICK b \in 1..n : \E j \in 1..Len(blocks[b].lines) : blocks[b].lines[j] = p
        BY <1>0, <1>1, <4>1 DEF Covers
      <4>3. PICK j \in 1..Len(blocks[b].lines) : blocks[b].lines[j] = p
        BY <4>2
      <4>4. CASE b # n
        BY <2>6, <4>3, <4>4
      <4>5. CASE b = n
        <5>1. j \in 1..Len(blocks'[n].lines) /\ blocks'[n].lines[j] = p
          <6>1. j \in 1..len /\ last.lines[j] = p
            BY <4>3, <4>5, SMTT(30)
          <6> HIDE DEF len, last
          <6>2. j \in 1..(len + 1) /\ more.lines[j] = p
            BY <2>2, <2>8, <6>1
          <6> QED
            BY <2>6, <2>8, <6>2
        <5> QED
          BY <2>2, <5>1
      <4> QED
        BY <4>4, <4>5
    <3> QED
      BY <3>1, <3>2
  <2> QED
    BY <1>0, <1>1, <2>7, <2>11, <2>12, <2>13, <2>14, <2>15, <2>16 DEF Covers
<1> QED
  BY <1>3, <1>4

LEMMA CoversSame ==
  ASSUME Covers, UNCHANGED <<program, blocks>>, Base' = Base
  PROVE  Covers' /\ CodeEnd' = CodeEnd
<1>1. \A b : First(b)' = First(b) /\ LastLine(b)' = LastLine(b)
  BY DEF First, LastLine
<1>2. ASSUME NEW b \in Base..Len(blocks) PROVE BlockOK(blocks[b])'
  <2>1. PICK block : block = blocks[b]
    OBVIOUS
  <2>2. BlockOK(block)'
    BY <2>1, SameProgram DEF Covers
  <2> QED
    BY <2>1, <2>2
<1>3. CodeEnd' = CodeEnd
  BY <1>1 DEF CodeEnd
<1>4. First(Base)' = First(Base)
  BY DEF First
<1> QED
  BY <1>1, <1>2, <1>3, <1>4 DEF Covers

(* While the lines are read there are no successors yet.                   *)
LEMMA ReadGraph ==
  ASSUME Inv, Graph, pc = "read", UNCHANGED <<program, succs, terms, here, pc>>, Covers', EndsAt'
  PROVE  Graph'
<1>1. Len(succs') = 0 /\ Len(terms') = 0
  BY DEF Inv, Stages
<1>2. TermsOK' /\ InBlock'
  BY <1>1 DEF TermsOK, InBlock, Graph
<1> QED
  BY <1>2 DEF Graph

LEMMA EmitLabelGraph == ASSUME Inv, Graph, EmitLabel PROVE Graph'
<1>1. /\ pc = "read" /\ ~ program.bytes /\ next <= Len(Lines)
      /\ Kind(next) \in {"label", "end"} /\ next' = next + 1
      /\ UNCHANGED <<program, succs, terms, here, flag, pc>>
      /\ ended' = (ended \/ Kind(next) = "end")
  BY DEF EmitLabel
<1>2. /\ program \in Programs /\ Covers /\ EndsAt /\ Len(Lines) \in Nat /\ next \in Nat \ {0}
      /\ ended \in BOOLEAN
  BY <1>1, LineFacts DEF Graph, Inv, TypeOK
<1>3. next \in 1..Len(Lines) /\ next' <= Len(Lines) + 1
  BY <1>1, <1>2
<1>4. Lines' = Lines /\ \A p : Kind(p)' = Kind(p)
  BY <1>1, SameProgram
<1>5. CASE ended'
  <2>1. UNCHANGED <<blocks, prev>>
    BY <1>5 DEF EmitLabel
  <2>2. Base' = Base
    BY <1>1 DEF Base
  <2>3. Covers' /\ CodeEnd' = CodeEnd
    BY <1>1, <1>2, <2>1, <2>2, CoversSame
  <2>4. CodeEnd \in 0..Len(Lines) /\ \A p \in 1..CodeEnd : Kind(p) # "end"
    BY <1>2 DEF EndsAt
  <2>5. CodeEnd + 1 < next' /\ Kind(CodeEnd + 1) = "end"
    <3>1. CASE ended
      BY <1>1, <1>2, <2>4, <3>1 DEF EndsAt
    <3>2. CASE ~ ended
      <4>1. CodeEnd = next - 1 /\ Kind(next) = "end"
        BY <1>1, <1>2, <1>5, <3>2 DEF EndsAt
      <4>2. CodeEnd + 1 = next
        BY <1>2, <4>1
      <4> QED
        BY <1>1, <1>2, <4>1, <4>2
    <3> QED
      BY <3>1, <3>2
  <2>6. PICK e : e = CodeEnd
    OBVIOUS
  <2>7. Kind(e + 1)' = "end"
    BY <1>4, <2>5, <2>6
  <2>8. Kind(CodeEnd + 1)' = "end"
    BY <2>3, <2>6, <2>7
  <2>9. EndsAt'
    BY <1>1, <1>3, <1>4, <1>5, <2>3, <2>4, <2>5, <2>8 DEF EndsAt, Linked
  <2> QED
    BY <1>1, <2>3, <2>9, ReadGraph
<1>6. CASE ~ ended'
  <2>1. ~ ended /\ Kind(next) = "label" /\ prev' = "label" /\ CodeEnd = next - 1
    BY <1>1, <1>2, <1>6 DEF EmitLabel, EndsAt
  <2>2. StartsBlock(next) /\ NameAt(next) = Name("label", Lines[next].to)
    BY <1>1, <2>1 DEF StartsBlock, NameAt
  <2>3. NewBlock(NameAt(next))
    BY <1>6, <2>2 DEF EmitLabel
  <2>4. Covers' /\ CodeEnd' = next
    BY <1>1, <1>2, <1>3, <2>1, <2>2, <2>3, ReadLine
  <2>5. \A p \in 1..next : Kind(p) # "end"
    <3> TAKE p \in 1..next
    <3>1. p = next \/ p \in 1..(next - 1)
      BY <1>2
    <3> QED
      BY <1>2, <2>1, <3>1 DEF EndsAt
  <2>6. next' - 1 = next
    BY <1>1, <1>2
  <2>7. Kind(next - 1)' \notin M!Terminators
    <3>1. PICK p : p = next
      OBVIOUS
    <3>2. Kind(p)' = "label"
      BY <1>4, <2>1, <3>1
    <3>3. Kind(next - 1)' = "label"
      BY <2>6, <3>1, <3>2
    <3> QED
      BY <3>3 DEF M!Terminators, M!Branches
  <2>8. M!Terminators' = M!Terminators
    BY DEF M!Terminators, M!Branches
  <2>9. EndsAt'
    BY <1>1, <1>3, <1>4, <1>6, <2>1, <2>4, <2>5, <2>6, <2>7, <2>8 DEF EndsAt, Linked
  <2> QED
    BY <1>1, <2>4, <2>9, ReadGraph
<1> QED
  BY <1>5, <1>6

LEMMA EmitInstructionGraph == ASSUME Inv, Graph, EmitInstruction PROVE Graph'
<1>1. /\ pc = "read" /\ ~ program.bytes /\ next <= Len(Lines)
      /\ Kind(next) \notin {"label", "end"} /\ next' = next + 1
      /\ UNCHANGED <<program, ended, succs, terms, here, flag, pc>>
      /\ prev' = IF Kind(next) \in M!Terminators THEN "terminator" ELSE "other"
  BY DEF EmitInstruction
<1>2. /\ program \in Programs /\ Covers /\ EndsAt /\ Len(Lines) \in Nat /\ next \in Nat \ {0}
      /\ ended \in BOOLEAN
  BY <1>1, LineFacts DEF Graph, Inv, TypeOK
<1>3. next \in 1..Len(Lines) /\ next' <= Len(Lines) + 1 /\ next' - 1 = next
  BY <1>1, <1>2
<1>4. Lines' = Lines /\ \A p : Kind(p)' = Kind(p)
  BY <1>1, SameProgram
<1>5. ~ ended
  <2> SUFFICES ASSUME ended PROVE FALSE
    BY <1>2
  <2>1. CodeEnd \in Nat /\ CodeEnd + 1 < next /\ Kind(CodeEnd + 1) = "end"
    BY <1>1, <1>2 DEF EndsAt
  <2>2. CodeEnd + 1 \in 1..Len(Lines)
    BY <1>2, <1>3, <2>1
  <2> QED
    BY <1>1, <1>2, <1>3, <2>1, <2>2, LineFacts
<1>6. CodeEnd = next - 1
  BY <1>1, <1>2, <1>5 DEF EndsAt
<1>7. next > 1 /\ (prev = "terminator" <=> Kind(next - 1) \in M!Terminators)
  <2>1. next # 1
    BY <1>1, <1>2, LineFacts
  <2> QED
    BY <1>1, <1>2, <1>5, <2>1 DEF EndsAt
<1>8. StartsBlock(next) <=> prev = "terminator"
  BY <1>1, <1>7 DEF StartsBlock
<1>9. NameAt(next) = Name("made", next)
  BY <1>1 DEF NameAt
<1>10. IF StartsBlock(next) THEN NewBlock(NameAt(next)) ELSE SameBlock
  BY <1>8, <1>9 DEF EmitInstruction
<1>11. Covers' /\ CodeEnd' = next
  BY <1>1, <1>2, <1>3, <1>6, <1>10, ReadLine
<1>12. \A p \in 1..next : Kind(p) # "end"
  <2> TAKE p \in 1..next
  <2>1. p = next \/ p \in 1..(next - 1)
    BY <1>2
  <2> QED
    BY <1>1, <1>2, <1>6, <2>1 DEF EndsAt
<1>13. prev' = "terminator" <=> Kind(next - 1)' \in M!Terminators
  <2>1. PICK p : p = next
    OBVIOUS
  <2>2. Kind(p)' = Kind(next)
    BY <1>4, <2>1
  <2>3. Kind(next - 1)' = Kind(next)
    BY <1>3, <2>1, <2>2
  <2> QED
    BY <1>1, <2>3
<1>14. M!Terminators' = M!Terminators
  BY DEF M!Terminators, M!Branches
<1>15. EndsAt'
  BY <1>1, <1>3, <1>4, <1>5, <1>11, <1>12, <1>13, <1>14 DEF EndsAt, Linked
<1> QED
  BY <1>1, <1>11, <1>15, ReadGraph

LEMMA AddInsnGraph == ASSUME Inv, Graph, AddInsn PROVE Graph'
<1>1. /\ pc = "read" /\ program.bytes /\ next <= Len(Lines) /\ next' = next + 1
      /\ UNCHANGED <<program, prev, ended, succs, terms, here, flag, pc>>
      /\ \A p \in BranchLines : BranchTargetUnit(p) \in Boundaries
  BY DEF AddInsn
<1>2. /\ program \in Programs /\ Covers /\ EndsAt /\ Len(Lines) \in Nat /\ next \in Nat \ {0}
      /\ ended \in BOOLEAN
  BY <1>1, LineFacts DEF Graph, Inv, TypeOK
<1>3. next \in 1..Len(Lines) /\ next' <= Len(Lines) + 1 /\ next' - 1 = next
  BY <1>1, <1>2
<1>4. /\ Lines' = Lines /\ BranchLines' = BranchLines /\ Boundaries' = Boundaries
      /\ \A p : Kind(p)' = Kind(p) /\ BranchTargetUnit(p)' = BranchTargetUnit(p)
  BY <1>1, SameProgram
<1>5. ~ ended /\ CodeEnd = next - 1
  BY <1>1, <1>2 DEF EndsAt
<1>6. IF StartsBlock(next) THEN NewBlock(NameAt(next)) ELSE SameBlock
  BY <1>1 DEF AddInsn, StartsBlock, NameAt
<1>7. Covers' /\ CodeEnd' = next
  BY <1>1, <1>2, <1>3, <1>5, <1>6, ReadLine
<1>8. \A p \in 1..next : Kind(p) # "end"
  <2> TAKE p \in 1..next
  <2>1. p \in 1..Len(Lines)
    BY <1>2, <1>3
  <2> QED
    BY <1>1, <1>2, <2>1, LineFacts
<1>9. EndsAt'
  BY <1>1, <1>3, <1>4, <1>5, <1>7, <1>8 DEF EndsAt, Linked
<1> QED
  BY <1>1, <1>7, <1>9, ReadGraph

(* A branch into nowhere is one of the function's.                         *)
LEMMA RefuseTargetGraph == ASSUME Inv, Graph, RefuseTarget PROVE Graph'
<1>1. /\ program.bytes /\ program \in Programs /\ Fail
  BY DEF RefuseTarget, Graph
<1>2. PICK p \in BranchLines : BranchTargetUnit(p) \notin Boundaries
  BY DEF RefuseTarget
<1>3. Len(Lines) \in Nat /\ CodeLines = 1..Len(Lines)
  <2>1. \A q \in 1..Len(Lines) : Kind(q) # "end"
    BY <1>1, LineFacts
  <2>2. Len(Lines) \in Nat
    BY <1>1, LineFacts
  <2> QED
    BY <2>1, <2>2 DEF CodeLines
<1>4. p \in CodeLines
  BY <1>3 DEF BranchLines
<1>5. ASSUME NEW q \in CodeLines PROVE ~ M!LeadsTo(p, q)
  <2> SUFFICES ASSUME M!LeadsTo(p, q) PROVE FALSE
    OBVIOUS
  <2>1. NameAt(q) = TargetName(p)
    BY <1>1, <1>3, TargetNamed
  <2>2. M!Unit(q) = BranchTargetUnit(p)
    BY <1>1, <2>1 DEF NameAt, TargetName, Name
  <2> QED
    BY <1>2, <1>3, <2>2 DEF Boundaries
<1>6. Astray
  BY <1>4, <1>5 DEF Astray
<1>7. Astray' /\ program' \in Programs /\ pc' = "failed"
  BY <1>1, <1>6, SameProgram DEF Fail
<1> QED
  BY <1>7 DEF Graph

LEMMA CheckEntryBlockGraph == ASSUME Inv, Graph, CheckEntryBlock PROVE Graph'
<1> DEFINE entry == [name |-> Name("entry", 0), lines |-> <<0>>]
<1>1. /\ pc = "read" /\ pc' = "link" /\ next = Len(Lines) + 1 /\ blocks # << >>
      /\ blocks' = <<entry>> \o blocks
      /\ UNCHANGED <<program, succs, terms, here>>
  BY DEF CheckEntryBlock
<1>2. /\ program \in Programs /\ Covers /\ EndsAt /\ InBlock /\ Len(Lines) \in Nat
      /\ ended \in BOOLEAN /\ succs = << >> /\ terms = << >>
      /\ blocks \in Seq(Block) /\ entry \in Block /\ entry.lines = <<0>>
  BY <1>1, LineFacts DEF Graph, Inv, TypeOK, Stages, Block, Name
<1> HIDE DEF entry
<1>3. PICK n : n = Len(blocks)
  OBVIOUS
<1>4. n \in Nat \ {0} /\ Base = 1 /\ Base' = 2
  BY <1>1, <1>2, <1>3, EmptySeq, LenProperties DEF Base
<1>5. /\ Len(blocks') = n + 1 /\ blocks'[1] = entry
      /\ \A b \in 2..(n + 1) : b - 1 \in 1..n /\ blocks'[b] = blocks[b - 1]
  BY <1>1, <1>2, <1>3, <1>4
<1>6. \A b \in 2..(n + 1) : First(b)' = First(b - 1) /\ LastLine(b)' = LastLine(b - 1)
  BY <1>5 DEF First, LastLine
<1>7. ASSUME NEW b \in 2..(n + 1) PROVE BlockOK(blocks[b])'
  <2>1. PICK block : block = blocks[b - 1]
    OBVIOUS
  <2>2. BlockOK(block)
    BY <1>2, <1>3, <1>4, <1>5, <2>1 DEF Covers
  <2>3. BlockOK(block)'
    BY <1>1, <2>2, SameProgram
  <2> QED
    BY <1>5, <2>1, <2>3
<1>8. \A b \in 2..(n + 1) : \A c \in (b + 1)..(n + 1) : LastLine(b)' < First(c)'
  <2> SUFFICES ASSUME NEW b \in 2..(n + 1), NEW c \in (b + 1)..(n + 1)
               PROVE  LastLine(b)' < First(c)'
    OBVIOUS
  <2>1. b - 1 \in 1..n /\ c \in 2..(n + 1) /\ c - 1 \in ((b - 1) + 1)..n
    BY <1>4
  <2>2. LastLine(b - 1) < First(c - 1)
    BY <1>2, <1>3, <1>4, <2>1 DEF Covers
  <2> QED
    BY <1>6, <2>1, <2>2
<1>9. \A b \in 2..n : First(b + 1)' = LastLine(b)' + 1
  <2> TAKE b \in 2..n
  <2>1. b - 1 \in 1..(n - 1) /\ b \in 2..(n + 1) /\ b + 1 \in 2..(n + 1)
    BY <1>4
  <2>2. (b - 1) + 1 = (b + 1) - 1
    BY <1>4
  <2>3. First((b - 1) + 1) = LastLine(b - 1) + 1
    BY <1>2, <1>3, <1>4, <2>1 DEF Covers
  <2> QED
    BY <1>6, <2>1, <2>2, <2>3
<1>10. First(2)' = 1
  <2>1. 2 \in 2..(n + 1) /\ 2 - 1 = 1
    BY <1>4
  <2>2. First(1) = 1
    BY <1>2, <1>3, <1>4 DEF Covers
  <2> QED
    BY <1>6, <2>1, <2>2
<1>11. CodeEnd' = CodeEnd
  <2>1. CodeEnd = LastLine(n) /\ CodeEnd' = LastLine(n + 1)'
    BY <1>3, <1>4, <1>5 DEF CodeEnd
  <2>2. n + 1 \in 2..(n + 1) /\ (n + 1) - 1 = n
    BY <1>4
  <2> QED
    BY <1>6, <2>1, <2>2
<1>12. ASSUME NEW p \in 1..CodeEnd
       PROVE  \E b \in 2..(n + 1) : \E j \in 1..Len(blocks'[b].lines) : blocks'[b].lines[j] = p
  <2>1. PICK b \in 1..n : \E j \in 1..Len(blocks[b].lines) : blocks[b].lines[j] = p
    BY <1>2, <1>3, <1>4, <1>12 DEF Covers
  <2>2. b + 1 \in 2..(n + 1) /\ (b + 1) - 1 = b
    BY <1>4
  <2>3. blocks'[b + 1] = blocks[b]
    BY <1>5, <2>2
  <2> QED
    BY <2>1, <2>2, <2>3
<1>13. (n + 1) - 1 = n
  BY <1>4
<1>14. Covers'
  BY <1>4, <1>5, <1>7, <1>8, <1>9, <1>10, <1>11, <1>12, <1>13 DEF Covers
<1>15. /\ Lines' = Lines /\ BranchLines' = BranchLines /\ Boundaries' = Boundaries
       /\ \A p : Kind(p)' = Kind(p) /\ BranchTargetUnit(p)' = BranchTargetUnit(p)
  BY <1>1, SameProgram
<1>16. EndsAt'
  <2>1. CodeEnd \in 0..Len(Lines) /\ \A p \in 1..CodeEnd : Kind(p) # "end"
    BY <1>2 DEF EndsAt
  <2>2. CodeEnd = Len(Lines) \/ Kind(CodeEnd + 1) = "end"
    BY <1>1, <1>2 DEF EndsAt
  <2>3. program.bytes => \A p \in BranchLines : BranchTargetUnit(p) \in Boundaries
    <3>1. n \in Base..n
      BY <1>4
    <3>2. CodeEnd >= 1
      <4>1. PICK k : k = Len(blocks[n].lines)
        OBVIOUS
      <4>2. /\ First(n) \in Nat \ {0} /\ LastLine(n) = First(n) + k - 1 /\ k \in Nat \ {0}
            /\ LastLine(n) <= CodeEnd
        BY <1>2, <1>3, <3>1, <4>1, BlockFacts
      <4> QED
        BY <2>1, <4>2
    <3>3. Len(Lines) >= 1
      BY <1>2, <2>1, <3>2
    <3> QED
      BY <1>1, <1>2, <3>3 DEF EndsAt
  <2>4. CodeEnd' = Len(Lines') \/ Kind(CodeEnd + 1)' = "end"
    <3>1. PICK e : e = CodeEnd
      OBVIOUS
    <3>2. e = Len(Lines) \/ Kind(e + 1)' = "end"
      BY <1>15, <2>2, <3>1
    <3> QED
      BY <1>11, <1>15, <3>1, <3>2
  <2>5. blocks'[1].lines = <<0>> /\ Len(blocks') >= 2
    BY <1>2, <1>4, <1>5
  <2> QED
    BY <1>1, <1>11, <1>15, <2>1, <2>3, <2>4, <2>5 DEF EndsAt
<1>17. Len(succs') = 0 /\ Len(terms') = 0
  BY <1>1, <1>2
<1>18. TermsOK' /\ InBlock'
  BY <1>1, <1>2, <1>17 DEF TermsOK, InBlock
<1> QED
  BY <1>1, <1>2, <1>14, <1>16, <1>18 DEF Graph

-----------------------------------------------------------------------------
(* Branches and their targets                                              *)

LEMMA LinkedFacts ==
  ASSUME Inv, Graph, pc \in Linked
  PROVE  /\ program \in Programs /\ Covers /\ EndsAt /\ TermsOK /\ InBlock
         /\ Base = 2 /\ Len(blocks) \in Nat /\ Len(blocks) >= 2
         /\ CodeEnd \in Nat /\ CodeLines = 1..CodeEnd
         /\ CodeEnd <= Len(Lines) /\ Len(Lines) \in Nat
         /\ LastLine(1) = 0 /\ Kind(LastLine(1)) = "entry" /\ blocks[1].lines = <<0>>
<1>1. program \in Programs /\ Covers /\ EndsAt /\ TermsOK /\ InBlock
  BY DEF Graph, Linked
<1>2. Base = 2 /\ Len(blocks) \in Nat /\ Len(blocks) >= 2 /\ blocks[1].lines = <<0>>
  BY <1>1 DEF Inv, TypeOK, Base, Linked, EndsAt
<1>3. /\ Len(Lines) \in Nat /\ CodeEnd \in 0..Len(Lines)
      /\ \A p \in 1..CodeEnd : Kind(p) # "end"
      /\ CodeEnd = Len(Lines) \/ Kind(CodeEnd + 1) = "end"
  BY <1>1, LineFacts DEF EndsAt
<1>4. CodeEnd \in Nat /\ CodeEnd <= Len(Lines)
  BY <1>3
<1>5. ASSUME NEW p \in 1..CodeEnd PROVE p \in CodeLines
  <2>1. p \in 1..Len(Lines) /\ \A q \in 1..p : q \in 1..CodeEnd
    BY <1>3, <1>4
  <2> QED
    BY <1>3, <2>1 DEF CodeLines
<1>6. ASSUME NEW p \in CodeLines PROVE p \in 1..CodeEnd
  <2>1. p \in 1..Len(Lines) /\ \A q \in 1..p : Kind(q) # "end"
    BY DEF CodeLines
  <2>2. SUFFICES ASSUME p > CodeEnd PROVE FALSE
    BY <1>3, <1>4, <2>1
  <2>3. CodeEnd # Len(Lines) /\ CodeEnd + 1 \in 1..p
    BY <1>3, <1>4, <2>1, <2>2
  <2> QED
    BY <1>3, <2>1, <2>3
<1>7. CodeLines = 1..CodeEnd
  BY <1>5, <1>6
<1>8. LastLine(1) = 0 /\ Kind(LastLine(1)) = "entry"
  BY <1>2 DEF LastLine, Kind
<1> QED
  BY <1>1, <1>2, <1>3, <1>4, <1>7, <1>8

LEMMA BranchLine ==
  ASSUME Inv, Graph, pc \in Linked, NEW b \in 1..Len(blocks), Kind(LastLine(b)) \in M!Branches
  PROVE  b \in 2..Len(blocks) /\ LastLine(b) \in CodeLines \cap BranchLines
<1>1. b # 1
  BY LinkedFacts DEF M!Branches
<1>2. b \in Base..Len(blocks) /\ Base = 2
  BY <1>1, LinkedFacts
<1>3. LastLine(b) \in 1..CodeEnd
  <2>1. Len(blocks[b].lines) \in 1..Len(blocks[b].lines)
    BY <1>2, BlockFacts, LinkedFacts
  <2> QED
    BY <1>2, <2>1, BlockFacts, LinkedFacts DEF LastLine
<1>4. LastLine(b) \in 1..Len(Lines)
  BY <1>3, LinkedFacts
<1> QED
  BY <1>2, <1>3, <1>4, LinkedFacts DEF BranchLines

(* A branch's target is the block that begins where the branch leads.      *)
LEMMA TargetFound ==
  ASSUME Inv, Graph, pc \in Linked, NEW b \in 1..Len(blocks), Kind(LastLine(b)) \in M!Branches
  PROVE  /\ Target(b) # 0 =>
              /\ Target(b) \in 2..Len(blocks) /\ First(Target(b)) \in CodeLines
              /\ M!LeadsTo(LastLine(b), First(Target(b)))
         /\ \A q \in CodeLines : M!LeadsTo(LastLine(b), q) => Target(b) # 0
<1>1. /\ program \in Programs /\ Covers /\ Base = 2 /\ Len(blocks) \in Nat
      /\ CodeEnd \in Nat /\ CodeLines = 1..CodeEnd /\ CodeEnd <= Len(Lines) /\ Len(Lines) \in Nat
  BY LinkedFacts
<1>2. PICK p : p = LastLine(b)
  OBVIOUS
<1>3. p \in BranchLines
  BY <1>2, BranchLine
<1> DEFINE named == {c \in 1..Len(blocks) : blocks[c].name = TargetName(p)}
<1>4. Target(b) = IF named = {} THEN 0 ELSE CHOOSE c \in named : TRUE
  BY <1>2 DEF Target, BlockNamed
<1>5. ASSUME Target(b) # 0
      PROVE  /\ Target(b) \in 2..Len(blocks) /\ First(Target(b)) \in CodeLines
             /\ M!LeadsTo(p, First(Target(b)))
  <2>1. Target(b) \in named
    BY <1>4, <1>5
  <2>2. Target(b) \in 2..Len(blocks)
    <3>1. blocks[1].name.of = "entry"
      BY DEF Inv, Stages
    <3>2. Target(b) \in {0} \cup Inner
      BY <3>1, TargetInside
    <3> QED
      BY <1>5, <3>2 DEF Inner
  <2>3. PICK t, q : t = Target(b) /\ q = First(t)
    OBVIOUS
  <2>4. t \in Base..Len(blocks) /\ blocks[t].name = TargetName(p)
    BY <1>1, <2>1, <2>2, <2>3
  <2> HIDE DEF named
  <2>5. NameAt(q) = TargetName(p)
    BY <1>1, <2>3, <2>4 DEF Covers, BlockOK, First
  <2>6. q \in CodeLines /\ q \in 1..Len(Lines)
    <3>1. q \in Nat \ {0} /\ q <= LastLine(t) /\ LastLine(t) <= CodeEnd /\ LastLine(t) \in Nat
      <4>1. PICK k : k = Len(blocks[t].lines)
        OBVIOUS
      <4>2. /\ q \in Nat \ {0} /\ q <= LastLine(t) /\ LastLine(t) <= CodeEnd
            /\ LastLine(t) = q + k - 1 /\ k \in Nat \ {0}
        BY <1>1, <2>3, <2>4, <4>1, BlockFacts
      <4> QED
        BY <4>2
    <3> QED
      BY <1>1, <3>1
  <2>7. M!LeadsTo(p, q)
    BY <1>1, <1>3, <2>5, <2>6, TargetNamed
  <2> QED
    BY <2>2, <2>3, <2>6, <2>7
<1>6. ASSUME NEW q \in CodeLines, M!LeadsTo(p, q) PROVE Target(b) # 0
  <2>1. q \in 1..Len(Lines) /\ q \in 1..CodeEnd
    BY <1>1
  <2>2. StartsBlock(q) /\ NameAt(q) = TargetName(p)
    BY <1>1, <1>3, <1>6, <2>1, TargetNamed
  <2>3. PICK c \in 2..Len(blocks) : \E j \in 1..Len(blocks[c].lines) : blocks[c].lines[j] = q
    BY <1>1, <2>1 DEF Covers
  <2>4. PICK j \in 1..Len(blocks[c].lines) : blocks[c].lines[j] = q
    BY <2>3
  <2>5. BlockOK(blocks[c]) /\ Len(blocks[c].lines) \in Nat
    BY <1>1, BlockFacts DEF Covers
  <2>6. j = 1
    <3>1. j \notin 2..Len(blocks[c].lines)
      BY <2>2, <2>4, <2>5 DEF BlockOK
    <3> QED
      BY <2>5, <3>1
  <2>7. blocks[c].name = TargetName(p)
    BY <2>2, <2>4, <2>5, <2>6 DEF BlockOK
  <2>8. c \in named
    BY <1>1, <2>7
  <2>9. Target(b) \in named
    BY <1>4, <2>8
  <2> QED
    BY <1>1, <2>9
<1> QED
  BY <1>2, <1>5, <1>6

(* A target that is not in the function is nowhere.                        *)
LEMMA NoTargetAstray ==
  ASSUME Inv, Graph, pc \in {"link", "lift"}, Kind(LastLine(next)) \in M!Branches, Target(next) = 0, Fail
  PROVE  Graph'
<1>1. next \in 1..Len(blocks) /\ pc \in Linked
  BY DEF Inv, TypeOK, Stages, Linked
<1>2. LastLine(next) \in CodeLines \cap BranchLines
  BY <1>1, BranchLine
<1>3. \A q \in CodeLines : ~ M!LeadsTo(LastLine(next), q)
  BY <1>1, TargetFound
<1>4. Astray
  BY <1>2, <1>3 DEF Astray
<1>5. Astray' /\ program' \in Programs /\ pc' = "failed"
  BY <1>1, <1>4, SameProgram, LinkedFacts DEF Fail
<1> QED
  BY <1>5 DEF Graph

-----------------------------------------------------------------------------
(* What is made of the blocks stays as long as they do.                    *)
LEMMA SameGraph ==
  ASSUME UNCHANGED <<program, blocks>>
  PROVE  /\ \A b : /\ LastLine(b)' = LastLine(b) /\ Kind(LastLine(b))' = Kind(LastLine(b))
                   /\ Target(b)' = Target(b) /\ SuccsOf(b)' = SuccsOf(b)
         /\ succs' = succs => \A b : TermOf(b)' = TermOf(b)
<1>1. \A b : LastLine(b)' = LastLine(b)
  BY DEF LastLine
<1>2. \A p : Kind(p)' = Kind(p) /\ TargetName(p)' = TargetName(p)
  BY SameProgram
<1>3. \A b : Kind(LastLine(b))' = Kind(LastLine(b)) /\ TargetName(LastLine(b))' = TargetName(LastLine(b))
  <2> TAKE b
  <2>1. PICK p : p = LastLine(b)
    OBVIOUS
  <2>2. Kind(p)' = Kind(p) /\ TargetName(p)' = TargetName(p)
    BY <1>2
  <2> QED
    BY <1>1, <2>1, <2>2
<1>4. \A b : Target(b)' = Target(b)
  <2> TAKE b
  <2>1. PICK name : name = TargetName(LastLine(b))
    OBVIOUS
  <2>2. BlockNamed(name)' = BlockNamed(name)
    BY DEF BlockNamed
  <2>3. TargetName(LastLine(b))' = name
    BY <1>3, <2>1
  <2> QED
    BY <2>1, <2>2, <2>3 DEF Target
<1>5. \A b : FallsTo(b)' = FallsTo(b)
  BY DEF FallsTo
<1>6. \A b : SuccsOf(b)' = SuccsOf(b)
  BY <1>3, <1>4, <1>5 DEF SuccsOf
<1>7. ASSUME succs' = succs PROVE \A b : TermOf(b)' = TermOf(b)
  <2>1. \A b : FalseSucc(b)' = FalseSucc(b)
    BY <1>4, <1>7 DEF FalseSucc
  <2> QED
    BY <1>3, <1>4, <1>7, <2>1 DEF TermOf, CondBr, Br, Ret
<1> QED
  BY <1>1, <1>3, <1>4, <1>6, <1>7

LEMMA LinkedSame ==
  ASSUME Inv, Graph, pc \in Linked, pc' \in Linked, UNCHANGED <<program, blocks>>
  PROVE  program' \in Programs /\ Covers' /\ EndsAt'
<1>1. program \in Programs /\ Covers /\ EndsAt /\ Base = 2 /\ Base' = 2
  BY LinkedFacts DEF Linked, Base
<1>2. Covers' /\ CodeEnd' = CodeEnd
  BY <1>1, CoversSame
<1>3. /\ Lines' = Lines /\ BranchLines' = BranchLines /\ Boundaries' = Boundaries
      /\ \A p : Kind(p)' = Kind(p) /\ BranchTargetUnit(p)' = BranchTargetUnit(p)
  BY SameProgram
<1>4. PICK e : e = CodeEnd
  OBVIOUS
<1>5. Kind(CodeEnd + 1)' = Kind(CodeEnd + 1)
  <2>1. Kind(e + 1)' = Kind(e + 1)
    BY <1>3
  <2> QED
    BY <1>2, <1>4, <2>1
<1>6. pc' # "read"
  BY DEF Linked
<1>7. EndsAt'
  BY <1>1, <1>2, <1>3, <1>5, <1>6 DEF EndsAt
<1> QED
  BY <1>1, <1>2, <1>7

LEMMA GenerateSuccessorsGraph == ASSUME Inv, Graph, GenerateSuccessors PROVE Graph'
<1>1. /\ pc = "link" /\ pc' \in {"link", "lift"}
      /\ succs' = Append(succs, SuccsOf(next))
      /\ UNCHANGED <<program, blocks, terms, here>>
  BY DEF GenerateSuccessors
<1>2. pc \in Linked /\ pc' \in Linked
  BY <1>1 DEF Linked
<1>3. program' \in Programs /\ Covers' /\ EndsAt'
  BY <1>1, <1>2, LinkedSame
<1>4. /\ Len(succs') = next /\ succs'[next] = SuccsOf(next)
      /\ \A b \in 1..Len(succs) : succs'[b] = succs[b]
      /\ next = Len(succs) + 1 /\ Len(succs) \in Nat /\ Len(terms') = 0
  <2>1. /\ Len(blocks) \in Nat /\ succs \in Seq(Seq(Nat \ {0})) /\ Len(succs) \in Nat
        /\ next = Len(succs) + 1 /\ next \in 1..Len(blocks)
        /\ blocks[1].name.of = "entry" /\ terms = << >>
    BY DEF Inv, TypeOK, Stages, Linked, GenerateSuccessors
  <2>2. SuccsOf(next) \in Seq(Inner)
    BY <2>1, SuccsOfInside DEF GenerateSuccessors
  <2>3. SuccsOf(next) \in Seq(Nat \ {0})
    BY <2>2 DEF Inner
  <2> QED
    BY <1>1, <2>1, <2>3
<1>5. \A b : SuccsOf(b)' = SuccsOf(b)
  BY <1>1, SameGraph
<1>6. ASSUME NEW b \in 1..Len(succs') PROVE succs'[b] = SuccsOf(b)'
  <2>1. b \in 1..Len(succs) \/ b = next
    BY <1>4
  <2>2. succs'[b] = SuccsOf(b)
    BY <1>2, <1>4, <2>1, LinkedFacts DEF TermsOK
  <2> QED
    BY <1>5, <2>2
<1>7. TermsOK'
  BY <1>1, <1>4, <1>6 DEF TermsOK
<1>8. InBlock'
  BY <1>1, <1>2, LinkedFacts DEF InBlock
<1> QED
  BY <1>1, <1>3, <1>7, <1>8 DEF Graph

LEMMA LiftBlockGraph == ASSUME Inv, Graph, LiftBlock PROVE Graph'
<1>1. /\ pc = "lift" /\ pc' \in {"lift", "run"}
      /\ Kind(LastLine(next)) \in M!Branches => Target(next) # 0
      /\ terms' = Append(terms, TermOf(next))
      /\ UNCHANGED <<program, blocks, succs, here>>
  BY DEF LiftBlock
<1>2. pc \in Linked /\ pc' \in Linked
  BY <1>1 DEF Linked
<1>3. program' \in Programs /\ Covers' /\ EndsAt'
  BY <1>1, <1>2, LinkedSame
<1>4. /\ Len(terms') = next /\ terms'[next] = TermOf(next)
      /\ \A b \in 1..Len(terms) : terms'[b] = terms[b]
      /\ next = Len(terms) + 1 /\ Len(terms) \in Nat /\ here.block = 1
  <2>1. /\ Len(blocks) \in Nat /\ Len(succs) = Len(blocks) /\ Len(terms) \in Nat
        /\ next = Len(terms) + 1 /\ next \in 1..Len(blocks) /\ terms \in Seq(Term)
        /\ blocks[1].name.of = "entry" /\ here.block = 1
    BY DEF Inv, TypeOK, Stages, Linked, LiftBlock
  <2>2. TermOf(next) \in Term
    BY <1>1, <2>1, TermOfInside
  <2> QED
    BY <1>1, <2>1, <2>2
<1>5. \A b : /\ SuccsOf(b)' = SuccsOf(b) /\ TermOf(b)' = TermOf(b) /\ Target(b)' = Target(b)
             /\ Kind(LastLine(b))' = Kind(LastLine(b))
  BY <1>1, SameGraph
<1>6. ASSUME NEW b \in 1..Len(terms')
      PROVE  /\ terms'[b] = TermOf(b)'
             /\ Kind(LastLine(b))' \in M!Branches => Target(b)' # 0
  <2>1. b \in 1..Len(terms) \/ b = next
    BY <1>4
  <2>2. terms'[b] = TermOf(b) /\ (Kind(LastLine(b)) \in M!Branches => Target(b) # 0)
    BY <1>1, <1>2, <1>4, <2>1, LinkedFacts DEF TermsOK
  <2> QED
    BY <1>5, <2>2
<1>7. M!Branches' = M!Branches /\ M!Terminators' = M!Terminators
  BY DEF M!Branches, M!Terminators
<1>8. TermsOK'
  <2>1. \A b \in 1..Len(succs) : succs[b] = SuccsOf(b)
    BY <1>2, LinkedFacts DEF TermsOK
  <2>2. pc' = "run" => Len(succs) = Len(blocks) /\ Len(terms') = Len(blocks)
    BY <1>1, <1>4 DEF LiftBlock, Inv, Stages
  <2> QED
    BY <1>1, <1>5, <1>6, <1>7, <2>1, <2>2 DEF TermsOK
<1>9. InBlock'
  <2>1. here'.place = 1 /\ here'.block = 1
    BY <1>1, <1>2, <1>4, LinkedFacts DEF InBlock
  <2>2. Len(Here') = 1
    <3>1. blocks'[1].lines = <<0>>
      BY <1>1, <1>2, LinkedFacts
    <3> QED
      BY <2>1, <3>1 DEF Here
  <2> QED
    BY <2>1, <2>2 DEF InBlock
<1> QED
  BY <1>1, <1>3, <1>8, <1>9 DEF Graph

(* A run leaves the graph alone.                                           *)
LEMMA RunGraph ==
  ASSUME Inv, Graph, pc = "run", pc' \in {"run", "returned"}, UNCHANGED Lifted, InBlock'
  PROVE  Graph'
<1>1. pc \in Linked /\ pc' \in Linked
  BY DEF Linked
<1>2. program' \in Programs /\ Covers' /\ EndsAt'
  BY <1>1, LinkedSame DEF Lifted
<1>3. \A b : /\ SuccsOf(b)' = SuccsOf(b) /\ TermOf(b)' = TermOf(b) /\ Target(b)' = Target(b)
             /\ Kind(LastLine(b))' = Kind(LastLine(b))
  BY SameGraph DEF Lifted
<1>4. M!Branches' = M!Branches
  BY DEF M!Branches
<1>5. TermsOK
  BY <1>1, LinkedFacts
<1>6. TermsOK'
  BY <1>3, <1>4, <1>5 DEF TermsOK, Lifted
<1> QED
  BY <1>2, <1>6 DEF Graph

(* Every block has a line, and the last line of one that a run has got     *)
(* beyond is not its terminator.                                           *)
LEMMA RunPlainGraph == ASSUME Inv, Graph, RunPlain PROVE Graph'
<1>1. pc = "run" /\ pc' = "run" /\ ~ AtTerm /\ here' = [here EXCEPT !.place = @ + 1] /\ UNCHANGED Lifted
  BY DEF RunPlain
<1>2. /\ here \in [block : Nat \ {0}, place : Nat \ {0}] /\ here.block \in 1..Len(blocks)
      /\ blocks \in Seq(Block)
  BY <1>1 DEF Inv, TypeOK, Stages
<1>3. here'.block = here.block /\ here'.place = here.place + 1
  BY <1>1, <1>2
<1>4. Here' = Here /\ Len(Here) \in Nat
  <2>1. blocks[here.block] \in Block
    BY <1>2, ElementOfSeq
  <2>2. blocks[here.block].lines \in Seq(Nat)
    BY <2>1 DEF Block
  <2> QED
    BY <1>1, <1>3, <2>2, LenProperties DEF Here, Lifted
<1>5. here.place <= Len(Here) /\ here.place \in Nat
  BY <1>1, <1>2, <1>4 DEF AtTerm
<1>6. here'.place <= Len(Here') + 1
  BY <1>3, <1>4, <1>5
<1>7. ASSUME here'.place = Len(Here') + 1
      PROVE  Kind(LastLine(here.block)) \notin M!Terminators \cup {"entry"}
  <2>1. here.place = Len(Here)
    BY <1>3, <1>4, <1>5, <1>7
  <2> QED
    BY <1>1, <2>1 DEF AtTerm, Here, LastLine
<1>8. Kind(LastLine(here.block))' = Kind(LastLine(here.block))
  <2>1. PICK b : b = here.block
    OBVIOUS
  <2>2. Kind(LastLine(b))' = Kind(LastLine(b))
    BY <1>1, SameGraph DEF Lifted
  <2> QED
    BY <1>3, <2>1, <2>2
<1>9. M!Terminators' = M!Terminators
  BY DEF M!Branches, M!Terminators
<1>10. InBlock'
  BY <1>1, <1>6, <1>7, <1>8, <1>9 DEF InBlock
<1> QED
  BY <1>1, <1>10, RunGraph

LEMMA RunTermGraph == ASSUME Inv, Graph, RunTerm PROVE Graph'
<1>1. pc = "run" /\ UNCHANGED Lifted /\ pc \in Linked
  BY DEF RunTerm, Linked
<1> DEFINE term == terms[here.block]
<1>2. /\ here.block \in 1..Len(terms) /\ Len(blocks) \in Nat
      /\ term.kind # "ret" => term.t \in 2..Len(blocks) /\ term.f \in 2..Len(blocks)
  <2>1. here.block \in 1..Len(terms) /\ Len(blocks) \in Nat
    BY <1>1 DEF Inv, TypeOK, Stages
  <2> QED
    BY <2>1 DEF Inv, TermsInside, Inner
<1>3. \/ pc' = "returned"
      \/ \E b \in 2..Len(blocks) : GoTo(b)
  BY <1>2 DEF RunTerm
<1>4. CASE pc' = "returned"
  <2>1. InBlock'
    BY <1>4 DEF InBlock
  <2> QED
    BY <1>1, <1>4, <2>1, RunGraph
<1>5. ASSUME NEW b \in 2..Len(blocks), GoTo(b) PROVE Graph'
  <2>1. here'.block = b /\ here'.place = 1 /\ pc' = "run"
    BY <1>1, <1>5 DEF GoTo
  <2>2. Here' = blocks[b].lines
    BY <1>1, <2>1 DEF Here, Lifted
  <2>3. Len(blocks[b].lines) \in Nat \ {0}
    BY <1>1, LinkedFacts, BlockFacts
  <2>4. InBlock'
    BY <2>1, <2>2, <2>3 DEF InBlock
  <2> QED
    BY <1>1, <2>1, <2>4, RunGraph
<1> QED
  BY <1>3, <1>4, <1>5

LEMMA GraphInit == Init => Graph
<1> SUFFICES ASSUME Init PROVE Graph
  OBVIOUS
<1>1. /\ pc = "read" /\ Base = 1 /\ Len(blocks) = 0 /\ Len(succs) = 0 /\ Len(terms) = 0
      /\ next = 1 /\ ~ ended /\ here.place = 1 /\ program \in Programs
  BY DEF Init, Base
<1>2. CodeEnd = 0 /\ Covers
  BY <1>1 DEF CodeEnd, Covers
<1>3. Len(Lines) \in Nat
  BY <1>1, LineFacts
<1>4. EndsAt
  BY <1>1, <1>2, <1>3 DEF EndsAt, Linked
<1> QED
  BY <1>1, <1>2, <1>4 DEF Graph, TermsOK, InBlock

LEMMA GraphStep == Inv /\ Graph /\ [Next]_vars => Graph'
<1> SUFFICES ASSUME Inv, Graph, [Next]_vars PROVE Graph'
  OBVIOUS
<1>1. CASE EmitLabel
  BY <1>1, EmitLabelGraph
<1>2. CASE EmitInstruction
  BY <1>2, EmitInstructionGraph
<1>3. CASE RefuseTarget
  BY <1>3, RefuseTargetGraph
<1>4. CASE AddInsn
  BY <1>4, AddInsnGraph
<1>5. CASE CheckEntryBlock
  BY <1>5, CheckEntryBlockGraph
<1>6. CASE NoCondTarget
  BY <1>6, NoTargetAstray DEF NoCondTarget, M!Branches
<1>7. CASE GenerateSuccessors
  BY <1>7, GenerateSuccessorsGraph
<1>8. CASE NoTarget
  BY <1>8, NoTargetAstray DEF NoTarget
<1>9. CASE LiftBlock
  BY <1>9, LiftBlockGraph
<1>10. CASE RunPlain
  BY <1>10, RunPlainGraph
<1>11. CASE RunTerm
  BY <1>11, RunTermGraph
<1>12. CASE UNCHANGED vars
  <2>1. UNCHANGED <<program, next, prev, ended, blocks, succs, terms, here, flag, pc>>
    BY <1>12 DEF vars
  <2>2. CASE pc = "failed"
    BY <2>1, <2>2, SameProgram DEF Graph
  <2>3. CASE pc = "read"
    <3>1. Covers' /\ CodeEnd' = CodeEnd
      BY <2>1, <2>3, CoversSame DEF Graph, Base
    <3>2. EndsAt'
      <4>1. /\ Lines' = Lines /\ BranchLines' = BranchLines /\ Boundaries' = Boundaries
            /\ \A p : Kind(p)' = Kind(p) /\ BranchTargetUnit(p)' = BranchTargetUnit(p)
        BY <2>1, SameProgram
      <4>2. Kind(CodeEnd + 1)' = Kind(CodeEnd + 1) /\ Kind(next - 1)' = Kind(next - 1)
        <5>1. PICK e, n : e = CodeEnd /\ n = next
          OBVIOUS
        <5>2. Kind(e + 1)' = Kind(e + 1) /\ Kind(n - 1)' = Kind(n - 1)
          BY <4>1
        <5> QED
          BY <2>1, <3>1, <5>1, <5>2
      <4>3. M!Terminators' = M!Terminators
        BY DEF M!Branches, M!Terminators
      <4> QED
        BY <2>1, <2>3, <3>1, <4>1, <4>2, <4>3 DEF Graph, EndsAt, Linked
    <3> QED
      BY <2>1, <2>3, <3>1, <3>2, ReadGraph
  <2>4. CASE pc \in Linked
    <3>1. program' \in Programs /\ Covers' /\ EndsAt'
      BY <2>1, <2>4, LinkedSame
    <3>2. \A b : /\ SuccsOf(b)' = SuccsOf(b) /\ TermOf(b)' = TermOf(b) /\ Target(b)' = Target(b)
                 /\ Kind(LastLine(b))' = Kind(LastLine(b))
      BY <2>1, SameGraph
    <3>3. M!Branches' = M!Branches /\ M!Terminators' = M!Terminators
      BY DEF M!Branches, M!Terminators
    <3>4. TermsOK'
      BY <2>1, <2>4, <3>2, <3>3, LinkedFacts DEF TermsOK
    <3>5. Kind(LastLine(here.block))' = Kind(LastLine(here.block))
      <4>1. PICK b : b = here.block
        OBVIOUS
      <4>2. Kind(LastLine(b))' = Kind(LastLine(b))
        BY <3>2
      <4> QED
        BY <2>1, <4>1, <4>2
    <3>6. Here' = Here
      BY <2>1 DEF Here
    <3>7. InBlock'
      BY <2>1, <2>4, <3>3, <3>5, <3>6, LinkedFacts DEF InBlock
    <3>8. pc' # "failed"
      BY <2>1, <2>4 DEF Linked
    <3> QED
      BY <3>1, <3>4, <3>7, <3>8 DEF Graph
  <2> QED
    BY <2>2, <2>3, <2>4 DEF Inv, TypeOK, Linked
<1> QED
  BY <1>1, <1>2, <1>3, <1>4, <1>5, <1>6, <1>7, <1>8, <1>9, <1>10, <1>11, <1>12 DEF Next

-----------------------------------------------------------------------------
(* Blocks and refusals                                                     *)

(* A line of the function lies in one place, in a block of its own.        *)
LEMMA LinePlace ==
  ASSUME Inv, Graph, pc \in Linked, NEW p \in CodeLines
  PROVE  \E b \in 2..Len(blocks) : \E j \in 1..Len(blocks[b].lines) :
           /\ blocks[b].lines[j] = p
           /\ \A c \in 1..Len(blocks) : \A m \in 1..Len(blocks[c].lines) :
                blocks[c].lines[m] = p => c = b /\ m = j
           /\ Kind(p) \in M!Terminators => j = Len(blocks[b].lines)
           /\ (\E q \in CodeLines \cap BranchLines : M!LeadsTo(q, p)) => j = 1
<1>1. /\ program \in Programs /\ Covers /\ Base = 2 /\ Len(blocks) \in Nat
      /\ CodeEnd \in Nat /\ CodeLines = 1..CodeEnd /\ CodeEnd <= Len(Lines) /\ Len(Lines) \in Nat
      /\ blocks[1].lines = <<0>>
  BY LinkedFacts
<1>2. p \in 1..CodeEnd /\ p \in 1..Len(Lines)
  BY <1>1
<1>3. PICK b \in 2..Len(blocks) : \E j \in 1..Len(blocks[b].lines) : blocks[b].lines[j] = p
  BY <1>1, <1>2 DEF Covers
<1>4. PICK j \in 1..Len(blocks[b].lines) : blocks[b].lines[j] = p
  BY <1>3
<1>5. ASSUME NEW c \in 2..Len(blocks)
      PROVE  /\ First(c) \in Nat /\ LastLine(c) \in Nat /\ Len(blocks[c].lines) \in Nat
             /\ \A m \in 1..Len(blocks[c].lines) :
                  /\ blocks[c].lines[m] = First(c) + m - 1
                  /\ First(c) <= blocks[c].lines[m] /\ blocks[c].lines[m] <= LastLine(c)
  <2>1. PICK k : k = Len(blocks[c].lines)
    OBVIOUS
  <2>2. /\ First(c) \in Nat /\ k \in Nat \ {0} /\ LastLine(c) = First(c) + k - 1
        /\ \A m \in 1..k : blocks[c].lines[m] = First(c) + m - 1
    BY <1>1, <2>1, BlockFacts
  <2>3. \A m \in 1..k : First(c) <= First(c) + m - 1 /\ First(c) + m - 1 <= LastLine(c)
    BY <2>2
  <2>4. LastLine(c) \in Nat
    BY <2>2
  <2> QED
    BY <2>1, <2>2, <2>3, <2>4
<1>6. ASSUME NEW c \in 2..Len(blocks), NEW d \in 2..Len(blocks), c < d
      PROVE  LastLine(c) < First(d)
  <2>1. d \in (c + 1)..Len(blocks)
    BY <1>1, <1>6
  <2> QED
    BY <1>1, <2>1 DEF Covers
<1>7. ASSUME NEW c \in 1..Len(blocks), NEW m \in 1..Len(blocks[c].lines), blocks[c].lines[m] = p
      PROVE  c = b /\ m = j
  <2>1. c # 1
    <3> SUFFICES ASSUME c = 1 PROVE FALSE
      OBVIOUS
    <3>1. blocks[c].lines = <<0>>
      BY <1>1
    <3>2. p = 0
      BY <1>7, <3>1
    <3> QED
      BY <1>2, <3>2
  <2>2. c \in 2..Len(blocks)
    BY <1>1, <2>1
  <2>3. First(c) <= p /\ p <= LastLine(c) /\ First(b) <= p /\ p <= LastLine(b) /\ p \in Nat
    <3>1. First(c) <= p /\ p <= LastLine(c)
      BY <1>5, <1>7, <2>2
    <3>2. First(b) <= p /\ p <= LastLine(b)
      BY <1>4, <1>5
    <3>3. p \in Nat
      BY <1>2
    <3> QED
      BY <3>1, <3>2, <3>3
  <2>4. /\ First(c) \in Nat /\ LastLine(c) \in Nat /\ First(b) \in Nat /\ LastLine(b) \in Nat
        /\ b \in Nat /\ c \in Nat
    BY <1>1, <1>5, <2>2
  <2>5. ~ (c < b) /\ ~ (b < c)
    BY <1>6, <2>2, <2>3, <2>4
  <2>6. c = b
    BY <2>4, <2>5
  <2>7. p = First(b) + m - 1 /\ p = First(b) + j - 1
    BY <1>4, <1>5, <1>7, <2>6
  <2>8. m \in Nat /\ j \in Nat
    BY <1>5, <2>2
  <2> QED
    BY <2>4, <2>6, <2>7, <2>8
<1>8. BlockOK(blocks[b]) /\ Len(blocks[b].lines) \in Nat
  BY <1>1, <1>5 DEF Covers
<1>9. ASSUME Kind(p) \in M!Terminators PROVE j = Len(blocks[b].lines)
  <2> SUFFICES ASSUME j # Len(blocks[b].lines) PROVE FALSE
    OBVIOUS
  <2>1. j + 1 \in 2..Len(blocks[b].lines) /\ j + 1 \in 1..Len(blocks[b].lines)
    BY <1>8
  <2>2. StartsBlock(p + 1)
    BY <1>1, <1>2, <1>9, TerminatorEnds
  <2>3. blocks[b].lines[j + 1] = p + 1
    <3>1. blocks[b].lines[j + 1] = First(b) + (j + 1) - 1 /\ p = First(b) + j - 1 /\ First(b) \in Nat
      BY <1>4, <1>5, <2>1
    <3> QED
      BY <1>8, <3>1
  <2> QED
    BY <1>8, <2>1, <2>2, <2>3 DEF BlockOK
<1>10. ASSUME NEW q \in CodeLines \cap BranchLines, M!LeadsTo(q, p) PROVE j = 1
  <2>1. StartsBlock(p)
    BY <1>1, <1>2, <1>10, TargetNamed
  <2>2. j \notin 2..Len(blocks[b].lines)
    BY <1>4, <1>8, <2>1 DEF BlockOK
  <2> QED
    BY <1>8, <2>2
<1> QED
  BY <1>4, <1>7, <1>9, <1>10

LEMMA GraphFaithful == Inv /\ Graph => BlocksFaithful
<1> SUFFICES ASSUME Inv, Graph, pc \in Linked
             PROVE  /\ \A b, c \in 1..Len(blocks) : blocks[b].name = blocks[c].name => b = c
                    /\ \A p \in CodeLines :
                         \E b \in 1..Len(blocks) : \E j \in 1..Len(blocks[b].lines) :
                           /\ blocks[b].lines[j] = p
                           /\ \A c \in 1..Len(blocks) : \A m \in 1..Len(blocks[c].lines) :
                                blocks[c].lines[m] = p => c = b /\ m = j
                           /\ Kind(p) \in M!Terminators => j = Len(blocks[b].lines)
                           /\ (\E q \in CodeLines \cap BranchLines : M!LeadsTo(q, p)) => j = 1
  BY DEF BlocksFaithful, Linked
<1>1. /\ program \in Programs /\ Covers /\ Base = 2 /\ Len(blocks) \in Nat
      /\ CodeEnd \in Nat /\ CodeEnd <= Len(Lines) /\ Len(Lines) \in Nat
  BY LinkedFacts
<1>2. \A b \in 2..Len(blocks) : b \in 1..Len(blocks)
  BY <1>1
<1>3. ASSUME NEW c \in 2..Len(blocks)
      PROVE  /\ First(c) \in 1..Len(Lines) /\ LastLine(c) \in Nat /\ First(c) <= LastLine(c)
             /\ blocks[c].name = NameAt(First(c))
  <2>1. PICK k : k = Len(blocks[c].lines)
    OBVIOUS
  <2>2. /\ First(c) \in Nat \ {0} /\ k \in Nat \ {0} /\ LastLine(c) = First(c) + k - 1
        /\ LastLine(c) <= CodeEnd
    BY <1>1, <2>1, BlockFacts
  <2>3. blocks[c].name = NameAt(First(c))
    BY <1>1 DEF Covers, BlockOK, First
  <2> QED
    BY <1>1, <2>2, <2>3
<1>4. \A p : NameAt(p).of # "entry"
  BY DEF NameAt, Name
<1>5. blocks[1].name.of = "entry"
  BY DEF Inv, Stages
<1>6. ASSUME NEW b \in 1..Len(blocks), NEW c \in 1..Len(blocks), blocks[b].name = blocks[c].name
      PROVE  b = c
  <2>1. CASE b = 1 \/ c = 1
    <3>1. b \notin 2..Len(blocks) \/ c \notin 2..Len(blocks)
      BY <2>1
    <3>2. \A d \in 2..Len(blocks) : blocks[d].name.of # "entry"
      BY <1>3, <1>4
    <3>3. b \notin 2..Len(blocks) /\ c \notin 2..Len(blocks)
      BY <1>5, <1>6, <2>1, <3>2
    <3> QED
      BY <1>1, <3>3
  <2>2. CASE b # 1 /\ c # 1
    <3>1. b \in 2..Len(blocks) /\ c \in 2..Len(blocks)
      BY <1>1, <2>2
    <3>2. First(b) = First(c)
      BY <1>1, <1>3, <1>6, <3>1, NamesApart
    <3>3. b < c => c \in (b + 1)..Len(blocks)
      BY <1>1
    <3>4. c < b => b \in (c + 1)..Len(blocks)
      BY <1>1
    <3>5. /\ b < c => LastLine(b) < First(c)
          /\ c < b => LastLine(c) < First(b)
      BY <1>1, <3>1, <3>3, <3>4 DEF Covers
    <3>6. First(b) \in Nat /\ First(b) <= LastLine(b) /\ First(c) <= LastLine(c)
          /\ LastLine(b) \in Nat /\ LastLine(c) \in Nat
      BY <1>3, <3>1
    <3>7. ~ (b < c) /\ ~ (c < b)
      BY <3>2, <3>5, <3>6
    <3> QED
      BY <1>1, <3>7
  <2> QED
    BY <2>1, <2>2
<1>7. ASSUME NEW p \in CodeLines
      PROVE  \E b \in 1..Len(blocks) : \E j \in 1..Len(blocks[b].lines) :
               /\ blocks[b].lines[j] = p
               /\ \A c \in 1..Len(blocks) : \A m \in 1..Len(blocks[c].lines) :
                    blocks[c].lines[m] = p => c = b /\ m = j
               /\ Kind(p) \in M!Terminators => j = Len(blocks[b].lines)
               /\ (\E q \in CodeLines \cap BranchLines : M!LeadsTo(q, p)) => j = 1
  <2>1. PICK b \in 2..Len(blocks) : \E j \in 1..Len(blocks[b].lines) :
          /\ blocks[b].lines[j] = p
          /\ \A c \in 1..Len(blocks) : \A m \in 1..Len(blocks[c].lines) :
               blocks[c].lines[m] = p => c = b /\ m = j
          /\ Kind(p) \in M!Terminators => j = Len(blocks[b].lines)
          /\ (\E q \in CodeLines \cap BranchLines : M!LeadsTo(q, p)) => j = 1
    BY LinePlace
  <2>2. b \in 1..Len(blocks)
    BY <1>2
  <2> QED
    BY <2>1, <2>2
<1> QED
  BY <1>6, <1>7

LEMMA GraphRefuses == Inv /\ Graph => RefusedRightly
<1> SUFFICES ASSUME Inv, Graph PROVE RefusedRightly
  OBVIOUS
<1>1. ASSUME pc \in {"run", "returned"} PROVE ~ Astray
  <2>1. pc \in Linked /\ TermsOK /\ Len(terms) = Len(blocks)
    BY <1>1 DEF Linked, Graph, TermsOK, Inv, Stages
  <2>2. ASSUME NEW p \in CodeLines \cap BranchLines
        PROVE  \E q \in CodeLines : M!LeadsTo(p, q)
    <3>1. Kind(p) \in M!Branches /\ Kind(p) \in M!Terminators
      BY DEF BranchLines, M!Terminators
    <3>2. PICK b \in 2..Len(blocks) : blocks[b].lines[Len(blocks[b].lines)] = p
      BY <2>1, <3>1, LinePlace
    <3>3. b \in 1..Len(blocks) /\ LastLine(b) = p
      BY <2>1, <3>2, LinkedFacts DEF LastLine
    <3>4. Target(b) # 0
      BY <2>1, <3>1, <3>3 DEF TermsOK
    <3> QED
      BY <2>1, <3>1, <3>3, <3>4, TargetFound
  <2> QED
    BY <2>2 DEF Astray
<1>2. pc = "failed" => Astray
  BY DEF Graph
<1> QED
  BY <1>1, <1>2 DEF RefusedRightly, Astray

THEOREM GraphInvariance == Spec => []Graph
<1>1. Init => Inv /\ Graph
  BY InvInit, GraphInit
<1>2. Inv /\ Graph /\ [Next]_vars => Inv' /\ Graph'
  BY InvStep, GraphStep
<1> QED
  BY <1>1, <1>2, PTL DEF Spec

(* BlocksFaithful: for every program, the blocks that the streamer's       *)
(* callbacks or runBytes make have names of their own and cut the code     *)
(* into runs of lines that branches enter only at the first line and leave *)
(* only behind the last.                                                   *)
THEOREM BlocksSound == Spec => []BlocksFaithful
<1> QED
  BY Invariance, GraphInvariance, GraphFaithful, PTL

(* RefusedRightly: generateSuccessors, getBB and runBytes give a function  *)
(* up exactly when one of its branches leads nowhere, whatever the width   *)
(* of its offsets.                                                         *)
THEOREM RefusalsSound == Spec => []RefusedRightly
<1> QED
  BY Invariance, GraphInvariance, GraphRefuses, PTL

-----------------------------------------------------------------------------
(* A run of the lifted function                                            *)

LEMMA PositionFacts ==
  ASSUME Inv
  PROVE  /\ pc = "returned" => Position = 0
         /\ pc \notin {"returned", "run"} => Position = 1
         /\ pc = "run" /\ here.block = 1 => Position = 1
         /\ pc = "run" /\ here.block > 1 /\ here.place <= Len(Here) => Position = Here[here.place]
         /\ pc = "run" /\ here.block > 1 /\ here.place > Len(Here) =>
              Position = Here[here.place - 1] + 1
<1>1. CASE pc # "run"
  BY <1>1 DEF Position
<1>2. CASE pc = "run"
  <2>1. blocks[here.block] \in Block /\ here.place \in Nat
    <3>1. here.block \in 1..Len(blocks) /\ blocks \in Seq(Block) /\ here.place \in Nat
      BY <1>2 DEF Inv, TypeOK, Stages
    <3> QED
      BY <3>1, ElementOfSeq
  <2>2. Len(Here) \in Nat /\ Here = blocks[here.block].lines
    BY <2>1, LenProperties DEF Here, Block
  <2>3. here.place > Len(Here) <=> ~ (here.place <= Len(Here))
    BY <2>1, <2>2
  <2> QED
    BY <1>2, <2>2, <2>3 DEF Position
<1> QED
  BY <1>1, <1>2

LEMMA PositionNext ==
  ASSUME Inv'
  PROVE  /\ pc' = "returned" => Position' = 0
         /\ pc' \notin {"returned", "run"} => Position' = 1
         /\ pc' = "run" /\ here'.block > 1 /\ here'.place <= Len(Here') => Position' = Here'[here'.place]
         /\ pc' = "run" /\ here'.block > 1 /\ here'.place > Len(Here') =>
              Position' = Here'[here'.place - 1] + 1
<1>1. CASE pc' # "run"
  BY <1>1 DEF Position
<1>2. CASE pc' = "run"
  <2>1. blocks'[here'.block] \in Block /\ here'.place \in Nat
    <3>1. here'.block \in 1..Len(blocks') /\ blocks' \in Seq(Block) /\ here'.place \in Nat
      BY <1>2 DEF Inv, TypeOK, Stages
    <3> QED
      BY <3>1, ElementOfSeq
  <2>2. Len(Here') \in Nat /\ Here' = blocks'[here'.block].lines
    BY <2>1, LenProperties DEF Here, Block
  <2>3. here'.place > Len(Here') <=> ~ (here'.place <= Len(Here'))
    BY <2>1, <2>2
  <2> QED
    BY <1>2, <2>2, <2>3 DEF Position
<1> QED
  BY <1>1, <1>2

(* A step that changes neither the line to be executed nor the flag.       *)
LEMMA Stutter ==
  ASSUME program' = program, Position' = Position, flag' = flag
  PROVE  UNCHANGED M!vars
BY DEF M!vars

LEMMA RunPlainFollows == ASSUME Inv, Graph, Inv', RunPlain PROVE M!Next
<1>1. /\ pc = "run" /\ pc' = "run" /\ ~ AtTerm /\ here' = [here EXCEPT !.place = @ + 1]
      /\ UNCHANGED <<program, blocks, flag>> /\ pc \in Linked
  BY DEF RunPlain, Lifted, Linked
<1>2. here \in [block : Nat \ {0}, place : Nat \ {0}] /\ here.block \in 1..Len(blocks)
  BY <1>1 DEF Inv, TypeOK, Stages
<1>3. here'.block = here.block /\ here'.place = here.place + 1 /\ Here' = Here
  BY <1>1, <1>2 DEF Here
<1>4. PICK b, k, p : b = here.block /\ k = here.place /\ p = Here[k]
  OBVIOUS
<1>5. /\ program \in Programs /\ Covers /\ InBlock /\ Base = 2 /\ Len(blocks) \in Nat
      /\ CodeEnd \in Nat /\ CodeLines = 1..CodeEnd /\ CodeEnd <= Len(Lines) /\ Len(Lines) \in Nat
      /\ blocks[1].lines = <<0>> /\ Kind(LastLine(1)) = "entry" /\ LastLine(1) = 0
  BY <1>1, LinkedFacts
<1>6. Here = blocks[b].lines /\ b \in 1..Len(blocks) /\ k \in Nat \ {0}
  BY <1>2, <1>4 DEF Here
<1>7. b # 1
  <2> SUFFICES ASSUME b = 1 PROVE FALSE
    OBVIOUS
  <2>1. Here = <<0>> /\ Len(Here) = 1
    BY <1>5, <1>6
  <2>2. k = 1
    <3>1. ~ (k > 1)
      BY <1>1, <1>4, <2>1 DEF AtTerm
    <3> QED
      BY <1>6, <3>1
  <2>3. Here[k] = 0 /\ k = Len(Here)
    BY <2>1, <2>2
  <2> QED
    BY <1>1, <1>4, <1>5, <2>3 DEF AtTerm
<1>8. b \in Base..Len(blocks) /\ here.block > 1
  BY <1>2, <1>4, <1>5, <1>6, <1>7
<1>9. PICK n, f : n = Len(Here) /\ f = First(b)
  OBVIOUS
<1>10. /\ n \in Nat \ {0} /\ f \in Nat \ {0}
       /\ \A j \in 1..n : Here[j] = f + j - 1 /\ Here[j] \in 1..CodeEnd
  BY <1>5, <1>6, <1>8, <1>9, BlockFacts
<1>11. k \in 1..n
  BY <1>1, <1>4, <1>6, <1>9, <1>10 DEF AtTerm
<1>12. p = f + k - 1 /\ p \in CodeLines /\ p \in 1..Len(Lines)
  BY <1>4, <1>5, <1>10, <1>11
<1>13. Position = p
  BY <1>1, <1>4, <1>8, <1>9, <1>10, <1>11, PositionFacts
<1>14. Position' = p + 1
  <2>1. here'.block > 1 /\ here'.place = k + 1 /\ Len(Here') = n
    BY <1>3, <1>4, <1>8, <1>9
  <2>2. CASE k + 1 <= n
    <3>1. Position' = Here'[here'.place]
      BY <1>1, <2>1, <2>2, PositionNext
    <3>2. k + 1 \in 1..n
      BY <1>10, <1>11, <2>2
    <3>3. Here[k + 1] = f + (k + 1) - 1
      BY <1>10, <3>2
    <3>4. f + (k + 1) - 1 = p + 1
      BY <1>10, <1>11, <1>12
    <3> QED
      BY <1>3, <2>1, <3>1, <3>3, <3>4
  <2>3. CASE k + 1 > n
    <3>1. Position' = Here'[here'.place - 1] + 1
      BY <1>1, <2>1, <2>3, PositionNext
    <3>2. here'.place - 1 = k
      BY <1>6, <2>1
    <3> QED
      BY <1>3, <1>4, <3>1, <3>2
  <2> QED
    BY <1>6, <1>10, <2>2, <2>3
<1>15. Kind(p) \notin M!Terminators
  <2> SUFFICES ASSUME Kind(p) \in M!Terminators PROVE FALSE
    OBVIOUS
  <2>1. k # n
    BY <1>1, <1>4, <1>9 DEF AtTerm
  <2>2. k + 1 \in 2..n /\ k + 1 \in 1..n
    BY <1>10, <1>11, <2>1
  <2>3. Here[k + 1] = p + 1
    <3>1. Here[k + 1] = f + (k + 1) - 1
      BY <1>10, <2>2
    <3>2. f + (k + 1) - 1 = p + 1
      BY <1>10, <1>11, <1>12
    <3> QED
      BY <3>1, <3>2
  <2>4. ~ StartsBlock(p + 1)
    <3>1. BlockOK(blocks[b])
      BY <1>5, <1>8 DEF Covers
    <3> QED
      BY <1>6, <1>9, <2>2, <2>3, <3>1 DEF BlockOK
  <2> QED
    BY <1>5, <1>12, <2>4, TerminatorEnds
<1>16. Kind(p) # "end"
  <2>1. p \in 1..p
    BY <1>5, <1>12
  <2> QED
    BY <1>12, <2>1 DEF CodeLines
<1>17. Lines[p].kind \in {"label", "op", "wide"}
  <2>1. Lines \in Seq(M!Line)
    BY DEF Inv, TypeOK, M!Program, Lines
  <2>2. Lines[p] \in M!Line
    BY <1>12, <2>1, ElementOfSeq
  <2>3. Kind(p) = Lines[p].kind
    BY <1>5, <1>12, LineFacts
  <2> QED
    BY <1>15, <1>16, <2>2, <2>3 DEF M!Line, M!Terminators, M!Branches
<1>18. M!Plain
  BY <1>1, <1>12, <1>13, <1>14, <1>17 DEF M!Plain, M!At, M!Lines, Lines
<1> QED
  BY <1>18 DEF M!Next

(* What the terminator of a block does.                                    *)
LEMMA TermFollows ==
  ASSUME Inv, Graph, pc = "run", NEW b \in 2..Len(blocks)
  PROVE  /\ b \in 1..Len(terms) /\ terms[b] = TermOf(b)
         /\ LastLine(b) \in CodeLines /\ LastLine(b) \in 1..Len(Lines)
         /\ Kind(LastLine(b)) # "entry"
         /\ b < Len(blocks) => b + 1 \in 2..Len(blocks) /\ First(b + 1) = LastLine(b) + 1
         /\ b = Len(blocks) => LastLine(b) = Len(Lines) \/ Kind(LastLine(b) + 1) = "end"
         /\ Kind(LastLine(b)) = "cond" =>
              TermOf(b) = CondBr(Target(b), b + 1) /\ b < Len(blocks)
         /\ Kind(LastLine(b)) \notin M!Terminators =>
              TermOf(b) = IF b < Len(blocks) THEN Br(b + 1) ELSE Ret
<1>1. pc \in Linked /\ Len(terms) = Len(blocks) /\ Len(succs) \in Nat
  BY DEF Linked, Inv, TypeOK, Stages
<1>2. /\ program \in Programs /\ Covers /\ EndsAt /\ TermsOK /\ Base = 2 /\ Len(blocks) \in Nat
      /\ CodeEnd \in Nat /\ CodeLines = 1..CodeEnd /\ CodeEnd <= Len(Lines) /\ Len(Lines) \in Nat
  BY <1>1, LinkedFacts
<1>3. b \in 1..Len(terms) /\ terms[b] = TermOf(b)
  BY <1>1, <1>2 DEF TermsOK
<1>4. PICK p : p = LastLine(b)
  OBVIOUS
<1>5. p \in CodeLines /\ p \in 1..Len(Lines)
  <2>1. Len(blocks[b].lines) \in 1..Len(blocks[b].lines)
    BY <1>2, BlockFacts
  <2>2. p \in 1..CodeEnd
    BY <1>2, <1>4, <2>1, BlockFacts DEF LastLine
  <2> QED
    BY <1>2, <2>2
<1>6. Kind(p) # "entry"
  <2>1. Lines \in Seq(M!Line)
    BY DEF Inv, TypeOK, M!Program, Lines
  <2>2. Lines[p] \in M!Line
    BY <1>5, <2>1, ElementOfSeq
  <2>3. Kind(p) = Lines[p].kind
    BY <1>2, <1>5, LineFacts
  <2> QED
    BY <2>2, <2>3 DEF M!Line
<1>7. ASSUME b < Len(blocks) PROVE b + 1 \in 2..Len(blocks) /\ First(b + 1) = p + 1
  <2>1. b + 1 \in 2..Len(blocks) /\ b \in 2..(Len(blocks) - 1)
    BY <1>2, <1>7
  <2> QED
    BY <1>2, <1>4, <2>1 DEF Covers
<1>8. ASSUME b = Len(blocks) PROVE p = Len(Lines) \/ Kind(p + 1) = "end"
  <2>1. p = CodeEnd
    BY <1>2, <1>4, <1>8 DEF CodeEnd
  <2> QED
    BY <1>1, <1>2, <2>1 DEF EndsAt
<1>9. Len(succs) = Len(blocks) /\ succs[b] = SuccsOf(b) /\ b \in Nat
  BY <1>1, <1>2 DEF TermsOK
<1>10. ASSUME Kind(p) = "cond" PROVE TermOf(b) = CondBr(Target(b), b + 1) /\ b < Len(blocks)
  <2>1. p < Len(Lines) /\ Kind(p + 1) # "end"
    BY <1>2, <1>5, <1>10, LineFacts
  <2>2. b < Len(blocks)
    BY <1>2, <1>8, <2>1
  <2>3. succs[b] = IF Target(b) # b + 1 THEN <<Target(b), b + 1>> ELSE <<Target(b)>>
    BY <1>4, <1>9, <1>10, <2>2 DEF SuccsOf
  <2> DEFINE all == {succs[b][j] : j \in 1..Len(succs[b])}
  <2>4. FalseSucc(b) = b + 1
    <3>1. CASE Target(b) = b + 1
      <4>1. succs[b] = <<Target(b)>>
        BY <2>3, <3>1
      <4>2. all \ {Target(b)} = {}
        BY <4>1
      <4> QED
        BY <3>1, <4>2 DEF FalseSucc
    <3>2. CASE Target(b) # b + 1
      <4>1. succs[b] = <<Target(b), b + 1>>
        BY <2>3, <3>2
      <4>2. Len(succs[b]) = 2 /\ succs[b][1] = Target(b) /\ succs[b][2] = b + 1
        BY <4>1
      <4>3. 1..2 = {1, 2}
        OBVIOUS
      <4>4. all = {Target(b), b + 1}
        BY <4>2, <4>3
      <4>5. all \ {Target(b)} = {b + 1}
        BY <3>2, <4>4
      <4>6. FalseSucc(b) = CHOOSE c \in {b + 1} : TRUE
        BY <4>5 DEF FalseSucc
      <4> QED
        BY <4>6
    <3> QED
      BY <3>1, <3>2
  <2> QED
    BY <1>4, <1>10, <2>2, <2>4 DEF TermOf
<1>11. ASSUME Kind(p) \notin M!Terminators
       PROVE  TermOf(b) = IF b < Len(blocks) THEN Br(b + 1) ELSE Ret
  <2>1. Kind(p) \notin {"cond", "jmp", "exit"}
    BY <1>11 DEF M!Terminators, M!Branches
  <2>2. succs[b] = IF b < Len(blocks) THEN <<b + 1>> ELSE << >>
    BY <1>4, <1>9, <2>1 DEF SuccsOf, FallsTo
  <2>3. TermOf(b) = IF succs[b] = << >> THEN Ret ELSE Br(succs[b][1])
    BY <1>4, <2>1 DEF TermOf
  <2> QED
    BY <2>2, <2>3
<1> QED
  BY <1>3, <1>4, <1>5, <1>6, <1>7, <1>8, <1>10, <1>11

(* The run leaves block b for block c, which begins with line q.           *)
LEMMA GoToPosition ==
  ASSUME Inv, Graph, Inv', pc = "run", UNCHANGED <<program, blocks>>, NEW c \in 2..Len(blocks), GoTo(c)
  PROVE  Position' = First(c)
<1>1. here'.block = c /\ here'.place = 1 /\ pc' = "run" /\ pc \in Linked
  BY DEF GoTo, Linked
<1>2. Here' = blocks[c].lines
  BY <1>1 DEF Here
<1>3. Len(blocks[c].lines) \in Nat \ {0} /\ c > 1
  BY <1>1, LinkedFacts, BlockFacts
<1>4. Position' = Here'[here'.place]
  BY <1>1, <1>2, <1>3, PositionNext
<1> QED
  BY <1>1, <1>2, <1>4 DEF First

LEMMA RunTermFollows == ASSUME Inv, Graph, Inv', RunTerm PROVE M!Next \/ UNCHANGED M!vars
<1>1. /\ pc = "run" /\ AtTerm /\ pc \in Linked
      /\ UNCHANGED <<program, blocks>>
  BY DEF RunTerm, Lifted, Linked
<1>2. PICK b, term : b = here.block /\ term = terms[b]
  OBVIOUS
<1>3. /\ here \in [block : Nat \ {0}, place : Nat \ {0}] /\ b \in 1..Len(blocks)
      /\ Len(blocks) \in Nat /\ flag \in BOOLEAN
  BY <1>1, <1>2 DEF Inv, TypeOK, Stages
<1>4. \/ term.kind = "br" /\ GoTo(term.t) /\ flag' = flag
      \/ term.kind = "cond" /\ GoTo(term.t) /\ flag' = TRUE
      \/ term.kind = "cond" /\ GoTo(term.f) /\ flag' = FALSE
      \/ term.kind = "ret" /\ pc' = "returned" /\ here' = here /\ flag' = flag
  BY <1>2 DEF RunTerm
<1>5. /\ program \in Programs /\ Covers /\ EndsAt /\ TermsOK /\ InBlock /\ Base = 2 /\ Len(blocks) >= 2
      /\ CodeEnd \in Nat /\ CodeLines = 1..CodeEnd /\ CodeEnd <= Len(Lines) /\ Len(Lines) \in Nat
      /\ blocks[1].lines = <<0>> /\ Kind(LastLine(1)) = "entry" /\ LastLine(1) = 0
  BY <1>1, LinkedFacts
<1>6. /\ \A n : Br(n).kind = "br" /\ Br(n).t = n
      /\ \A n, m : CondBr(n, m).kind = "cond" /\ CondBr(n, m).t = n /\ CondBr(n, m).f = m
      /\ Ret.kind = "ret"
  BY DEF Br, CondBr, Ret
<1>7. M!Lines = Lines
  BY DEF M!Lines, Lines
<1>8. CASE b = 1
  <2>1. Position = 1
    BY <1>1, <1>2, <1>8, PositionFacts
  <2>2. succs[1] = <<2>>
    <3>1. 1 \in 1..Len(succs) /\ 1 < Len(blocks)
      BY <1>1, <1>3, <1>5 DEF TermsOK
    <3>2. succs[1] = SuccsOf(1)
      BY <1>5, <3>1 DEF TermsOK
    <3>3. SuccsOf(1) = <<1 + 1>>
      BY <1>5, <3>1 DEF SuccsOf, FallsTo
    <3> QED
      BY <3>2, <3>3
  <2>3. term = Br(2)
    <3>1. 1 \in 1..Len(terms)
      BY <1>1, <1>3, <1>5 DEF TermsOK
    <3>2. term = TermOf(1)
      BY <1>2, <1>5, <1>8, <3>1 DEF TermsOK
    <3>3. succs[1] # << >> /\ succs[1][1] = 2
      BY <2>2
    <3>4. TermOf(1) = Br(succs[1][1])
      BY <1>5, <3>3 DEF TermOf
    <3> QED
      BY <3>2, <3>3, <3>4
  <2>4. GoTo(2) /\ flag' = flag
    BY <1>4, <1>6, <2>3
  <2>5. Position' = First(2) /\ First(2) = 1
    <3>1. 2 \in 2..Len(blocks)
      BY <1>3, <1>5
    <3>2. PICK c : c = 2
      OBVIOUS
    <3>3. Position' = First(c)
      BY <1>1, <2>4, <3>1, <3>2, GoToPosition
    <3> QED
      BY <1>5, <3>2, <3>3 DEF Covers
  <2> QED
    BY <1>1, <2>1, <2>4, <2>5, Stutter
<1>9. CASE b # 1
  <2>1. b \in 2..Len(blocks) /\ here.block > 1
    BY <1>2, <1>3, <1>9
  <2>2. PICK p : p = LastLine(b)
    OBVIOUS
  <2>3. /\ term = TermOf(b)
        /\ p \in CodeLines /\ p \in 1..Len(Lines) /\ Kind(p) # "entry"
        /\ b < Len(blocks) => b + 1 \in 2..Len(blocks) /\ First(b + 1) = p + 1
        /\ b = Len(blocks) => p = Len(Lines) \/ Kind(p + 1) = "end"
        /\ Kind(p) = "cond" => TermOf(b) = CondBr(Target(b), b + 1) /\ b < Len(blocks)
        /\ Kind(p) \notin M!Terminators =>
             TermOf(b) = IF b < Len(blocks) THEN Br(b + 1) ELSE Ret
    BY <1>1, <1>2, <2>1, <2>2, TermFollows
  <2>4. Kind(p) = Lines[p].kind
    BY <1>5, <2>3, LineFacts
  <2>5. ASSUME Kind(p) \in M!Branches
        PROVE  Target(b) \in 2..Len(blocks) /\ M!LeadsTo(p, First(Target(b)))
    <3>1. b \in 1..Len(terms)
      BY <1>1, <1>3, <1>5 DEF TermsOK
    <3>2. Target(b) # 0
      BY <1>5, <2>2, <2>5, <3>1 DEF TermsOK
    <3> QED
      BY <1>1, <1>3, <2>2, <2>5, <3>2, TargetFound
  <2>6. Len(Here) \in Nat \ {0} /\ Here = blocks[b].lines /\ here.place \in Nat
    BY <1>2, <1>3, <1>5, <2>1, BlockFacts DEF Here
  <2>7. CASE here.place > Len(Here)
    <3>1. here.place = Len(Here) + 1 /\ here.place - 1 = Len(Here)
      <4>1. here.place <= Len(Here) + 1
        BY <1>1, <1>5 DEF InBlock
      <4> QED
        BY <2>6, <2>7, <4>1
    <3>2. Kind(p) \notin M!Terminators
      BY <1>1, <1>2, <1>5, <2>2, <3>1 DEF InBlock
    <3>3. Position = p + 1
      BY <1>1, <2>1, <2>2, <2>6, <2>7, <3>1, PositionFacts DEF LastLine
    <3>4. CASE b < Len(blocks)
      <4>1. term = Br(b + 1)
        BY <2>3, <3>2, <3>4
      <4>2. GoTo(b + 1) /\ flag' = flag
        BY <1>4, <1>6, <4>1
      <4>3. PICK c : c = b + 1
        OBVIOUS
      <4>4. Position' = First(c) /\ First(c) = p + 1
        BY <1>1, <2>3, <3>4, <4>2, <4>3, GoToPosition
      <4> QED
        BY <1>1, <3>3, <4>2, <4>4, Stutter
    <3>5. CASE ~ (b < Len(blocks))
      <4>1. term = Ret /\ b = Len(blocks)
        BY <1>3, <2>3, <3>2, <3>5
      <4>2. pc' = "returned" /\ flag' = flag
        BY <1>4, <1>6, <4>1
      <4>3. Position' = 0
        BY <4>2, PositionNext
      <4>4. M!OffTheEnd
        <5>1. CASE p = Len(Lines)
          BY <1>7, <3>3, <5>1 DEF M!OffTheEnd
        <5>2. CASE p # Len(Lines)
          <6>1. p + 1 \in 1..Len(Lines) /\ Kind(p + 1) = "end"
            BY <1>5, <2>3, <4>1, <5>2
          <6>2. Lines[p + 1].kind = "end"
            BY <1>5, <6>1, LineFacts
          <6> QED
            BY <1>7, <3>3, <6>1, <6>2 DEF M!OffTheEnd
        <5> QED
          BY <5>1, <5>2
      <4>5. 0 \in 0..(Len(M!Lines) + 1)
        BY <1>5, <1>7
      <4>6. M!Undefined
        BY <1>1, <1>3, <4>2, <4>3, <4>4, <4>5 DEF M!Undefined
      <4> QED
        BY <4>6 DEF M!Next
    <3> QED
      BY <3>4, <3>5
  <2>8. CASE ~ (here.place > Len(Here))
    <3>1. here.place = Len(Here) /\ Kind(p) \in M!Terminators
      BY <1>1, <2>2, <2>3, <2>6, <2>8 DEF AtTerm, LastLine
    <3>2. Position = p
      <4>1. here.place <= Len(Here)
        BY <2>6, <3>1
      <4> QED
        BY <1>1, <2>1, <2>2, <2>6, <3>1, <4>1, PositionFacts DEF LastLine
    <3>3. CASE Kind(p) = "jmp"
      <4>1. term = Br(Target(b))
        BY <2>2, <2>3, <3>3 DEF TermOf
      <4>2. PICK c : c = Target(b)
        OBVIOUS
      <4>3. GoTo(c) /\ flag' = flag
        BY <1>4, <1>6, <4>1, <4>2
      <4>4. c \in 2..Len(blocks) /\ M!LeadsTo(p, First(c))
        BY <2>5, <3>3, <4>2 DEF M!Branches
      <4>5. Position' = First(c)
        BY <1>1, <4>3, <4>4, GoToPosition
      <4>6. M!Jump
        BY <1>1, <1>7, <2>3, <2>4, <3>2, <3>3, <4>3, <4>4, <4>5 DEF M!Jump, M!At
      <4> QED
        BY <4>6 DEF M!Next
    <3>4. CASE Kind(p) = "cond"
      <4>1. term = CondBr(Target(b), b + 1) /\ b < Len(blocks)
        BY <2>3, <3>4
      <4>2. PICK c, d : c = Target(b) /\ d = b + 1
        OBVIOUS
      <4>3. (GoTo(c) /\ flag' = TRUE) \/ (GoTo(d) /\ flag' = FALSE)
        <5>1. term.kind = "cond" /\ term.t = c /\ term.f = d
          BY <1>6, <4>1, <4>2
        <5>2. term.kind # "br" /\ term.kind # "ret"
          BY <5>1
        <5>3. (GoTo(term.t) /\ flag' = TRUE) \/ (GoTo(term.f) /\ flag' = FALSE)
          BY <1>4, <5>2
        <5> QED
          BY <5>1, <5>3
      <4>4. c \in 2..Len(blocks) /\ M!LeadsTo(p, First(c))
        BY <2>5, <3>4, <4>2 DEF M!Branches
      <4>5. d \in 2..Len(blocks) /\ First(d) = p + 1
        BY <2>3, <4>1, <4>2
      <4>6. GoTo(c) => Position' = First(c)
        BY <1>1, <4>4, GoToPosition
      <4>7. GoTo(d) => Position' = p + 1
        BY <1>1, <4>5, GoToPosition
      <4>8. M!At({"cond"})
        BY <1>1, <1>7, <2>3, <2>4, <3>2, <3>4 DEF M!At
      <4>9. M!Cond
        BY <3>2, <4>3, <4>4, <4>6, <4>7, <4>8 DEF M!Cond
      <4> QED
        BY <4>9 DEF M!Next
    <3>5. CASE Kind(p) = "exit"
      <4>1. term = Ret
        BY <2>2, <2>3, <3>5 DEF TermOf
      <4>2. pc' = "returned" /\ flag' = flag
        BY <1>4, <1>6, <4>1
      <4>3. Position' = 0
        BY <4>2, PositionNext
      <4>4. M!Exit
        BY <1>1, <1>7, <2>3, <2>4, <3>2, <3>5, <4>2, <4>3 DEF M!Exit, M!At, M!Returned
      <4> QED
        BY <4>4 DEF M!Next
    <3> QED
      BY <3>1, <3>3, <3>4, <3>5 DEF M!Terminators, M!Branches
  <2> QED
    BY <2>7, <2>8
<1> QED
  BY <1>8, <1>9

(* Until the run begins, the machine stands at the first line.             *)
LEMMA BuildFollows ==
  ASSUME Inv, Inv', [Next]_vars, ~ RunPlain, ~ RunTerm
  PROVE  UNCHANGED M!vars
<1>1. CASE UNCHANGED vars
  <2>1. UNCHANGED <<program, blocks, here, flag, pc>>
    BY <1>1 DEF vars
  <2>2. Position' = Position
    BY <2>1 DEF Position
  <2> QED
    BY <2>1, <2>2, Stutter
<1>2. CASE ~ UNCHANGED vars
  <2>1. /\ pc \in {"read", "link", "lift"} /\ pc' # "returned"
        /\ UNCHANGED <<program, here, flag>>
    BY <1>2 DEF Next, EmitLabel, EmitInstruction, RefuseTarget, AddInsn, CheckEntryBlock,
                NoCondTarget, GenerateSuccessors, NoTarget, LiftBlock, Fail
  <2>2. here'.block = 1
    BY <2>1 DEF Inv, Stages
  <2>3. Position = 1
    BY <2>1, PositionFacts
  <2>4. Position' = 1
    BY <2>1, <2>2, PositionNext DEF Position
  <2> QED
    BY <2>1, <2>3, <2>4, Stutter
<1> QED
  BY <1>1, <1>2

(* FollowsMachine: the lifted function, with the terminators that          *)
(* liftMCFunction gives its blocks, runs the program's lines as the        *)
(* machine does, for every program in which no condition is the last line. *)
THEOREM LiftedFollows == Spec => FollowsMachine
<1>1. Init => M!Init
  <2> SUFFICES ASSUME Init PROVE M!Init
    OBVIOUS
  <2>1. Inv /\ pc = "read" /\ flag = FALSE
    BY InvInit DEF Init
  <2>2. Position = 1
    BY <2>1, PositionFacts
  <2> QED
    BY <2>1, <2>2 DEF M!Init, Inv, TypeOK
<1>2. Inv /\ Graph /\ Inv' /\ [Next]_vars => [M!Next]_M!vars
  <2> SUFFICES ASSUME Inv, Graph, Inv', [Next]_vars PROVE M!Next \/ UNCHANGED M!vars
    OBVIOUS
  <2> QED
    BY RunPlainFollows, RunTermFollows, BuildFollows
<1> QED
  BY <1>1, <1>2, Invariance, GraphInvariance, PTL DEF Spec, FollowsMachine, M!Spec
=============================================================================
