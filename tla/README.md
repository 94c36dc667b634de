# A TLA+ model of bpf-tv

bpf-tv validates one run of LLVM's BPF backend on one function: it compiles the
function, lifts the assembly back to LLVM IR and asks Alive2 whether the lifted
function refines the source.  What can go wrong in such a tool is seldom a crash;
it is a *wrong answer*: a miscompilation hidden because the lifted model lost a
byte, or one reported because the model does not fit the function.  The
specifications here are about the parts of the program that decide which of the
two is possible.

Contents: [inventory](#1-the-system) - [modules](#2-modules) - [runs](#3-what-tlc-checks) -
[proofs](#4-what-is-proved) - [disagreements](#5-where-code-and-comments-disagree) -
[limits](#6-what-is-not-modelled) - [plan](#7-plan).

## 1. The system

Paths are relative to the repository's root.

| Component | Code | State | Operations |
|---|---|---|---|
| Driver pipeline | `src/bpf-tv.cpp` `main`, `doit` | semantic and codegen copies, line map, slots, verdict counters | reject, prepare, generate, lift, rewrite, verify, compare, withdraw, summarize; every gate is an `exit` |
| Source preparation | `src/bpf-tv.cpp` 130-315 | the source function, `lineMap` | strip barriers, replace identities, name helpers, collapse pointer round trips |
| Code generation | `src/lifter/run_backend.cpp` | MachineFrameInfo, diagnostics, `slotsOut` | run the backend, read back and filter frame slots |
| Stack rewrite | `src/bpf-tv.cpp` `rewriteStackObjects` | plans, call stack of the classifiers, objects | classify every use, then split all or nothing |
| Support gates | `src/lifter/mc2llvm.cpp`, `bpf2llvm.cpp`, `lifter.cpp` | none beyond counters | reject what the lifter or the model cannot handle |
| Global symbols | `src/lifter/mc2llvm.cpp` 48-276 | `LLVMglobals`, `deferredGlobs`, the lifted module's objects | look up, create, defer, replace |
| Streamer and CFG | `src/lifter/streamerwrapper.*` | `MCFunction`: blocks, successors, data | label, instruction, data callbacks; successors |
| Function lifting | `src/lifter/mc2llvm.cpp` | lifted function, register file, stack | allocate, lift blocks, terminate them |
| Bytes mode | `src/lifter/bpf2llvm.cpp` `runBytes` | instructions by unit, leaders | decode, sign-extend, find blocks |
| Instruction lifting | `src/lifter/bpf2llvm.cpp` `lift`, `mc2llvm.h` | register file, memory | one case per opcode; checked shifts and divisions; `doReturn` with `adjustSrc` |
| Calls and ABI | `src/lifter/bpf2llvm.cpp` 151-398, `mc2llvm.cpp` `doDirectCall` | register file, `unspecifiedOff`, `__bpf_tv_unspecified` | set up the entry, marshal, call by name or by number, clobber |
| Line map | `addDebugInfo`, `lineMap` | line -> instruction | number, strip, look up |
| Corpus sweep | `scripts/corpus_run.py`, `m4-sweep.sh` | records, cache, worker pool | compile, reuse, run, classify, report |
| Conformance plugin | `src/conformance/plugin.cpp` | none | decode hex, lift bytes, JIT |

How they interact: `doit` is a straight line of calls in one process, each of
which can end the process.  `generateAsm` hands the driver a vector of stack
slots, which is used twice, by two decisions that must agree: `checkFuncSupport`
*admits* a function with several escaping stack objects because the slots cover
them, and `rewriteStackObjects` must then really split the frame.  The lifter asks
`lookupGlobal` for symbols as instructions name them.  The corpus harness starts
many processes and reads each one's exit status and output; a wall-clock cap can
end a process between any two steps.

What is hard here: the order of copies and gates over 200 lines of `doit`;
withdrawing answers after the fact; a recursive classification that must cover
every way an address can travel; a worklist that is refilled while it is drained;
processes ended at any point; boundaries of byte ranges; operations LLVM leaves
undefined where BPF defines them; pointers to source instructions that outlive
several rewrites of the source.  `PROJECT.json`
("hazards") lists each with its line and the properties that cover it.

What makes each component correct:

* *frame read-back*: the slots are disjoint, genuine, and complete up to overlaps;
* *stack rewrite*: no access that reaches a split object stays on the shared
  block; planned addresses keep their byte; all uses or none;
* *global symbols*: one object per symbol; initializers point where the assembly
  says; nothing unreachable is created; the worklist ends;
* *instruction lifting*: the emitted code computes what the instruction set defines
  and is never undefined where the instruction set is not; the comparison of return
  values sees exactly the bits the ABI fixes;
* *calls*: after a call the registers hold what the ABI promises and nothing else,
  each call goes to the callee of the source's, unspecified values are independent,
  and no erased instruction is looked at;
* *driver*: a function is compared only in a model that fits it, from the right
  copies, and an answer is reported exactly when it can be believed;
* *harness*: the record claims what the check answered, and there is a record;
* *sweep*: what is skipped was made from the source as it is, what is taken over was
  found on the file and by the build at hand, and every source with a stem of its own,
  and every function of it, is accounted for once.  Each holds with exceptions that the
  properties name and section 5 explains.

## 2. Modules

```
StackFrame ----+--- FrameSlots ---- FrameSlotsProofs
               |         | establishes SplittableSlots
               +--- StackSplit ---- StackSplitProofs
Globals ------------------------ GlobalsProofs
Cfg == follows ==> Machine
  +----------------------------- CfgProofs
Bits ------+--- Isa
           +--- Lift == follows ==> Isa
                 +-------------- LiftProofs
Calls == follows ==> Abi
  +----------------------------- CallsProofs
Driver ---- Harness == implements ==> Verdict
               +---------------- HarnessProofs
Sweep -------------------------- SweepProofs
```

**StackFrame** holds the vocabulary of slots and bytes of the lifted stack block.
`Base` is `StackFrameTopOffset` (1024 in the code; any positive number in the
proofs).  `SplittableSlots` is the interface between the next two modules: what
`FrameSlots` establishes (`FitForSplit`) and `StackSplit` assumes.

**FrameSlots** is the end of `generateAsm` (`run_backend.cpp` 154-191).  The frame
is a sequence of objects with what the loop asks of each.  `ReadObject` is one
iteration of the read loop, `Sort` is `std::sort` (any permutation that is sorted,
because the sort is not stable), `DropPair` and `KeepSlot` are the two branches of
the overlap loop, `Finish` its exit.

**StackSplit** is `rewriteStackObjects`.  The variable `calls` is the call stack of
`classifyPtr`, `classifyIntUses` and `classifyAddr`, each activation with the block
offset its value is known to hold; `Visiting` takes the next user, which can be of
any kind since the function is whatever the optimizer left; every branch of the
classifiers is an action (`ConstGep`, `VarGep`, `PtrToInt`, `LoadOrStore`,
`StoreToItself`, `CallArgument`, `Compare`, `OtherUse`, `AddConst`, `IntToPtr`);
`Bail` is the `false` that propagates through all activations; `Apply` is the
second half of the function, which runs to its end once it is reached.

**Globals** is `lookupGlobal` with its worklist.  `work` is the `lazyAddGlobal` in
progress; one action lifts one symbolic item of the initializer (`ItemRegistered`,
`ItemDeferred`, `DeferItem`), one creates the object, `Register` enters it and
replaces the placeholder it was deferred under.  A reference says whether the
assembly spells the symbol in a mangled form, because maps and queue are keyed by
demangled names and searched with the spelling.  `root` is the variable `g` that
`lookupGlobal` returns.

**Cfg** is the way from a function's text or bytes to the terminators of its lifted
blocks.  Both front ends are modelled: the streamer's callbacks (`EmitLabel`,
`EmitInstruction`) and `runBytes` (`RefuseTarget`, `AddInsn`, with the branch
offset taken through its encoding and sign extension).  They share what follows:
`CheckEntryBlock`, `GenerateSuccessors` for each block (with the assertion
`NoCondTarget`), `LiftBlock` for each block (with `NoTarget`).  `RunPlain` and
`RunTerm` then run the lifted function.  **Machine** is the abstract
specification of a run: the control flow of the lines themselves, without blocks.
The refinement mapping takes the place in a block to the line it holds.  What the
machine does behind the last line is undefined, so anything implements it.
`Wellformed` says what parser and decoder hand over: text begins with the function's
label, defines no label twice and has nothing but data's labels behind the function's
end; bytes have no labels, and their offsets fit the field.  `LastLineAssumption`
leaves out functions whose last line is a condition (section 5).

**Lift** is `bpf2llvm::lift` with the builder functions of `mc2llvm.h` under it, and the
values the emitted code computes.  One action stands for each of the local functions
or groups of cases that `lift` is made of (`Alu`, `ShiftBy`, `Divide`, `Neg`, `Mov`,
`MovSx`, `Endian`, `Load`, `Store`, `CondBr`, `JSet`, `Atomic`, `CmpXchg`, `Exit`);
an opcode is a record of class, operation and widths.  `Poison` stands for what LLVM
leaves undefined.  Each step of the module executes one lifted instruction.
**Isa** says what the same instruction does according to RFC 9669, in integers
and sets of bits, without operations of Lift; `FollowsIsa` is the
refinement between the two.  **Bits** holds words, their signed values and memory in
little-endian bytes; the width of a byte is a parameter, so that the four widths
8, 16, 32 and 64 can be scaled down together; it is a power of two, because a shift
is masked with its width less one (`getMaskByType`).  A word is chosen by its bits
(`OfBits`) or its bytes (`OfBytes`), in which no recursion over the width is needed.
`Encodable` says which records the decoder delivers.  `AdjustedReturn` and `DoReturn` are the
two sides of a return value: what `adjustSrc` makes the source return and what the
lifted function returns.

**Calls** follows a function's calls from `addDebugInfo` to the last lifted call.
The preparation steps are actions in the driver's order (`AddDebugInfo`,
`StripEmptyInlineAsm`, `ReplaceIdentityInlineAsm`, `RewriteHelperCallsByNumber`,
`AdjustSrc`), `EmitInstructions` is the streamer's look-up of each line, and lifting
is `CreateRegisters`, `InitArgument` for each parameter and `FinishEntry` (together
`platformInit`), `Move`, `DoDirectCall`, `DoHelperCall`.  `alive` has the source
instructions not yet erased and `consulted` those that lifting has looked at, so that
a dangling pointer is a member of one and not of the other.  The code generator keeps the
line of each call or drops it, to line 0.  A register holds a symbolic content: a
value, its width, and what is above it; junk carries its offset in
`__bpf_tv_unspecified`, and a step that would load beyond the end ends in `Abort`, the
assertion.  `sites` has one element for each such load.  The assembly of a function
(`asm`) names the instructions of the body it was emitted for, in any order: the code
generator may move calls and moves, duplicate them or leave them out.  `calls` says of
each lifted call which place of the assembly it came from.
Functions given as bytes begin at `CreateRegisters` and use the generic helper type.  **Abi** is the calling convention, with one unknown content instead of
numbered junk; the mapping forgets the numbers and gives each call the attributes of
its own site and callee.

**Driver** is one process, from opening the input to its exit, for a function named
with `--fn`, as the harness starts it.  Each change to a copy of the source is a step
of its own (`StripMetadata`, `DeleteBodies`, `AddDebugInfo`, `CloneModule`,
`StripEmptyInlineAsm`, `ReplaceIdentityInlineAsm`, `RewriteHelperCallsByNumber`), and so
is each exit before the assembly exists (`OpenInput`, `FindFunction`, `CheckEarly`,
`LookupTarget`, `ReadAsm`, `Preflight`).  `ShowAsm` prints the assembly, in which a name
or a string of the program can be one of the texts that `classify` looks for.  A copy of
the module is the set of features it has (line numbers, barriers, ...); the source function is what the gates look at: its
escaping objects and four conditions.  `lifted` has the objects the lifted code
reaches through its frame and those that were given a block of their own.
`FrameSlots` and `StackSplit` are steps here (`GenerateAsm`, `RewriteStack`).  The
backend, the parser and Alive2 are external and may answer anything the driver
tells apart; `Abort` is an assertion or signal, at any step.

**Harness** adds `run_one` and `classify`: the cap that kills the process at any
step, and the record.  **Verdict** is the abstract specification: at most one
answer, at most one report, and a report that claims no more than the answer; an answer
that can be trusted is lost only if a signal or the cap `stopped` the process.  The
refinement mapping takes `trusted` from the function's class and the command
line, `answer` from the verdict, `stopped` from the exit status and `report` from the
record.

**Sweep** is `main` of `corpus_run.py`, started again and again by `m4-sweep.sh` in
a world that at any time edits sources and headers, or changes them back (`Edit`,
`EditHeaders`), and replaces bpf-tv (`Rebuild`), also while a sweep runs.
Content stands for its hash.  A source's content and that of the headers determine what
clang makes of it (`Clang`); a file names the source it was made from, because `ll` and
`stamp` belong to a stem, which several sources can have.  The stamp holds the content of
the source only.  `hashed` is the build whose hash the sweep's keys carry, taken once
(`_file_sha` is cached); each worker starts the `binary` that is there.  `results` are the
lines on disk, and each record carries, besides its key, what it was really found on
(`of`, which is not in the file).  A sweep goes through its stages `CheckStamp` to
`Report`; workers `Start` and `Finish` in any order; `Interrupt` ends it at any step,
forgets its memory, and can cut the line being written.  `ListWork` and `ListFile` list
the functions of one compiled file after the other.  `ReportComplete` counts by
bijections: the sources that failed, the other sources without functions and the
functions of the others, source by source, each correspond one to one to the lines with
their outcome, and a function's line was found on a file of that source.  Whether a run
of bpf-tv ends within the cap depends on the file and the cap only.  Three history
variables serve the properties: what each source was before (`past`), the stems with a
compilation that an edit or an interruption `disturbed`, and the builds that were replaced
while a sweep ran them (`tainted`).

**MC*** modules hold the small instances.  Operators headed "Mutation of ..." are
plausible bugs; each property is violated when its mutation takes the place of
the operator it mutates ("mutants" in `PROJECT.json`).

## 3. What TLC checks

`tlc -config X.cfg M` inside this directory.  Lift and Calls are checked for deadlock:
they stutter where they have come to their end, so that every other state must have
a step.  In the other runs deadlock is not an error, since each modelled piece is
sequential code that comes to an end (a returned function, an exited process, a
lifter with no further lookup) or, in Sweep, since the number of sweeps is bounded.

| Run | Module | Properties | Shows |
|---|---|---|---|
| FrameSlots | MCFrameSlots | TypeOK, KeptDisjoint, KeptReported, PairsDropped, Terminates | slots are disjoint, are distinct live allocas of the frame, and none that overlaps nothing is lost; the loops end |
| StackSplit | MCStackSplit | TypeOK, ResidualOutsideSlots, PlansExact, AllOrNothing | no slot's address stays on the residual block; rebasing is exact; no partial split |
| StackSplitWidth | MCStackSplit | NoMissedBytes (violated) | section 5 |
| StackSplitStored | MCStackSplit | ResidualNeverStored (violated) | section 5 |
| Globals | MCGlobals | TypeOK, PlainOneObject, InitializersFaithful, NothingElse, LookupEnds | symbols resolve to one object under any order of lookups and any web of references |
| GlobalsSelfRef | MCGlobals | SameAnswer (violated) | section 5 |
| GlobalsMangled | MCGlobals | OneObjectPerSymbol (violated) | section 5 |
| Cfg | MCCfg | TypeOK, BlocksFaithful, EntryNotATarget, RefusedRightly, FollowsMachine | a lifted function goes where the program's branches go, from text and from bytes, and is refused exactly when one of them leads nowhere |
| Lift | MCLift | TypeOK, ReturnExact, FollowsIsa | no emitted shift or division is undefined; every opcode computes what the instruction set defines; source and lifted return values agree exactly when r0 obeys the ABI |
| Calls | MCCalls | TypeOK, JunkIndependent, SiteAlive, CallsMatched, FollowsAbi | the registers follow the calling convention through two calls; callees, junk and source pointers stay right through all rewrites |
| Harness | MCHarness | SweepTypeOK, PromiseKept, RightCopies, HonestReport, ImplementsVerdict, Recorded | the driver's gates and the harness's reading of its output |
| Sweep | MCSweep | TypeOK, ReportComplete, RecordsCurrent, SkipFaithful | a finished sweep of sources with distinct stems accounts for each source and function once; what it reports was found on the file as it is by the build it hashed, unless that build was replaced under a sweep; a skipped source's file was made from what the source is, except behind a disturbed compilation |

Bounds, and why they are enough:

* *FrameSlots*: up to three objects in a block whose r10 is byte 6, every
  offset and size that fits below r10, and one object of each kind the filter
  refuses in every position.  The overlap loop relates a slot to its neighbour and
  to what an erasure moves next to it; three objects are the fewest for which an
  erasure brings two together that were never neighbours.  The theorem covers any
  number.
* *StackSplit*: slot vectors with none, one and two slots (adjacent, apart, at the
  edges of the frame), five classified uses (`MaxUses`), four constants.  Five uses
  reach an integer round trip with an addition and an access behind it, together
  with a second planned address.  `MaxUses` bounds the function, not the code.
* *Globals*: three definitions, one with two items and two with one, and a
  function: enough for cycles of length one to three, for a symbol met while
  registered, queued, in progress, and popped.  The programs left out are those in
  which two mangled spellings follow each other: around a cycle of them the
  worklist never ends (the symbol is deferred again each time), which is the
  finding of GlobalsMangled in another form.
* *Cfg*: text of up to four lines between the function's label and its end, with
  two further labels that may be defined or missing, data behind the end, and
  branches to all of them; bytes of up to three instructions of one or two units
  with every offset of a field of six values (`Half` = 3), so that both ends of
  the signed range are met and targets lie before, behind and inside
  instructions.  A branch, its target and the block between them need three
  blocks.  The last line is never a conditional branch, see section 5.
* *Lift*: bytes of one bit, so that registers have 8 bits and their halves 4; every
  opcode with both operand forms, operands at the edges of both widths (zero, one,
  the largest, the smallest and -1 as signed numbers, shift counts at and above the
  width), two memories, every return type.  One instruction per run (`MaxSteps` = 1):
  a step depends on registers and memory only, which Init chooses.  Accesses lie in
  memory and atomics are aligned; the others are undefined on either side.  The
  theorems cover bytes of eight bits, memory of any size and any number of steps.
* *Calls*: two calls of thirteen kinds (by name with and without extensions, void,
  `bpf_fastcall`, a memory intrinsic, too many parameters; by number, at two types,
  negative), moves in between or not, six prefixes of inline assembly, each subset of the
  calls without a line; the assembly in source order, reversed, with its first
  instruction twice, or without it; none, five and six parameters of all kinds.  Scratch space of
  184 bytes is one of the sizes at which two calls with five parameters meet its
  end exactly on some paths and exceed it on others.
* *Harness*: three allocas, so that slots cover all, some or none of the escaping
  ones while another object shares the frame; all options and answers.
* *Sweep*: two sources with stems of their own or one in common, each with a function of
  the same name; one that compiles with one of two versions of the headers and not with
  the other, one with two versions (slower than the cap; without functions) to either of
  which it can return at any time; two builds that can replace each other at any time,
  two workers, three sweeps (`MaxSweeps`): one that leaves something half done, one that
  builds on it, one that reuses that one's results.

Fairness, and why the code justifies it:

* `FrameSlots!FairSpec`: weak fairness of the next step; one thread of
  straight-line code that waits for nothing.
* `Globals!FairSpec`: weak fairness of the steps *inside* a lookup only.  Nothing
  obliges the lifter to make another lookup.
* `Harness!FairSweepSpec`: no fairness of the process at all, since backend,
  optimizer and solver may hang; weak fairness of the cap (`subprocess.run(...,
  timeout=wall_cap)`) and of recording.

Each `TypeOK` is the type invariant its module's other properties and proofs rest
on.  `InitializersFaithful` and `NothingElse` speak of moments at which no lookup
is in progress, as the code's comment at `mc2llvm.cpp:198-203` does.
`PromiseKept` reads "the promise of the split" (`bpf-tv.cpp:763-766`) as what the
comparison needs: at the comparison no escaping object is reached through the
shared block.

## 4. What is proved

`tlapm M.tla` proves every obligation of the eight modules below.  The theorems
hold for all values of the constants that satisfy the named assumptions:

| Module | Assumption | What it says |
|---|---|---|
| StackFrame | `BaseAssumption` | r10 lies above the start of the block |
| FrameSlots | `FramesAssumption` | frames are sequences of objects |
| StackSplit | `SlotChoicesAssumption`, `OffsetsAssumption`, `LengthsAssumption`, `MaxUsesAssumption` | slots are `SplittableSlots`, which FrameSlots establishes; the rest are types |
| Globals | `ProgramsAssumption`, `SymbolsAssumption` | types of programs and names |
| Cfg | `ProgramsAssumption`, `LastLineAssumption` | programs are `Wellformed`; no condition is the last line of the code |
| Calls | `FunctionsAssumption`, `DeclaredAssumption`, `CallsAssumption` | a call by name has the type of its declaration; the assembly's calls and moves are calls and moves of the source (in any order, any number of times), and a source that begins with its return has none; the scratch space holds twelve registers and five arguments |
| Bits | `BitsAssumption` | the width of a byte is a power of two, the size of the memory a natural number |
| Lift | `LiftAssumption` | instructions are `Encodable`; types of the initial registers and memory |
| Sweep | `SweepAssumption` | types; a file that clang makes names the source it was made from |

Driver and Harness assume nothing of `Objects`.

* **FrameSlotsProofs** - `TypeCorrect`, `SlotsDisjoint`, `SlotsReported`,
  `SlotsComplete`, `SlotsFitSplit`.  Disjointness is not inductive: while the overlap
  loop runs, the slots before its position are disjoint and sorted, those behind it
  only sorted.  The invariant says that each slot before position `i` ends before
  every later slot starts; sortedness makes the neighbour test sufficient, and it
  survives an erasure since every slot after the erased pair starts no earlier than
  the pair did.  The other two are about where slots come from, which the state does
  not hold.  Their invariant (`History`) says that a function `f` from slots to frame
  objects exists, injective and with each slot's place and size (`Origin`); that
  an object read and not reached by `f` has a rival (`Complete`); and that, if no
  object overlaps two others, `f` reaches both of a pair or neither (`Paired`).
  Reading extends `f`, the sort permutes it, an erasure removes two members.
* **StackSplitProofs** - `TypeCorrect`, `ResidualSound`, `PlansSound`,
  `SplitAllOrNothing`.  The invariant behind `ResidualSound` is that every
  activation on the call stack holds a residual offset; the entry activation does
  because no slot contains byte 0, which is what `SplittableSlots` adds to
  disjointness and why `SlotsFitSplit` is worth a theorem.  `PlansSound` needs the
  slots to be disjoint, so that `slotAt`'s first match is the only one.
* **GlobalsProofs** - `TypeCorrect`, `PlainSound`, `LinksFaithful`,
  `OnlyReachable`.  Behind `PlainSound` the invariant `Shared` says
  that queued symbols are distinct and unregistered (`QueueApart`), that the symbol
  in progress is neither queued nor registered (`WorkApart`), that registered
  objects are exactly the created ones (`Indexed`), and that a lookup begins with
  an empty queue (`LookupStart`).  `WorkApart` is where a self-reference or a
  mangled spelling breaks the argument, and hence the precondition `PlainProgram`.
  `LinksFaithful` and `OnlyReachable` hold for all programs, those included.  Their
  invariant (`Traced`) follows placeholders: each belongs to one deferred global
  (`TmpsApart`), of the symbol the item names (`ObjectsFollow`, `WorkFollows`), and
  some initializer waits for it (`Awaited`); an object was looked up or is pointed to
  (`Reached`).  When the queue is empty no placeholder is left, so that replacing
  one can neither miss an item nor reach one of another symbol.
* **CfgProofs** - `TypeCorrect`, `EntrySound`, `BlocksSound`, `RefusalsSound`,
  `LiftedFollows`.  `Inv` says how many blocks have
  successors and terminators at each stage (`Stages`), and that both lead to
  blocks from the second to the last (`SuccsInside`, `TermsInside`).  A branch is
  resolved by name; the inserted block's name is neither a label nor a unit, which
  is what `checkEntryBlock`'s comment asks of it.  `Graph` ties blocks to lines:
  the blocks hold the lines up to the one read last, in order and without a gap
  (`Covers`, `EndsAt`); a line begins a block exactly if it is a label, stands behind
  a terminator or is a leader (`StartsBlock`), and the block has that line's name.
  Names are distinct, because labels are defined once and units grow with the lines;
  so the block that a branch names is the one that begins where the machine would go
  (`TargetFound`), and there is none exactly if the branch leads nowhere
  (`NoTargetAstray`).  Both encodings of an offset meet in `OffsetDecoded`: sign
  extension undoes the decoder's zero extension for every width.  `LiftedFollows`, the
  refinement of Machine, maps the place in a block to its line: a plain step goes
  to the next line, falling into the next block is a stutter, and a terminator is the
  machine's jump, condition, return or undefined step.
* **CallsProofs** - `TypesCorrect`, `JunkApart`, `SitesAlive`, `CallsComplete`,
  `AbiFollowed`.  The offset into the scratch space only grows, and every load made so
  far lies below it (`SitesOK`); with it no two loads share a byte.  A line leads to
  its instruction, which is alive or was a return (`LineMapOK`), and the code
  generator gives lines of calls and moves only, or line 0, which is
  not a return's in a function that emits any instruction; so locations are alive (`LocsOK`).  The calls
  emitted are those of the assembly's instructions lifted so far, one for one and each
  with the callee its source call was made to call (`CallsOK`), in whatever order the
  code generator left them.  `AbiFollowed` is
  the refinement of Abi, with `Misplaced` as the step it leaves out: it compares
  the registers with the numbers of junk forgotten, at the entry argument by argument
  (`RegsOK`).
* **SweepProofs** - `TypeCorrect`, `ResultsComplete`, `ResultsCurrent`,
  `SkipsFaithful`.  At each stage the lines of each outcome are in bijection with the
  sources, files or functions seen so far (`SourcesOK`, `FilesOK`, `ListingOK`,
  `WorkOK`); a step adds one member and one line, and `BijectionAdd` extends the
  bijection.  The lines are counted by places in the list of files; that these places are
  the sources, and the files theirs, is where distinct stems are needed
  (`ListedByPlace`).  A record says what it was found on, and its key agrees unless the
  build in the key was replaced during a sweep (`Honest`); no record
  without a function has a cache key, so what is reused was found by this build on
  this file.  A stamp says what a source is or has been (`StampOf`); its file was made from what
  it says unless a compilation of that stem was disturbed (`FileAsStamped`), and even
  then if that is what the source is for the first time (`FileAsNew`): an edit between
  hash and clang makes what was hashed a thing of the past, and so only a change back
  makes a wrong stamp match.
* **HarnessProofs** - `TypeCorrect`, `SplitPromise`, `CopiesSound`, `ReportSound`
  and `Refinement`.  The invariant ties each stage of the pipeline to what the
  gates behind it have ruled out: what was admitted is covered by slots
  (`Admitted`), what lies behind the rewrite was split or needed no split
  (`SplitDone`, `NoBlock`), what reached the summary can be believed
  (`Believed`), and the marks on the output match the verdict and the stage
  (`Printed`, `Unprinted`); what each copy has lost so far follows from the stage.
  `Refinement` maps each step to an answer, a stop, a report or a stutter; its report case is the lemma that `classify` claims no more than the
  invariant knows.
* **LiftProofs** - `TypeCorrect`, `LiftImplementsIsa`, `ReturnsAreExact`, for
  registers of any width.  The type invariant is inductive as it stands, and the
  refinement holds step by step in well-typed states: one lemma for each action
  (`AluStep` to `ExitStep`) proves both, from lemmas that compare a checked operation
  with the instruction set's (`ShiftIs`, `DivideIs`, `ICmpIs` and the like).  The work is
  in the arithmetic of words.  That a word with given digits exists (`DigitsExist`), and
  that no other has them (`DigitsDetermine`), are inductions over the width, with digits of
  one bit for `And`, `Or` and `Xor` and of one byte for memory and byte order.
  The library's induction theorems cannot be applied with the installed provers;
  `SetInduction` proves what is needed from finite sets instead: if a set is closed under
  successor and misses `n`, the successor maps its members below `n` one to one
  into themselves, and then it must also reach 0.  Likewise the laws of powers of two
  come from counting subsets (`PowerNext`).  Division of variables, which the solvers
  do not decide, is reduced to its defining equation (`DivMod`, `DivUnique`).
  `OverflowIs` is the case of INT_MIN / -1, `Masked` makes a mask a remainder, and
  with it the masked shift amount is the instruction set's.  `ReturnsAreExact` compares a
  return value bit by bit with r0 (`Agrees`, `SExtBits`, `ZExtBits`); its invariant is
  that a halted function has returned r0 (`Returned`).

TLC finds each of these inductive invariants to hold on the instance of its
component's run as well (`History` with `f` taken from the functions from slots to
frame objects, and `Graph` without its conjunct `program \in Programs`, which TLC
would evaluate anew in every state).

Only model-checked: the liveness properties `Terminates`, `LookupEnds` and
`Recorded`, since fairness is outside the prover's reach.  Every safety property and every
refinement that a passing run checks is a theorem as well.

## 5. Where code and comments disagree

Each is a run that TLC ends with a counterexample.

* **StackSplitWidth** - `classifyPtr` looks at the first byte of a residual access
  and never at its width (`bpf-tv.cpp:469-478`).  A two-byte access one byte below a
  slot stays on the residual block; the slot is split; the access then misses the
  object's byte that the machine touches.  The function's header comment calls this
  "the one unsound shape".
* **StackSplitStored** - the test for "residual frame pointer stored as data"
  (`bpf-tv.cpp:474-477`) asks whether `p` is the pointer operand.  For `store p, p` it
  is, and the stored value is overlooked.
* **GlobalsSelfRef** - a definition is registered after its initializer was lifted
  (`mc2llvm.cpp:194-196`), so `struct list_head h = {&h, &h}` is created twice: the
  first lookup returns one object, later lookups the other.
* **GlobalsMangled** - `lazyAddGlobal` searches with the assembly's spelling what is
  keyed by the demangled name (`mc2llvm.cpp:101-121`).  A private string that is named
  twice becomes two objects.
Observations without a run: a conditional branch in the last block has no
fallthrough, and `getBranchTargetsOperand` gives it its target on both edges, where
`bpf2llvm.h:86` says "(taken, fallthrough)"; the run Cfg leaves such functions out,
in which the machine runs off the end.  And with three frame objects on the same bytes the
overlap pass erases two and keeps the third, although the comment at
`run_backend.cpp:148-153` says that slots which overlap another are dropped.
`PairsDropped` therefore states the comment for frames in which no object overlaps
two others; `KeptDisjoint`, which the rewrite needs, holds for all of them.
A results file cut off within a line makes every later `--reuse` of it fail at
`json.loads`, until a sweep runs without it.  The cache key (`corpus_run.py:91-93`)
holds the solver's timeout but not the wall-clock cap: with `--reuse` and a larger
`--wall-cap`, a function that timed out under the smaller cap stays a timeout.

In three cases a sweep does less than the script's texts say, and the properties of Sweep
are stated without them:

* *Shared stems.*  A compiled file is named by its source's stem alone
  (`corpus_run.py:198`).  With `--recursive`, two sources of one stem share it: the
  second overwrites the first one's file and the path is listed twice (207, 218, 227), so
  the first one's functions get no record and the second one's two, although the script's
  docstring says it "emits a JSONL record per function" (17).  They share a stamp too,
  which need not be of the same source as the file.  `ReportComplete` and `SkipFaithful`
  ask for distinct stems (`DistinctStems`); `m4-sweep.sh` does not pass `--recursive`.
* *Stale stamps.*  A source is hashed before clang reads it, and the stamp is written
  after (203-217).  An edit in between gives a stamp that vouches for a file of another
  version; it matches as soon as the source is changed back, and the source is skipped,
  though 201 says this happens when "source+flags+clang are unchanged".  Likewise behind
  an interruption between file and stamp, whose stamp is that of an earlier version.
  `SkipFaithful` leaves out a source that was disturbed in this way (`disturbed`) and is
  what it was before (`past`); every other source it covers.  Headers are not part of
  the stamp at all: after an edit of theirs a source that has compiled is skipped with
  the file of the old headers.  The engineering log (2026-07-31, 32-33) says so of the
  key, as the reason not to stamp failures.  `SkipFaithful` therefore says that the file
  was made with the headers of some time.
* *Rebuilds during a sweep.*  bpf-tv's hash is taken once for a sweep (82-93), and its
  workers start whatever binary is there (131-136).  Records found after a rebuild carry
  the hash of the build before it, and a later sweep of that build reuses them as
  "same-binary" records (242-243).  The engineering log (2026-07-31, 72-74) reports such
  a rebuild and asks to stop sweeps first.  `RecordsCurrent` leaves out a build that was
  replaced while a sweep ran it (`tainted`).

`liftMCFunction` gives a return to every block without terminator and successor and
says this happens for empty functions only (`mc2llvm.cpp:776-782`); any last block
that control falls out of is one, such as a block that ends in a call that does not
return.

Lines are numbered from 0 (`lifter.cpp:48`), and 0 is also what the code generator
writes for an instruction without a line, so a call that was merged with another one
leads to the function's first instruction.  `doHelperCall` compares that
instruction's callee with its own number and gives up; `doDirectCall` compares
nothing, and if the first instruction is a call the lifted call gets its extension,
`noreturn` and `bpf_fastcall` attributes.  `FollowsAbi` therefore leaves out calls that
have lost their line (`Misplaced`); `CallsMatched`, which sees callees only, and
`SiteAlive` hold for them too.

A `signext` or `zeroext` result narrower than 32 bits is checked in the function that
returns it on the lower 32 bits of r0 only: `doReturn` masks the rest off, and `adjustSrc`
extends the source's value to match (`bpf2llvm.cpp:421-425`, `mc2llvm.cpp:1143-1148`).  In
a function that calls it, `enforceSExtZExt` (`bpf2llvm.cpp:186-190`) has the result
extended to all 64.  Each module follows its side (`ReturnExact` in Lift,
`FollowsAbi` in Calls); that the two sides of one call do not promise the same is a
disagreement within the code, and between functions that are validated apart.

The assembly is printed before anything is compared (`bpf-tv.cpp:739-741`), into the text
that `classify` searches.  A crash or a failure of a process whose assembly has one of
the needles as a name or a string, such as a function called "recursion", is recorded in
that needle's bucket.  A finished comparison is not affected, because counts go before
needles.  In Verdict neither "rejected" nor "crash" claims anything.

Where `bpf2llvm.h:90-93` speaks of values that calls havoc,
`unspecifiedValue` loads them from a constant global, so that they are unknown but the
same in every execution; the repository's design notes accept this.

## 6. What is not modelled

* LLVM's passes, assembler and optimizer, and Alive2: external, any answer.
* Alignments of slots and accesses, names, log text, statistics and
  `--asm-output`, `--save-lifted-ir`.
* The type and instruction checks of `checkSupport`: each rejects on one syntactic
  condition; together they are `src.supported`.
* Literal bytes, sections, linkage and offsets of lifted data.
* `Sources` leaves open which answers Alive2 gives: that an answer is *right* for
  the lifted model is not claimed, only what is done with it.
* The streamer's data callbacks, undecodable bytes, and immediates other than
  branch offsets.
* Of instruction lifting: which mnemonics belong to a class and width (the grouping of
  the opcodes), accesses outside the memory and misaligned atomics, the addresses of
  globals (`LD_imm64` with a symbol, see Globals), and the order of concurrent accesses.
* Of symbol lookup: the renaming of intrinsics and the variable made for
  `__stack_chk_fail` (`mc2llvm.cpp:51-61`).
* Of the driver: a command line without `--fn`, which takes the first defined function
  or none (`bpf-tv.cpp:935-942`); the harness always passes one.
* Of calls: aggregate types, the trap for `__stack_chk_fail`, variadic and indirect
  calls, which are rejected, and the contents of memory across a call.
* Pointer round trips (`tryReplaceRoundTrip`, `tryReplacePtrtoInt`,
  `fixupOptimizedTgt`): rewrites of LLVM IR whose correctness is a matter of LLVM's
  pointer semantics, which a small model would have to assume.
* The conformance plugin: hexadecimal text to bytes, then bytes mode, then the JIT.
* Of sweeps: other compilers and flags between sweeps, which stamps and keys contain
  like the contents; two sweeps at once in one directory.

## 7. Plan

In order of what a wrong answer would cost:

1. **Data** - the streamer's data callbacks up to the definitions that Globals begins
   with.
2. The conformance plugin's decoding, composed with Cfg and Calls.
3. Facts about the order of concurrent atomics, which Lift executes one at a time.
