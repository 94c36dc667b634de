------------------------------- MODULE Driver -------------------------------
(***************************************************************************)
(* One bpf-tv process (bpf-tv.cpp, main and doit) validating one function: *)
(* the copies it makes of the source, the order of its gates, and what it  *)
(* has printed when it ends.                                               *)
(*                                                                         *)
(* The gates of lifter/bpf2llvm.cpp checkFuncSupport, the coverage of the  *)
(* escaping stack objects by the backend's frame slots, the per-object     *)
(* stack rewrite and the checks after the comparison are spread over the   *)
(* pipeline; together they decide which functions may be called            *)
(* miscompiled.  FrameSlots and StackSplit open up two of the steps.       *)
(*                                                                         *)
(* The BPF backend, the assembly parser and Alive2 are external: what they *)
(* answer is any of the answers the driver tells apart.                    *)
(***************************************************************************)
EXTENDS Integers

CONSTANT Objects     \* the allocas of the source function

Options == [asmInput : BOOLEAN,   \* --asm-input
            asmOnly  : BOOLEAN,   \* --asm-only
            skip     : BOOLEAN,   \* --skip-verification
            allow    : BOOLEAN]   \* --allow-stack-escape

(* What the gates look at in a source function.  escapes are the allocas   *)
(* whose address reaches a call (escapingStackObjects).                    *)
Sources == [escapes   : SUBSET Objects,
            early     : BOOLEAN,  \* varargs or thread-local data
            supported : BOOLEAN,  \* passes the other checks of checkSupport
            ptrCopy   : BOOLEAN,  \* copies possible pointers into an escaping object
            ptrLoad   : BOOLEAN]  \* passes a pointer loaded from memory to a call

(* What distinguishes a copy of the module: it has debug lines, optimizer  *)
(* barriers and identities in inline assembly, metadata that Alive2 cannot *)
(* process, bodies of other functions, helpers called by number.           *)
Given == {"barriers", "identities", "hints", "others", "numbers"}
Features == Given \cup {"lines"}

Verdicts == {"correct", "unsound", "failed", "error"}

(* What a process prints that a reader of its output looks for.  A needle  *)
(* or the words of a failed assertion can also be a name or a string of    *)
(* the program, and be printed with its assembly.                          *)
Texts == {"needle", "assert"}
Marks == {"unsupported", "backend", "escape", "ptrbytes", "broken",
          "1 correct", "1 incorrect", "1 failed", "1 error"} \cup Texts

(* The steps of main and doit, in order.                                   *)
Stages == {"open", "find", "begin", "hints", "others", "target", "debug", "clone",
           "barriers", "identities", "numbers", "readasm", "preflight", "codegen",
           "emitted", "shown", "lift", "rewrite", "verify", "compare", "judge",
           "summary", "return", "exited"}

VARIABLES
  opts, src,  \* the command line and the function
  sem,        \* the semantic copy: what the refinement check will read
  code,       \* the codegen copy
  asm,        \* the assembly: the copy it was made from, and if it is garbage
  slots,      \* stackSlots, as the objects that have one
  lifted,     \* the lifted function's frame
  verdict,    \* what compareFunctions answered
  printed,    \* marks printed so far
  rc,         \* the exit status
  pc          \* the next step, or "exited"

vars == <<opts, src, sem, code, asm, slots, lifted, verdict, printed, rc, pc>>

NoAsm == [of |-> {}, garbage |-> FALSE]

(* touched: objects whose bytes the lifted code reaches through its frame. *)
(* own: those that have a block of their own.                              *)
NoFrame == [block |-> FALSE, touched |-> {}, own |-> {}]

Init ==
  /\ opts \in Options
  /\ src \in Sources
  /\ src.ptrCopy => src.escapes # {}
  /\ sem = Given
  /\ code = {}
  /\ asm = NoAsm
  /\ slots = {}
  /\ lifted = NoFrame
  /\ verdict = "none"
  /\ printed = {}
  /\ rc = 0
  /\ pc = "open"

(* exit(status) after printing marks.                                      *)
Exit(status, marks) ==
  /\ rc' = status
  /\ printed' = printed \cup marks
  /\ pc' = "exited"

Goto(next) ==
  /\ pc' = next
  /\ UNCHANGED <<rc, printed>>

Failure == 255
Aborted == -6

-----------------------------------------------------------------------------
(* main up to doit, for the function that --fn names                       *)

(* openInputFile.  What cannot be read is not compared.                    *)
OpenInput ==
  /\ pc = "open"
  /\ \/ Goto("find")
     \/ Exit(Failure, {})
  /\ UNCHANGED <<opts, src, sem, code, asm, slots, lifted, verdict>>

FindFunction ==
  /\ pc = "find"
  /\ \/ Goto("begin")
     \/ Exit(Failure, {})
  /\ UNCHANGED <<opts, src, sem, code, asm, slots, lifted, verdict>>

-----------------------------------------------------------------------------
(* doit up to the assembly                                                 *)

CheckEarly ==
  /\ pc = "begin"
  /\ IF src.early THEN Exit(Failure, {"unsupported"}) ELSE Goto("hints")
  /\ UNCHANGED <<opts, src, sem, code, asm, slots, lifted, verdict>>

(* A step that removes a feature from the semantic copy                    *)
Remove(feature, next) ==
  /\ sem' = sem \ {feature}
  /\ Goto(next)
  /\ UNCHANGED <<opts, src, code, asm, slots, lifted, verdict>>

StripMetadata == pc = "hints" /\ Remove("hints", "others")

DeleteBodies == pc = "others" /\ Remove("others", "target")

LookupTarget ==
  /\ pc = "target"
  /\ \/ Goto("debug")
     \/ Exit(Failure, {})
  /\ UNCHANGED <<opts, src, sem, code, asm, slots, lifted, verdict>>

(* Mutation of AddDebugInfo: the codegen copy is taken before the lines    *)
(* are added.                                                              *)
CloneThenAddDebugInfo ==
  /\ pc = "debug"
  /\ code' = IF opts.asmInput THEN code ELSE sem
  /\ sem' = sem \cup {"lines"}
  /\ Goto("barriers")
  /\ UNCHANGED <<opts, src, asm, slots, lifted, verdict>>

AddDebugInfo ==
  /\ pc = "debug"
  /\ sem' = sem \cup {"lines"}
  /\ Goto(IF opts.asmInput THEN "barriers" ELSE "clone")
  /\ UNCHANGED <<opts, src, code, asm, slots, lifted, verdict>>

CloneModule ==
  /\ pc = "clone"
  /\ code' = sem
  /\ Goto("barriers")
  /\ UNCHANGED <<opts, src, sem, asm, slots, lifted, verdict>>

StripEmptyInlineAsm == pc = "barriers" /\ Remove("barriers", "identities")

ReplaceIdentityInlineAsm == pc = "identities" /\ Remove("identities", "numbers")

RewriteHelperCallsByNumber ==
  pc = "numbers" /\ Remove("numbers", IF opts.asmInput THEN "readasm" ELSE "preflight")

(* The file is the user's: generated from this source and then changed.    *)
ReadAsm ==
  /\ pc = "readasm"
  /\ \/ Goto("emitted")
     \/ Exit(1, {})
  /\ UNCHANGED <<opts, src, sem, code, asm, slots, lifted, verdict>>

(* llvm2alive on the simplified source                                     *)
Preflight ==
  /\ pc = "preflight"
  /\ \/ Goto("codegen")
     \/ Exit(Failure, {"unsupported"})
  /\ UNCHANGED <<opts, src, sem, code, asm, slots, lifted, verdict>>

(* generateAsm.  After an error diagnostic the backend has still written   *)
(* code, and no slots are read back.                                       *)
GenerateAsm ==
  /\ pc = "codegen"
  /\ \E hadError \in BOOLEAN, kept \in SUBSET Objects :
       /\ asm' = [of |-> code, garbage |-> hadError]
       /\ slots' = IF hadError THEN {} ELSE kept
       /\ IF hadError THEN Exit(Failure, {"backend"}) ELSE Goto("emitted")
  /\ UNCHANGED <<opts, src, sem, code, lifted, verdict>>

(* The assembly is printed, with whatever names and strings are in it.     *)
ShowAsm ==
  /\ pc = "emitted" /\ pc' = "shown"
  /\ \E text \in SUBSET Texts : printed' = printed \cup text
  /\ UNCHANGED <<opts, src, sem, code, asm, slots, lifted, verdict, rc>>

AsmOnly ==
  /\ pc = "shown"
  /\ opts.asmOnly
  /\ Exit(0, {})
  /\ UNCHANGED <<opts, src, sem, code, asm, slots, lifted, verdict>>

-----------------------------------------------------------------------------
(* liftFunc: checkSupport first, then the lifting                          *)

(* escaped.size() > 1                                                      *)
MultiEscape == \E o, p \in src.escapes : o # p

(* Every escaping object has a frame slot with its line.                   *)
Covered == slots # {} /\ src.escapes \subseteq slots

CopyRejected == ~ opts.allow /\ src.ptrCopy
EscapeRejected == ~ opts.allow /\ MultiEscape /\ ~ Covered

(* Of the other checks, some come before those of checkFuncSupport.        *)
CheckSupport ==
  /\ pc = "shown"
  /\ ~ opts.asmOnly
  /\ \/ ~ src.supported /\ Exit(Failure, {"unsupported"})
     \/ CopyRejected /\ Exit(Failure, {"ptrbytes"})
     \/ ~ CopyRejected /\ EscapeRejected /\ Exit(Failure, {"escape"})
     \/ ~ CopyRejected /\ ~ EscapeRejected /\ src.supported /\ Goto("lift")
  /\ UNCHANGED <<opts, src, sem, code, asm, slots, lifted, verdict>>

(* Parse, lift and optimize.  The frame block can be optimized away.       *)
Lift ==
  /\ pc = "lift"
  /\ \/ \E touched \in SUBSET Objects, block \in BOOLEAN :
          /\ touched # {} => block
          /\ lifted' = [block |-> block, touched |-> touched, own |-> {}]
          /\ Goto("rewrite")
     \/ \E mark \in {"unsupported", "broken"} :
          /\ Exit(Failure, {mark})
          /\ lifted' = lifted
  /\ UNCHANGED <<opts, src, sem, code, asm, slots, verdict>>

-----------------------------------------------------------------------------
(* rewriteStackObjects and the check that follows it                       *)

NothingToSplit == slots = {} \/ ~ lifted.block

(* Every use of the frame was attributed: a block per slot that is used.   *)
Split ==
  /\ lifted' = IF NothingToSplit THEN lifted
               ELSE [lifted EXCEPT !.own = lifted.touched \cap slots]
  /\ Goto("verify")

(* Mutation of Bail: the single-block model is kept for every function.    *)
BailAndCompare ==
  /\ ~ NothingToSplit
  /\ lifted' = lifted
  /\ Goto("verify")

Bail ==
  /\ ~ NothingToSplit
  /\ lifted' = lifted
  /\ IF MultiEscape /\ ~ opts.allow
       THEN Exit(Failure, {"escape"})
       ELSE Goto("verify")

RewriteStack ==
  /\ pc = "rewrite"
  /\ Split \/ Bail
  /\ UNCHANGED <<opts, src, sem, code, asm, slots, verdict>>

VerifyModule ==
  /\ pc = "verify"
  /\ \/ Goto("compare")
     \/ Exit(Failure, {"broken"})
  /\ UNCHANGED <<opts, src, sem, code, asm, slots, lifted, verdict>>

-----------------------------------------------------------------------------
(* The comparison and the limits put on its answer                         *)

Skip ==
  /\ pc = "compare"
  /\ opts.skip
  /\ Goto("summary")
  /\ UNCHANGED <<opts, src, sem, code, asm, slots, lifted, verdict>>

Compare ==
  /\ pc = "compare"
  /\ ~ opts.skip
  /\ verdict' \in Verdicts
  /\ Goto("judge")
  /\ UNCHANGED <<opts, src, sem, code, asm, slots, lifted>>

(* Mutation of Judge: loaded pointers that reach calls are overlooked.     *)
JudgeEscapesOnly ==
  /\ pc = "judge"
  /\ IF verdict = "unsound" /\ ~ opts.allow /\ MultiEscape
       THEN Exit(Failure, {"escape"})
       ELSE Goto("summary")
  /\ UNCHANGED <<opts, src, sem, code, asm, slots, lifted, verdict>>

(* An unsound answer is not believed where the lifted model has gaps.      *)
Judge ==
  /\ pc = "judge"
  /\ IF verdict = "unsound" /\ ~ opts.allow
       THEN \/ MultiEscape /\ Exit(Failure, {"escape"})
            \/ ~ MultiEscape /\ src.ptrLoad /\ Exit(Failure, {"ptrbytes"})
            \/ ~ MultiEscape /\ ~ src.ptrLoad /\ Goto("summary")
       ELSE Goto("summary")
  /\ UNCHANGED <<opts, src, sem, code, asm, slots, lifted, verdict>>

(* main prints the counts; only Alive2's own errors show in the status.    *)
SummaryMarks ==
  CASE verdict = "correct" -> {"1 correct"}
    [] verdict = "unsound" -> {"1 incorrect"}
    [] verdict = "failed"  -> {"1 failed"}
    [] verdict = "error"   -> {"1 error"}
    [] OTHER -> {}

Summary ==
  /\ pc = "summary"
  /\ printed' = printed \cup SummaryMarks
  /\ pc' = "return"
  /\ UNCHANGED <<opts, src, sem, code, asm, slots, lifted, verdict, rc>>

Return ==
  /\ pc = "return"
  /\ Exit(IF verdict = "error" THEN 1 ELSE 0, {})
  /\ UNCHANGED <<opts, src, sem, code, asm, slots, lifted, verdict>>

(* An assertion, report_fatal_error or a signal ends the process anywhere, *)
(* while it is tearing down the solver too.                                *)
Abort ==
  /\ pc # "exited"
  /\ Exit(Aborted, {"assert"})
  /\ UNCHANGED <<opts, src, sem, code, asm, slots, lifted, verdict>>

Next ==
  \/ OpenInput \/ FindFunction \/ CheckEarly
  \/ StripMetadata \/ DeleteBodies \/ LookupTarget \/ AddDebugInfo \/ CloneModule
  \/ StripEmptyInlineAsm \/ ReplaceIdentityInlineAsm \/ RewriteHelperCallsByNumber
  \/ ReadAsm \/ Preflight \/ GenerateAsm \/ ShowAsm \/ AsmOnly
  \/ CheckSupport \/ Lift \/ RewriteStack \/ VerifyModule
  \/ Skip \/ Compare \/ Judge \/ Summary \/ Return \/ Abort

Spec == Init /\ [][Next]_vars
-----------------------------------------------------------------------------
TypeOK ==
  /\ opts \in Options
  /\ src \in Sources
  /\ sem \subseteq Features /\ code \subseteq Features
  /\ asm \in [of : SUBSET Features, garbage : BOOLEAN]
  /\ slots \subseteq Objects
  /\ lifted \in [block : BOOLEAN, touched : SUBSET Objects, own : SUBSET Objects]
  /\ verdict \in Verdicts \cup {"none"}
  /\ printed \subseteq Marks
  /\ rc \in Int
  /\ pc \in Stages

(* A function with several escaping stack objects is admitted on the       *)
(* promise that the frame will be split (checkFuncSupport), and compared   *)
(* only if it was: no escaping object is reached through the shared block. *)
PromiseKept ==
  verdict # "none" /\ MultiEscape /\ ~ opts.allow =>
    src.escapes \cap lifted.touched \subseteq lifted.own

(* What is compared: code from a backend that reported no error, compiled  *)
(* from a copy that kept its barriers and helper numbers and carries the   *)
(* lines of the source it is compared with; and that source without what   *)
(* Alive2 cannot process.                                                  *)
RightCopies ==
  verdict # "none" =>
    /\ sem = {"lines"}
    /\ ~ opts.asmInput => asm = [of |-> {"lines", "barriers", "identities", "numbers"}, garbage |-> FALSE]

(* The classes the lifted model cannot match: their failed refinements are *)
(* not miscompilations.                                                    *)
KnownGap == MultiEscape \/ src.ptrLoad \/ src.ptrCopy

(* A miscompilation is reported exactly when the refinement check found    *)
(* one in a function outside these classes and no signal ended the process *)
(* before; --allow-stack-escape lifts the restriction.                     *)
HonestReport ==
  pc = "exited" =>
    /\ "1 incorrect" \in printed => verdict = "unsound" /\ (KnownGap => opts.allow)
    /\ verdict = "unsound" /\ "1 incorrect" \notin printed /\ rc >= 0
         => KnownGap /\ ~ opts.allow
=============================================================================
