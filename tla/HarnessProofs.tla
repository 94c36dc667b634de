---------------------------- MODULE HarnessProofs ----------------------------
(***************************************************************************)
(* Proofs about one validation, for any number of stack objects: its type  *)
(* invariant, the promise made to functions with several escaping objects, *)
(* what is compared, and that driver and harness implement Verdict.        *)
(***************************************************************************)
EXTENDS Harness, TLAPS

Trusted == opts.allow \/ ~ KnownGap

Starting == {"open", "find", "begin", "hints", "others", "target", "debug", "clone",
             "barriers", "identities", "numbers"}
Assembling == Starting \cup {"readasm", "preflight", "codegen", "emitted", "shown"}
Lifting == {"lift", "rewrite", "verify", "compare"}
Judging == {"judge", "summary", "return"}

(* The steps up to the assembly                                            *)
Prepare ==
  \/ OpenInput \/ FindFunction \/ CheckEarly
  \/ StripMetadata \/ DeleteBodies \/ LookupTarget \/ AddDebugInfo \/ CloneModule
  \/ StripEmptyInlineAsm \/ ReplaceIdentityInlineAsm \/ RewriteHelperCallsByNumber

(* No answer before the comparison, and only what the assembly contains is *)
(* printed before the summary.                                             *)
Quiet ==
  /\ pc \in Assembling \cup Lifting => verdict = "none"
  /\ pc \in Assembling \cup Lifting \cup {"judge", "summary"} => printed \subseteq Texts
  /\ pc = "return" => SummaryMarks \subseteq printed
  /\ pc # "exited" => rc = 0

(* What checkFuncSupport admits                                            *)
Admitted ==
  (pc \in Lifting \cup Judging \/ verdict # "none") /\ ~ opts.allow =>
    ~ src.ptrCopy /\ (MultiEscape => Covered)

(* From the rewrite on, an admitted function's escaping objects are apart. *)
SplitDone ==
  (pc \in {"verify", "compare"} \cup Judging \/ verdict # "none")
    /\ MultiEscape /\ ~ opts.allow =>
      src.escapes \cap lifted.touched \subseteq lifted.own

(* Without a frame, no bytes of it are reached.                            *)
NoBlock == ~ lifted.block => lifted.touched = {}

(* An unsound answer that is summarized can be believed.                   *)
Believed == pc \in {"summary", "return"} /\ verdict = "unsound" => Trusted

(* What is printed speaks for the answer.                                  *)
Printed ==
  /\ "1 correct" \in printed => verdict = "correct"
  /\ "1 failed" \in printed => verdict = "failed"
  /\ "1 incorrect" \in printed => verdict = "unsound" /\ Trusted

(* And what is not printed was not to be claimed, unless a signal came.    *)
Counts == {"1 correct", "1 incorrect", "1 failed"}
Unprinted ==
  pc = "exited" /\ rc >= 0 /\ printed \cap Counts = {} =>
    verdict \in {"none", "error"} \/ (verdict = "unsound" /\ ~ Trusted)

(* The copies, from the first step to the comparison.                      *)
Simple == {"lines"}
Instrumented == {"lines", "barriers", "identities", "numbers"}
Semantic ==
  CASE pc \in {"open", "find", "begin", "hints"} -> Given
    [] pc = "others"               -> {"barriers", "identities", "others", "numbers"}
    [] pc \in {"target", "debug"}  -> {"barriers", "identities", "numbers"}
    [] pc \in {"clone", "barriers"} -> Instrumented
    [] pc = "identities"           -> {"lines", "identities", "numbers"}
    [] pc = "numbers"              -> {"lines", "numbers"}
    [] OTHER                       -> Simple
Copies ==
  /\ pc # "exited" \/ verdict # "none" => sem = Semantic
  /\ pc \in {"clone", "preflight", "codegen"} => ~ opts.asmInput
  /\ pc = "readasm" => opts.asmInput
  /\ pc \in {"barriers", "identities", "numbers", "preflight", "codegen"} /\ ~ opts.asmInput
       => code = Instrumented
  /\ (pc \in {"emitted", "shown"} \cup Lifting \cup Judging \/ verdict # "none") /\ ~ opts.asmInput
       => asm = [of |-> Instrumented, garbage |-> FALSE]

Recording ==
  /\ report # "none" \/ timedOut => pc = "exited"
  /\ timedOut => rc < 0

IInv ==
  /\ SweepTypeOK /\ Quiet /\ Admitted /\ SplitDone /\ NoBlock
  /\ Believed /\ Printed /\ Unprinted /\ Copies /\ Recording

-----------------------------------------------------------------------------
LEMMA InitInv ==
  ASSUME SweepInit
  PROVE  IInv
<1> USE DEF SweepInit, Init
<1>1. SweepTypeOK
  <2>1. printed \subseteq Marks /\ rc \in Int /\ pc \in Stages
    BY DEF Stages
  <2>2. sem \subseteq Features /\ code \subseteq Features
    BY DEF Features, Given
  <2>3. /\ asm \in [of : SUBSET Features, garbage : BOOLEAN]
        /\ lifted \in [block : BOOLEAN, touched : SUBSET Objects, own : SUBSET Objects]
    BY DEF NoAsm, NoFrame
  <2> QED
    BY <2>1, <2>2, <2>3 DEF SweepTypeOK, TypeOK
<1>2. Quiet /\ Admitted /\ SplitDone /\ NoBlock /\ Believed /\ Recording
  BY DEF Quiet, Admitted, SplitDone, NoBlock, NoFrame, Believed, Recording, Assembling,
         Starting, Lifting, Judging
<1>3. Printed /\ Unprinted
  BY DEF Printed, Unprinted
<1>4. Copies
  BY DEF Copies, Semantic, Lifting, Judging
<1> QED
  BY <1>1, <1>2, <1>3, <1>4 DEF IInv

(* What the steps up to the assembly have in common                        *)
LEMMA PrepareStep ==
  ASSUME Prepare
  PROVE  /\ pc \in Starting
         /\ UNCHANGED <<opts, src, asm, slots, lifted, verdict>>
         /\ \/ /\ pc' = "exited" /\ rc' = Failure
               /\ printed' = printed \/ printed' = printed \cup {"unsupported"}
            \/ /\ pc' \in Starting \cup {"readasm", "preflight"}
               /\ UNCHANGED <<rc, printed>>
<1> USE DEF Starting, Exit, Goto
<1>1. CASE OpenInput \/ FindFunction \/ CheckEarly \/ LookupTarget
  BY <1>1 DEF OpenInput, FindFunction, CheckEarly, LookupTarget
<1>2. CASE StripMetadata \/ DeleteBodies \/ StripEmptyInlineAsm \/ ReplaceIdentityInlineAsm
  BY <1>2 DEF StripMetadata, DeleteBodies, StripEmptyInlineAsm, ReplaceIdentityInlineAsm, Remove
<1>3. CASE RewriteHelperCallsByNumber \/ AddDebugInfo \/ CloneModule
  BY <1>3 DEF RewriteHelperCallsByNumber, AddDebugInfo, CloneModule, Remove
<1> QED
  BY <1>1, <1>2, <1>3 DEF Prepare

(* The next step of a process                                              *)
LEMMA NextCases ==
  ASSUME Next
  PROVE  \/ Prepare \/ ReadAsm \/ Preflight \/ GenerateAsm \/ ShowAsm \/ AsmOnly
         \/ CheckSupport \/ Lift \/ RewriteStack \/ VerifyModule
         \/ Skip \/ Compare \/ Judge \/ Summary \/ Return \/ Abort
BY DEF Next, Prepare

(* The command line and the function stay what they are.                   *)
LEMMA InputsKept ==
  ASSUME [SweepNext]_sweepVars
  PROVE  /\ opts' = opts /\ src' = src
         /\ MultiEscape' = MultiEscape /\ KnownGap' = KnownGap /\ Trusted' = Trusted
<1>1. opts' = opts /\ src' = src
  BY NextCases, PrepareStep
     DEF SweepNext, Step, sweepVars, vars, Kill, Record, ShowAsm,
         ReadAsm, Preflight, GenerateAsm, AsmOnly, CheckSupport, Lift, RewriteStack,
         VerifyModule, Skip, Compare, Judge, Summary, Return, Abort
<1> QED
  BY <1>1 DEF MultiEscape, KnownGap, Trusted

(* Ending the process or going on to a stage keeps the types of both.      *)
ControlOK == printed \subseteq Marks /\ rc \in Int /\ pc \in Stages

LEMMA ExitType ==
  ASSUME ControlOK, NEW status \in Int, NEW mark \in Marks,
         Exit(status, {mark}) \/ Exit(status, {})
  PROVE  ControlOK'
BY DEF Exit, ControlOK, Stages

LEMMA GotoType ==
  ASSUME ControlOK, NEW stage \in Stages, Goto(stage)
  PROVE  ControlOK'
BY DEF Goto, ControlOK

LEMMA ControlStep ==
  ASSUME ControlOK, Next
  PROVE  ControlOK'
<1>1. /\ Failure \in Int /\ Aborted \in Int /\ 0 \in Int /\ 1 \in Int
      /\ {"unsupported", "backend", "escape", "ptrbytes", "broken", "assert"} \subseteq Marks
  BY DEF Failure, Aborted, Marks, Texts
<1>2. {"codegen", "emitted", "shown", "lift", "rewrite", "verify",
       "compare", "judge", "summary"} \subseteq Stages
  BY DEF Stages
<1>3. CASE ShowAsm
  <2>1. printed' \subseteq Marks
    BY <1>3 DEF ShowAsm, ControlOK, Texts, Marks
  <2>2. pc' \in Stages /\ rc' = rc
    BY <1>2, <1>3 DEF ShowAsm
  <2> QED
    BY <2>1, <2>2 DEF ControlOK
<1>4. CASE Prepare
  <2>1. pc' \in Stages
    BY <1>4, PrepareStep DEF Stages, Starting
  <2>2. rc' \in Int /\ printed' \subseteq Marks
    BY <1>1, <1>4, PrepareStep DEF ControlOK
  <2> QED
    BY <2>1, <2>2 DEF ControlOK
<1>5. CASE ReadAsm
  BY <1>1, <1>2, <1>5, ExitType, GotoType DEF ReadAsm
<1>6. CASE Preflight
  BY <1>1, <1>2, <1>6, ExitType, GotoType DEF Preflight
<1>7. CASE GenerateAsm
  BY <1>1, <1>2, <1>7, ExitType, GotoType DEF GenerateAsm
<1>8. CASE AsmOnly
  BY <1>1, <1>8, ExitType DEF AsmOnly
<1>9. CASE CheckSupport
  BY <1>1, <1>2, <1>9, ExitType, GotoType DEF CheckSupport
<1>10. CASE Lift
  <2>1. CASE Goto("rewrite")
    BY <1>2, <2>1, GotoType
  <2>2. CASE \E mark \in {"unsupported", "broken"} : Exit(Failure, {mark})
    BY <1>1, <2>2, ExitType
  <2> QED
    BY <1>10, <2>1, <2>2 DEF Lift
<1>11. CASE RewriteStack
  BY <1>1, <1>2, <1>11, ExitType, GotoType DEF RewriteStack, Split, Bail
<1>12. CASE VerifyModule
  BY <1>1, <1>2, <1>12, ExitType, GotoType DEF VerifyModule
<1>13. CASE Skip
  BY <1>2, <1>13, GotoType DEF Skip
<1>14. CASE Compare
  BY <1>2, <1>14, GotoType DEF Compare
<1>15. CASE Judge
  BY <1>1, <1>2, <1>15, ExitType, GotoType DEF Judge
<1>16. CASE Summary
  <2>1. SummaryMarks \subseteq Marks
    BY DEF SummaryMarks, Marks
  <2>2. printed' = printed \cup SummaryMarks /\ pc' = "return" /\ rc' = rc
    BY <1>16 DEF Summary
  <2>3. pc' \in Stages
    BY <2>2 DEF Stages
  <2> QED
    BY <2>1, <2>2, <2>3 DEF ControlOK
<1>17. CASE Return
  BY <1>1, <1>17, ExitType DEF Return
<1>18. CASE Abort
  BY <1>1, <1>18, ExitType DEF Abort
<1> QED
  BY <1>3, <1>4, <1>5, <1>6, <1>7, <1>8, <1>9, <1>10, <1>11, <1>12, <1>13, <1>14,
     <1>15, <1>16, <1>17, <1>18, NextCases

(* The rest of the type invariant.                                         *)
DataOK ==
  /\ opts \in Options
  /\ src \in Sources
  /\ sem \subseteq Features /\ code \subseteq Features
  /\ asm \in [of : SUBSET Features, garbage : BOOLEAN]
  /\ slots \subseteq Objects
  /\ lifted \in [block : BOOLEAN, touched : SUBSET Objects, own : SUBSET Objects]
  /\ verdict \in Verdicts \cup {"none"}

LEMMA DataStep ==
  ASSUME DataOK, Next
  PROVE  DataOK'
<1> USE DEF DataOK
<1>1. CASE Prepare
  <2>1. CASE AddDebugInfo
    BY <2>1 DEF AddDebugInfo, Features
  <2>2. CASE CloneModule
    BY <2>2 DEF CloneModule
  <2>3. CASE StripMetadata \/ DeleteBodies \/ StripEmptyInlineAsm
    BY <2>3 DEF StripMetadata, DeleteBodies, StripEmptyInlineAsm, Remove
  <2>4. CASE ReplaceIdentityInlineAsm \/ RewriteHelperCallsByNumber
    BY <2>4 DEF ReplaceIdentityInlineAsm, RewriteHelperCallsByNumber, Remove
  <2>5. CASE OpenInput \/ FindFunction \/ CheckEarly \/ LookupTarget
    BY <2>5 DEF OpenInput, FindFunction, CheckEarly, LookupTarget
  <2> QED
    BY <1>1, <2>1, <2>2, <2>3, <2>4, <2>5 DEF Prepare
<1>2. CASE GenerateAsm
  <2>1. PICK hadError \in BOOLEAN, kept \in SUBSET Objects :
          /\ asm' = [of |-> code, garbage |-> hadError]
          /\ slots' = IF hadError THEN {} ELSE kept
    BY <1>2 DEF GenerateAsm
  <2>2. asm' \in [of : SUBSET Features, garbage : BOOLEAN]
    BY <2>1
  <2>3. slots' \subseteq Objects
    BY <2>1
  <2> QED
    BY <1>2, <2>2, <2>3 DEF GenerateAsm
<1>3. CASE Lift
  <2>1. lifted' \in [block : BOOLEAN, touched : SUBSET Objects, own : SUBSET Objects]
    BY <1>3 DEF Lift
  <2> QED
    BY <1>3, <2>1 DEF Lift
<1>4. CASE RewriteStack
  <2>1. lifted' \in [block : BOOLEAN, touched : SUBSET Objects, own : SUBSET Objects]
    BY <1>4 DEF RewriteStack, Split, Bail
  <2> QED
    BY <1>4, <2>1 DEF RewriteStack
<1>5. CASE Compare
  BY <1>5 DEF Compare
<1>6. CASE UNCHANGED <<opts, src, sem, code, asm, slots, lifted, verdict>>
  BY <1>6
<1> QED
  BY <1>1, <1>2, <1>3, <1>4, <1>5, <1>6, NextCases
     DEF ReadAsm, Preflight, ShowAsm, AsmOnly, CheckSupport, VerifyModule, Skip,
         Judge, Summary, Return, Abort

LEMMA TypeStep ==
  ASSUME SweepTypeOK, [SweepNext]_sweepVars
  PROVE  SweepTypeOK'
<1>1. TypeOK <=> DataOK /\ ControlOK
  BY DEF TypeOK, DataOK, ControlOK
<1>2. TypeOK' <=> DataOK' /\ ControlOK'
  BY DEF TypeOK, DataOK, ControlOK
<1> USE DEF SweepTypeOK
<1>3. CASE Step
  BY <1>1, <1>2, <1>3, DataStep, ControlStep DEF Step
<1>4. CASE Kill
  <2>1. DataOK'
    BY <1>1, <1>4 DEF Kill, DataOK
  <2>2. ControlOK'
    BY <1>1, <1>4 DEF Kill, ControlOK, Killed, Stages
  <2> QED
    BY <1>2, <1>4, <2>1, <2>2 DEF Kill
<1>5. CASE Record
  <2>1. TypeOK' /\ timedOut' = timedOut
    BY <1>5 DEF Record, vars, TypeOK
  <2>2. report' \in {"none", "verified", "INCORRECT", "failed-to-prove", "rejected",
                     "crash", "timeout"}
    BY <1>5 DEF Record, classify
  <2> QED
    BY <2>1, <2>2
<1>6. CASE UNCHANGED sweepVars
  BY <1>6 DEF sweepVars, vars, TypeOK
<1> QED
  BY <1>3, <1>4, <1>5, <1>6 DEF SweepNext

(* Nothing is answered before the comparison or printed before the summary. *)
LEMMA QuietStep ==
  ASSUME IInv, SweepNext
  PROVE  Quiet'
<1> USE DEF IInv, Exit, Goto, Quiet, Assembling, Starting, Lifting
<1>1. CASE Step /\ ShowAsm
  BY <1>1 DEF Step, ShowAsm
<1>2. CASE Step /\ Prepare
  <2>1. pc \in Starting /\ verdict' = verdict
    BY <1>2, PrepareStep
  <2>2. CASE pc' = "exited"
    BY <2>2
  <2>3. CASE pc' # "exited"
    BY <1>2, <2>1, <2>3, PrepareStep DEF Starting
  <2> QED
    BY <2>2, <2>3
<1>3. CASE Step /\ ReadAsm
  BY <1>3 DEF Step, ReadAsm
<1>4. CASE Step /\ Preflight
  BY <1>4 DEF Step, Preflight
<1>5. CASE Step /\ GenerateAsm
  BY <1>5 DEF Step, GenerateAsm
<1>6. CASE Step /\ AsmOnly
  BY <1>6 DEF Step, AsmOnly
<1>7. CASE Step /\ CheckSupport
  BY <1>7 DEF Step, CheckSupport
<1>8. CASE Step /\ Lift
  BY <1>8 DEF Step, Lift
<1>9. CASE Step /\ RewriteStack
  BY <1>9 DEF Step, RewriteStack, Split, Bail
<1>10. CASE Step /\ VerifyModule
  BY <1>10 DEF Step, VerifyModule
<1>11. CASE Step /\ Skip
  BY <1>11 DEF Step, Skip
<1>12. CASE Step /\ Compare
  BY <1>12 DEF Step, Compare
<1>13. CASE Step /\ Judge
  BY <1>13 DEF Step, Judge
<1>14. CASE Step /\ Summary
  <2>1. SummaryMarks' = SummaryMarks
    BY <1>14 DEF Summary, SummaryMarks
  <2>2. SummaryMarks' \subseteq printed'
    BY <1>14, <2>1 DEF Summary
  <2> QED
    BY <1>14, <2>2 DEF Step, Summary
<1>15. CASE Step /\ Return
  BY <1>15 DEF Step, Return
<1>16. CASE Step /\ Abort
  BY <1>16 DEF Step, Abort
<1>17. CASE Kill
  BY <1>17 DEF Kill, Killed
<1>18. CASE Record
  BY <1>18 DEF Record, vars
<1> QED
  BY <1>1, <1>2, <1>3, <1>4, <1>5, <1>6, <1>7, <1>8, <1>9, <1>10, <1>11, <1>12, <1>13, <1>14, <1>15, <1>16, <1>17, <1>18, NextCases DEF SweepNext, Step

(* checkFuncSupport is passed before anything is lifted or compared.       *)
LEMMA AdmittedStep ==
  ASSUME IInv, SweepNext
  PROVE  Admitted'
<1> USE DEF IInv, Exit, Goto, Quiet, Admitted, Assembling, Lifting, Judging
<1>1. opts' = opts /\ src' = src /\ MultiEscape' = MultiEscape
  BY InputsKept
<1>2. ASSUME Step, slots' = slots PROVE Covered' = Covered
  BY <1>1, <1>2 DEF Covered
<1>3. CASE Step /\ GenerateAsm
  BY <1>3 DEF Step, GenerateAsm
<1>4. CASE Step /\ CheckSupport
  BY <1>1, <1>2, <1>4 DEF Step, CheckSupport, CopyRejected, EscapeRejected
<1>5. CASE Step /\ (ReadAsm \/ Preflight \/ ShowAsm \/ AsmOnly)
  BY <1>5 DEF Step, ReadAsm, Preflight, ShowAsm, AsmOnly
<1>10. CASE Step /\ Prepare
  BY <1>10, PrepareStep DEF Starting
<1>6. CASE Step /\ (Lift \/ RewriteStack)
  BY <1>1, <1>2, <1>6 DEF Step, Lift, RewriteStack, Split, Bail
<1>7. CASE Step /\ (VerifyModule \/ Skip \/ Compare \/ Judge)
  BY <1>1, <1>2, <1>7 DEF Step, VerifyModule, Skip, Compare, Judge
<1>8. CASE Step /\ (Summary \/ Return \/ Abort)
  BY <1>1, <1>2, <1>8 DEF Step, Summary, Return, Abort
<1>9. CASE Kill \/ Record
  <2>1. Covered' = Covered
    BY <1>9 DEF Kill, Record, vars, Covered
  <2> QED
    BY <1>1, <1>9, <2>1 DEF Kill, Record, vars
<1> QED
  BY <1>3, <1>4, <1>5, <1>6, <1>7, <1>8, <1>9, <1>10, NextCases DEF SweepNext, Step

(* The rewrite splits what coverage promised, or the process ends.         *)
LEMMA SplitStep ==
  ASSUME IInv, SweepNext
  PROVE  SplitDone'
<1> USE DEF IInv, Exit, Goto, Quiet, SplitDone, Assembling, Lifting, Judging
<1>1. opts' = opts /\ src' = src /\ MultiEscape' = MultiEscape
  BY InputsKept
<1>2. CASE Step /\ RewriteStack
  <2>1. SUFFICES ASSUME pc' # "exited", MultiEscape, ~ opts.allow
                 PROVE  src.escapes \cap lifted'.touched \subseteq lifted'.own
    BY <1>1, <1>2 DEF Step, RewriteStack
  <2>2. Covered
    BY <1>2, <2>1 DEF RewriteStack, Admitted
  <2>3. Split
    BY <1>2, <2>1 DEF RewriteStack, Bail
  <2>4. lifted \in [block : BOOLEAN, touched : SUBSET Objects, own : SUBSET Objects]
    BY DEF SweepTypeOK, TypeOK
  <2>5. CASE NothingToSplit
    <3>1. ~ lifted.block
      BY <2>2, <2>5 DEF NothingToSplit, Covered
    <3>2. lifted.touched = {}
      BY <1>2, <3>1 DEF RewriteStack, NoBlock
    <3> QED
      BY <2>3, <2>5, <3>2 DEF Split
  <2>6. CASE ~ NothingToSplit
    <3>1. lifted'.touched = lifted.touched /\ lifted'.own = lifted.touched \cap slots
      BY <2>3, <2>4, <2>6 DEF Split
    <3> QED
      BY <2>2, <3>1 DEF Covered
  <2> QED
    BY <2>5, <2>6
<1>3. CASE Step /\ Lift
  BY <1>3 DEF Step, Lift
<1>4. CASE Step /\ (ReadAsm \/ Preflight \/ GenerateAsm)
  BY <1>4 DEF Step, ReadAsm, Preflight, GenerateAsm
<1>5. CASE Step /\ (ShowAsm \/ AsmOnly \/ CheckSupport)
  BY <1>5 DEF Step, ShowAsm, AsmOnly, CheckSupport
<1>9. CASE Step /\ Prepare
  BY <1>9, PrepareStep DEF Starting
<1>6. CASE Step /\ (VerifyModule \/ Skip \/ Compare \/ Judge)
  BY <1>1, <1>6 DEF Step, VerifyModule, Skip, Compare, Judge
<1>7. CASE Step /\ (Summary \/ Return \/ Abort)
  BY <1>1, <1>7 DEF Step, Summary, Return, Abort
<1>8. CASE Kill \/ Record
  BY <1>1, <1>8 DEF Kill, Record, vars
<1> QED
  BY <1>2, <1>3, <1>4, <1>5, <1>6, <1>7, <1>8, <1>9, NextCases DEF SweepNext, Step

(* Bytes are reached through a frame only while it exists.                 *)
LEMMA NoBlockStep ==
  ASSUME IInv, SweepNext
  PROVE  NoBlock'
<1> USE DEF IInv, NoBlock
<1>1. lifted \in [block : BOOLEAN, touched : SUBSET Objects, own : SUBSET Objects]
  BY DEF SweepTypeOK, TypeOK
<1>2. CASE Step /\ Lift
  BY <1>2 DEF Lift
<1>3. CASE Step /\ RewriteStack
  BY <1>1, <1>3 DEF RewriteStack, Split, Bail
<1>4. CASE UNCHANGED lifted
  BY <1>4
<1> QED
  BY <1>2, <1>3, <1>4, NextCases, PrepareStep
     DEF SweepNext, Step, Kill, Record, vars, ReadAsm,
         Preflight, GenerateAsm, ShowAsm, AsmOnly, CheckSupport, VerifyModule, Skip, Compare,
         Judge, Summary, Return, Abort

(* Only an answer outside the known gaps goes on to the summary.           *)
LEMMA BelievedStep ==
  ASSUME IInv, SweepNext
  PROVE  Believed'
<1> USE DEF IInv, Exit, Goto, Quiet, Believed, Assembling, Lifting
<1>1. opts' = opts /\ src' = src /\ Trusted' = Trusted
  BY InputsKept
<1>2. CASE Step /\ Judge
  <2>1. SUFFICES ASSUME pc' = "summary", verdict = "unsound", ~ opts.allow
                 PROVE  ~ KnownGap
    BY <1>1, <1>2 DEF Step, Judge, Trusted
  <2>2. ~ MultiEscape /\ ~ src.ptrLoad
    BY <1>2, <2>1 DEF Judge
  <2>3. ~ src.ptrCopy
    BY <1>2, <2>1 DEF Judge, Admitted, Judging
  <2> QED
    BY <2>2, <2>3 DEF KnownGap
<1>3. CASE Step /\ Skip
  BY <1>3 DEF Step, Skip
<1>4. CASE Step /\ Summary
  BY <1>1, <1>4 DEF Step, Summary
<1>5. CASE Record
  BY <1>1, <1>5 DEF Record, vars
<1>6. CASE pc' \notin {"summary", "return"}
  BY <1>6
<1>7. Step /\ (ReadAsm \/ Preflight \/ GenerateAsm \/ ShowAsm \/ AsmOnly \/ CheckSupport)
        => pc' \notin {"summary", "return"}
  BY DEF ReadAsm, Preflight, GenerateAsm, ShowAsm, AsmOnly, CheckSupport
<1>8. Step /\ (Lift \/ RewriteStack \/ VerifyModule \/ Compare \/ Return \/ Abort)
        => pc' \notin {"summary", "return"}
  BY DEF Lift, RewriteStack, Split, Bail, VerifyModule, Compare, Return, Abort
<1>9. Kill => pc' \notin {"summary", "return"}
  BY DEF Kill
<1>10. Step /\ Prepare => pc' \notin {"summary", "return"}
  BY PrepareStep DEF Starting
<1> QED
  BY <1>2, <1>3, <1>4, <1>5, <1>6, <1>7, <1>8, <1>9, <1>10, NextCases DEF SweepNext, Step

(* The counts are printed by the summary only, from the answer.            *)
LEMMA PrintedStep ==
  ASSUME IInv, SweepNext
  PROVE  Printed'
<1> USE DEF IInv, Printed
<1>1. opts' = opts /\ src' = src /\ Trusted' = Trusted
  BY InputsKept
<1>2. CASE Step /\ Summary
  <2>1. /\ printed' = printed \cup SummaryMarks /\ verdict' = verdict
        /\ printed \cap {"1 correct", "1 incorrect", "1 failed"} = {}
    BY <1>2 DEF Summary, Quiet, Texts
  <2>2. verdict = "unsound" => Trusted
    BY <1>2 DEF Summary, Believed
  <2> QED
    BY <1>1, <2>1, <2>2 DEF SummaryMarks
<1>3. CASE Step /\ Compare
  <2>1. printed' \subseteq Texts
    BY <1>3 DEF Compare, Goto, Quiet, Lifting
  <2> QED
    BY <2>1 DEF Texts
<1>4. CASE UNCHANGED verdict /\ (\A count \in Counts : count \in printed' => count \in printed)
  BY <1>1, <1>4 DEF Counts
<1>5. Step /\ (ReadAsm \/ Preflight \/ GenerateAsm \/ ShowAsm)
        => UNCHANGED verdict /\ (\A count \in Counts : count \in printed' => count \in printed)
  BY DEF ReadAsm, Preflight, GenerateAsm, ShowAsm, Exit, Goto, Counts, Texts
<1>10. Step /\ Prepare
        => UNCHANGED verdict /\ (\A count \in Counts : count \in printed' => count \in printed)
  BY PrepareStep DEF Counts
<1>6. Step /\ (AsmOnly \/ CheckSupport \/ RewriteStack \/ VerifyModule)
        => UNCHANGED verdict /\ (\A count \in Counts : count \in printed' => count \in printed)
  BY DEF AsmOnly, CheckSupport, RewriteStack, Split, Bail, VerifyModule, Exit, Goto, Counts
<1>7. Step /\ Lift
        => UNCHANGED verdict /\ (\A count \in Counts : count \in printed' => count \in printed)
  BY DEF Lift, Exit, Goto, Counts
<1>8. Step /\ (Skip \/ Judge \/ Return \/ Abort)
        => UNCHANGED verdict /\ (\A count \in Counts : count \in printed' => count \in printed)
  BY DEF Skip, Judge, Return, Abort, Exit, Goto, Counts
<1>9. Kill \/ Record
        => UNCHANGED verdict /\ (\A count \in Counts : count \in printed' => count \in printed)
  BY DEF Kill, Record, vars
<1> QED
  BY <1>2, <1>3, <1>4, <1>5, <1>6, <1>7, <1>8, <1>9, <1>10, NextCases DEF SweepNext, Step

(* A process that exits without a count had nothing to claim.              *)
LEMMA UnprintedStep ==
  ASSUME IInv, SweepNext
  PROVE  Unprinted'
<1> USE DEF IInv, Exit, Goto, Quiet, Unprinted, Assembling, Lifting
<1>1. opts' = opts /\ src' = src /\ Trusted' = Trusted
  BY InputsKept
<1>2. CASE pc' # "exited"
  BY <1>2
<1>3. CASE Step /\ Return
  <2>1. SummaryMarks \subseteq printed' /\ rc' >= 0 /\ verdict' = verdict
    BY <1>3 DEF Return, Step
  <2>2. verdict \in Verdicts \cup {"none"}
    BY DEF SweepTypeOK, TypeOK
  <2>3. printed' \cap Counts = {} => verdict \in {"none", "error"}
    BY <2>1, <2>2 DEF SummaryMarks, Counts, Verdicts
  <2> QED
    BY <2>1, <2>3
<1>4. CASE Step /\ Judge
  BY <1>1, <1>4 DEF Judge, Failure, Trusted, KnownGap
<1>5. CASE Step /\ Abort
  BY <1>5 DEF Abort, Aborted
<1>6. CASE Kill
  BY <1>6 DEF Kill, Killed
<1>7. CASE Record
  BY <1>1, <1>7 DEF Record, vars
<1>8. CASE verdict' = "none" /\ rc' >= 0
  BY <1>8
<1>9. Step /\ (ReadAsm \/ Preflight \/ GenerateAsm \/ ShowAsm)
        => pc' # "exited" \/ (verdict' = "none" /\ rc' >= 0)
  BY DEF ReadAsm, Preflight, GenerateAsm, ShowAsm, Failure
<1>12. Step /\ Prepare => pc' # "exited" \/ (verdict' = "none" /\ rc' >= 0)
  BY PrepareStep DEF Failure, Starting
<1>10. Step /\ (AsmOnly \/ CheckSupport \/ RewriteStack \/ VerifyModule)
        => pc' # "exited" \/ (verdict' = "none" /\ rc' >= 0)
  BY DEF AsmOnly, CheckSupport, RewriteStack, Split, Bail, VerifyModule, Failure
<1>11. Step /\ (Lift \/ Skip \/ Compare \/ Summary)
        => pc' # "exited" \/ (verdict' = "none" /\ rc' >= 0)
  BY DEF Lift, Skip, Compare, Summary, Failure
<1> QED
  BY <1>2, <1>3, <1>4, <1>5, <1>6, <1>7, <1>8, <1>9, <1>10, <1>11, <1>12, NextCases DEF SweepNext, Step

(* The copies are made from the source in one order only.                  *)
LEMMA CopiesStep ==
  ASSUME IInv, SweepNext
  PROVE  Copies'
<1> USE DEF IInv, Quiet, Exit, Goto, Copies, Assembling, Starting, Lifting, Judging
<1>1. opts' = opts /\ src' = src
  BY InputsKept
<1>2. CASE Step /\ Prepare
  <2> USE DEF Semantic
  <2>1. verdict = "none" /\ verdict' = "none" /\ sem = Semantic
    BY <1>2, PrepareStep
  <2>2. CASE OpenInput \/ FindFunction \/ CheckEarly \/ LookupTarget
    BY <1>1, <2>1, <2>2 DEF OpenInput, FindFunction, CheckEarly, LookupTarget
  <2>3. CASE StripMetadata \/ DeleteBodies
    <3>1. pc' \in {"others", "target"} /\ sem' = Semantic'
      BY <2>1, <2>3 DEF StripMetadata, DeleteBodies, Remove, Given
    <3> QED
      BY <2>1, <3>1
  <2>4. CASE AddDebugInfo
    <3>1. pc' \in {"barriers", "clone"} /\ sem' = Semantic' /\ (pc' = "clone" <=> ~ opts.asmInput)
      BY <2>1, <2>4 DEF AddDebugInfo, Instrumented
    <3> QED
      BY <1>1, <2>1, <3>1
  <2>5. CASE CloneModule
    <3>1. pc' = "barriers" /\ sem' = Semantic' /\ code' = Instrumented
      BY <2>1, <2>5 DEF CloneModule
    <3> QED
      BY <1>1, <2>1, <3>1
  <2>6. CASE StripEmptyInlineAsm \/ ReplaceIdentityInlineAsm
    <3>1. pc \in {"barriers", "identities"} /\ pc' \in {"identities", "numbers"} /\ code' = code
      BY <2>6 DEF StripEmptyInlineAsm, ReplaceIdentityInlineAsm, Remove
    <3>2. sem' = Semantic'
      BY <2>1, <2>6 DEF StripEmptyInlineAsm, ReplaceIdentityInlineAsm, Remove, Instrumented
    <3> QED
      BY <1>1, <2>1, <3>1, <3>2
  <2>7. CASE RewriteHelperCallsByNumber
    <3>1. /\ pc = "numbers" /\ pc' = IF opts.asmInput THEN "readasm" ELSE "preflight"
          /\ code' = code
      BY <2>7 DEF RewriteHelperCallsByNumber, Remove
    <3>2. sem' = Semantic'
      BY <2>1, <2>7, <3>1 DEF RewriteHelperCallsByNumber, Remove, Simple
    <3> QED
      BY <1>1, <2>1, <3>1, <3>2
  <2> QED
    BY <1>2, <2>2, <2>3, <2>4, <2>5, <2>6, <2>7 DEF Prepare
<1>3. CASE Step /\ GenerateAsm
  <2>1. PICK hadError \in BOOLEAN :
          /\ asm' = [of |-> code, garbage |-> hadError]
          /\ IF hadError THEN Exit(Failure, {"backend"}) ELSE Goto("emitted")
    BY <1>3 DEF GenerateAsm
  <2>2. CASE hadError
    BY <1>1, <1>3, <2>1, <2>2 DEF Step, GenerateAsm, Semantic
  <2>3. CASE ~ hadError
    <3>1. asm' = [of |-> Instrumented, garbage |-> FALSE]
      BY <1>3, <2>1, <2>3 DEF GenerateAsm
    <3> QED
      BY <1>1, <1>3, <2>1, <2>3, <3>1 DEF Step, GenerateAsm, Semantic
  <2> QED
    BY <2>2, <2>3
<1>4. CASE Step /\ (ReadAsm \/ ShowAsm)
  BY <1>1, <1>4 DEF Step, ReadAsm, ShowAsm, Semantic
<1>5. CASE Step /\ (Preflight \/ AsmOnly \/ CheckSupport)
  BY <1>1, <1>5 DEF Step, Preflight, AsmOnly, CheckSupport, Semantic
<1>6. CASE Step /\ (Lift \/ RewriteStack)
  BY <1>1, <1>6 DEF Step, Lift, RewriteStack, Split, Bail, Semantic
<1>7. CASE Step /\ (VerifyModule \/ Skip \/ Compare \/ Judge)
  BY <1>1, <1>7 DEF Step, VerifyModule, Skip, Compare, Judge, Semantic
<1>8. CASE Step /\ (Summary \/ Return \/ Abort)
  BY <1>1, <1>8 DEF Step, Summary, Return, Abort, Semantic
<1>9. CASE Kill \/ Record
  BY <1>1, <1>9 DEF Kill, Record, vars, Semantic
<1> QED
  BY <1>2, <1>3, <1>4, <1>5, <1>6, <1>7, <1>8, <1>9, NextCases DEF SweepNext, Step

(* A record is made when the process is gone.                              *)
LEMMA RecordingStep ==
  ASSUME IInv, SweepNext
  PROVE  Recording'
<1>1. Step => pc # "exited" /\ UNCHANGED <<timedOut, report>>
  BY NextCases, PrepareStep
     DEF Step, Starting, ReadAsm, Preflight, GenerateAsm, ShowAsm, AsmOnly,
         CheckSupport, Lift, RewriteStack, VerifyModule, Skip, Compare, Judge, Summary,
         Return, Abort
<1>2. CASE Step
  BY <1>1, <1>2 DEF IInv, Recording
<1>3. CASE Kill
  BY <1>3 DEF Kill, Killed, IInv, Recording
<1>4. CASE Record
  BY <1>4 DEF IInv, Record, vars, Recording
<1> QED
  BY <1>2, <1>3, <1>4 DEF SweepNext

LEMMA InvStep ==
  ASSUME IInv, [SweepNext]_sweepVars
  PROVE  IInv'
<1>1. CASE SweepNext
  <2>1. SweepTypeOK'
    BY TypeStep DEF IInv
  <2> QED
    BY <1>1, <2>1, QuietStep, AdmittedStep, SplitStep, NoBlockStep, BelievedStep,
       PrintedStep, UnprintedStep, CopiesStep, RecordingStep DEF IInv
<1>2. CASE UNCHANGED sweepVars
  <2>1. SweepTypeOK'
    BY TypeStep DEF IInv
  <2>2. UNCHANGED <<MultiEscape, Covered, KnownGap, Trusted, SummaryMarks, Semantic>>
    BY <1>2 DEF sweepVars, vars, MultiEscape, Covered, KnownGap, Trusted, SummaryMarks, Semantic
  <2> USE <1>2 DEF IInv, sweepVars, vars
  <2>3. Quiet' /\ Admitted' /\ SplitDone' /\ NoBlock' /\ Believed'
    BY <2>2 DEF Quiet, Admitted, SplitDone, NoBlock, Believed
  <2>4. Printed' /\ Unprinted' /\ Copies' /\ Recording'
    BY <2>2 DEF Printed, Unprinted, Copies, Recording
  <2> QED
    BY <2>1, <2>3, <2>4
<1> QED
  BY <1>1, <1>2

LEMMA Invariant == SweepSpec => []IInv
<1>1. SweepInit => IInv
  BY InitInv
<1>2. IInv /\ [SweepNext]_sweepVars => IInv'
  BY InvStep
<1> QED
  BY <1>1, <1>2, PTL DEF SweepSpec

-----------------------------------------------------------------------------
(* SweepTypeOK, for any set of stack objects.                              *)
THEOREM TypeCorrect == SweepSpec => []SweepTypeOK
<1>1. IInv => SweepTypeOK
  BY DEF IInv
<1> QED
  BY <1>1, Invariant, PTL

(* PromiseKept: a function with several escaping stack objects that        *)
(* checkFuncSupport admits for its covering slots is compared only after   *)
(* rewriteStackObjects took every one of them out of the shared block,     *)
(* however many objects there are.                                         *)
THEOREM SplitPromise == SweepSpec => []PromiseKept
<1>1. IInv => PromiseKept
  BY DEF IInv, SplitDone, PromiseKept
<1> QED
  BY <1>1, Invariant, PTL

(* RightCopies: doit compares the simplified source with code compiled     *)
(* without error from a copy taken before the simplification.              *)
THEOREM CopiesSound == SweepSpec => []RightCopies
<1>1. IInv => RightCopies
  BY DEF IInv, Copies, RightCopies, Semantic, Simple, Instrumented, Quiet, Assembling, Starting
<1> QED
  BY <1>1, Invariant, PTL

(* HonestReport: bpf-tv prints an incorrect transformation only for a      *)
(* function outside the known gaps, and prints every one it finds there.   *)
THEOREM ReportSound == SweepSpec => []HonestReport
<1>1. ASSUME IInv PROVE HonestReport
  <2> USE <1>1 DEF IInv
  <2>1. SUFFICES ASSUME pc = "exited"
                 PROVE  /\ "1 incorrect" \in printed
                             => verdict = "unsound" /\ (KnownGap => opts.allow)
                        /\ verdict = "unsound" /\ "1 incorrect" \notin printed /\ rc >= 0
                             => KnownGap /\ ~ opts.allow
    BY DEF HonestReport
  <2>2. "1 incorrect" \in printed => verdict = "unsound" /\ (KnownGap => opts.allow)
    BY DEF Printed, Trusted
  <2>3. ASSUME verdict = "unsound", "1 incorrect" \notin printed, rc >= 0
        PROVE  KnownGap /\ ~ opts.allow
    <3>1. printed \cap Counts = {}
      BY <2>3 DEF Printed, Counts
    <3> QED
      BY <2>1, <2>3, <3>1 DEF Unprinted, Trusted
  <2> QED
    BY <2>2, <2>3
<1> QED
  BY <1>1, Invariant, PTL

(* The outcome that is recorded is one that Verdict allows.                *)
LEMMA ClassifyClaims ==
  ASSUME IInv, pc = "exited"
  PROVE  classify \in {r \in V!Reports : V!Claims(r)}
<1> USE DEF IInv, V!Reports, V!Claims, Trusted
<1>1. CASE timedOut
  <2>1. rc < 0
    BY <1>1 DEF Recording
  <2> QED
    BY <1>1, <2>1 DEF classify
<1>2. CASE ~ timedOut /\ printed \cap Counts # {}
  BY <1>2 DEF classify, Counts, Printed
<1>3. CASE ~ timedOut /\ printed \cap Counts = {}
  <2>1. classify = IF printed \cap Needles = {} /\ (rc < 0 \/ "assert" \in printed)
                     THEN "crash" ELSE "rejected"
    BY <1>3 DEF classify, Counts
  <2>2. rc < 0 \/ rc >= 0
    BY DEF SweepTypeOK, TypeOK
  <2>3. rc < 0 \/ V!NoAnswer
    BY <1>3, <2>2 DEF Unprinted, V!NoAnswer
  <2> QED
    BY <2>1, <2>3
<1> QED
  BY <1>2, <1>1, <1>3

(* Driver and harness implement Verdict: a record is made at most once, of *)
(* an answer given at most once, and claims what Verdict allows.           *)
THEOREM Refinement == SweepSpec => ImplementsVerdict
<1>1. SweepInit => V!Init
  BY DEF SweepInit, Init, V!Init
<1>2. ASSUME IInv, [SweepNext]_sweepVars PROVE [V!Next]_V!vars
  <2> USE <1>2
  <2>1. UNCHANGED (opts.allow \/ ~ KnownGap)
    BY InputsKept DEF Trusted
  <2>2. CASE Record
    <3>1. /\ report = "none" /\ verdict' = verdict /\ report' = classify /\ pc = "exited"
          /\ rc' = rc
      BY <2>2 DEF Record, vars
    <3>2. report' \in {r \in V!Reports : V!Claims(r)}
      BY <3>1, ClassifyClaims
    <3>3. V!Report
      BY <2>1, <3>1, <3>2 DEF V!Report
    <3> QED
      BY <3>3 DEF V!Next
  <2>3. CASE Step /\ Compare
    <3>1. verdict = "none" /\ verdict' \in V!Answers /\ report' = report /\ rc' = rc
      BY <2>3 DEF Step, Compare, Goto, IInv, Quiet, Lifting, V!Answers, Verdicts
    <3>2. report = "none"
      BY <2>3 DEF Compare, IInv, Recording
    <3>3. V!Answer
      BY <2>1, <3>1, <3>2 DEF V!Answer
    <3> QED
      BY <3>3 DEF V!Next
  <2>4. CASE (Step /\ Abort) \/ Kill
    <3>1. pc # "exited" /\ rc' < 0 /\ verdict' = verdict /\ report' = report
      BY <2>4 DEF Step, Abort, Aborted, Exit, Kill, Killed
    <3>2. rc = 0 /\ report = "none"
      BY <3>1 DEF IInv, Quiet, Recording
    <3>3. V!Stop
      BY <2>1, <3>1, <3>2 DEF V!Stop
    <3> QED
      BY <3>3 DEF V!Next
  <2>5. CASE UNCHANGED <<verdict, report, rc>>
    BY <2>1, <2>5 DEF V!vars
  <2>6. ASSUME Step, ~ Abort, ~ Compare
        PROVE  UNCHANGED <<verdict, report>> /\ rc = 0 /\ rc' \in Nat
    <3> USE DEF Exit, Goto, Failure
    <3>1. rc = 0 /\ report' = report
      BY <2>6, NextCases, PrepareStep
         DEF Step, IInv, Quiet, Starting, ReadAsm, Preflight, GenerateAsm, ShowAsm, AsmOnly,
             CheckSupport, Lift, RewriteStack, VerifyModule, Skip, Judge, Summary, Return
    <3>2. CASE Prepare \/ ReadAsm \/ Preflight \/ GenerateAsm
      BY <3>1, <3>2, PrepareStep DEF ReadAsm, Preflight, GenerateAsm
    <3>3. CASE ShowAsm \/ AsmOnly \/ CheckSupport \/ Lift
      BY <3>1, <3>3 DEF ShowAsm, AsmOnly, CheckSupport, Lift
    <3>4. CASE RewriteStack \/ VerifyModule \/ Skip
      BY <3>1, <3>4 DEF RewriteStack, Split, Bail, VerifyModule, Skip
    <3>5. CASE Judge \/ Summary \/ Return
      BY <3>1, <3>5 DEF Judge, Summary, Return
    <3>6. Next
      BY <2>6 DEF Step
    <3> QED
      BY <2>6, <3>1, <3>2, <3>3, <3>4, <3>5, <3>6, NextCases, Zenon
  <2>7. CASE Step /\ ~ Abort /\ ~ Compare
    <3>1. UNCHANGED <<verdict, report>> /\ rc = 0 /\ rc' \in Nat
      BY <2>6, <2>7
    <3>2. (rc < 0)' = (rc < 0)
      BY <3>1
    <3> QED
      BY <2>1, <3>1, <3>2 DEF V!vars
  <2> QED
    BY <2>2, <2>3, <2>4, <2>5, <2>7 DEF SweepNext, sweepVars, vars
<1> QED
  BY <1>1, <1>2, Invariant, PTL DEF SweepSpec, ImplementsVerdict, V!Spec
=============================================================================
