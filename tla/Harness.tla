------------------------------- MODULE Harness -------------------------------
(***************************************************************************)
(* scripts/corpus_run.py run_one and classify: one bpf-tv process run      *)
(* under a wall-clock cap, and the outcome read from its exit status and   *)
(* its output.  With the driver it implements Verdict.                     *)
(***************************************************************************)
EXTENDS Driver

VARIABLES
  timedOut,   \* subprocess.run raised TimeoutExpired
  report      \* the outcome of the record, or "none"

sweepVars == <<vars, timedOut, report>>

SweepInit ==
  /\ Init
  /\ timedOut = FALSE
  /\ report = "none"

Killed == -9

(* Mutation of Kill: the cap covers the solver's work only.                *)
KillSolver ==
  /\ pc = "compare"
  /\ timedOut' = TRUE
  /\ pc' = "exited"
  /\ rc' = Killed
  /\ UNCHANGED <<opts, src, sem, code, asm, slots, lifted, verdict, printed, report>>

(* The cap is hit, at any step of the process.                             *)
Kill ==
  /\ pc # "exited"
  /\ timedOut' = TRUE
  /\ pc' = "exited"
  /\ rc' = Killed
  /\ UNCHANGED <<opts, src, sem, code, asm, slots, lifted, verdict, printed, report>>

(* Needles of ERROR_BUCKETS                                                *)
Needles == {"unsupported", "backend", "escape", "ptrbytes", "needle"}

(* Mutation of classify: the needles go before the counts.                 *)
classifyNeedlesFirst ==
  CASE timedOut -> "timeout"
    [] ~ timedOut /\ printed \cap Needles # {} -> "rejected"
    [] ~ timedOut /\ printed \cap Needles = {} ->
         CASE "1 incorrect" \in printed -> "INCORRECT"
           [] "1 correct" \in printed -> "verified"
           [] "1 failed" \in printed -> "failed-to-prove"
           [] OTHER -> IF rc < 0 \/ "assert" \in printed THEN "crash" ELSE "rejected"

(* The counts of a finished comparison go before the needles, and those    *)
(* before the signs of a crash.  What is left is an outcome that makes no  *)
(* claim about the function.                                               *)
classify ==
  CASE timedOut -> "timeout"
    [] ~ timedOut /\ "1 incorrect" \in printed -> "INCORRECT"
    [] ~ timedOut /\ "1 correct" \in printed -> "verified"
    [] ~ timedOut /\ "1 failed" \in printed -> "failed-to-prove"
    [] ~ timedOut /\ printed \cap {"1 incorrect", "1 correct", "1 failed"} = {} ->
         IF printed \cap Needles = {} /\ (rc < 0 \/ "assert" \in printed)
           THEN "crash" ELSE "rejected"

(* Mutation of Record: the answer of the check is recorded as it is.       *)
RecordAnswer ==
  /\ pc = "exited"
  /\ report = "none"
  /\ report' = verdict
  /\ UNCHANGED <<vars, timedOut>>

Record ==
  /\ pc = "exited"
  /\ report = "none"
  /\ report' = classify
  /\ UNCHANGED <<vars, timedOut>>

Step == Next /\ UNCHANGED <<timedOut, report>>

SweepNext == Step \/ Kill \/ Record

SweepSpec == SweepInit /\ [][SweepNext]_sweepVars

(* Nothing is assumed of the process: the backend or the solver may hang   *)
(* in any of its steps.  The cap does go off, and the harness reads on.    *)
FairSweepSpec == SweepSpec /\ WF_sweepVars(Kill) /\ WF_sweepVars(Record)
-----------------------------------------------------------------------------
SweepTypeOK ==
  /\ TypeOK
  /\ timedOut \in BOOLEAN
  /\ report \in {"none", "verified", "INCORRECT", "failed-to-prove", "rejected",
                 "crash", "timeout"}

V == INSTANCE Verdict WITH
       trusted <- opts.allow \/ ~ KnownGap,
       answer <- verdict,
       stopped <- rc < 0,
       report <- report

(* A record claims what the refinement check answered, whatever names and   *)
(* strings the assembly that is printed has, and a miscompilation only      *)
(* where the lifted model can be trusted; an answer that can be trusted is  *)
(* lost to a signal or the cap only.                                        *)
ImplementsVerdict == V!Spec

(* Every process started ends in a record, whatever hangs.                 *)
Recorded == <>(report # "none")
=============================================================================
