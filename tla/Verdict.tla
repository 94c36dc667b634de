------------------------------- MODULE Verdict -------------------------------
(***************************************************************************)
(* What one validation of one function promises, whatever steps it takes:  *)
(* at most one answer of the refinement check, at most one report, and a   *)
(* report that claims no more than the answer, and hides nothing that may  *)
(* be believed.  Harness implements it.                                    *)
(*                                                                         *)
(* The outcomes are those of scripts/corpus_run.py; "rejected" stands for  *)
(* all of its outcomes that make no claim about the function.              *)
(***************************************************************************)
VARIABLES
  trusted,    \* whether an unsound answer is evidence of a miscompilation
  answer,     \* of the refinement check
  stopped,    \* whether a signal or the cap has ended the process
  report      \* the outcome recorded

vars == <<trusted, answer, stopped, report>>

Answers == {"correct", "unsound", "failed", "error"}
Reports == {"verified", "INCORRECT", "failed-to-prove", "rejected", "crash", "timeout"}

Init ==
  /\ trusted \in BOOLEAN
  /\ answer = "none"
  /\ ~ stopped
  /\ report = "none"

Answer ==
  /\ answer = "none"
  /\ report = "none"
  /\ answer' \in Answers
  /\ UNCHANGED <<trusted, stopped, report>>

Stop ==
  /\ ~ stopped
  /\ report = "none"
  /\ stopped' = TRUE
  /\ UNCHANGED <<trusted, answer, report>>

(* A signal or the cap can hide any answer; nothing else may hide one that *)
(* can be believed.                                                        *)
NoAnswer == answer \in {"none", "error"} \/ (answer = "unsound" /\ ~ trusted)

Claims(r) ==
  CASE r = "verified"              -> answer = "correct"
    [] r = "INCORRECT"             -> answer = "unsound" /\ trusted
    [] r = "failed-to-prove"       -> answer = "failed"
    [] r \in {"rejected", "crash"} -> NoAnswer \/ stopped
    [] r = "timeout"               -> stopped

Report ==
  /\ report = "none"
  /\ report' \in {r \in Reports : Claims(r)}
  /\ UNCHANGED <<trusted, answer, stopped>>

Next == Answer \/ Stop \/ Report

Spec == Init /\ [][Next]_vars
=============================================================================
