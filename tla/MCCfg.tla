-------------------------------- MODULE MCCfg --------------------------------
(***************************************************************************)
(* Functions of up to four lines behind their first label, and byte        *)
(* programs of up to three instructions.  Label 0 is the function's, label *)
(* 9 stands for data behind its end; labels 1 and 2 may be defined or not. *)
(* The last line is not a conditional branch: that one falls off the end.  *)
(***************************************************************************)
EXTENDS Cfg

L(kind, to) == [kind |-> kind, to |-> to]

TextLines ==
  {L("op", 0), L("exit", 0), L("label", 1), L("label", 2)}
  \cup {L(kind, l) : kind \in {"jmp", "cond"}, l \in {0, 1, 2}}

ByteLines ==
  {L("op", 0), L("wide", 0), L("exit", 0)}
  \cup {L(kind, off) : kind \in {"jmp", "cond"}, off \in -Half .. Half - 1}

UpTo(S, n) == UNION {[1..m -> S] : m \in 0..n}

LabelsOnce(s) ==
  \A p, q \in 1..Len(s) : s[p] = s[q] /\ s[p].kind = "label" => p = q

EndsPlain(s) == s = << >> \/ s[Len(s)].kind # "cond"

MCPrograms ==
  {[bytes |-> FALSE, lines |-> << L("label", 0) >> \o s \o << L("end", 0), L("label", 9) >>] :
     s \in {x \in UpTo(TextLines, 4) : LabelsOnce(x) /\ EndsPlain(x)}}
  \cup
  {[bytes |-> TRUE, lines |-> s] :
     s \in {x \in UpTo(ByteLines, 3) : x # << >> /\ EndsPlain(x)}}
=============================================================================
