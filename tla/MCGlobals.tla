----------------------------- MODULE MCGlobals -----------------------------
(***************************************************************************)
(* Programs of up to three data definitions, a, b and c, that refer to     *)
(* each other and to a function f in every way: a names at most two        *)
(* symbols, b and c at most one.                                           *)
(***************************************************************************)
EXTENDS Globals

CONSTANTS a, b, c, f

MCSymbols == {a, b, c, f}

Plain(s) == [sym |-> s, mangled |-> FALSE]
Mangled(s) == [sym |-> s, mangled |-> TRUE]

MCKinds ==
  {[s \in MCSymbols |-> IF s = c THEN kc ELSE IF s = f THEN kf ELSE "data"] :
     kc \in {"data", "declared"}, kf \in {"self", "function", "unknown"}}

RefsOfA == {Plain(s) : s \in {a, b, c}} \cup {Mangled(s) : s \in {b, c}}
RefsOfB == {Plain(s) : s \in MCSymbols} \cup {Mangled(c)}
RefsOfC == {Plain(s) : s \in {a, b, c}}

AtMostOne(S) == {<< >>} \cup {<<x>> : x \in S}
AtMostTwo(S) == AtMostOne(S) \cup (S \X S)

(* A mangled spelling never leads to another one: those that do in a cycle *)
(* are lifted without end.                                                 *)
NoMangledChain(p) ==
  Mangled(b) \in {p.data[a][j] : j \in 1..Len(p.data[a])}
    => p.data[b] # << Mangled(c) >>

WithData(k, da, db, dc) ==
  [kind |-> k,
   data |-> [s \in MCSymbols |->
               IF s = a THEN da ELSE IF s = b THEN db
               ELSE IF s = c /\ k[c] = "data" THEN dc ELSE << >>]]

(* What f is only matters to the programs in which b refers to it.         *)
MCPrograms ==
  {p \in {WithData(k, da, db, dc) :
            k \in MCKinds, da \in AtMostTwo(RefsOfA),
            db \in AtMostOne(RefsOfB), dc \in AtMostOne(RefsOfC)} :
     /\ NoMangledChain(p)
     /\ p.kind[f] # "function" => p.data[b] = << Plain(f) >>}

(* struct list_head h = {&h, &h}: one self-referential definition.         *)
MCSelfReferential ==
  { WithData([s \in MCSymbols |-> IF s = f THEN "function" ELSE "data"],
             << Plain(a), Plain(a) >>, << >>, << >>) }

(* const char *names[] = {"x", "x"}: one private string, named twice.      *)
MCPrivateString ==
  { WithData([s \in MCSymbols |-> IF s = f THEN "function" ELSE "data"],
             << Mangled(b), Mangled(b) >>, << >>, << >>) }
=============================================================================
