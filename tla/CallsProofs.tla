---------------------------- MODULE CallsProofs ----------------------------
(***************************************************************************)
(* Proofs about calls, for any functions, declarations and size of the     *)
(* scratch space: what a lifted call looks at, which calls are emitted,    *)
(* that unspecified values are independent, and that the registers follow  *)
(* Abi.                                                                    *)
(***************************************************************************)
EXTENDS Calls, SequenceTheorems, TLAPS

(* A function on 1..n is a sequence of length n.                           *)
LEMMA FunctionIsSeq ==
  ASSUME NEW S, NEW n \in Nat, NEW f \in [1..n -> S]
  PROVE  f \in Seq(S) /\ Len(f) = n
<1>1. f \in Seq(S)
  BY SeqDef
<1>2. PICK m \in Nat : m = Len(f) /\ 1..m = 1..n
  BY <1>1, LenProperties
<1>3. (m > 0 => m \in 1..n) /\ (n > 0 => n \in 1..m)
  BY <1>2
<1> QED
  BY <1>1, <1>2, <1>3

(* A sequence of whatever elements                                         *)
IsList(s) == Len(s) \in Nat /\ s = [k \in 1..Len(s) |-> s[k]]

(* A list with one more element                                            *)
LEMMA ListAppend ==
  ASSUME NEW s, IsList(s), NEW e
  PROVE  /\ Append(s, e) = [k \in 1..(Len(s) + 1) |-> IF k = Len(s) + 1 THEN e ELSE s[k]]
         /\ IsList(Append(s, e)) /\ Len(Append(s, e)) = Len(s) + 1
         /\ DOMAIN s = 1..Len(s) /\ DOMAIN Append(s, e) = 1..(Len(s) + 1)
         /\ \A k \in 1..Len(s) : Append(s, e)[k] = s[k]
         /\ Append(s, e)[Len(s) + 1] = e
<1>1. PICK n, S : n = Len(s) /\ S = {s[k] : k \in 1..n} \cup {e} /\ n \in Nat
  BY DEF IsList
<1>2. s \in [1..n -> S] /\ e \in S
  <2>1. s = [k \in 1..n |-> s[k]]
    BY <1>1 DEF IsList
  <2>2. \A k \in 1..n : s[k] \in S
    BY <1>1
  <2> QED
    BY <1>1, <2>1, <2>2
<1>3. s \in Seq(S) /\ DOMAIN s = 1..n
  BY <1>1, <1>2, FunctionIsSeq
<1>4. PICK t : t = Append(s, e) /\ t \in Seq(S) /\ Len(t) = n + 1
  <2>1. Append(s, e) \in Seq(S) /\ Len(Append(s, e)) = n + 1
    BY <1>1, <1>2, <1>3
  <2> QED
    BY <2>1
<1>5. \A k \in 1..(n + 1) : t[k] = IF k = n + 1 THEN e ELSE s[k]
  BY <1>1, <1>2, <1>3, <1>4
<1>6. t = [k \in 1..(n + 1) |-> t[k]]
  <2>1. t \in [1..Len(t) -> S]
    BY <1>4, LenProperties
  <2> QED
    BY <1>4, <2>1
<1>7. t = [k \in 1..(n + 1) |-> IF k = n + 1 THEN e ELSE s[k]]
  BY <1>5, <1>6
<1>8. IsList(t) /\ DOMAIN t = 1..(n + 1) /\ t[n + 1] = e
  BY <1>1, <1>4, <1>5, <1>6 DEF IsList
<1> QED
  BY <1>1, <1>3, <1>4, <1>5, <1>7, <1>8

Preparing == {"lines", "strip", "identity", "numbers", "adjust", "stream"}
Stages == Preparing \cup {"entry", "args", "lift", "done", "rejected", "aborted"}

(* Calls and moves are never erased.                                       *)
Prepared ==
  /\ fn \in Functions
  /\ merged \subseteq OfKind({"call"}) /\ (fn.bytes => merged = {})
  /\ alive \subseteq DOMAIN Body /\ OfKind({"call", "mov"}) \subseteq alive
  /\ pc = "lines" => alive = DOMAIN Body
  /\ pc \in Stages /\ (fn.bytes => pc \notin Preparing)

(* A line leads to its instruction, which is alive or was a return.        *)
LineMapOK ==
  /\ \A line \in DOMAIN lineMap :
       /\ line \in Nat /\ lineMap[line] = line + 1
       /\ lineMap[line] \in alive \/ lineMap[line] \in OfKind({"ret"})
  /\ pc \in Preparing \ {"lines"} =>
       \A j \in OfKind({"call", "mov"}) : j - 1 \in DOMAIN lineMap

(* Once the calls by number are renamed                                    *)
Renamed == ~ fn.bytes /\ pc \notin {"lines", "strip", "identity", "numbers"}
CalleesOK ==
  /\ DOMAIN callees = OfKind({"call"})
  /\ \A j \in OfKind({"call"}) :
       callees[j] = IF Renamed /\ j \in Numbered THEN <<"helper", Body[j].callee[2]>>
                    ELSE Body[j].callee

(* A location is none, or alive; only a merged call can be elsewhere.      *)
LocsOK ==
  /\ pc \in Preparing => locs = << >>
  /\ ~ fn.bytes /\ pc \notin Preparing => DOMAIN locs = DOMAIN Asm
  /\ \A k \in DOMAIN locs :
       /\ k \in DOMAIN Asm
       /\ locs[k] = Null \/ locs[k] \in alive
       /\ Asm[k] \notin merged => locs[k] = Asm[k]

(* The registers while the arguments are put into them                     *)
Entered(r) ==
  CASE r = 10         -> Content(<<"frame", 0>>, 64, Nothing)
    [] r \in 1..argNum -> EnforceSExtZExt(<<"arg", r>>, fn.params[r].w, fn.params[r].ext, 0)
    [] OTHER          -> Junk(0)

RegsOK ==
  /\ off \in 0..unspecifiedMemBytes /\ argNum \in 0..5 /\ at \in 0..(Len(Asm) + 1)
  /\ pc \in Preparing \cup {"entry"} =>
       regs = << >> /\ off = 0 /\ sites = {} /\ argNum = 0 /\ at = 0 /\ calls = << >>
       /\ consulted = {}
  /\ pc = "args" => /\ at = 0 /\ calls = << >>
                    /\ argNum <= Len(fn.params) /\ off <= 96 + 8 * argNum
                    /\ \A r \in Registers : Forget(regs[r]) = Forget(Entered(r))
  /\ pc = "lift" => at > 0
  /\ pc = "done" => at = Len(Asm) + 1
  /\ pc \in {"args", "lift"} => regs # << >>
  /\ regs # << >> => DOMAIN regs = Registers /\ \A r \in Registers : ContentOK(regs[r])

(* The bytes that were loaded lie below the offset of the next ones.       *)
SitesOK ==
  \A s \in sites : s.at \in Nat /\ s.w \in 1..64 /\ s.at + (s.w + 7) \div 8 <= off

(* The calls emitted are those of the instructions lifted so far.          *)
CallsOK ==
  /\ IsList(calls)
  /\ \A k \in DOMAIN calls :
       /\ calls[k].pos \in DOMAIN Asm /\ calls[k].pos < at
       /\ Asm[calls[k].pos] \in OfKind({"call"})
  /\ \A i \in DOMAIN Asm : i < at /\ Asm[i] \in OfKind({"call"}) =>
       \E k \in DOMAIN calls : calls[k].pos = i
  /\ \A k, m \in DOMAIN calls : k < m => calls[k].pos < calls[m].pos
  /\ ~ fn.bytes => \A k \in DOMAIN calls : calls[k].callee = callees[Asm[calls[k].pos]]

IInv ==
  /\ Prepared /\ LineMapOK /\ CalleesOK /\ LocsOK /\ RegsOK
  /\ SitesOK /\ JunkIndependent /\ CallsOK /\ SiteAlive

---------------------------------------------------------------------------
LEMMA FnFacts ==
  ASSUME fn \in Functions
  PROVE  /\ FunctionOK(fn) /\ AsmOK(fn)
         /\ DOMAIN Body = 1..Len(Body) /\ Len(Body) \in Nat
         /\ Asm \in Seq(DOMAIN Body)
         /\ \A k \in DOMAIN Asm : Asm[k] \in OfKind({"call", "mov"})
<1>1. FunctionOK(fn)
  BY FunctionsAssumption
<1>2. AsmOK(fn) /\ DOMAIN Body = 1..Len(Body) /\ Len(Body) \in Nat
  BY <1>1 DEF FunctionOK, Body
<1>3. Asm \in Seq(DOMAIN Body)
  BY <1>2 DEF AsmOK, Asm, Body
<1>4. \A k \in DOMAIN Asm : Asm[k] \in DOMAIN Body
  BY <1>3
<1>5. \A k \in DOMAIN Asm : Asm[k] \in OfKind({"call", "mov"})
  BY <1>2, <1>4 DEF AsmOK, Asm, Body, OfKind
<1> QED
  BY <1>1, <1>2, <1>3, <1>5

LEMMA Initially == Init => IInv
<1> SUFFICES ASSUME Init PROVE IInv
  OBVIOUS
<1>1. fn \in Functions
  BY DEF Init
<1>2. Prepared
  BY <1>1, FnFacts DEF Init, Prepared, OfKind, Stages, Preparing, FunctionOK
<1>3. LineMapOK /\ LocsOK /\ SitesOK /\ JunkIndependent /\ SiteAlive
  BY DEF Init, LineMapOK, LocsOK, SitesOK, JunkIndependent, SiteAlive, Preparing
<1>4. CalleesOK
  BY <1>1, FnFacts DEF Init, CalleesOK, Renamed, FunctionOK
<1>5. RegsOK
  BY <1>1, FnFacts, CallsAssumption DEF Init, RegsOK, Preparing
<1>6. CallsOK
  <2>1. IsList(calls) /\ DOMAIN calls = {}
    BY DEF Init, IsList
  <2> QED
    BY <2>1 DEF Init, CallsOK
<1> QED
  BY <1>2, <1>3, <1>4, <1>5, <1>6 DEF IInv

---------------------------------------------------------------------------
(* Before lifting.                                                         *)

LEMMA NothingLifted ==
  ASSUME IInv, pc \in Preparing, pc' \in Preparing \cup {"entry"},
         UNCHANGED <<fn, merged, lifted>>
  PROVE  RegsOK' /\ SitesOK' /\ JunkIndependent' /\ CallsOK' /\ SiteAlive'
<1>1. /\ regs = << >> /\ off = 0 /\ sites = {} /\ argNum = 0 /\ at = 0
      /\ calls = << >> /\ consulted = {}
  BY DEF IInv, RegsOK
<1>2. /\ fn' = fn /\ regs' = << >> /\ off' = 0 /\ sites' = {} /\ argNum' = 0 /\ at' = 0
      /\ calls' = << >> /\ consulted' = {}
  BY <1>1 DEF lifted
<1>3. RegsOK'
  BY <1>2, <1>1 DEF IInv, RegsOK, Asm, Preparing
<1>4. CallsOK'
  <2>1. IsList(calls') /\ DOMAIN (calls') = {}
    BY <1>2 DEF IsList
  <2>2. \A i \in DOMAIN Asm' : ~ (i < at')
    <3>1. Asm' \in Seq(DOMAIN Body)
      BY <1>2, FnFacts DEF IInv, Prepared, Asm
    <3> QED
      BY <3>1, <1>2
  <2> QED
    BY <2>1, <2>2 DEF CallsOK
<1> QED
  BY <1>2, <1>3, <1>4 DEF SitesOK, JunkIndependent, SiteAlive

(* Erasing instructions that are neither calls nor moves keeps the map     *)
(* pointing to what is left.                                               *)
LEMMA Erasing ==
  ASSUME IInv, fn' = fn, merged' = merged, NEW dead, Erase(dead),
         pc \in Preparing \ {"lines"}, pc' \in Preparing \ {"lines"},
         \A j \in DOMAIN Body : j \in dead => Body[j].kind \notin {"call", "mov"}
  PROVE  Prepared' /\ LineMapOK'
<1>1. /\ alive' = alive \ dead
      /\ DOMAIN lineMap' = {l \in DOMAIN lineMap : lineMap[l] \notin dead}
      /\ \A l \in DOMAIN lineMap' : lineMap'[l] = lineMap[l]
  BY DEF Erase, Without
<1>2. Prepared'
  BY <1>1 DEF IInv, Prepared, OfKind, Body, Preparing, Stages
<1>3. \A l \in DOMAIN lineMap' :
        /\ l \in Nat /\ lineMap'[l] = l + 1
        /\ lineMap'[l] \in alive' \/ lineMap'[l] \in OfKind({"ret"})
  BY <1>1 DEF IInv, LineMapOK
<1>4. \A j \in OfKind({"call", "mov"}) : j - 1 \in DOMAIN lineMap'
  <2> TAKE j \in OfKind({"call", "mov"})
  <2>1. j - 1 \in DOMAIN lineMap /\ lineMap[j - 1] = (j - 1) + 1
    BY DEF IInv, LineMapOK
  <2>2. j \in DOMAIN Body /\ Body[j].kind \in {"call", "mov"} /\ j \in Nat
    BY FnFacts DEF OfKind, IInv, Prepared
  <2>3. (j - 1) + 1 = j /\ j \notin dead
    BY <2>2
  <2> QED
    BY <1>1, <2>1, <2>3
<1> QED
  BY <1>2, <1>3, <1>4 DEF LineMapOK, OfKind, Body

LEMMA AddDebugInfoStep == ASSUME IInv, AddDebugInfo PROVE IInv'
<1> USE DEF AddDebugInfo
<1>1. pc = "lines" /\ pc' = "strip" /\ UNCHANGED <<fn, merged, alive, callees, locs, lifted>>
  OBVIOUS
<1>2. RegsOK' /\ SitesOK' /\ JunkIndependent' /\ CallsOK' /\ SiteAlive'
  BY <1>1, NothingLifted DEF Preparing
<1>3. Prepared'
  BY <1>1 DEF IInv, Prepared, OfKind, Body, Preparing, Stages
<1>4. CalleesOK' /\ LocsOK'
  BY <1>1 DEF IInv, CalleesOK, LocsOK, Renamed, OfKind, Numbered, Body, Asm, Preparing, Prepared
<1>5. LineMapOK'
  <2>1. alive = DOMAIN Body /\ DOMAIN Body = 1..Len(Body) /\ Len(Body) \in Nat
    BY <1>1, FnFacts DEF IInv, Prepared
  <2> QED
    BY <1>1, <2>1 DEF LineMapOK, OfKind, Body
<1> QED
  BY <1>2, <1>3, <1>4, <1>5 DEF IInv

LEMMA StripStep == ASSUME IInv, StripEmptyInlineAsm PROVE IInv'
<1> DEFINE dead == {j \in DOMAIN Body : Empty(j) /\ Body[j].outputs = "void"}
<1>1. /\ pc = "strip" /\ pc' = "identity" /\ Erase(dead)
      /\ UNCHANGED <<fn, merged, callees, locs, lifted>>
  BY DEF StripEmptyInlineAsm
<1>2. \A j \in DOMAIN Body : j \in dead => Body[j].kind \notin {"call", "mov"}
  BY DEF Empty
<1> HIDE DEF dead
<1>3. Prepared' /\ LineMapOK'
  BY <1>1, <1>2, Erasing DEF Preparing
<1>4. RegsOK' /\ SitesOK' /\ JunkIndependent' /\ CallsOK' /\ SiteAlive'
  BY <1>1, NothingLifted DEF Preparing
<1>5. CalleesOK' /\ LocsOK'
  BY <1>1 DEF IInv, CalleesOK, LocsOK, Renamed, OfKind, Numbered, Body, Asm, Preparing, Prepared
<1> QED
  BY <1>3, <1>4, <1>5 DEF IInv

LEMMA IdentityStep == ASSUME IInv, ReplaceIdentityInlineAsm PROVE IInv'
<1> DEFINE asms == {j \in DOMAIN Body : Identity(j)}
           dead == asms \cup UNION {Extracts(j) : j \in asms}
<1>1. /\ pc = "identity" /\ pc' = "numbers" /\ Erase(dead)
      /\ UNCHANGED <<fn, merged, callees, locs, lifted>>
  BY DEF ReplaceIdentityInlineAsm
<1>2. \A j \in DOMAIN Body : j \in dead => Body[j].kind \notin {"call", "mov"}
  BY DEF Empty, Identity, Extracts, OfKind
<1> HIDE DEF dead
<1>3. Prepared' /\ LineMapOK'
  BY <1>1, <1>2, Erasing DEF Preparing
<1>4. RegsOK' /\ SitesOK' /\ JunkIndependent' /\ CallsOK' /\ SiteAlive'
  BY <1>1, NothingLifted DEF Preparing
<1>5. CalleesOK' /\ LocsOK'
  BY <1>1 DEF IInv, CalleesOK, LocsOK, Renamed, OfKind, Numbered, Body, Asm, Preparing, Prepared
<1> QED
  BY <1>3, <1>4, <1>5 DEF IInv

LEMMA NumbersStep == ASSUME IInv, RewriteHelperCallsByNumber PROVE IInv'
<1>1. /\ pc = "numbers" /\ pc' = "adjust"
      /\ UNCHANGED <<fn, merged, alive, lineMap, locs, lifted>>
      /\ callees' = [j \in DOMAIN callees |->
                       IF j \in Numbered THEN <<"helper", callees[j][2]>> ELSE callees[j]]
  BY DEF RewriteHelperCallsByNumber
<1>2. RegsOK' /\ SitesOK' /\ JunkIndependent' /\ CallsOK' /\ SiteAlive'
  BY <1>1, NothingLifted DEF Preparing
<1>3. Prepared' /\ LineMapOK' /\ LocsOK'
  BY <1>1 DEF IInv, Prepared, LineMapOK, LocsOK, OfKind, Body, Asm, Preparing, Stages
<1>4. CalleesOK'
  <2>1. /\ DOMAIN callees = OfKind({"call"})
        /\ \A j \in OfKind({"call"}) : callees[j] = Body[j].callee
    BY <1>1 DEF IInv, CalleesOK, Renamed
  <2>2. DOMAIN callees' = OfKind({"call"})
    BY <1>1, <2>1
  <2>3. \A j \in OfKind({"call"}) :
          callees'[j] = IF j \in Numbered THEN <<"helper", Body[j].callee[2]>> ELSE Body[j].callee
    BY <1>1, <2>1
  <2>4. ~ fn.bytes /\ Renamed'
    BY <1>1 DEF Renamed, IInv, Prepared, Preparing
  <2> QED
    BY <1>1, <2>2, <2>3, <2>4 DEF CalleesOK, OfKind, Body, Numbered
<1> QED
  BY <1>2, <1>3, <1>4 DEF IInv

LEMMA AdjustStep == ASSUME IInv, AdjustSrc PROVE IInv'
<1>1. /\ pc = "adjust" /\ pc' = "stream"
      /\ UNCHANGED <<fn, merged, callees, lineMap, locs, lifted>>
      /\ alive' = alive \/ alive' = alive \ OfKind({"ret"})
  BY DEF AdjustSrc
<1>2. RegsOK' /\ SitesOK' /\ JunkIndependent' /\ CallsOK' /\ SiteAlive'
  BY <1>1, NothingLifted DEF Preparing
<1>3. Prepared' /\ LineMapOK'
  BY <1>1 DEF IInv, Prepared, LineMapOK, OfKind, Body, Preparing, Stages
<1>4. CalleesOK' /\ LocsOK'
  BY <1>1 DEF IInv, CalleesOK, LocsOK, Renamed, OfKind, Numbered, Body, Asm, Preparing, Prepared
<1> QED
  BY <1>2, <1>3, <1>4 DEF IInv

LEMMA EmitInstructionsStep == ASSUME IInv, EmitInstructions PROVE IInv'
<1>1. /\ pc = "stream" /\ pc' = "entry"
      /\ UNCHANGED <<fn, merged, alive, callees, lineMap, lifted>>
      /\ locs' = [k \in DOMAIN Asm |->
                    IF LineOf(k) \in DOMAIN lineMap THEN lineMap[LineOf(k)] ELSE Null]
  BY DEF EmitInstructions, prepared
<1>2. RegsOK' /\ SitesOK' /\ JunkIndependent' /\ CallsOK' /\ SiteAlive'
  BY <1>1, NothingLifted DEF Preparing
<1>3. Prepared' /\ LineMapOK' /\ CalleesOK'
  BY <1>1 DEF IInv, Prepared, LineMapOK, CalleesOK, Renamed, Numbered, OfKind, Body, Preparing, Stages
<1>4. fn \in Functions
  BY DEF IInv, Prepared
<1>5. ASSUME NEW k \in DOMAIN Asm
      PROVE  /\ locs'[k] = Null \/ locs'[k] \in alive
             /\ Asm[k] \notin merged => locs'[k] = Asm[k]
  <2>1. Asm[k] \in OfKind({"call", "mov"}) /\ Asm[k] \in alive /\ Asm[k] \in Nat
    BY <1>4, FnFacts DEF IInv, Prepared, OfKind
  <2>2. Asm[k] - 1 \in DOMAIN lineMap /\ lineMap[Asm[k] - 1] = Asm[k]
    BY <1>1, <2>1 DEF IInv, LineMapOK, Preparing
  <2>3. CASE Asm[k] \notin merged
    BY <1>1, <2>1, <2>2, <2>3 DEF LineOf
  <2>4. CASE Asm[k] \in merged
    <3>1. LineOf(k) = 0
      BY <2>4 DEF LineOf
    <3>2. CASE 0 \notin DOMAIN lineMap
      BY <1>1, <3>1, <3>2, <2>4
    <3>3. CASE 0 \in DOMAIN lineMap
      <4>1. locs'[k] = lineMap[0] /\ lineMap[0] = 1
        BY <1>1, <3>1, <3>3 DEF IInv, LineMapOK
      <4>2. Asm # << >>
        OBVIOUS
      <4>3. 1 \notin OfKind({"ret"})
        BY <4>2, <1>4, FnFacts DEF AsmOK, Asm, Body, OfKind
      <4> QED
        BY <4>1, <4>3, <3>3, <2>4 DEF IInv, LineMapOK
    <3> QED
      BY <3>2, <3>3
  <2> QED
    BY <2>3, <2>4
<1>6. LocsOK'
  BY <1>1, <1>5 DEF LocsOK, Asm, Preparing
<1> QED
  BY <1>2, <1>3, <1>6 DEF IInv

---------------------------------------------------------------------------
(* Contents and unspecified values.                                        *)

LEMMA BytesForFacts ==
  /\ BytesFor(64) = 8 /\ BytesFor(0) = 0
  /\ \A w \in 1..64 : BytesFor(w) \in 1..8 /\ BytesFor(w) = (w + 7) \div 8
BY DEF BytesFor

LEMMA JunkBitsFacts ==
  ASSUME NEW w \in 0..64, NEW ext
  PROVE  JunkBits(w, ext) \in 0..63
BY DEF JunkBits

(* Whatever is above a value: every bit is accounted for, and only the     *)
(* offset of the junk depends on the offset.                               *)
LEMMA EnforceFacts ==
  ASSUME NEW of, of[1] \in {"arg", "result"}, NEW w \in 1..64, NEW ext, NEW o, NEW o2
  PROVE  /\ ContentOK(EnforceSExtZExt(of, w, ext, o))
         /\ Forget(EnforceSExtZExt(of, w, ext, o)) =
              Forget(EnforceSExtZExt(of, w, ext, o2))
<1>1. CASE w = 64
  <2>1. \A x : EnforceSExtZExt(of, w, ext, x) = [of |-> of, w |-> w, up |-> <<"none", 0>>]
    BY <1>1 DEF EnforceSExtZExt, Content, Nothing
  <2> QED
    BY <2>1, <1>1 DEF Content, ContentOK, Forget, ForgetTag
<1>2. CASE w # 64 /\ "zext" \in ext
  <2>1. \A x : EnforceSExtZExt(of, w, ext, x) = [of |-> of, w |-> w, up |-> <<"zero", 0>>]
    BY <1>2 DEF EnforceSExtZExt, Content, Nothing
  <2> QED
    BY <2>1, <1>2 DEF Content, ContentOK, Forget, ForgetTag
<1>3. CASE w # 64 /\ "zext" \notin ext /\ "sext" \in ext
  <2>1. \A x : EnforceSExtZExt(of, w, ext, x) = [of |-> of, w |-> w, up |-> <<"sign", 0>>]
    BY <1>3 DEF EnforceSExtZExt, Content, Nothing
  <2> QED
    BY <2>1, <1>3 DEF Content, ContentOK, Forget, ForgetTag
<1>4. CASE w # 64 /\ "zext" \notin ext /\ "sext" \notin ext
  <2>1. \A x : EnforceSExtZExt(of, w, ext, x) = [of |-> of, w |-> w, up |-> <<"junk", x>>]
    BY <1>4 DEF EnforceSExtZExt, Content, Nothing
  <2>2. ContentOK(EnforceSExtZExt(of, w, ext, o))
    <3>1. EnforceSExtZExt(of, w, ext, o) = [of |-> of, w |-> w, up |-> <<"junk", o>>]
      BY <2>1, Zenon
    <3> QED
      BY <3>1, <1>4 DEF ContentOK
  <2>3. \A x : Forget([of |-> of, w |-> w, up |-> <<"junk", x>>]) =
                [of |-> of, w |-> w, up |-> <<"unknown", 0>>]
    BY DEF Content, Forget, ForgetTag
  <2> QED
    BY <2>1, <2>2, <2>3
<1> QED
  BY <1>1, <1>2, <1>3, <1>4

LEMMA EnforceOK ==
  ASSUME NEW of, of[1] \in {"arg", "result"}, NEW w \in 1..64, NEW ext, NEW o
  PROVE  ContentOK(EnforceSExtZExt(of, w, ext, o))
BY EnforceFacts

LEMMA JunkFacts ==
  ASSUME NEW o, NEW o2
  PROVE  ContentOK(Junk(o)) /\ Forget(Junk(o)) = Forget(Junk(o2))
BY DEF Junk, Content, ContentOK, Forget, ForgetTag, Nothing

LEMMA NotEmpty == ASSUME NEW f, DOMAIN f = Registers PROVE f # << >>
BY DEF Registers

LEMMA FrameFacts == ContentOK(Content(<<"frame", 0>>, 64, Nothing))
BY DEF Content, ContentOK, Nothing

---------------------------------------------------------------------------
(* Lifting.                                                                *)

LEMMA StillPrepared ==
  ASSUME IInv, pc \notin Preparing, pc' \in Stages \ Preparing,
         UNCHANGED <<fn, merged, prepared, locs>>
  PROVE  Prepared' /\ LineMapOK' /\ CalleesOK' /\ LocsOK'
<1>1. pc' \notin Preparing /\ pc' \in Stages
      /\ UNCHANGED <<fn, merged, alive, callees, lineMap, locs>>
  BY DEF prepared
<1>2. Prepared' /\ LineMapOK'
  BY <1>1 DEF IInv, Prepared, LineMapOK, OfKind, Body, Preparing
<1>3. CalleesOK' /\ LocsOK'
  BY <1>1 DEF IInv, CalleesOK, LocsOK, Renamed, OfKind, Numbered, Body, Asm, Preparing
<1> QED
  BY <1>2, <1>3

LEMMA CreateRegistersStep == ASSUME IInv, CreateRegisters PROVE IInv'
<1>1. /\ pc = "entry" /\ pc' = "args" /\ off = 0 /\ argNum = 0 /\ at = 0 /\ calls = << >>
      /\ UNCHANGED <<fn, merged, prepared, locs, consulted, calls, argNum, at>>
      /\ regs' = [r \in Registers |-> IF r = 10 THEN Content(<<"frame", 0>>, 64, Nothing)
                                     ELSE Junk(off + r * BytesFor(64))]
      /\ sites' = {Site(0, r, off + r * BytesFor(64), 64) : r \in Registers}
      /\ off' = off + 12 * BytesFor(64)
  BY DEF CreateRegisters, IInv, RegsOK
<1>2. Prepared' /\ LineMapOK' /\ CalleesOK' /\ LocsOK'
  BY <1>1, StillPrepared DEF Preparing, Stages
<1>3. off' = 96 /\ \A r \in Registers : off + r * BytesFor(64) = 8 * r
  <2>1. off' = 0 + 12 * 8 /\ \A r \in Registers : off + r * BytesFor(64) = 0 + r * 8
    BY <1>1, BytesForFacts, Zenon
  <2> QED
    BY <2>1 DEF Registers
<1>4. RegsOK'
  <2>1. off' \in 0..unspecifiedMemBytes /\ argNum' \in 0..5 /\ at' \in 0..(Len(Asm') + 1)
    BY <1>1, <1>3, CallsAssumption DEF Asm, IInv, RegsOK
  <2>2. DOMAIN regs' = Registers /\ \A r \in Registers : ContentOK(regs'[r])
    BY <1>1, FrameFacts, JunkFacts
  <2>3. \A r \in Registers : Forget(regs'[r]) = Forget(Entered(r)')
    BY <1>1, JunkFacts DEF Entered
  <2>4. regs' # << >>
    BY <2>2 DEF Registers
  <2>5. argNum' <= Len(fn'.params) /\ off' <= 96 + 8 * argNum'
    <3>1. fn.params \in Seq([w : 1..64, ext : Extension])
      BY FnFacts DEF IInv, Prepared, FunctionOK
    <3> QED
      BY <3>1, <1>1, <1>3
  <2> QED
    BY <2>1, <2>2, <2>3, <2>4, <2>5, <1>1 DEF RegsOK, Preparing, Entered
<1>5. SitesOK' /\ JunkIndependent'
  <2>1. \A s \in sites' : \E r \in Registers : s = [call |-> 0, reg |-> r, at |-> 8 * r, w |-> 64]
    BY <1>1, <1>3 DEF Site
  <2>2. SitesOK'
    BY <2>1, <1>3 DEF SitesOK, Registers
  <2>3. ASSUME NEW s \in sites', NEW t \in sites', s # t
        PROVE  s.at + (s.w + 7) \div 8 <= t.at \/ t.at + (t.w + 7) \div 8 <= s.at
    <3>1. PICK r \in Registers : s = [call |-> 0, reg |-> r, at |-> 8 * r, w |-> 64]
      BY <2>1
    <3>2. PICK q \in Registers : t = [call |-> 0, reg |-> q, at |-> 8 * q, w |-> 64]
      BY <2>1
    <3>3. r # q
      BY <2>3, <3>1, <3>2
    <3> QED
      BY <3>1, <3>2, <3>3 DEF Registers
  <2> QED
    BY <2>2, <2>3 DEF JunkIndependent
<1>6. CallsOK' /\ SiteAlive'
  BY <1>1 DEF IInv, CallsOK, SiteAlive, Asm, prepared, OfKind, Body
<1> QED
  BY <1>2, <1>4, <1>5, <1>6 DEF IInv

LEMMA StoppedStep ==
  ASSUME IInv, pc \in {"args", "lift"}, Reject \/ Abort, consulted' \subseteq alive
  PROVE  IInv'
<1>1. /\ pc' \in {"rejected", "aborted"}
      /\ UNCHANGED <<fn, merged, prepared, locs, regs, off, sites, calls, argNum, at>>
  BY DEF Reject, Abort
<1>2. Prepared' /\ LineMapOK' /\ CalleesOK' /\ LocsOK'
  BY <1>1, StillPrepared DEF Preparing, Stages
<1>3. RegsOK'
  BY <1>1 DEF IInv, RegsOK, Preparing, Asm
<1>4. SitesOK' /\ JunkIndependent' /\ CallsOK' /\ SiteAlive'
  BY <1>1 DEF IInv, SitesOK, JunkIndependent, CallsOK, SiteAlive, Asm, OfKind, Body, prepared
<1> QED
  BY <1>2, <1>3, <1>4 DEF IInv

(* Loads that share no byte, all of them below offset o                    *)
Apart(S, o) ==
  /\ \A s \in S : s.at \in Nat /\ s.w \in 1..64 /\ s.at + (s.w + 7) \div 8 <= o
  /\ \A s, t \in S : s # t => \/ s.at + (s.w + 7) \div 8 <= t.at
                             \/ t.at + (t.w + 7) \div 8 <= s.at

(* One more load, of w bits at the end of those there are                  *)
LEMMA OneMoreSite ==
  ASSUME NEW S, NEW o \in Nat, Apart(S, o), NEW n, NEW r, NEW w \in 0..64
  PROVE  Apart(S \cup Loads({Site(n, r, o, w)}), o + BytesFor(w)) /\ o + BytesFor(w) \in Nat
<1> DEFINE T == S \cup Loads({Site(n, r, o, w)})
           o2 == o + BytesFor(w)
<1>1. CASE w = 0
  <2>1. T = S /\ o2 = o
    BY <1>1, BytesForFacts DEF Loads, Site
  <2> QED
    BY <2>1
<1>2. CASE w > 0
  <2>1. PICK s : s = [call |-> n, reg |-> r, at |-> o, w |-> w]
    OBVIOUS
  <2>2. T = S \cup {s} /\ s.at = o /\ s.w = w
    BY <1>2, <2>1 DEF Loads, Site
  <2>3. w \in 1..64 /\ o2 = o + (w + 7) \div 8 /\ o2 >= o /\ o2 \in Nat
    BY <1>2, BytesForFacts
  <2> HIDE DEF T, o2
  <2>4. \A x \in S : x.at \in Nat /\ x.w \in 1..64 /\ x.at + (x.w + 7) \div 8 <= o
    BY DEF Apart
  <2>5. \A x \in T : x.at \in Nat /\ x.w \in 1..64 /\ x.at + (x.w + 7) \div 8 <= o2
    <3>1. \A x \in S : x.at \in Nat /\ x.w \in 1..64 /\ x.at + (x.w + 7) \div 8 <= o2
      BY <2>3, <2>4
    <3>2. s.at \in Nat /\ s.w \in 1..64 /\ s.at + (s.w + 7) \div 8 <= o2
      BY <2>2, <2>3
    <3> QED
      BY <2>2, <3>1, <3>2
  <2>6. \A x \in S : x.at + (x.w + 7) \div 8 <= s.at
    BY <2>2, <2>4
  <2>7. \A x, y \in T : x # y => \/ x.at + (x.w + 7) \div 8 <= y.at
                                \/ y.at + (y.w + 7) \div 8 <= x.at
    BY <2>2, <2>6 DEF Apart
  <2>8. Apart(T, o2) /\ o2 \in Nat
    BY <2>3, <2>5, <2>7 DEF Apart
  <2> QED
    BY <2>8 DEF T, o2
<1> QED
  BY <1>1, <1>2

LEMMA InitArgumentStep == ASSUME IInv, InitArgument PROVE IInv'
<1>1. pc = "args" /\ argNum < Len(fn.params) /\ consulted' = consulted
  BY DEF InitArgument
<1>2. CASE argNum >= 5 /\ Reject
  BY <1>1, <1>2, StoppedStep DEF IInv, SiteAlive
<1>3. CASE argNum < 5 /\ ~ (argNum >= 5 /\ Reject)
  <2>1. PICK r, p, junkBits :
          r = argNum + 1 /\ p = fn.params[r] /\ junkBits = JunkBits(p.w, p.ext)
    OBVIOUS
  <2>2. /\ regs' = [regs EXCEPT ![r] = EnforceSExtZExt(<<"arg", r>>, p.w, p.ext, off)]
        /\ sites' = sites \cup Loads({Site(0, r, off, junkBits)})
        /\ off' = off + BytesFor(junkBits)
        /\ argNum' = argNum + 1
        /\ UNCHANGED <<fn, merged, prepared, locs, calls, at, pc>>
    BY <1>3, <2>1 DEF InitArgument
  <2>3. fn.params \in Seq([w : 1..64, ext : Extension]) /\ argNum \in 0..4 /\ r \in 1..5
    BY <1>1, <1>3, <2>1, FnFacts DEF IInv, Prepared, FunctionOK, RegsOK
  <2>4. p \in [w : 1..64, ext : Extension] /\ p.w \in 1..64
    <3>1. r \in 1..Len(fn.params)
      BY <1>1, <2>1, <2>3
    <3>2. p \in [w : 1..64, ext : Extension]
      BY <2>1, <2>3, <3>1, ElementOfSeq
    <3> QED
      BY <3>2
  <2>5. junkBits \in 0..63 /\ BytesFor(junkBits) \in 0..8
    BY <2>1, <2>4, JunkBitsFacts, BytesForFacts
  <2>6. Prepared' /\ LineMapOK' /\ CalleesOK' /\ LocsOK'
    BY <1>1, <2>2, StillPrepared, SMTT(30) DEF Preparing, Stages
  <2>7. SitesOK' /\ JunkIndependent'
    <3>1. off \in Nat /\ junkBits \in 0..64 /\ SitesOK /\ JunkIndependent
      BY <2>5, CallsAssumption DEF IInv, RegsOK
    <3>2. Apart(sites, off)
      BY <3>1 DEF Apart, SitesOK, JunkIndependent
    <3>3. Apart(sites', off')
      BY <2>2, <3>1, <3>2, OneMoreSite
    <3> QED
      BY <3>3 DEF Apart, SitesOK, JunkIndependent
  <2>8. CallsOK' /\ SiteAlive'
    BY <1>1, <2>2 DEF IInv, CallsOK, SiteAlive, Asm, OfKind, Body, prepared
  <2>9. RegsOK'
    <3>1. /\ off \in 0..unspecifiedMemBytes /\ at = 0 /\ calls = << >> /\ off <= 96 + 8 * argNum
          /\ DOMAIN regs = Registers /\ \A q \in Registers : ContentOK(regs[q])
          /\ \A q \in Registers : Forget(regs[q]) = Forget(Entered(q))
          /\ at \in 0..(Len(Asm) + 1)
      BY <1>1 DEF IInv, RegsOK
    <3>2. /\ off' \in 0..unspecifiedMemBytes /\ off' <= 96 + 8 * argNum'
          /\ argNum' \in 0..5 /\ argNum' <= Len(fn'.params)
      <4>1. PICK o, n, m, u : /\ o = off /\ n = argNum /\ m = BytesFor(junkBits)
                              /\ u = unspecifiedMemBytes
        OBVIOUS
      <4>2. off' = o + m /\ argNum' = n + 1 /\ fn' = fn /\ n \in 0..4 /\ n + 1 <= Len(fn.params)
        BY <1>1, <2>2, <2>3, <4>1
      <4>3. o \in Nat /\ o <= 96 + 8 * n /\ m \in 0..8 /\ u \in Nat /\ u >= 136
        BY <2>5, <3>1, <4>1, CallsAssumption
      <4>4. o + m \in 0..u /\ o + m <= 96 + 8 * (n + 1) /\ n + 1 \in 0..5
        BY <4>2, <4>3
      <4> QED
        BY <4>1, <4>2, <4>4
    <3>3. DOMAIN regs' = Registers /\ \A q \in Registers : ContentOK(regs'[q])
      <4>1. <<"arg", r>>[1] = "arg"
        OBVIOUS
      <4>2. ContentOK(EnforceSExtZExt(<<"arg", r>>, p.w, p.ext, off))
        BY <4>1, <2>4, EnforceOK
      <4> QED
        BY <2>2, <3>1, <4>2
    <3>4. ASSUME NEW q \in Registers PROVE Forget(regs'[q]) = Forget(Entered(q)')
      <4>1. CASE q = r
        <5>1. Entered(q)' = EnforceSExtZExt(<<"arg", r>>, p.w, p.ext, 0)
          BY <4>1, <2>1, <2>2, <2>3 DEF Entered, EnforceSExtZExt, Content, Nothing
        <5>2. regs'[q] = EnforceSExtZExt(<<"arg", r>>, p.w, p.ext, off)
          BY <4>1, <2>2, <3>1
        <5>3. Forget(EnforceSExtZExt(<<"arg", r>>, p.w, p.ext, off)) =
              Forget(EnforceSExtZExt(<<"arg", r>>, p.w, p.ext, 0))
          <6>1. <<"arg", r>>[1] = "arg"
            OBVIOUS
          <6> QED
            BY <6>1, <2>4, EnforceFacts
        <5> QED
          BY <5>1, <5>2, <5>3
      <4>2. CASE q # r
        <5>1. q \in 1..argNum' <=> q \in 1..argNum
          BY <4>2, <2>1, <2>2, <2>3 DEF Registers
        <5>2. Entered(q)' = Entered(q)
          BY <5>1, <2>2 DEF Entered, EnforceSExtZExt, Content, Nothing, Junk
        <5> QED
          BY <4>2, <5>2, <2>2, <3>1
      <4> QED
        BY <4>1, <4>2
    <3>5. regs' # << >>
      BY <3>3 DEF Registers
    <3> QED
      BY <1>1, <2>2, <3>1, <3>2, <3>3, <3>4, <3>5 DEF RegsOK, Preparing, Asm
  <2> QED
    BY <2>6, <2>7, <2>8, <2>9 DEF IInv
<1> QED
  BY <1>2, <1>3 DEF InitArgument

LEMMA FinishEntryStep == ASSUME IInv, FinishEntry PROVE IInv'
<1>1. /\ pc = "args" /\ pc' = "lift" /\ at' = 1 /\ at = 0 /\ calls = << >>
      /\ UNCHANGED <<fn, merged, prepared, locs, regs, off, sites, consulted, calls, argNum>>
  BY DEF FinishEntry, IInv, RegsOK
<1>2. Prepared' /\ LineMapOK' /\ CalleesOK' /\ LocsOK'
  BY <1>1, StillPrepared DEF Preparing, Stages
<1>3. Asm \in Seq(DOMAIN Body) /\ Asm' = Asm
  BY <1>1, FnFacts DEF IInv, Prepared, Asm
<1>4. RegsOK'
  BY <1>1, <1>3 DEF IInv, RegsOK, Preparing
<1>5. CallsOK'
  <2>1. IsList(calls') /\ DOMAIN (calls') = {}
    BY <1>1 DEF IsList
  <2>2. \A i \in DOMAIN Asm' : ~ (i < at')
    BY <1>1, <1>3
  <2> QED
    BY <2>1, <2>2 DEF CallsOK
<1>6. SitesOK' /\ JunkIndependent' /\ SiteAlive'
  BY <1>1 DEF IInv, SitesOK, JunkIndependent, SiteAlive, prepared
<1> QED
  BY <1>2, <1>4, <1>5, <1>6 DEF IInv

LEMMA MoveStep == ASSUME IInv, Move PROVE IInv'
<1> DEFINE d == Body[Asm[at]].d
           src == Body[Asm[at]].s
<1>1. /\ pc = "lift" /\ at \in DOMAIN Asm /\ Body[Asm[at]].kind = "mov"
      /\ regs' = [regs EXCEPT ![d] = regs[src]] /\ at' = at + 1
      /\ UNCHANGED <<fn, merged, prepared, locs, off, sites, consulted, calls, argNum, pc>>
  BY DEF Move, Lifting
<1>2. Prepared' /\ LineMapOK' /\ CalleesOK' /\ LocsOK'
  BY <1>1, StillPrepared DEF Preparing, Stages
<1>3. Asm \in Seq(DOMAIN Body) /\ Asm' = Asm /\ Body' = Body /\ Asm[at] \in DOMAIN Body
  BY <1>1, FnFacts DEF IInv, Prepared, Asm, Body
<1>4. d \in Registers /\ src \in Registers
  BY <1>1, <1>3, FnFacts DEF IInv, Prepared, FunctionOK, Body
<1> HIDE DEF d, src
<1>5. RegsOK'
  <2>1. DOMAIN regs = Registers /\ \A r \in Registers : ContentOK(regs[r])
    BY <1>1 DEF IInv, RegsOK
  <2>2. DOMAIN regs' = Registers /\ \A r \in Registers : ContentOK(regs'[r])
    BY <1>1, <1>4, <2>1
  <2>3. at' \in 0..(Len(Asm) + 1) /\ at' > 0
    BY <1>1, <1>3
  <2>4. regs' # << >>
    BY <2>2 DEF Registers
  <2> QED
    BY <1>1, <1>3, <2>2, <2>3, <2>4 DEF IInv, RegsOK, Preparing
<1>6. CallsOK'
  <2>1. at \notin {i \in DOMAIN Asm : Asm[i] \in OfKind({"call"})} /\ at \in Nat
    BY <1>1, <1>3 DEF OfKind
  <2>2. \A i \in DOMAIN Asm : Asm[i] \in OfKind({"call"}) => (i < at' <=> i < at)
    BY <1>1, <1>3, <2>1
  <2>3. UNCHANGED <<calls, callees, fn>> /\ OfKind({"call"})' = OfKind({"call"})
    BY <1>1, <1>3 DEF OfKind, prepared
  <2> QED
    BY <1>3, <2>2, <2>3 DEF IInv, CallsOK
<1>7. SitesOK' /\ JunkIndependent' /\ SiteAlive'
  BY <1>1 DEF IInv, SitesOK, JunkIndependent, SiteAlive, prepared
<1> QED
  BY <1>2, <1>5, <1>6, <1>7 DEF IInv

---------------------------------------------------------------------------
(* The loads after a call.                                                 *)
LEMMA CallSites ==
  ASSUME SitesOK, JunkIndependent, off \in Nat, Len(calls) \in Nat,
         NEW type, type.ret \in 0..64, NEW ext, NEW fast \in BOOLEAN,
         sites' = SitesAfter(type, ext, fast), off' = OffAfter(type, ext, fast)
  PROVE  /\ SitesOK' /\ JunkIndependent'
         /\ off' \in Nat
<1>1. PICK n, b, o1 :
        n = Len(calls) + 1 /\ b = ResultBits(type, ext) /\ o1 = off + BytesFor(b)
  OBVIOUS
<1>2. b \in 0..64
  <2>1. JunkBits(type.ret, ext) \in 0..63
    BY JunkBitsFacts
  <2> QED
    BY <2>1, <1>1 DEF ResultBits
<1>3. PICK S1 : S1 = sites \cup Loads({Site(n, 0, off, b)})
  OBVIOUS
<1>4. Apart(S1, o1) /\ o1 \in Nat
  <2>1. Apart(sites, off)
    BY DEF Apart, SitesOK, JunkIndependent
  <2> QED
    BY <2>1, <1>1, <1>2, <1>3, OneMoreSite
<1>5. \A r, o : Loads({Site(n, r, o, 64)}) = {Site(n, r, o, 64)}
  BY DEF Loads, Site
<1>6. ASSUME NEW S, NEW o \in Nat, Apart(S, o), NEW r
      PROVE  Apart(S \cup {Site(n, r, o, 64)}, o + 8) /\ o + 8 \in Nat
  <2>1. 64 \in 0..64
    OBVIOUS
  <2>2. Apart(S \cup Loads({Site(n, r, o, 64)}), o + BytesFor(64)) /\ o + BytesFor(64) \in Nat
    BY <1>6, <2>1, OneMoreSite
  <2> QED
    BY <1>5, <2>2, BytesForFacts, Zenon
<1>7. /\ \A r \in 1..6 : ArgumentAt(type, ext, r) = o1 + (r - 1) * 8
  BY <1>1, BytesForFacts, Zenon DEF ArgumentAt
<1>8. PICK S2, o2 :
        /\ o2 = NoResultAt(type, ext, fast)
        /\ S2 = S1 \cup {Site(n, r, ArgumentAt(type, ext, r), 64) : r \in IF fast THEN {} ELSE 1..5}
  OBVIOUS
<1>9. Apart(S2, o2) /\ o2 \in Nat
  <2>1. CASE fast
    <3>1. S2 = S1 /\ o2 = o1
      BY <2>1, <1>4, <1>7, <1>8 DEF NoResultAt
    <3> QED
      BY <3>1, <1>4
  <2>2. CASE ~ fast
    <3>1. PICK T1, T2, T3, T4, T5 :
            /\ T1 = S1 \cup {Site(n, 1, o1, 64)}
            /\ T2 = T1 \cup {Site(n, 2, o1 + 8, 64)}
            /\ T3 = T2 \cup {Site(n, 3, (o1 + 8) + 8, 64)}
            /\ T4 = T3 \cup {Site(n, 4, ((o1 + 8) + 8) + 8, 64)}
            /\ T5 = T4 \cup {Site(n, 5, (((o1 + 8) + 8) + 8) + 8, 64)}
      OBVIOUS
    <3>2. Apart(T1, o1 + 8) /\ o1 + 8 \in Nat
      BY <1>4, <1>6, <3>1
    <3>3. Apart(T2, (o1 + 8) + 8) /\ (o1 + 8) + 8 \in Nat
      BY <3>2, <1>6, <3>1
    <3>4. Apart(T3, ((o1 + 8) + 8) + 8) /\ ((o1 + 8) + 8) + 8 \in Nat
      BY <3>3, <1>6, <3>1
    <3>5. Apart(T4, (((o1 + 8) + 8) + 8) + 8) /\ (((o1 + 8) + 8) + 8) + 8 \in Nat
      BY <3>4, <1>6, <3>1
    <3>6. Apart(T5, ((((o1 + 8) + 8) + 8) + 8) + 8) /\ ((((o1 + 8) + 8) + 8) + 8) + 8 \in Nat
      BY <3>5, <1>6, <3>1
    <3>7. o2 = ((((o1 + 8) + 8) + 8) + 8) + 8
      BY <2>2, <1>4, <1>7, <1>8 DEF NoResultAt
    <3>8. /\ ArgumentAt(type, ext, 1) = o1 /\ ArgumentAt(type, ext, 2) = o1 + 8
          /\ ArgumentAt(type, ext, 3) = (o1 + 8) + 8
          /\ ArgumentAt(type, ext, 4) = ((o1 + 8) + 8) + 8
          /\ ArgumentAt(type, ext, 5) = (((o1 + 8) + 8) + 8) + 8
      BY <1>4, <1>7
    <3>9. 1..5 = {1, 2, 3, 4, 5}
      OBVIOUS
    <3>10. S2 = S1 \cup {Site(n, r, ArgumentAt(type, ext, r), 64) : r \in {1, 2, 3, 4, 5}}
      BY <2>2, <1>8, <3>9
    <3>11. S2 = T5
      BY <3>1, <3>8, <3>10
    <3> QED
      BY <3>6, <3>7, <3>11
  <2> QED
    BY <2>1, <2>2
<1>10. sites' = S2 \cup (IF type.ret = 0 THEN {Site(n, 0, o2, 64)} ELSE {})
  BY <1>1, <1>3, <1>8 DEF SitesAfter
<1>11. off' = o2 + (IF type.ret = 0 THEN 8 ELSE 0)
  BY <1>8, BytesForFacts DEF OffAfter
<1>12. Apart(sites', off') /\ off' \in Nat
  <2>1. CASE type.ret = 0
    BY <2>1, <1>6, <1>9, <1>10, <1>11
  <2>2. CASE type.ret # 0
    <3>1. sites' = S2 /\ off' = o2
      BY <2>2, <1>9, <1>10, <1>11
    <3> QED
      BY <3>1, <1>9
  <2> QED
    BY <2>1, <2>2
<1> QED
  BY <1>12 DEF Apart, SitesOK, JunkIndependent

(* The registers after a call are contents, too.                           *)
LEMMA CallRegs ==
  ASSUME DOMAIN regs = Registers, \A r \in Registers : ContentOK(regs[r]),
         NEW type, type.ret \in 0..64, NEW ext, NEW fast \in BOOLEAN
  PROVE  /\ DOMAIN AfterCall(type, ext, fast) = Registers
         /\ \A r \in Registers : ContentOK(AfterCall(type, ext, fast)[r])
<1>1. type.ret > 0 => ContentOK(ResultOf(type, ext))
  <2>1. PICK of : of = <<"result", Len(calls) + 1>>
    OBVIOUS
  <2>2. of[1] \in {"arg", "result"}
    BY <2>1
  <2> QED
    <3> SUFFICES ASSUME type.ret > 0 PROVE ContentOK(ResultOf(type, ext))
      OBVIOUS
    <3>1. type.ret \in 1..64
      OBVIOUS
    <3>2. ContentOK(EnforceSExtZExt(of, type.ret, ext, off))
      BY <2>2, <3>1, EnforceOK
    <3> QED
      BY <2>1, <3>2 DEF ResultOf
<1>2. \A o : ContentOK(Junk(o))
  BY JunkFacts
<1>3. ASSUME NEW r \in Registers PROVE ContentOK(AfterCall(type, ext, fast)[r])
  <2>1. CASE r = 0 /\ type.ret > 0
    BY <2>1, <1>1 DEF AfterCall
  <2>2. CASE r = 0 /\ type.ret = 0
    BY <2>2, <1>2 DEF AfterCall
  <2>3. CASE r \in 1..5 /\ ~ fast
    BY <2>3, <1>2 DEF AfterCall
  <2>4. CASE r # 0 /\ ~ (r \in 1..5 /\ ~ fast)
    BY <2>4 DEF AfterCall
  <2> QED
    BY <2>1, <2>2, <2>3, <2>4
<1> QED
  BY <1>3 DEF AfterCall

LEMMA EmitCallStep ==
  ASSUME IInv, pc = "lift", at \in DOMAIN Asm, Body[Asm[at]].kind = "call",
         NEW callee, NEW type \in FunctionType, NEW args, NEW ext, NEW fast \in BOOLEAN, NEW noret,
         EmitCall(callee, type, args, ext, fast, noret), consulted' \subseteq alive,
         ~ fn.bytes => callee = callees[Asm[at]]
  PROVE  IInv'
<1>1. CASE Abort
  BY <1>1, StoppedStep
<1>2. CASE ~ Abort
  <2>1. PICK c : c = [callee |-> callee, args |-> args, noreturn |-> noret, pos |-> at]
    OBVIOUS
  <2>2. /\ OffAfter(type, ext, fast) <= unspecifiedMemBytes
        /\ calls' = Append(calls, c)
        /\ regs' = AfterCall(type, ext, fast)
        /\ sites' = SitesAfter(type, ext, fast)
        /\ off' = OffAfter(type, ext, fast)
        /\ at' = at + 1
        /\ UNCHANGED <<fn, merged, prepared, locs, argNum, pc>>
    BY <1>2, <2>1 DEF EmitCall, Fits
  <2>3. type.ret \in 0..64
    BY DEF FunctionType
  <2>4. Prepared' /\ LineMapOK' /\ CalleesOK' /\ LocsOK'
    BY <2>2, StillPrepared DEF Preparing, Stages
  <2>5. /\ Asm \in Seq(DOMAIN Body) /\ Asm' = Asm /\ Asm[at] \in OfKind({"call"})
        /\ OfKind({"call"})' = OfKind({"call"}) /\ at \in Nat
        /\ UNCHANGED <<fn, callees>>
    BY <2>2, FnFacts DEF IInv, Prepared, Asm, Body, OfKind, prepared
  <2>6. off \in Nat /\ IsList(calls) /\ Len(calls) \in Nat
    BY CallsAssumption DEF IInv, RegsOK, CallsOK, IsList
  <2>7. SitesOK' /\ JunkIndependent' /\ off' \in Nat
    BY <2>2, <2>3, <2>6, CallSites DEF IInv
  <2>8. RegsOK'
    <3>1. DOMAIN regs = Registers /\ \A r \in Registers : ContentOK(regs[r])
      BY DEF IInv, RegsOK
    <3>2. DOMAIN regs' = Registers /\ \A r \in Registers : ContentOK(regs'[r])
      BY <2>2, <2>3, <3>1, CallRegs
    <3>3. at' \in 0..(Len(Asm) + 1) /\ at' > 0
      BY <2>2, <2>5
    <3>4. off' \in 0..unspecifiedMemBytes
      BY <2>2, <2>7, CallsAssumption
    <3>5. regs' # << >>
      BY <3>2, NotEmpty
    <3> QED
      BY <2>2, <2>5, <3>2, <3>3, <3>4, <3>5 DEF IInv, RegsOK, Preparing
  <2>9. CallsOK'
    <3>1. /\ IsList(calls') /\ DOMAIN calls = 1..Len(calls)
          /\ DOMAIN (calls') = 1..(Len(calls) + 1)
          /\ \A m \in 1..Len(calls) : calls'[m] = calls[m]
          /\ calls'[Len(calls) + 1] = c
      BY <2>2, <2>6, ListAppend
    <3>2. c.pos = at /\ c.callee = callee
      BY <2>1
    <3>3. \A m \in DOMAIN (calls') :
             (m \in DOMAIN calls /\ calls'[m] = calls[m]) \/ (m = Len(calls) + 1 /\ calls'[m] = c)
      BY <3>1, <2>6
    <3>4. \A m \in DOMAIN (calls') :
             /\ calls'[m].pos \in DOMAIN Asm /\ calls'[m].pos < at'
             /\ Asm[calls'[m].pos] \in OfKind({"call"})
      <4> TAKE m \in DOMAIN (calls')
      <4>1. CASE m \in DOMAIN calls /\ calls'[m] = calls[m]
        <5>1. calls[m].pos \in DOMAIN Asm /\ calls[m].pos < at /\ Asm[calls[m].pos] \in OfKind({"call"})
          BY <4>1 DEF IInv, CallsOK
        <5> QED
          BY <4>1, <5>1, <2>2, <2>5
      <4>2. CASE m = Len(calls) + 1 /\ calls'[m] = c
        BY <4>2, <3>2, <2>2, <2>5
      <4> QED
        BY <4>1, <4>2, <3>3
    <3>5. \A i \in DOMAIN Asm : i < at' /\ Asm[i] \in OfKind({"call"}) =>
             \E m \in DOMAIN (calls') : calls'[m].pos = i
      <4> TAKE i \in DOMAIN Asm
      <4> HAVE i < at' /\ Asm[i] \in OfKind({"call"})
      <4>1. i < at \/ i = at
        BY <2>2, <2>5
      <4>2. CASE i < at
        <5>1. PICK m \in DOMAIN calls : calls[m].pos = i
          BY <4>2 DEF IInv, CallsOK
        <5> QED
          BY <5>1, <3>1, <2>6
      <4>3. CASE i = at
        BY <4>3, <3>1, <3>2, <2>6
      <4> QED
        BY <4>1, <4>2, <4>3
    <3>6. \A m, q \in DOMAIN (calls') : m < q => calls'[m].pos < calls'[q].pos
      <4> TAKE m, q \in DOMAIN (calls')
      <4> HAVE m < q
      <4>1. CASE q \in DOMAIN calls
        <5>1. m \in DOMAIN calls /\ calls'[m] = calls[m] /\ calls'[q] = calls[q]
          BY <4>1, <3>1, <2>6
        <5> QED
          BY <4>1, <5>1 DEF IInv, CallsOK
      <4>2. CASE q \notin DOMAIN calls
        <5>1. m \in DOMAIN calls /\ calls'[m] = calls[m] /\ calls'[q] = c
          BY <4>2, <3>1, <3>3, <2>6
        <5>2. calls[m].pos < at
          BY <5>1 DEF IInv, CallsOK
        <5> QED
          BY <5>1, <5>2, <3>2
      <4> QED
        BY <4>1, <4>2
    <3>7. ~ fn.bytes => \A m \in DOMAIN (calls') : calls'[m].callee = callees[Asm[calls'[m].pos]]
      BY <3>2, <3>3 DEF IInv, CallsOK
    <3> QED
      BY <3>1, <3>4, <3>5, <3>6, <3>7, <2>5 DEF CallsOK
  <2>10. SiteAlive'
    BY <2>2 DEF SiteAlive, prepared
  <2> QED
    BY <2>4, <2>7, <2>8, <2>9, <2>10 DEF IInv
<1> QED
  BY <1>1, <1>2

(* What the code and the source say of the call to be lifted               *)
LEMMA CallFacts ==
  ASSUME IInv, Lifting("call")
  PROVE  /\ pc = "lift" /\ at \in DOMAIN Asm /\ Body[Asm[at]].kind = "call"
         /\ Asm[at] \in OfKind({"call"}) /\ Asm[at] \in DOMAIN Body
         /\ CallOK(Body[Asm[at]]) /\ (fn.bytes => BytesCallOK(Body[Asm[at]]))
         /\ ~ fn.bytes /\ CurCallee[1] = "name" => callees[Asm[at]] = CurCallee
         /\ ~ fn.bytes /\ CurCallee[1] = "number" /\ CurCallee[2] >= 0 =>
              callees[Asm[at]] = <<"helper", CurCallee[2]>>
         /\ ~ fn.bytes => locs[at] = Null \/ (locs[at] \in alive /\ locs[at] \in DOMAIN Body)
         /\ ~ fn.bytes /\ Asm[at] \notin merged => locs[at] = Asm[at]
<1>1. pc = "lift" /\ at \in DOMAIN Asm /\ Body[Asm[at]].kind = "call" /\ fn \in Functions
  BY DEF Lifting, IInv, Prepared
<1>2. Asm[at] \in OfKind({"call"}) /\ Asm[at] \in DOMAIN Body
  BY <1>1, FnFacts DEF OfKind
<1>3. CallOK(Body[Asm[at]]) /\ (fn.bytes => BytesCallOK(Body[Asm[at]]))
  BY <1>1, <1>2, FnFacts DEF FunctionOK, Body
<1>4. ~ fn.bytes => callees[Asm[at]] = IF Asm[at] \in Numbered THEN <<"helper", CurCallee[2]>> ELSE CurCallee
  BY <1>1, <1>2 DEF IInv, CalleesOK, Renamed, CurCallee
<1>5. Asm[at] \in Numbered <=> CurCallee[1] = "number" /\ CurCallee[2] >= 0
  BY <1>2 DEF Numbered, CurCallee
<1>6. /\ ~ fn.bytes => locs[at] = Null \/ (locs[at] \in alive /\ locs[at] \in DOMAIN Body)
      /\ ~ fn.bytes /\ Asm[at] \notin merged => locs[at] = Asm[at]
  BY <1>1 DEF IInv, Prepared, LocsOK, Preparing
<1> QED
  BY <1>1, <1>2, <1>3, <1>4, <1>5, <1>6

LEMMA DoCallStep ==
  ASSUME IInv, Lifting("call"), NEW callee, NEW type \in FunctionType, NEW flag, NEW j,
         DoCall(callee, type, flag, j), consulted' \subseteq alive,
         ~ fn.bytes => callee = callees[Asm[at]]
  PROVE  IInv'
<1>1. pc = "lift" /\ at \in DOMAIN Asm /\ Body[Asm[at]].kind = "call"
  BY DEF Lifting
<1>2. CASE Reject
  BY <1>1, <1>2, StoppedStep
<1>3. CASE ~ Reject
  <2> DEFINE all == MarshallArgs(type)
             args3 == IF flag THEN [all EXCEPT ![4] = Content(<<"false", 0>>, 1, Nothing)] ELSE all
  <2>1. EmitCall(callee, type, args3, Extensions(j), Fastcall(j), NoReturn(j))
    BY <1>3, Zenon DEF DoCall
  <2>2. Fastcall(j) \in BOOLEAN
    BY DEF Fastcall
  <2> HIDE DEF args3
  <2> QED
    BY <1>1, <2>1, <2>2, EmitCallStep
<1> QED
  BY <1>2, <1>3

LEMMA ConsultAlive ==
  ASSUME IInv, NEW j, Consult(j), j = Null \/ j \in alive
  PROVE  consulted' \subseteq alive
BY DEF Consult, IInv, SiteAlive

LEMMA DoDirectCallStep == ASSUME IInv, DoDirectCall PROVE IInv'
<1>1. Lifting("call") /\ CurCallee[1] = "name"
  BY DEF DoDirectCall
<1>2. /\ ~ fn.bytes
      /\ CurCallee[2] \in DOMAIN Declared /\ callees[Asm[at]] = CurCallee
      /\ locs[at] = Null \/ locs[at] \in alive
  BY <1>1, CallFacts DEF CallOK, BytesCallOK, CurCallee
<1>3. Consult(locs[at])
  BY DEF DoDirectCall
<1>4. consulted' \subseteq alive
  BY <1>2, <1>3, ConsultAlive
<1>5. CASE Reject
  BY <1>1, <1>4, <1>5, StoppedStep DEF Lifting
<1>6. CASE ~ Reject
  <2>1. DoCall(CurCallee, Declared[CurCallee[2]].type, Declared[CurCallee[2]].flag, locs[at])
    BY <1>6 DEF DoDirectCall, DirectCallee
  <2>2. Declared[CurCallee[2]].type \in FunctionType
    BY <1>2, DeclaredAssumption
  <2> QED
    BY <1>1, <1>2, <1>4, <2>1, <2>2, DoCallStep
<1> QED
  BY <1>5, <1>6

(* A helper that is called has the type of the source's call.              *)
LEMMA HelperType ==
  ASSUME NEW j, NEW n, callees[j] = <<"helper", n>>, Called(j) # {}
  PROVE  /\ helpers[n] = Body[j].type
         /\ \A d \in Called(j) : d.ext = {} /\ ~ d.fastcall /\ ~ d.noreturn
<1>1. callees[j][1] = "helper" /\ callees[j][2] = n
  OBVIOUS
<1>2. Function(callees[j]) = {[type |-> helpers[n], ext |-> {}, fastcall |-> FALSE,
                               noreturn |-> FALSE, flag |-> FALSE]}
  BY <1>1 DEF Function
<1>3. \A d \in Called(j) : d \in Function(callees[j]) /\ d.type = Body[j].type
  BY DEF Called
<1> QED
  BY <1>2, <1>3

LEMMA DoHelperCallStep == ASSUME IInv, DoHelperCall PROVE IInv'
<1> DEFINE n == CurCallee[2]
           j == locs[at]
<1>1. Lifting("call") /\ CurCallee[1] = "number"
  BY DEF DoHelperCall
<1>2. consulted \subseteq alive /\ pc = "lift"
  BY <1>1 DEF IInv, SiteAlive, Lifting
<1>3. CASE n < 0 /\ Reject /\ UNCHANGED consulted
  BY <1>2, <1>3, StoppedStep
<1>4. CASE /\ n >= 0 /\ fn.bytes
           /\ EmitCall(<<"helper", n>>, GenericHelper, MarshallArgs(GenericHelper), {}, FALSE, FALSE)
           /\ UNCHANGED consulted
  <2>1. GenericHelper \in FunctionType
    BY DEF GenericHelper, FunctionType
  <2>2. FALSE \in BOOLEAN
    OBVIOUS
  <2> HIDE DEF n
  <2> QED
    BY <1>1, <1>2, <1>4, <2>1, <2>2, CallFacts, EmitCallStep
<1>5. CASE n >= 0 /\ ~ fn.bytes /\ Consult(j) /\ Reject
  <2>1. consulted' \subseteq alive
    BY <1>1, <1>5, CallFacts, ConsultAlive
  <2> QED
    BY <1>2, <1>5, <2>1, StoppedStep
<1>6. CASE /\ n >= 0 /\ ~ fn.bytes /\ Consult(j)
           /\ IsCallInst(j) /\ Body[j].kind = "call"
           /\ callees[j] = <<"helper", n>> /\ Called(j) # {}
           /\ DoCall(<<"helper", n>>, helpers[n], FALSE, j)
  <2>1. j \in alive /\ j \in DOMAIN Body
    BY <1>1, <1>6, CallFacts DEF IsCallInst
  <2>2. consulted' \subseteq alive
    BY <1>6, <2>1, ConsultAlive
  <2>3. helpers[n] = Body[j].type
    BY <1>6, HelperType
  <2>4. Body[j].type \in FunctionType
    BY <1>6, <2>1, FnFacts DEF IInv, Prepared, FunctionOK, CallOK, Body
  <2>5. callees[Asm[at]] = <<"helper", n>>
    BY <1>1, <1>6, CallFacts
  <2> HIDE DEF n, j
  <2> QED
    BY <1>1, <1>6, <2>2, <2>3, <2>4, <2>5, DoCallStep
<1> QED
  BY <1>3, <1>4, <1>5, <1>6 DEF DoHelperCall

LEMMA FinishStep == ASSUME IInv, Finish PROVE IInv'
<1>1. /\ pc = "lift" /\ pc' = "done" /\ at = Len(Asm) + 1
      /\ UNCHANGED <<fn, merged, prepared, locs, lifted>>
  BY DEF Finish
<1>2. Prepared' /\ LineMapOK' /\ CalleesOK' /\ LocsOK'
  BY <1>1, StillPrepared DEF Preparing, Stages
<1>3. RegsOK'
  BY <1>1 DEF IInv, RegsOK, Preparing, lifted, Asm
<1>4. SitesOK' /\ JunkIndependent' /\ CallsOK' /\ SiteAlive'
  BY <1>1 DEF IInv, SitesOK, JunkIndependent, CallsOK, SiteAlive, Asm, OfKind, Body, prepared, lifted
<1> QED
  BY <1>2, <1>3, <1>4 DEF IInv

LEMMA Unchanged == ASSUME IInv, UNCHANGED vars PROVE IInv'
<1>1. UNCHANGED <<fn, merged, prepared, locs, lifted, pc>>
  BY DEF vars, prepared, lifted
<1>2. Prepared' /\ LineMapOK' /\ CalleesOK' /\ LocsOK'
  BY <1>1 DEF IInv, Prepared, LineMapOK, CalleesOK, LocsOK, Renamed, OfKind, Numbered, Body, Asm, prepared
<1>3. RegsOK'
  BY <1>1 DEF IInv, RegsOK, lifted, Asm, Entered
<1>4. SitesOK' /\ JunkIndependent' /\ CallsOK' /\ SiteAlive'
  BY <1>1 DEF IInv, SitesOK, JunkIndependent, CallsOK, SiteAlive, Asm, OfKind, Body, prepared, lifted
<1> QED
  BY <1>2, <1>3, <1>4 DEF IInv

LEMMA Inductive == IInv /\ [Next]_vars => IInv'
<1> SUFFICES ASSUME IInv, [Next]_vars PROVE IInv'
  OBVIOUS
<1>1. CASE AddDebugInfo \/ StripEmptyInlineAsm \/ ReplaceIdentityInlineAsm
  BY <1>1, AddDebugInfoStep, StripStep, IdentityStep
<1>2. CASE RewriteHelperCallsByNumber \/ AdjustSrc \/ EmitInstructions
  BY <1>2, NumbersStep, AdjustStep, EmitInstructionsStep
<1>3. CASE CreateRegisters \/ InitArgument \/ FinishEntry
  BY <1>3, CreateRegistersStep, InitArgumentStep, FinishEntryStep
<1>4. CASE Move \/ DoDirectCall \/ DoHelperCall \/ Finish
  BY <1>4, MoveStep, DoDirectCallStep, DoHelperCallStep, FinishStep
<1>5. CASE Ended \/ UNCHANGED vars
  BY <1>5, Unchanged DEF Ended
<1> QED
  BY <1>1, <1>2, <1>3, <1>4, <1>5 DEF Next

(* The inductive invariant of the preparation and the lifting of calls     *)
THEOREM Invariant == Spec => []IInv
BY Initially, Inductive, PTL DEF Spec

(* The registers hold contents whose every bit is accounted for, and no    *)
(* unspecified value lies beyond the end of __bpf_tv_unspecified.          *)
THEOREM TypesCorrect == Spec => []TypeOK
<1>1. IInv => TypeOK
  <2> SUFFICES ASSUME IInv PROVE TypeOK
    OBVIOUS
  <2>1. consulted \subseteq DOMAIN Body
    BY DEF IInv, SiteAlive, Prepared
  <2>2. \A line \in DOMAIN lineMap : lineMap[line] \in DOMAIN Body
    BY DEF IInv, LineMapOK, Prepared, OfKind
  <2>3. DOMAIN locs \subseteq DOMAIN Asm
    BY DEF IInv, LocsOK
  <2> QED
    BY <2>1, <2>2, <2>3 DEF TypeOK, IInv, Prepared, RegsOK, Stages, Preparing
<1> QED
  BY <1>1, Invariant, PTL

(* No two unspecified values of a lifted function share a byte, whatever   *)
(* it calls: unspecifiedValue gives each site an offset of its own.        *)
THEOREM JunkApart == Spec => []JunkIndependent
BY Invariant, PTL DEF IInv

(* A source instruction that lifting a call looks at was not erased.       *)
THEOREM SitesAlive == Spec => []SiteAlive
BY Invariant, PTL DEF IInv

(* A function that is lifted to its end has the calls of its assembly, one *)
(* for one, each of what its source call was made to call, whatever the    *)
(* code generator moved, duplicated, merged or left out.                   *)
THEOREM CallsComplete == Spec => []CallsMatched
<1>1. IInv => CallsMatched
  <2> SUFFICES ASSUME IInv, pc = "done", ~ fn.bytes PROVE CallsMatched
    BY DEF CallsMatched
  <2>1. /\ \A k, m \in DOMAIN calls : k < m => calls[k].pos < calls[m].pos
        /\ \A k \in DOMAIN calls : calls[k].callee = callees[Asm[calls[k].pos]]
    BY DEF IInv, CallsOK
  <2>2. \A k \in DOMAIN calls :
           calls[k].pos \in DOMAIN Asm /\ Body[Asm[calls[k].pos]].kind = "call"
    BY DEF IInv, CallsOK, OfKind
  <2>3. ASSUME NEW i \in DOMAIN Asm, Body[Asm[i]].kind = "call"
        PROVE  \E k \in DOMAIN calls : calls[k].pos = i
    <3>1. Asm \in Seq(DOMAIN Body)
      BY FnFacts DEF IInv, Prepared
    <3>2. i < at /\ Asm[i] \in OfKind({"call"})
      BY <3>1, <2>3 DEF IInv, RegsOK, OfKind
    <3> QED
      BY <3>2 DEF IInv, CallsOK
  <2> QED
    BY <2>1, <2>2, <2>3 DEF CallsMatched
<1> QED
  BY <1>1, Invariant, PTL

---------------------------------------------------------------------------
(* The calling convention.                                                 *)

LEMMA ProgramKept == ASSUME fn' = fn PROVE AbiProgram' = AbiProgram
BY DEF AbiProgram, Asm, Meaning, Body

LEMMA AbiKept ==
  ASSUME UNCHANGED <<fn, at, calls>>, at = 0 \/ regs' = regs
  PROVE  UNCHANGED A!vars
<1>1. AbiProgram' = AbiProgram
  BY ProgramKept
<1>2. AbiRegs' = AbiRegs
  BY DEF AbiRegs
<1>3. AbiCalls' = AbiCalls
  BY DEF AbiCalls, AbiArgs
<1> QED
  BY <1>1, <1>2, <1>3 DEF A!vars

(* Known contents keep what Abi says of them, unspecified ones are unknown.*)
LEMMA ForgetEnforce ==
  ASSUME NEW of, of[1] # "junk", NEW w \in 1..64, NEW ext, NEW o
  PROVE  Forget(EnforceSExtZExt(of, w, ext, o)) = A!Extended(of, w, ext)
<1> DEFINE v == EnforceSExtZExt(of, w, ext, o)
<1>1. v.of = of /\ v.w = w
  BY DEF EnforceSExtZExt, Content
<1>2. ForgetTag(v.of) = of
  BY <1>1 DEF ForgetTag
<1>3. PICK up : up = IF w = 64 THEN <<"none", 0>> ELSE IF "zext" \in ext THEN <<"zero", 0>>
                     ELSE IF "sext" \in ext THEN <<"sign", 0>> ELSE <<"unknown", 0>>
  OBVIOUS
<1>4. ForgetTag(v.up) = up
  BY <1>3 DEF ForgetTag, EnforceSExtZExt, Content, Nothing
<1>5. A!Extended(of, w, ext) = [of |-> of, w |-> w, up |-> up]
  BY <1>3 DEF A!Extended, A!Content, A!Nothing, A!Unknown
<1> HIDE DEF v
<1>6. Forget(v) = [of |-> of, w |-> w, up |-> up]
  BY <1>1, <1>2, <1>4 DEF Forget, Content
<1> QED
  BY <1>5, <1>6 DEF v

LEMMA ForgetJunk ==
  ASSUME NEW o
  PROVE  Forget(Junk(o)) = A!Content(A!Unknown, 64, A!Nothing)
BY DEF Forget, ForgetTag, Junk, Content, Nothing, A!Content, A!Unknown, A!Nothing

LEMMA EnterStep == ASSUME IInv, FinishEntry PROVE A!Enter
<1>1. /\ pc = "args" /\ argNum = Len(fn.params) /\ at = 0 /\ at' = 1
      /\ UNCHANGED <<fn, regs, calls>> /\ argNum \in 0..5
      /\ DOMAIN regs = Registers
      /\ \A r \in Registers : Forget(regs[r]) = Forget(Entered(r))
  BY DEF FinishEntry, IInv, RegsOK
<1>2. AbiProgram' = AbiProgram /\ AbiProgram.params = fn.params
  BY <1>1, ProgramKept DEF AbiProgram
<1>3. AbiCalls' = AbiCalls
  BY <1>1 DEF AbiCalls, AbiArgs
<1>4. AbiRegs' = [r \in Registers |-> Forget(Entered(r))]
  BY <1>1 DEF AbiRegs
<1>5. ASSUME NEW r \in Registers
      PROVE  Forget(Entered(r)) =
               CASE r = A!FramePointer -> A!Content(<<"frame", 0>>, 64, A!Nothing)
                 [] r \in 1..Len(fn.params) ->
                      A!Extended(<<"arg", r>>, fn.params[r].w, fn.params[r].ext)
                 [] OTHER -> A!Content(A!Unknown, 64, A!Nothing)
  <2>1. CASE r = 10
    <3>1. Entered(r) = Content(<<"frame", 0>>, 64, Nothing)
      BY <2>1, <1>1 DEF Entered
    <3>2. Forget(Content(<<"frame", 0>>, 64, Nothing)) = A!Content(<<"frame", 0>>, 64, A!Nothing)
      BY DEF Forget, ForgetTag, Content, Nothing, A!Content, A!Nothing
    <3> QED
      BY <2>1, <1>1, <3>1, <3>2 DEF A!FramePointer
  <2>2. CASE r \in 1..argNum
    <3>6. argNum \in 0..5
      BY <1>1
    <3>1. r # 10
      BY <2>2, <3>6
    <3>2. Entered(r) = EnforceSExtZExt(<<"arg", r>>, fn.params[r].w, fn.params[r].ext, 0)
      BY <2>2, <3>1, <1>1 DEF Entered
    <3>3. fn.params[r].w \in 1..64
      <4>1. fn.params \in Seq([w : 1..64, ext : Extension])
        BY FnFacts DEF IInv, Prepared, FunctionOK
      <4>2. fn.params[r] \in [w : 1..64, ext : Extension]
        <5>1. r \in 1..Len(fn.params)
          BY <2>2, <1>1
        <5> QED
          BY <4>1, <5>1, ElementOfSeq
      <4> QED
        BY <4>2
    <3>4. <<"arg", r>>[1] # "junk"
      OBVIOUS
    <3>5. Forget(Entered(r)) = A!Extended(<<"arg", r>>, fn.params[r].w, fn.params[r].ext)
      BY <3>2, <3>3, <3>4, ForgetEnforce
    <3> QED
      BY <2>2, <3>1, <3>5, <1>1 DEF A!FramePointer
  <2>3. CASE r # 10 /\ r \notin 1..argNum
    <3>1. Entered(r) = Junk(0)
      BY <2>3 DEF Entered
    <3> QED
      BY <2>3, <3>1, <1>1, ForgetJunk DEF A!FramePointer
  <2> QED
    BY <2>1, <2>2, <2>3
<1>6. A!Registers = Registers
  BY DEF A!Registers, Registers
<1> QED
  BY <1>1, <1>2, <1>3, <1>4, <1>5, <1>6 DEF A!Enter

LEMMA MoveAbi == ASSUME IInv, Move PROVE A!Move
<1> DEFINE d == Body[Asm[at]].d
           src == Body[Asm[at]].s
<1>1. /\ pc = "lift" /\ at \in DOMAIN Asm /\ Body[Asm[at]].kind = "mov"
      /\ regs' = [regs EXCEPT ![d] = regs[src]] /\ at' = at + 1
      /\ UNCHANGED <<fn, calls>> /\ at > 0 /\ at \in Nat /\ DOMAIN regs = Registers
  <2>1. Asm \in Seq(DOMAIN Body)
    BY FnFacts DEF IInv, Prepared
  <2> QED
    BY <2>1 DEF Move, Lifting, IInv, RegsOK
<1>2. Asm[at] \in DOMAIN Body
  BY <1>1, FnFacts DEF IInv, Prepared
<1>3. d \in Registers /\ src \in Registers
  BY <1>1, <1>2, FnFacts DEF IInv, Prepared, FunctionOK, Body
<1>4. /\ AbiProgram' = AbiProgram
      /\ DOMAIN AbiProgram.code = DOMAIN Asm /\ AbiProgram.code[at] = Meaning(Asm[at])
  BY <1>1, ProgramKept DEF AbiProgram
<1>5. Meaning(Asm[at]).kind = "mov" /\ Meaning(Asm[at]).d = d /\ Meaning(Asm[at]).s = src
  BY <1>1 DEF Meaning
<1>6. AbiCalls' = AbiCalls
  BY <1>1 DEF AbiCalls, AbiArgs
<1> HIDE DEF d, src
<1>7. AbiRegs = [r \in Registers |-> Forget(regs[r])] /\ AbiRegs' = [r \in Registers |-> Forget(regs'[r])]
  BY <1>1 DEF AbiRegs
<1>8. AbiRegs' = [AbiRegs EXCEPT ![d] = AbiRegs[src]]
  BY <1>1, <1>3, <1>7
<1> QED
  BY <1>1, <1>4, <1>5, <1>6, <1>8 DEF A!Move, A!Current

(* What Abi says of register r after the n-th call                         *)
Convention(n, ret, ext, fast, r) ==
  CASE r = 0 /\ ret > 0 -> A!Extended(<<"result", n>>, ret, ext)
    [] (r = 0 /\ ret = 0) \/ (r \in 1..5 /\ ~ fast) -> A!Content(A!Unknown, 64, A!Nothing)
    [] OTHER -> AbiRegs[r]

LEMMA AfterCallAbi ==
  ASSUME DOMAIN regs = Registers, at # 0, NEW type, type.ret \in 0..64, NEW ext,
         NEW fast \in BOOLEAN, NEW r \in Registers
  PROVE  Forget(AfterCall(type, ext, fast)[r]) = Convention(Len(calls) + 1, type.ret, ext, fast, r)
<1>1. CASE r = 0 /\ type.ret > 0
  <2>1. PICK of : of = <<"result", Len(calls) + 1>>
    OBVIOUS
  <2>2. of[1] # "junk"
    BY <2>1
  <2>3. type.ret \in 1..64
    BY <1>1
  <2>4. AfterCall(type, ext, fast)[r] = EnforceSExtZExt(of, type.ret, ext, off)
    BY <1>1, <2>1 DEF AfterCall, ResultOf
  <2>5. Forget(AfterCall(type, ext, fast)[r]) = A!Extended(of, type.ret, ext)
    BY <2>2, <2>3, <2>4, ForgetEnforce
  <2> QED
    BY <1>1, <2>1, <2>5 DEF Convention
<1>2. CASE r = 0 /\ type.ret = 0
  BY <1>2, ForgetJunk DEF AfterCall, Convention
<1>3. CASE r \in 1..5 /\ ~ fast
  <2>1. r # 0
    BY <1>3
  <2>2. AfterCall(type, ext, fast)[r] = Junk(ArgumentAt(type, ext, r))
    BY <1>3, <2>1 DEF AfterCall
  <2>3. Forget(AfterCall(type, ext, fast)[r]) = A!Content(A!Unknown, 64, A!Nothing)
    BY <2>2, ForgetJunk
  <2> QED
    BY <1>3, <2>1, <2>3 DEF Convention
<1>4. CASE r # 0 /\ ~ (r \in 1..5 /\ ~ fast)
  <2>1. AfterCall(type, ext, fast)[r] = regs[r]
    BY <1>4 DEF AfterCall
  <2> QED
    BY <1>4, <2>1 DEF AbiRegs, Convention
<1>5. type.ret > 0 \/ type.ret = 0
  OBVIOUS
<1> QED
  BY <1>1, <1>2, <1>3, <1>4, <1>5, Zenon

(* An emitted call is a call of Abi if it is of what the code's            *)
(* instruction means.                                                      *)
LEMMA EmitCallAbi ==
  ASSUME IInv, Lifting("call"),
         NEW callee, NEW type \in FunctionType, NEW args, NEW ext, NEW fast \in BOOLEAN, NEW noret,
         EmitCall(callee, type, args, ext, fast, noret),
         NEW m, m = Meaning(Asm[at]),
         m.callee = callee, m.ret = type.ret, m.ext = ext, m.fastcall = fast, m.noreturn = noret,
         [a \in DOMAIN args |-> Forget(args[a])] = A!Passed(m)
  PROVE  A!Call \/ UNCHANGED A!vars
<1>1. CASE Abort
  BY <1>1, AbiKept DEF Abort
<1>2. CASE ~ Abort
  <2>1. PICK c : c = [callee |-> callee, args |-> args, noreturn |-> noret, pos |-> at]
    OBVIOUS
  <2>2. /\ calls' = Append(calls, c)
        /\ regs' = AfterCall(type, ext, fast)
        /\ at' = at + 1 /\ UNCHANGED fn
    BY <1>2, <2>1 DEF EmitCall
  <2>3. /\ at \in DOMAIN Asm /\ at # 0 /\ at \in Nat /\ at' # 0
        /\ Body[Asm[at]].kind = "call" /\ DOMAIN regs = Registers
    <3>1. Asm \in Seq(DOMAIN Body)
      BY FnFacts DEF IInv, Prepared
    <3> QED
      BY <2>2, <3>1 DEF Lifting, IInv, RegsOK
  <2>4. /\ AbiProgram' = AbiProgram
        /\ DOMAIN AbiProgram.code = DOMAIN Asm /\ A!Current = m
    BY <2>2, <2>3, ProgramKept DEF AbiProgram, A!Current
  <2>5. m.kind = "call"
    BY <2>3 DEF Meaning
  <2>6. IsList(calls) /\ Len(calls) \in Nat
    BY DEF IInv, CallsOK, IsList
  <2>7. PICK e : e = [callee |-> callee, args |-> A!Passed(m), noreturn |-> noret]
    OBVIOUS
  <2>8. /\ IsList(calls') /\ DOMAIN calls = 1..Len(calls) /\ DOMAIN (calls') = 1..(Len(calls) + 1)
        /\ \A q \in 1..Len(calls) : calls'[q] = calls[q]
        /\ calls'[Len(calls) + 1] = c
    BY <2>2, <2>6, ListAppend
  <2>9. DOMAIN AbiCalls = 1..Len(calls) /\ Len(AbiCalls) = Len(calls) /\ IsList(AbiCalls)
    <3>1. DOMAIN AbiCalls = 1..Len(calls) /\ AbiCalls = [q \in 1..Len(calls) |-> AbiCalls[q]]
      BY <2>8 DEF AbiCalls
    <3>2. AbiCalls \in [1..Len(calls) -> {AbiCalls[q] : q \in 1..Len(calls)}]
      BY <3>1
    <3>3. Len(AbiCalls) = Len(calls)
      BY <2>6, <3>2, FunctionIsSeq
    <3> QED
      BY <2>6, <3>1, <3>3 DEF IsList
  <2>10. AbiCalls' = Append(AbiCalls, e)
    <3>1. Append(AbiCalls, e) = [q \in 1..(Len(calls) + 1) |->
                                   IF q = Len(calls) + 1 THEN e ELSE AbiCalls[q]]
      BY <2>9, ListAppend
    <3>2. AbiCalls' = [q \in 1..(Len(calls) + 1) |->
                         [callee |-> calls'[q].callee, args |-> AbiArgs(calls'[q]),
                          noreturn |-> calls'[q].noreturn]]
      BY <2>8 DEF AbiCalls, AbiArgs
    <3>3. AbiArgs(c) = A!Passed(m)
      BY <2>1 DEF AbiArgs
    <3>4. \A q \in 1..(Len(calls) + 1) :
            [callee |-> calls'[q].callee, args |-> AbiArgs(calls'[q]), noreturn |-> calls'[q].noreturn]
              = IF q = Len(calls) + 1 THEN e ELSE AbiCalls[q]
      <4> TAKE q \in 1..(Len(calls) + 1)
      <4>1. CASE q = Len(calls) + 1
        BY <4>1, <2>1, <2>7, <2>8, <3>3
      <4>2. CASE q # Len(calls) + 1
        <5>1. q \in 1..Len(calls) /\ calls'[q] = calls[q]
          BY <4>2, <2>6, <2>8
        <5> QED
          BY <4>2, <5>1, <2>8 DEF AbiCalls
      <4> QED
        BY <4>1, <4>2
    <3> QED
      BY <3>1, <3>2, <3>4
  <2>11. AbiRegs' = [r \in Registers |-> Forget(AfterCall(type, ext, fast)[r])]
    <3>1. DOMAIN AfterCall(type, ext, fast) = Registers
      BY DEF AfterCall
    <3> QED
      BY <2>2, <2>3, <3>1 DEF AbiRegs
  <2>12. type.ret \in 0..64
    BY DEF FunctionType
  <2>13. AbiRegs' = [r \in Registers |->
                       Convention(Len(AbiCalls) + 1, A!Current.ret, A!Current.ext, A!Current.fastcall, r)]
    <3>1. \A r \in Registers :
            Forget(AfterCall(type, ext, fast)[r]) = Convention(Len(calls) + 1, type.ret, ext, fast, r)
      BY <2>3, <2>12, AfterCallAbi
    <3> QED
      BY <2>4, <2>9, <2>11, <3>1
  <2>14. A!Registers = Registers
    BY DEF A!Registers, Registers
  <2>15. AbiCalls' = Append(AbiCalls, [callee |-> A!Current.callee, args |-> A!Passed(A!Current),
                                       noreturn |-> A!Current.noreturn])
    BY <2>4, <2>7, <2>10
  <2>16. AbiRegs' = [r \in A!Registers |->
                       CASE r = 0 /\ A!Current.ret > 0 ->
                              A!Extended(<<"result", Len(AbiCalls) + 1>>, A!Current.ret, A!Current.ext)
                         [] (r = 0 /\ A!Current.ret = 0) \/ (r \in 1..5 /\ ~ A!Current.fastcall) ->
                              A!Content(A!Unknown, 64, A!Nothing)
                         [] OTHER -> AbiRegs[r]]
    BY <2>13, <2>14, Zenon DEF Convention
  <2>17. at \in DOMAIN AbiProgram.code /\ A!Current.kind = "call" /\ at' = at + 1
    BY <2>2, <2>3, <2>4, <2>5
  <2> QED
    BY <2>4, <2>15, <2>16, <2>17, Zenon DEF A!Call
<1> QED
  BY <1>1, <1>2

(* The arguments of a call are the low bits of r1 to r5.                   *)
LEMMA PassedArgs ==
  ASSUME DOMAIN regs = Registers, at # 0, NEW type \in FunctionType, Len(type.params) <= 5,
         NEW flag \in BOOLEAN, NEW m, m.params = type.params, m.flag = flag, NEW args,
         args = IF flag THEN [MarshallArgs(type) EXCEPT ![4] = Content(<<"false", 0>>, 1, Nothing)]
                ELSE MarshallArgs(type)
  PROVE  [a \in DOMAIN args |-> Forget(args[a])] = A!Passed(m)
<1>1. type.params \in Seq(1..64)
  BY DEF FunctionType
<1>2. DOMAIN args = DOMAIN type.params
  BY DEF MarshallArgs
<1>3. ASSUME NEW a \in DOMAIN type.params
      PROVE  Forget(args[a]) = IF m.flag /\ a = 4 THEN A!Content(<<"false", 0>>, 1, A!Nothing)
                               ELSE A!Low(AbiRegs[a], m.params[a])
  <2>1. a \in Registers /\ AbiRegs[a] = Forget(regs[a])
    BY <1>1 DEF AbiRegs, Registers
  <2>2. CASE flag /\ a = 4
    <3>1. args[a] = Content(<<"false", 0>>, 1, Nothing)
      BY <2>2 DEF MarshallArgs
    <3> QED
      BY <2>2, <3>1 DEF Forget, ForgetTag, Content, Nothing, A!Content, A!Nothing
  <2>3. CASE ~ (flag /\ a = 4)
    <3>1. args[a] = Trunc(regs[a], type.params[a])
      BY <2>3 DEF MarshallArgs
    <3>2. \A v, w : Forget(Trunc(v, w)) = A!Low(Forget(v), w)
      BY DEF Forget, ForgetTag, Trunc, Content, Nothing, A!Low, A!Content, A!Nothing
    <3> QED
      BY <2>1, <2>3, <3>1, <3>2
  <2> QED
    BY <2>2, <2>3
<1> QED
  BY <1>2, <1>3 DEF A!Passed

(* What the attributes of a call and of its declaration say together       *)
LEMMA NamedMeaning ==
  ASSUME NEW j \in DOMAIN Body, Body[j].kind = "call", CallOK(Body[j]), Body[j].callee[1] = "name",
         j \in DOMAIN callees, callees[j] = Body[j].callee
  PROVE  /\ Meaning(j).callee = Body[j].callee
         /\ Meaning(j).ext = Extensions(j) /\ Meaning(j).fastcall = Fastcall(j)
         /\ Meaning(j).noreturn = NoReturn(j)
         /\ Meaning(j).flag = Declared[Body[j].callee[2]].flag
<1>1. PICK d : d = Declared[Body[j].callee[2]]
  OBVIOUS
<1>2. /\ d.type = Body[j].type /\ d.fastcall \in BOOLEAN /\ d.noreturn \in BOOLEAN /\ d.flag \in BOOLEAN
      /\ Body[j].fastcall \in BOOLEAN /\ Body[j].noreturn \in BOOLEAN
  BY <1>1, DeclaredAssumption DEF CallOK
<1>3. Called(j) = {d}
  BY <1>1, <1>2 DEF Called, Function
<1>4. Extensions(j) = Body[j].ext \cup d.ext
  BY <1>3 DEF Extensions
<1>5. Fastcall(j) = (Body[j].fastcall \/ d.fastcall) /\ NoReturn(j) = (Body[j].noreturn \/ d.noreturn)
  BY <1>3 DEF Fastcall, NoReturn
<1> QED
  BY <1>1, <1>2, <1>4, <1>5 DEF Meaning

LEMMA HelperMeaning ==
  ASSUME NEW j \in DOMAIN Body, Body[j].kind = "call", CallOK(Body[j]), Body[j].callee[1] = "number",
         \A d \in Called(j) : d.ext = {} /\ ~ d.fastcall /\ ~ d.noreturn
  PROVE  /\ Meaning(j).callee = <<"helper", Body[j].callee[2]>>
         /\ Meaning(j).ext = Extensions(j) /\ Meaning(j).fastcall = Fastcall(j)
         /\ Meaning(j).noreturn = NoReturn(j) /\ Meaning(j).flag = FALSE
<1>1. Body[j].fastcall \in BOOLEAN /\ Body[j].noreturn \in BOOLEAN
  BY DEF CallOK
<1>2. Extensions(j) = Body[j].ext
  BY DEF Extensions
<1>3. Fastcall(j) = Body[j].fastcall /\ NoReturn(j) = Body[j].noreturn
  BY <1>1 DEF Fastcall, NoReturn
<1> QED
  BY <1>1, <1>2, <1>3 DEF Meaning

LEMMA DoCallAbi ==
  ASSUME IInv, Lifting("call"), NEW callee, NEW type \in FunctionType, NEW flag \in BOOLEAN,
         DoCall(callee, type, flag, Asm[at]),
         NEW m, m = Meaning(Asm[at]), type = Body[Asm[at]].type, m.callee = callee,
         m.ext = Extensions(Asm[at]), m.fastcall = Fastcall(Asm[at]),
         m.noreturn = NoReturn(Asm[at]), m.flag = flag
  PROVE  A!Call \/ UNCHANGED A!vars
<1> DEFINE all == MarshallArgs(type)
           args3 == IF flag THEN [all EXCEPT ![4] = Content(<<"false", 0>>, 1, Nothing)] ELSE all
<1>1. CASE Reject
  BY <1>1, AbiKept DEF Reject
<1>2. CASE ~ Reject
  <2>1. /\ Len(type.params) <= 5
        /\ EmitCall(callee, type, args3, Extensions(Asm[at]), Fastcall(Asm[at]), NoReturn(Asm[at]))
    BY <1>2, Zenon DEF DoCall
  <2>2. DOMAIN regs = Registers /\ at # 0
    BY DEF IInv, RegsOK, Lifting
  <2>3. m.params = type.params /\ m.ret = type.ret
    BY DEF Meaning
  <2>4. PICK args : args = args3
    OBVIOUS
  <2>5. [a \in DOMAIN args |-> Forget(args[a])] = A!Passed(m)
    BY <2>1, <2>2, <2>3, <2>4, PassedArgs, SMTT(30)
  <2>6. Fastcall(Asm[at]) \in BOOLEAN
    BY DEF Fastcall
  <2>7. EmitCall(callee, type, args, Extensions(Asm[at]), Fastcall(Asm[at]), NoReturn(Asm[at]))
    BY <2>1, <2>4
  <2> HIDE DEF args3, all
  <2> QED
    BY <2>3, <2>5, <2>6, <2>7, EmitCallAbi
<1> QED
  BY <1>1, <1>2

LEMMA DirectCallAbi ==
  ASSUME IInv, DoDirectCall PROVE Misplaced \/ A!Call \/ UNCHANGED A!vars
<1> SUFFICES ASSUME ~ Misplaced PROVE A!Call \/ UNCHANGED A!vars
  OBVIOUS
<1>1. PICK j : j = Asm[at]
  OBVIOUS
<1>2. Lifting("call") /\ CurCallee[1] = "name" /\ Asm[at] \notin merged /\ CurCallee = Body[j].callee
  BY <1>1 DEF DoDirectCall, Misplaced, CurCallee
<1>3. /\ j \in DOMAIN Body /\ j \in OfKind({"call"}) /\ Body[j].kind = "call" /\ CallOK(Body[j])
      /\ callees[j] = Body[j].callee /\ locs[at] = j
  BY <1>1, <1>2, CallFacts DEF BytesCallOK
<1>4. j \in DOMAIN callees
  BY <1>3 DEF IInv, CalleesOK
<1>5. CASE Reject
  <2>1. UNCHANGED <<fn, at, calls, regs>>
    BY <1>5 DEF Reject
  <2> QED
    BY <2>1, AbiKept
<1>6. CASE ~ Reject
  <2>1. DoCall(CurCallee, Declared[CurCallee[2]].type, Declared[CurCallee[2]].flag, j)
    BY <1>3, <1>6 DEF DoDirectCall, DirectCallee
  <2>2. /\ Declared[CurCallee[2]].type = Body[j].type
        /\ Declared[CurCallee[2]].type \in FunctionType /\ Declared[CurCallee[2]].flag \in BOOLEAN
    BY <1>2, <1>3, DeclaredAssumption DEF CallOK
  <2>3. PICK m : m = Meaning(j)
    OBVIOUS
  <2>4. /\ m.callee = CurCallee /\ m.ext = Extensions(j) /\ m.fastcall = Fastcall(j)
        /\ m.noreturn = NoReturn(j) /\ m.flag = Declared[CurCallee[2]].flag
    BY <1>2, <1>3, <1>4, <2>3, NamedMeaning
  <2> QED
    BY <1>1, <1>2, <2>1, <2>2, <2>3, <2>4, DoCallAbi
<1> QED
  BY <1>5, <1>6

LEMMA HelperCallAbi ==
  ASSUME IInv, DoHelperCall PROVE Misplaced \/ A!Call \/ UNCHANGED A!vars
<1> SUFFICES ASSUME ~ Misplaced PROVE A!Call \/ UNCHANGED A!vars
  OBVIOUS
<1>1. PICK j, n, m : j = Asm[at] /\ n = CurCallee[2] /\ m = Meaning(j)
  OBVIOUS
<1>2. Lifting("call") /\ CurCallee[1] = "number" /\ Asm[at] \notin merged /\ CurCallee = Body[j].callee
  BY <1>1 DEF DoHelperCall, Misplaced, CurCallee
<1>3. /\ j \in DOMAIN Body /\ j \in OfKind({"call"}) /\ Body[j].kind = "call" /\ CallOK(Body[j])
      /\ (~ fn.bytes => locs[at] = j) /\ (fn.bytes => BytesCallOK(Body[j]))
  BY <1>1, <1>2, CallFacts
<1>4. CASE Reject
  <2>1. UNCHANGED <<fn, at, calls, regs>>
    BY <1>4 DEF Reject
  <2> QED
    BY <2>1, AbiKept
<1>5. CASE /\ fn.bytes
           /\ EmitCall(<<"helper", n>>, GenericHelper, MarshallArgs(GenericHelper), {}, FALSE, FALSE)
  <2>1. PICK no, none, type :
          no \in BOOLEAN /\ no = FALSE /\ none = {} /\ type = GenericHelper
    OBVIOUS
  <2>2. /\ Body[j].type = type /\ Body[j].ext = none /\ Body[j].fastcall = no
        /\ Body[j].noreturn = no /\ type \in FunctionType
    BY <1>3, <1>5, <2>1 DEF BytesCallOK, CallOK
  <2>3. /\ m.callee = <<"helper", n>> /\ m.ret = type.ret /\ m.params = type.params
        /\ m.ext = none /\ m.fastcall = no /\ m.noreturn = no /\ m.flag = no
    BY <1>1, <1>2, <1>3, <2>1, <2>2 DEF Meaning
  <2>4. PICK args : args = MarshallArgs(type)
    OBVIOUS
  <2>5. DOMAIN regs = Registers /\ at # 0
    BY <1>2 DEF IInv, RegsOK, Lifting
  <2>6. [a \in DOMAIN args |-> Forget(args[a])] = A!Passed(m)
    <3>1. Len(type.params) <= 5
      BY <2>1 DEF GenericHelper
    <3>2. args = IF no THEN [MarshallArgs(type) EXCEPT ![4] = Content(<<"false", 0>>, 1, Nothing)]
                 ELSE MarshallArgs(type)
      BY <2>1, <2>4
    <3> QED
      BY <2>1, <2>2, <2>3, <2>5, <3>1, <3>2, PassedArgs
  <2>7. EmitCall(<<"helper", n>>, type, args, none, no, no)
    <3>1. EmitCall(<<"helper", n>>, GenericHelper, MarshallArgs(GenericHelper), {}, FALSE, FALSE)
      BY <1>5
    <3> QED
      BY <2>1, <2>4, <3>1, Zenon
  <2>8. no \in BOOLEAN /\ m = Meaning(Asm[at])
    BY <1>1, <2>1
  <2> QED
    BY <1>2, <2>2, <2>3, <2>6, <2>7, <2>8, EmitCallAbi
<1>6. CASE /\ ~ fn.bytes /\ callees[j] = <<"helper", n>> /\ Called(j) # {}
           /\ DoCall(<<"helper", n>>, helpers[n], FALSE, j)
  <2>1. /\ helpers[n] = Body[j].type
        /\ \A d \in Called(j) : d.ext = {} /\ ~ d.fastcall /\ ~ d.noreturn
    BY <1>6, HelperType
  <2>2. helpers[n] \in FunctionType /\ FALSE \in BOOLEAN
    BY <1>3, <2>1 DEF CallOK
  <2>3. /\ m.callee = <<"helper", n>> /\ m.ext = Extensions(j) /\ m.fastcall = Fastcall(j)
        /\ m.noreturn = NoReturn(j) /\ m.flag = FALSE
    BY <1>1, <1>2, <1>3, <2>1, HelperMeaning
  <2> QED
    BY <1>1, <1>2, <1>6, <2>1, <2>2, <2>3, DoCallAbi
<1> QED
  BY <1>1, <1>3, <1>4, <1>5, <1>6 DEF DoHelperCall

(* The registers follow the calling convention from the entry through      *)
(* every call that has kept its line: the refinement of Abi.               *)
THEOREM AbiFollowed == Spec => FollowsAbi
<1>1. Init => A!Init
  <2>1. Init => at = 0 /\ calls = << >>
    BY DEF Init
  <2>2. calls = << >> => AbiCalls = << >>
    BY DEF AbiCalls
  <2> QED
    BY <2>1, <2>2 DEF A!Init
<1>2. ASSUME IInv, [Next]_vars PROVE [Misplaced \/ A!Next]_(A!vars)
  <2>1. CASE pc \in Preparing \cup {"entry"} /\ UNCHANGED <<fn, at, calls>>
    <3>1. at = 0
      BY <1>2, <2>1 DEF IInv, RegsOK
    <3> QED
      BY <2>1, <3>1, AbiKept
  <2>2. CASE AddDebugInfo \/ StripEmptyInlineAsm \/ ReplaceIdentityInlineAsm
    BY <2>1, <2>2 DEF AddDebugInfo, StripEmptyInlineAsm, ReplaceIdentityInlineAsm, lifted, Preparing
  <2>3. CASE RewriteHelperCallsByNumber \/ AdjustSrc \/ EmitInstructions
    BY <2>1, <2>3 DEF RewriteHelperCallsByNumber, AdjustSrc, EmitInstructions, lifted, Preparing
  <2>4. CASE CreateRegisters
    BY <2>1, <2>4 DEF CreateRegisters
  <2>5. CASE InitArgument
    <3>1. at = 0
      BY <1>2, <2>5 DEF InitArgument, IInv, RegsOK
    <3>2. UNCHANGED <<fn, at, calls>>
      <4>1. CASE Reject
        BY <4>1 DEF Reject
      <4>2. CASE ~ Reject
        BY <2>5, <4>2 DEF InitArgument
      <4> QED
        BY <4>1, <4>2
    <3> QED
      BY <3>1, <3>2, AbiKept
  <2>6. CASE FinishEntry \/ Move
    <3>1. A!Enter \/ A!Move
      BY <1>2, <2>6, EnterStep, MoveAbi
    <3> QED
      BY <3>1 DEF A!Next
  <2>7. CASE DoDirectCall \/ DoHelperCall
    BY <1>2, <2>7, DirectCallAbi, HelperCallAbi DEF A!Next
  <2>8. CASE Finish \/ Ended \/ UNCHANGED vars
    <3>1. UNCHANGED <<fn, at, calls, regs>>
      BY <2>8 DEF Finish, Ended, vars, lifted
    <3> QED
      BY <3>1, AbiKept
  <2> QED
    BY <1>2, <2>2, <2>3, <2>4, <2>5, <2>6, <2>7, <2>8 DEF Next
<1> QED
  BY <1>1, <1>2, Invariant, PTL DEF Spec, FollowsAbi
=============================================================================
