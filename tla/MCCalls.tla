------------------------------- MODULE MCCalls -------------------------------
(***************************************************************************)
(* Functions of up to five instructions after a prefix of inline assembly: *)
(* two calls, by name or by number, and what is moved in between; the code *)
(* generator keeps, reverses, repeats or cuts them.                        *)
(***************************************************************************)
EXTENDS Calls

Type(params, ret) == [params |-> params, ret |-> ret]
Fn(type, ext, fast, flag) ==
  [type |-> type, ext |-> ext, fastcall |-> fast, noreturn |-> FALSE, flag |-> flag]

MCDeclared ==
  [f \in {"f", "g", "memset", "six"} |->
     CASE f = "f"      -> Fn(Type(<<64, 32>>, 32), {"sext"}, FALSE, FALSE)
       [] f = "g"      -> Fn(Type(<<32>>, 0), {}, TRUE, FALSE)
       [] f = "memset" -> Fn(Type(<<64, 8, 64, 1>>, 0), {}, FALSE, TRUE)
       [] f = "six"    -> Fn(Type(<<64, 64, 64, 64, 64, 64>>, 64), {}, FALSE, FALSE)]

Insn == [kind |-> "ret", callee |-> <<"none", 0>>, type |-> Type(<< >>, 0), ext |-> {},
         fastcall |-> FALSE, noreturn |-> FALSE, d |-> 0, s |-> 0,
         template |-> "", outputs |-> "", from |-> 0, fits |-> TRUE]

Named(f) == [Insn EXCEPT !.kind = "call", !.callee = <<"name", f>>, !.type = MCDeclared[f].type]
Number(n, type, ext) == [Insn EXCEPT !.kind = "call", !.callee = <<"number", n>>, !.type = type, !.ext = ext]
Mov(d, s) == [Insn EXCEPT !.kind = "mov", !.d = d, !.s = s]
Asm0(outputs) == [Insn EXCEPT !.kind = "asm", !.template = "empty", !.outputs = outputs]
Extract(fits) == [Insn EXCEPT !.kind = "extract", !.from = 1, !.fits = fits]

Prefixes ==
  { << >>, << Asm0("void") >>, << Asm0("tied") >>, << Asm0("untied") >>,
    << Asm0("aggregate"), Extract(TRUE), Extract(TRUE) >>,
    << Asm0("aggregate"), Extract(TRUE), Extract(FALSE) >> }

CallInsts ==
  { Named("f"), Named("g"), Named("memset"), Named("six"),
    [Named("f") EXCEPT !.ext = {"zext"}, !.noreturn = TRUE],
    Number(0, Type(<<64>>, 64), {}), Number(0, Type(<<32>>, 1), {}),
    Number(1, Type(<< >>, 1), {}), Number(1, Type(<< >>, 1), {"zext"}),
    [Number(1, Type(<<64>>, 64), {}) EXCEPT !.fastcall = TRUE],
    Number(-1, GenericHelper, {}), Number(2, GenericHelper, {}),
    Number(3, MCDeclared["six"].type, {}) }

Moves == {<< >>, <<Mov(6, 1), Mov(1, 0)>>}

Param(w, ext) == [w |-> w, ext |-> ext]
Five == <<Param(32, {}), Param(64, {}), Param(8, {"zext"}), Param(1, {}), Param(32, {"sext"})>>
Six == [k \in 1..6 |-> Param(64, {})]

Bodies(ps) ==
  {p \o <<c>> \o m \o <<c2, Insn>> : p \in ps, c \in CallInsts, m \in Moves, c2 \in CallInsts}

InOrder(body) == SelectSeq([j \in DOMAIN body |-> j], LAMBDA j : body[j].kind \in {"call", "mov"})

EmittedFn(bytes, params, body, asm) ==
  [bytes |-> bytes, params |-> params, adjust |-> ~ bytes /\ params # Five, body |-> body, asm |-> asm]
SourceFn(bytes, params, body) == EmittedFn(bytes, params, body, InOrder(body))

(* Calls exchanged, repeated, or the first of them left out                *)
Rearranged(s) ==
  {[k \in DOMAIN s |-> s[Len(s) + 1 - k]], s \o <<s[1]>>, Tail(s)}

Candidates ==
  {SourceFn(FALSE, << >>, b) : b \in Bodies(Prefixes)}
  \cup UNION {{EmittedFn(FALSE, << >>, b, asm) : asm \in Rearranged(InOrder(b))} : b \in Bodies({<< >>})}
  \cup {SourceFn(bytes, Five, b) : bytes \in BOOLEAN, b \in Bodies({<< >>})}
  \cup {SourceFn(FALSE, Six, <<Named("f"), Insn>>)}

MCFunctions ==
  {f \in Candidates :
     f.bytes => \A j \in DOMAIN f.body : f.body[j].kind = "call" => BytesCallOK(f.body[j])}
=============================================================================
