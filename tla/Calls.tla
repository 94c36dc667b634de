-------------------------------- MODULE Calls --------------------------------
(***************************************************************************)
(* Calls, from the source to the lifted function.  The source is given     *)
(* line numbers and copied for the code generator; inline assembly without *)
(* instructions and calls by number are rewritten in the source; the       *)
(* assembly's line numbers lead back from each call to the source's call,  *)
(* whose attributes say what the lifted call leaves in the registers       *)
(* (lifter.cpp addDebugInfo, bpf-tv.cpp doit, mc2llvm.cpp adjustSrc and    *)
(* doDirectCall, bpf2llvm.cpp platformInit, doCall and doHelperCall).      *)
(*                                                                         *)
(* A register's content is symbolic, as in module Abi, except that junk is *)
(* told apart by the offset in __bpf_tv_unspecified it is loaded from.     *)
(***************************************************************************)
EXTENDS Integers, Sequences, FiniteSetsExt

CONSTANTS
  Functions,         \* params, body, asm (the instructions of the body that the code
                     \* generator emits), adjust (adjustSrc rewrites the returns), and
                     \* bytes: no source, the body is disassembled generic calls
  Declared,          \* the functions called by name: type and attributes
  unspecifiedMemBytes

Registers == 0..11
Extension == SUBSET {"sext", "zext"}
FunctionType == [params : Seq(1..64), ret : 0..64]

(* Without a source, a helper takes and returns whole registers.           *)
GenericHelper == [params |-> <<64, 64, 64, 64, 64>>, ret |-> 64]

(* A call names a function, at the type it was declared with, or a number. *)
CallOK(i) ==
  /\ i.type \in FunctionType /\ i.ext \in Extension
  /\ i.fastcall \in BOOLEAN /\ i.noreturn \in BOOLEAN
  /\ \/ i.callee[1] = "name" /\ i.callee[2] \in DOMAIN Declared
        /\ i.type = Declared[i.callee[2]].type
     \/ i.callee[1] = "number" /\ i.callee[2] \in Int

(* Bytes call by number only, and know nothing of a helper but its number. *)
BytesCallOK(i) ==
  /\ i.callee[1] = "number" /\ i.type = GenericHelper
  /\ i.ext = {} /\ ~ i.fastcall /\ ~ i.noreturn

(* The code generator emits nothing for empty inline assembly.  It may     *)
(* move, duplicate and leave out the calls and moves of the source, as     *)
(* block placement, tail duplication and dead code elimination do.  A      *)
(* function that starts with its return does nothing else.                 *)
AsmOK(f) ==
  /\ f.asm \in Seq(DOMAIN f.body)
  /\ \A k \in DOMAIN f.asm : f.body[f.asm[k]].kind \in {"call", "mov"}
  /\ f.asm # << >> => f.body[1].kind # "ret"

FunctionOK(f) ==
  /\ f.bytes \in BOOLEAN /\ f.adjust \in BOOLEAN
  /\ f.params \in Seq([w : 1..64, ext : Extension])
  /\ Len(f.body) \in Nat /\ DOMAIN f.body = 1..Len(f.body)
  /\ \A j \in DOMAIN f.body :
       /\ f.body[j].kind = "call" => CallOK(f.body[j])
       /\ f.body[j].kind = "call" /\ f.bytes => BytesCallOK(f.body[j])
       /\ f.body[j].kind = "mov" => f.body[j].d \in Registers /\ f.body[j].s \in Registers
  /\ AsmOK(f)

ASSUME FunctionsAssumption == \A f \in Functions : FunctionOK(f)

ASSUME DeclaredAssumption ==
  \A name \in DOMAIN Declared :
    /\ Declared[name].type \in FunctionType /\ Declared[name].ext \in Extension
    /\ Declared[name].fastcall \in BOOLEAN /\ Declared[name].noreturn \in BOOLEAN
    /\ Declared[name].flag \in BOOLEAN

(* There is room for the registers and the arguments.                      *)
ASSUME CallsAssumption == unspecifiedMemBytes \in Nat /\ unspecifiedMemBytes >= 17 * 8

VARIABLES
  fn,          \* the source function
  merged,      \* the calls whose debug location the code generator dropped: line 0
  alive,       \* the instructions of the source that are not erased
  callees,     \* what the source's calls call
  helpers,     \* the types of the declarations __bpf_helper_N
  lineMap,     \* from line to source instruction
  locs,        \* the locations of the lifted instructions
  regs,        \* RegFile
  off,         \* unspecifiedOff
  sites,       \* the loads of unspecified values: for which register, at the entry
               \* (0) or after the n-th call, from which offset, how wide
  consulted,   \* the source instructions looked at while lifting
  calls,       \* the calls emitted, each with the place of the assembly's
               \* instruction it is lifted from
  argNum,      \* the arguments put into registers
  at,          \* the assembly instruction to be lifted
  pc

vars == <<fn, merged, alive, callees, helpers, lineMap, locs, regs, off, sites,
          consulted, calls, argNum, at, pc>>

prepared == <<alive, callees, helpers, lineMap>>
lifted == <<regs, off, sites, consulted, calls, argNum, at>>

Content(of, w, up) == [of |-> of, w |-> w, up |-> up]
Nothing == <<"none", 0>>
Null == 0

Body == fn.body
OfKind(kinds) == {j \in DOMAIN Body : Body[j].kind \in kinds}

(* The code generator's output for the copy.  A call that was merged with  *)
(* another one has line 0.                                                 *)
Asm == fn.asm
LineOf(k) == IF Asm[k] \in merged THEN 0 ELSE Asm[k] - 1

Init ==
  /\ fn \in Functions
  /\ merged \in IF fn.bytes THEN {{}} ELSE SUBSET OfKind({"call"})
  /\ alive = DOMAIN Body
  /\ callees = [j \in OfKind({"call"}) |-> Body[j].callee]
  /\ helpers = << >>
  /\ lineMap = << >>
  /\ locs = << >>
  /\ regs = << >> /\ off = 0 /\ sites = {}
  /\ consulted = {} /\ calls = << >> /\ argNum = 0 /\ at = 0
  /\ pc = IF fn.bytes THEN "entry" ELSE "lines"

---------------------------------------------------------------------------
(* Before lifting.                                                         *)

(* Lines are counted from 0.                                               *)
AddDebugInfo ==
  /\ pc = "lines" /\ pc' = "strip"
  /\ lineMap' = [line \in 0..(Len(Body) - 1) |-> line + 1]
  /\ UNCHANGED <<fn, merged, alive, callees, helpers, locs, lifted>>

Without(map, erased) == [line \in {l \in DOMAIN map : map[l] \notin erased} |-> map[line]]

(* Mutation of Erase: the erased instructions stay in the line map.        *)
EraseOnly(dead) ==
  /\ alive' = alive \ dead
  /\ UNCHANGED lineMap

Erase(dead) ==
  /\ alive' = alive \ dead
  /\ lineMap' = Without(lineMap, dead)

Empty(j) == Body[j].kind = "asm" /\ Body[j].template = "empty"

StripEmptyInlineAsm ==
  /\ pc = "strip" /\ pc' = "identity"
  /\ Erase({j \in DOMAIN Body : Empty(j) /\ Body[j].outputs = "void"})
  /\ UNCHANGED <<fn, merged, callees, helpers, locs, lifted>>

(* An output is tied to an input of its type; the parts of several outputs *)
(* are all extracted one by one, each at its type.                         *)
Extracts(j) == {e \in OfKind({"extract"}) : Body[e].from = j}
Identity(j) ==
  /\ Empty(j)
  /\ Body[j].outputs \in {"tied", "aggregate"}
  /\ \A e \in Extracts(j) : Body[e].fits

ReplaceIdentityInlineAsm ==
  /\ pc = "identity" /\ pc' = "numbers"
  /\ LET dead == {j \in DOMAIN Body : Identity(j)}
     IN  Erase(dead \cup UNION {Extracts(j) : j \in dead})
  /\ UNCHANGED <<fn, merged, callees, helpers, locs, lifted>>

(* The declaration of a helper has the type of the first call of it.       *)
Numbered == {j \in OfKind({"call"}) : Body[j].callee[1] = "number" /\ Body[j].callee[2] >= 0}
FirstCallOf(n) == Min({j \in Numbered : Body[j].callee[2] = n})

RewriteHelperCallsByNumber ==
  /\ pc = "numbers" /\ pc' = "adjust"
  /\ callees' = [j \in DOMAIN callees |->
                   IF j \in Numbered THEN <<"helper", callees[j][2]>> ELSE callees[j]]
  /\ helpers' = [n \in {Body[j].callee[2] : j \in Numbered} |-> Body[FirstCallOf(n)].type]
  /\ UNCHANGED <<fn, merged, alive, lineMap, locs, lifted>>

(* Return instructions are replaced by new ones, and stay in the line map. *)
AdjustSrc ==
  /\ pc = "adjust" /\ pc' = "stream"
  /\ alive' = IF fn.adjust THEN alive \ OfKind({"ret"}) ELSE alive
  /\ UNCHANGED <<fn, merged, callees, helpers, lineMap, locs, lifted>>

EmitInstructions ==
  /\ pc = "stream" /\ pc' = "entry"
  /\ locs' = [k \in DOMAIN Asm |->
                IF LineOf(k) \in DOMAIN lineMap THEN lineMap[LineOf(k)] ELSE Null]
  /\ UNCHANGED <<fn, merged, prepared, lifted>>

---------------------------------------------------------------------------
(* Unspecified values.                                                     *)

(* Mutation of BytesFor: the last bits of a width do not count.            *)
WholeBytes(w) == w \div 8

BytesFor(w) == (w + 7) \div 8

Site(n, r, o, w) == [call |-> n, reg |-> r, at |-> o, w |-> w]
Loads(ss) == {s \in ss : s.w > 0}

Junk(o) == Content(<<"junk", o>>, 64, Nothing)

JunkBits(w, ext) == IF w = 0 \/ ext # {} THEN 0 ELSE 64 - w

EnforceSExtZExt(of, w, ext, o) ==
  Content(of, w, IF w = 64 THEN Nothing
                 ELSE IF "zext" \in ext THEN <<"zero", 0>>
                 ELSE IF "sext" \in ext THEN <<"sign", 0>>
                 ELSE <<"junk", o>>)

---------------------------------------------------------------------------
(* Lifting.                                                                *)

Reject ==
  /\ pc' = "rejected"
  /\ UNCHANGED <<fn, merged, prepared, locs, regs, off, sites, calls, argNum, at>>

(* An assertion that fails                                                 *)
Abort ==
  /\ pc' = "aborted"
  /\ UNCHANGED <<fn, merged, prepared, locs, regs, off, sites, calls, argNum, at>>

(* The registers are created with unspecified contents, r10 with the frame.*)
CreateRegisters ==
  /\ pc = "entry" /\ pc' = "args"
  /\ regs' = [r \in Registers |-> IF r = 10 THEN Content(<<"frame", 0>>, 64, Nothing)
                                 ELSE Junk(off + r * BytesFor(64))]
  /\ sites' = {Site(0, r, off + r * BytesFor(64), 64) : r \in Registers}
  /\ off' = off + 12 * BytesFor(64)
  /\ UNCHANGED <<fn, merged, prepared, locs, consulted, calls, argNum, at>>

(* An argument that is not extended has unspecified bits above it.         *)
InitArgument ==
  /\ pc = "args" /\ argNum < Len(fn.params)
  /\ \/ argNum >= 5 /\ Reject
     \/ /\ argNum < 5
        /\ LET r == argNum + 1
               p == fn.params[r]
               junkBits == JunkBits(p.w, p.ext)
           IN  /\ regs' = [regs EXCEPT ![r] = EnforceSExtZExt(<<"arg", r>>, p.w, p.ext, off)]
               /\ sites' = sites \cup Loads({Site(0, r, off, junkBits)})
               /\ off' = off + BytesFor(junkBits)
        /\ argNum' = argNum + 1
        /\ UNCHANGED <<fn, merged, prepared, locs, calls, at, pc>>
  /\ UNCHANGED consulted

FinishEntry ==
  /\ pc = "args" /\ argNum = Len(fn.params)
  /\ pc' = "lift" /\ at' = 1
  /\ UNCHANGED <<fn, merged, prepared, locs, regs, off, sites, consulted, calls, argNum>>

Lifting(kind) == pc = "lift" /\ at \in DOMAIN Asm /\ Body[Asm[at]].kind = kind

Move ==
  /\ Lifting("mov")
  /\ regs' = [regs EXCEPT ![Body[Asm[at]].d] = regs[Body[Asm[at]].s]]
  /\ at' = at + 1
  /\ UNCHANGED <<fn, merged, prepared, locs, off, sites, consulted, calls, argNum, pc>>

Trunc(v, w) == IF w <= v.w THEN Content(v.of, w, Nothing) ELSE v

MarshallArgs(type) == [k \in DOMAIN type.params |-> Trunc(regs[k], type.params[k])]

Function(callee) ==
  CASE callee[1] = "name"   -> {Declared[callee[2]]}
    [] callee[1] = "helper" -> {[type |-> helpers[callee[2]], ext |-> {}, fastcall |-> FALSE,
                                 noreturn |-> FALSE, flag |-> FALSE]}
    [] OTHER                -> {}

(* The declaration that source call j names, if its type is the call's     *)
Called(j) ==
  IF j \in DOMAIN callees THEN {d \in Function(callees[j]) : d.type = Body[j].type} ELSE {}

Extensions(j) == Body[j].ext \cup UNION {d.ext : d \in Called(j)}
Fastcall(j) == Body[j].fastcall \/ \E d \in Called(j) : d.fastcall
NoReturn(j) == Body[j].noreturn \/ \E d \in Called(j) : d.noreturn

(* After a call are unspecified, and loaded in this order: the upper bits  *)
(* of the result, r1 to r5, and r0 if there is no result.                  *)
ResultBits(type, ext) == JunkBits(type.ret, ext)
ArgumentAt(type, ext, r) == off + BytesFor(ResultBits(type, ext)) + (r - 1) * BytesFor(64)
NoResultAt(type, ext, fast) == ArgumentAt(type, ext, IF fast THEN 1 ELSE 6)
OffAfter(type, ext, fast) ==
  NoResultAt(type, ext, fast) + IF type.ret = 0 THEN BytesFor(64) ELSE 0

SitesAfter(type, ext, fast) ==
  LET n == Len(calls) + 1
  IN  sites \cup Loads({Site(n, 0, off, ResultBits(type, ext))})
            \cup {Site(n, r, ArgumentAt(type, ext, r), 64) : r \in IF fast THEN {} ELSE 1..5}
            \cup (IF type.ret = 0 THEN {Site(n, 0, NoResultAt(type, ext, fast), 64)} ELSE {})

(* Mutation of Fits: the scratch space has no end.                         *)
NoLimit(type, ext, fast) == TRUE

Fits(type, ext, fast) == OffAfter(type, ext, fast) <= unspecifiedMemBytes

ResultOf(type, ext) == EnforceSExtZExt(<<"result", Len(calls) + 1>>, type.ret, ext, off)

(* Mutation of AfterCall: the argument registers keep their contents.      *)
KeepArguments(type, ext, fast) ==
  [regs EXCEPT ![0] = IF type.ret = 0 THEN Junk(NoResultAt(type, ext, fast)) ELSE ResultOf(type, ext)]

AfterCall(type, ext, fast) ==
  [r \in Registers |->
     CASE r = 0 /\ type.ret > 0   -> ResultOf(type, ext)
       [] r = 0 /\ type.ret = 0   -> Junk(NoResultAt(type, ext, fast))
       [] r \in 1..5 /\ ~ fast    -> Junk(ArgumentAt(type, ext, r))
       [] OTHER                   -> regs[r]]

EmitCall(callee, type, args, ext, fast, noret) ==
  \/ ~ Fits(type, ext, fast) /\ Abort
  \/ /\ Fits(type, ext, fast)
     /\ calls' = Append(calls, [callee |-> callee, args |-> args, noreturn |-> noret, pos |-> at])
     /\ regs' = AfterCall(type, ext, fast)
     /\ sites' = SitesAfter(type, ext, fast)
     /\ off' = OffAfter(type, ext, fast)
     /\ at' = at + 1
     /\ UNCHANGED <<fn, merged, prepared, locs, argNum, pc>>

(* The call of callee, of a type, for the source's call j.  The last       *)
(* argument of a memory intrinsic is a constant that is in no register.    *)
DoCall(callee, type, flag, j) ==
  \/ Len(type.params) > 5 /\ Reject
  \/ /\ Len(type.params) <= 5
     /\ LET args == MarshallArgs(type)
            args3 == IF flag THEN [args EXCEPT ![4] = Content(<<"false", 0>>, 1, Nothing)] ELSE args
        IN  EmitCall(callee, type, args3, Extensions(j), Fastcall(j), NoReturn(j))

CurCallee == Body[Asm[at]].callee

(* The source instruction that the line leads to is looked at; it must be  *)
(* a call, be it of inline assembly.                                       *)
Consult(j) == consulted' = IF j = Null THEN consulted ELSE consulted \cup {j}
IsCallInst(j) == j # Null /\ Body[j].kind \in {"call", "asm"}

(* Mutation of DirectCallee: the callee of the source's call.              *)
SourceCallee(j) == IF Body[j].kind = "call" /\ callees[j][1] = "name" THEN callees[j] ELSE CurCallee

DirectCallee(j) == CurCallee

DoDirectCall ==
  /\ Lifting("call") /\ CurCallee[1] = "name"
  /\ LET j == locs[at]
     IN  /\ Consult(j)
         /\ \/ ~ IsCallInst(j) /\ Reject
            \/ /\ IsCallInst(j)
               /\ LET c == DirectCallee(j) IN DoCall(c, Declared[c[2]].type, Declared[c[2]].flag, j)

DoHelperCall ==
  /\ Lifting("call") /\ CurCallee[1] = "number"
  /\ LET j == locs[at]
         n == CurCallee[2]
     IN  \/ n < 0 /\ Reject /\ UNCHANGED consulted
         \/ /\ n >= 0 /\ fn.bytes
            /\ EmitCall(<<"helper", n>>, GenericHelper, MarshallArgs(GenericHelper), {}, FALSE, FALSE)
            /\ UNCHANGED consulted
         \/ /\ n >= 0 /\ ~ fn.bytes
            /\ Consult(j)
            /\ LET same == /\ IsCallInst(j) /\ Body[j].kind = "call"
                           /\ callees[j] = <<"helper", n>> /\ Called(j) # {}
               IN  \/ ~ same /\ Reject
                   \/ same /\ DoCall(<<"helper", n>>, helpers[n], FALSE, j)

Finish ==
  /\ pc = "lift" /\ at = Len(Asm) + 1
  /\ pc' = "done"
  /\ UNCHANGED <<fn, merged, prepared, locs, lifted>>

Ended == pc \in {"done", "rejected", "aborted"} /\ UNCHANGED vars

Next ==
  \/ AddDebugInfo \/ StripEmptyInlineAsm \/ ReplaceIdentityInlineAsm
  \/ RewriteHelperCallsByNumber \/ AdjustSrc \/ EmitInstructions
  \/ CreateRegisters \/ InitArgument \/ FinishEntry
  \/ Move \/ DoDirectCall \/ DoHelperCall \/ Finish
  \/ Ended

Spec == Init /\ [][Next]_vars

---------------------------------------------------------------------------
ContentOK(v) ==
  /\ v.of[1] \in {"arg", "result", "frame", "junk", "false"}
  /\ v.w \in 1..64
  /\ v.up[1] \in {"none", "zero", "sign", "junk"}
  /\ v.up[1] = "none" <=> v.w = 64

(* The registers hold contents whose every bit is accounted for, and no    *)
(* unspecified value lies beyond the end of __bpf_tv_unspecified.          *)
TypeOK ==
  /\ fn \in Functions
  /\ merged \subseteq OfKind({"call"})
  /\ alive \subseteq DOMAIN Body
  /\ consulted \subseteq DOMAIN Body
  /\ \A line \in DOMAIN lineMap : lineMap[line] \in DOMAIN Body
  /\ DOMAIN locs \subseteq DOMAIN Asm
  /\ regs # << >> => DOMAIN regs = Registers /\ \A r \in Registers : ContentOK(regs[r])
  /\ off \in 0..unspecifiedMemBytes
  /\ argNum \in 0..5
  /\ at \in 0..(Len(Asm) + 1)
  /\ pc \in {"lines", "strip", "identity", "numbers", "adjust", "stream", "entry", "args", "lift",
             "done", "rejected", "aborted"}

(* No two unspecified values share a byte of __bpf_tv_unspecified, through *)
(* all registers, arguments and calls of a function: "each lifted site     *)
(* still gets an independent value via its distinct offset" (comment of    *)
(* unspecifiedValue).  Otherwise a lifted function could rely on two       *)
(* registers the machine leaves undefined having related contents.         *)
JunkIndependent ==
  \A s, t \in sites :
    s # t => \/ s.at + (s.w + 7) \div 8 <= t.at
             \/ t.at + (t.w + 7) \div 8 <= s.at

(* A source instruction that lifting a call looks at was not erased, by    *)
(* the removal of inline assembly or by adjustSrc, which leaves the        *)
(* pointers to the returns it erases in lineMap.                           *)
SiteAlive == consulted \subseteq alive

(* A function that is lifted to its end has the calls of its assembly, one *)
(* for one and in the assembly's order, and each calls what its source     *)
(* call was made to call: a helper by the name that replaced its number in *)
(* the source, a named function even where the line numbers mislead.       *)
(* Otherwise the two sides would be compared with different callees.       *)
CallsMatched ==
  pc = "done" /\ ~ fn.bytes =>
    /\ {calls[k].pos : k \in DOMAIN calls} = {i \in DOMAIN Asm : Body[Asm[i]].kind = "call"}
    /\ \A k, m \in DOMAIN calls : k < m => calls[k].pos < calls[m].pos
    /\ \A k \in DOMAIN calls : calls[k].callee = callees[Asm[calls[k].pos]]

(* Unspecified contents are any contents.                                  *)
ForgetTag(t) == IF t[1] = "junk" THEN <<"unknown", 0>> ELSE t
Forget(v) == Content(ForgetTag(v.of), v.w, ForgetTag(v.up))

(* Instruction j with what its own call and callee say                     *)
Meaning(j) ==
  LET i == Body[j]
      byName == i.kind = "call" /\ i.callee[1] = "name"
  IN  [kind     |-> i.kind, d |-> i.d, s |-> i.s,
       callee   |-> IF i.kind = "call" /\ ~ byName THEN <<"helper", i.callee[2]>> ELSE i.callee,
       params   |-> i.type.params,
       ret      |-> i.type.ret,
       ext      |-> IF byName THEN i.ext \cup Declared[i.callee[2]].ext ELSE i.ext,
       fastcall |-> i.fastcall \/ (byName /\ Declared[i.callee[2]].fastcall),
       noreturn |-> i.noreturn \/ (byName /\ Declared[i.callee[2]].noreturn),
       flag     |-> byName /\ Declared[i.callee[2]].flag]

(* What Abi knows of a function, its registers and its calls.  The         *)
(* registers count once all arguments are in place.                        *)
AbiProgram == [params |-> fn.params, code |-> [k \in DOMAIN Asm |-> Meaning(Asm[k])]]
AbiRegs == IF at = 0 THEN << >> ELSE [r \in DOMAIN regs |-> Forget(regs[r])]
AbiArgs(c) == [a \in DOMAIN c.args |-> Forget(c.args[a])]
AbiCalls ==
  [k \in DOMAIN calls |-> [callee   |-> calls[k].callee,
                           args     |-> AbiArgs(calls[k]),
                           noreturn |-> calls[k].noreturn]]

A == INSTANCE Abi WITH program <- AbiProgram, regs <- AbiRegs, calls <- AbiCalls

(* A call that has lost its line                                           *)
Misplaced == Lifting("call") /\ Asm[at] \in merged

(* The registers follow the calling convention from the entry through      *)
(* every call: arguments and results with exactly the extension their      *)
(* attributes promise, r1 to r5 lost unless the callee is bpf_fastcall, r6 *)
(* to r9 and r10 kept, r0 lost if nothing is returned, and each call is    *)
(* passed the contents at its parameters' widths.  It holds for the calls  *)
(* that have kept their line.                                              *)
FollowsAbi == A!Init /\ [][Misplaced \/ A!Next]_(A!vars)
=============================================================================
