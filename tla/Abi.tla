-------------------------------- MODULE Abi ---------------------------------
(***************************************************************************)
(* The BPF calling convention, as a caller and a callee may rely on it:    *)
(* what the registers hold at the entry of a function and after each call, *)
(* and what is passed to it.  Unknown is whatever the machine may leave.   *)
(* Calls implements it.                                                    *)
(*                                                                         *)
(* The content of a register is a value of w bits (an argument, the result *)
(* of the n-th call, the frame's address) and what is above it.            *)
(***************************************************************************)
EXTENDS Integers, Sequences

Content(of, w, up) == [of |-> of, w |-> w, up |-> up]

Unknown == <<"unknown", 0>>
Nothing == <<"none", 0>>

VARIABLES
  program,   \* params of the function, and its code: moves and calls
  at,        \* the instruction to be executed; 0 before the entry
  regs,      \* the registers
  calls      \* the calls made

vars == <<program, at, regs, calls>>

Registers == 0..11
FramePointer == 10

Init ==
  /\ at = 0
  /\ calls = << >>

(* A value with both attributes is zero-extended.                          *)
Extended(of, w, ext) ==
  Content(of, w, IF w = 64 THEN Nothing
                 ELSE IF "zext" \in ext THEN <<"zero", 0>>
                 ELSE IF "sext" \in ext THEN <<"sign", 0>>
                 ELSE Unknown)

Enter ==
  /\ at = 0
  /\ at' = 1
  /\ regs' = [r \in Registers |->
                CASE r = FramePointer -> Content(<<"frame", 0>>, 64, Nothing)
                  [] r \in 1..Len(program.params) ->
                       Extended(<<"arg", r>>, program.params[r].w, program.params[r].ext)
                  [] OTHER -> Content(Unknown, 64, Nothing)]
  /\ UNCHANGED <<program, calls>>

Current == program.code[at]

Move ==
  /\ at \in DOMAIN program.code
  /\ Current.kind = "mov"
  /\ regs' = [regs EXCEPT ![Current.d] = regs[Current.s]]
  /\ at' = at + 1
  /\ UNCHANGED <<program, calls>>

(* The low w bits of a register                                            *)
Low(v, w) == IF w <= v.w THEN Content(v.of, w, Nothing) ELSE v

(* The last parameter of a memory intrinsic is not passed in a register.   *)
Passed(c) ==
  [k \in DOMAIN c.params |->
     IF c.flag /\ k = 4 THEN Content(<<"false", 0>>, 1, Nothing) ELSE Low(regs[k], c.params[k])]

Call ==
  /\ at \in DOMAIN program.code
  /\ Current.kind = "call"
  /\ calls' = Append(calls, [callee |-> Current.callee, args |-> Passed(Current),
                             noreturn |-> Current.noreturn])
  /\ regs' = [r \in Registers |->
                CASE r = 0 /\ Current.ret > 0 ->
                       Extended(<<"result", Len(calls) + 1>>, Current.ret, Current.ext)
                  [] (r = 0 /\ Current.ret = 0) \/ (r \in 1..5 /\ ~ Current.fastcall) -> Content(Unknown, 64, Nothing)
                  [] OTHER -> regs[r]]
  /\ at' = at + 1
  /\ UNCHANGED program

Next == Enter \/ Move \/ Call

Spec == Init /\ [][Next]_vars
=============================================================================
