------------------------------ MODULE Globals ------------------------------
(***************************************************************************)
(* On-demand creation of global objects in the lifted module               *)
(* (lifter/mc2llvm.cpp): lookupGlobal, the worklist of deferred globals it *)
(* drains, lazyAddGlobal, and demangle.                                    *)
(*                                                                         *)
(* An instruction or call that names a symbol calls lookupGlobal.  A data  *)
(* object's initializer names further symbols; one that is not in the      *)
(* LLVMglobals map is given a placeholder variable and queued, and the     *)
(* placeholder is replaced when the queue is drained.                      *)
(*                                                                         *)
(* A symbol is its demangled name.  Assembly data may spell it as it is,   *)
(* or in one of the mangled forms that demangle undoes (".L.x" for a       *)
(* private ".x", ".Lx$local" for a dso_local "x").  LLVMglobals and the    *)
(* queue are keyed by the demangled name.  Literal bytes of initializers,  *)
(* offsets, sections, linkage and alignment are left out, and the names    *)
(* that lazyAddGlobal knows: intrinsics and __stack_chk_fail.              *)
(***************************************************************************)
EXTENDS Integers, Sequences

CONSTANTS
  Symbols,    \* demangled symbol names
  Programs    \* the programs considered, see Program

(* Where lazyAddGlobal finds a symbol: the function being lifted, another  *)
(* function of the source module, data defined by the assembly, a source   *)
(* declaration (or an implicit intrinsic), or nowhere.                     *)
Kinds == {"self", "function", "data", "declared", "unknown"}

(* One symbolic item of an initializer, as the assembly spells it.         *)
SymbolRef == [sym : Symbols, mangled : BOOLEAN]

(* A source module with its assembly: where each symbol is found, and the  *)
(* symbolic items of each data definition in order.                        *)
Program == [kind : [Symbols -> Kinds], data : [Symbols -> Seq(SymbolRef)]]

ASSUME ProgramsAssumption == Programs \subseteq Program

(* The function being lifted has a name.                                   *)
ASSUME SymbolsAssumption == Symbols # {}

VARIABLES
  program,    \* the program being lifted
  objs,       \* objects created in the lifted module, in order of creation
  globals,    \* LLVMglobals: the object of a symbol, or None
  queue,      \* deferredGlobs
  tmps,       \* how many placeholders were created
  work,       \* the lazyAddGlobal in progress
  root,       \* the symbol and the object of the lookupGlobal in progress
  answers,    \* what the lookups so far returned
  pc          \* "idle", "build", "drain", or "error" (exit)

vars == <<program, objs, globals, queue, tmps, work, root, answers, pc>>

(* Objects are numbered by creation; the function being lifted exists from *)
(* the start and is object 0.                                              *)
LiftedFn == 0
None == -1

(* What an initializer points to: an object or a placeholder.              *)
Object(n) == [tmp |-> FALSE, id |-> n]
Placeholder(n) == [tmp |-> TRUE, id |-> n]
Pointer == [tmp : BOOLEAN, id : Nat]

Init ==
  /\ program \in Programs
  /\ objs = << >>
  /\ globals = [s \in Symbols |-> None]
  /\ queue = << >>
  /\ tmps = 0
  /\ work = [sym |-> CHOOSE s \in Symbols : TRUE, init |-> << >>, tmp |-> 0]
  /\ root = [sym |-> CHOOSE s \in Symbols : TRUE, obj |-> None]
  /\ answers = {}
  /\ pc = "idle"

-----------------------------------------------------------------------------
(* lookupGlobal                                                            *)

LookupKnown(s) ==
  /\ pc = "idle"
  /\ globals[s] # None
  /\ answers' = answers \cup {<<s, globals[s]>>}
  /\ UNCHANGED <<program, objs, globals, queue, tmps, work, root, pc>>

LookupNew(s) ==
  /\ pc = "idle"
  /\ globals[s] = None
  /\ work' = [sym |-> s, init |-> << >>, tmp |-> 0]
  /\ root' = [sym |-> s, obj |-> None]
  /\ pc' = "build"
  /\ UNCHANGED <<program, objs, globals, queue, tmps, answers>>

(* Mutation of PopDeferred: the last deferred global is left behind.       *)
PopAllButLast ==
  /\ pc = "drain"
  /\ Len(queue) > 1
  /\ work' = [sym |-> Head(queue).sym, init |-> << >>, tmp |-> Head(queue).tmp]
  /\ queue' = Tail(queue)
  /\ pc' = "build"
  /\ UNCHANGED <<program, objs, globals, tmps, root, answers>>

(* The next deferred global leaves the queue before it is lifted.          *)
PopDeferred ==
  /\ pc = "drain"
  /\ queue # << >>
  /\ work' = [sym |-> Head(queue).sym, init |-> << >>, tmp |-> Head(queue).tmp]
  /\ queue' = Tail(queue)
  /\ pc' = "build"
  /\ UNCHANGED <<program, objs, globals, tmps, root, answers>>

(* lookupGlobal returns the object it created first, not the map's entry.  *)
ReturnRoot ==
  /\ pc = "drain"
  /\ queue = << >>
  /\ answers' = answers \cup {<<root.sym, root.obj>>}
  /\ pc' = "idle"
  /\ UNCHANGED <<program, objs, globals, queue, tmps, work, root>>

-----------------------------------------------------------------------------
(* lazyAddGlobal(work.sym)                                                 *)

WorkKind == program.kind[work.sym]
Items == program.data[work.sym]

(* The item of the initializer that comes next, and how the maps that are  *)
(* searched for it are keyed: a mangled spelling is not a key of either.   *)
Building == pc = "build" /\ WorkKind = "data" /\ Len(work.init) < Len(Items)
Item == Items[Len(work.init) + 1]
Registered(ref) == ~ ref.mangled /\ globals[ref.sym] # None

(* Mutation of DeferredAt: the search starts at the second deferred global. *)
DeferredPastFirst(ref, n) ==
  /\ n \in 2..Len(queue)
  /\ ~ ref.mangled
  /\ queue[n].sym = ref.sym

DeferredAt(ref, n) ==
  /\ n \in 1..Len(queue)
  /\ ~ ref.mangled
  /\ queue[n].sym = ref.sym

PointTo(p) == work' = [work EXCEPT !.init = Append(@, p)]

ItemRegistered ==
  /\ Building
  /\ Registered(Item)
  /\ PointTo(Object(globals[Item.sym]))
  /\ UNCHANGED <<program, objs, globals, queue, tmps, root, answers, pc>>

(* Its placeholder is used again.                                          *)
ItemDeferred ==
  /\ Building
  /\ ~ Registered(Item)
  /\ \E n \in 1..Len(queue) :
       /\ DeferredAt(Item, n)
       /\ \A m \in 1..(n - 1) : ~ DeferredAt(Item, m)
       /\ PointTo(Placeholder(queue[n].tmp))
  /\ UNCHANGED <<program, objs, globals, queue, tmps, root, answers, pc>>

(* Mutation of DeferItem: the item points to the previous placeholder.     *)
DeferItemStale ==
  /\ Building
  /\ ~ Registered(Item)
  /\ \A n \in 1..Len(queue) : ~ DeferredAt(Item, n)
  /\ tmps' = tmps + 1
  /\ queue' = Append(queue, [sym |-> Item.sym, tmp |-> tmps + 1])
  /\ PointTo(Placeholder(tmps))
  /\ UNCHANGED <<program, objs, globals, root, answers, pc>>

DeferItem ==
  /\ Building
  /\ ~ Registered(Item)
  /\ \A n \in 1..Len(queue) : ~ DeferredAt(Item, n)
  /\ tmps' = tmps + 1
  /\ queue' = Append(queue, [sym |-> Item.sym, tmp |-> tmps + 1])
  /\ PointTo(Placeholder(tmps + 1))
  /\ UNCHANGED <<program, objs, globals, root, answers, pc>>

(* Mutation of Replace: placeholders stay in the initializers.             *)
KeepPlaceholders(os, tmp, n) == os

(* def.val->replaceAllUsesWith(g2)                                         *)
Replace(os, tmp, n) ==
  [m \in 1..Len(os) |->
     [sym |-> os[m].sym,
      init |-> [j \in 1..Len(os[m].init) |->
                  IF os[m].init[j] = Placeholder(tmp) THEN Object(n)
                  ELSE os[m].init[j]]]]

(* Mutation of Register: the lookup forgets its own object.                *)
RegisterOnly(n, os) ==
  /\ globals' = [globals EXCEPT ![work.sym] = n]
  /\ objs' = Replace(os, work.tmp, n)
  /\ pc' = "drain"
  /\ UNCHANGED <<program, queue, tmps, work, root, answers>>

(* Object n is the result of lazyAddGlobal.  A lookup's own symbol is      *)
(* registered; a deferred one replaces its placeholder first.              *)
Register(n, os) ==
  /\ globals' = [globals EXCEPT ![work.sym] = n]
  /\ IF root.obj = None
       THEN /\ objs' = os
            /\ root' = [root EXCEPT !.obj = n]
       ELSE /\ objs' = Replace(os, work.tmp, n)
            /\ root' = root
  /\ pc' = "drain"
  /\ UNCHANGED <<program, queue, tmps, work, answers>>

CreateObject ==
  /\ pc = "build"
  /\ \/ WorkKind \in {"function", "declared"}
     \/ WorkKind = "data" /\ Len(work.init) = Len(Items)
  /\ Register(Len(objs) + 1, Append(objs, [sym |-> work.sym, init |-> work.init]))

(* The function being lifted is its own object.                            *)
FoundSelf ==
  /\ pc = "build"
  /\ WorkKind = "self"
  /\ Register(LiftedFn, objs)

NotFound ==
  /\ pc = "build"
  /\ WorkKind = "unknown"
  /\ pc' = "error"
  /\ UNCHANGED <<program, objs, globals, queue, tmps, work, root, answers>>

Next ==
  \/ \E s \in Symbols : LookupKnown(s) \/ LookupNew(s)
  \/ PopDeferred \/ ReturnRoot
  \/ ItemRegistered \/ ItemDeferred \/ DeferItem
  \/ CreateObject \/ FoundSelf \/ NotFound

Spec == Init /\ [][Next]_vars

(* A lookup, once made, runs on without waiting for anything.  Nothing     *)
(* obliges the lifted code to make another one.                            *)
Lifting ==
  \/ PopDeferred \/ ReturnRoot
  \/ ItemRegistered \/ ItemDeferred \/ DeferItem
  \/ CreateObject \/ FoundSelf \/ NotFound

FairSpec == Spec /\ WF_vars(Lifting)
-----------------------------------------------------------------------------
Created == [sym : Symbols, init : Seq(Pointer)]

TypeOK ==
  /\ program \in Program
  /\ objs \in Seq(Created)
  /\ globals \in [Symbols -> Nat \cup {None}]
  /\ queue \in Seq([sym : Symbols, tmp : Nat])
  /\ tmps \in Nat
  /\ work \in [sym : Symbols, init : Seq(Pointer), tmp : Nat]
  /\ root \in [sym : Symbols, obj : Nat \cup {None}]
  /\ answers \subseteq Symbols \X Nat
  /\ pc \in {"idle", "build", "drain", "error"}

(* The initializers whose symbols the maps can find: spelled as they are,  *)
(* and not a definition's own name.                                        *)
PlainProgram ==
  \A s \in Symbols :
    program.kind[s] = "data" =>
      \A j \in 1..Len(program.data[s]) :
        ~ program.data[s][j].mangled /\ program.data[s][j].sym # s

(* One symbol is one object in the lifted module: addresses of the symbol  *)
(* that come from different places compare equal, and a store through one  *)
(* is seen through the others.                                             *)
OneObjectPerSymbol ==
  \A m, n \in 1..Len(objs) : objs[m].sym = objs[n].sym => m = n

(* Two lookups of a symbol return the same object.                         *)
SameAnswer == \A a, b \in answers : a[1] = b[1] => a[2] = b[2]

(* Both hold of a program whose initializers name other symbols only, in   *)
(* whatever order the code looks symbols up and however the initializers   *)
(* refer to each other.                                                    *)
PlainOneObject == PlainProgram => OneObjectPerSymbol /\ SameAnswer

(* When a lookup has returned, every initializer points to objects of the  *)
(* symbols that the assembly names there, item by item; no placeholder is  *)
(* left, and none was replaced by another symbol's object.                 *)
Denotes(p, s) ==
  /\ ~ p.tmp
  /\ \/ p.id = LiftedFn /\ program.kind[s] = "self"
     \/ p.id \in 1..Len(objs) /\ objs[p.id].sym = s

InitializersFaithful ==
  pc = "idle" =>
    \A n \in 1..Len(objs) :
      program.kind[objs[n].sym] = "data" =>
        /\ Len(objs[n].init) = Len(program.data[objs[n].sym])
        /\ \A j \in 1..Len(objs[n].init) :
             Denotes(objs[n].init[j], program.data[objs[n].sym][j].sym)

(* "the transitive closure of stuff reachable from the function we're      *)
(* lifting, and nothing else": an object exists only for a symbol that     *)
(* was looked up or that an existing initializer points to.                *)
NothingElse ==
  pc = "idle" =>
    \A n \in 1..Len(objs) :
      \/ \E a \in answers : a[1] = objs[n].sym
      \/ \E m \in 1..Len(objs) : \E j \in 1..Len(objs[m].init) :
           objs[m].init[j] = Object(n)

(* A lookup returns, or the lifter gives up on an unknown symbol.          *)
LookupEnds == pc = "build" ~> pc \in {"idle", "error"}
=============================================================================
