---------------------------- MODULE GlobalsProofs ----------------------------
(***************************************************************************)
(* Proofs about Globals: type correctness, one object per symbol for every *)
(* program whose initializers name other symbols as they are spelt, and,   *)
(* for every program, initializers that point to the symbols the assembly  *)
(* names and no object that nothing reaches.                               *)
(*                                                                         *)
(* Behind one object per symbol is how LLVMglobals, the queue and the      *)
(* lookup in progress share the symbols out (Shared): a symbol is in the   *)
(* map, or in the queue once, or being lifted, and never in two of these.  *)
(* Behind the others is what a placeholder stands for while its global is  *)
(* deferred (Traced): each one belongs to one deferred global, of the      *)
(* symbol that the item names, and some initializer waits for it.          *)
(***************************************************************************)
EXTENDS Globals, SequenceTheorems, TLAPS

(* A function on 1..n is a sequence of length n.                           *)
LEMMA FunctionIsSeq ==
  ASSUME NEW S, NEW n \in Nat, NEW f \in [1..n -> S]
  PROVE  f \in Seq(S) /\ Len(f) = n
<1>1. f \in Seq(S)
  BY SeqDef
<1>2. PICK m \in Nat : m = Len(f) /\ 1..m = 1..n
  BY <1>1, LenProperties
<1>3. (m > 0 => m \in 1..n) /\ (n > 0 => n \in 1..m)
  BY <1>2
<1> QED
  BY <1>1, <1>2, <1>3

(* A lookup drains the queue only once it has its own object to return.    *)
RootLifted == pc = "drain" => root.obj # None

(* Symbols in the queue are there once, and are not registered.            *)
QueueApart ==
  /\ \A i \in 1..Len(queue) : globals[queue[i].sym] = None
  /\ \A i, j \in 1..Len(queue) : queue[i].sym = queue[j].sym => i = j

(* The symbol being lifted is neither registered nor queued.               *)
WorkApart ==
  pc = "build" =>
    /\ globals[work.sym] = None
    /\ \A i \in 1..Len(queue) : queue[i].sym # work.sym

(* The map has every object that exists and every answer given.            *)
Indexed ==
  /\ \A n \in 1..Len(objs) : globals[objs[n].sym] = n
  /\ \A x \in answers : globals[x[1]] = x[2]
  /\ root.obj # None => globals[root.sym] = root.obj

(* A lookup begins with an empty queue and with its own symbol.            *)
LookupStart ==
  /\ pc = "idle" => queue = << >>
  /\ pc = "build" /\ root.obj = None => root.sym = work.sym

Shared == QueueApart /\ WorkApart /\ Indexed /\ LookupStart

IInv == TypeOK /\ RootLifted /\ (PlainProgram => Shared)

(* A deferred global is being lifted: it left the queue with its           *)
(* placeholder, which is still in use.                                     *)
InHand == root.obj # None /\ pc \in {"build", "error"}

(* Each deferred global has a placeholder of its own.                      *)
TmpsApart ==
  /\ \A i \in 1..Len(queue) : queue[i].tmp <= tmps
  /\ \A i, j \in 1..Len(queue) : queue[i].tmp = queue[j].tmp => i = j
  /\ InHand =>
       /\ work.tmp <= tmps
       /\ \A i \in 1..Len(queue) : queue[i].tmp # work.tmp

(* The map leads to objects of the symbol they are found under.            *)
MapDenotes ==
  \A s \in Symbols : globals[s] # None => Denotes(Object(globals[s]), s)

(* A pointer of an initializer stands for a symbol: it is an object of the *)
(* symbol, or the placeholder of a deferred global of that name.           *)
Awaits(p, s) ==
  /\ p.tmp
  /\ \/ \E i \in 1..Len(queue) : queue[i].tmp = p.id /\ queue[i].sym = s
     \/ InHand /\ work.tmp = p.id /\ work.sym = s

Stands(p, s) == Denotes(p, s) \/ Awaits(p, s)

(* Initializers follow the assembly's items, those of finished objects to  *)
(* the end.                                                                *)
ObjectsFollow ==
  \A n \in 1..Len(objs) :
    program.kind[objs[n].sym] = "data" =>
      /\ Len(objs[n].init) = Len(program.data[objs[n].sym])
      /\ \A j \in 1..Len(objs[n].init) :
           Stands(objs[n].init[j], program.data[objs[n].sym][j].sym)

WorkFollows ==
  pc = "build" =>
    /\ WorkKind # "data" => work.init = << >>
    /\ WorkKind = "data" =>
         \A j \in 1..Len(work.init) : Stands(work.init[j], Items[j].sym)

(* Some initializer of the objects os has the pointer p.                   *)
InUse(os, p) ==
  \E m \in 1..Len(os) : \E j \in 1..Len(os[m].init) : os[m].init[j] = p

(* Every deferred global is waited for by an initializer.                  *)
Awaited ==
  /\ \A i \in 1..Len(queue) :
       \/ InUse(objs, Placeholder(queue[i].tmp))
       \/ /\ pc \in {"build", "error"}
          /\ \E j \in 1..Len(work.init) : work.init[j] = Placeholder(queue[i].tmp)
  /\ InHand => InUse(objs, Placeholder(work.tmp))

(* Every object was looked up, is being looked up, or is pointed to.       *)
Reached ==
  \A n \in 1..Len(objs) :
    \/ \E a \in answers : a[1] = objs[n].sym
    \/ pc # "idle" /\ root.sym = objs[n].sym /\ root.obj # None
    \/ InUse(objs, Object(n))

Traced ==
  /\ LookupStart
  /\ TmpsApart /\ MapDenotes
  /\ ObjectsFollow /\ WorkFollows
  /\ Awaited /\ Reached

-----------------------------------------------------------------------------
(* Replacing a placeholder keeps every object, its symbol and its type.    *)
LEMMA ReplaceProperties ==
  ASSUME NEW os \in Seq(Created), NEW t \in Nat, NEW n \in Nat
  PROVE  /\ Replace(os, t, n) \in Seq(Created)
         /\ Len(Replace(os, t, n)) = Len(os)
         /\ \A m \in 1..Len(os) : Replace(os, t, n)[m].sym = os[m].sym
<1> DEFINE Fix(p) == IF p = Placeholder(t) THEN Object(n) ELSE p
           Init2(m) == [j \in 1..Len(os[m].init) |-> Fix(os[m].init[j])]
           R == [m \in 1..Len(os) |-> [sym |-> os[m].sym, init |-> Init2(m)]]
<1>1. Len(os) \in Nat
  BY LenProperties
<1>2. \A m \in 1..Len(os) : os[m] \in Created
  BY ElementOfSeq
<1>3. \A m \in 1..Len(os) : Init2(m) \in Seq(Pointer)
  <2> TAKE m \in 1..Len(os)
  <2>1. os[m].init \in Seq(Pointer)
    BY <1>2 DEF Created
  <2>2. Len(os[m].init) \in Nat
    BY <2>1, LenProperties
  <2>3. \A j \in 1..Len(os[m].init) : os[m].init[j] \in Pointer
    BY <2>1, ElementOfSeq
  <2>4. Object(n) \in Pointer
    BY DEF Object, Pointer
  <2>5. Init2(m) \in [1..Len(os[m].init) -> Pointer]
    BY <2>3, <2>4
  <2> HIDE DEF Init2
  <2> QED
    BY <2>2, <2>5, FunctionIsSeq
<1>4. R \in [1..Len(os) -> Created]
  <2> HIDE DEF Init2
  <2> QED
    BY <1>2, <1>3 DEF Created
<1>5. \A m \in 1..Len(os) : R[m].sym = os[m].sym
  OBVIOUS
<1>6. Replace(os, t, n) = R
  BY DEF Replace
<1> HIDE DEF R
<1> QED
  BY <1>1, <1>4, <1>5, <1>6, FunctionIsSeq

(* The next item of an initializer is a symbol with a spelling.            *)
LEMMA ItemType ==
  ASSUME TypeOK, Building
  PROVE  /\ Item \in SymbolRef
         /\ PlainProgram => ~ Item.mangled /\ Item.sym # work.sym
<1>1. work.sym \in Symbols /\ work.init \in Seq(Pointer)
  BY DEF TypeOK
<1>2. Items \in Seq(SymbolRef)
  BY <1>1 DEF TypeOK, Program, Items
<1>3. Len(work.init) + 1 \in 1..Len(Items)
  BY <1>1, <1>2, LenProperties DEF Building
<1>4. Item \in SymbolRef
  BY <1>2, <1>3, ElementOfSeq DEF Item
<1>5. ASSUME PlainProgram PROVE ~ Item.mangled /\ Item.sym # work.sym
  BY <1>1, <1>3, <1>5 DEF PlainProgram, Building, WorkKind, Item, Items
<1> QED
  BY <1>4, <1>5

-----------------------------------------------------------------------------
LEMMA TypeInit ==
  ASSUME Init
  PROVE  TypeOK /\ RootLifted
<1>1. (CHOOSE s \in Symbols : TRUE) \in Symbols
  BY SymbolsAssumption
<1>2. program \in Program
  BY ProgramsAssumption DEF Init
<1> QED
  BY <1>1, <1>2 DEF Init, TypeOK, RootLifted, None

(* Every step keeps the types, and no lookup drains without its object.    *)
LEMMA TypeStep ==
  ASSUME TypeOK, RootLifted, [Next]_vars
  PROVE  TypeOK' /\ RootLifted'
<1> USE DEF TypeOK, RootLifted
<1>1. ASSUME NEW s \in Symbols, LookupKnown(s) PROVE TypeOK' /\ RootLifted'
  <2>1. globals[s] \in Nat
    BY <1>1 DEF LookupKnown, None
  <2> QED
    BY <1>1, <2>1 DEF LookupKnown
<1>2. ASSUME NEW s \in Symbols, LookupNew(s) PROVE TypeOK' /\ RootLifted'
  BY <1>2 DEF LookupNew
<1>3. CASE PopDeferred
  <2>1. /\ Head(queue) \in [sym : Symbols, tmp : Nat]
        /\ Tail(queue) \in Seq([sym : Symbols, tmp : Nat])
    BY <1>3, HeadTailProperties DEF PopDeferred
  <2> QED
    BY <1>3, <2>1 DEF PopDeferred
<1>4. CASE ReturnRoot
  <2>1. root.sym \in Symbols /\ root.obj \in Nat
    BY <1>4 DEF ReturnRoot, None
  <2> QED
    BY <1>4, <2>1 DEF ReturnRoot
<1>5. CASE ItemRegistered
  <2>1. Item.sym \in Symbols
    BY <1>5, ItemType DEF ItemRegistered, SymbolRef
  <2>2. Object(globals[Item.sym]) \in Pointer
    BY <1>5, <2>1 DEF ItemRegistered, Registered, None, Object, Pointer
  <2>3. Append(work.init, Object(globals[Item.sym])) \in Seq(Pointer)
    BY <2>2, AppendProperties
  <2> QED
    BY <1>5, <2>3 DEF ItemRegistered, PointTo
<1>6. CASE ItemDeferred
  <2>1. PICK n \in 1..Len(queue) : PointTo(Placeholder(queue[n].tmp))
    BY <1>6 DEF ItemDeferred
  <2>2. queue[n] \in [sym : Symbols, tmp : Nat]
    BY ElementOfSeq
  <2>3. Placeholder(queue[n].tmp) \in Pointer
    BY <2>2 DEF Placeholder, Pointer
  <2>4. Append(work.init, Placeholder(queue[n].tmp)) \in Seq(Pointer)
    BY <2>3, AppendProperties
  <2> QED
    BY <1>6, <2>1, <2>4 DEF ItemDeferred, PointTo
<1>7. CASE DeferItem
  <2>1. Item.sym \in Symbols
    BY <1>7, ItemType DEF DeferItem, SymbolRef
  <2>2. Append(work.init, Placeholder(tmps + 1)) \in Seq(Pointer)
    <3>1. Placeholder(tmps + 1) \in Pointer
      BY DEF Placeholder, Pointer
    <3> QED
      BY <3>1, AppendProperties
  <2>3. queue' \in Seq([sym : Symbols, tmp : Nat])
    <3>1. [sym |-> Item.sym, tmp |-> tmps + 1] \in [sym : Symbols, tmp : Nat]
      BY <2>1
    <3> QED
      BY <1>7, <3>1, AppendProperties DEF DeferItem
  <2>4. work' \in [sym : Symbols, init : Seq(Pointer), tmp : Nat]
    BY <1>7, <2>2 DEF DeferItem, PointTo
  <2> QED
    BY <1>7, <2>3, <2>4 DEF DeferItem
<1>8. ASSUME NEW n \in Nat, NEW os \in Seq(Created), Register(n, os), pc = "build"
      PROVE  TypeOK' /\ RootLifted'
  <2>1. Replace(os, work.tmp, n) \in Seq(Created)
    BY ReplaceProperties
  <2>2. objs' \in Seq(Created)
    BY <1>8, <2>1 DEF Register
  <2>3. globals' \in [Symbols -> Nat \cup {None}]
    BY <1>8 DEF Register
  <2>4. root' \in [sym : Symbols, obj : Nat \cup {None}] /\ root'.obj # None
    <3>1. n # None
      BY DEF None
    <3>2. CASE root.obj = None
      BY <1>8, <3>1, <3>2 DEF Register
    <3>3. CASE root.obj # None
      BY <1>8, <3>3 DEF Register
    <3> QED
      BY <3>2, <3>3
  <2> QED
    BY <1>8, <2>2, <2>3, <2>4 DEF Register
<1>9. CASE CreateObject
  <2>1. [sym |-> work.sym, init |-> work.init] \in Created
    BY DEF Created
  <2>2. Append(objs, [sym |-> work.sym, init |-> work.init]) \in Seq(Created)
    BY <2>1, AppendProperties
  <2>3. Len(objs) + 1 \in Nat
    BY LenProperties
  <2> QED
    BY <1>8, <1>9, <2>2, <2>3 DEF CreateObject
<1>10. CASE FoundSelf
  BY <1>8, <1>10 DEF FoundSelf, LiftedFn
<1>11. CASE NotFound
  BY <1>11 DEF NotFound
<1>12. CASE UNCHANGED vars
  BY <1>12 DEF vars
<1> QED
  BY <1>1, <1>2, <1>3, <1>4, <1>5, <1>6, <1>7, <1>9, <1>10, <1>11, <1>12 DEF Next

(* Every step keeps the invariant of a plain program.                      *)
LEMMA SharedStep ==
  ASSUME TypeOK, RootLifted, PlainProgram => Shared, [Next]_vars
  PROVE  PlainProgram' => Shared'
<1>0. SUFFICES ASSUME PlainProgram' PROVE Shared'
  OBVIOUS
<1>1. program' = program
  BY DEF Next, vars, LookupKnown, LookupNew, PopDeferred, ReturnRoot, ItemRegistered,
         ItemDeferred, DeferItem, CreateObject, FoundSelf, NotFound, Register
<1>2. PlainProgram /\ Shared
  BY <1>0, <1>1 DEF PlainProgram
<1> USE <1>2 DEF Shared
<1>3. ASSUME NEW s \in Symbols, LookupKnown(s) PROVE Shared'
  BY <1>3 DEF LookupKnown, QueueApart, WorkApart, Indexed, LookupStart
<1>4. ASSUME NEW s \in Symbols, LookupNew(s) PROVE Shared'
  <2>1. queue = << >> /\ Len(queue) = 0
    BY <1>4 DEF LookupNew, LookupStart
  <2>2. QueueApart' /\ WorkApart'
    BY <1>4, <2>1 DEF LookupNew, QueueApart, WorkApart
  <2>3. Indexed' /\ LookupStart'
    BY <1>4 DEF LookupNew, Indexed, LookupStart
  <2> QED
    BY <2>2, <2>3
<1>5. CASE PopDeferred
  <2>1. queue \in Seq([sym : Symbols, tmp : Nat]) /\ queue # << >>
    BY <1>5 DEF PopDeferred, TypeOK
  <2>2. /\ Len(queue) \in Nat \ {0}
        /\ Len(queue') = Len(queue) - 1
        /\ \A i \in 1..(Len(queue) - 1) : queue'[i] = queue[i + 1]
    <3>1. Len(queue) \in Nat \ {0}
      BY <2>1, EmptySeq, LenProperties
    <3> QED
      BY <1>5, <2>1, <3>1, HeadTailProperties DEF PopDeferred
  <2>3. Head(queue) = queue[1]
    BY <2>1
  <2>4. QueueApart'
    BY <1>5, <2>2 DEF PopDeferred, QueueApart
  <2>5. WorkApart'
    BY <1>5, <2>2, <2>3 DEF PopDeferred, QueueApart, WorkApart
  <2>6. Indexed'
    BY <1>5 DEF PopDeferred, Indexed
  <2>7. LookupStart'
    BY <1>5 DEF PopDeferred, LookupStart, RootLifted
  <2> QED
    BY <2>4, <2>5, <2>6, <2>7
<1>6. CASE ReturnRoot
  <2>1. QueueApart' /\ WorkApart' /\ LookupStart'
    BY <1>6 DEF ReturnRoot, QueueApart, WorkApart, LookupStart
  <2>2. globals[root.sym] = root.obj
    BY <1>6 DEF ReturnRoot, Indexed, RootLifted
  <2>3. Indexed'
    BY <1>6, <2>2 DEF ReturnRoot, Indexed
  <2> QED
    BY <2>1, <2>3
<1>7. ASSUME NEW p, PointTo(p), UNCHANGED <<objs, globals, queue, root, answers, pc>>
      PROVE  Shared'
  <2>1. work'.sym = work.sym
    BY <1>7 DEF PointTo, TypeOK
  <2> QED
    BY <1>7, <2>1 DEF QueueApart, WorkApart, Indexed, LookupStart
<1>8. CASE ItemRegistered
  BY <1>7, <1>8 DEF ItemRegistered
<1>9. CASE ItemDeferred
  <2>1. PICK n \in 1..Len(queue) : PointTo(Placeholder(queue[n].tmp))
    BY <1>9 DEF ItemDeferred
  <2> QED
    BY <1>7, <1>9, <2>1 DEF ItemDeferred
<1>10. CASE DeferItem
  <2> DEFINE new == [sym |-> Item.sym, tmp |-> tmps + 1]
  <2>1. /\ Item.sym \in Symbols /\ Item.sym # work.sym
        /\ globals[Item.sym] = None
        /\ \A i \in 1..Len(queue) : queue[i].sym # Item.sym
    <3>1. Building /\ ~ Registered(Item) /\ \A i \in 1..Len(queue) : ~ DeferredAt(Item, i)
      BY <1>10 DEF DeferItem
    <3>2. ~ Item.mangled /\ Item.sym \in Symbols /\ Item.sym # work.sym
      BY <3>1, ItemType DEF SymbolRef
    <3> QED
      BY <3>1, <3>2 DEF Registered, DeferredAt
  <2>2. /\ Len(queue) \in Nat
        /\ Len(queue') = Len(queue) + 1
        /\ \A i \in 1..Len(queue) : queue'[i] = queue[i]
        /\ queue'[Len(queue) + 1].sym = Item.sym
    <3>1. queue \in Seq([sym : Symbols, tmp : Nat]) /\ new \in [sym : Symbols, tmp : Nat]
      BY <2>1 DEF TypeOK
    <3>2. queue' = Append(queue, new)
      BY <1>10 DEF DeferItem
    <3> QED
      BY <3>1, <3>2, AppendProperties, LenProperties
  <2>3. globals' = globals /\ work'.sym = work.sym
    BY <1>10 DEF DeferItem, PointTo, TypeOK
  <2>4. \A i \in 1..Len(queue') : i \in 1..Len(queue) \/ i = Len(queue) + 1
    BY <2>2
  <2>5. QueueApart'
    BY <2>1, <2>2, <2>3, <2>4 DEF QueueApart
  <2>6. pc = "build" /\ pc' = "build"
    BY <1>10 DEF DeferItem, Building
  <2>7. WorkApart'
    BY <2>1, <2>2, <2>3, <2>4, <2>6 DEF WorkApart
  <2>8. Indexed' /\ LookupStart'
    BY <1>10, <2>3, <2>6 DEF DeferItem, Indexed, LookupStart
  <2> QED
    BY <2>5, <2>7, <2>8
<1>11. ASSUME NEW n \in Nat, NEW os \in Seq(Created), Register(n, os), pc = "build",
              \A m \in 1..Len(os) : (m \in 1..Len(objs) /\ os[m] = objs[m])
                                    \/ (m = n /\ os[m].sym = work.sym)
       PROVE  Shared'
  <2>1. /\ work.sym \in Symbols /\ work.tmp \in Nat
        /\ globals \in [Symbols -> Nat \cup {None}]
        /\ globals[work.sym] = None
        /\ \A i \in 1..Len(queue) : queue[i].sym # work.sym
    BY <1>11 DEF TypeOK, WorkApart
  <2>2. /\ globals'[work.sym] = n
        /\ \A s \in Symbols : s # work.sym => globals'[s] = globals[s]
    BY <1>11, <2>1 DEF Register
  <2>3. QueueApart'
    <3>1. queue \in Seq([sym : Symbols, tmp : Nat])
      BY DEF TypeOK
    <3>2. \A i \in 1..Len(queue) : queue[i] \in [sym : Symbols, tmp : Nat]
      BY <3>1, ElementOfSeq
    <3>3. \A i \in 1..Len(queue) : queue[i].sym \in Symbols
      BY <3>2
    <3> QED
      BY <1>11, <2>1, <2>2, <3>3 DEF Register, QueueApart
  <2>4. WorkApart' /\ LookupStart'
    BY <1>11 DEF Register, WorkApart, LookupStart
  <2>5. \A m \in 1..Len(objs') : globals'[objs'[m].sym] = m
    <3>1. \A m \in 1..Len(os) : globals'[os[m].sym] = m
      <4> SUFFICES ASSUME NEW m \in 1..Len(os) PROVE globals'[os[m].sym] = m
        OBVIOUS
      <4>1. CASE m = n /\ os[m].sym = work.sym
        BY <2>2, <4>1
      <4>2. CASE m \in 1..Len(objs) /\ os[m] = objs[m]
        <5>1. globals[os[m].sym] = m
          BY <4>2 DEF Indexed
        <5>2. os[m].sym \in Symbols
          <6>1. os[m] \in Created
            BY ElementOfSeq
          <6> QED
            BY <6>1 DEF Created
        <5>3. os[m].sym # work.sym
          BY <2>1, <5>1 DEF None
        <5> QED
          BY <2>2, <5>1, <5>2, <5>3
      <4> QED
        BY <1>11, <4>1, <4>2
    <3>2. /\ Len(objs') = Len(os)
          /\ \A m \in 1..Len(os) : objs'[m].sym = os[m].sym
      <4>1. CASE root.obj = None
        BY <1>11, <4>1 DEF Register
      <4>2. CASE root.obj # None
        BY <1>11, <2>1, <4>2, ReplaceProperties DEF Register
      <4> QED
        BY <4>1, <4>2
    <3> QED
      BY <3>1, <3>2
  <2>6. \A x \in answers' : globals'[x[1]] = x[2]
    <3>1. \A x \in answers : x[1] \in Symbols /\ x[2] \in Nat /\ globals[x[1]] = x[2]
      BY DEF TypeOK, Indexed
    <3>2. \A x \in answers : x[1] # work.sym
      BY <2>1, <3>1 DEF None
    <3> QED
      BY <1>11, <2>2, <3>1, <3>2 DEF Register
  <2>7. root'.obj # None => globals'[root'.sym] = root'.obj
    <3>1. root \in [sym : Symbols, obj : Nat \cup {None}]
      BY DEF TypeOK
    <3>2. CASE root.obj = None
      <4>1. root'.sym = work.sym /\ root'.obj = n
        BY <1>11, <3>1, <3>2 DEF Register, LookupStart
      <4> QED
        BY <2>2, <4>1
    <3>3. CASE root.obj # None
      <4>1. globals[root.sym] = root.obj /\ root' = root
        BY <1>11, <3>3 DEF Register, Indexed
      <4>2. root.sym # work.sym
        BY <2>1, <3>3, <4>1
      <4> QED
        BY <2>2, <3>1, <4>1, <4>2
    <3> QED
      BY <3>2, <3>3
  <2> QED
    BY <2>3, <2>4, <2>5, <2>6, <2>7 DEF Indexed
<1>12. CASE CreateObject
  <2> DEFINE new == [sym |-> work.sym, init |-> work.init]
             n == Len(objs) + 1
             os == Append(objs, new)
  <2>1. objs \in Seq(Created) /\ new \in Created /\ Len(objs) \in Nat
    BY LenProperties DEF TypeOK, Created
  <2>2. /\ os \in Seq(Created) /\ Len(os) = n
        /\ \A m \in 1..Len(objs) : os[m] = objs[m]
        /\ os[n] = new
    BY <2>1, AppendProperties
  <2>3. Register(n, os) /\ pc = "build" /\ n \in Nat
    BY <1>12, <2>1 DEF CreateObject
  <2>4. new.sym = work.sym
    OBVIOUS
  <2> HIDE DEF new, os
  <2>5. \A m \in 1..Len(os) : (m \in 1..Len(objs) /\ os[m] = objs[m])
                              \/ (m = n /\ os[m].sym = work.sym)
    <3> TAKE m \in 1..Len(os)
    <3>1. m \in 1..Len(objs) \/ m = n
      <4>1. m \in 1..n
        BY <2>2
      <4> QED
        BY <2>1, <4>1
    <3>2. CASE m \in 1..Len(objs)
      BY <2>2, <3>2
    <3>3. CASE m = n
      BY <2>2, <2>4, <3>3
    <3> QED
      BY <3>1, <3>2, <3>3
  <2> HIDE DEF n
  <2> QED
    BY <1>11, <2>2, <2>3, <2>5
<1>13. CASE FoundSelf
  <2>1. objs \in Seq(Created) /\ LiftedFn \in Nat
    BY DEF TypeOK, LiftedFn
  <2>2. \A m \in 1..Len(objs) : (m \in 1..Len(objs) /\ objs[m] = objs[m])
                                \/ (m = LiftedFn /\ objs[m].sym = work.sym)
    OBVIOUS
  <2>3. Register(LiftedFn, objs) /\ pc = "build"
    BY <1>13 DEF FoundSelf
  <2> HIDE DEF LiftedFn
  <2> QED
    BY <1>11, <2>1, <2>2, <2>3
<1>14. CASE NotFound
  BY <1>14 DEF NotFound, QueueApart, WorkApart, Indexed, LookupStart
<1>15. CASE UNCHANGED vars
  BY <1>15 DEF vars, QueueApart, WorkApart, Indexed, LookupStart
<1> QED
  BY <1>3, <1>4, <1>5, <1>6, <1>8, <1>9, <1>10, <1>12, <1>13, <1>14, <1>15 DEF Next

LEMMA InitInv ==
  ASSUME Init
  PROVE  IInv
<1>1. TypeOK /\ RootLifted
  BY TypeInit
<1>2. Shared
  BY DEF Init, Shared, QueueApart, WorkApart, Indexed, LookupStart, None
<1> QED
  BY <1>1, <1>2 DEF IInv

(* One entry of the map per symbol leaves one object per symbol, and every *)
(* answer is that entry.                                                   *)
LEMMA InvImpliesOneObject ==
  ASSUME IInv
  PROVE  PlainOneObject
<1>1. SUFFICES ASSUME PlainProgram PROVE OneObjectPerSymbol /\ SameAnswer
  BY DEF PlainOneObject
<1>2. Indexed
  BY <1>1 DEF IInv, Shared
<1>3. OneObjectPerSymbol
  BY <1>2 DEF Indexed, OneObjectPerSymbol
<1>4. SameAnswer
  BY <1>2 DEF Indexed, SameAnswer
<1> QED
  BY <1>3, <1>4

-----------------------------------------------------------------------------
(* The fields of the state, as the proofs below use them.                  *)
LEMMA TypeFacts ==
  ASSUME TypeOK
  PROVE  /\ Len(queue) \in Nat /\ Len(objs) \in Nat /\ Len(work.init) \in Nat
         /\ \A i \in 1..Len(queue) : queue[i].sym \in Symbols /\ queue[i].tmp \in Nat
         /\ \A m \in 1..Len(objs) :
              /\ objs[m].sym \in Symbols /\ objs[m].init \in Seq(Pointer)
              /\ Len(objs[m].init) \in Nat
         /\ work.sym \in Symbols /\ work.init \in Seq(Pointer) /\ work.tmp \in Nat
         /\ root.sym \in Symbols
<1>1. /\ queue \in Seq([sym : Symbols, tmp : Nat]) /\ objs \in Seq(Created)
      /\ work.sym \in Symbols /\ work.init \in Seq(Pointer) /\ work.tmp \in Nat
      /\ root.sym \in Symbols
  BY DEF TypeOK
<1>2. \A i \in 1..Len(queue) : queue[i] \in [sym : Symbols, tmp : Nat]
  BY <1>1, ElementOfSeq
<1>3. \A m \in 1..Len(objs) : objs[m] \in Created
  BY <1>1, ElementOfSeq
<1>4. \A m \in 1..Len(objs) : objs[m].sym \in Symbols /\ objs[m].init \in Seq(Pointer)
  BY <1>3 DEF Created
<1>5. \A m \in 1..Len(objs) : Len(objs[m].init) \in Nat
  BY <1>4, LenProperties
<1>6. Len(queue) \in Nat /\ Len(objs) \in Nat /\ Len(work.init) \in Nat
  BY <1>1, LenProperties
<1> QED
  BY <1>1, <1>2, <1>4, <1>5, <1>6

(* What the steps that leave the objects alone keep.                       *)
LEMMA ObjectsKept ==
  ASSUME ObjectsFollow, MapDenotes, program' = program, objs' = objs, globals' = globals,
         \A p, s : Awaits(p, s) => Awaits(p, s)'
  PROVE  /\ ObjectsFollow' /\ MapDenotes'
         /\ \A p, s : Stands(p, s) => Stands(p, s)'
<1>1. \A p, s : Denotes(p, s) => Denotes(p, s)'
  BY DEF Denotes
<1>2. \A p, s : Stands(p, s) => Stands(p, s)'
  BY <1>1 DEF Stands
<1>3. ObjectsFollow'
  BY <1>2 DEF ObjectsFollow
<1>4. MapDenotes'
  BY <1>1 DEF MapDenotes
<1> QED
  BY <1>2, <1>3, <1>4

(* An item that is given a pointer that stands for it.                     *)
LEMMA PointStep ==
  ASSUME TypeOK, Traced, Building, NEW p \in Pointer, PointTo(p),
         UNCHANGED <<program, objs, globals, root, answers, pc>>,
         \A q, s : Awaits(q, s) => Awaits(q, s)',
         NEW sym, sym = Item.sym, Stands(p, sym)'
  PROVE  LookupStart' /\ MapDenotes' /\ ObjectsFollow' /\ WorkFollows' /\ Reached'
<1>1. MapDenotes' /\ ObjectsFollow' /\ \A q, s : Stands(q, s) => Stands(q, s)'
  BY ObjectsKept DEF Traced
<1>2. pc = "build" /\ WorkKind = "data"
  BY DEF Building
<1>3. /\ work'.sym = work.sym /\ Len(work'.init) = Len(work.init) + 1
      /\ work'.init[Len(work.init) + 1] = p
      /\ \A j \in 1..Len(work.init) : work'.init[j] = work.init[j]
  <2>1. work \in [sym : Symbols, init : Seq(Pointer), tmp : Nat] /\ work.init \in Seq(Pointer)
    BY DEF TypeOK
  <2>2. work'.sym = work.sym /\ work'.init = Append(work.init, p)
    BY <2>1 DEF PointTo
  <2> QED
    BY <2>1, <2>2, AppendProperties
<1>4. LookupStart'
  BY <1>2, <1>3 DEF Traced, LookupStart
<1>5. WorkKind' = "data" /\ Items' = Items /\ pc' = "build"
  BY <1>2, <1>3 DEF WorkKind, Items
<1>6. ASSUME NEW j \in 1..Len(work'.init) PROVE Stands(work.init[j], Items[j].sym)'
  <2>1. Len(work.init) \in Nat
    BY TypeFacts
  <2>2. CASE j = Len(work.init) + 1
    <3>1. work'.init[j] = p /\ Items'[j].sym = sym
      BY <1>3, <1>5, <2>2 DEF Item
    <3> QED
      BY <3>1
  <2>3. CASE j \in 1..Len(work.init)
    <3>1. PICK q, s : q = work.init[j] /\ s = Items[j].sym
      OBVIOUS
    <3>2. Stands(q, s)
      BY <1>2, <2>3, <3>1 DEF Traced, WorkFollows
    <3>3. Stands(q, s)'
      BY <1>1, <3>2
    <3>4. work'.init[j] = q /\ Items'[j].sym = s
      BY <1>3, <1>5, <2>3, <3>1
    <3> QED
      BY <3>3, <3>4
  <2> QED
    BY <1>3, <2>1, <2>2, <2>3
<1>7. WorkFollows'
  BY <1>5, <1>6 DEF WorkFollows
<1>8. Reached'
  BY DEF Traced, Reached, InUse
<1> QED
  BY <1>1, <1>4, <1>7, <1>8

(* The result of lazyAddGlobal is registered: object n is one of os, the   *)
(* objects so far and the new one, or is the function being lifted.        *)
LEMMA RegisterStep ==
  ASSUME TypeOK, Traced, pc = "build",
         NEW n \in Nat, NEW os \in Seq(Created), Register(n, os),
         Len(objs) <= Len(os),
         \A m \in 1..Len(objs) : os[m] = objs[m],
         \A m \in 1..Len(os) : m \in 1..Len(objs) \/ m = n,
         \/ n = LiftedFn /\ WorkKind = "self"
         \/ n \in 1..Len(os) /\ os[n].sym = work.sym /\ os[n].init = work.init,
         WorkKind = "data" => Len(work.init) = Len(Items)
  PROVE  Traced'
<1> USE DEF Traced
<1>1. /\ InHand <=> root.obj # None
      /\ ~ InHand'
      /\ pc' = "drain" /\ program' = program /\ queue' = queue /\ tmps' = tmps
      /\ answers' = answers /\ work' = work
      /\ globals' = [globals EXCEPT ![work.sym] = n]
  BY DEF InHand, Register
<1>2. Len(os) \in Nat /\ \A m \in 1..Len(os) : os[m].init \in Seq(Pointer) /\ os[m].sym \in Symbols
  <2>1. \A m \in 1..Len(os) : os[m] \in Created
    BY ElementOfSeq
  <2> QED
    BY <2>1, LenProperties DEF Created
<1>3. \A m \in 1..Len(os) : Len(os[m].init) \in Nat /\ \A j \in 1..Len(os[m].init) : os[m].init[j] \in Pointer
  BY <1>2, LenProperties, ElementOfSeq
<1> DEFINE Swap(p) == IF InHand /\ p = Placeholder(work.tmp) THEN Object(n) ELSE p
<1>4. /\ Len(objs') = Len(os)
      /\ \A m \in 1..Len(os) :
           /\ objs'[m].sym = os[m].sym
           /\ Len(objs'[m].init) = Len(os[m].init)
           /\ \A j \in 1..Len(os[m].init) : objs'[m].init[j] = Swap(os[m].init[j])
  <2>1. CASE root.obj = None
    BY <1>1, <2>1 DEF Register
  <2>2. CASE root.obj # None
    <3>1. objs' = Replace(os, work.tmp, n)
      BY <2>2 DEF Register
    <3>2. work.tmp \in Nat
      BY TypeFacts
    <3>3. /\ Len(objs') = Len(os)
          /\ \A m \in 1..Len(os) : objs'[m].sym = os[m].sym
      BY <3>1, <3>2, ReplaceProperties
    <3>4. ASSUME NEW m \in 1..Len(os)
          PROVE  objs'[m].init = [j \in 1..Len(os[m].init) |-> Swap(os[m].init[j])]
      BY <1>1, <2>2, <3>1 DEF Replace
    <3>5. ASSUME NEW m \in 1..Len(os)
          PROVE  /\ Len(objs'[m].init) = Len(os[m].init)
                 /\ \A j \in 1..Len(os[m].init) : objs'[m].init[j] = Swap(os[m].init[j])
      <4>1. \A j \in 1..Len(os[m].init) : Swap(os[m].init[j]) \in Pointer
        BY <1>3 DEF Object, Pointer
      <4> HIDE DEF Swap
      <4> DEFINE g == [j \in 1..Len(os[m].init) |-> Swap(os[m].init[j])]
      <4>2. g \in [1..Len(os[m].init) -> Pointer]
        BY <4>1
      <4>3. \A j \in 1..Len(os[m].init) : g[j] = Swap(os[m].init[j])
        OBVIOUS
      <4>4. objs'[m].init = g
        BY <3>4
      <4> HIDE DEF g
      <4>5. Len(g) = Len(os[m].init)
        BY <1>3, <4>2, FunctionIsSeq
      <4> QED
        BY <4>3, <4>4, <4>5
    <3> HIDE DEF Swap
    <3> QED
      BY <3>3, <3>5
  <2> QED
    BY <2>1, <2>2
<1>5. \A p, s : Denotes(p, s) => Denotes(p, s)'
  <2> SUFFICES ASSUME NEW p, NEW s, Denotes(p, s) PROVE Denotes(p, s)'
    OBVIOUS
  <2>1. ~ p.tmp
    BY DEF Denotes
  <2>2. CASE p.id = LiftedFn /\ program.kind[s] = "self"
    BY <1>1, <2>1, <2>2 DEF Denotes
  <2>3. CASE p.id \in 1..Len(objs) /\ objs[p.id].sym = s
    <3>1. p.id \in 1..Len(os) /\ os[p.id] = objs[p.id]
      <4>1. Len(objs) \in Nat
        BY TypeFacts
      <4> QED
        BY <1>2, <2>3, <4>1
    <3>2. p.id \in 1..Len(objs') /\ objs'[p.id].sym = s
      BY <1>4, <2>3, <3>1
    <3> QED
      BY <2>1, <3>2 DEF Denotes
  <2> QED
    BY <2>2, <2>3 DEF Denotes
<1>6. Denotes(Object(n), work.sym)'
  <2>1. ~ Object(n).tmp /\ Object(n).id = n
    BY DEF Object
  <2>2. CASE n = LiftedFn /\ WorkKind = "self"
    BY <1>1, <2>1, <2>2 DEF Denotes, WorkKind
  <2>3. CASE n \in 1..Len(os) /\ os[n].sym = work.sym
    BY <1>1, <1>4, <2>1, <2>3 DEF Denotes
  <2> QED
    BY <2>2, <2>3
<1>7. ASSUME NEW p \in Pointer, NEW s, Stands(p, s), NEW q, q = Swap(p)
      PROVE  Stands(q, s)'
  <2>1. CASE Denotes(p, s)
    <3>1. p # Placeholder(work.tmp)
      BY <2>1 DEF Denotes, Placeholder
    <3> QED
      BY <1>5, <1>7, <2>1, <3>1 DEF Stands
  <2>2. CASE InHand /\ p.tmp /\ work.tmp = p.id /\ work.sym = s
    <3>1. p = Placeholder(work.tmp)
      BY <2>2 DEF Placeholder, Pointer
    <3>2. q = Object(n) /\ s = work.sym
      BY <1>7, <2>2, <3>1
    <3> QED
      BY <1>1, <1>6, <3>2 DEF Stands
  <2>3. ASSUME p.tmp, NEW i \in 1..Len(queue), queue[i].tmp = p.id, queue[i].sym = s
        PROVE  Stands(q, s)'
    <3>1. InHand => p # Placeholder(work.tmp)
      BY <2>3 DEF TmpsApart, Placeholder
    <3>2. q = p
      BY <1>7, <3>1
    <3> QED
      BY <1>1, <2>3, <3>2 DEF Stands, Awaits
  <2> QED
    BY <1>7, <2>1, <2>2, <2>3 DEF Stands, Awaits
<1>8. ASSUME NEW m \in 1..Len(os), program.kind[os[m].sym] = "data"
      PROVE  /\ Len(os[m].init) = Len(program.data[os[m].sym])
             /\ \A j \in 1..Len(os[m].init) :
                  Stands(os[m].init[j], program.data[os[m].sym][j].sym)
  <2>1. CASE m \in 1..Len(objs)
    BY <1>8, <2>1 DEF ObjectsFollow
  <2>2. CASE m = n
    <3>1. n # LiftedFn
      BY <1>2, <2>2 DEF LiftedFn
    <3>2. os[m].sym = work.sym /\ os[m].init = work.init
      BY <2>2, <3>1
    <3>3. WorkKind = "data"
      BY <1>8, <3>2 DEF WorkKind
    <3> QED
      BY <3>2, <3>3 DEF WorkFollows, Items
  <2> QED
    BY <2>1, <2>2
<1>9. ObjectsFollow'
  <2> SUFFICES ASSUME NEW m \in 1..Len(objs'), program'.kind[objs'[m].sym] = "data"
               PROVE  /\ Len(objs'[m].init) = Len(program'.data[objs'[m].sym])
                      /\ \A j \in 1..Len(objs'[m].init) :
                           Stands(objs[m].init[j], program.data[objs[m].sym][j].sym)'
    BY DEF ObjectsFollow
  <2>1. m \in 1..Len(os) /\ objs'[m].sym = os[m].sym /\ program.kind[os[m].sym] = "data"
    BY <1>1, <1>4
  <2>2. Len(objs'[m].init) = Len(program'.data[objs'[m].sym])
    BY <1>1, <1>4, <1>8, <2>1
  <2>3. ASSUME NEW j \in 1..Len(objs'[m].init)
        PROVE  Stands(objs[m].init[j], program.data[objs[m].sym][j].sym)'
    <3>1. PICK p, q, s : p = os[m].init[j] /\ q = Swap(p) /\ s = program.data[os[m].sym][j].sym
      OBVIOUS
    <3> HIDE DEF Swap
    <3>2. j \in 1..Len(os[m].init)
      BY <1>4, <2>1
    <3>3. p \in Pointer /\ Stands(p, s)
      BY <1>3, <1>8, <2>1, <3>1, <3>2
    <3>4. Stands(q, s)'
      BY <1>7, <3>1, <3>3
    <3>5. objs'[m].init[j] = q /\ program'.data[objs'[m].sym][j].sym = s
      BY <1>1, <1>4, <2>1, <3>1, <3>2
    <3> QED
      BY <3>4, <3>5
  <2> QED
    BY <2>2, <2>3
<1>10. MapDenotes'
  <2> SUFFICES ASSUME NEW s \in Symbols, globals'[s] # None PROVE Denotes(Object(globals[s]), s)'
    BY DEF MapDenotes
  <2>1. globals \in [Symbols -> Nat \cup {None}]
    BY DEF TypeOK
  <2>2. CASE s = work.sym
    <3>1. globals'[s] = n /\ work'.sym = s
      BY <1>1, <2>1, <2>2
    <3> QED
      BY <1>6, <3>1
  <2>3. CASE s # work.sym
    <3>1. globals'[s] = globals[s]
      BY <1>1, <2>1, <2>3
    <3>2. PICK p : p = Object(globals[s])
      OBVIOUS
    <3>3. Denotes(p, s)
      BY <3>1, <3>2 DEF MapDenotes
    <3>4. Denotes(p, s)'
      BY <1>5, <3>3
    <3> QED
      BY <3>1, <3>2, <3>4
  <2> QED
    BY <2>2, <2>3
<1>11. ASSUME NEW p, InUse(objs, p), NEW q, q = Swap(p) PROVE InUse(objs, q)'
  <2>1. PICK m \in 1..Len(objs) : \E j \in 1..Len(objs[m].init) : objs[m].init[j] = p
    BY <1>11 DEF InUse
  <2>2. PICK j \in 1..Len(objs[m].init) : objs[m].init[j] = p
    BY <2>1
  <2> HIDE DEF Swap
  <2>3. m \in 1..Len(os) /\ os[m] = objs[m]
    <3>1. Len(objs) \in Nat
      BY TypeFacts
    <3> QED
      BY <1>2, <3>1
  <2>4. objs'[m].init[j] = q /\ m \in 1..Len(objs') /\ j \in 1..Len(objs'[m].init)
    BY <1>4, <1>11, <2>2, <2>3
  <2> QED
    BY <2>4 DEF InUse
<1>12. Awaited'
  <2> SUFFICES ASSUME NEW i \in 1..Len(queue), NEW p, p = Placeholder(queue[i].tmp)
               PROVE  InUse(objs, p)'
    BY <1>1 DEF Awaited
  <2>1. p = Swap(p)
    BY DEF TmpsApart, Placeholder
  <2>2. CASE InUse(objs, p)
    BY <1>11, <2>1, <2>2
  <2>3. ASSUME NEW j \in 1..Len(work.init), work.init[j] = p
        PROVE  InUse(objs, p)'
    <3>1. Len(work.init) \in Nat /\ work.init # << >>
      BY <2>3, TypeFacts
    <3>2. WorkKind = "data"
      BY <3>1 DEF WorkFollows
    <3>3. n \in 1..Len(os) /\ os[n].init = work.init
      BY <3>2
    <3> HIDE DEF Swap
    <3>4. objs'[n].init[j] = p /\ n \in 1..Len(objs') /\ j \in 1..Len(objs'[n].init)
      BY <1>4, <2>1, <2>3, <3>3
    <3> QED
      BY <3>4 DEF InUse
  <2> QED
    BY <2>2, <2>3 DEF Awaited
<1>13. Reached'
  <2> SUFFICES ASSUME NEW m \in 1..Len(os)
               PROVE  \/ \E a \in answers : a[1] = os[m].sym
                      \/ root'.sym = os[m].sym /\ root'.obj # None
                      \/ InUse(objs, Object(m))'
    BY <1>1, <1>4 DEF Reached
  <2>1. CASE m \in 1..Len(objs)
    <3>1. CASE \E a \in answers : a[1] = objs[m].sym
      BY <2>1, <3>1
    <3>2. CASE root.sym = objs[m].sym /\ root.obj # None
      BY <2>1, <3>2 DEF Register
    <3>3. CASE InUse(objs, Object(m))
      <4>1. Object(m) = Swap(Object(m))
        BY DEF Object, Placeholder
      <4>2. PICK p : p = Object(m)
        OBVIOUS
      <4> HIDE DEF Swap
      <4>3. InUse(objs, p)'
        BY <1>11, <3>3, <4>1, <4>2
      <4> QED
        BY <4>2, <4>3
    <3> QED
      BY <2>1, <3>1, <3>2, <3>3 DEF Reached
  <2>2. CASE m = n
    <3>1. os[m].sym = work.sym
      BY <1>2, <2>2 DEF LiftedFn
    <3>2. CASE root.obj = None
      <4>1. root.sym = work.sym
        BY <3>2 DEF LookupStart
      <4>2. root'.sym = root.sym /\ root'.obj = n
        BY <3>2 DEF Register, TypeOK
      <4> QED
        BY <3>1, <4>1, <4>2 DEF None
    <3>3. CASE root.obj # None
      <4>1. PICK p, q : p = Placeholder(work.tmp) /\ q = Object(n)
        OBVIOUS
      <4>2. InUse(objs, p) /\ q = Swap(p)
        BY <1>1, <3>3, <4>1 DEF Awaited
      <4>3. InUse(objs, q)'
        BY <1>11, <4>2
      <4> QED
        BY <2>2, <4>1, <4>3
    <3> QED
      BY <3>2, <3>3
  <2> QED
    BY <2>1, <2>2
<1>14. TmpsApart'
  BY <1>1 DEF TmpsApart
<1>15. LookupStart' /\ WorkFollows'
  BY <1>1 DEF LookupStart, WorkFollows
<1> QED
  BY <1>9, <1>10, <1>12, <1>13, <1>14, <1>15

(* Every step keeps the trace from initializers to symbols.                *)
LEMMA TracedStep ==
  ASSUME TypeOK, RootLifted, Traced, [Next]_vars
  PROVE  Traced'
<1> USE DEF Traced
<1>1. ASSUME NEW s \in Symbols, LookupKnown(s) PROVE Traced'
  <2>1. /\ UNCHANGED <<program, objs, globals, queue, tmps, work, root, pc>>
        /\ answers \subseteq answers'
    BY <1>1 DEF LookupKnown
  <2>2. \A p, q : Awaits(p, q) => Awaits(p, q)'
    BY <2>1 DEF Awaits, InHand
  <2>3. ObjectsFollow' /\ MapDenotes' /\ \A p, q : Stands(p, q) => Stands(p, q)'
    BY <2>1, <2>2, ObjectsKept
  <2>4. WorkFollows'
    BY <2>1, <2>3 DEF WorkFollows, WorkKind, Items
  <2>5. LookupStart' /\ TmpsApart' /\ Awaited'
    BY <2>1 DEF LookupStart, TmpsApart, Awaited, InHand, InUse
  <2>6. Reached'
    BY <2>1 DEF Reached, InUse
  <2> QED
    BY <2>3, <2>4, <2>5, <2>6
<1>2. ASSUME NEW s \in Symbols, LookupNew(s) PROVE Traced'
  <2>1. /\ UNCHANGED <<program, objs, globals, queue, tmps, answers>>
        /\ pc = "idle" /\ pc' = "build"
        /\ work' = [sym |-> s, init |-> << >>, tmp |-> 0]
        /\ root' = [sym |-> s, obj |-> None]
    BY <1>2 DEF LookupNew
  <2>2. Len(queue) = 0 /\ ~ InHand /\ ~ InHand'
    BY <2>1 DEF LookupStart, InHand
  <2>3. \A p, q : ~ Awaits(p, q)
    BY <2>2 DEF Awaits
  <2>4. ObjectsFollow' /\ MapDenotes'
    BY <2>1, <2>3, ObjectsKept
  <2>5. LookupStart' /\ WorkFollows'
    BY <2>1 DEF LookupStart, WorkFollows
  <2>6. TmpsApart' /\ Awaited'
    BY <2>1, <2>2 DEF TmpsApart, Awaited
  <2>7. Reached'
    BY <2>1 DEF Reached, InUse
  <2> QED
    BY <2>4, <2>5, <2>6, <2>7
<1>3. CASE PopDeferred
  <2>1. /\ UNCHANGED <<program, objs, globals, tmps, root, answers>>
        /\ pc = "drain" /\ pc' = "build"
        /\ work' = [sym |-> Head(queue).sym, init |-> << >>, tmp |-> Head(queue).tmp]
    BY <1>3 DEF PopDeferred
  <2>2. ~ InHand /\ InHand'
    BY <2>1 DEF InHand, RootLifted
  <2>3. /\ Len(queue) \in Nat \ {0}
        /\ Len(queue') = Len(queue) - 1
        /\ \A i \in 1..(Len(queue) - 1) : queue'[i] = queue[i + 1]
        /\ Head(queue) = queue[1]
    <3>1. queue \in Seq([sym : Symbols, tmp : Nat]) /\ queue # << >>
      BY <1>3 DEF PopDeferred, TypeOK
    <3>2. Len(queue) \in Nat \ {0}
      BY <3>1, EmptySeq, LenProperties
    <3>3. Head(queue) = queue[1]
      BY <3>1
    <3> QED
      BY <1>3, <3>1, <3>2, <3>3, HeadTailProperties DEF PopDeferred
  <2>4. work'.sym = queue[1].sym /\ work'.tmp = queue[1].tmp /\ work'.init = << >>
    BY <2>1, <2>3
  <2>5. ASSUME NEW i \in 1..Len(queue')
        PROVE  i + 1 \in 1..Len(queue) /\ queue'[i] = queue[i + 1] /\ i + 1 # 1
    BY <2>3
  <2>6. ASSUME NEW p, NEW q, Awaits(p, q) PROVE Awaits(p, q)'
    <3>1. PICK i \in 1..Len(queue) : queue[i].tmp = p.id /\ queue[i].sym = q
      BY <2>2, <2>6 DEF Awaits
    <3>2. p.tmp
      BY <2>6 DEF Awaits
    <3>3. CASE i = 1
      BY <2>2, <2>4, <3>1, <3>2, <3>3 DEF Awaits
    <3>4. CASE i # 1
      <4>1. i - 1 \in 1..Len(queue') /\ queue'[i - 1] = queue[i]
        BY <2>3, <3>4
      <4> QED
        BY <3>1, <3>2, <4>1 DEF Awaits
    <3> QED
      BY <3>3, <3>4
  <2>7. ObjectsFollow' /\ MapDenotes'
    BY <2>1, <2>6, ObjectsKept
  <2>8. LookupStart' /\ WorkFollows'
    <3>1. Len(work'.init) = 0
      BY <2>4
    <3> QED
      BY <2>1, <2>4, <3>1 DEF LookupStart, WorkFollows, RootLifted
  <2>9. TmpsApart'
    <3>1. 1 \in 1..Len(queue)
      BY <2>3
    <3>2. \A i \in 1..Len(queue') : queue'[i].tmp <= tmps' /\ queue'[i].tmp # work'.tmp
      BY <2>1, <2>4, <2>5, <3>1 DEF TmpsApart
    <3>3. ASSUME NEW i \in 1..Len(queue'), NEW j \in 1..Len(queue'), queue'[i].tmp = queue'[j].tmp
          PROVE  i = j
      <4>1. i + 1 = j + 1
        BY <2>5, <3>3 DEF TmpsApart
      <4> QED
        BY <2>3, <4>1
    <3>4. work'.tmp <= tmps'
      BY <2>1, <2>4, <3>1 DEF TmpsApart
    <3> QED
      BY <3>2, <3>3, <3>4 DEF TmpsApart
  <2>10. Awaited'
    <3>1. \A i \in 1..Len(queue) : InUse(objs, Placeholder(queue[i].tmp))
      BY <2>1 DEF Awaited
    <3>2. \A i \in 1..Len(queue') : InUse(objs', Placeholder(queue'[i].tmp))
      BY <2>1, <2>5, <3>1
    <3>3. InUse(objs', Placeholder(work'.tmp))
      BY <2>1, <2>3, <2>4, <3>1
    <3> QED
      BY <3>2, <3>3 DEF Awaited
  <2>11. Reached'
    BY <2>1 DEF Reached, InUse
  <2> QED
    BY <2>7, <2>8, <2>9, <2>10, <2>11
<1>4. CASE ReturnRoot
  <2>1. /\ UNCHANGED <<program, objs, globals, queue, tmps, work, root>>
        /\ pc = "drain" /\ pc' = "idle" /\ queue = << >> /\ Len(queue) = 0
        /\ answers' = answers \cup {<<root.sym, root.obj>>}
    BY <1>4 DEF ReturnRoot
  <2>2. ~ InHand /\ ~ InHand'
    BY <2>1 DEF InHand
  <2>3. \A p, q : ~ Awaits(p, q)
    BY <2>1, <2>2 DEF Awaits
  <2>4. ObjectsFollow' /\ MapDenotes'
    BY <2>1, <2>3, ObjectsKept
  <2>5. LookupStart' /\ WorkFollows'
    BY <2>1 DEF LookupStart, WorkFollows
  <2>6. TmpsApart' /\ Awaited'
    BY <2>1, <2>2 DEF TmpsApart, Awaited
  <2>7. Reached'
    <3>1. PICK x : x \in answers' /\ x[1] = root.sym
      <4>1. PICK x : x = <<root.sym, root.obj>>
        OBVIOUS
      <4> QED
        BY <2>1, <4>1
    <3>2. answers \subseteq answers'
      BY <2>1
    <3>3. ASSUME NEW m \in 1..Len(objs)
          PROVE  (\E a \in answers' : a[1] = objs[m].sym) \/ InUse(objs, Object(m))
      BY <3>1, <3>2 DEF Reached
    <3>4. objs' = objs /\ \A m : InUse(objs, Object(m)) => InUse(objs', Object(m)')
      BY <2>1 DEF InUse, Object
    <3> QED
      BY <3>3, <3>4 DEF Reached
  <2> QED
    BY <2>4, <2>5, <2>6, <2>7
<1>5. ASSUME NEW p, PointTo(p), Building
      PROVE  /\ work'.sym = work.sym /\ work'.tmp = work.tmp
             /\ Len(work'.init) = Len(work.init) + 1
             /\ work'.init[Len(work.init) + 1] = p
             /\ \A j \in 1..Len(work.init) : work'.init[j] = work.init[j]
  <2>1. work \in [sym : Symbols, init : Seq(Pointer), tmp : Nat] /\ work.init \in Seq(Pointer)
    BY DEF TypeOK
  <2>2. work'.sym = work.sym /\ work'.tmp = work.tmp /\ work'.init = Append(work.init, p)
    BY <1>5, <2>1 DEF PointTo
  <2> QED
    BY <2>1, <2>2, AppendProperties
<1>6. ASSUME NEW p \in Pointer, PointTo(p), Building, UNCHANGED <<program, objs, globals, queue, tmps, root, answers, pc>>,
             NEW s, s = Item.sym, Stands(p, s)
      PROVE  Traced'
  <2>1. /\ work'.sym = work.sym /\ work'.tmp = work.tmp
        /\ Len(work'.init) = Len(work.init) + 1
        /\ \A j \in 1..Len(work.init) : work'.init[j] = work.init[j]
    BY <1>5, <1>6
  <2>2. \A q, t : Awaits(q, t) => Awaits(q, t)'
    BY <1>6, <2>1 DEF Awaits, InHand
  <2>3. Stands(p, s)'
    BY <1>6, <2>2, ObjectsKept
  <2>4. LookupStart' /\ MapDenotes' /\ ObjectsFollow' /\ WorkFollows' /\ Reached'
    BY <1>6, <2>2, <2>3, PointStep
  <2>5. TmpsApart'
    BY <1>6, <2>1 DEF TmpsApart, InHand
  <2>6. Awaited'
    <3>1. \A j \in 1..Len(work.init) : j \in 1..Len(work'.init)
      <4>1. Len(work.init) \in Nat
        BY TypeFacts
      <4> QED
        BY <2>1, <4>1
    <3> QED
      BY <1>6, <2>1, <3>1 DEF Awaited, InHand
  <2> QED
    BY <2>4, <2>5, <2>6
<1>7. CASE ItemRegistered
  <2>1. Item.sym \in Symbols
    BY <1>7, ItemType DEF ItemRegistered, SymbolRef
  <2>2. globals[Item.sym] # None /\ globals[Item.sym] \in Nat
    BY <1>7, <2>1 DEF ItemRegistered, Registered, TypeOK
  <2>3. PICK p, s : p = Object(globals[Item.sym]) /\ s = Item.sym
    OBVIOUS
  <2>4. p \in Pointer
    BY <2>2, <2>3 DEF Object, Pointer
  <2>5. Stands(p, s)
    BY <2>1, <2>2, <2>3 DEF MapDenotes, Stands
  <2>6. PointTo(p) /\ Building /\ UNCHANGED <<program, objs, globals, queue, tmps, root, answers, pc>>
    BY <1>7, <2>3 DEF ItemRegistered
  <2> QED
    BY <1>6, <2>3, <2>4, <2>5, <2>6
<1>8. CASE ItemDeferred
  <2>1. PICK n \in 1..Len(queue) : DeferredAt(Item, n) /\ PointTo(Placeholder(queue[n].tmp))
    BY <1>8 DEF ItemDeferred
  <2>2. PICK p, s : p = Placeholder(queue[n].tmp) /\ s = Item.sym
    OBVIOUS
  <2>3. queue[n].tmp \in Nat
    BY TypeFacts
  <2>4. p \in Pointer /\ p.tmp /\ p.id = queue[n].tmp
    BY <2>2, <2>3 DEF Placeholder, Pointer
  <2>5. Stands(p, s)
    BY <2>1, <2>2, <2>4 DEF DeferredAt, Stands, Awaits
  <2>6. PointTo(p) /\ Building /\ UNCHANGED <<program, objs, globals, queue, tmps, root, answers, pc>>
    BY <1>8, <2>1, <2>2 DEF ItemDeferred
  <2> QED
    BY <1>6, <2>2, <2>4, <2>5, <2>6
<1>9. CASE DeferItem
  <2>1. /\ Building /\ tmps' = tmps + 1
        /\ queue' = Append(queue, [sym |-> Item.sym, tmp |-> tmps + 1])
        /\ PointTo(Placeholder(tmps + 1))
        /\ UNCHANGED <<program, objs, globals, root, answers, pc>>
    BY <1>9 DEF DeferItem
  <2>2. Item.sym \in Symbols /\ tmps \in Nat
    BY <2>1, ItemType DEF SymbolRef, TypeOK
  <2>3. PICK p, s : p = Placeholder(tmps + 1) /\ s = Item.sym
    OBVIOUS
  <2>4. p \in Pointer /\ p.tmp /\ p.id = tmps + 1
    BY <2>2, <2>3 DEF Placeholder, Pointer
  <2>5. /\ Len(queue) \in Nat
        /\ Len(queue') = Len(queue) + 1
        /\ \A i \in 1..Len(queue) : queue'[i] = queue[i]
        /\ queue'[Len(queue) + 1].sym = s /\ queue'[Len(queue) + 1].tmp = tmps + 1
    <3> DEFINE new == [sym |-> Item.sym, tmp |-> tmps + 1]
    <3>1. queue \in Seq([sym : Symbols, tmp : Nat]) /\ new \in [sym : Symbols, tmp : Nat]
      BY <2>2 DEF TypeOK
    <3>2. queue' = Append(queue, new) /\ new.sym = s /\ new.tmp = tmps + 1
      BY <2>1, <2>3
    <3> HIDE DEF new
    <3> QED
      BY <3>1, <3>2, AppendProperties, LenProperties
  <2>6. /\ work'.sym = work.sym /\ work'.tmp = work.tmp
        /\ Len(work'.init) = Len(work.init) + 1
        /\ work'.init[Len(work.init) + 1] = p
        /\ \A j \in 1..Len(work.init) : work'.init[j] = work.init[j]
    BY <1>5, <2>1, <2>3
  <2>7. /\ \A i \in 1..Len(queue') : i \in 1..Len(queue) \/ i = Len(queue) + 1
        /\ \A i \in 1..Len(queue) : i \in 1..Len(queue')
        /\ Len(queue) + 1 \in 1..Len(queue')
    BY <2>5
  <2>8. InHand' <=> InHand
    BY <2>1 DEF InHand
  <2>9. \A q, t : Awaits(q, t) => Awaits(q, t)'
    BY <2>5, <2>6, <2>7, <2>8 DEF Awaits
  <2>10. Stands(p, s)'
    BY <2>4, <2>5, <2>7 DEF Stands, Awaits
  <2>11. LookupStart' /\ MapDenotes' /\ ObjectsFollow' /\ WorkFollows' /\ Reached'
    <3>1. PointTo(p)
      BY <2>1, <2>3
    <3> QED
      BY <2>1, <2>3, <2>4, <2>9, <2>10, <3>1, PointStep
  <2>12. TmpsApart'
    <3>1. \A i \in 1..Len(queue) : queue[i].tmp \in Nat /\ queue[i].tmp <= tmps
      BY TypeFacts DEF TmpsApart
    <3>2. \A i \in 1..Len(queue') : queue'[i].tmp <= tmps'
      BY <2>1, <2>2, <2>5, <2>7, <3>1
    <3>3. \A i, j \in 1..Len(queue') : queue'[i].tmp = queue'[j].tmp => i = j
      BY <2>2, <2>5, <2>7, <3>1 DEF TmpsApart
    <3>4. InHand => work.tmp \in Nat /\ work.tmp <= tmps
      BY TypeFacts DEF TmpsApart
    <3>5. InHand => work'.tmp <= tmps' /\ \A i \in 1..Len(queue') : queue'[i].tmp # work'.tmp
      BY <2>1, <2>2, <2>5, <2>6, <2>7, <3>4 DEF TmpsApart
    <3> QED
      BY <2>8, <3>2, <3>3, <3>5 DEF TmpsApart
  <2>13. Awaited'
    <3>1. /\ \A j \in 1..Len(work.init) : j \in 1..Len(work'.init)
          /\ Len(work.init) + 1 \in 1..Len(work'.init)
      <4>1. Len(work.init) \in Nat
        BY TypeFacts
      <4> QED
        BY <2>6, <4>1
    <3>2. pc' = "build" /\ pc = "build"
      BY <2>1 DEF Building
    <3>3. ASSUME NEW i \in 1..Len(queue')
          PROVE  \/ InUse(objs', Placeholder(queue'[i].tmp))
                 \/ \E j \in 1..Len(work'.init) : work'.init[j] = Placeholder(queue'[i].tmp)
      <4>1. CASE i = Len(queue) + 1
        BY <2>3, <2>5, <2>6, <3>1, <4>1
      <4>2. CASE i \in 1..Len(queue)
        <5>1. \/ InUse(objs, Placeholder(queue[i].tmp))
              \/ \E j \in 1..Len(work.init) : work.init[j] = Placeholder(queue[i].tmp)
          BY <4>2 DEF Awaited
        <5> QED
          BY <2>1, <2>5, <2>6, <3>1, <4>2, <5>1
      <4> QED
        BY <2>7, <4>1, <4>2
    <3>4. InHand' => InUse(objs', Placeholder(work'.tmp))
      BY <2>1, <2>6, <2>8 DEF Awaited
    <3> QED
      BY <3>2, <3>3, <3>4 DEF Awaited
  <2> QED
    BY <2>11, <2>12, <2>13
<1>10. CASE CreateObject
  <2> DEFINE new == [sym |-> work.sym, init |-> work.init]
             n == Len(objs) + 1
             os == Append(objs, new)
  <2>1. objs \in Seq(Created) /\ new \in Created /\ Len(objs) \in Nat
    BY LenProperties DEF TypeOK, Created
  <2>2. /\ os \in Seq(Created) /\ Len(os) = n
        /\ \A m \in 1..Len(objs) : os[m] = objs[m]
        /\ os[n] = new
    BY <2>1, AppendProperties
  <2>3. Register(n, os) /\ pc = "build" /\ n \in Nat /\ n \in 1..n /\ Len(objs) <= n
    BY <1>10, <2>1 DEF CreateObject
  <2>4. new.sym = work.sym /\ new.init = work.init
    OBVIOUS
  <2>5. \A m \in 1..n : m \in 1..Len(objs) \/ m = n
    BY <2>1
  <2>6. WorkKind = "data" => Len(work.init) = Len(Items)
    BY <1>10 DEF CreateObject
  <2> HIDE DEF new, os, n
  <2>7. n \in 1..Len(os) /\ os[n].sym = work.sym /\ os[n].init = work.init
    BY <2>2, <2>3, <2>4
  <2>8. Len(objs) <= Len(os) /\ \A m \in 1..Len(os) : m \in 1..Len(objs) \/ m = n
    BY <2>2, <2>3, <2>5
  <2> QED
    BY <2>2, <2>3, <2>6, <2>7, <2>8, RegisterStep
<1>11. CASE FoundSelf
  <2>1. objs \in Seq(Created) /\ Len(objs) <= Len(objs)
    BY TypeFacts DEF TypeOK
  <2>2. PICK n : n = LiftedFn
    OBVIOUS
  <2>3. n \in Nat
    BY <2>2 DEF LiftedFn
  <2>4. Register(n, objs) /\ pc = "build" /\ WorkKind = "self"
    BY <1>11, <2>2 DEF FoundSelf
  <2> QED
    BY <2>1, <2>2, <2>3, <2>4, RegisterStep
<1>12. CASE NotFound
  <2>1. /\ UNCHANGED <<program, objs, globals, queue, tmps, work, root, answers>>
        /\ pc = "build" /\ pc' = "error"
    BY <1>12 DEF NotFound
  <2>2. InHand' <=> InHand
    BY <2>1 DEF InHand
  <2>3. \A p, q : Awaits(p, q) => Awaits(p, q)'
    BY <2>1, <2>2 DEF Awaits
  <2>4. ObjectsFollow' /\ MapDenotes'
    BY <2>1, <2>3, ObjectsKept
  <2>5. LookupStart' /\ TmpsApart' /\ WorkFollows' /\ Awaited' /\ Reached'
    BY <2>1, <2>2 DEF LookupStart, TmpsApart, WorkFollows, Awaited, Reached, InUse
  <2> QED
    BY <2>4, <2>5
<1>13. CASE UNCHANGED vars
  <2>1. UNCHANGED <<program, objs, globals, queue, tmps, work, root, answers, pc>>
    BY <1>13 DEF vars
  <2>2. InHand' <=> InHand
    BY <2>1 DEF InHand
  <2>3. \A p, q : Awaits(p, q) => Awaits(p, q)'
    BY <2>1, <2>2 DEF Awaits
  <2>4. ObjectsFollow' /\ MapDenotes' /\ \A p, q : Stands(p, q) => Stands(p, q)'
    BY <2>1, <2>3, ObjectsKept
  <2>5. WorkFollows'
    BY <2>1, <2>4 DEF WorkFollows, WorkKind, Items
  <2>6. LookupStart' /\ TmpsApart' /\ Awaited' /\ Reached'
    BY <2>1, <2>2 DEF LookupStart, TmpsApart, Awaited, Reached, InUse
  <2> QED
    BY <2>4, <2>5, <2>6
<1> QED
  BY <1>1, <1>2, <1>3, <1>4, <1>7, <1>8, <1>9, <1>10, <1>11, <1>12, <1>13 DEF Next

LEMMA TracedInit ==
  ASSUME Init
  PROVE  Traced
<1>1. Len(objs) = 0 /\ Len(queue) = 0 /\ ~ InHand
  BY DEF Init, InHand
<1> QED
  BY <1>1 DEF Init, Traced, LookupStart, TmpsApart, MapDenotes, ObjectsFollow,
              WorkFollows, Awaited, Reached, InUse

(* When no lookup is in progress nothing is deferred, so what stands for a *)
(* symbol is an object of it, and no object is a lookup's in progress.     *)
LEMMA TracedImplies ==
  ASSUME Traced
  PROVE  InitializersFaithful /\ NothingElse
<1>1. ASSUME pc = "idle" PROVE \A p, s : ~ Awaits(p, s)
  <2>1. queue = << >> /\ Len(queue) = 0 /\ ~ InHand
    BY <1>1 DEF Traced, LookupStart, InHand
  <2> QED
    BY <2>1 DEF Awaits
<1>2. InitializersFaithful
  BY <1>1 DEF InitializersFaithful, Traced, ObjectsFollow, Stands
<1>3. NothingElse
  BY DEF NothingElse, Traced, Reached, InUse
<1> QED
  BY <1>2, <1>3

(* TypeOK holds of every program: whatever its initializers name, lookups  *)
(* of the lifter (mc2llvm.cpp lookupGlobal) only ever return objects that  *)
(* exist, never the empty value a map holds for a symbol it does not know. *)
THEOREM TypeCorrect == Spec => []TypeOK
<1>1. Init => TypeOK /\ RootLifted
  BY TypeInit
<1>2. TypeOK /\ RootLifted /\ [Next]_vars => TypeOK' /\ RootLifted'
  BY TypeStep
<1> QED
  BY <1>1, <1>2, PTL DEF Spec

(* PlainOneObject: in a program whose initializers name other symbols only *)
(* and as they are, lookupGlobal and its deferred worklist create one      *)
(* object per symbol and return it from every lookup, for any number of    *)
(* definitions that refer to each other in any way.                        *)
THEOREM PlainSound == Spec => []PlainOneObject
<1>1. Init => IInv
  BY InitInv
<1>2. IInv /\ [Next]_vars => IInv'
  BY TypeStep, SharedStep DEF IInv
<1>3. IInv => PlainOneObject
  BY InvImpliesOneObject
<1> QED
  BY <1>1, <1>2, <1>3, PTL DEF Spec

(* InitializersFaithful: of every program, mangled spellings and           *)
(* self-references included, the initializers lookupGlobal leaves behind   *)
(* point item by item to objects of the symbols that the assembly names.   *)
THEOREM LinksFaithful == Spec => []InitializersFaithful
<1>1. Init => TypeOK /\ RootLifted /\ Traced
  BY TypeInit, TracedInit
<1>2. TypeOK /\ RootLifted /\ Traced /\ [Next]_vars => TypeOK' /\ RootLifted' /\ Traced'
  BY TypeStep, TracedStep
<1>3. Traced => InitializersFaithful
  BY TracedImplies
<1> QED
  BY <1>1, <1>2, <1>3, PTL DEF Spec

(* NothingElse: whatever lookupGlobal and lazyAddGlobal create was looked  *)
(* up or is pointed to by an initializer, for every program.               *)
THEOREM OnlyReachable == Spec => []NothingElse
<1>1. Init => TypeOK /\ RootLifted /\ Traced
  BY TypeInit, TracedInit
<1>2. TypeOK /\ RootLifted /\ Traced /\ [Next]_vars => TypeOK' /\ RootLifted' /\ Traced'
  BY TypeStep, TracedStep
<1>3. Traced => NothingElse
  BY TracedImplies
<1> QED
  BY <1>1, <1>2, <1>3, PTL DEF Spec
=============================================================================
