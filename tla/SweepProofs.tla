----------------------------- MODULE SweepProofs -----------------------------
(***************************************************************************)
(* Proofs about module Sweep, for every corpus, every layout of its names  *)
(* and every sequence of sweeps: type correctness, that the results of a   *)
(* finished sweep account for every source with a stem of its own and are  *)
(* of the build and the files at hand, and what a file whose compilation   *)
(* is skipped was made from.                                               *)
(***************************************************************************)
EXTENDS Sweep, SequenceTheorems, FiniteSetTheorems, FunctionTheorems, TLAPS

(* A function on 1..n is a sequence of length n.                           *)
LEMMA FunctionIsSeq ==
  ASSUME NEW S, NEW n \in Nat, NEW f \in [1..n -> S]
  PROVE  f \in Seq(S) /\ Len(f) = n
<1>1. f \in Seq(S)
  BY SeqDef
<1>2. PICK m \in Nat : m = Len(f) /\ 1..m = 1..n
  BY <1>1, LenProperties
<1>3. (m > 0 => m \in 1..n) /\ (n > 0 => n \in 1..m)
  BY <1>2
<1> QED
  BY <1>1, <1>2, <1>3

(* A sequence of whatever elements                                         *)
IsList(s) == Len(s) \in Nat /\ s = [k \in 1..Len(s) |-> s[k]]

(* A list with one more element                                            *)
LEMMA ListAppend ==
  ASSUME NEW s, IsList(s), NEW e
  PROVE  /\ Append(s, e) = [k \in 1..(Len(s) + 1) |-> IF k = Len(s) + 1 THEN e ELSE s[k]]
         /\ IsList(Append(s, e)) /\ Len(Append(s, e)) = Len(s) + 1
         /\ DOMAIN s = 1..Len(s) /\ DOMAIN Append(s, e) = 1..(Len(s) + 1)
         /\ \A k \in 1..Len(s) : Append(s, e)[k] = s[k]
         /\ Append(s, e)[Len(s) + 1] = e
<1>1. PICK n, S : n = Len(s) /\ S = {s[k] : k \in 1..n} \cup {e} /\ n \in Nat
  BY DEF IsList
<1>2. s \in [1..n -> S] /\ e \in S
  <2>1. s = [k \in 1..n |-> s[k]]
    BY <1>1 DEF IsList
  <2>2. \A k \in 1..n : s[k] \in S
    BY <1>1
  <2> QED
    BY <1>1, <2>1, <2>2
<1>3. s \in Seq(S) /\ DOMAIN s = 1..n
  BY <1>1, <1>2, FunctionIsSeq
<1>4. PICK t : t = Append(s, e) /\ t \in Seq(S) /\ Len(t) = n + 1
  <2>1. Append(s, e) \in Seq(S) /\ Len(Append(s, e)) = n + 1
    BY <1>1, <1>2, <1>3
  <2> QED
    BY <2>1
<1>5. \A k \in 1..(n + 1) : t[k] = IF k = n + 1 THEN e ELSE s[k]
  BY <1>1, <1>2, <1>3, <1>4
<1>6. t = [k \in 1..(n + 1) |-> t[k]]
  <2>1. t \in [1..Len(t) -> S]
    BY <1>4, LenProperties
  <2> QED
    BY <1>4, <2>1
<1>7. t = [k \in 1..(n + 1) |-> IF k = n + 1 THEN e ELSE s[k]]
  BY <1>5, <1>6
<1>8. IsList(t) /\ DOMAIN t = 1..(n + 1) /\ t[n + 1] = e
  BY <1>1, <1>4, <1>5, <1>6 DEF IsList
<1> QED
  BY <1>1, <1>3, <1>4, <1>5, <1>7, <1>8

-----------------------------------------------------------------------------
(* The inductive invariant                                                 *)

Compiling == pc \in {"compile", "clang", "stamp"}

(* How far the sources, the files and the work have been gone through      *)
SourcesSeen == IF pc = "idle" THEN 0 ELSE IF Compiling THEN next - 1 ELSE N
FilesSeen ==
  IF pc = "idle" \/ Compiling THEN 0 ELSE IF pc = "list" THEN next - 1 ELSE Len(files)
WorkSeen ==
  IF pc = "idle" \/ Compiling \/ pc = "list" THEN 0 ELSE IF pc = "reuse" THEN next - 1 ELSE Len(work)

(* What of the sweep's memory is in use at which stage                     *)
Control ==
  /\ pc = "idle" => next = 1 /\ files = << >> /\ records = << >>
  /\ pc = "idle" \/ Compiling => work = << >>
  /\ pc \notin {"reuse", "run"} => todo = << >>
  /\ pc # "run" => running = {}
  /\ IsFiniteSet(running)
  /\ pc \in {"idle", "list"} \/ Compiling => hashed = 0
  /\ hashed = 0 => WorkSeen = 0
  /\ SourcesSeen <= N /\ FilesSeen <= Len(files) /\ WorkSeen <= Len(work)
  /\ pc \in {"clang", "stamp"} => next <= N
  /\ pc = "write" => next <= Len(records) + 1

(* A build that was not replaced while it was run is the one that is run.  *)
BuildKept ==
  hashed # 0 /\ hashed \notin tainted =>
    /\ pc \in {"reuse", "run"} => binary = hashed
    /\ \A run \in running : run.build = hashed

(* A compiled file is of a source with its stem.                           *)
FilesOfSources == \A s \in Stems : ll[s] # NoFile => stem[ll[s].of] = s

(* The stamp says what a source is or has been.  The file was made from    *)
(* what the stamp says if the compilation was not disturbed, or if that is *)
(* what the source is for the first time.                                  *)
StampOf(c) == stamp[stem[c]] \in past[c] \cup {source[c], NoContent}
FileAsStamped(c) ==
  stem[c] \notin disturbed /\ ll[stem[c]] # NoFile /\ stamp[stem[c]] # NoContent /\ ~ (pc = "stamp" /\ c = next)
    => MadeFrom(ll[stem[c]], stamp[stem[c]])
FileAsNew(c) ==
  ll[stem[c]] # NoFile /\ stamp[stem[c]] = source[c] /\ source[c] \notin past[c]
    => MadeFrom(ll[stem[c]], source[c])

(* The same of the stamp that is about to be written                       *)
KeyTrue ==
  /\ pc \in {"clang", "stamp"} => key \in Contents /\ key \in past[next] \cup {source[next]}
  /\ pc = "clang" /\ Stem \notin disturbed => key = source[next]
  /\ pc = "stamp" /\ (Stem \notin disturbed \/ (key = source[next] /\ key \notin past[next]))
       => MadeFrom(ll[Stem], key)

StampsTrue ==
  /\ \A c \in 1..N : source[c].of = c
  /\ DistinctStems => KeyTrue /\ \A c \in 1..N : StampOf(c) /\ FileAsStamped(c) /\ FileAsNew(c)

(* A record of a function says what it was found on, which is what its key *)
(* says unless the build was replaced; the others have no key.             *)
Honest(r) ==
  \/ r.outcome \notin Checked /\ r.key = NoKey
  \/ /\ r.outcome \in Checked
     /\ r.of.content = r.key.content /\ r.of.fn = r.key.fn
     /\ r.key.fn = r.fn
     /\ r.key.content # NoFile /\ r.file = stem[r.key.content.of]
     /\ r.key.binary \notin tainted => r.of = r.key

RecordsHonest ==
  /\ \A i \in 1..Len(results) : Honest(results[i])
  /\ \A i \in 1..Len(baseline) : Honest(baseline[i])
  /\ \A i \in 1..Len(records) : Honest(records[i])

WorkCompiled == \A i \in 1..Len(work) : ll[work[i].file] # NoFile

(* The lines of a list of records that have one of some outcomes are those *)
(* wanted for the members of S, one for each.                              *)
LinesOf(seq, outcomes) == {i \in 1..Len(seq) : seq[i].outcome \in outcomes}
Want(file, f, k) == [file |-> file, fn |-> f, key |-> k]
Reported(S, seq, outcomes, want) ==
  \E line \in Bijection(S, LinesOf(seq, outcomes)) :
    \A x \in S : Want(seq[line[x]].file, seq[line[x]].fn, seq[line[x]].key) = want[x]

ForSources == [c \in 1..N |-> Want(c, NoName, NoKey)]
ForFiles == [i \in 1..Len(files) |-> Want(files[i], NoName, NoKey)]
ForWork == [i \in 1..Len(work) |-> Want(work[i].file, work[i].fn, CacheKey(work[i]))]

Placed(S) ==
  \E place \in Bijection(S, 1..Len(files)) : \A c \in S : files[place[c]] = stem[c]

SourcesOK ==
  \E failed \in SUBSET (1..SourcesSeen) :
    /\ Reported(failed, records, {"compile-error"}, ForSources)
    /\ Placed((1..SourcesSeen) \ failed)

Bare(n) == {i \in 1..n : FunctionsIn(files[i]) = << >>}
FilesOK == Reported(Bare(FilesSeen), records, {"input-error"}, ForFiles)

(* The functions by the place of their file in the list of files           *)
FunctionsAt(i) == {<<i, j>> : j \in 1..Len(FunctionsIn(files[i]))}
ListedTo(n) == UNION {FunctionsAt(i) : i \in 1..n}
ListingOK ==
  \E item \in Bijection(ListedTo(FilesSeen), 1..Len(work)) :
    \A l \in ListedTo(FilesSeen) :
      work[item[l]] = [file |-> files[l[1]], fn |-> FunctionsIn(files[l[1]])[l[2]]]

Items == {run.item : run \in running}
Pending == Items \cup {todo[k] : k \in 1..Len(todo)}
WorkDone == (1..WorkSeen) \ Pending
WorkOK ==
  /\ Pending \subseteq 1..WorkSeen
  /\ \A run, other \in running : run.item = other.item => run = other
  /\ \A k \in 1..Len(todo) : todo[k] \notin Items
  /\ \A k, m \in 1..Len(todo) : todo[k] = todo[m] => k = m
  /\ Reported(WorkDone, records, Checked, ForWork)

Written ==
  /\ pc = "write" => /\ Len(results) = next - 1
                     /\ \A i \in 1..(next - 1) : results[i] = records[i]
  /\ pc = "done" => results = records

IInv ==
  /\ TypeOK /\ Control /\ BuildKept
  /\ FilesOfSources /\ StampsTrue
  /\ RecordsHonest /\ WorkCompiled
  /\ SourcesOK /\ FilesOK /\ ListingOK /\ WorkOK /\ Written

-----------------------------------------------------------------------------
(* Lists of records and what they account for                              *)

With(S, x) == S \cup {x}

(* A bijection with one more pair                                          *)
LEMMA BijectionAdd ==
  ASSUME NEW S, NEW T, NEW f \in Bijection(S, T), NEW x, x \notin S, NEW y, y \notin T
  PROVE  \E g \in Bijection(With(S, x), With(T, y)) : g[x] = y /\ \A s \in S : g[s] = f[s]
<1>1. PICK g : g = [s \in With(S, x) |-> IF s = x THEN y ELSE f[s]]
  OBVIOUS
<1>2. f \in [S -> T] /\ (\A a, b \in S : f[a] = f[b] => a = b) /\ \A t \in T : \E s \in S : f[s] = t
  BY DEF Bijection, Injection, Surjection, IsInjective
<1>3. g \in [With(S, x) -> With(T, y)] /\ g[x] = y /\ \A s \in S : g[s] = f[s]
  BY <1>1, <1>2 DEF With
<1>4. \A a, b \in With(S, x) : g[a] = g[b] => a = b
  BY <1>2, <1>3 DEF With
<1>5. \A t \in With(T, y) : \E s \in With(S, x) : g[s] = t
  BY <1>2, <1>3 DEF With
<1>6. g \in Bijection(With(S, x), With(T, y))
  BY <1>3, <1>4, <1>5 DEF Bijection, Injection, Surjection, IsInjective
<1> QED
  BY <1>3, <1>6

(* Two empty sets                                                          *)
LEMMA BijectionEmpty == \E f : f \in Bijection({}, {})
<1>1. PICK f : f = [x \in {} |-> x]
  OBVIOUS
<1>2. f \in [{} -> {}] /\ DOMAIN f = {}
  BY <1>1
<1>3. f \in Bijection({}, {})
  BY <1>2 DEF Bijection, Injection, Surjection, IsInjective
<1> QED
  BY <1>3

(* One more record is one more line of its outcome.                        *)
LEMMA LinesAppend ==
  ASSUME NEW seq, IsList(seq), NEW r, NEW O
  PROVE  /\ Len(seq) + 1 \notin LinesOf(seq, O)
         /\ r.outcome \in O => LinesOf(Append(seq, r), O) = LinesOf(seq, O) \cup {Len(seq) + 1}
         /\ r.outcome \notin O => LinesOf(Append(seq, r), O) = LinesOf(seq, O)
<1>1. /\ Len(seq) \in Nat /\ Len(Append(seq, r)) = Len(seq) + 1
      /\ \A i \in 1..Len(seq) : Append(seq, r)[i] = seq[i]
      /\ Append(seq, r)[Len(seq) + 1] = r
  BY ListAppend DEF IsList
<1>2. 1..(Len(seq) + 1) = 1..Len(seq) \cup {Len(seq) + 1} /\ Len(seq) + 1 \notin 1..Len(seq)
  BY <1>1
<1> QED
  BY <1>1, <1>2, Zenon DEF LinesOf

LEMMA ReportedNone ==
  ASSUME NEW seq, NEW O, NEW want, LinesOf(seq, O) = {}
  PROVE  Reported({}, seq, O, want)
BY BijectionEmpty DEF Reported

LEMMA ReportedMore ==
  ASSUME NEW seq, IsList(seq), NEW r, NEW O, NEW S, NEW want, NEW want2,
         Reported(S, seq, O, want), NEW x, x \notin S, r.outcome \in O,
         \A y \in S : want2[y] = want[y],
         want2[x] = Want(r.file, r.fn, r.key)
  PROVE  Reported(With(S, x), Append(seq, r), O, want2)
<1>1. PICK line \in Bijection(S, LinesOf(seq, O)) :
        \A y \in S : Want(seq[line[y]].file, seq[line[y]].fn, seq[line[y]].key) = want[y]
  BY DEF Reported
<1>2. /\ Len(seq) + 1 \notin LinesOf(seq, O)
      /\ LinesOf(Append(seq, r), O) = LinesOf(seq, O) \cup {Len(seq) + 1}
  BY LinesAppend
<1>6. /\ \A i \in LinesOf(seq, O) : Append(seq, r)[i] = seq[i]
      /\ Append(seq, r)[Len(seq) + 1] = r
  BY ListAppend DEF LinesOf
<1>3. PICK new \in Bijection(S \cup {x}, LinesOf(seq, O) \cup {Len(seq) + 1}) :
        new[x] = Len(seq) + 1 /\ \A y \in S : new[y] = line[y]
  <2>1. PICK T, z : T = LinesOf(seq, O) /\ z = Len(seq) + 1
    OBVIOUS
  <2>2. line \in Bijection(S, T) /\ z \notin T
    BY <1>2, <2>1
  <2>3. \E g \in Bijection(With(S, x), With(T, z)) : g[x] = z /\ \A y \in S : g[y] = line[y]
    BY <2>2, BijectionAdd
  <2> QED
    BY <2>1, <2>3 DEF With
<1>4. \A y \in S : line[y] \in LinesOf(seq, O)
  BY DEF Bijection, Injection
<1>5. \A y \in S \cup {x} :
        Want(Append(seq, r)[new[y]].file, Append(seq, r)[new[y]].fn, Append(seq, r)[new[y]].key)
          = want2[y]
  BY <1>1, <1>6, <1>3, <1>4, Zenon
<1> QED
  BY <1>2, <1>3, <1>5 DEF Reported, With

LEMMA ReportedSame ==
  ASSUME NEW seq, IsList(seq), NEW r, NEW O, NEW S, NEW want,
         Reported(S, seq, O, want), r.outcome \notin O
  PROVE  Reported(S, Append(seq, r), O, want)
<1>1. PICK line \in Bijection(S, LinesOf(seq, O)) :
        \A y \in S : Want(seq[line[y]].file, seq[line[y]].fn, seq[line[y]].key) = want[y]
  BY DEF Reported
<1>2. LinesOf(Append(seq, r), O) = LinesOf(seq, O)
  BY LinesAppend
<1>3. \A i \in LinesOf(seq, O) : Append(seq, r)[i] = seq[i]
  BY ListAppend DEF LinesOf
<1>4. \A y \in S : line[y] \in LinesOf(seq, O)
  BY DEF Bijection, Injection
<1> QED
  BY <1>1, <1>2, <1>3, <1>4 DEF Reported

(* What is wanted may be rephrased.                                        *)
LEMMA ReportedAs ==
  ASSUME NEW seq, NEW O, NEW S, NEW want, NEW want2,
         Reported(S, seq, O, want), \A y \in S : want2[y] = want[y]
  PROVE  Reported(S, seq, O, want2)
BY DEF Reported

LEMMA ReportedOfNone ==
  ASSUME NEW seq, NEW O, NEW want, Reported({}, seq, O, want)
  PROVE  LinesOf(seq, O) = {}
BY DEF Reported, Bijection, Surjection

(* A typed sequence is a list.                                             *)
LEMMA SeqIsList ==
  ASSUME NEW R, NEW s \in Seq(R)
  PROVE  IsList(s)
<1>1. Len(s) \in Nat /\ s \in [1..Len(s) -> R]
  BY LenProperties
<1> QED
  BY <1>1 DEF IsList

LEMMA EmptyLines == \A O : LinesOf(<< >>, O) = {}
BY DEF LinesOf

-----------------------------------------------------------------------------
(* What keeps each part of the invariant when a step does not touch it, or *)
(* empties it                                                              *)

LEMMA SourcesFrame ==
  ASSUME SourcesOK, SourcesSeen' = SourcesSeen, UNCHANGED <<stem, files, records>>
  PROVE  SourcesOK'
<1>1. PICK failed \in SUBSET (1..SourcesSeen) :
        /\ Reported(failed, records, {"compile-error"}, ForSources)
        /\ Placed((1..SourcesSeen) \ failed)
  BY DEF SourcesOK
<1>2. Placed((1..SourcesSeen) \ failed)'
  BY <1>1 DEF Placed
<1>3. Reported(failed, records, {"compile-error"}, ForSources)'
  BY <1>1 DEF ForSources
<1> QED
  BY <1>2, <1>3 DEF SourcesOK

LEMMA SourcesAppend ==
  ASSUME SourcesOK, SourcesSeen' = SourcesSeen, UNCHANGED <<stem, files>>,
         IsList(records), NEW r, r.outcome # "compile-error", records' = Append(records, r)
  PROVE  SourcesOK'
<1>1. PICK failed \in SUBSET (1..SourcesSeen) :
        /\ Reported(failed, records, {"compile-error"}, ForSources)
        /\ Placed((1..SourcesSeen) \ failed)
  BY DEF SourcesOK
<1>2. PICK O : O = {"compile-error"}
  OBVIOUS
<1>3. Reported(failed, Append(records, r), O, ForSources)
  <2>1. r.outcome \notin O /\ Reported(failed, records, O, ForSources)
    BY <1>1, <1>2
  <2> QED
    BY <2>1, ReportedSame
<1>4. Placed((1..SourcesSeen) \ failed)'
  BY <1>1 DEF Placed
<1> QED
  BY <1>2, <1>3, <1>4 DEF SourcesOK, ForSources

LEMMA SourcesNone ==
  ASSUME SourcesSeen' = 0, files' = << >>, records' = << >>
  PROVE  SourcesOK'
<1>1. PICK O : O = {"compile-error"}
  OBVIOUS
<1>2. LinesOf(<< >>, O) = {}
  BY EmptyLines
<1>3. Reported({}, << >>, O, ForSources)
  BY <1>2, ReportedNone
<1>4. 1..SourcesSeen' = {} /\ 1..Len(files') = {} /\ (1..SourcesSeen') \ {} = {}
  OBVIOUS
<1>5. \E place : place \in Bijection({}, {})
  BY BijectionEmpty
<1>6. Placed((1..SourcesSeen) \ {})'
  BY <1>4, <1>5 DEF Placed
<1>7. Reported({}, records, O, ForSources)'
  BY <1>3 DEF ForSources
<1> QED
  BY <1>1, <1>4, <1>6, <1>7 DEF SourcesOK

LEMMA FilesFrame ==
  ASSUME FilesOK, FilesSeen' = FilesSeen, UNCHANGED <<ll, files, records>>
  PROVE  FilesOK'
BY DEF FilesOK, Bare, FunctionsIn, ForFiles

LEMMA FilesAppend ==
  ASSUME FilesOK, FilesSeen' = FilesSeen, UNCHANGED <<ll, files>>,
         IsList(records), NEW r, r.outcome # "input-error", records' = Append(records, r)
  PROVE  FilesOK'
<1>1. PICK O : O = {"input-error"}
  OBVIOUS
<1>2. Reported(Bare(FilesSeen), Append(records, r), O, ForFiles)
  <2>1. r.outcome \notin O /\ Reported(Bare(FilesSeen), records, O, ForFiles)
    BY <1>1 DEF FilesOK
  <2> QED
    BY <2>1, ReportedSame
<1> QED
  BY <1>1, <1>2 DEF FilesOK, Bare, FunctionsIn, ForFiles

LEMMA FilesNone ==
  ASSUME FilesSeen' = 0, LinesOf(records', {"input-error"}) = {}
  PROVE  FilesOK'
<1>1. PICK O : O = {"input-error"}
  OBVIOUS
<1>2. Bare(FilesSeen)' = {}
  BY DEF Bare
<1>3. Reported({}, records', O, ForFiles')
  BY <1>1, ReportedNone
<1> QED
  BY <1>1, <1>2, <1>3 DEF FilesOK

LEMMA ListingFrame ==
  ASSUME ListingOK, FilesSeen' = FilesSeen, UNCHANGED <<ll, files, work>>
  PROVE  ListingOK'
<1>1. ListedTo(FilesSeen)' = ListedTo(FilesSeen)
  BY DEF ListedTo, FunctionsAt, FunctionsIn
<1>2. \A l : FunctionsIn(files[l[1]])' = FunctionsIn(files[l[1]])
  BY DEF FunctionsIn
<1>3. PICK item \in Bijection(ListedTo(FilesSeen), 1..Len(work)) :
        \A l \in ListedTo(FilesSeen) :
          work[item[l]] = [file |-> files[l[1]], fn |-> FunctionsIn(files[l[1]])[l[2]]]
  BY DEF ListingOK
<1> QED
  BY <1>1, <1>2, <1>3 DEF ListingOK

LEMMA ListingNone ==
  ASSUME FilesSeen' = 0, work' = << >>
  PROVE  ListingOK'
<1>1. ListedTo(FilesSeen)' = {}
  BY DEF ListedTo
<1>2. 1..Len(work') = {}
  OBVIOUS
<1> QED
  BY <1>1, <1>2, BijectionEmpty DEF ListingOK

LEMMA WorkFrame ==
  ASSUME WorkOK, WorkSeen' = WorkSeen, UNCHANGED <<running, todo, records, work, ll, hashed>>,
         binary' = binary \/ hashed # 0
  PROVE  WorkOK'
<1>1. Build' = Build
  BY DEF Build
<1>2. ForWork' = ForWork
  BY <1>1 DEF ForWork, CacheKey
<1>3. Items' = Items /\ Pending' = Pending /\ WorkDone' = WorkDone
  BY DEF Items, Pending, WorkDone
<1>4. Reported(WorkDone', records', Checked, ForWork')
  BY <1>2, <1>3 DEF WorkOK
<1> QED
  BY <1>3, <1>4 DEF WorkOK, Checked

LEMMA WorkNone ==
  ASSUME WorkSeen' = 0, running' = {}, todo' = << >>, LinesOf(records', Checked) = {}
  PROVE  WorkOK'
<1>1. Items' = {} /\ Pending' = {} /\ WorkDone' = {}
  BY DEF Items, Pending, WorkDone
<1>2. Reported({}, records', Checked, ForWork')
  BY ReportedNone
<1> QED
  BY <1>1, <1>2 DEF WorkOK, Checked

(* What is on disk is touched only while a source is compiled.             *)
LEMMA DiskFrame ==
  ASSUME FilesOfSources, StampsTrue, UNCHANGED <<stem, source, ll, stamp, past, disturbed>>,
         \/ UNCHANGED <<pc, next, key>>
         \/ pc \notin {"clang", "stamp"} /\ pc' \notin {"clang", "stamp"}
  PROVE  FilesOfSources' /\ StampsTrue'
<1>1. FilesOfSources'
  BY DEF FilesOfSources
<1>2. DistinctStems' = DistinctStems
  BY DEF DistinctStems
<1>3. ASSUME NEW c \in 1..N
      PROVE  /\ StampOf(c) => StampOf(c)'
             /\ FileAsStamped(c) => FileAsStamped(c)'
             /\ FileAsNew(c) => FileAsNew(c)'
  BY DEF StampOf, FileAsStamped, FileAsNew, MadeFrom
<1>4. KeyTrue => KeyTrue'
  BY DEF KeyTrue, Stem, MadeFrom
<1> QED
  BY <1>1, <1>2, <1>3, <1>4 DEF StampsTrue

LEMMA BuildFrame ==
  ASSUME BuildKept, UNCHANGED <<binary, running, hashed, tainted>>,
         pc' \in {"reuse", "run"} => pc \in {"reuse", "run"} \/ hashed = 0
  PROVE  BuildKept'
BY DEF BuildKept

LEMMA RecordsFrame ==
  ASSUME RecordsHonest, UNCHANGED <<stem, results, records, baseline, tainted>>
  PROVE  RecordsHonest'
BY DEF RecordsHonest, Honest

(* Before the work is gone through nothing is reported of it.              *)
LEMMA NothingYet ==
  ASSUME IInv
  PROVE  /\ FilesSeen = 0 => LinesOf(records, {"input-error"}) = {}
         /\ WorkSeen = 0 => LinesOf(records, Checked) = {}
<1>1. ASSUME FilesSeen = 0
      PROVE  LinesOf(records, {"input-error"}) = {}
  <2>1. PICK O : O = {"input-error"}
    OBVIOUS
  <2>2. Bare(FilesSeen) = {}
    BY <1>1 DEF Bare
  <2>3. Reported({}, records, O, ForFiles)
    BY <2>1, <2>2 DEF IInv, FilesOK
  <2> QED
    BY <2>1, <2>3, ReportedOfNone
<1>2. ASSUME WorkSeen = 0
      PROVE  LinesOf(records, Checked) = {}
  <2>1. WorkDone = {}
    BY <1>2 DEF WorkDone
  <2>2. Reported({}, records, Checked, ForWork)
    BY <2>1 DEF IInv, WorkOK
  <2> QED
    BY <2>2, ReportedOfNone
<1> QED
  BY <1>1, <1>2

-----------------------------------------------------------------------------
(* The world around the sweep                                              *)

LEMMA ContentFields ==
  /\ \A c \in Contents : c.of \in 1..N /\ c # NoContent
  /\ \A f \in Files : f.of \in 1..N /\ f # NoFile
<1>1. Contents \subseteq [of : 1..N, version : Nat] /\ Files \subseteq [of : 1..N, text : Nat]
  BY SweepAssumption
<1>2. NoContent.of = 0 /\ NoFile.of = 0
  BY DEF NoContent, NoFile
<1> QED
  BY <1>1, <1>2

(* What clang makes of a source is named after it.                         *)
LEMMA OutputOf ==
  ASSUME NEW c \in Contents, NEW h \in Headers
  PROVE  Clang[c][h] \in File /\ (Clang[c][h] # NoFile => Clang[c][h] \in Files /\ Clang[c][h].of = c.of)
<1>1. Clang[c][h] \in Files \cup {NoFile}
  BY SweepAssumption
<1>2. Clang[c][h] # NoFile => Clang[c][h].of = c.of
  BY SweepAssumption
<1> QED
  BY <1>1, <1>2 DEF File

LEMMA InitOK == ASSUME Init PROVE IInv
<1> USE DEF Init
<1>1. TypeOK
  <2>1. source \in [1..N -> Contents] /\ ll \in [Stems -> File] /\ past \in [1..N -> SUBSET Contents]
    BY DEF File
  <2>2. results \in Seq(Record \cup {Torn}) /\ baseline \in Seq(Record \cup {Torn}) /\ records \in Seq(Record)
    BY EmptySeq
  <2>3. files \in Seq(Stems) /\ work \in Seq([file : Stems, fn : Names]) /\ todo \in Seq(1..Len(work))
    BY EmptySeq
  <2>4. Cardinality(running) <= Jobs
    BY FS_EmptySet, SweepAssumption
  <2> QED
    BY <2>1, <2>2, <2>3, <2>4, SweepAssumption DEF TypeOK, Content
<1>2. SourcesSeen = 0 /\ FilesSeen = 0 /\ WorkSeen = 0
  BY DEF SourcesSeen, FilesSeen, WorkSeen
<1>3. Control /\ BuildKept
  BY <1>2, FS_EmptySet, SweepAssumption DEF Control, Compiling, BuildKept
<1>4. FilesOfSources /\ StampsTrue
  <2>1. \A c \in 1..N : stem[c] \in Stems
    BY DEF Stems
  <2>2. KeyTrue /\ \A c \in 1..N : StampOf(c) /\ FileAsStamped(c) /\ FileAsNew(c)
    BY <2>1 DEF KeyTrue, StampOf, FileAsStamped, FileAsNew
  <2> QED
    BY <2>1, <2>2 DEF FilesOfSources, StampsTrue
<1>5. RecordsHonest /\ WorkCompiled /\ Written
  BY DEF RecordsHonest, WorkCompiled, Written
<1>6. \A O, want : Reported({}, << >>, O, want)
  BY EmptyLines, ReportedNone
<1>7. 1..0 = {}
  OBVIOUS
<1>8. SourcesOK
  <2>1. Placed({})
    BY <1>7, BijectionEmpty DEF Placed
  <2> QED
    BY <1>2, <1>6, <1>7, <2>1 DEF SourcesOK
<1>9. FilesOK
  BY <1>2, <1>6 DEF FilesOK, Bare
<1>10. ListingOK
  <2>1. ListedTo(FilesSeen) = {}
    BY <1>2 DEF ListedTo
  <2> QED
    BY <2>1, <1>7, BijectionEmpty DEF ListingOK
<1>11. WorkOK
  <2>1. Items = {} /\ Pending = {} /\ WorkDone = {}
    BY <1>2 DEF Items, Pending, WorkDone
  <2> QED
    BY <1>6, <2>1 DEF WorkOK
<1> QED
  BY <1>1, <1>3, <1>4, <1>5, <1>8, <1>9, <1>10, <1>11 DEF IInv

(* A sweep that ends, by itself or not                                     *)
LEMMA ForgetKeeps ==
  ASSUME IInv, Forget, UNCHANGED <<stem, source, headers, binary, ll, stamp, sweeps, cap, past, tainted>>,
         disturbed' = IF pc = "stamp" THEN disturbed \cup {stem[next]} ELSE disturbed,
         results' = results \/ results' = Append(results, Torn)
  PROVE  IInv'
<1> USE DEF Forget
<1>1. TypeOK'
  <2>1. results' \in Seq(Record \cup {Torn})
    <3>1. PICK R : R = Record \cup {Torn}
      OBVIOUS
    <3>2. results \in Seq(R) /\ Torn \in R
      BY <3>1 DEF IInv, TypeOK
    <3>3. Append(results, Torn) \in Seq(R)
      BY <3>2, AppendProperties
    <3> QED
      BY <3>1, <3>2, <3>3
  <2>2. baseline' \in Seq(Record \cup {Torn}) /\ records' \in Seq(Record)
    BY EmptySeq
  <2>3. files' \in Seq(Stems) /\ work' \in Seq([file : Stems, fn : Names]) /\ todo' \in Seq(1..Len(work'))
    BY EmptySeq
  <2>4. Cardinality(running') <= Jobs
    BY FS_EmptySet, SweepAssumption
  <2>5. /\ (stem \in Layouts)' /\ (source \in [1..N -> Contents])' /\ (headers \in Headers)'
        /\ (past \in [1..N -> SUBSET Contents])' /\ (tainted \subseteq Builds)'
        /\ (binary \in Builds)' /\ (hashed \in Builds \cup {0})'
        /\ (ll \in [Stems -> File])' /\ (stamp \in [Stems -> Content])'
        /\ (sweeps \in 0..MaxSweeps)' /\ (cap \in Caps)'
    BY DEF IInv, TypeOK
  <2>6. disturbed' \subseteq Stems
    <3>1. pc = "stamp" => next \in 1..N
      BY DEF IInv, TypeOK, Control
    <3>2. pc = "stamp" => stem[next] \in Stems
      BY <3>1 DEF IInv, TypeOK, Stems
    <3> QED
      BY <3>2 DEF IInv, TypeOK
  <2> QED
    BY <2>1, <2>2, <2>3, <2>4, <2>5, <2>6 DEF TypeOK, Content
<1>2. SourcesSeen' = 0 /\ FilesSeen' = 0 /\ WorkSeen' = 0
  BY DEF SourcesSeen, FilesSeen, WorkSeen
<1>3. Control' /\ BuildKept'
  BY <1>2, FS_EmptySet, SweepAssumption DEF Control, Compiling, BuildKept
<1>4. FilesOfSources' /\ StampsTrue'
  <2>1. FilesOfSources'
    BY DEF IInv, FilesOfSources
  <2>2. ASSUME DistinctStems, NEW c \in 1..N
        PROVE  (StampOf(c) /\ FileAsStamped(c) /\ FileAsNew(c))'
    <3>1. StampOf(c) /\ FileAsStamped(c) /\ FileAsNew(c)
      BY <2>2 DEF IInv, StampsTrue
    <3>2. CASE pc = "stamp" /\ c = next
      BY <3>1, <3>2 DEF StampOf, FileAsStamped, FileAsNew, MadeFrom
    <3>3. CASE ~ (pc = "stamp" /\ c = next)
      BY <3>1, <3>3 DEF StampOf, FileAsStamped, FileAsNew, MadeFrom
    <3> QED
      BY <3>2, <3>3
  <2>3. KeyTrue'
    BY DEF KeyTrue
  <2> QED
    BY <2>1, <2>2, <2>3 DEF IInv, StampsTrue, DistinctStems
<1>5. RecordsHonest'
  <2>1. Honest(Torn)'
    BY DEF Honest, Torn, Checked
  <2>2. Len(results) \in Nat /\ IsList(results)
    BY SeqIsList, LenProperties DEF IInv, TypeOK
  <2>3. \A i \in 1..Len(results) : Honest(results[i])'
    BY DEF IInv, RecordsHonest, Honest
  <2> QED
    BY <2>1, <2>2, <2>3, ListAppend DEF RecordsHonest, Honest
<1>6. WorkCompiled' /\ Written'
  BY DEF WorkCompiled, Written
<1>7. \A O : LinesOf(records', O) = {}
  BY EmptyLines
<1> QED
  BY <1>1, <1>2, <1>3, <1>4, <1>5, <1>6, <1>7, SourcesNone, FilesNone, ListingNone, WorkNone DEF IInv

LEMMA EditStep ==
  ASSUME IInv, NEW c \in 1..N, Edit(c)
  PROVE  IInv'
<1> USE DEF memory
<1>1. PICK new \in Contents : new # source[c] /\ new.of = c /\ source' = [source EXCEPT ![c] = new]
  BY DEF Edit
<1>2. /\ past' = [past EXCEPT ![c] = @ \cup {source[c]}]
      /\ disturbed' = IF pc = "clang" /\ c = next THEN disturbed \cup {stem[c]} ELSE disturbed
      /\ UNCHANGED <<stem, headers, binary, ll, stamp, results, sweeps, cap, baseline, pc, memory, tainted>>
  BY DEF Edit
<1>3. source \in [1..N -> Contents] /\ past \in [1..N -> SUBSET Contents] /\ stem[c] \in Stems
  BY DEF IInv, TypeOK, Stems
<1>4. TypeOK'
  <2>1. source' \in [1..N -> Contents] /\ past' \in [1..N -> SUBSET Contents] /\ disturbed' \subseteq Stems
    <3>1. source' \in [1..N -> Contents]
      BY <1>1, <1>3
    <3>2. PICK before : before = past[c] \cup {source[c]}
      OBVIOUS
    <3>3. before \in SUBSET Contents /\ past' = [past EXCEPT ![c] = before]
      BY <1>2, <1>3, <3>2
    <3>4. past' \in [1..N -> SUBSET Contents]
      BY <1>3, <3>3
    <3>5. disturbed' \subseteq Stems
      BY <1>2, <1>3 DEF IInv, TypeOK
    <3> QED
      BY <3>1, <3>4, <3>5
  <2> QED
    BY <1>2, <2>1 DEF IInv, TypeOK
<1>5. SourcesSeen' = SourcesSeen /\ FilesSeen' = FilesSeen /\ WorkSeen' = WorkSeen /\ Compiling' = Compiling
  BY <1>2 DEF SourcesSeen, FilesSeen, WorkSeen, Compiling
<1>6. Control' /\ BuildKept'
  BY <1>2, <1>5 DEF IInv, Control, BuildKept
<1>7. FilesOfSources'
  BY <1>2 DEF IInv, FilesOfSources
<1>8. StampsTrue'
  <2>1. /\ source'[c] = new /\ past'[c] = past[c] \cup {source[c]} /\ new # NoContent
        /\ \A d \in 1..N : d # c => source'[d] = source[d] /\ past'[d] = past[d]
    BY <1>1, <1>2, <1>3, ContentFields
  <2>2. \A d \in 1..N : source'[d].of = d
    BY <1>1, <2>1 DEF IInv, StampsTrue
  <2>3. ASSUME DistinctStems, NEW d \in 1..N
        PROVE  (StampOf(d) /\ FileAsStamped(d) /\ FileAsNew(d))'
    <3>1. StampOf(d) /\ FileAsStamped(d) /\ FileAsNew(d)
      BY <2>3 DEF IInv, StampsTrue
    <3>2. StampOf(d)'
      BY <1>2, <2>1, <3>1 DEF StampOf
    <3>3. FileAsStamped(d)'
      BY <1>2, <3>1 DEF FileAsStamped, MadeFrom
    <3>4. FileAsNew(d)'
      <4>1. CASE d # c
        BY <1>2, <2>1, <3>1, <4>1 DEF FileAsNew, MadeFrom
      <4>2. CASE d = c
        <5>1. new \in past'[c] \/ stamp[stem[c]] # new
          BY <1>1, <2>1, <3>1, <4>2 DEF StampOf
        <5> QED
          BY <1>2, <2>1, <4>2, <5>1 DEF FileAsNew
      <4> QED
        BY <4>1, <4>2
    <3> QED
      BY <3>2, <3>3, <3>4
  <2>4. ASSUME DistinctStems
        PROVE  KeyTrue'
    <3>1. KeyTrue
      BY <2>4 DEF IInv, StampsTrue
    <3>2. pc \in {"clang", "stamp"} => next \in 1..N
      BY DEF IInv, TypeOK, Control
    <3>3. CASE next = c
      <4>1. pc \in {"clang", "stamp"} => key \in Contents /\ key \in past[c] \cup {source[c]}
        BY <3>1, <3>3 DEF KeyTrue
      <4>2. pc \in {"clang", "stamp"} => key \in past'[c]
        BY <4>1, <2>1
      <4> QED
        BY <1>2, <2>1, <3>1, <3>3, <4>1, <4>2 DEF KeyTrue, Stem, MadeFrom
    <3>4. CASE next # c
      BY <1>2, <2>1, <3>1, <3>2, <3>4 DEF KeyTrue, Stem, MadeFrom
    <3> QED
      BY <3>3, <3>4
  <2>5. DistinctStems' = DistinctStems
    BY <1>2 DEF DistinctStems
  <2> QED
    BY <2>2, <2>3, <2>4, <2>5 DEF StampsTrue
<1>9. RecordsHonest' /\ WorkCompiled' /\ Written'
  BY <1>2 DEF IInv, RecordsHonest, Honest, WorkCompiled, Written
<1> QED
  BY <1>2, <1>4, <1>5, <1>6, <1>7, <1>8, <1>9, SourcesFrame, FilesFrame, ListingFrame, WorkFrame DEF IInv

LEMMA EditHeadersStep ==
  ASSUME IInv, EditHeaders
  PROVE  IInv'
<1> USE DEF EditHeaders, memory, history
<1>1. TypeOK'
  BY DEF IInv, TypeOK
<1>2. SourcesSeen' = SourcesSeen /\ FilesSeen' = FilesSeen /\ WorkSeen' = WorkSeen /\ Compiling' = Compiling
  BY DEF SourcesSeen, FilesSeen, WorkSeen, Compiling
<1>3. Control' /\ BuildKept'
  BY <1>2 DEF IInv, Control, BuildKept
<1>4. FilesOfSources' /\ StampsTrue'
  BY DiskFrame DEF IInv
<1>5. RecordsHonest' /\ WorkCompiled' /\ Written'
  BY DEF IInv, RecordsHonest, Honest, WorkCompiled, Written
<1> QED
  BY <1>1, <1>2, <1>3, <1>4, <1>5, SourcesFrame, FilesFrame, ListingFrame, WorkFrame DEF IInv

LEMMA RebuildStep ==
  ASSUME IInv, Rebuild
  PROVE  IInv'
<1> USE DEF Rebuild, memory
<1>1. TypeOK'
  BY DEF IInv, TypeOK
<1>2. SourcesSeen' = SourcesSeen /\ FilesSeen' = FilesSeen /\ WorkSeen' = WorkSeen /\ Compiling' = Compiling
  BY DEF SourcesSeen, FilesSeen, WorkSeen, Compiling
<1>3. Control'
  BY <1>2 DEF IInv, Control
<1>4. BuildKept'
  BY DEF IInv, BuildKept
<1>5. FilesOfSources' /\ StampsTrue'
  BY DiskFrame DEF IInv
<1>6. RecordsHonest'
  <2>1. tainted \subseteq tainted'
    OBVIOUS
  <2>2. \A r : Honest(r) => Honest(r)'
    BY <2>1 DEF Honest
  <2> QED
    BY <2>2 DEF IInv, RecordsHonest
<1>7. WorkCompiled' /\ Written'
  BY DEF IInv, WorkCompiled, Written
<1>8. WorkOK'
  <2>1. CASE hashed # 0
    BY <1>2, <2>1, WorkFrame DEF IInv
  <2>2. CASE hashed = 0
    <3>1. WorkSeen = 0
      BY <2>2 DEF IInv, Control
    <3>2. LinesOf(records', Checked) = {}
      BY <3>1, NothingYet
    <3>3. Reported({}, records', Checked, ForWork')
      BY <3>2, ReportedNone
    <3>4. WorkDone' = {} /\ Pending' = Pending /\ Items' = Items
      BY <1>2, <3>1 DEF WorkDone, Pending, Items
    <3>5. Reported(WorkDone', records', Checked, ForWork')
      BY <3>3, <3>4
    <3> QED
      BY <1>2, <3>4, <3>5 DEF IInv, WorkOK, Checked
  <2> QED
    BY <2>1, <2>2
<1> QED
  BY <1>1, <1>2, <1>3, <1>4, <1>5, <1>6, <1>7, <1>8, SourcesFrame, FilesFrame, ListingFrame DEF IInv

LEMMA BeginStep ==
  ASSUME IInv, Begin
  PROVE  IInv'
<1> USE DEF Begin, memory, disk, history
<1>1. TypeOK'
  <2>1. baseline' \in Seq(Record \cup {Torn})
    BY EmptySeq DEF IInv, TypeOK
  <2>2. sweeps' \in 0..MaxSweeps
    BY SweepAssumption DEF IInv, TypeOK
  <2> QED
    BY <2>1, <2>2 DEF IInv, TypeOK
<1>2. SourcesSeen' = SourcesSeen /\ FilesSeen' = FilesSeen /\ WorkSeen' = WorkSeen /\ SourcesSeen = 0
  BY DEF SourcesSeen, FilesSeen, WorkSeen, Compiling, IInv, Control
<1>3. Control' /\ BuildKept'
  BY <1>2 DEF IInv, Control, Compiling, BuildKept
<1>4. FilesOfSources' /\ StampsTrue'
  BY DiskFrame DEF IInv
<1>5. RecordsHonest'
  <2>1. \A i \in 1..Len(baseline') : Honest(baseline'[i])
    BY DEF IInv, RecordsHonest
  <2> QED
    BY <2>1 DEF IInv, RecordsHonest, Honest
<1>6. WorkCompiled' /\ Written'
  BY DEF IInv, WorkCompiled, Written
<1> QED
  BY <1>1, <1>2, <1>3, <1>4, <1>5, <1>6, SourcesFrame, FilesFrame, ListingFrame, WorkFrame DEF IInv

LEMMA InterruptStep ==
  ASSUME IInv, Interrupt
  PROVE  IInv'
BY ForgetKeeps DEF Interrupt

LEMMA ExitStep ==
  ASSUME IInv, Exit, pc # "stamp"
  PROVE  IInv'
BY ForgetKeeps DEF Exit, disk, history

LEMMA NoKeyType == NoKey \in Key
BY DEF NoKey, Key, File, Name

(* What an error is reported as                                            *)
LEMMA ErrorRecordType ==
  ASSUME NEW file \in Stems \cup 1..N, NEW outcome \in {"compile-error", "input-error"}
  PROVE  /\ ErrorRecord(file, outcome) \in Record
         /\ ErrorRecord(file, outcome).outcome = outcome
         /\ ErrorRecord(file, outcome).key = NoKey
         /\ ErrorRecord(file, outcome).file = file
         /\ ErrorRecord(file, outcome).fn = NoName
         /\ ErrorRecord(file, outcome).of = NoKey
BY NoKeyType DEF ErrorRecord, Record, Name

-----------------------------------------------------------------------------
(* Compiling                                                               *)

(* A source has its file.                                                  *)
LEMMA SourcePlaced ==
  ASSUME IInv, Compiling, next <= N, pc' = "compile", next' = next + 1,
         files' = Append(files, stem[next]), UNCHANGED <<stem, records>>
  PROVE  SourcesOK'
<1>1. SourcesSeen = next - 1 /\ SourcesSeen' = next /\ next \in Nat \ {0}
  BY DEF IInv, TypeOK, SourcesSeen, Compiling
<1>2. PICK failed \in SUBSET (1..SourcesSeen) :
        /\ Reported(failed, records, {"compile-error"}, ForSources)
        /\ Placed((1..SourcesSeen) \ failed)
  BY DEF IInv, SourcesOK
<1>3. PICK S, T, x, y : /\ S = (1..SourcesSeen) \ failed /\ T = 1..Len(files)
                        /\ x = next /\ y = Len(files) + 1
  OBVIOUS
<1>4. PICK place \in Bijection(S, T) : \A c \in S : files[place[c]] = stem[c]
  BY <1>2, <1>3 DEF Placed
<1>5. IsList(files) /\ Len(files) \in Nat
  BY SeqIsList, LenProperties DEF IInv, TypeOK
<1>6. x \notin S /\ y \notin T
  BY <1>1, <1>3, <1>5
<1>7. PICK new \in Bijection(With(S, x), With(T, y)) : new[x] = y /\ \A c \in S : new[c] = place[c]
  BY <1>6, BijectionAdd
<1>8. /\ \A i \in T : files'[i] = files[i]
      /\ files'[y] = stem[x] /\ Len(files') = y
  BY <1>3, <1>5, ListAppend
<1>9. With(S, x) = (1..SourcesSeen') \ failed /\ With(T, y) = 1..Len(files')
  <2>1. With(S, x) = (1..SourcesSeen') \ failed
    BY <1>1, <1>3 DEF With
  <2>2. With(T, y) = 1..Len(files')
    BY <1>3, <1>5, <1>8 DEF With
  <2> QED
    BY <2>1, <2>2
<1>10. \A c \in With(S, x) : files'[new[c]] = stem'[c]
  <2>1. \A c \in S : place[c] \in T
    BY <1>4 DEF Bijection, Injection
  <2> QED
    BY <2>1, <1>4, <1>7, <1>8 DEF With
<1>11. Placed((1..SourcesSeen) \ failed)'
  BY <1>7, <1>9, <1>10 DEF Placed
<1>12. Reported(failed, records, {"compile-error"}, ForSources)'
  BY <1>2 DEF ForSources
<1>13. failed \in SUBSET (1..SourcesSeen')
  BY <1>1
<1> QED
  BY <1>11, <1>12, <1>13 DEF SourcesOK

(* A source has its error.                                                 *)
LEMMA SourceFailed ==
  ASSUME IInv, Compiling, next <= N, pc' = "compile", next' = next + 1,
         records' = Append(records, ErrorRecord(next, "compile-error")), UNCHANGED <<stem, files>>
  PROVE  SourcesOK'
<1>1. SourcesSeen = next - 1 /\ SourcesSeen' = next /\ next \in 1..N
  BY SweepAssumption DEF IInv, TypeOK, SourcesSeen, Compiling
<1>2. PICK failed \in SUBSET (1..SourcesSeen) :
        /\ Reported(failed, records, {"compile-error"}, ForSources)
        /\ Placed((1..SourcesSeen) \ failed)
  BY DEF IInv, SourcesOK
<1>3. PICK O, r, x : O = {"compile-error"} /\ r = ErrorRecord(next, "compile-error") /\ x = next
  OBVIOUS
<1>4. Reported(With(failed, x), Append(records, r), O, ForSources)
  <2>1. IsList(records)
    BY SeqIsList DEF IInv, TypeOK
  <2>2. x \notin failed /\ r.outcome \in O
    <3>1. r.outcome = "compile-error"
      BY <1>3 DEF ErrorRecord
    <3>2. x \notin 1..SourcesSeen
      BY <1>1, <1>3
    <3> QED
      BY <1>3, <3>1, <3>2
  <2>3. ForSources[x] = Want(r.file, r.fn, r.key)
    <3>1. r.file = x /\ r.fn = NoName /\ r.key = NoKey
      BY <1>3 DEF ErrorRecord
    <3>2. ForSources[x] = Want(x, NoName, NoKey)
      BY <1>1, <1>3 DEF ForSources
    <3> QED
      BY <3>1, <3>2
  <2>4. Reported(failed, records, O, ForSources)
    BY <1>2, <1>3
  <2> QED
    BY <2>1, <2>2, <2>3, <2>4, ReportedMore
<1>5. (1..SourcesSeen') \ With(failed, x) = (1..SourcesSeen) \ failed
  BY <1>1, <1>3 DEF With
<1>6. Placed((1..SourcesSeen) \ With(failed, x))'
  BY <1>2, <1>5 DEF Placed
<1>7. With(failed, x) \in SUBSET (1..SourcesSeen')
  BY <1>1, <1>3 DEF With
<1>8. Reported(With(failed, x), records, {"compile-error"}, ForSources)'
  BY <1>3, <1>4 DEF ForSources
<1> QED
  BY <1>6, <1>7, <1>8 DEF SourcesOK

LEMMA CompileFacts ==
  ASSUME IInv, Compiling
  PROVE  /\ SourcesSeen = next - 1 /\ FilesSeen = 0 /\ WorkSeen = 0
         /\ work = << >> /\ todo = << >> /\ running = {}
         /\ next \in 1..(N + 1) /\ stem \in Layouts
         /\ LinesOf(records, {"input-error"}) = {} /\ LinesOf(records, Checked) = {}
<1>1. SourcesSeen = next - 1 /\ FilesSeen = 0 /\ WorkSeen = 0
  BY DEF IInv, TypeOK, SourcesSeen, FilesSeen, WorkSeen, Compiling
<1>2. work = << >> /\ todo = << >> /\ running = {} /\ stem \in Layouts
  BY DEF IInv, TypeOK, Control, Compiling
<1>3. next \in 1..(N + 1)
  BY <1>1, SweepAssumption DEF IInv, TypeOK, Control
<1> QED
  BY <1>1, <1>2, <1>3, NothingYet

LEMMA StemType ==
  ASSUME IInv, NEW c \in 1..N
  PROVE  stem[c] \in Stems /\ source[c] \in Contents /\ source[c].of = c
<1>1. stem[c] \in Stems
  BY DEF IInv, TypeOK, Stems
<1>2. source[c] \in Contents
  BY DEF IInv, TypeOK
<1>3. source[c].of = c
  BY DEF IInv, StampsTrue
<1> QED
  BY <1>1, <1>2, <1>3

LEMMA CheckStampStep ==
  ASSUME IInv, CheckStamp
  PROVE  IInv'
<1> USE DEF CheckStamp, disk, history, Stem
<1>1. Compiling /\ next \in 1..N
  BY DEF Compiling, IInv, TypeOK
<1>2. stem[next] \in Stems /\ source[next] \in Contents /\ source[next].of = next
  BY <1>1, StemType
<1>3. /\ SourcesSeen = next - 1 /\ FilesSeen = 0 /\ WorkSeen = 0
      /\ work = << >> /\ todo = << >> /\ running = {}
      /\ LinesOf(records, {"input-error"}) = {} /\ LinesOf(records, Checked) = {}
  BY <1>1, CompileFacts
<1>4. TypeOK'
  <2>1. Append(files, stem[next]) \in Seq(Stems)
    BY <1>2, AppendProperties DEF IInv, TypeOK
  <2>2. next' \in Nat \ {0} /\ key' \in Content
    BY <1>2 DEF IInv, TypeOK, Content
  <2> QED
    BY <2>1, <2>2 DEF IInv, TypeOK
<1>5. FilesSeen' = 0 /\ WorkSeen' = 0 /\ Compiling' /\ SourcesSeen' = next' - 1 /\ next' <= N + 1
  <2>1. pc' \in {"compile", "clang"} /\ next' \in {next, next + 1}
    OBVIOUS
  <2>2. FilesSeen' = 0 /\ WorkSeen' = 0 /\ Compiling' /\ SourcesSeen' = next' - 1
    BY <2>1 DEF FilesSeen, WorkSeen, SourcesSeen, Compiling
  <2>3. N \in Nat
    BY SweepAssumption
  <2>4. next' <= N + 1
    BY <1>1, <2>1, <2>3
  <2> QED
    BY <2>2, <2>4
<1>6. Control' /\ BuildKept'
  <2>1. Len(files') \in Nat
    BY <1>4, LenProperties DEF TypeOK
  <2>2. SourcesSeen' <= N
    BY <1>1, <1>5, SweepAssumption
  <2> QED
    BY <1>1, <1>3, <1>5, <2>1, <2>2 DEF IInv, Control, Compiling, BuildKept
<1>7. FilesOfSources' /\ StampsTrue'
  <2>1. FilesOfSources'
    BY DEF IInv, FilesOfSources
  <2>2. ASSUME DistinctStems, NEW c \in 1..N
        PROVE  (StampOf(c) /\ FileAsStamped(c) /\ FileAsNew(c))'
    BY <2>2 DEF IInv, StampsTrue, StampOf, FileAsStamped, FileAsNew, MadeFrom
  <2>3. KeyTrue'
    BY <1>2 DEF KeyTrue
  <2> QED
    BY <2>1, <2>2, <2>3 DEF IInv, StampsTrue, DistinctStems
<1>8. RecordsHonest' /\ WorkCompiled' /\ Written'
  BY <1>1 DEF IInv, RecordsHonest, Honest, WorkCompiled, Written, Compiling
<1>9. SourcesOK'
  <2>1. CASE files' = Append(files, stem[next]) /\ next' = next + 1 /\ pc' = pc
    BY <2>1, <1>1, SourcePlaced
  <2>2. CASE pc' = "clang" /\ UNCHANGED <<files, next>>
    BY <2>2, <1>3, <1>5, SourcesFrame DEF IInv
  <2> QED
    BY <2>1, <2>2
<1> QED
  BY <1>3, <1>4, <1>5, <1>6, <1>7, <1>8, <1>9, FilesNone, ListingNone, WorkNone DEF IInv

LEMMA CompileErrorStep ==
  ASSUME IInv, CompileError
  PROVE  IInv'
<1> USE DEF CompileError, history, Stem
<1>1. Compiling /\ next \in 1..N
  BY DEF Compiling, IInv, TypeOK, Control
<1>2. stem[next] \in Stems /\ source[next] \in Contents /\ source[next].of = next
  BY <1>1, StemType
<1>3. /\ SourcesSeen = next - 1 /\ FilesSeen = 0 /\ WorkSeen = 0
      /\ work = << >> /\ todo = << >> /\ running = {}
      /\ LinesOf(records, {"input-error"}) = {} /\ LinesOf(records, Checked) = {}
  BY <1>1, CompileFacts
<1>4. PICK r : r = ErrorRecord(next, "compile-error")
  OBVIOUS
<1>5. r \in Record /\ r.outcome = "compile-error" /\ r.key = NoKey
  BY <1>1, <1>4, ErrorRecordType
<1>6. TypeOK'
  <2>1. records' \in Seq(Record)
    BY <1>4, <1>5, AppendProperties DEF IInv, TypeOK
  <2>2. ll' \in [Stems -> File]
    BY DEF IInv, TypeOK, File
  <2>3. next' \in Nat \ {0}
    BY DEF IInv, TypeOK
  <2> QED
    BY <2>1, <2>2, <2>3 DEF IInv, TypeOK
<1>7. FilesSeen' = 0 /\ WorkSeen' = 0 /\ Compiling' /\ SourcesSeen' = next' - 1 /\ next' <= N + 1
  <2>1. pc' \in {"compile", "clang"} /\ next' \in {next, next + 1}
    OBVIOUS
  <2> QED
    BY <1>1, <2>1, SweepAssumption DEF FilesSeen, WorkSeen, SourcesSeen, Compiling
<1>8. Control' /\ BuildKept'
  <2>1. Len(files') \in Nat
    BY <1>6, LenProperties DEF TypeOK
  <2>2. SourcesSeen' <= N
    BY <1>1, <1>7, SweepAssumption
  <2> QED
    BY <1>1, <1>3, <1>7, <2>1, <2>2 DEF IInv, Control, Compiling, BuildKept
<1>9. FilesOfSources' /\ StampsTrue'
  <2>1. \A s \in Stems : ll'[s] # NoFile => ll'[s] = ll[s]
    BY DEF IInv, TypeOK
  <2>2. FilesOfSources'
    BY <2>1 DEF IInv, FilesOfSources
  <2>3. \A c \in 1..N : stem[c] \in Stems
    BY StemType
  <2>4. ASSUME DistinctStems, NEW c \in 1..N
        PROVE  (StampOf(c) /\ FileAsStamped(c) /\ FileAsNew(c))'
    BY <2>1, <2>3, <2>4 DEF IInv, StampsTrue, StampOf, FileAsStamped, FileAsNew, MadeFrom
  <2>5. KeyTrue'
    BY DEF KeyTrue
  <2> QED
    BY <2>2, <2>4, <2>5 DEF IInv, StampsTrue, DistinctStems
<1>10. IsList(records)
  BY SeqIsList DEF IInv, TypeOK
<1>11. RecordsHonest'
  <2>1. Honest(r)'
    BY <1>5 DEF Honest, Checked
  <2>2. \A i \in 1..Len(records) : Honest(records[i])'
    BY DEF IInv, RecordsHonest, Honest
  <2>3. \A i \in 1..Len(records') : Honest(records[i])'
    BY <1>4, <1>10, <2>1, <2>2, ListAppend DEF Honest, IsList
  <2> QED
    BY <2>3 DEF IInv, RecordsHonest, Honest
<1>12. WorkCompiled' /\ Written'
  BY <1>3 DEF IInv, WorkCompiled, Written
<1>13. LinesOf(records', {"input-error"}) = {} /\ LinesOf(records', Checked) = {}
  <2>1. PICK O : O = {"input-error"}
    OBVIOUS
  <2>2. r.outcome \notin O /\ r.outcome \notin Checked
    BY <1>5, <2>1 DEF Checked
  <2>3. LinesOf(Append(records, r), O) = LinesOf(records, O)
    BY <1>10, <2>2, LinesAppend
  <2>4. LinesOf(Append(records, r), Checked) = LinesOf(records, Checked)
    BY <1>10, <2>2, LinesAppend
  <2> QED
    BY <1>3, <1>4, <2>1, <2>3, <2>4
<1>14. SourcesOK'
  BY <1>1, SourceFailed
<1> QED
  BY <1>3, <1>6, <1>7, <1>8, <1>9, <1>11, <1>12, <1>13, <1>14, FilesNone, ListingNone, WorkNone DEF IInv

LEMMA CompiledStep ==
  ASSUME IInv, Compiled
  PROVE  IInv'
<1> USE DEF Compiled, memory, history, Stem
<1>1. Compiling /\ next \in 1..N
  BY DEF Compiling, IInv, TypeOK, Control
<1>2. stem[next] \in Stems /\ source[next] \in Contents /\ source[next].of = next
  BY <1>1, StemType
<1>3. /\ SourcesSeen = next - 1 /\ FilesSeen = 0 /\ WorkSeen = 0
      /\ work = << >> /\ todo = << >> /\ running = {}
      /\ LinesOf(records, {"input-error"}) = {} /\ LinesOf(records, Checked) = {}
  BY <1>1, CompileFacts
<1>0. Output \in Files /\ Output.of = next /\ MadeFrom(Output, source[next])
  BY <1>2, OutputOf DEF Output, MadeFrom, IInv, TypeOK
<1>4. TypeOK'
  <2>1. ll' \in [Stems -> File]
    BY <1>0 DEF IInv, TypeOK, File
  <2> QED
    BY <2>1 DEF IInv, TypeOK
<1>5. FilesSeen' = 0 /\ WorkSeen' = 0 /\ SourcesSeen' = SourcesSeen /\ Compiling'
  BY <1>3 DEF FilesSeen, WorkSeen, SourcesSeen, Compiling
<1>6. Control' /\ BuildKept'
  BY <1>1, <1>3, <1>5 DEF IInv, Control, Compiling, BuildKept
<1>7. FilesOfSources'
  <2>1. stem[Output.of] = stem[next]
    BY <1>0
  <2>2. ll'[stem[next]] = Output /\ \A s \in Stems : s # stem[next] => ll'[s] = ll[s]
    BY <1>2 DEF IInv, TypeOK
  <2> QED
    BY <2>1, <2>2 DEF IInv, FilesOfSources
<1>8. StampsTrue'
  <2>1. ll'[stem[next]] = Output /\ \A s \in Stems : s # stem[next] => ll'[s] = ll[s]
    BY <1>2 DEF IInv, TypeOK
  <2>2. \A c \in 1..N : stem[c] \in Stems
    BY StemType
  <2>3. ASSUME DistinctStems, NEW c \in 1..N
        PROVE  (StampOf(c) /\ FileAsStamped(c) /\ FileAsNew(c))'
    <3>1. StampOf(c) /\ FileAsStamped(c) /\ FileAsNew(c)
      BY <2>3 DEF IInv, StampsTrue
    <3>2. CASE c = next
      BY <1>0, <2>1, <3>1, <3>2 DEF StampOf, FileAsStamped, FileAsNew, MadeFrom
    <3>3. CASE c # next
      <4>1. ll'[stem[c]] = ll[stem[c]]
        BY <1>1, <2>1, <2>2, <2>3, <3>3 DEF DistinctStems
      <4> QED
        BY <3>1, <3>3, <4>1 DEF StampOf, FileAsStamped, FileAsNew, MadeFrom
    <3> QED
      BY <3>2, <3>3
  <2>4. ASSUME DistinctStems
        PROVE  KeyTrue'
    <3>1. KeyTrue
      BY <2>4 DEF IInv, StampsTrue
    <3> QED
      BY <1>0, <2>1, <3>1 DEF KeyTrue, MadeFrom
  <2> QED
    BY <2>3, <2>4 DEF IInv, StampsTrue, DistinctStems
<1>9. RecordsHonest' /\ WorkCompiled' /\ Written'
  BY <1>3 DEF IInv, RecordsHonest, Honest, WorkCompiled, Written
<1> QED
  BY <1>3, <1>4, <1>5, <1>6, <1>7, <1>8, <1>9, SourcesFrame, FilesNone, ListingNone, WorkNone DEF IInv

LEMMA WriteStampStep ==
  ASSUME IInv, WriteStamp
  PROVE  IInv'
<1> USE DEF WriteStamp, history, Stem
<1>1. Compiling /\ next \in 1..N
  BY DEF Compiling, IInv, TypeOK, Control
<1>2. stem[next] \in Stems /\ source[next] \in Contents /\ source[next].of = next
  BY <1>1, StemType
<1>3. /\ SourcesSeen = next - 1 /\ FilesSeen = 0 /\ WorkSeen = 0
      /\ work = << >> /\ todo = << >> /\ running = {}
      /\ LinesOf(records, {"input-error"}) = {} /\ LinesOf(records, Checked) = {}
  BY <1>1, CompileFacts
<1>4. TypeOK'
  <2>1. Append(files, stem[next]) \in Seq(Stems)
    BY <1>2, AppendProperties DEF IInv, TypeOK
  <2>2. next' \in Nat \ {0} /\ stamp' \in [Stems -> Content]
    BY <1>2 DEF IInv, TypeOK, Content
  <2> QED
    BY <2>1, <2>2 DEF IInv, TypeOK
<1>5. FilesSeen' = 0 /\ WorkSeen' = 0 /\ Compiling' /\ SourcesSeen' = next' - 1 /\ next' <= N + 1
  <2>1. pc' \in {"compile", "clang"} /\ next' \in {next, next + 1}
    OBVIOUS
  <2> QED
    BY <1>1, <2>1, SweepAssumption DEF FilesSeen, WorkSeen, SourcesSeen, Compiling
<1>6. Control' /\ BuildKept'
  <2>1. Len(files') \in Nat
    BY <1>4, LenProperties DEF TypeOK
  <2>2. SourcesSeen' <= N
    BY <1>1, <1>5, SweepAssumption
  <2> QED
    BY <1>1, <1>3, <1>5, <2>1, <2>2 DEF IInv, Control, Compiling, BuildKept
<1>7. FilesOfSources'
  BY DEF IInv, FilesOfSources
<1>8. StampsTrue'
  <2>1. stamp'[stem[next]] = key /\ \A s \in Stems : s # stem[next] => stamp'[s] = stamp[s]
    BY <1>2 DEF IInv, TypeOK
  <2>2. \A c \in 1..N : stem[c] \in Stems
    BY StemType
  <2>3. ASSUME DistinctStems, NEW c \in 1..N
        PROVE  (StampOf(c) /\ FileAsStamped(c) /\ FileAsNew(c))'
    <3>1. StampOf(c) /\ FileAsStamped(c) /\ FileAsNew(c) /\ KeyTrue
      BY <2>3 DEF IInv, StampsTrue
    <3>2. CASE c = next
      BY <2>1, <3>1, <3>2 DEF KeyTrue, StampOf, FileAsStamped, FileAsNew, MadeFrom
    <3>3. CASE c # next
      <4>1. stamp'[stem[c]] = stamp[stem[c]]
        BY <1>1, <2>1, <2>2, <2>3, <3>3 DEF DistinctStems
      <4> QED
        BY <3>1, <3>3, <4>1 DEF StampOf, FileAsStamped, FileAsNew, MadeFrom
    <3> QED
      BY <3>2, <3>3
  <2>4. KeyTrue'
    BY DEF KeyTrue
  <2> QED
    BY <2>3, <2>4 DEF IInv, StampsTrue, DistinctStems
<1>9. RecordsHonest' /\ WorkCompiled' /\ Written'
  BY <1>3 DEF IInv, RecordsHonest, Honest, WorkCompiled, Written
<1>10. SourcesOK'
  BY <1>1, SourcePlaced
<1> QED
  BY <1>3, <1>4, <1>5, <1>6, <1>7, <1>8, <1>9, <1>10, FilesNone, ListingNone, WorkNone DEF IInv

-----------------------------------------------------------------------------
(* Listing                                                                 *)

LEMMA ListWorkStep ==
  ASSUME IInv, ListWork
  PROVE  IInv'
<1> USE DEF ListWork, disk, history
<1>1. Compiling
  BY DEF Compiling
<1>3. /\ SourcesSeen = next - 1 /\ FilesSeen = 0 /\ WorkSeen = 0
      /\ work = << >> /\ todo = << >> /\ running = {}
      /\ LinesOf(records, {"input-error"}) = {} /\ LinesOf(records, Checked) = {}
  BY <1>1, CompileFacts
<1>4. TypeOK'
  BY DEF IInv, TypeOK
<1>5. FilesSeen' = 0 /\ WorkSeen' = 0 /\ SourcesSeen' = N /\ SourcesSeen = N
  <2>1. N \in Nat
    BY SweepAssumption
  <2> QED
    BY <1>3, <2>1 DEF FilesSeen, WorkSeen, SourcesSeen, Compiling
<1>6. Control' /\ BuildKept'
  BY <1>3, <1>5 DEF IInv, Control, Compiling, BuildKept
<1>7. FilesOfSources' /\ StampsTrue'
  BY DiskFrame DEF IInv
<1>8. RecordsHonest' /\ WorkCompiled' /\ Written'
  BY <1>3 DEF IInv, RecordsHonest, Honest, WorkCompiled, Written
<1> QED
  BY <1>3, <1>4, <1>5, <1>6, <1>7, <1>8, SourcesFrame, FilesNone, ListingNone, WorkNone DEF IInv

LEMMA FunctionsType ==
  ASSUME IInv, NEW s \in Stems
  PROVE  /\ FunctionsIn(s) \in Seq(Names)
         /\ FunctionsIn(s) # << >> => ll[s] # NoFile
<1>1. ll[s] \in Files \cup {NoFile}
  BY DEF IInv, TypeOK, File
<1>2. CASE ll[s] = NoFile
  BY <1>2, EmptySeq DEF FunctionsIn
<1>3. CASE ll[s] # NoFile
  <2>1. Defines[ll[s]] \in Seq(Names)
    BY <1>1, <1>3, SweepAssumption
  <2> QED
    BY <2>1, <1>3 DEF FunctionsIn
<1> QED
  BY <1>2, <1>3

LEMMA ListedElements ==
  ASSUME NEW n
  PROVE  /\ \A l \in ListedTo(n) : \E i \in 1..n : \E j \in 1..Len(FunctionsIn(files[i])) : l = <<i, j>>
         /\ \A i \in 1..n : \A j \in 1..Len(FunctionsIn(files[i])) : <<i, j>> \in ListedTo(n)
BY DEF ListedTo, FunctionsAt

(* The functions of one more file are listed.                              *)
LEMMA FileListed ==
  ASSUME IInv, pc = "list", next \in 1..Len(files), pc' = "list", next' = next + 1,
         UNCHANGED <<ll, files>>, NEW fns, fns = FunctionsIn(files[next]), Len(fns) \in Nat,
         Len(work') = Len(work) + Len(fns),
         \A i \in 1..Len(work) : work'[i] = work[i],
         \A j \in 1..Len(fns) : work'[Len(work) + j] = [file |-> files[next], fn |-> fns[j]]
  PROVE  ListingOK'
<1>1. FilesSeen = next - 1 /\ FilesSeen' = next /\ next \in Nat
  BY DEF FilesSeen, Compiling, IInv, TypeOK
<1>2. PICK old, new : old = ListedTo(next - 1) /\ new = ListedTo(next)
  OBVIOUS
<1>3. PICK item \in Bijection(old, 1..Len(work)) :
        \A l \in old : work[item[l]] = [file |-> files[l[1]], fn |-> FunctionsIn(files[l[1]])[l[2]]]
  BY <1>1, <1>2 DEF IInv, ListingOK
<1>4. /\ item \in [old -> 1..Len(work)]
      /\ \A a, b \in old : item[a] = item[b] => a = b
      /\ \A k \in 1..Len(work) : \E l \in old : item[l] = k
  BY DEF Bijection, Injection, Surjection, IsInjective
<1>5. Len(work) \in Nat
  BY LenProperties DEF IInv, TypeOK
<1>6. \A l \in new : \/ l \in old /\ l[1] # next
                     \/ \E j \in 1..Len(fns) : l = <<next, j>>
  <2> SUFFICES ASSUME NEW l \in new
               PROVE  \/ l \in old /\ l[1] # next
                      \/ \E j \in 1..Len(fns) : l = <<next, j>>
    OBVIOUS
  <2>1. PICK i \in 1..next : \E j \in 1..Len(FunctionsIn(files[i])) : l = <<i, j>>
    BY <1>2, ListedElements
  <2>2. PICK j \in 1..Len(FunctionsIn(files[i])) : l = <<i, j>>
    BY <2>1
  <2>3. CASE i = next
    BY <2>2, <2>3
  <2>4. CASE i # next
    <3>1. i \in 1..(next - 1)
      BY <2>4, <1>1
    <3>2. l \in old
      BY <1>2, <2>2, <3>1, ListedElements
    <3> QED
      BY <3>2, <2>2, <2>4
  <2> QED
    BY <2>3, <2>4
<1>7. \A l \in old : l \in new /\ l[1] # next
  <2> SUFFICES ASSUME NEW l \in old PROVE l \in new /\ l[1] # next
    OBVIOUS
  <2>1. PICK i \in 1..(next - 1) : \E j \in 1..Len(FunctionsIn(files[i])) : l = <<i, j>>
    BY <1>2, ListedElements
  <2>2. PICK j \in 1..Len(FunctionsIn(files[i])) : l = <<i, j>>
    BY <2>1
  <2>3. i \in 1..next /\ i # next
    BY <1>1
  <2>4. l \in new
    BY <1>2, <2>2, <2>3, ListedElements
  <2> QED
    BY <2>2, <2>3, <2>4
<1>8. \A j \in 1..Len(fns) : <<next, j>> \in new
  <2>1. next \in 1..next
    BY <1>1
  <2> QED
    BY <1>2, <2>1, ListedElements
<1>9. PICK g : g = [l \in new |-> IF l[1] = next THEN Len(work) + l[2] ELSE item[l]]
  OBVIOUS
<1>10. /\ \A l \in old : g[l] = item[l] /\ g[l] \in 1..Len(work)
       /\ \A j \in 1..Len(fns) : g[<<next, j>>] = Len(work) + j
  <2>1. \A l \in old : g[l] = item[l]
    BY <1>7, <1>9
  <2>2. \A j \in 1..Len(fns) : g[<<next, j>>] = Len(work) + j
    BY <1>8, <1>9
  <2> QED
    BY <1>4, <2>1, <2>2
<1>11. g \in [new -> 1..Len(work')]
  <2>1. \A l \in new : g[l] \in 1..Len(work')
    BY <1>5, <1>6, <1>10
  <2> QED
    BY <1>9, <2>1
<1>12. \A a, b \in new : g[a] = g[b] => a = b
  <2> SUFFICES ASSUME NEW a \in new, NEW b \in new, g[a] = g[b]
               PROVE  a = b
    OBVIOUS
  <2>1. CASE a \in old /\ b \in old
    BY <2>1, <1>4, <1>10
  <2>2. ASSUME NEW j \in 1..Len(fns), NEW k \in 1..Len(fns), a = <<next, j>>, b = <<next, k>>
        PROVE  a = b
    <3>1. g[a] = Len(work) + j /\ g[b] = Len(work) + k
      BY <2>2, <1>10
    <3> QED
      BY <2>2, <3>1, <1>5
  <2>3. ASSUME NEW j \in 1..Len(fns),
               (a \in old /\ b = <<next, j>>) \/ (b \in old /\ a = <<next, j>>)
        PROVE  FALSE
    <3>1. Len(work) + j \in 1..Len(work)
      BY <2>3, <1>10
    <3> QED
      BY <3>1, <1>5
  <2>4. a \in old \/ \E j \in 1..Len(fns) : a = <<next, j>>
    BY <1>6
  <2>5. b \in old \/ \E j \in 1..Len(fns) : b = <<next, j>>
    BY <1>6
  <2>6. CASE a \in old
    <3>1. CASE b \in old
      BY <2>1, <2>6, <3>1
    <3>2. CASE \E k \in 1..Len(fns) : b = <<next, k>>
      <4>1. PICK k \in 1..Len(fns) : b = <<next, k>>
        BY <3>2
      <4>2. g[b] = Len(work) + k /\ g[a] \in 1..Len(work)
        BY <1>10, <2>6, <4>1
      <4> QED
        BY <1>5, <4>2
    <3> QED
      BY <2>5, <3>1, <3>2
  <2>7. CASE \E j \in 1..Len(fns) : a = <<next, j>>
    <3>1. PICK j \in 1..Len(fns) : a = <<next, j>>
      BY <2>7
    <3>2. CASE b \in old
      BY <2>3, <3>1, <3>2
    <3>3. CASE \E k \in 1..Len(fns) : b = <<next, k>>
      BY <2>2, <3>1, <3>3
    <3> QED
      BY <2>5, <3>2, <3>3
  <2> QED
    BY <2>4, <2>6, <2>7
<1>13. \A k \in 1..Len(work') : \E l \in new : g[l] = k
  <2> SUFFICES ASSUME NEW k \in 1..Len(work') PROVE \E l \in new : g[l] = k
    OBVIOUS
  <2>1. CASE k \in 1..Len(work)
    BY <2>1, <1>4, <1>7, <1>10
  <2>2. CASE k \notin 1..Len(work)
    <3>1. k - Len(work) \in 1..Len(fns) /\ Len(work) + (k - Len(work)) = k
      BY <2>2, <1>5
    <3> QED
      BY <3>1, <1>8, <1>10
  <2> QED
    BY <2>1, <2>2
<1>14. g \in Bijection(new, 1..Len(work'))
  BY <1>11, <1>12, <1>13 DEF Bijection, Injection, Surjection, IsInjective
<1>15. \A l \in new : work'[g[l]] = [file |-> files[l[1]], fn |-> FunctionsIn(files[l[1]])[l[2]]]
  <2> SUFFICES ASSUME NEW l \in new
               PROVE  work'[g[l]] = [file |-> files[l[1]], fn |-> FunctionsIn(files[l[1]])[l[2]]]
    OBVIOUS
  <2>1. CASE l \in old
    <3>1. work'[g[l]] = work[item[l]]
      BY <2>1, <1>10
    <3> QED
      BY <2>1, <3>1, <1>3
  <2>2. ASSUME NEW j \in 1..Len(fns), l = <<next, j>>
        PROVE  work'[g[l]] = [file |-> files[l[1]], fn |-> FunctionsIn(files[l[1]])[l[2]]]
    <3>1. work'[g[l]] = [file |-> files[next], fn |-> fns[j]]
      BY <2>2, <1>10
    <3>2. l[1] = next /\ l[2] = j
      BY <2>2
    <3> QED
      BY <3>1, <3>2
  <2> QED
    BY <2>1, <2>2, <1>6
<1>16. ListedTo(FilesSeen)' = new
  BY <1>1, <1>2 DEF ListedTo, FunctionsAt, FunctionsIn
<1>17. \A l : FunctionsIn(files[l[1]])' = FunctionsIn(files[l[1]]) /\ files'[l[1]] = files[l[1]]
  BY DEF FunctionsIn
<1> QED
  BY <1>14, <1>15, <1>16, <1>17 DEF ListingOK

LEMMA ListFileStep ==
  ASSUME IInv, ListFile
  PROVE  IInv'
<1> USE DEF disk, history
<1>1. PICK file, fns, new : /\ file = files[next] /\ fns = FunctionsIn(file)
                            /\ new = [j \in 1..Len(fns) |-> [file |-> file, fn |-> fns[j]]]
  OBVIOUS
<1>2. /\ pc = "list" /\ next \in 1..Len(files) /\ pc' = "list" /\ next' = next + 1
      /\ records' = IF fns = << >> THEN Append(records, ErrorRecord(file, "input-error")) ELSE records
      /\ work' = work \o new
      /\ UNCHANGED <<stem, source, headers, binary, ll, stamp, results, sweeps, cap, baseline, key, files, todo, running,
                   hashed, past, disturbed, tainted>>
  BY <1>1 DEF ListFile, IInv, TypeOK
<1>3. file \in Stems
  BY <1>1, <1>2, ElementOfSeq DEF IInv, TypeOK
<1>4. fns \in Seq(Names) /\ Len(fns) \in Nat /\ (fns # << >> => ll[file] # NoFile)
  BY <1>1, <1>3, FunctionsType, LenProperties
<1>5. PICK W : W = [file : Stems, fn : Names]
  OBVIOUS
<1>6. new \in Seq(W) /\ Len(new) = Len(fns)
  <2>1. \A j \in 1..Len(fns) : fns[j] \in Names
    BY <1>4, ElementOfSeq
  <2>2. new \in [1..Len(fns) -> W]
    BY <1>1, <1>3, <1>5, <2>1
  <2> QED
    BY <1>4, <2>2, FunctionIsSeq
<1>7. work \in Seq(W) /\ Len(work) \in Nat
  BY <1>5, LenProperties DEF IInv, TypeOK
<1>8. /\ work' \in Seq(W) /\ Len(work') = Len(work) + Len(fns)
      /\ \A i \in 1..(Len(work) + Len(fns)) :
           work'[i] = IF i <= Len(work) THEN work[i] ELSE new[i - Len(work)]
  <2>1. PICK all : all = work \o new
    OBVIOUS
  <2>2. /\ all \in Seq(W) /\ Len(all) = Len(work) + Len(new)
        /\ \A i \in 1..(Len(work) + Len(new)) :
             all[i] = IF i <= Len(work) THEN work[i] ELSE new[i - Len(work)]
    BY <1>6, <1>7, <2>1, ConcatProperties
  <2>3. work' = all
    BY <1>2, <2>1
  <2> QED
    BY <1>6, <2>2, <2>3
<1>9. /\ \A i \in 1..Len(work) : work'[i] = work[i]
      /\ \A j \in 1..Len(fns) : work'[Len(work) + j] = [file |-> files[next], fn |-> fns[j]]
  <2>1. \A i \in 1..Len(work) : i \in 1..(Len(work) + Len(fns)) /\ i <= Len(work)
    BY <1>4, <1>7
  <2>2. \A j \in 1..Len(fns) : /\ Len(work) + j \in 1..(Len(work) + Len(fns)) /\ ~ (Len(work) + j <= Len(work))
                               /\ Len(work) + j - Len(work) = j
    BY <1>4, <1>7
  <2>3. \A j \in 1..Len(fns) : work'[Len(work) + j] = new[j]
    BY <1>8, <2>2
  <2> QED
    BY <1>1, <1>8, <2>1, <2>3
<1>10. ListingOK'
  BY <1>1, <1>2, <1>4, <1>8, <1>9, FileListed
<1>11. PICK r : r = ErrorRecord(file, "input-error")
  OBVIOUS
<1>12. /\ r \in Record /\ r.outcome = "input-error" /\ r.key = NoKey
       /\ r.file = file /\ r.fn = NoName
  BY <1>3, <1>11, ErrorRecordType
<1>13. IsList(records)
  BY SeqIsList DEF IInv, TypeOK
<1>14. todo = << >> /\ running = {} /\ FilesSeen = next - 1 /\ FilesSeen' = next /\ WorkSeen = 0 /\ WorkSeen' = 0
       /\ SourcesSeen = N /\ SourcesSeen' = N
  <2>1. todo = << >> /\ running = {}
    BY <1>2 DEF IInv, Control
  <2>2. next' - 1 = next
    BY <1>2
  <2> QED
    BY <1>2, <2>1, <2>2 DEF FilesSeen, WorkSeen, SourcesSeen, Compiling
<1>15. TypeOK'
  <2>1. records' \in Seq(Record)
    BY <1>2, <1>11, <1>12, AppendProperties DEF IInv, TypeOK
  <2>2. todo' \in Seq(1..Len(work')) /\ running' = {}
    BY <1>2, <1>14, EmptySeq
  <2>3. next' \in Nat \ {0} /\ Cardinality(running') <= Jobs
    BY <1>2 DEF IInv, TypeOK
  <2>4. work' \in Seq([file : Stems, fn : Names])
    BY <1>5, <1>8
  <2>5. UNCHANGED <<stem, source, headers, binary, ll, stamp, results, sweeps, cap, baseline, key, files, pc,
                  hashed, past, disturbed, tainted>>
    BY <1>2
  <2> QED
    BY <2>1, <2>2, <2>3, <2>4, <2>5 DEF IInv, TypeOK
<1>16. Control' /\ BuildKept'
  <2>1. Len(work') \in Nat /\ Len(files) \in Nat
    BY <1>8, <1>15, LenProperties DEF TypeOK
  <2>2. N <= N /\ next <= Len(files) /\ 0 <= Len(work')
    BY <1>2, <2>1, SweepAssumption
  <2> QED
    BY <1>2, <1>14, <2>2, FS_EmptySet DEF IInv, Control, Compiling, BuildKept
<1>17. FilesOfSources' /\ StampsTrue'
  BY <1>2, DiskFrame DEF IInv
<1>18. RecordsHonest'
  <2>1. Honest(r)'
    BY <1>12 DEF Honest, Checked
  <2>2. \A i \in 1..Len(records) : Honest(records[i])'
    BY <1>2 DEF IInv, RecordsHonest, Honest
  <2>3. CASE fns = << >>
    <3>1. \A i \in 1..Len(records') : Honest(records[i])'
      BY <1>2, <1>11, <1>13, <2>1, <2>2, <2>3, ListAppend DEF Honest, IsList
    <3> QED
      BY <1>2, <3>1 DEF IInv, RecordsHonest, Honest
  <2>4. CASE fns # << >>
    BY <1>2, <2>4 DEF IInv, RecordsHonest, Honest
  <2> QED
    BY <2>3, <2>4
<1>19. WorkCompiled'
  <2> SUFFICES ASSUME NEW i \in 1..(Len(work) + Len(fns))
               PROVE  ll[work'[i].file] # NoFile
    BY <1>2, <1>8 DEF WorkCompiled
  <2>1. CASE i \in 1..Len(work)
    BY <1>9, <2>1 DEF IInv, WorkCompiled
  <2>2. CASE i \notin 1..Len(work)
    <3>1. PICK j \in 1..Len(fns) : i = Len(work) + j
      <4>1. i - Len(work) \in 1..Len(fns) /\ i = Len(work) + (i - Len(work))
        BY <1>4, <1>7, <2>2
      <4> QED
        BY <4>1
    <3>2. fns # << >>
      BY <3>1
    <3>3. work'[i].file = file
      BY <1>1, <1>9, <3>1
    <3> QED
      BY <1>4, <3>2, <3>3
  <2> QED
    BY <2>1, <2>2
<1>20. Written'
  BY <1>2 DEF Written
<1>21. SourcesOK'
  <2>1. CASE fns = << >>
    BY <1>2, <1>11, <1>12, <1>13, <1>14, <2>1, SourcesAppend DEF IInv
  <2>2. CASE fns # << >>
    BY <1>2, <1>14, <2>2, SourcesFrame DEF IInv
  <2> QED
    BY <2>1, <2>2
<1>22. FilesOK'
  <2>1. PICK O, S : O = {"input-error"} /\ S = Bare(next - 1)
    OBVIOUS
  <2>2. Reported(S, records, O, ForFiles)
    BY <1>14, <2>1 DEF IInv, FilesOK
  <2>3. 1..next = 1..(next - 1) \cup {next} /\ next \notin 1..(next - 1)
    BY <1>2
  <2>4. Bare(FilesSeen)' = Bare(next) /\ ForFiles' = ForFiles
    BY <1>2, <1>14 DEF Bare, FunctionsIn, ForFiles
  <2>5. CASE fns = << >>
    <3>1. next \notin S /\ r.outcome \in O
      BY <1>12, <2>1, <2>3 DEF Bare
    <3>2. ForFiles[next] = Want(r.file, r.fn, r.key)
      BY <1>1, <1>2, <1>12 DEF ForFiles
    <3>3. Reported(With(S, next), Append(records, r), O, ForFiles)
      BY <1>13, <2>2, <3>1, <3>2, ReportedMore
    <3>4. With(S, next) = Bare(next)
      BY <1>1, <2>1, <2>3, <2>5 DEF Bare, With
    <3> QED
      BY <1>2, <1>11, <2>1, <2>4, <2>5, <3>3, <3>4 DEF FilesOK
  <2>6. CASE fns # << >>
    <3>1. S = Bare(next)
      BY <1>1, <2>1, <2>3, <2>6 DEF Bare
    <3> QED
      BY <1>2, <2>1, <2>2, <2>4, <2>6, <3>1 DEF FilesOK
  <2> QED
    BY <2>5, <2>6
<1>23. WorkOK'
  <2>1. LinesOf(records, Checked) = {}
    BY <1>14, NothingYet
  <2>2. CASE fns = << >>
    <3>1. r.outcome \notin Checked
      BY <1>12 DEF Checked
    <3>2. LinesOf(Append(records, r), Checked) = {}
      BY <1>13, <2>1, <3>1, LinesAppend
    <3> QED
      BY <1>2, <1>11, <1>14, <2>2, <3>2, WorkNone
  <2>3. CASE fns # << >>
    BY <1>2, <1>14, <2>1, <2>3, WorkNone
  <2> QED
    BY <2>2, <2>3
<1> QED
  BY <1>10, <1>15, <1>16, <1>17, <1>18, <1>19, <1>20, <1>21, <1>22, <1>23 DEF IInv

LEMMA LoadedStep ==
  ASSUME IInv, LoadBaseline, ~ Exit
  PROVE  IInv'
<1>1. /\ pc = "list" /\ next = Len(files) + 1 /\ pc' = "reuse" /\ next' = 1
      /\ UNCHANGED <<disk, sweeps, cap, baseline, key, files, records, work, todo, running, hashed, history>>
  BY DEF LoadBaseline
<1> USE DEF disk, history
<1>2. TypeOK'
  BY <1>1 DEF IInv, TypeOK
<1>3. Len(files) \in Nat /\ Len(work) \in Nat
  BY LenProperties DEF IInv, TypeOK
<1>4. todo = << >> /\ running = {}
  BY <1>1 DEF IInv, Control
<1>5. FilesSeen' = FilesSeen /\ SourcesSeen' = SourcesSeen /\ WorkSeen' = WorkSeen /\ WorkSeen' = 0
  BY <1>1, <1>3 DEF FilesSeen, WorkSeen, SourcesSeen, Compiling
<1>6. Control' /\ BuildKept'
  BY <1>1, <1>4, <1>5 DEF IInv, Control, Compiling, BuildKept
<1>7. FilesOfSources' /\ StampsTrue'
  BY <1>1, DiskFrame DEF IInv
<1>8. RecordsHonest' /\ WorkCompiled' /\ Written'
  BY <1>1 DEF IInv, RecordsHonest, Honest, WorkCompiled, Written
<1> QED
  BY <1>1, <1>2, <1>5, <1>6, <1>7, <1>8, SourcesFrame, FilesFrame, ListingFrame, WorkFrame DEF IInv

-----------------------------------------------------------------------------
(* Reusing and running                                                     *)

(* A set of positions that is not empty has a last one.                    *)
LEMMA LastPosition ==
  ASSUME NEW n \in Nat, NEW H \in SUBSET (1..n), H # {}
  PROVE  \E i \in H : \A j \in H : j <= i
<1>1. PICK T : T = {n - i : i \in H}
  OBVIOUS
<1>2. T \subseteq Nat /\ T # {}
  <2>1. \A i \in H : n - i \in Nat
    OBVIOUS
  <2>2. PICK i : i \in H
    OBVIOUS
  <2>3. n - i \in T
    BY <1>1, <2>2
  <2> QED
    BY <1>1, <2>1, <2>3
<1>3. PICK R : R = OpToRel(<, Nat)
  OBVIOUS
<1>4. IsWellFoundedOn(R, Nat)
  BY <1>3, NatLessThanWellFounded
<1>5. PICK x \in T : \A y \in T : ~ (<<y, x>> \in R)
  BY <1>2, <1>4, WFMin
<1>6. PICK i \in H : x = n - i
  BY <1>1
<1>7. \A y \in T : ~ (y < x)
  BY <1>2, <1>3, <1>5 DEF OpToRel
<1>8. ASSUME NEW j \in H
      PROVE  j <= i
  <2>1. n - j \in T
    BY <1>1
  <2>2. ~ (n - j < n - i)
    BY <1>6, <1>7, <2>1
  <2> QED
    BY <2>2
<1> QED
  BY <1>8

(* What is known of an item of the work list                               *)
LEMMA WorkItem ==
  ASSUME IInv, NEW i \in 1..Len(work)
  PROVE  /\ work[i].file \in Stems /\ work[i].fn \in Names
         /\ ll[work[i].file] \in Files /\ ll[work[i].file] # NoFile
         /\ stem[ll[work[i].file].of] = work[i].file
         /\ CacheKey(work[i]) \in Key /\ CacheKey(work[i]) # NoKey
<1>1. work[i] \in [file : Stems, fn : Names]
  BY ElementOfSeq DEF IInv, TypeOK
<1>2. ll[work[i].file] # NoFile
  BY DEF IInv, WorkCompiled
<1>3. work[i].file \in Stems /\ work[i].fn \in Names
  BY <1>1
<1>4. ll[work[i].file] \in Files
  BY <1>2, <1>3 DEF IInv, TypeOK, File
<1>5. stem[ll[work[i].file].of] = work[i].file
  BY <1>2, <1>3 DEF IInv, FilesOfSources
<1>6. Build \in Builds
  BY DEF IInv, TypeOK, Build
<1>7. CacheKey(work[i]) \in Key
  BY <1>3, <1>4, <1>6 DEF CacheKey, Key, Name, File
<1>8. CacheKey(work[i]).content # NoKey.content
  BY <1>2 DEF CacheKey, NoKey
<1> QED
  BY <1>2, <1>3, <1>4, <1>5, <1>7, <1>8

(* A record is added for an item of the work list.                         *)
LEMMA WorkReported ==
  ASSUME IInv, NEW i \in 1..Len(work), i \notin WorkDone,
         NEW r, r.outcome \in Checked, r.file = work[i].file, r.fn = work[i].fn,
         r.key = CacheKey(work[i])
  PROVE  Reported(With(WorkDone, i), Append(records, r), Checked, ForWork)
<1>1. IsList(records)
  BY SeqIsList DEF IInv, TypeOK
<1>2. Reported(WorkDone, records, Checked, ForWork)
  BY DEF IInv, WorkOK
<1>3. ForWork[i] = Want(r.file, r.fn, r.key)
  BY DEF ForWork
<1> QED
  BY <1>1, <1>2, <1>3, ReportedMore

(* A line of the baseline with an item's key is its record.                *)
LEMMA HitRecord ==
  ASSUME IInv, NEW i \in 1..Len(work), NEW h \in Hits(work[i]), NEW r, r = baseline[h]
  PROVE  /\ r \in Record /\ r.outcome \in Checked /\ Honest(r)
         /\ r.file = work[i].file /\ r.fn = work[i].fn
         /\ r.key = CacheKey(work[i])
<1>1. h \in 1..Len(baseline) /\ r.key = CacheKey(work[i])
  BY DEF Hits
<1>2. r \in Record \cup {Torn}
  BY <1>1, ElementOfSeq DEF IInv, TypeOK
<1>3. r.key # NoKey
  BY <1>1, WorkItem
<1>4. r \in Record
  BY <1>2, <1>3 DEF Torn
<1>5. Honest(r)
  BY <1>1 DEF IInv, RecordsHonest
<1>6. r.outcome \in Checked /\ r.key.fn = r.fn /\ r.file = stem[r.key.content.of]
  BY <1>3, <1>5 DEF Honest
<1>7. r.key.fn = work[i].fn /\ r.key.content = ll[work[i].file]
  BY <1>1 DEF CacheKey
<1> QED
  BY <1>1, <1>4, <1>5, <1>6, <1>7, WorkItem

(* Records from now on                                                     *)
LEMMA RecordsGrow ==
  ASSUME IInv, NEW r \in Record, Honest(r), r.outcome \in Checked,
         records' = Append(records, r),
         UNCHANGED <<stem, ll, files, results, baseline, work, tainted>>,
         SourcesSeen' = SourcesSeen, FilesSeen' = FilesSeen
  PROVE  /\ records' \in Seq(Record) /\ RecordsHonest' /\ WorkCompiled'
         /\ SourcesOK' /\ FilesOK' /\ ListingOK'
<1>1. IsList(records)
  BY SeqIsList DEF IInv, TypeOK
<1>2. records' \in Seq(Record)
  BY AppendProperties DEF IInv, TypeOK
<1>3. RecordsHonest'
  <2>1. Honest(r)'
    BY DEF Honest
  <2>2. \A i \in 1..Len(records) : Honest(records[i])'
    <3>1. \A i \in 1..Len(records) : Honest(records[i]) /\ records'[i] = records[i]
      BY <1>1, ListAppend DEF IInv, RecordsHonest
    <3> QED
      BY <3>1 DEF Honest
  <2>3. \A i \in 1..Len(records') : Honest(records[i])'
    BY <1>1, <2>1, <2>2, ListAppend DEF Honest, IsList
  <2> QED
    BY <2>3 DEF IInv, RecordsHonest, Honest
<1>4. r.outcome # "compile-error" /\ r.outcome # "input-error"
  BY DEF Checked
<1>5. WorkCompiled'
  BY DEF IInv, WorkCompiled
<1>6. SourcesOK' /\ FilesOK'
  BY <1>1, <1>4, SourcesAppend, FilesAppend DEF IInv
<1>7. ListingOK'
  BY ListingFrame DEF IInv
<1> QED
  BY <1>2, <1>3, <1>5, <1>6, <1>7

LEMMA ReuseStep ==
  ASSUME IInv, Reuse
  PROVE  IInv'
<1>1. /\ pc = "reuse" /\ pc' = "reuse" /\ next \in 1..Len(work) /\ next' = next + 1
      /\ UNCHANGED <<stem, source, headers, binary, ll, stamp, results, sweeps, cap, baseline, key, files, work, running,
                   past, disturbed, tainted>>
      /\ hashed' = Build
  BY DEF Reuse, IInv, TypeOK, disk, history
<1>2. Len(work) \in Nat /\ Len(todo) \in Nat /\ Len(files) \in Nat
  BY LenProperties DEF IInv, TypeOK
<1>3. /\ running = {} /\ SourcesSeen' = SourcesSeen /\ FilesSeen' = FilesSeen
      /\ WorkSeen = next - 1 /\ WorkSeen' = next /\ SourcesSeen = N /\ FilesSeen = Len(files)
  <2>1. next' - 1 = next /\ running = {}
    BY <1>1 DEF IInv, Control
  <2> QED
    BY <1>1, <2>1 DEF SourcesSeen, FilesSeen, WorkSeen, Compiling
<1>0. Build \in Builds /\ Build # 0 /\ Build' = Build /\ hashed' = Build
  <2>1. Build \in Builds /\ 0 \notin Builds
    BY SweepAssumption DEF IInv, TypeOK, Build
  <2> QED
    BY <1>1, <2>1 DEF Build
<1>4. Control'
  <2>1. N <= N /\ Len(files) <= Len(files) /\ next <= Len(work)
    BY <1>1, <1>2, SweepAssumption
  <2> QED
    BY <1>0, <1>1, <1>3, <2>1, FS_EmptySet DEF Control, Compiling
<1>5. FilesOfSources' /\ StampsTrue' /\ Written' /\ BuildKept'
  <2>1. FilesOfSources' /\ StampsTrue'
    BY <1>1, DiskFrame DEF IInv
  <2>2. Written'
    BY <1>1 DEF Written
  <2>3. BuildKept'
    BY <1>1, <1>3 DEF IInv, BuildKept, Build
  <2> QED
    BY <2>1, <2>2, <2>3
<1>6. 1..next = 1..(next - 1) \cup {next} /\ next \notin 1..(next - 1)
  BY <1>1
<1>7. next \notin WorkDone /\ next \notin Pending /\ Pending \subseteq 1..(next - 1)
  BY <1>3, <1>6 DEF WorkDone, IInv, WorkOK
<1>8. ForWork' = ForWork
  BY <1>0, <1>1 DEF ForWork, CacheKey
<1>9. next' \in Nat \ {0}
  BY <1>1
<1>10. CASE Hits(work[next]) # {}
  <2>1. PICK H : H = Hits(work[next])
    OBVIOUS
  <2>2. PICK h, r : h = (CHOOSE i \in H : \A j \in H : j <= i) /\ r = baseline[h]
    OBVIOUS
  <2>3. h \in H
    <3>1. Len(baseline) \in Nat /\ H \in SUBSET (1..Len(baseline))
      BY <2>1, LenProperties DEF IInv, TypeOK, Hits
    <3>2. \E i \in H : \A j \in H : j <= i
      BY <1>10, <2>1, <3>1, LastPosition
    <3> QED
      BY <2>2, <3>2
  <2>4. records' = Append(records, r) /\ todo' = todo
    BY <1>10, <2>1, <2>2 DEF Reuse
  <2>5. /\ r \in Record /\ r.outcome \in Checked /\ Honest(r)
        /\ r.file = work[next].file /\ r.fn = work[next].fn
        /\ r.key = CacheKey(work[next])
    BY <1>1, <2>1, <2>2, <2>3, HitRecord
  <2>6. /\ records' \in Seq(Record) /\ RecordsHonest' /\ WorkCompiled'
        /\ SourcesOK' /\ FilesOK' /\ ListingOK'
    BY <1>1, <1>3, <2>4, <2>5, RecordsGrow
  <2>7. WorkOK'
    <3>1. Reported(With(WorkDone, next), Append(records, r), Checked, ForWork)
      BY <1>1, <1>7, <2>5, WorkReported
    <3>2. Pending' = Pending /\ Items' = Items
      BY <1>1, <2>4 DEF Pending, Items
    <3>3. WorkDone' = With(WorkDone, next)
      BY <1>3, <1>6, <1>7, <3>2 DEF WorkDone, With
    <3>4. Pending' \subseteq 1..WorkSeen'
      BY <1>3, <1>6, <1>7, <3>2
    <3>5. Reported(WorkDone', records', Checked, ForWork')
      BY <1>8, <2>4, <3>1, <3>3
    <3> QED
      BY <1>1, <2>4, <3>2, <3>4, <3>5 DEF IInv, WorkOK, Checked
  <2>8. TypeOK'
    BY <1>0, <1>1, <1>9, <2>4, <2>6 DEF IInv, TypeOK
  <2> QED
    BY <1>4, <1>5, <2>6, <2>7, <2>8 DEF IInv
<1>11. CASE Hits(work[next]) = {}
  <2>1. records' = records /\ todo' = Append(todo, next)
    BY <1>11 DEF Reuse
  <2>2. PICK I : I = 1..Len(work)
    OBVIOUS
  <2>3. todo \in Seq(I) /\ next \in I
    BY <1>1, <2>2 DEF IInv, TypeOK
  <2>4. /\ todo' \in Seq(I) /\ Len(todo') = Len(todo) + 1
        /\ \A k \in 1..Len(todo) : todo'[k] = todo[k]
        /\ todo'[Len(todo) + 1] = next
    BY <2>1, <2>3, AppendProperties
  <2>5. TypeOK'
    BY <1>0, <1>1, <1>9, <2>1, <2>2, <2>4 DEF IInv, TypeOK
  <2>6. 1..Len(todo') = 1..Len(todo) \cup {Len(todo) + 1}
    BY <1>2, <2>4
  <2>7. Pending' = Pending \cup {next}
    BY <1>1, <2>4, <2>6 DEF Pending, Items
  <2>8. WorkDone' = WorkDone
    BY <1>3, <1>6, <1>7, <2>7 DEF WorkDone
  <2>9. WorkOK'
    <3>1. Pending' \subseteq 1..WorkSeen'
      BY <1>3, <1>6, <1>7, <2>7
    <3>2. Items' = {} /\ \A run, other \in running' : run.item = other.item => run = other
      BY <1>1, <1>3 DEF Items
    <3>3. \A k \in 1..Len(todo) : todo[k] # next
      BY <1>7 DEF Pending
    <3>4. \A k, m \in 1..Len(todo) : todo[k] = todo[m] => k = m
      BY DEF IInv, WorkOK
    <3>5. \A k, m \in 1..Len(todo') : todo'[k] = todo'[m] => k = m
      BY <2>4, <2>6, <3>3, <3>4
    <3>6. Reported(WorkDone', records', Checked, ForWork')
      BY <1>8, <2>1, <2>8 DEF IInv, WorkOK
    <3> QED
      BY <3>1, <3>2, <3>5, <3>6 DEF WorkOK, Checked
  <2>10. RecordsHonest' /\ WorkCompiled'
    BY <1>1, <2>1 DEF IInv, RecordsHonest, Honest, WorkCompiled
  <2>11. SourcesOK' /\ FilesOK' /\ ListingOK'
    BY <1>1, <1>3, <2>1, SourcesFrame, FilesFrame, ListingFrame DEF IInv
  <2> QED
    BY <1>4, <1>5, <2>5, <2>9, <2>10, <2>11 DEF IInv
<1> QED
  BY <1>10, <1>11

LEMMA RunPoolStep ==
  ASSUME IInv, RunPool
  PROVE  IInv'
<1> USE DEF RunPool, disk, memory, history
<1>1. TypeOK'
  BY DEF IInv, TypeOK
<1>2. Len(work) \in Nat
  BY LenProperties DEF IInv, TypeOK
<1>3. FilesSeen' = FilesSeen /\ SourcesSeen' = SourcesSeen /\ WorkSeen' = WorkSeen
  BY <1>2 DEF FilesSeen, WorkSeen, SourcesSeen, Compiling
<1>4. Control' /\ BuildKept'
  BY <1>3 DEF IInv, Control, Compiling, BuildKept
<1>5. FilesOfSources' /\ StampsTrue'
  BY DiskFrame DEF IInv
<1>6. RecordsHonest' /\ WorkCompiled' /\ Written'
  BY DEF IInv, RecordsHonest, Honest, WorkCompiled, Written
<1> QED
  BY <1>1, <1>3, <1>4, <1>5, <1>6, SourcesFrame, FilesFrame, ListingFrame, WorkFrame DEF IInv

LEMMA StartStep ==
  ASSUME IInv, Start
  PROVE  IInv'
<1>1. /\ pc = "run" /\ todo # << >> /\ Cardinality(running) < Jobs
      /\ UNCHANGED <<stem, source, headers, binary, ll, stamp, results, sweeps, cap, baseline, pc, next, key, files,
                     records, work, hashed, past, disturbed, tainted>>
  BY DEF Start, disk, history
<1>2. PICK I, i, rest, run : /\ I = 1..Len(work) /\ i = Head(todo) /\ rest = Tail(todo)
                             /\ run = [item |-> i, build |-> binary]
  OBVIOUS
<1>3. running' = running \cup {run} /\ todo' = rest
  BY <1>2 DEF Start
<1>4. todo \in Seq(I) /\ Len(todo) \in Nat \ {0} /\ running \subseteq [item : I, build : Builds]
  BY <1>1, <1>2, EmptySeq DEF IInv, TypeOK
<1>5. /\ i \in I /\ rest \in Seq(I) /\ Len(rest) = Len(todo) - 1
      /\ \A k \in 1..Len(rest) : rest[k] = todo[k + 1]
  BY <1>1, <1>2, <1>4, HeadTailProperties
<1>6. i = todo[1] /\ run.item = i /\ run.build = binary
  BY <1>2, <1>4
<1>7. IsFiniteSet(running) /\ IsFiniteSet(running \cup {run}) /\ Cardinality(running \cup {run}) <= Jobs
  <2>1. IsFiniteSet(running) /\ Cardinality(running) \in Nat
    BY FS_CardinalityType DEF IInv, Control
  <2>2. /\ IsFiniteSet(running \cup {run})
        /\ Cardinality(running \cup {run})
             = IF run \in running THEN Cardinality(running) ELSE Cardinality(running) + 1
    BY <2>1, FS_AddElement
  <2>3. Cardinality(running \cup {run}) <= Cardinality(running) + 1
    BY <2>1, <2>2
  <2> QED
    BY <1>1, <2>1, <2>2, <2>3, SweepAssumption
<1>8. TypeOK'
  <2>1. run \in [item : I, build : Builds]
    BY <1>2, <1>5 DEF IInv, TypeOK
  <2> QED
    BY <1>1, <1>2, <1>3, <1>4, <1>5, <1>7, <2>1 DEF IInv, TypeOK
<1>9. SourcesSeen' = SourcesSeen /\ FilesSeen' = FilesSeen /\ WorkSeen' = WorkSeen
  BY <1>1 DEF SourcesSeen, FilesSeen, WorkSeen, Compiling
<1>10. Control'
  BY <1>1, <1>3, <1>7, <1>9 DEF IInv, Control, Compiling
<1>11. BuildKept'
  BY <1>1, <1>3, <1>6 DEF IInv, BuildKept
<1>12. FilesOfSources' /\ StampsTrue'
  BY <1>1, DiskFrame DEF IInv
<1>13. RecordsHonest' /\ WorkCompiled' /\ Written'
  BY <1>1 DEF IInv, RecordsHonest, Honest, WorkCompiled, Written
<1>14. WorkOK'
  <2>1. \A k \in 1..Len(todo) : k = 1 \/ (k - 1 \in 1..Len(rest) /\ rest[k - 1] = todo[k])
    BY <1>4, <1>5
  <2>2. \A k \in 1..Len(rest) : k + 1 \in 1..Len(todo) /\ rest[k] = todo[k + 1] /\ k + 1 # 1
    BY <1>4, <1>5
  <2>3. 1 \in 1..Len(todo)
    BY <1>4
  <2>4. {todo[k] : k \in 1..Len(todo)} = {i} \cup {rest[k] : k \in 1..Len(rest)}
    <3>1. \A k \in 1..Len(todo) : todo[k] = i \/ \E m \in 1..Len(rest) : todo[k] = rest[m]
      BY <1>6, <2>1
    <3>2. \A m \in 1..Len(rest) : \E k \in 1..Len(todo) : rest[m] = todo[k]
      BY <2>2
    <3>3. \E k \in 1..Len(todo) : i = todo[k]
      BY <1>6, <2>3
    <3> QED
      BY <3>1, <3>2, <3>3
  <2>5. Items' = Items \cup {i}
    BY <1>3, <1>6 DEF Items
  <2>6. Pending' = Pending
    BY <1>3, <2>4, <2>5 DEF Pending
  <2>7. \A k, m \in 1..Len(todo) : todo[k] = todo[m] => k = m
    BY DEF IInv, WorkOK
  <2>8. i \notin Items
    BY <1>6, <2>3 DEF IInv, WorkOK
  <2>9. \A old, other \in running' : old.item = other.item => old = other
    BY <1>3, <1>6, <2>8 DEF IInv, WorkOK, Items
  <2>10. \A k \in 1..Len(todo') : todo'[k] \notin Items'
    <3>1. \A k \in 1..Len(rest) : rest[k] # i
      BY <1>6, <2>2, <2>3, <2>7
    <3>2. \A k \in 1..Len(rest) : rest[k] \notin Items
      BY <2>2 DEF IInv, WorkOK
    <3> QED
      BY <1>3, <2>5, <3>1, <3>2
  <2>11. \A k, m \in 1..Len(todo') : todo'[k] = todo'[m] => k = m
    <3> SUFFICES ASSUME NEW k \in 1..Len(rest), NEW m \in 1..Len(rest), rest[k] = rest[m]
                 PROVE  k = m
      BY <1>3
    <3>1. k + 1 = m + 1
      BY <2>2, <2>7
    <3> QED
      BY <3>1
  <2>12. ForWork' = ForWork /\ WorkDone' = WorkDone
    BY <1>1, <1>9, <2>6 DEF ForWork, CacheKey, Build, WorkDone
  <2>13. Reported(WorkDone', records', Checked, ForWork')
    BY <1>1, <2>12 DEF IInv, WorkOK
  <2>14. Pending' \subseteq 1..WorkSeen'
    BY <1>9, <2>6 DEF IInv, WorkOK
  <2> QED
    BY <2>9, <2>10, <2>11, <2>13, <2>14 DEF WorkOK, Checked
<1> QED
  BY <1>1, <1>8, <1>9, <1>10, <1>11, <1>12, <1>13, <1>14, SourcesFrame, FilesFrame, ListingFrame DEF IInv

LEMMA FinishStep ==
  ASSUME IInv, Finish
  PROVE  IInv'
<1>1. PICK run \in running : /\ running' = running \ {run}
                             /\ records' = Append(records, RunOne(work[run.item], run.build))
  BY DEF Finish
<1>2. /\ pc = "run"
      /\ UNCHANGED <<stem, source, headers, binary, ll, stamp, results, sweeps, cap, baseline, pc, next, key, files,
                     work, todo, hashed, past, disturbed, tainted>>
  BY DEF Finish, disk, history
<1>3. PICK i, b, r : i = run.item /\ b = run.build /\ r = RunOne(work[i], b)
  OBVIOUS
<1>4. i \in 1..Len(work) /\ b \in Builds
  BY <1>3 DEF IInv, TypeOK
<1>5. /\ work[i].file \in Stems /\ work[i].fn \in Names
      /\ ll[work[i].file] \in Files /\ ll[work[i].file] # NoFile
      /\ stem[ll[work[i].file].of] = work[i].file
      /\ CacheKey(work[i]) \in Key
  BY <1>4, WorkItem
<1>6. /\ r.file = work[i].file /\ r.fn = work[i].fn /\ r.outcome \in Checked
      /\ r.of = RunOn(b, work[i].file, work[i].fn) /\ r.key = CacheKey(work[i])
  BY <1>3 DEF RunOne, OutcomeOn, Checked
<1>7. r \in Record
  <2>1. OutcomeOn(work[i].file) \in {"compile-error", "input-error", "timeout", "answered"}
    BY DEF OutcomeOn
  <2>2. RunOn(b, work[i].file, work[i].fn) \in Key
    BY <1>4, <1>5 DEF RunOn, Key, File, Name
  <2> QED
    BY <1>3, <1>5, <2>1, <2>2 DEF RunOne, Record, Name
<1>8. SourcesSeen' = SourcesSeen /\ FilesSeen' = FilesSeen /\ WorkSeen' = WorkSeen /\ WorkSeen = Len(work)
  BY <1>2 DEF SourcesSeen, FilesSeen, WorkSeen, Compiling
<1>9. Honest(r)
  <2>1. /\ r.key.fn = work[i].fn /\ r.key.content = ll[work[i].file] /\ r.key.binary = Build
        /\ r.of.fn = work[i].fn /\ r.of.content = ll[work[i].file]
    BY <1>6 DEF CacheKey, RunOn
  <2>2. Build = hashed
    <3>1. WorkSeen # 0
      BY <1>4, <1>8
    <3>2. hashed # 0
      BY <3>1 DEF IInv, Control
    <3> QED
      BY <3>2 DEF Build
  <2>3. r.key.binary \notin tainted => r.of = r.key
    <3>1. hashed # 0 /\ hashed \notin tainted => b = hashed
      BY <1>3 DEF IInv, BuildKept
    <3>2. hashed # 0
      BY <1>4, <1>8 DEF IInv, Control
    <3> QED
      BY <1>6, <2>1, <2>2, <3>1, <3>2 DEF CacheKey, RunOn
  <2> QED
    BY <1>5, <1>6, <2>1, <2>3 DEF Honest
<1>10. /\ records' \in Seq(Record) /\ RecordsHonest' /\ WorkCompiled'
       /\ SourcesOK' /\ FilesOK' /\ ListingOK'
  BY <1>1, <1>2, <1>3, <1>6, <1>7, <1>8, <1>9, RecordsGrow
<1>11. IsFiniteSet(running') /\ Cardinality(running') <= Jobs
  <2>1. PICK S : S = running \ {run}
    OBVIOUS
  <2>2. IsFiniteSet(running) /\ Cardinality(running) \in Nat /\ S \in SUBSET running
    BY <2>1, FS_CardinalityType DEF IInv, Control
  <2>3. IsFiniteSet(S) /\ Cardinality(S) <= Cardinality(running)
    BY <2>2, FS_Subset
  <2>4. Cardinality(S) \in Nat /\ Cardinality(running) <= Jobs
    BY <2>3, FS_CardinalityType DEF IInv, TypeOK
  <2>5. Cardinality(S) <= Jobs
    BY <2>2, <2>3, <2>4, SweepAssumption
  <2> QED
    BY <1>1, <2>1, <2>3, <2>5
<1>12. TypeOK'
  BY <1>1, <1>2, <1>10, <1>11 DEF IInv, TypeOK
<1>13. Control' /\ BuildKept'
  BY <1>1, <1>2, <1>8, <1>11 DEF IInv, Control, Compiling, BuildKept
<1>14. FilesOfSources' /\ StampsTrue' /\ Written'
  BY <1>2, DiskFrame DEF IInv, Written
<1>15. WorkOK'
  <2>1. \A k \in 1..Len(todo) : todo[k] # i
    BY <1>3 DEF IInv, WorkOK, Items
  <2>2. Items' = Items \ {i} /\ i \in Items
    BY <1>1, <1>3 DEF IInv, WorkOK, Items
  <2>3. Pending' = Pending \ {i} /\ i \in Pending
    BY <1>2, <2>1, <2>2 DEF Pending
  <2>4. i \notin WorkDone
    BY <2>3 DEF WorkDone
  <2>5. Reported(With(WorkDone, i), Append(records, r), Checked, ForWork)
    BY <1>4, <1>6, <2>4, WorkReported
  <2>6. WorkDone' = With(WorkDone, i)
    BY <1>4, <1>8, <2>3 DEF WorkDone, With
  <2>7. ForWork' = ForWork
    BY <1>2 DEF ForWork, CacheKey, Build
  <2>8. Reported(WorkDone', records', Checked, ForWork')
    BY <1>1, <1>3, <2>5, <2>6, <2>7
  <2>9. Pending' \subseteq 1..WorkSeen'
    BY <1>8, <2>3 DEF IInv, WorkOK
  <2>10. \A old, other \in running' : old.item = other.item => old = other
    BY <1>1 DEF IInv, WorkOK
  <2> QED
    BY <1>2, <2>2, <2>8, <2>9, <2>10 DEF IInv, WorkOK, Checked
<1> QED
  BY <1>10, <1>12, <1>13, <1>14, <1>15 DEF IInv

-----------------------------------------------------------------------------
(* The results                                                             *)

LEMMA OpenResultsStep ==
  ASSUME IInv, OpenResults
  PROVE  IInv'
<1> USE DEF OpenResults, history
<1>1. TypeOK'
  <2>1. results' \in Seq(Record \cup {Torn})
    BY EmptySeq
  <2> QED
    BY <2>1 DEF IInv, TypeOK
<1>2. FilesSeen' = FilesSeen /\ SourcesSeen' = SourcesSeen /\ WorkSeen' = WorkSeen
  BY DEF FilesSeen, WorkSeen, SourcesSeen, Compiling
<1>3. Control' /\ BuildKept'
  <2>1. 1 <= Len(records) + 1
    BY LenProperties DEF IInv, TypeOK
  <2> QED
    BY <1>2, <2>1 DEF IInv, Control, Compiling, BuildKept
<1>4. FilesOfSources' /\ StampsTrue'
  BY DiskFrame DEF IInv
<1>5. RecordsHonest' /\ WorkCompiled' /\ Written'
  BY DEF IInv, RecordsHonest, Honest, WorkCompiled, Written
<1> QED
  BY <1>1, <1>2, <1>3, <1>4, <1>5, SourcesFrame, FilesFrame, ListingFrame, WorkFrame DEF IInv

LEMMA WriteRecordStep ==
  ASSUME IInv, WriteRecord
  PROVE  IInv'
<1> USE DEF WriteRecord, history
<1>1. next \in 1..Len(records) /\ Len(records) \in Nat /\ Len(results) = next - 1
  BY LenProperties DEF IInv, TypeOK, Written
<1>2. PICK R, r : R = Record \cup {Torn} /\ r = records[next]
  OBVIOUS
<1>3. r \in Record
  BY <1>1, <1>2, ElementOfSeq DEF IInv, TypeOK
<1>4. results \in Seq(R) /\ r \in R
  BY <1>2, <1>3 DEF IInv, TypeOK
<1>5. /\ results' \in Seq(R) /\ Len(results') = next
      /\ \A k \in 1..(next - 1) : results'[k] = results[k]
      /\ results'[next] = r
  <2>1. /\ Append(results, r) \in Seq(R) /\ Len(Append(results, r)) = Len(results) + 1
        /\ \A k \in 1..Len(results) : Append(results, r)[k] = results[k]
        /\ Append(results, r)[Len(results) + 1] = r
    BY <1>4, AppendProperties
  <2>2. Len(results) + 1 = next /\ results' = Append(results, r)
    BY <1>1, <1>2
  <2> QED
    BY <1>1, <2>1, <2>2
<1>6. next' \in Nat \ {0} /\ next' - 1 = next /\ next' <= Len(records) + 1
  BY <1>1
<1>7. 1..next = 1..(next - 1) \cup {next}
  BY <1>1
<1>8. TypeOK'
  BY <1>2, <1>5, <1>6 DEF IInv, TypeOK
<1>9. FilesSeen' = FilesSeen /\ SourcesSeen' = SourcesSeen /\ WorkSeen' = WorkSeen
  BY DEF FilesSeen, WorkSeen, SourcesSeen, Compiling
<1>10. Control' /\ BuildKept'
  BY <1>6, <1>9 DEF IInv, Control, Compiling, BuildKept
<1>11. FilesOfSources' /\ StampsTrue' /\ WorkCompiled'
  BY DiskFrame DEF IInv, WorkCompiled
<1>12. \A k \in 1..next : results'[k] = records[k]
  BY <1>2, <1>5, <1>7 DEF IInv, Written
<1>13. RecordsHonest'
  <2>1. \A k \in 1..Len(results') : Honest(results[k])'
    <3>1. \A k \in 1..next : k \in 1..Len(records)
      BY <1>1
    <3>2. \A k \in 1..next : Honest(records[k])
      BY <3>1 DEF IInv, RecordsHonest
    <3> QED
      BY <1>5, <1>12, <3>2 DEF Honest
  <2> QED
    BY <2>1 DEF IInv, RecordsHonest, Honest
<1>14. Written'
  BY <1>5, <1>6, <1>12 DEF Written
<1> QED
  BY <1>8, <1>9, <1>10, <1>11, <1>13, <1>14, SourcesFrame, FilesFrame, ListingFrame, WorkFrame DEF IInv

LEMMA ReportStep ==
  ASSUME IInv, Report
  PROVE  IInv'
<1> USE DEF Report, disk, memory, history
<1>1. TypeOK'
  BY DEF IInv, TypeOK
<1>2. FilesSeen' = FilesSeen /\ SourcesSeen' = SourcesSeen /\ WorkSeen' = WorkSeen
  BY DEF FilesSeen, WorkSeen, SourcesSeen, Compiling
<1>3. Control' /\ BuildKept'
  BY <1>2 DEF IInv, Control, Compiling, BuildKept
<1>4. FilesOfSources' /\ StampsTrue'
  BY DiskFrame DEF IInv
<1>5. results = records
  <2>1. IsList(results) /\ IsList(records) /\ Len(records) \in Nat
    BY SeqIsList, LenProperties DEF IInv, TypeOK
  <2>2. Len(results) = Len(records)
    BY <2>1 DEF IInv, Written
  <2>3. \A k \in 1..Len(records) : results[k] = records[k]
    BY <2>1 DEF IInv, Written
  <2> QED
    BY <2>1, <2>2, <2>3 DEF IsList
<1>6. RecordsHonest' /\ WorkCompiled' /\ Written'
  BY <1>5 DEF IInv, RecordsHonest, Honest, WorkCompiled, Written
<1> QED
  BY <1>1, <1>2, <1>3, <1>4, <1>6, SourcesFrame, FilesFrame, ListingFrame, WorkFrame DEF IInv

LEMMA StutterStep ==
  ASSUME IInv, UNCHANGED vars
  PROVE  IInv'
<1> USE DEF vars, disk, memory, history
<1>1. TypeOK'
  BY DEF IInv, TypeOK
<1>2. FilesSeen' = FilesSeen /\ SourcesSeen' = SourcesSeen /\ WorkSeen' = WorkSeen /\ Compiling' = Compiling
  BY DEF FilesSeen, WorkSeen, SourcesSeen, Compiling
<1>3. Control' /\ BuildKept'
  BY <1>2 DEF IInv, Control, BuildKept
<1>4. FilesOfSources' /\ StampsTrue'
  BY DiskFrame DEF IInv
<1>5. RecordsHonest' /\ WorkCompiled' /\ Written'
  BY DEF IInv, RecordsHonest, Honest, WorkCompiled, Written
<1> QED
  BY <1>1, <1>2, <1>3, <1>4, <1>5, SourcesFrame, FilesFrame, ListingFrame, WorkFrame DEF IInv

-----------------------------------------------------------------------------
(* The theorems                                                            *)

(* The invariant holds in every state of every sequence of sweeps.         *)
THEOREM Invariant == Spec => []IInv
<1>1. Init => IInv
  BY InitOK
<1>2. IInv /\ [Next]_vars => IInv'
  <2> SUFFICES ASSUME IInv, [Next]_vars PROVE IInv'
    OBVIOUS
  <2>1. CASE \E c \in 1..N : Edit(c)
    BY <2>1, EditStep
  <2>2. CASE EditHeaders \/ Rebuild \/ Begin \/ Interrupt
    BY <2>2, EditHeadersStep, RebuildStep, BeginStep, InterruptStep
  <2>3. CASE Return
    BY <2>3, ExitStep DEF Return
  <2>4. CASE CheckStamp \/ CompileError \/ Compiled \/ WriteStamp
    BY <2>4, CheckStampStep, CompileErrorStep, CompiledStep, WriteStampStep
  <2>5. CASE ListWork \/ ListFile
    BY <2>5, ListWorkStep, ListFileStep
  <2>6. CASE LoadBaseline
    BY <2>6, ExitStep, LoadedStep DEF LoadBaseline
  <2>7. CASE Reuse \/ RunPool \/ Start \/ Finish
    BY <2>7, ReuseStep, RunPoolStep, StartStep, FinishStep
  <2>8. CASE OpenResults \/ WriteRecord \/ Report
    BY <2>8, OpenResultsStep, WriteRecordStep, ReportStep
  <2>9. CASE UNCHANGED vars
    BY <2>9, StutterStep
  <2> QED
    BY <2>1, <2>2, <2>3, <2>4, <2>5, <2>6, <2>7, <2>8, <2>9 DEF Next
<1> QED
  BY <1>1, <1>2, PTL DEF Spec

(* Type correctness; no more than Jobs processes run at a time.            *)
THEOREM TypeCorrect == Spec => []TypeOK
<1>1. IInv => TypeOK
  BY DEF IInv
<1> QED
  BY <1>1, Invariant, PTL

(* What a finished sweep says of a function was found on the file at hand, *)
(* by the build it hashed, unless that was replaced while it was run.      *)
THEOREM ResultsCurrent == Spec => []RecordsCurrent
<1>1. IInv => RecordsCurrent
  <2> SUFFICES ASSUME IInv, pc = "done", hashed \notin tainted,
                      NEW i \in 1..Len(results), results[i].outcome \in Checked
               PROVE  results[i].of = RunOn(hashed, results[i].file, results[i].fn)
    BY DEF RecordsCurrent
  <2>1. results = records
    BY DEF IInv, Written
  <2>2. i \in LinesOf(records, Checked)
    BY <2>1 DEF LinesOf
  <2>3. PICK line \in Bijection(WorkDone, LinesOf(records, Checked)) :
          \A x \in WorkDone :
            Want(records[line[x]].file, records[line[x]].fn, records[line[x]].key) = ForWork[x]
    BY DEF IInv, WorkOK, Reported
  <2>4. PICK x \in WorkDone : line[x] = i
    BY <2>2, <2>3 DEF Bijection, Surjection
  <2>5. x \in 1..Len(work) /\ WorkSeen # 0
    BY <2>4 DEF WorkDone, WorkSeen, Compiling
  <2>6. Want(records[i].file, records[i].fn, records[i].key)
          = Want(work[x].file, work[x].fn, CacheKey(work[x]))
    BY <2>3, <2>4, <2>5 DEF ForWork
  <2>7. /\ records[i].file = work[x].file /\ records[i].fn = work[x].fn
        /\ records[i].key = CacheKey(work[x])
    BY <2>6 DEF Want
  <2>8. CacheKey(work[x]) = RunOn(hashed, work[x].file, work[x].fn)
    BY <2>5 DEF IInv, Control, CacheKey, RunOn, Build
  <2>9. Honest(records[i]) /\ records[i].outcome \in Checked
    BY <2>1 DEF IInv, RecordsHonest
  <2>10. records[i].key.binary = hashed
    BY <2>7, <2>8 DEF RunOn
  <2>11. records[i].of = records[i].key
    BY <2>9, <2>10 DEF Honest
  <2> QED
    BY <2>1, <2>7, <2>8, <2>11
<1> QED
  BY <1>1, Invariant, PTL

LEMMA BijectionFacts ==
  ASSUME NEW S, NEW T, NEW f \in Bijection(S, T)
  PROVE  /\ f \in [S -> T] /\ \A t \in T : \E s \in S : f[s] = t
         /\ \A a, b \in S : f[a] = f[b] => a = b
BY DEF Bijection, Injection, Surjection, IsInjective

LEMMA BijectionFrom ==
  ASSUME NEW S, NEW T, NEW f \in [S -> T], \A t \in T : \E s \in S : f[s] = t,
         \A a, b \in S : f[a] = f[b] => a = b
  PROVE  f \in Bijection(S, T)
BY DEF Bijection, Injection, Surjection, IsInjective

(* One bijection after another                                             *)
LEMMA BijectionAfter ==
  ASSUME NEW S, NEW T, NEW U, NEW f \in Bijection(S, T), NEW g \in Bijection(T, U)
  PROVE  \E h \in Bijection(S, U) : \A s \in S : h[s] = g[f[s]]
<1>1. /\ f \in [S -> T] /\ \A t \in T : \E s \in S : f[s] = t
      /\ \A a, b \in S : f[a] = f[b] => a = b
  BY BijectionFacts
<1>2. /\ g \in [T -> U] /\ \A u \in U : \E t \in T : g[t] = u
      /\ \A a, b \in T : g[a] = g[b] => a = b
  BY BijectionFacts
<1>3. PICK h : h = [s \in S |-> g[f[s]]]
  OBVIOUS
<1>4. h \in [S -> U] /\ \A s \in S : h[s] = g[f[s]]
  BY <1>1, <1>2, <1>3
<1>5. \A u \in U : \E s \in S : h[s] = u
  BY <1>1, <1>2, <1>4
<1>6. \A a, b \in S : h[a] = h[b] => a = b
  BY <1>1, <1>2, <1>4
<1>7. h \in Bijection(S, U)
  BY <1>4, <1>5, <1>6, BijectionFrom
<1> QED
  BY <1>4, <1>7

LEMMA WantFields ==
  ASSUME NEW a, NEW b, NEW c, NEW d, NEW e, NEW f, Want(a, b, c) = Want(d, e, f)
  PROVE  a = d /\ b = e /\ c = f
BY DEF Want

FunctionsOfAll(S) == UNION {FunctionsOf(c) : c \in S}
PlacedIn(S, n, place) ==
  place \in Bijection(S, 1..n) /\ \A c \in S : files[place[c]] = stem[c]
ListedIn(S, n, place) ==
  \E f \in Bijection(FunctionsOfAll(S), ListedTo(n)) :
    \A l \in FunctionsOfAll(S) : f[l] = <<place[l[1]], l[2]>>

(* When the sources' files stand at some places of the list, the functions *)
(* of the sources are those listed for the places.                         *)
LEMMA ListedByPlace ==
  ASSUME NEW S, NEW n \in Nat, NEW place, PlacedIn(S, n, place)
  PROVE  ListedIn(S, n, place)
<1>0. place \in Bijection(S, 1..n) /\ \A c \in S : files[place[c]] = stem[c]
  BY DEF PlacedIn
<1>1. PICK L, M : L = FunctionsOfAll(S) /\ M = ListedTo(n)
  OBVIOUS
<1>2. PICK f : f = [l \in L |-> <<place[l[1]], l[2]>>]
  OBVIOUS
<1>3. /\ place \in [S -> 1..n] /\ \A i \in 1..n : \E c \in S : place[c] = i
      /\ \A a, b \in S : place[a] = place[b] => a = b
  BY <1>0 DEF Bijection, Injection, Surjection, IsInjective
<1>4. /\ \A l \in L : \E c \in S : \E j \in 1..Len(FunctionsIn(stem[c])) : l = <<c, j>>
      /\ \A c \in S : \A j \in 1..Len(FunctionsIn(stem[c])) : <<c, j>> \in L
  BY <1>1 DEF FunctionsOfAll, FunctionsOf
<1>5. /\ \A m \in M : \E i \in 1..n : \E j \in 1..Len(FunctionsIn(files[i])) : m = <<i, j>>
      /\ \A i \in 1..n : \A j \in 1..Len(FunctionsIn(files[i])) : <<i, j>> \in M
  BY <1>1, ListedElements
<1>6. ASSUME NEW c \in S, NEW j \in 1..Len(FunctionsIn(stem[c]))
      PROVE  <<c, j>> \in L /\ f[<<c, j>>] = <<place[c], j>> /\ <<place[c], j>> \in M
  <2>1. <<c, j>> \in L
    BY <1>4
  <2>2. f[<<c, j>>] = <<place[c], j>>
    BY <1>2, <2>1
  <2>3. place[c] \in 1..n /\ FunctionsIn(files[place[c]]) = FunctionsIn(stem[c])
    BY <1>0, <1>3
  <2>4. <<place[c], j>> \in M
    BY <1>5, <2>3
  <2> QED
    BY <2>1, <2>2, <2>4
<1>7. f \in [L -> M]
  <2>1. \A l \in L : f[l] \in M
    <3> SUFFICES ASSUME NEW l \in L PROVE f[l] \in M
      OBVIOUS
    <3>1. PICK c \in S : \E j \in 1..Len(FunctionsIn(stem[c])) : l = <<c, j>>
      BY <1>4
    <3>2. PICK j \in 1..Len(FunctionsIn(stem[c])) : l = <<c, j>>
      BY <3>1
    <3> QED
      BY <1>6, <3>2
  <2> QED
    BY <1>2, <2>1
<1>8. \A m \in M : \E l \in L : f[l] = m
  <2> SUFFICES ASSUME NEW m \in M PROVE \E l \in L : f[l] = m
    OBVIOUS
  <2>1. PICK i \in 1..n : \E j \in 1..Len(FunctionsIn(files[i])) : m = <<i, j>>
    BY <1>5
  <2>2. PICK j \in 1..Len(FunctionsIn(files[i])) : m = <<i, j>>
    BY <2>1
  <2>3. PICK c \in S : place[c] = i
    BY <1>3
  <2>4. j \in 1..Len(FunctionsIn(stem[c]))
    BY <1>0, <2>2, <2>3
  <2> QED
    BY <1>6, <2>2, <2>3, <2>4
<1>9. \A a, b \in L : f[a] = f[b] => a = b
  <2> SUFFICES ASSUME NEW a \in L, NEW b \in L, f[a] = f[b] PROVE a = b
    OBVIOUS
  <2>1. PICK c \in S : \E j \in 1..Len(FunctionsIn(stem[c])) : a = <<c, j>>
    BY <1>4
  <2>2. PICK j \in 1..Len(FunctionsIn(stem[c])) : a = <<c, j>>
    BY <2>1
  <2>3. PICK d \in S : \E k \in 1..Len(FunctionsIn(stem[d])) : b = <<d, k>>
    BY <1>4
  <2>4. PICK k \in 1..Len(FunctionsIn(stem[d])) : b = <<d, k>>
    BY <2>3
  <2>5. <<place[c], j>> = <<place[d], k>>
    <3>1. f[a] = <<place[c], j>>
      BY <1>6, <2>2
    <3>2. f[b] = <<place[d], k>>
      BY <1>6, <2>4
    <3> QED
      BY <3>1, <3>2
  <2>6. place[c] = place[d] /\ j = k
    BY <2>5
  <2> QED
    BY <1>3, <2>2, <2>4, <2>6
<1>10. f \in Bijection(L, M)
  BY <1>7, <1>8, <1>9, BijectionFrom
<1> QED
  BY <1>1, <1>2, <1>10 DEF ListedIn

(* The finished results have one line for each source that does not        *)
(* compile, for each other source without functions and for each function  *)
(* of the others, found on a file made from that source, and none besides; *)
(* if each source has a stem of its own.                                   *)
THEOREM ResultsComplete == Spec => []ReportComplete
<1>1. IInv => ReportComplete
  <2> SUFFICES ASSUME IInv, pc = "done", DistinctStems
               PROVE  SourcesReported /\ FilesReported /\ FunctionsReported
    BY DEF ReportComplete
  <2>1. results = records /\ todo = << >> /\ running = {}
    BY DEF IInv, Written, Control
  <2>2. \A O : ResultLines(O) = LinesOf(records, O)
    BY <2>1 DEF ResultLines, LinesOf
  <2>3. SourcesSeen = N /\ FilesSeen = Len(files) /\ WorkSeen = Len(work) /\ Len(files) \in Nat
    BY LenProperties DEF SourcesSeen, FilesSeen, WorkSeen, Compiling, IInv, TypeOK
  <2>4. PICK failed \in SUBSET (1..N) :
          /\ Reported(failed, records, {"compile-error"}, ForSources)
          /\ Placed((1..N) \ failed)
    BY <2>3 DEF IInv, SourcesOK
  <2>5. PICK line \in Bijection(failed, LinesOf(records, {"compile-error"})) :
          \A c \in failed : Want(records[line[c]].file, records[line[c]].fn, records[line[c]].key) = ForSources[c]
    BY <2>4 DEF Reported
  <2>6. \A c \in failed : results[line[c]].file = c
    <3> SUFFICES ASSUME NEW c \in failed PROVE records[line[c]].file = c
      BY <2>1
    <3>1. ForSources[c] = Want(c, NoName, NoKey)
      BY <2>4 DEF ForSources
    <3> QED
      BY <2>5, <3>1, WantFields
  <2>7. line \in Bijection(failed, ResultLines({"compile-error"}))
    BY <2>2
  <2>8. Failed = failed
    <3>1. PICK T : T = ResultLines({"compile-error"})
      OBVIOUS
    <3>2. line \in Bijection(failed, T)
      BY <2>7, <3>1
    <3>3. (\A c \in failed : line[c] \in T) /\ (\A i \in T : \E c \in failed : line[c] = i)
      BY <3>2 DEF Bijection, Injection, Surjection
    <3>4. Failed = {c \in 1..N : \E i \in T : results[i].file = c}
      BY <3>1 DEF Failed
    <3>5. \A c \in 1..N : c \in failed <=> \E i \in T : results[i].file = c
      BY <2>6, <3>3
    <3> QED
      BY <3>4, <3>5
  <2>9. PICK S, n : S = (1..N) \ Failed /\ n = Len(files)
    OBVIOUS
  <2>10. PICK place \in Bijection(S, 1..n) : \A c \in S : files[place[c]] = stem[c]
    BY <2>4, <2>8, <2>9 DEF Placed
  <2>11. SourcesReported
    BY <2>6, <2>7, <2>8, <2>9, <2>10 DEF SourcesReported
  <2>12. FilesReported
    <3>1. PICK bare, without : bare = {c \in S : FunctionsIn(stem[c]) = << >>} /\ without = Bare(n)
      OBVIOUS
    <3>2. PICK at \in Bijection(without, LinesOf(records, {"input-error"})) :
            \A i \in without : Want(records[at[i]].file, records[at[i]].fn, records[at[i]].key) = ForFiles[i]
      BY <2>3, <2>9, <3>1 DEF IInv, FilesOK, Reported
    <3>3. \A i \in without : results[at[i]].file = files[i]
      <4> SUFFICES ASSUME NEW i \in without PROVE records[at[i]].file = files[i]
        BY <2>1
      <4>1. ForFiles[i] = Want(files[i], NoName, NoKey)
        BY <2>9, <3>1 DEF ForFiles, Bare
      <4> QED
        BY <3>2, <4>1, WantFields
    <3>4. PICK to \in Bijection(bare, without) : \A c \in bare : to[c] = place[c]
      <4>1. bare \in SUBSET S /\ without \in SUBSET (1..n)
        BY <3>1 DEF Bare
      <4>2. \A c \in S : place[c] \in 1..n
        BY <2>10 DEF Bijection, Injection
      <4>3. \A c \in S : c \in bare <=> place[c] \in without
        BY <2>10, <3>1, <4>2 DEF Bare
      <4>4. PICK to : to = [c \in bare |-> place[c]]
        OBVIOUS
      <4>5. to \in [bare -> without] /\ \A c \in bare : to[c] = place[c]
        BY <4>1, <4>3, <4>4
      <4>6. (\A i \in 1..n : \E c \in S : place[c] = i) /\ (\A a, b \in S : place[a] = place[b] => a = b)
        BY <2>10 DEF Bijection, Injection, Surjection, IsInjective
      <4>7. \A i \in without : \E c \in bare : to[c] = i
        BY <4>1, <4>3, <4>5, <4>6
      <4>8. \A a, b \in bare : to[a] = to[b] => a = b
        BY <4>1, <4>5, <4>6
      <4>9. to \in Bijection(bare, without)
        BY <4>5, <4>7, <4>8, BijectionFrom
      <4> QED
        BY <4>5, <4>9
    <3>5. PICK T : T = ResultLines({"input-error"})
      OBVIOUS
    <3>6. at \in Bijection(without, T)
      BY <2>2, <3>5
    <3>7. PICK both \in Bijection(bare, T) : \A c \in bare : both[c] = at[to[c]]
      BY <3>6, BijectionAfter
    <3>8. \A c \in bare : results[both[c]].file = stem[c]
      <4>1. \A c \in bare : c \in S /\ to[c] \in without
        BY <3>1, <3>4, BijectionFacts
      <4> QED
        BY <2>10, <3>3, <3>4, <3>7, <4>1
    <3> QED
      BY <2>9, <3>1, <3>5, <3>7, <3>8 DEF FilesReported
  <2>13. FunctionsReported
    <3>1. PICK L, M, I, T : /\ L = FunctionsOfAll(S) /\ M = ListedTo(n)
                            /\ I = 1..Len(work) /\ T = ResultLines(Checked)
      OBVIOUS
    <3>2. WorkDone = I
      BY <2>1, <2>3, <3>1 DEF WorkDone, Pending, Items
    <3>3. PICK f \in Bijection(L, M) : \A l \in L : f[l] = <<place[l[1]], l[2]>>
      <4>1. n \in Nat /\ PlacedIn(S, n, place)
        BY <2>3, <2>9, <2>10 DEF PlacedIn
      <4>2. ListedIn(S, n, place)
        BY <4>1, ListedByPlace
      <4> QED
        BY <3>1, <4>2 DEF ListedIn
    <3>4. PICK item \in Bijection(M, I) :
            \A l \in M : work[item[l]] = [file |-> files[l[1]], fn |-> FunctionsIn(files[l[1]])[l[2]]]
      BY <2>3, <2>9, <3>1 DEF IInv, ListingOK
    <3>5. PICK at \in Bijection(I, T) :
            \A i \in I : Want(records[at[i]].file, records[at[i]].fn, records[at[i]].key) = ForWork[i]
      BY <2>2, <3>1, <3>2 DEF IInv, WorkOK, Reported
    <3>6. PICK g \in Bijection(L, I) : \A l \in L : g[l] = item[f[l]]
      BY BijectionAfter
    <3>7. PICK h \in Bijection(L, T) : \A l \in L : h[l] = at[g[l]]
      BY BijectionAfter
    <3>8. ASSUME NEW l \in L
          PROVE  /\ results[h[l]].file = stem[l[1]]
                 /\ results[h[l]].fn = FunctionsIn(stem[l[1]])[l[2]]
                 /\ results[h[l]].of.content.of = l[1]
      <4>1. PICK c \in S : \E j \in 1..Len(FunctionsIn(stem[c])) : l = <<c, j>>
        BY <3>1 DEF FunctionsOfAll, FunctionsOf
      <4>2. PICK j \in 1..Len(FunctionsIn(stem[c])) : l = <<c, j>>
        BY <4>1
      <4>3. PICK p, i : p = place[c] /\ i = g[l]
        OBVIOUS
      <4>4. /\ f[l] = <<p, j>> /\ f[l] \in M /\ i = item[f[l]] /\ i \in I
            /\ files[p] = stem[c] /\ h[l] = at[i] /\ at[i] \in T
        <5>1. f \in [L -> M] /\ at \in [I -> T] /\ g \in [L -> I]
          BY DEF Bijection, Injection
        <5>2. l[1] = c /\ l[2] = j
          BY <4>2
        <5>3. f[l] = <<p, j>>
          BY <3>3, <4>3, <5>2
        <5>4. f[l] \in M /\ g[l] \in I /\ at[g[l]] \in T
          BY <5>1
        <5> QED
          BY <2>10, <3>6, <3>7, <4>3, <5>3, <5>4
      <4>5. work[i].file = stem[c] /\ work[i].fn = FunctionsIn(stem[c])[j]
        <5>1. work[i] = [file |-> files[f[l][1]], fn |-> FunctionsIn(files[f[l][1]])[f[l][2]]]
          BY <3>4, <4>4
        <5>2. f[l][1] = p /\ f[l][2] = j
          BY <4>4
        <5>3. PICK name : name = FunctionsIn(stem[c])[j]
          OBVIOUS
        <5>4. work[i] = [file |-> stem[c], fn |-> name]
          BY <4>4, <5>1, <5>2, <5>3
        <5> QED
          BY <5>3, <5>4
      <4>6. ForWork[i] = Want(work[i].file, work[i].fn, CacheKey(work[i]))
        BY <3>1, <4>4 DEF ForWork
      <4>7. /\ results[h[l]].file = work[i].file /\ results[h[l]].fn = work[i].fn
            /\ results[h[l]].key = CacheKey(work[i])
        BY <2>1, <3>5, <4>4, <4>6, WantFields
      <4>8. h[l] \in 1..Len(results) /\ results[h[l]].outcome \in Checked
        BY <3>1, <4>4 DEF ResultLines
      <4>9. results[h[l]].of.content = ll[stem[c]]
        <5>1. Honest(results[h[l]])
          BY <4>8 DEF IInv, RecordsHonest
        <5>2. results[h[l]].of.content = results[h[l]].key.content
          BY <4>8, <5>1 DEF Honest
        <5> QED
          BY <4>5, <4>7, <5>2 DEF CacheKey
      <4>10. ll[stem[c]].of = c
        <5>1. ll[stem[c]] \in Files /\ stem[ll[stem[c]].of] = stem[c]
          BY <3>1, <4>4, <4>5, WorkItem
        <5>2. ll[stem[c]].of \in 1..N /\ c \in 1..N
          BY <2>9, <5>1, ContentFields
        <5> QED
          BY <5>1, <5>2 DEF DistinctStems
      <4> QED
        BY <4>2, <4>5, <4>7, <4>9, <4>10
    <3> QED
      BY <2>9, <3>1, <3>7, <3>8 DEF FunctionsReported, FunctionsOfAll
  <2> QED
    BY <2>11, <2>12, <2>13
<1> QED
  BY <1>1, Invariant, PTL

(* A source that is not recompiled has a file made from what it is now, if *)
(* its compilation was not disturbed or it was not changed back.           *)
THEOREM SkipsFaithful == Spec => SkipFaithful
<1>1. IInv /\ [Next]_vars =>
        [DistinctStems /\ pc = "compile" /\ next <= N /\ next' = next + 1
         /\ (Stem \in disturbed => source[next] \notin past[next])
           => MadeFrom(ll[Stem], source[next])]_vars
  <2> SUFFICES ASSUME IInv, [Next]_vars, DistinctStems, pc = "compile", next <= N, next' = next + 1,
                      Stem \in disturbed => source[next] \notin past[next]
               PROVE  MadeFrom(ll[Stem], source[next])
    OBVIOUS
  <2>1. next \in 1..N /\ next' # next /\ next' # 1
    BY DEF IInv, TypeOK
  <2>2. source[next] \in Contents /\ source[next] # NoContent
    BY <2>1, StemType, ContentFields
  <2>3. ll[Stem] # NoFile /\ stamp[Stem] = source[next]
    <3>1. ~ (UNCHANGED next) /\ next' # 1 /\ ~ Forget
      BY <2>1 DEF Forget
    <3>2. CheckStamp
      BY <3>1 DEF Next, vars, memory, disk, history, Edit, EditHeaders, Rebuild, Begin, Interrupt, Return, Exit,
                  CompileError, Compiled, WriteStamp, ListWork, ListFile, LoadBaseline, Reuse, RunPool, Start,
                  Finish, OpenResults, WriteRecord, Report
    <3> QED
      BY <3>1, <3>2 DEF CheckStamp
  <2>4. FileAsStamped(next) /\ FileAsNew(next)
    BY <2>1 DEF IInv, StampsTrue
  <2> QED
    BY <2>2, <2>3, <2>4 DEF FileAsStamped, FileAsNew, Stem
<1> QED
  BY <1>1, Invariant, PTL DEF Spec, SkipFaithful
=============================================================================
