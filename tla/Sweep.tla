-------------------------------- MODULE Sweep --------------------------------
(***************************************************************************)
(* Sweeps over a corpus of C files: scripts/corpus_run.py main as          *)
(* scripts/m4-sweep.sh starts it, with what it leaves on disk for the next *)
(* sweep (compiled files and their stamps, the results).  At any time the  *)
(* sources and the headers they include are edited, or changed back, and   *)
(* bpf-tv is rebuilt, and a sweep can be interrupted at any step.  One     *)
(* process of bpf-tv is module Harness; here it is what it is run on.      *)
(*                                                                         *)
(* A hash stands for what is hashed.  Sources are numbered in the order    *)
(* they are swept in.  Compiler and flags, which are part of the stamps,   *)
(* and the solver's timeout and flags, part of the cache keys, stay the    *)
(* same.                                                                   *)
(***************************************************************************)
EXTENDS Integers, Sequences, FiniteSets, Functions

CONSTANTS
  N,          \* the number of sources
  Layouts,    \* the stems that sources may have
  Contents,   \* the contents a source may have: its number and version
  Headers,    \* the contents that the headers may have
  Files,      \* the compiled files there may be, which name their source
  Clang,      \* what a content compiles to with given headers
  Names,      \* the names of functions
  Defines,    \* the functions in a compiled file
  Needs,      \* the time bpf-tv needs for a function of it
  Caps,       \* the wall-clock caps a sweep may be given
  Jobs,       \* the number of workers
  Builds,     \* the builds of bpf-tv, numbered from 1
  MaxSweeps   \* a bound of the model

NoName == "none"
NoContent == [of |-> 0, version |-> 0]
NoFile == [of |-> 0, text |-> 0]

ASSUME SweepAssumption ==
  /\ N \in Nat \ {0} /\ Jobs \in Nat \ {0} /\ MaxSweeps \in Nat
  /\ Builds \subseteq Nat \ {0}
  /\ \A layout \in Layouts : DOMAIN layout = 1..N
  /\ Contents \subseteq [of : 1..N, version : Nat]
  /\ Files \subseteq [of : 1..N, text : Nat]
  /\ Clang \in [Contents -> [Headers -> Files \cup {NoFile}]]
  /\ \A c \in Contents, h \in Headers : Clang[c][h] # NoFile => Clang[c][h].of = c.of
  /\ Defines \in [Files -> Seq(Names)]
  /\ Needs \in [Files -> Nat] /\ Caps \subseteq Nat

VARIABLES
  stem,       \* the stem of each source's name
  source,     \* the content of each source
  headers,    \* the content of the headers
  binary,     \* the build of bpf-tv
  ll, stamp,  \* by stem: the compiled file, and the content that its stamp says
              \* it was made from
  results,    \* the lines of corpus-results.jsonl
  sweeps,     \* the number of sweeps begun
  cap,        \* of a sweep: its --wall-cap
  baseline,   \*   the lines of the file given with --reuse
  pc,         \*   its stage, "idle" between sweeps
  next,       \*   the source, file, work item or record to be looked at
  key,        \*   the stamp of the source being compiled
  files,      \*   the compiled files
  records,    \*   the records so far, with what each was found on ("of")
  work,       \*   the functions to be checked: stem and name
  todo,       \*   those left to run
  running,    \*   those being run, with the build each was started from
  hashed,     \*   the build whose hash goes into the keys, 0 before the first
  past,       \* history: the contents each source had before,
  disturbed,  \*   the stems of which a source was edited while it was compiled, or
              \*   whose compilation was interrupted before the stamp was written,
  tainted     \*   the builds that were replaced while a sweep was running them

disk == <<stem, source, headers, binary, ll, stamp, results>>
memory == <<next, key, files, records, work, todo, running, hashed>>
history == <<past, disturbed, tainted>>
vars == <<disk, sweeps, cap, baseline, pc, memory, history>>

Stems == {layout[c] : layout \in Layouts, c \in 1..N}

Init ==
  /\ stem \in Layouts
  /\ source \in [1..N -> Contents] /\ \A c \in 1..N : source[c].of = c
  /\ headers \in Headers
  /\ binary \in Builds
  /\ ll = [s \in Stems |-> NoFile]
  /\ stamp = [s \in Stems |-> NoContent]
  /\ results = << >>
  /\ sweeps = 0
  /\ cap \in Caps
  /\ baseline = << >>
  /\ pc = "idle"
  /\ next = 1
  /\ key = NoContent
  /\ files = << >> /\ records = << >> /\ work = << >> /\ todo = << >> /\ running = {}
  /\ hashed = 0
  /\ past = [c \in 1..N |-> {}] /\ disturbed = {} /\ tainted = {}

-----------------------------------------------------------------------------
(* The world around the sweep                                              *)

(* A source is edited, or changed back to what it was.                     *)
Edit(c) ==
  /\ \E new \in Contents \ {source[c]} :
       new.of = c /\ source' = [source EXCEPT ![c] = new]
  /\ past' = [past EXCEPT ![c] = @ \cup {source[c]}]
  /\ disturbed' = IF pc = "clang" /\ c = next THEN disturbed \cup {stem[c]} ELSE disturbed
  /\ UNCHANGED <<stem, headers, binary, ll, stamp, results, sweeps, cap, baseline, pc, memory, tainted>>

EditHeaders ==
  /\ headers' \in Headers \ {headers}
  /\ UNCHANGED <<stem, source, binary, ll, stamp, results, sweeps, cap, baseline, pc, memory, history>>

(* bpf-tv is built anew, or as it was before.  Workers start it anew for   *)
(* each function.                                                          *)
Rebuild ==
  /\ binary' \in Builds \ {binary}
  /\ tainted' = IF hashed # 0 /\ pc \in {"reuse", "run"} THEN tainted \cup {hashed} ELSE tainted
  /\ UNCHANGED <<stem, source, headers, ll, stamp, results, sweeps, cap, baseline, pc, memory,
                 past, disturbed>>

(* The process is gone, and with it what it had in memory.                 *)
Forget ==
  /\ pc' = "idle"
  /\ next' = 1 /\ key' = NoContent
  /\ files' = << >> /\ records' = << >> /\ work' = << >> /\ todo' = << >> /\ running' = {}
  /\ hashed' = 0 /\ baseline' = << >>

Exit == Forget /\ UNCHANGED <<disk, sweeps, cap, history>>
Return == pc = "done" /\ Exit

(* Killed, or by an exception: clang taking too long, no space left.  The   *)
(* line being written may be cut short.                                    *)
NoKey == [binary |-> 0, content |-> NoFile, fn |-> NoName]
Torn == [file |-> 1, fn |-> NoName, outcome |-> "torn", of |-> NoKey, key |-> NoKey]

Interrupt ==
  /\ pc \notin {"idle", "done"}
  /\ \/ UNCHANGED results
     \/ pc = "write" /\ next <= Len(records) /\ results' = Append(results, Torn)
  /\ disturbed' = IF pc = "stamp" THEN disturbed \cup {stem[next]} ELSE disturbed
  /\ UNCHANGED <<stem, source, headers, binary, ll, stamp, sweeps, cap, past, tainted>>
  /\ Forget

(* With REUSE=1 the results of the last sweep, if there are any, are copied *)
(* and given as the baseline.                                              *)
Begin ==
  /\ pc = "idle"
  /\ sweeps < MaxSweeps
  /\ sweeps' = sweeps + 1
  /\ cap' \in Caps
  /\ baseline' \in {<< >>, results}
  /\ pc' = "compile"
  /\ UNCHANGED <<disk, memory, history>>

-----------------------------------------------------------------------------
(* Compiling the corpus                                                    *)

Stem == stem[next]

(* Mutation of CheckStamp: the stamp is written before clang is run.       *)
StampFirst ==
  /\ pc = "compile" /\ next <= N
  /\ IF ll[Stem] # NoFile /\ stamp[Stem] = source[next]
       THEN files' = Append(files, Stem) /\ next' = next + 1 /\ UNCHANGED <<pc, key, stamp>>
       ELSE /\ pc' = "clang" /\ key' = source[next]
            /\ stamp' = [stamp EXCEPT ![Stem] = source[next]]
            /\ UNCHANGED <<files, next>>
  /\ UNCHANGED <<stem, source, headers, binary, ll, results, sweeps, cap, baseline, records, work,
                 todo, running, hashed, history>>

CheckStamp ==
  /\ pc = "compile" /\ next <= N
  /\ IF ll[Stem] # NoFile /\ stamp[Stem] = source[next]
       THEN files' = Append(files, Stem) /\ next' = next + 1 /\ UNCHANGED <<pc, key>>
       ELSE pc' = "clang" /\ key' = source[next] /\ UNCHANGED <<files, next>>
  /\ UNCHANGED <<disk, sweeps, cap, baseline, records, work, todo, running, hashed, history>>

ErrorRecord(file, outcome) ==
  [file |-> file, fn |-> NoName, outcome |-> outcome, of |-> NoKey, key |-> NoKey]

(* Clang reads the source and its headers as they are by now.              *)
Output == Clang[source[next]][headers]

(* The clang that fails may delete what an earlier one made.               *)
CompileError ==
  /\ pc = "clang"
  /\ Output = NoFile
  /\ ll' \in {ll, [ll EXCEPT ![Stem] = NoFile]}
  /\ records' = Append(records, ErrorRecord(next, "compile-error"))
  /\ next' = next + 1
  /\ pc' = "compile"
  /\ UNCHANGED <<stem, source, headers, binary, stamp, results, sweeps, cap, baseline,
                 key, files, work, todo, running, hashed, history>>

Compiled ==
  /\ pc = "clang"
  /\ Output # NoFile
  /\ ll' = [ll EXCEPT ![Stem] = Output]
  /\ pc' = "stamp"
  /\ UNCHANGED <<stem, source, headers, binary, stamp, results, sweeps, cap, baseline, memory, history>>

WriteStamp ==
  /\ pc = "stamp"
  /\ stamp' = [stamp EXCEPT ![Stem] = key]
  /\ files' = Append(files, Stem)
  /\ next' = next + 1
  /\ pc' = "compile"
  /\ UNCHANGED <<stem, source, headers, binary, ll, results, sweeps, cap, baseline,
                 key, records, work, todo, running, hashed, history>>

-----------------------------------------------------------------------------
(* What is to be run, and what need not be                                 *)

FunctionsIn(s) == IF ll[s] = NoFile THEN << >> ELSE Defines[ll[s]]

ListWork ==
  /\ pc = "compile" /\ next = N + 1
  /\ pc' = "list"
  /\ next' = 1
  /\ UNCHANGED <<disk, sweeps, cap, baseline, key, files, records, work, todo, running, hashed, history>>

ListFile ==
  /\ pc = "list" /\ next <= Len(files)
  /\ LET file == files[next]
         fns == FunctionsIn(file)
     IN  /\ records' = IF fns = << >> THEN Append(records, ErrorRecord(file, "input-error"))
                                      ELSE records
         /\ work' = work \o [j \in 1..Len(fns) |-> [file |-> file, fn |-> fns[j]]]
  /\ next' = next + 1
  /\ UNCHANGED <<disk, sweeps, cap, baseline, pc, key, files, todo, running, hashed, history>>

(* A baseline with a line cut short ends the sweep.                        *)
LoadBaseline ==
  /\ pc = "list" /\ next = Len(files) + 1
  /\ IF \E i \in 1..Len(baseline) : baseline[i] = Torn
       THEN Exit
       ELSE /\ pc' = "reuse" /\ next' = 1
            /\ UNCHANGED <<disk, sweeps, cap, baseline, key, files, records, work, todo, running, hashed, history>>

(* The hash of bpf-tv is taken once, when it is first asked for.           *)
Build == IF hashed = 0 THEN binary ELSE hashed

(* Mutation of CacheKey: bpf-tv is not part of the key.                    *)
KeyWithoutBinary(w) == [binary |-> 1, content |-> ll[w.file], fn |-> w.fn]

CacheKey(w) == [binary |-> Build, content |-> ll[w.file], fn |-> w.fn]

(* The baseline's lines with this key; the last one counts.                *)
Hits(w) == {i \in 1..Len(baseline) : baseline[i].key = CacheKey(w)}

(* Mutation of Reuse: a hit is taken and the function run all the same.    *)
ReuseAndRun ==
  /\ pc = "reuse" /\ next <= Len(work)
  /\ todo' = Append(todo, next)
  /\ IF Hits(work[next]) # {}
       THEN records' = Append(records, baseline[CHOOSE i \in Hits(work[next]) : TRUE])
       ELSE UNCHANGED records
  /\ next' = next + 1 /\ hashed' = Build
  /\ UNCHANGED <<disk, sweeps, cap, baseline, pc, key, files, work, running, history>>

(* Mutation of Reuse: the position is advanced before it is listed.        *)
AdvanceThenReuse ==
  /\ pc = "reuse" /\ next <= Len(work)
  /\ LET hits == Hits(work[next])
     IN  IF hits # {}
           THEN /\ records' = Append(records, baseline[CHOOSE i \in hits : \A j \in hits : j <= i])
                /\ UNCHANGED todo
           ELSE todo' = Append(todo, next + 1) /\ UNCHANGED records
  /\ next' = next + 1 /\ hashed' = Build
  /\ UNCHANGED <<disk, sweeps, cap, baseline, pc, key, files, work, running, history>>

Reuse ==
  /\ pc = "reuse" /\ next <= Len(work)
  /\ LET hits == Hits(work[next])
     IN  IF hits # {}
           THEN /\ records' = Append(records, baseline[CHOOSE i \in hits : \A j \in hits : j <= i])
                /\ UNCHANGED todo
           ELSE todo' = Append(todo, next) /\ UNCHANGED records
  /\ next' = next + 1 /\ hashed' = Build
  /\ UNCHANGED <<disk, sweeps, cap, baseline, pc, key, files, work, running, history>>

RunPool ==
  /\ pc = "reuse" /\ next = Len(work) + 1
  /\ pc' = "run"
  /\ UNCHANGED <<disk, sweeps, cap, baseline, memory, history>>

-----------------------------------------------------------------------------
(* The worker pool                                                         *)

Start ==
  /\ pc = "run"
  /\ todo # << >>
  /\ Cardinality(running) < Jobs
  /\ running' = running \cup {[item |-> Head(todo), build |-> binary]}
  /\ todo' = Tail(todo)
  /\ UNCHANGED <<disk, sweeps, cap, baseline, pc, next, key, files, records, work, hashed, history>>

OutcomeOn(file) == IF Needs[ll[file]] > cap THEN "timeout" ELSE "answered"
RunOn(build, file, fn) == [binary |-> build, content |-> ll[file], fn |-> fn]

RunOne(w, build) ==
  [file |-> w.file, fn |-> w.fn, outcome |-> OutcomeOn(w.file),
   of |-> RunOn(build, w.file, w.fn), key |-> CacheKey(w)]

Finish ==
  /\ pc = "run"
  /\ \E run \in running :
       /\ running' = running \ {run}
       /\ records' = Append(records, RunOne(work[run.item], run.build))
  /\ UNCHANGED <<disk, sweeps, cap, baseline, pc, next, key, files, work, todo, hashed, history>>

(* Opening the results for writing empties them.                           *)
OpenResults ==
  /\ pc = "run" /\ todo = << >> /\ running = {}
  /\ results' = << >>
  /\ pc' = "write"
  /\ next' = 1
  /\ UNCHANGED <<stem, source, headers, binary, ll, stamp, sweeps, cap, baseline,
                 key, files, records, work, todo, running, hashed, history>>

(* The records are written in another order, which nothing depends on.     *)
WriteRecord ==
  /\ pc = "write" /\ next <= Len(records)
  /\ results' = Append(results, records[next])
  /\ next' = next + 1
  /\ UNCHANGED <<stem, source, headers, binary, ll, stamp, sweeps, cap, baseline, pc,
                 key, files, records, work, todo, running, hashed, history>>

Report ==
  /\ pc = "write" /\ next = Len(records) + 1
  /\ pc' = "done"
  /\ UNCHANGED <<disk, sweeps, cap, baseline, memory, history>>

Next ==
  \/ \E c \in 1..N : Edit(c)
  \/ EditHeaders \/ Rebuild \/ Begin \/ Interrupt \/ Return
  \/ CheckStamp \/ CompileError \/ Compiled \/ WriteStamp
  \/ ListWork \/ ListFile \/ LoadBaseline \/ Reuse \/ RunPool \/ Start \/ Finish
  \/ OpenResults \/ WriteRecord \/ Report

Spec == Init /\ [][Next]_vars
-----------------------------------------------------------------------------
Content == Contents \cup {NoContent}
File == Files \cup {NoFile}
Name == Names \cup {NoName}
Key == [binary : Builds \cup {0}, content : File, fn : Name]
Record ==
  [file : Stems \cup 1..N, fn : Name, of : Key, key : Key,
   outcome : {"compile-error", "input-error", "timeout", "answered"}]

TypeOK ==
  /\ stem \in Layouts
  /\ source \in [1..N -> Contents] /\ past \in [1..N -> SUBSET Contents]
  /\ headers \in Headers
  /\ binary \in Builds /\ hashed \in Builds \cup {0} /\ tainted \subseteq Builds
  /\ ll \in [Stems -> File]
  /\ stamp \in [Stems -> Content] /\ disturbed \subseteq Stems
  /\ results \in Seq(Record \cup {Torn}) /\ baseline \in Seq(Record \cup {Torn}) /\ records \in Seq(Record)
  /\ sweeps \in 0..MaxSweeps
  /\ cap \in Caps
  /\ pc \in {"idle", "compile", "clang", "stamp", "list", "reuse", "run", "write", "done"}
  /\ next \in Nat \ {0}
  /\ key \in Content
  /\ files \in Seq(Stems)
  /\ work \in Seq([file : Stems, fn : Names])
  /\ todo \in Seq(1..Len(work))
  /\ running \subseteq [item : 1..Len(work), build : Builds] /\ Cardinality(running) <= Jobs

Checked == {"timeout", "answered"}
ResultLines(outcomes) == {i \in 1..Len(results) : results[i].outcome \in outcomes}

DistinctStems == \A c, d \in 1..N : stem[c] = stem[d] => c = d

(* A source has an error of its own or is compiled to a file.              *)
Failed == {c \in 1..N : \E i \in ResultLines({"compile-error"}) : results[i].file = c}
SourcesReported ==
  /\ \E line \in Bijection(Failed, ResultLines({"compile-error"})) :
       \A c \in Failed : results[line[c]].file = c
  /\ \E place \in Bijection((1..N) \ Failed, 1..Len(files)) :
       \A c \in (1..N) \ Failed : files[place[c]] = stem[c]

(* A compiled source without functions has an error of its own.            *)
FilesReported ==
  LET bare == {c \in (1..N) \ Failed : FunctionsIn(stem[c]) = << >>}
  IN  \E line \in Bijection(bare, ResultLines({"input-error"})) :
        \A c \in bare : results[line[c]].file = stem[c]

(* A function of a compiled source has one record, taken from the baseline *)
(* or run, that was found on a file compiled from this source.             *)
FunctionsOf(c) == {<<c, j>> : j \in 1..Len(FunctionsIn(stem[c]))}
FunctionsReported ==
  LET listed == UNION {FunctionsOf(c) : c \in (1..N) \ Failed}
  IN  \E line \in Bijection(listed, ResultLines(Checked)) :
        \A l \in listed :
          /\ results[line[l]].file = stem[l[1]]
          /\ results[line[l]].fn = FunctionsIn(stem[l[1]])[l[2]]
          /\ results[line[l]].of.content.of = l[1]

(* The finished results account for every source whose stem is its own,    *)
(* with one line for each thing there is to report and none besides:       *)
(* however the workers finish, whatever was left on disk before, and       *)
(* whichever lines the baseline has.  Of sources with one stem, the last   *)
(* one's functions are reported for all.                                   *)
ReportComplete ==
  pc = "done" /\ DistinctStems => SourcesReported /\ FilesReported /\ FunctionsReported

(* "reuse records whose cache key (input hash, fn, bpf-tv binary hash,     *)
(* flags) is unchanged instead of re-running" (--reuse): what a finished   *)
(* sweep reports of a function was found on the file as it is, by the      *)
(* build the sweep hashed, after any sequence of edits, rebuilds and       *)
(* broken sweeps; unless that build was replaced, now or ever, while a     *)
(* sweep was running it.                                                   *)
RecordsCurrent ==
  pc = "done" /\ hashed \notin tainted =>
    \A i \in 1..Len(results) :
      results[i].outcome \in Checked => results[i].of = RunOn(hashed, results[i].file, results[i].fn)

(* "skip recompilation when source+flags+clang are unchanged" (main).  The *)
(* comment leaves out the headers, and so does the stamp: the file of a    *)
(* source that is skipped was compiled from what the source is now, with   *)
(* the headers of some time.  Behind a compilation that was disturbed, a   *)
(* source that is changed back to what it was can be skipped with a file   *)
(* made from something else; as long as it is not, it is compiled again.   *)
(* Sources with one stem, which only --recursive can meet, share a file    *)
(* and a stamp that need not be of the same source.                        *)
MadeFrom(file, content) == \E h \in Headers : file = Clang[content][h]
SkipFaithful ==
  [][DistinctStems /\ pc = "compile" /\ next <= N /\ next' = next + 1
     /\ (Stem \in disturbed => source[next] \notin past[next])
       => MadeFrom(ll[Stem], source[next])]_vars
=============================================================================
