---------------------------- MODULE FirmwareProofs ----------------------------
(***************************************************************************)
(* For every plan, set of files and motors: nothing that is not a complete *)
(* download ever has a final name, and the cache is preferred only if this *)
(* run fetched all it was to fetch; flash_all begins with a readable file  *)
(* for every target that answered, or not at all; what the console says of *)
(* a motor's firmware is true where it says so; and what it writes by it   *)
(* is of the motor's series and type.                                      *)
(***************************************************************************)
EXTENDS Firmware, TLAPS, WellFoundedInduction, SequenceTheorems

(* What is claimed of every length is argued from the least that fails it. *)
LEMMA Least ==
  ASSUME NEW T \in SUBSET Nat, T # {}
  PROVE  \E x \in T : \A y \in T : x <= y
<1>1. PICK x \in T : \A y \in T : ~ (<<y, x>> \in OpToRel(<, Nat))
  BY NatLessThanWellFounded, WFMin
<1>2. ASSUME NEW y \in T PROVE x <= y
  <2>1. <<y, x>> \notin OpToRel(<, Nat)
    BY <1>1
  <2>2. ~(y < x)
    BY <2>1 DEF OpToRel
  <2> QED BY <2>2
<1> QED BY <1>2

----------------------------------------------------------------------------
(* The lines of a plan.  A reader of them is a record, and its targets are *)
(* a sequence.                                                             *)
Record(O, T) ==
  [inside : BOOLEAN, headers : SUBSET Headers, open : O, targets : Seq(T), bad : BOOLEAN]
Reader(p) == \E O, T : p \in Record(O, T)

LEMMA LongerSeq ==
  ASSUME NEW T, NEW t \in Seq(T), NEW e
  PROVE  Append(t, e) \in Seq(T \cup {e})
<1>1. t \in Seq(T \cup {e})
  OBVIOUS
<1> QED BY <1>1

LEMMA ReaderFields ==
  ASSUME NEW p, Reader(p)
  PROVE  /\ Reader([p EXCEPT !.bad = TRUE]) /\ Reader([p EXCEPT !.inside = TRUE])
         /\ \A e : Reader([p EXCEPT !.targets = Append(@, e)]) /\ Reader([p EXCEPT !.open = e])
         /\ \A h \in Headers : Reader([p EXCEPT !.headers = @ \cup {h}])
<1>1. PICK O, T : p \in Record(O, T)
  BY DEF Reader
<1>2. /\ [p EXCEPT !.bad = TRUE] \in Record(O, T) /\ [p EXCEPT !.inside = TRUE] \in Record(O, T)
      /\ \A h \in Headers : [p EXCEPT !.headers = @ \cup {h}] \in Record(O, T)
  BY <1>1 DEF Record
<1>3. ASSUME NEW e PROVE /\ [p EXCEPT !.targets = Append(@, e)] \in Record(O, T \cup {e})
                         /\ [p EXCEPT !.open = e] \in Record({e}, T)
  <2>1. Append(p.targets, e) \in Seq(T \cup {e})
    BY <1>1, LongerSeq DEF Record
  <2> QED BY <1>1, <2>1 DEF Record
<1> QED BY <1>2, <1>3 DEF Reader

LEMMA FinishReads ==
  ASSUME NEW p, Reader(p)
  PROVE  Reader(Finish(p))
BY ReaderFields DEF Finish

LEMMA LineReads ==
  ASSUME NEW p, NEW l, Reader(p)
  PROVE  Reader(ReadLine(p, l))
<1>1. ASSUME NEW q, Reader(q) PROVE Reader(TakeKey(q, l))
  <2>1. [q EXCEPT !.open[l.key] = {l.val}] = [q EXCEPT !.open = [q.open EXCEPT ![l.key] = {l.val}]]
    OBVIOUS
  <2>2. Reader([q EXCEPT !.open = [q.open EXCEPT ![l.key] = {l.val}]])
    BY <1>1, ReaderFields
  <2>3. /\ Reader([q EXCEPT !.inside = TRUE]) /\ Reader([q EXCEPT !.bad = TRUE])
        /\ l.key \in Headers => Reader([q EXCEPT !.headers = @ \cup {l.key}])
    BY <1>1, ReaderFields
  <2> QED BY <1>1, <2>1, <2>2, <2>3 DEF TakeKey
<1>2. Reader(OpenItem(p))
  <2>1. Reader(Finish(p))
    BY FinishReads
  <2> QED BY <2>1, ReaderFields DEF OpenItem
<1>3. Reader([p EXCEPT !.bad = TRUE])
  BY ReaderFields
<1> QED BY <1>1, <1>2, <1>3 DEF ReadLine

(* What reading the lines computes: the states of the reader, line by line. *)
Reads(lines, f, m) ==
  /\ f = [n \in 0 .. m |-> f[n]] /\ f[0] = Start
  /\ \A n \in 1 .. m : f[n] = ReadLine(f[n - 1], lines[n])

LEMMA ReadsExist ==
  ASSUME NEW lines, NEW m \in Nat
  PROVE  \E f : Reads(lines, f, m)
<1> DEFINE T == {k \in Nat : ~ \E f : Reads(lines, f, k)}
<1>1. SUFFICES ASSUME T # {} PROVE FALSE
  OBVIOUS
<1>2. PICK x \in T : \A y \in T : x <= y
  <2>1. T \in SUBSET Nat
    OBVIOUS
  <2> HIDE DEF T
  <2> QED BY <1>1, <2>1, Least
<1>3. CASE x = 0
  <2>1. Reads(lines, [n \in 0 .. 0 |-> Start], 0)
    BY DEF Reads
  <2> QED BY <1>3, <2>1
<1>4. CASE x # 0
  <2>1. x - 1 \in Nat /\ x - 1 \notin T
    BY <1>2, <1>4
  <2>2. PICK f : Reads(lines, f, x - 1)
    BY <2>1
  <2> DEFINE g == [n \in 0 .. x |-> IF n = x THEN ReadLine(f[x - 1], lines[x]) ELSE f[n]]
  <2>3. g = [n \in 0 .. x |-> g[n]] /\ g[0] = Start
    BY <2>1, <2>2, <1>4 DEF Reads
  <2>4. ASSUME NEW n \in 1 .. x PROVE g[n] = ReadLine(g[n - 1], lines[n])
    <3>1. n - 1 \in 0 .. x /\ n - 1 # x /\ n \in 0 .. x /\ g[n - 1] = f[n - 1]
      BY <2>1
    <3>2. CASE n = x
      BY <3>1, <3>2
    <3>3. CASE n # x
      <4>1. n \in 1 .. x - 1 /\ g[n] = f[n]
        BY <2>1, <3>1, <3>3
      <4>2. f[n] = ReadLine(f[n - 1], lines[n])
        BY <2>2, <4>1 DEF Reads
      <4> QED BY <3>1, <4>1, <4>2
    <3> QED BY <3>2, <3>3
  <2>5. Reads(lines, g, x)
    BY <2>3, <2>4 DEF Reads
  <2> QED BY <2>5
<1> QED BY <1>3, <1>4

LEMMA ReadLinesIs ==
  ASSUME NEW lines, Len(lines) \in Nat
  PROVE  \E f : Reads(lines, f, Len(lines)) /\ ReadLines(lines) = f[Len(lines)]
<1> DEFINE step(h) == [n \in 0 .. Len(lines) |-> IF n = 0 THEN Start ELSE ReadLine(h[n - 1], lines[n])]
<1>1. PICK f : Reads(lines, f, Len(lines))
  BY ReadsExist
<1>2. f = step(f)
  BY <1>1 DEF Reads
<1>3. PICK h : h = (CHOOSE q : q = step(q))
  OBVIOUS
<1>4. h = step(h)
  BY <1>2, <1>3
<1>5. Reads(lines, h, Len(lines))
  BY <1>4 DEF Reads
<1>6. ReadLines(lines) = h[Len(lines)]
  BY <1>3 DEF ReadLines
<1> QED BY <1>5, <1>6

LEMMA LinesRead ==
  ASSUME NEW lines, Len(lines) \in Nat
  PROVE  Reader(ReadLines(lines))
<1>1. PICK f : Reads(lines, f, Len(lines)) /\ ReadLines(lines) = f[Len(lines)]
  BY ReadLinesIs
<1> DEFINE T == {k \in 0 .. Len(lines) : ~Reader(f[k])}
<1>2. SUFFICES ASSUME T # {} PROVE FALSE
  BY <1>1
<1>3. PICK x \in T : \A y \in T : x <= y
  <2>1. T \in SUBSET Nat
    OBVIOUS
  <2> HIDE DEF T
  <2> QED BY <1>2, <2>1, Least
<1>4. Reader(Start)
  <2>1. <<>> \in Seq({})
    OBVIOUS
  <2>2. Start \in Record({Unset}, {})
    BY <2>1 DEF Start, Record
  <2> QED BY <2>2 DEF Reader
<1>5. x # 0
  BY <1>1, <1>4 DEF Reads
<1>6. x - 1 \in 0 .. Len(lines) /\ x \in 1 .. Len(lines) /\ x - 1 \notin T
  BY <1>3, <1>5
<1>7. f[x] = ReadLine(f[x - 1], lines[x])
  BY <1>1, <1>6 DEF Reads
<1> QED BY <1>6, <1>7, LineReads

LEMMA TargetsInOrder ==
  ASSUME NEW lines, Len(lines) \in Nat
  PROVE  \E T : Load(lines).targets \in Seq(T)
<1>1. PICK p : p = Finish(ReadLines(lines)) /\ Reader(p)
  BY LinesRead, FinishReads
<1>2. Load(lines).targets = p.targets
  BY <1>1 DEF Load, Reader, Record
<1> QED BY <1>1, <1>2 DEF Reader, Record

LEMMA PlansHaveLines == \A plan \in Plans \cup {DefaultPlan} : Len(plan) \in Nat
BY PlansAssumption

(* The table of motors: slots are numbers, and no two have the same index. *)
LEMMA SlotsAreNumbers == Slots \subseteq Nat /\ (\A r, s \in Slots : IndexOf(r) = IndexOf(s) => r = s)
<1> DEFINE ts == Load(DefaultPlan).targets
<1>1. PICK T : ts \in Seq(T)
  BY PlansHaveLines, TargetsInOrder
<1>2. CASE Entries = <<>>
  BY <1>2 DEF Slots
<1>3. CASE Entries = ts /\ \A i \in DOMAIN ts : Added(ts, i)
  <2>1. DOMAIN ts \subseteq Nat
    BY <1>1
  <2> HIDE DEF ts
  <2>2. ASSUME NEW r \in DOMAIN ts, NEW s \in DOMAIN ts, r # s PROVE ts[r].index # ts[s].index
    <3>1. CASE r < s
      BY <1>1, <1>3, <2>1, <3>1 DEF Added, Clash
    <3>2. CASE s < r
      BY <1>1, <1>3, <2>1, <3>2 DEF Added, Clash
    <3> QED BY <2>1, <2>2, <3>1, <3>2
  <2> QED BY <1>3, <2>1, <2>2 DEF Slots, IndexOf
<1> QED BY <1>2, <1>3 DEF Entries, Topology

----------------------------------------------------------------------------
(* The fetch.                                                              *)

(* A file to be fetched is yet to come, under way, or in its place; a name *)
(* that is not a file's stays to come, and keeps the fetch from its end.   *)
Accounted(f) == f \in todo \/ (f \in Files /\ (tmp.file = f \/ cache[f] = "new"))

SyncInv ==
  /\ cache \in [Files -> {"none", "new", "old"}]
  /\ tmp \in [file : Files \cup {NoFile}, whole : BOOLEAN]
  /\ pc # "sync" => tmp = NoTmp /\ todo = {}
  /\ pc = "down" => ~ready /\ ~missed
  /\ pc = "sync" => ~ready /\ (missed \/ \A f \in Wanted : Accounted(f))
  /\ ready => \A f \in Wanted : f \in Files /\ cache[f] = "new"

(* Nothing has been fetched when the program is first started.             *)
LEMMA SyncInit == Init => SyncInv
BY FilesAssumption DEF Init, SyncInv, NoTmp

(* The events of a run once the fetch is over leave the files alone.       *)
LEMMA Elsewhere ==
  ASSUME SyncInv, UNCHANGED disk,
         pc' = pc \/ (pc \notin {"sync", "down"} /\ pc' \notin {"sync", "down"})
  PROVE  SyncInv'
BY DEF SyncInv, Accounted, disk

(* The end of the process, wherever it comes, leaves what has its name.    *)
LEMMA ForgetKeeps ==
  ASSUME SyncInv, Forget, UNCHANGED cache
  PROVE  SyncInv'
BY FilesAssumption DEF SyncInv, Forget, NoTmp

(* The steps of the fetch.                                                 *)
LEMMA StartUpSync == SyncInv /\ StartUp => SyncInv'
<1> SUFFICES ASSUME SyncInv, StartUp PROVE SyncInv'
  OBVIOUS
<1>1. cache' \in [Files -> {"none", "new", "old"}]
  BY DEF SyncInv, StartUp
<1>2. CASE SyncOn
  BY <1>1, <1>2 DEF SyncInv, StartUp, Accounted, NoTmp
<1>3. CASE ~SyncOn
  BY <1>1, <1>3 DEF SyncInv, StartUp, NoTmp
<1> QED BY <1>2, <1>3

LEMMA FetchSync ==
  ASSUME SyncInv, NEW f \in Files, FetchBegin(f) \/ FetchWhole \/ FetchFails \/ FetchRename
  PROVE  SyncInv'
<1>1. CASE FetchBegin(f)
  BY <1>1, FilesAssumption DEF SyncInv, FetchBegin, Accounted, NoTmp
<1>2. CASE FetchWhole
  <2>1. tmp'.file = tmp.file /\ tmp' \in [file : Files \cup {NoFile}, whole : BOOLEAN]
    BY <1>2 DEF SyncInv, FetchWhole
  <2> QED BY <1>2, <2>1 DEF SyncInv, FetchWhole, Accounted
<1>3. CASE FetchFails
  BY <1>3, FilesAssumption DEF SyncInv, FetchFails, NoTmp
<1>4. CASE FetchRename
  <2>1. tmp.file \in Files /\ cache' = [cache EXCEPT ![tmp.file] = "new"]
    BY <1>4 DEF SyncInv, FetchRename, Placed
  <2>2. \A g \in Files : cache'[g] = IF g = tmp.file THEN "new" ELSE cache[g]
    BY <2>1 DEF SyncInv
  <2>3. cache' \in [Files -> {"none", "new", "old"}]
    BY <2>1 DEF SyncInv
  <2>4. \A g \in Wanted : Accounted(g) => Accounted(g)'
    BY <1>4, <2>2 DEF Accounted, FetchRename
  <2> QED BY <1>4, <2>3, <2>4, FilesAssumption DEF SyncInv, FetchRename, NoTmp
<1> QED BY <1>1, <1>2, <1>3, <1>4

LEMMA SyncEndSync == SyncInv /\ SyncEnd => SyncInv'
<1> SUFFICES ASSUME SyncInv, SyncEnd PROVE SyncInv'
  OBVIOUS
<1>1. pc' = "shell" /\ tmp' = NoTmp /\ todo' = {} /\ UNCHANGED <<cache, tmp, missed>>
  BY DEF SyncEnd
<1>2. ready' => \A f \in Wanted : f \in Files /\ cache'[f] = "new"
  <2> SUFFICES ASSUME ready', NEW f \in Wanted PROVE f \in Files /\ cache[f] = "new"
    BY <1>1
  <2>1. ~missed /\ todo = {} /\ tmp = NoTmp /\ pc = "sync"
    BY DEF SyncEnd, AllFetched
  <2>2. Accounted(f)
    BY <2>1 DEF SyncInv
  <2> QED BY <2>1, <2>2, FilesAssumption DEF Accounted, NoTmp
<1> QED BY <1>1, <1>2 DEF SyncInv

(* Every step: those of the fetch, the end of the process, and the rest.   *)
LEMMA SyncStep == SyncInv /\ [Next]_vars => SyncInv'
<1> SUFFICES ASSUME SyncInv, [Next]_vars PROVE SyncInv'
  OBVIOUS
<1> USE DEF disk
<1>1. CASE StartUp
  BY <1>1, StartUpSync
<1>2. CASE \E f \in Files : FetchBegin(f)
  BY <1>2, FetchSync
<1>3. CASE FetchWhole \/ FetchFails \/ FetchRename
  <2>1. tmp.file \in Files
    BY <1>3 DEF SyncInv, FetchWhole, FetchFails, FetchRename
  <2> QED BY <1>3, <2>1, FetchSync
<1>4. CASE SyncEnd
  BY <1>4, SyncEndSync
<1>5. CASE Die \/ \E i \in job.todo : DieInTransfer(i)
  BY <1>5, ForgetKeeps DEF Die, DieInTransfer
<1>6. CASE \E s \in Slots : Deliver(s) \/ Lose(s) \/ \E image \in Images : Swap(s, image)
  BY <1>6, Elsewhere DEF Deliver, Lose, Swap
<1>7. CASE PowerOn \/ PowerOnFails \/ PowerOff
  BY <1>7, Elsewhere DEF PowerOn, PowerOnFails, PowerOff
<1>8. CASE Reload
  BY <1>8 DEF Reload, SyncInv, Accounted
<1>9. CASE \E on \in SUBSET Slots : \E told \in SUBSET on : PowerOnEnd(on, told)
  BY <1>9, Elsewhere DEF PowerOnEnd
<1>10. CASE \E s \in Slots : \/ FlashSingle(s, Entries[s].version, TRUE)
                             \/ \E v \in Types \cup Files : FlashSingle(s, v, FALSE) \/ FlashDebug(s, v)
  BY <1>10, Elsewhere DEF FlashSingle, FlashDebug, Ready, Begin
<1>11. CASE \E plan \in Plans, on \in SUBSET Slots : FlashAll(plan, on)
  BY <1>11, Elsewhere DEF FlashAll, Ready, Begin
<1>12. CASE \E i \in job.todo, cycle \in BOOLEAN, outcome \in Outcomes : Flash(i, cycle, outcome)
  BY <1>12, Elsewhere DEF Flash
<1>13. CASE FlashEnd \/ Settle \/ \E i \in job.todo : FlashInDark(i)
  BY <1>13, Elsewhere DEF FlashInDark, Settle, FlashEnd
<1>14. CASE UNCHANGED vars
  BY <1>14, Elsewhere DEF vars
<1> QED
  BY <1>1, <1>2, <1>3, <1>4, <1>5, <1>6, <1>7, <1>8, <1>9, <1>10, <1>11, <1>12, <1>13, <1>14
  DEF Next

(* For every plan and every set of files: no file of the cache is a part   *)
(* of a download, though the process may die at any step of the fetch, and *)
(* the console prefers the cache only in a run that fetched every file the *)
(* default plan calls for.                                                 *)
THEOREM FirmwareCacheSound == Spec => []CacheSound
<1>1. SyncInv => CacheSound
  BY DEF SyncInv, CacheSound
<1> QED BY <1>1, SyncInit, SyncStep, PTL DEF Spec

----------------------------------------------------------------------------
(* The preflight of flash_all.                                             *)

JobInv == \E c, items, left, due, tried, done :
  job = [cmd |-> c, items |-> items, todo |-> left, due |-> due, tried |-> tried, done |-> done]
BatchInv == JobInv /\ NothingUnlessAll

Visited(i) ==
  /\ job'.cmd = job.cmd /\ job'.items = job.items /\ job'.due = job.due
  /\ job'.tried = job.tried \cup {Slot(i)} /\ job'.todo = job.todo \ {i} /\ JobInv'

LEMMA BatchInit == Init => BatchInv
BY DEF Init, NoJob, BatchInv, JobInv, NothingUnlessAll

(* The first slot of a bus and id is the only one that SlotsOf has.        *)
LEMMA OneSlot ==
  ASSUME NEW t, NEW s \in SlotsOf(Entries, t)
  PROVE  Value(SlotsOf(Entries, t)) = s
<1>1. \A r \in SlotsOf(Entries, t) : r \in Nat /\ r <= s /\ s <= r
  BY SlotsAreNumbers DEF SlotsOf, Slots
<1>2. SlotsOf(Entries, t) = {s}
  BY <1>1, SlotsAreNumbers DEF SlotsOf, Slots
<1> QED BY <1>2 DEF Value

(* What passes the preflight has a file, which is there.                   *)
LEMMA Preflighted ==
  ASSUME NEW ts, NEW on, NEW sel, sel = OnlineTargets(ts, on), Preflight(ts, sel)
  PROVE  /\ DOMAIN Batch(ts, sel) = sel
         /\ \A i \in sel : Readable(Batch(ts, sel)[i].file)
         /\ Due(ts, on) \subseteq {Batch(ts, sel)[i].slot : i \in sel}
<1>1. \A i \in sel : /\ Batch(ts, sel)[i].file = Value(Resolved(ts[i]))
                     /\ Batch(ts, sel)[i].slot = Value(SlotsOf(Entries, ts[i]))
  BY DEF Batch, Item
<1>2. \A i \in sel : Readable(Value(Resolved(ts[i])))
  <2> TAKE i \in sel
  <2>1. Value(Resolved(ts[i])) \in Resolved(ts[i])
    BY DEF Preflight, Value
  <2> QED BY <2>1 DEF Resolved, Choice
<1>3. ASSUME NEW s \in Due(ts, on) PROVE \E i \in sel : Batch(ts, sel)[i].slot = s
  <2>1. PICK i \in DOMAIN ts : s \in SlotsOf(Entries, ts[i]) \cap on
    BY DEF Due
  <2>2. i \in sel
    BY <2>1 DEF OnlineTargets
  <2> QED BY <1>1, <2>1, <2>2, OneSlot
<1> QED BY ZenonT(30), <1>1, <1>2, <1>3 DEF Batch

(* Events that touch neither the job nor the files.                        *)
LEMMA BatchStays ==
  ASSUME BatchInv, UNCHANGED <<job, ready, cache>>, pc' = pc \/ pc' \notin {"flash", "settle"}
  PROVE  BatchInv'
BY DEF BatchInv, JobInv, NothingUnlessAll, Readable, InCache, Slot

(* One motor of the batch is visited.                                      *)
LEMMA BatchVisits ==
  ASSUME BatchInv, UNCHANGED <<ready, cache>>, pc = "flash", NEW i, Visited(i)
  PROVE  BatchInv'
<1>1. \A j : Slot(j)' = Slot(j)
  BY DEF Slot, Visited
<1>2. NothingUnlessAll'
  BY <1>1 DEF BatchInv, NothingUnlessAll, Readable, InCache, Visited
<1> QED BY <1>2 DEF BatchInv, Visited

(* A flash command begins: flash_all after its preflight.                  *)
LEMMA BatchBegins ==
  ASSUME NEW cmd, NEW items, NEW due, Begin(cmd, items, due), UNCHANGED <<ready, cache>>,
         cmd = "all" => /\ due \subseteq {items[i].slot : i \in DOMAIN items}
                        /\ \A i \in DOMAIN items : Readable(items[i].file)
  PROVE  BatchInv'
<1>1. job' = [cmd |-> cmd, items |-> items, todo |-> DOMAIN items, due |-> due,
              tried |-> {}, done |-> {}]
  BY DEF Begin, NoJob
<1>2. \A i : Slot(i)' = items[i].slot
  BY <1>1 DEF Slot
<1>3. NothingUnlessAll'
  BY <1>1, <1>2 DEF NothingUnlessAll, Readable, InCache
<1> QED BY <1>1, <1>3 DEF BatchInv, JobInv

LEMMA BatchStep == SyncInv /\ BatchInv /\ [Next]_vars => BatchInv'
<1> SUFFICES ASSUME SyncInv, BatchInv, [Next]_vars PROVE BatchInv'
  OBVIOUS
<1> USE DEF disk
<1>1. CASE StartUp \/ (\E f \in Files : FetchBegin(f)) \/ FetchWhole \/ FetchFails \/ FetchRename \/ SyncEnd
  BY <1>1 DEF StartUp, FetchBegin, FetchWhole, FetchFails, FetchRename, SyncEnd,
              BatchInv, JobInv, NothingUnlessAll
<1>2. CASE Die \/ \E i \in job.todo : DieInTransfer(i)
  BY <1>2 DEF Die, DieInTransfer, Forget, NoJob, BatchInv, JobInv, NothingUnlessAll
<1>3. CASE \E s \in Slots : Deliver(s) \/ Lose(s) \/ \E image \in Images : Swap(s, image)
  BY <1>3, BatchStays DEF Deliver, Lose, Swap
<1>4. CASE PowerOn \/ PowerOnFails \/ PowerOff
  BY <1>4, BatchStays DEF PowerOn, PowerOnFails, PowerOff
<1>5. CASE Reload
  BY <1>5 DEF Reload, BatchInv, JobInv, NothingUnlessAll
<1>6. CASE \E on \in SUBSET Slots : \E told \in SUBSET on : PowerOnEnd(on, told)
  BY <1>6, BatchStays DEF PowerOnEnd
<1>7. CASE \E s \in Slots : \/ FlashSingle(s, Entries[s].version, TRUE)
                            \/ \E v \in Types \cup Files : FlashSingle(s, v, FALSE) \/ FlashDebug(s, v)
  BY <1>7, BatchBegins DEF FlashSingle, FlashDebug
<1>8. ASSUME NEW plan \in Plans, NEW on \in SUBSET Slots, FlashAll(plan, on) PROVE BatchInv'
  <2> DEFINE ts == Loaded[plan].targets
             sel == OnlineTargets(ts, on)
  <2>1. Preflight(ts, sel) /\ Begin("all", Batch(ts, sel), Due(ts, on))
    BY <1>8 DEF FlashAll
  <2> HIDE DEF ts
  <2>2. /\ DOMAIN Batch(ts, sel) = sel
        /\ \A i \in sel : Readable(Batch(ts, sel)[i].file)
        /\ Due(ts, on) \subseteq {Batch(ts, sel)[i].slot : i \in sel}
    BY <2>1, Preflighted
  <2> HIDE DEF sel
  <2> QED BY <1>8, <2>1, <2>2, BatchBegins DEF FlashAll
<1>9. ASSUME NEW i \in job.todo, NEW cycle, NEW outcome, Flash(i, cycle, outcome) PROVE BatchInv'
  <2>1. \E c : job' = [job EXCEPT !.todo = job.todo \ {i}, !.tried = job.tried \cup {Slot(i)}, !.done = c]
    BY <1>9, Zenon DEF Flash
  <2>2. Visited(i)
    BY <2>1 DEF Visited, BatchInv, JobInv
  <2> QED BY <1>9, <2>2, BatchVisits DEF Flash
<1>10. ASSUME NEW i \in job.todo, FlashInDark(i) PROVE BatchInv'
  <2>1. Visited(i)
    BY <1>10 DEF FlashInDark, Visited, BatchInv, JobInv
  <2> QED BY <1>10, <2>1, BatchVisits DEF FlashInDark
<1>11. CASE Settle
  <2>1. /\ job'.cmd = job.cmd /\ job'.items = job.items /\ job'.due = job.due
        /\ job'.tried = job.tried /\ job'.todo = job.todo /\ JobInv'
    BY <1>11 DEF Settle, BatchInv, JobInv
  <2> QED BY <1>11, <2>1 DEF Settle, BatchInv, NothingUnlessAll, Slot, Readable, InCache
<1>12. CASE FlashEnd
  BY <1>12 DEF FlashEnd, NoJob, BatchInv, JobInv, NothingUnlessAll
<1>13. CASE UNCHANGED vars
  BY <1>13, BatchStays DEF vars
<1> QED
  BY <1>1, <1>2, <1>3, <1>4, <1>5, <1>6, <1>7, <1>8, <1>9, <1>10, <1>11, <1>12, <1>13 DEF Next

(* For every plan, however long and in whatever order, and every set of    *)
(* motors that answer: while flash_all runs, every target that answered    *)
(* has been tried or is yet to be, and each that is yet to be has its file *)
(* at hand.                                                                *)
THEOREM FirmwareNothingUnlessAll == Spec => []NothingUnlessAll
<1>1. BatchInv => NothingUnlessAll
  BY DEF BatchInv
<1> QED BY <1>1, SyncInit, SyncStep, BatchInit, BatchStep, PTL DEF Spec

----------------------------------------------------------------------------
(* What is in a line and in a record.  A line agrees with an image if its  *)
(* version and its name, where it has them, are the image's; a record does *)
(* if its version is, where it is confirmed, and its type, where known.    *)
Pieces ==
  {Mark, [k |-> "menu"]} \cup {Name(im.type) : im \in Images}
    \cup {Ver(v) : v \in Series} \cup {Cfg(v) : v \in Series}
Kinds == {im.type : im \in Images} \cup {Garbled}
Records == [ver : SUBSET Series, boot : BOOLEAN, cfg : SUBSET Series, type : SUBSET Kinds]
Buffers == [line : Seq(Pieces), rec : Records]

OfImage(im, piece) ==
  (piece.k = "ver" => piece.v = im.series) /\ (piece.k = "name" => piece.v = im.type)
Agrees(im, ln) == \A i \in 1 .. Len(ln) : OfImage(im, ln[i])
Fits(im, r) == (r.boot => r.ver = {im.series}) /\ r.type \subseteq {im.type, Garbled}

LEMMA PieceFields ==
  ASSUME NEW p \in Pieces
  PROVE  /\ p # NL /\ (p.k = "name" => p.v \in Kinds)
         /\ p.k \in {"ver", "cfg"} => p.v \in Series
BY DEF Pieces, Kinds, NL, Mark, Name, Ver, Cfg

LEMMA TypeOfLine ==
  ASSUME NEW ln \in Seq(Pieces)
  PROVE  /\ TypeIn(ln) \subseteq Kinds
         /\ \A im : Agrees(im, ln) => TypeIn(ln) \subseteq {im.type, Garbled}
<1> DEFINE marks == {i \in DOMAIN ln : ln[i].k = "mark"}
           first == CHOOSE i \in marks : \A j \in marks : i <= j
           rest == SubSeq(ln, first + 1, Len(ln))
<1>1. CASE TypeIn(ln) = {} \/ TypeIn(ln) = {Garbled}
  BY <1>1 DEF Kinds
<1>2. CASE marks # {} /\ Len(rest) = 1 /\ rest[1].k = "name" /\ TypeIn(ln) = {rest[1].v}
  <2>1. first \in marks
    <3>1. marks \in SUBSET Nat
      OBVIOUS
    <3> HIDE DEF marks
    <3>2. \E i \in marks : \A j \in marks : i <= j
      BY <1>2, <3>1, Least
    <3> QED BY <3>2
  <2>2. first \in 1 .. Len(ln)
    BY <2>1
  <2> HIDE DEF first
  <2>3. first + 1 \in 1 .. Len(ln) /\ rest[1] = ln[first + 1]
    <3>1. first \in Nat /\ Len(ln) \in Nat /\ first + 1 \in Nat /\ Len(rest) = 1
      BY <1>2, <2>2
    <3>2. first + 1 \in 1 .. Len(ln)
      <4>1. SUFFICES ASSUME first + 1 > Len(ln) PROVE FALSE
        BY <3>1
      <4>2. Len(SubSeq(ln, first + 1, Len(ln))) = 0
        BY <3>1, <4>1, SubSeqEmpty
      <4> QED BY <3>1, <4>2
    <3>3. rest[1] = ln[(first + 1) + 1 - 1]
      <4>1. /\ first + 1 \in Int /\ Len(ln) \in Int
            /\ \A i \in first + 1 .. Len(ln) : ln[i] \in Pieces
            /\ 1 \in 1 .. Len(ln) - (first + 1) + 1
        BY <3>1, <3>2
      <4> QED BY <4>1, SubSeqProperties
    <3>4. (first + 1) + 1 - 1 = first + 1
      BY <3>1
    <3> HIDE DEF rest
    <3> QED BY <3>2, <3>3, <3>4
  <2>4. ln[first + 1] \in Pieces
    BY <2>3
  <2>5. rest[1].v \in Kinds
    BY <1>2, <2>3, <2>4, PieceFields
  <2>6. \A im : Agrees(im, ln) => rest[1].v = im.type
    BY <1>2, <2>3 DEF Agrees, OfImage
  <2> QED BY <1>2, <2>5, <2>6
<1> QED BY <1>1, <1>2 DEF TypeIn

(* A finished line teaches what it says, and nothing else.                 *)
LEMMA LearnTyped ==
  ASSUME NEW r \in Records, NEW ln \in Seq(Pieces)
  PROVE  /\ Learn(r, ln) \in Records
         /\ \A im : Agrees(im, ln) /\ Fits(im, r) => Fits(im, Learn(r, ln))
<1> DEFINE told == IF IsVersion(ln)
                   THEN [r EXCEPT !.ver = {ln[1].v}, !.boot = TRUE, !.cfg = {ln[2].v}] ELSE r
<1>1. told \in Records
  <2>1. CASE IsVersion(ln)
    <3>1. ln[1] \in Pieces /\ ln[2] \in Pieces /\ ln[1].k = "ver" /\ ln[2].k = "cfg"
      BY <2>1 DEF IsVersion
    <3>2. ln[1].v \in Series /\ ln[2].v \in Series
      BY <3>1, PieceFields
    <3> QED BY <2>1, <3>2 DEF Records
  <2> QED BY <2>1
<1>2. ASSUME NEW im, Agrees(im, ln), Fits(im, r) PROVE Fits(im, told)
  <2>1. CASE IsVersion(ln)
    <3>1. ln[1].v = im.series
      BY <1>2, <2>1 DEF IsVersion, Agrees, OfImage
    <3>2. told.ver = {ln[1].v} /\ told.type = r.type
      BY <2>1 DEF Records
    <3> QED BY <1>2, <3>1, <3>2 DEF Fits
  <2> QED BY <1>2, <2>1
<1> HIDE DEF told
<1>3. CASE TypeIn(ln) = {}
  BY <1>1, <1>2, <1>3 DEF Learn, told
<1>4. CASE TypeIn(ln) # {}
  <2>1. Learn(r, ln) = [told EXCEPT !.type = TypeIn(ln)]
    BY <1>4 DEF Learn, told
  <2>2. /\ Learn(r, ln) \in Records /\ Learn(r, ln).type = TypeIn(ln)
        /\ Learn(r, ln).boot = told.boot /\ Learn(r, ln).ver = told.ver
    BY <1>1, <2>1, TypeOfLine DEF Records
  <2> QED BY <1>2, <2>2, TypeOfLine DEF Fits
<1> QED BY <1>3, <1>4

LEMMA PutTyped ==
  ASSUME NEW b \in Buffers, NEW p \in Pieces \cup {NL}
  PROVE  /\ Put(b, p) \in Buffers
         /\ \A im : (p # NL => OfImage(im, p)) /\ Agrees(im, b.line)
                    => /\ Agrees(im, Put(b, p).line)
                       /\ Fits(im, b.rec) => Fits(im, Put(b, p).rec)
<1>1. /\ b.line \in Seq(Pieces) /\ b.rec \in Records
      /\ b = [line |-> b.line, rec |-> b.rec]
  BY DEF Buffers
<1>2. /\ Learn(b.rec, b.line) \in Records
      /\ \A im : Agrees(im, b.line) /\ Fits(im, b.rec) => Fits(im, Learn(b.rec, b.line))
  BY <1>1, LearnTyped
<1>3. CASE p = NL
  <2>1. Put(b, p) = [line |-> <<>>, rec |-> Learn(b.rec, b.line)]
    BY <1>3 DEF Put, EndLine
  <2>2. Put(b, p).line = <<>> /\ Put(b, p).rec = Learn(b.rec, b.line) /\ <<>> \in Seq(Pieces)
    BY <2>1
  <2>3. Put(b, p) \in Buffers
    BY <1>2, <2>1, <2>2 DEF Buffers
  <2> QED BY <1>2, <2>2, <2>3 DEF Agrees
<1>4. CASE p # NL /\ Len(b.line) < Room
  <2>1. Put(b, p) = [line |-> Append(b.line, p), rec |-> b.rec]
    BY <1>1, <1>4 DEF Put
  <2>2. Append(b.line, p) \in Seq(Pieces)
    BY <1>1, <1>4
  <2>3. \A im : OfImage(im, p) /\ Agrees(im, b.line) => Agrees(im, Append(b.line, p))
    BY <1>1, <1>4 DEF Agrees
  <2> QED BY <1>1, <1>4, <2>1, <2>2, <2>3 DEF Buffers
<1>5. CASE p # NL /\ ~(Len(b.line) < Room)
  <2>1. Put(b, p) = [line |-> <<p>>, rec |-> Learn(b.rec, b.line)]
    BY <1>5 DEF Put, EndLine
  <2>2. <<p>> \in Seq(Pieces) /\ \A im : OfImage(im, p) => Agrees(im, <<p>>)
    BY <1>5 DEF Agrees
  <2> QED BY <1>2, <1>5, <2>1, <2>2 DEF Buffers
<1> QED BY <1>3, <1>4, <1>5

(* What a frame does, piece by piece.                                      *)
Fed(b, frame, f, m) ==
  /\ f = [n \in 0 .. m |-> f[n]] /\ f[0] = b
  /\ \A n \in 1 .. m : f[n] = Put(f[n - 1], frame[n])

LEMMA FedExists ==
  ASSUME NEW b, NEW frame, NEW m \in Nat
  PROVE  \E f : Fed(b, frame, f, m)
<1> DEFINE T == {k \in Nat : ~ \E f : Fed(b, frame, f, k)}
<1>1. SUFFICES ASSUME T # {} PROVE FALSE
  OBVIOUS
<1>2. PICK x \in T : \A y \in T : x <= y
  <2>1. T \in SUBSET Nat
    OBVIOUS
  <2> HIDE DEF T
  <2> QED BY <1>1, <2>1, Least
<1>3. CASE x = 0
  <2>1. Fed(b, frame, [n \in 0 .. 0 |-> b], 0)
    BY DEF Fed
  <2> QED BY <1>3, <2>1
<1>4. CASE x # 0
  <2>1. x - 1 \in Nat /\ x - 1 \notin T
    BY <1>2, <1>4
  <2>2. PICK f : Fed(b, frame, f, x - 1)
    BY <2>1
  <2> DEFINE g == [n \in 0 .. x |-> IF n = x THEN Put(f[x - 1], frame[x]) ELSE f[n]]
  <2>3. g = [n \in 0 .. x |-> g[n]] /\ g[0] = b
    BY <2>1, <2>2, <1>4 DEF Fed
  <2>4. ASSUME NEW n \in 1 .. x PROVE g[n] = Put(g[n - 1], frame[n])
    <3>1. n - 1 \in 0 .. x /\ n - 1 # x /\ n \in 0 .. x /\ g[n - 1] = f[n - 1]
      BY <2>1
    <3>2. CASE n = x
      BY <3>1, <3>2
    <3>3. CASE n # x
      <4>1. n \in 1 .. x - 1 /\ g[n] = f[n]
        BY <2>1, <3>1, <3>3
      <4>2. f[n] = Put(f[n - 1], frame[n])
        BY <2>2, <4>1 DEF Fed
      <4> QED BY <3>1, <4>1, <4>2
    <3> QED BY <3>2, <3>3
  <2>5. Fed(b, frame, g, x)
    BY <2>3, <2>4 DEF Fed
  <2> QED BY <2>5
<1> QED BY <1>3, <1>4

LEMMA FeedIs ==
  ASSUME NEW b, NEW frame, Len(frame) \in Nat
  PROVE  \E f : Fed(b, frame, f, Len(frame)) /\ Feed(b, frame) = f[Len(frame)]
<1> DEFINE step(h) == [n \in 0 .. Len(frame) |-> IF n = 0 THEN b ELSE Put(h[n - 1], frame[n])]
<1>1. PICK f : Fed(b, frame, f, Len(frame))
  BY FedExists
<1>2. f = step(f)
  BY <1>1 DEF Fed
<1>3. PICK h : h = (CHOOSE q : q = step(q))
  OBVIOUS
<1>4. h = step(h)
  BY <1>2, <1>3
<1>5. Fed(b, frame, h, Len(frame))
  BY <1>4 DEF Fed
<1>6. Feed(b, frame) = h[Len(frame)]
  BY <1>3 DEF Feed
<1> QED BY <1>5, <1>6

(* A frame that agrees with an image leaves a buffer that does.            *)
Frames == Seq(Pieces \cup {NL})
FrameOf(im, frame) == \A i \in 1 .. Len(frame) : frame[i] # NL => OfImage(im, frame[i])

LEMMA FeedTyped ==
  ASSUME NEW b \in Buffers, NEW frame \in Frames
  PROVE  /\ Feed(b, frame) \in Buffers
         /\ \A im : FrameOf(im, frame) /\ Agrees(im, b.line)
                    => /\ Agrees(im, Feed(b, frame).line)
                       /\ Fits(im, b.rec) => Fits(im, Feed(b, frame).rec)
<1>1. Len(frame) \in Nat /\ \A n \in 1 .. Len(frame) : frame[n] \in Pieces \cup {NL}
  BY DEF Frames
<1>2. PICK f : Fed(b, frame, f, Len(frame)) /\ Feed(b, frame) = f[Len(frame)]
  BY <1>1, FeedIs
<1>3. ASSUME NEW k \in 0 .. Len(frame), f[k] \notin Buffers PROVE FALSE
  <2> DEFINE T == {n \in 0 .. Len(frame) : f[n] \notin Buffers}
  <2>1. PICK x \in T : \A y \in T : x <= y
    <3>1. T \in SUBSET Nat /\ T # {}
      BY <1>3
    <3> HIDE DEF T
    <3> QED BY <3>1, Least
  <2>2. x # 0
    BY <1>2 DEF Fed
  <2>3. x - 1 \in 0 .. Len(frame) /\ x \in 1 .. Len(frame) /\ x - 1 \notin T
    BY <1>1, <2>1, <2>2
  <2>4. f[x] = Put(f[x - 1], frame[x])
    BY <1>2, <2>3 DEF Fed
  <2> QED BY <1>1, <2>3, <2>4, PutTyped
<1>4. ASSUME NEW im, FrameOf(im, frame), Agrees(im, b.line), NEW k \in 0 .. Len(frame),
             ~(Agrees(im, f[k].line) /\ (Fits(im, b.rec) => Fits(im, f[k].rec)))
      PROVE  FALSE
  <2> DEFINE T == {n \in 0 .. Len(frame) :
                     ~(Agrees(im, f[n].line) /\ (Fits(im, b.rec) => Fits(im, f[n].rec)))}
  <2>1. PICK x \in T : \A y \in T : x <= y
    <3>1. T \in SUBSET Nat /\ T # {}
      BY <1>4
    <3> HIDE DEF T
    <3> QED BY <3>1, Least
  <2>2. x # 0
    BY <1>2, <1>4 DEF Fed
  <2>3. x - 1 \in 0 .. Len(frame) /\ x \in 1 .. Len(frame) /\ x - 1 \notin T
    BY <1>1, <2>1, <2>2
  <2>4. f[x] = Put(f[x - 1], frame[x])
    BY <1>2, <2>3 DEF Fed
  <2>5. frame[x] # NL => OfImage(im, frame[x])
    BY <1>4, <2>3 DEF FrameOf
  <2>6. f[x - 1] \in Buffers
    BY <1>3, <2>3
  <2> QED BY <1>1, <2>3, <2>4, <2>5, <2>6, PutTyped
<1> QED BY <1>1, <1>2, <1>3, <1>4

(* A frame of one piece, of two, of three.                                 *)
LEMMA FeedShort ==
  ASSUME NEW b, NEW frame
  PROVE  /\ Len(frame) = 0 => Feed(b, frame) = b
         /\ Len(frame) = 1 => Feed(b, frame) = Put(b, frame[1])
         /\ Len(frame) = 2 => Feed(b, frame) = Put(Put(b, frame[1]), frame[2])
         /\ Len(frame) = 3 => Feed(b, frame) = Put(Put(Put(b, frame[1]), frame[2]), frame[3])
<1>1. SUFFICES ASSUME Len(frame) \in {0, 1, 2, 3}
               PROVE  /\ Len(frame) = 0 => Feed(b, frame) = b
                      /\ Len(frame) = 1 => Feed(b, frame) = Put(b, frame[1])
                      /\ Len(frame) = 2 => Feed(b, frame) = Put(Put(b, frame[1]), frame[2])
                      /\ Len(frame) = 3 => Feed(b, frame) = Put(Put(Put(b, frame[1]), frame[2]), frame[3])
  OBVIOUS
<1>2. PICK f : Fed(b, frame, f, Len(frame)) /\ Feed(b, frame) = f[Len(frame)]
  BY <1>1, FeedIs
<1>3. /\ f[0] = b
      /\ Len(frame) >= 1 => f[1] = Put(f[0], frame[1])
      /\ Len(frame) >= 2 => f[2] = Put(f[1], frame[2])
      /\ Len(frame) >= 3 => f[3] = Put(f[2], frame[3])
  <2>1. 1 - 1 = 0 /\ 2 - 1 = 1 /\ 3 - 1 = 2
    OBVIOUS
  <2>2. \A n \in 1 .. Len(frame) : f[n] = Put(f[n - 1], frame[n])
    BY <1>2 DEF Fed
  <2>3. f[0] = b
    BY <1>2 DEF Fed
  <2>4. \A n \in 1 .. 3 : Len(frame) >= n => n \in 1 .. Len(frame)
    BY <1>1
  <2>5. /\ Len(frame) >= 1 => f[1] = Put(f[1 - 1], frame[1])
        /\ Len(frame) >= 2 => f[2] = Put(f[2 - 1], frame[2])
        /\ Len(frame) >= 3 => f[3] = Put(f[3 - 1], frame[3])
    BY <2>2, <2>4
  <2> QED BY <2>1, <2>3, <2>5
<1>4. CASE Len(frame) = 0
  BY <1>2, <1>3, <1>4
<1>5. CASE Len(frame) = 1
  BY <1>2, <1>3, <1>5
<1>6. CASE Len(frame) = 2
  BY <1>2, <1>3, <1>6
<1>7. CASE Len(frame) = 3
  BY <1>2, <1>3, <1>7
<1> QED BY <1>1, <1>4, <1>5, <1>6, <1>7

(* The three frames of a banner, and what each does to the buffer that the *)
(* one before has left.                                                    *)
Second(im) == <<Name(im.type), NL, Ver(im.series)>>
Third(c) == <<Cfg(c), NL>>
Upcoming(im, c) ==
  {<< <<Mark>>, Second(im), Third(c) >>, << Second(im), Third(c) >>, << Third(c) >>}

LEMMA ImageFields == \A im \in Images : im.series \in Series /\ im.type \in Kinds
BY FilesAssumption DEF Images, Kinds

LEMMA NextFrame ==
  ASSUME NEW im \in Images, NEW c \in Series, NEW t \in Upcoming(im, c)
  PROVE  /\ t # <<>> /\ Tail(t) \in Upcoming(im, c) \cup {<<>>}
         /\ Head(t) \in Frames /\ FrameOf(im, Head(t))
<1>1. /\ Mark \in Pieces /\ Name(im.type) \in Pieces /\ Ver(im.series) \in Pieces /\ Cfg(c) \in Pieces
  BY ImageFields DEF Pieces
<1>2. /\ OfImage(im, Mark) /\ OfImage(im, Name(im.type)) /\ OfImage(im, Ver(im.series))
      /\ OfImage(im, Cfg(c))
  BY DEF OfImage, Mark, Name, Ver, Cfg
<1>3. <<Mark>> \in Frames /\ FrameOf(im, <<Mark>>)
  BY <1>1, <1>2 DEF Frames, FrameOf
<1>4. Second(im) \in Frames /\ FrameOf(im, Second(im))
  BY <1>1, <1>2 DEF Frames, FrameOf, Second
<1>5. Third(c) \in Frames /\ FrameOf(im, Third(c))
  BY <1>1, <1>2 DEF Frames, FrameOf, Third
<1>6. CASE t = << <<Mark>>, Second(im), Third(c) >>
  <2>1. Head(t) = <<Mark>> /\ Tail(t) = << Second(im), Third(c) >> /\ t # <<>>
    BY <1>6
  <2> QED BY <1>3, <2>1 DEF Upcoming
<1>7. CASE t = << Second(im), Third(c) >>
  <2>1. Head(t) = Second(im) /\ Tail(t) = << Third(c) >> /\ t # <<>>
    BY <1>7
  <2> QED BY <1>4, <2>1 DEF Upcoming
<1>8. CASE t = << Third(c) >>
  <2>1. Head(t) = Third(c) /\ Tail(t) = <<>> /\ t # <<>>
    BY <1>8
  <2> QED BY <1>5, <2>1
<1> QED BY <1>6, <1>7, <1>8 DEF Upcoming

LEMMA BannerFrames ==
  ASSUME NEW im, NEW c
  PROVE  Banner(im, c) \in Upcoming(im, c)
BY DEF Banner, Upcoming, Second, Third

LEMMA MarkRead ==
  ASSUME NEW b \in Buffers, b.line = <<>>
  PROVE  Feed(b, <<Mark>>).line = <<Mark>>
<1>1. Mark # NL /\ Len(b.line) < Room
  BY RoomAssumption DEF Mark, NL
<1>2. Put(b, Mark) = [b EXCEPT !.line = Append(@, Mark)]
  BY <1>1 DEF Put
<1>3. Put(b, Mark).line = <<Mark>>
  BY <1>2 DEF Buffers
<1> QED BY <1>3, FeedShort

LEMMA LastOfTwo ==
  ASSUME NEW S, NEW s \in Seq(S), Len(s) = 2
  PROVE  /\ Len(SubSeq(s, 2, 2)) = 1 /\ SubSeq(s, 2, 2)[1] = s[2]
         /\ 1 \in DOMAIN SubSeq(s, 2, 2)
<1>1. \A i \in 2 .. 2 : s[i] \in S
  OBVIOUS
<1> DEFINE t == SubSeq(s, 2, 2)
<1>2. /\ t \in Seq(S) /\ Len(t) = (IF 2 <= 2 THEN 2 - 2 + 1 ELSE 0)
      /\ \A i \in 1 .. 2 - 2 + 1 : t[i] = s[2 + i - 1]
  BY <1>1, SubSeqProperties
<1> HIDE DEF t
<1>3. Len(t) = 1 /\ 1 \in DOMAIN t /\ t[1] = s[2]
  BY <1>2
<1> QED BY <1>3 DEF t

LEMMA NameRead ==
  ASSUME NEW b \in Buffers, b.line = <<Mark>>, NEW im \in Images
  PROVE  /\ Feed(b, Second(im)).line = <<Ver(im.series)>>
         /\ Feed(b, Second(im)).rec.type = {im.type}
<1> DEFINE ln == <<Mark, Name(im.type)>>
<1>1. Put(b, Name(im.type)) = [line |-> ln, rec |-> b.rec]
  <2>1. Name(im.type) # NL /\ Len(b.line) < Room
    BY RoomAssumption DEF Name, NL
  <2>2. Put(b, Name(im.type)) = [b EXCEPT !.line = Append(@, Name(im.type))]
    BY <2>1 DEF Put
  <2> QED BY <2>2 DEF Buffers
<1>2. Put(Put(b, Name(im.type)), NL) = [line |-> <<>>, rec |-> Learn(b.rec, ln)]
  BY <1>1 DEF Put, EndLine
<1>3. TypeIn(ln) = {im.type}
  <2> DEFINE marks == {i \in DOMAIN ln : ln[i].k = "mark"}
             first == CHOOSE i \in marks : \A j \in marks : i <= j
             rest == SubSeq(ln, first + 1, Len(ln))
  <2>1. marks = {1}
    BY DEF Mark, Name
  <2>2. first = 1
    BY <2>1
  <2> HIDE DEF first
  <2>3. rest = SubSeq(ln, 2, 2)
    BY <2>2
  <2>4. ln \in Seq({Mark, Name(im.type)}) /\ Len(ln) = 2 /\ ln[2] = Name(im.type)
    OBVIOUS
  <2> HIDE DEF ln, rest
  <2>6. Len(rest) = 1 /\ rest[1] = ln[2] /\ 1 \in DOMAIN rest
    BY <2>3, <2>4, LastOfTwo
  <2> HIDE DEF marks
  <2>7. marks # {} /\ rest[1] = Name(im.type) /\ 1 \in DOMAIN rest
    BY <2>1, <2>4, <2>6
  <2>8. rest[1].k = "name" /\ rest[1].v = im.type /\ rest[1].k \in Digits
    BY <2>7 DEF Name, Digits
  <2> QED BY <2>6, <2>7, <2>8 DEF TypeIn, marks, first, rest
<1>4. ~IsVersion(ln)
  BY DEF IsVersion, Mark
<1>5. Learn(b.rec, ln).type = {im.type}
  BY <1>3, <1>4 DEF Learn, Buffers, Records
<1>6. Put([line |-> <<>>, rec |-> Learn(b.rec, ln)], Ver(im.series)) =
        [line |-> <<Ver(im.series)>>, rec |-> Learn(b.rec, ln)]
  BY RoomAssumption DEF Put, Ver, NL
<1>7. Feed(b, Second(im)) = Put(Put(Put(b, Name(im.type)), NL), Ver(im.series))
  <2>1. /\ Len(Second(im)) = 3 /\ Second(im)[1] = Name(im.type) /\ Second(im)[2] = NL
        /\ Second(im)[3] = Ver(im.series)
    BY DEF Second
  <2> QED BY <2>1, FeedShort
<1> HIDE DEF ln
<1>8. Feed(b, Second(im)) = [line |-> <<Ver(im.series)>>, rec |-> Learn(b.rec, ln)]
  BY <1>2, <1>6, <1>7
<1> QED BY <1>5, <1>8

LEMMA VersionRead ==
  ASSUME NEW b \in Buffers, NEW im \in Images, NEW c, b.line = <<Ver(im.series)>>
  PROVE  LET r == Feed(b, Third(c)).rec IN r.boot /\ r.ver = {im.series} /\ r.type = b.rec.type
<1> DEFINE ln == <<Ver(im.series), Cfg(c)>>
<1>1. Put(b, Cfg(c)) = [line |-> ln, rec |-> b.rec]
  <2>1. Cfg(c) # NL /\ Len(b.line) < Room
    BY RoomAssumption DEF Cfg, NL
  <2>2. Put(b, Cfg(c)) = [b EXCEPT !.line = Append(@, Cfg(c))]
    BY <2>1 DEF Put
  <2> QED BY <2>2 DEF Buffers
<1>2. Put(Put(b, Cfg(c)), NL).rec = Learn(b.rec, ln)
  BY <1>1 DEF Put, EndLine
<1>3. TypeIn(ln) = {}
  <2>1. {i \in DOMAIN ln : ln[i].k = "mark"} = {}
    BY DEF Ver, Cfg
  <2> QED BY <2>1 DEF TypeIn
<1>4. IsVersion(ln) /\ ln[1].v = im.series
  BY DEF IsVersion, Ver, Cfg
<1>5. Learn(b.rec, ln) = [b.rec EXCEPT !.ver = {im.series}, !.boot = TRUE, !.cfg = {ln[2].v}]
  BY <1>3, <1>4 DEF Learn
<1>6. Feed(b, Third(c)) = Put(Put(b, Cfg(c)), NL)
  <2>1. Len(Third(c)) = 2 /\ Third(c)[1] = Cfg(c) /\ Third(c)[2] = NL
    BY DEF Third
  <2> QED BY <2>1, FeedShort
<1> HIDE DEF ln
<1>7. Feed(b, Third(c)).rec = Learn(b.rec, ln) /\ b.rec \in Records
  BY <1>2, <1>6 DEF Buffers
<1>8. Learn(b.rec, ln).boot /\ Learn(b.rec, ln).ver = {im.series} /\ Learn(b.rec, ln).type = b.rec.type
  BY <1>5, <1>7 DEF Records
<1> QED BY <1>7, <1>8

(* The menu of the bootloader ends whatever line there was.                *)
LEMMA MenuEndsLine ==
  ASSUME NEW b \in Buffers
  PROVE  Feed(b, Menu).line = <<>> /\ Feed(b, Menu) \in Buffers
<1>1. Menu \in Frames
  BY DEF Menu, Frames, Pieces
<1>2. Feed(b, Menu) = Put(Put(b, [k |-> "menu"]), NL)
  <2>1. Len(Menu) = 2 /\ Menu[1] = [k |-> "menu"] /\ Menu[2] = NL
    BY DEF Menu
  <2> QED BY <2>1, FeedShort
<1>3. \A d : Put(d, NL).line = <<>>
  BY DEF Put, EndLine
<1> QED BY <1>1, <1>2, <1>3, FeedTyped

----------------------------------------------------------------------------
(* What is kept from step to step.  Text on its way is the rest of the     *)
(* banner of the firmware that is in the motor.                            *)
MotorTyped ==
  /\ fw \in [Slots -> Images \cup {Broken}]
  /\ line \in [Indices -> Seq(Pieces)]
  /\ rec \in [Slots -> Records]
  /\ text = [s \in Slots |-> text[s]]
TextInv ==
  /\ \A s \in Slots : text[s] # <<>> => fw[s] \in Images /\ text[s] \in Upcoming(fw[s], Config[s])
  /\ ~power => text = Quiet /\ clean = {}
  /\ pc \in {"boot", "flash", "settle"} => power
JobTyped ==
  /\ JobInv
  /\ \A i \in job.todo : i \in Nat /\ Slot(i) \in Slots /\ job.items[i].file \in Files
  /\ job.done \subseteq job.tried
  /\ pc # "settle" => job.done = {}
  /\ pc \notin {"flash", "settle"} => job.todo = {}

(* What the console has heard of a motor is of the firmware that is in it. *)
LinesAgree ==
  \A s \in Slots : power /\ fw[s] # Broken /\ (s \notin kept \/ s \in job.done)
                   => Agrees(fw[s], line[IndexOf(s)])
RecordsFit == \A s \in Slots : power /\ fw[s] # Broken /\ s \notin kept => Fits(fw[s], rec[s])

(* How far an undisturbed banner has been read.                            *)
Heard(s, im, c) ==
  \/ text[s] = << <<Mark>>, Second(im), Third(c) >> /\ line[IndexOf(s)] = <<>>
  \/ text[s] = << Second(im), Third(c) >> /\ line[IndexOf(s)] = <<Mark>>
  \/ /\ text[s] = << Third(c) >>
     /\ line[IndexOf(s)] = <<Ver(im.series)>> /\ rec[s].type = {im.type}
  \/ text[s] = <<>> /\ rec[s].boot /\ rec[s].ver = {im.series} /\ rec[s].type = {im.type}
CleanInv == \A s \in clean : s \in Slots /\ fw[s] \in Images /\ Heard(s, fw[s], Config[s])

MotorInv == MotorTyped /\ TextInv /\ JobTyped /\ LinesAgree /\ RecordsFit /\ CleanInv

(* Facts of the constants.                                                 *)
LEMMA BootsBanner ==
  ASSUME MotorTyped
  PROVE  /\ Boots = [s \in Slots |-> Boots[s]]
         /\ \A s \in Slots : Boots[s] # <<>> => /\ fw[s] \in Images
                                               /\ Boots[s] = Banner(fw[s], Config[s])
         /\ \A s \in Starts : s \in Slots /\ fw[s] \in Images /\ Boots[s] = Banner(fw[s], Config[s])
BY DEF Boots, Starts, MotorTyped

LEMMA BannerIs ==
  \A im, c : Banner(im, c) = << <<Mark>>, Second(im), Third(c) >> /\ Banner(im, c) # <<>>
BY DEF Banner, Second, Third

LEMMA NothingTyped == Nothing \in Records /\ ~Nothing.boot /\ Nothing.type = {}
BY DEF Nothing, Records

LEMMA QuietIs == Quiet = [s \in Slots |-> Quiet[s]] /\ \A s \in Slots : Quiet[s] = <<>>
BY DEF Quiet

LEMMA LinesEmpty ==
  ASSUME Dense, MotorTyped
  PROVE  /\ LinesReset \in [Indices -> Seq(Pieces)]
         /\ \A s \in Slots : LinesReset[IndexOf(s)] = <<>>
<1>1. <<>> \in Seq(Pieces)
  OBVIOUS
<1>2. LinesReset \in [Indices -> Seq(Pieces)]
  BY <1>1 DEF LinesReset, MotorTyped
<1>3. \A s \in Slots : IndexOf(s) \in Indices
  BY DEF Indices, IndexOf
<1> QED BY <1>2, <1>3 DEF Dense, LinesReset

LEMMA MotorInit == Init => MotorInv
<1> SUFFICES ASSUME Init PROVE MotorInv
  OBVIOUS
<1>1. MotorTyped
  <2>1. fw \in [Slots -> Images \cup {Broken}] /\ text = [s \in Slots |-> text[s]]
    BY FilesAssumption DEF Init, Quiet
  <2>2. line \in [Indices -> Seq(Pieces)] /\ rec \in [Slots -> Records]
    BY NothingTyped DEF Init, Blank
  <2> QED BY <2>1, <2>2 DEF MotorTyped
<1>2. TextInv
  BY DEF Init, TextInv, Quiet
<1>3. JobTyped
  BY DEF Init, JobTyped, JobInv, NoJob
<1> QED BY <1>1, <1>2, <1>3 DEF Init, MotorInv, LinesAgree, RecordsFit, CleanInv

(* Steps that leave the motors and what is known of them alone.            *)
LEMMA MotorsStay ==
  ASSUME MotorInv, UNCHANGED <<motors, power, known, kept, clean>>,
         job' = job \/ (job' = NoJob /\ pc # "settle"),
         pc' \in {"boot", "flash", "settle"} => pc' = pc,
         pc \in {"flash", "settle"} => pc' = pc \/ job' = NoJob
  PROVE  MotorInv'
<1> USE DEF motors, known
<1>1. MotorTyped'
  BY DEF MotorInv, MotorTyped
<1>2. TextInv'
  BY DEF MotorInv, TextInv
<1>3. JobTyped' /\ job'.done = job.done
  <2>1. CASE job' = job
    <3>1. NoJob.todo = {} /\ NoJob.done = {}
      BY DEF NoJob
    <3> QED BY <2>1, <3>1 DEF MotorInv, JobTyped, JobInv, Slot
  <2>2. CASE job' = NoJob /\ pc # "settle"
    BY <2>2 DEF MotorInv, JobTyped, JobInv, NoJob
  <2> QED BY <2>1, <2>2
<1>4. LinesAgree' /\ RecordsFit'
  BY <1>3 DEF MotorInv, LinesAgree, RecordsFit, Agrees, Fits
<1>5. CleanInv'
  BY DEF MotorInv, CleanInv, Heard
<1> QED BY <1>1, <1>2, <1>3, <1>4, <1>5 DEF MotorInv

(* The process ends: what it knew is gone, and nothing is on its way.      *)
LEMMA ForgetForgets ==
  ASSUME MotorInv, Forget, fw' \in [Slots -> Images \cup {Broken}]
  PROVE  MotorInv'
<1>1. /\ pc' = "down" /\ ~power' /\ text' = Quiet /\ clean' = {} /\ job' = NoJob
      /\ rec' = Blank /\ line' = [i \in Indices |-> <<>>]
  BY DEF Forget
<1>2. MotorTyped'
  <2>1. line' \in [Indices -> Seq(Pieces)] /\ rec' \in [Slots -> Records]
    BY <1>1, NothingTyped DEF Blank
  <2> QED BY <1>1, <2>1, QuietIs DEF MotorTyped
<1>3. TextInv'
  BY <1>1, QuietIs DEF TextInv
<1>4. JobTyped'
  BY <1>1 DEF JobTyped, JobInv, NoJob
<1> QED BY <1>1, <1>2, <1>3, <1>4 DEF MotorInv, LinesAgree, RecordsFit, CleanInv

(* While the console is without power nothing is claimed of the motors.    *)
LEMMA PowerlessStep ==
  ASSUME MotorInv, ~power', {pc, pc'} \cap {"flash", "settle"} = {}, pc' # "boot",
         text' = Quiet, clean' = {}, UNCHANGED job,
         fw' \in [Slots -> Images \cup {Broken}],
         line' \in [Indices -> Seq(Pieces)], rec' \in [Slots -> Records]
  PROVE  MotorInv'
<1>1. MotorTyped' /\ TextInv'
  BY QuietIs DEF MotorTyped, TextInv
<1>2. JobTyped'
  BY DEF MotorInv, JobTyped, JobInv, Slot
<1> QED BY <1>1, <1>2 DEF MotorInv, LinesAgree, RecordsFit, CleanInv

LEMMA SwapMotor ==
  ASSUME MotorInv, NEW s \in Slots, NEW image \in Images, Swap(s, image)
  PROVE  MotorInv'
<1>1. /\ ~power /\ UNCHANGED <<pc, power, text, line, rec, job, kept, clean>>
      /\ fw' = [fw EXCEPT ![s] = image]
  BY DEF Swap, known
<1>2. fw' \in [Slots -> Images \cup {Broken}]
  BY <1>1 DEF MotorInv, MotorTyped
<1>3. text' = Quiet /\ clean' = {} /\ {pc, pc'} \cap {"flash", "settle"} = {} /\ pc' # "boot"
  BY <1>1 DEF MotorInv, TextInv
<1> QED BY <1>1, <1>2, <1>3, PowerlessStep DEF MotorInv, MotorTyped

LEMMA PowerlessCalls ==
  ASSUME MotorInv, Dense, PowerOnFails \/ PowerOff \/ Reload
  PROVE  MotorInv'
<1>1. Blank \in [Slots -> Records]
  BY NothingTyped DEF Blank
<1>2. LinesReset \in [Indices -> Seq(Pieces)]
  BY LinesEmpty DEF MotorInv
<1>3. /\ ~power' /\ pc' = "shell" /\ pc = "shell" /\ text' = Quiet /\ clean' = {}
      /\ job' = job /\ fw' = fw /\ line' \in {line, LinesReset} /\ rec' \in {rec, Blank}
  <2>1. CASE PowerOnFails
    BY <2>1 DEF PowerOnFails, Forgotten, motors, MotorInv, TextInv
  <2>2. CASE PowerOff
    BY <2>2 DEF PowerOff, known
  <2>3. CASE Reload
    BY <2>3 DEF Reload, motors, MotorInv, TextInv
  <2> QED BY <2>1, <2>2, <2>3
<1> QED BY <1>1, <1>2, <1>3, PowerlessStep DEF MotorInv, MotorTyped

(* Power on: all the lines and records are empty, and who starts will be   *)
(* heard from the beginning.                                               *)
LEMMA PowerOnHeard ==
  ASSUME MotorInv, Dense, PowerOn
  PROVE  MotorInv'
<1>1. /\ pc = "shell" /\ pc' = "boot" /\ ~power /\ power' /\ line' = LinesReset /\ rec' = Blank
      /\ kept' = {} /\ UNCHANGED <<fw, job>>
      /\ (text' = text /\ clean' = clean) \/ (text' = Boots /\ clean' = Starts)
  BY DEF PowerOn, Forgotten
<1>2. /\ line' \in [Indices -> Seq(Pieces)] /\ rec' \in [Slots -> Records]
      /\ \A s \in Slots : line'[IndexOf(s)] = <<>> /\ rec'[s] = Nothing
  BY <1>1, LinesEmpty, NothingTyped DEF Blank, MotorInv
<1>3. MotorTyped
  BY DEF MotorInv
<1>4. MotorTyped'
  BY <1>1, <1>2, <1>3, BootsBanner DEF MotorTyped
<1>5. TextInv'
  <2>1. CASE text' = text /\ clean' = clean
    BY <1>1, <2>1 DEF MotorInv, TextInv
  <2>2. CASE text' = Boots /\ clean' = Starts
    BY <1>1, <1>3, <2>2, BootsBanner, BannerFrames DEF TextInv
  <2> QED BY <1>1, <2>1, <2>2
<1>6. JobTyped'
  BY <1>1 DEF MotorInv, JobTyped, JobInv, Slot
<1>7. LinesAgree' /\ RecordsFit'
  BY <1>2, NothingTyped DEF LinesAgree, RecordsFit, Agrees, Fits
<1>8. CleanInv'
  <2>1. CASE text' = text /\ clean' = clean
    BY <1>1, <2>1 DEF MotorInv, TextInv, CleanInv
  <2>2. CASE text' = Boots /\ clean' = Starts
    BY <1>1, <1>2, <1>3, <2>2, BootsBanner, BannerIs DEF CleanInv, Heard
  <2> QED BY <1>1, <2>1, <2>2
<1> QED BY <1>4, <1>5, <1>6, <1>7, <1>8 DEF MotorInv

(* The registers add what the text has not said.                           *)
LEMMA ScannedRecord ==
  ASSUME NEW r \in Records, NEW s \in Slots, NEW told
  PROVE  /\ Scanned(r, s, s \in told) \in Records
         /\ \A im : Fits(im, r) => Fits(im, Scanned(r, s, s \in told))
         /\ Scanned(r, s, s \in told).boot = r.boot /\ Scanned(r, s, s \in told).type = r.type
         /\ r.ver # {} => Scanned(r, s, s \in told).ver = r.ver
<1> DEFINE cfg == IF s \in told THEN {Config[s]} ELSE {}
<1>1. cfg \in SUBSET Series
  BY FilesAssumption
<1>2. Scanned(r, s, s \in told) = [r EXCEPT !.cfg = cfg, !.ver = IF @ = {} THEN cfg ELSE @]
  BY DEF Scanned
<1> HIDE DEF cfg
<1>3. /\ Scanned(r, s, s \in told) \in Records
      /\ Scanned(r, s, s \in told).boot = r.boot /\ Scanned(r, s, s \in told).type = r.type
      /\ r.ver # {} => Scanned(r, s, s \in told).ver = r.ver
  BY <1>1, <1>2 DEF Records
<1>4. ASSUME NEW im, Fits(im, r) PROVE Fits(im, Scanned(r, s, s \in told))
  BY <1>3, <1>4 DEF Fits
<1> QED BY <1>3, <1>4

LEMMA ScanHeard ==
  ASSUME MotorInv, NEW on \in SUBSET Slots, NEW told \in SUBSET on, PowerOnEnd(on, told)
  PROVE  MotorInv'
<1>1. /\ pc = "boot" /\ pc' = "shell" /\ UNCHANGED <<fw, text, power, line, job, kept, clean>>
      /\ rec' = [s \in Slots |-> IF s \in on THEN Scanned(rec[s], s, s \in told) ELSE rec[s]]
  BY DEF PowerOnEnd, motors
<1>2. rec \in [Slots -> Records]
  BY DEF MotorInv, MotorTyped
<1>3. ASSUME NEW s \in Slots
      PROVE  /\ rec'[s] \in Records /\ \A im : Fits(im, rec[s]) => Fits(im, rec'[s])
             /\ rec'[s].boot = rec[s].boot /\ rec'[s].type = rec[s].type
             /\ rec[s].ver # {} => rec'[s].ver = rec[s].ver
  <2>1. rec[s] \in Records
    BY <1>2
  <2>2. CASE s \in on
    <3>1. rec'[s] = Scanned(rec[s], s, s \in told)
      BY <1>1, <2>2
    <3> QED BY <2>1, <3>1, ScannedRecord
  <2>3. CASE s \notin on
    BY <1>1, <2>1, <2>3
  <2> QED BY <2>2, <2>3
<1>4. MotorTyped'
  BY <1>1, <1>3 DEF MotorInv, MotorTyped
<1>5. TextInv' /\ JobTyped'
  BY <1>1 DEF MotorInv, TextInv, JobTyped, JobInv, Slot
<1>6. LinesAgree' /\ RecordsFit'
  BY <1>1, <1>3 DEF MotorInv, LinesAgree, RecordsFit, Agrees
<1>7. CleanInv'
  <2> SUFFICES ASSUME NEW s \in clean PROVE (s \in Slots /\ fw[s] \in Images /\ Heard(s, fw[s], Config[s]))'
    BY <1>1 DEF CleanInv
  <2>1. s \in Slots /\ fw[s] \in Images /\ Heard(s, fw[s], Config[s])
    BY DEF MotorInv, CleanInv
  <2>2. /\ rec'[s].boot = rec[s].boot /\ rec'[s].type = rec[s].type
        /\ rec[s].ver # {} => rec'[s].ver = rec[s].ver
    BY <1>3, <2>1
  <2> QED BY <1>1, <2>1, <2>2 DEF Heard
<1> QED BY <1>4, <1>5, <1>6, <1>7 DEF MotorInv

(* A frame is lost: its motor is no longer undisturbed.                    *)
LEMMA LoseHeard ==
  ASSUME MotorInv, NEW s \in Slots, Lose(s)
  PROVE  MotorInv'
<1>1. /\ text[s] # <<>> /\ text' = [text EXCEPT ![s] = Tail(@)] /\ clean' = clean \ {s}
      /\ UNCHANGED <<pc, power, fw, line, rec, job, kept>>
  BY DEF Lose, known
<1>2. MotorTyped /\ power
  BY <1>1, QuietIs DEF MotorInv, TextInv
<1>3. \A r \in Slots : text'[r] = IF r = s THEN Tail(text[s]) ELSE text[r]
  BY <1>1, <1>2 DEF MotorTyped
<1>4. MotorTyped'
  BY <1>1, <1>2 DEF MotorTyped
<1>5. TextInv'
  <2>1. text'[s] # <<>> => fw[s] \in Images /\ text'[s] \in Upcoming(fw[s], Config[s])
    BY <1>1, <1>3, NextFrame, FilesAssumption DEF MotorInv, TextInv
  <2> QED BY <1>1, <1>2, <1>3, <2>1 DEF MotorInv, TextInv
<1>6. JobTyped' /\ LinesAgree' /\ RecordsFit'
  BY <1>1 DEF MotorInv, JobTyped, JobInv, Slot, LinesAgree, RecordsFit, Agrees, Fits
<1>7. CleanInv'
  BY <1>1, <1>3 DEF MotorInv, CleanInv, Heard
<1> QED BY <1>4, <1>5, <1>6, <1>7 DEF MotorInv

(* The buffer of a motor: no other has its line.                           *)
BufferOf(s) == [line |-> line[IndexOf(s)], rec |-> rec[s]]

LEMMA BufferTyped ==
  ASSUME MotorTyped, NEW s \in Slots
  PROVE  BufferOf(s) \in Buffers /\ BufferOf(s).line = line[IndexOf(s)] /\ BufferOf(s).rec = rec[s]
<1>1. IndexOf(s) \in Indices
  BY DEF Indices, IndexOf
<1> QED BY <1>1 DEF MotorTyped, BufferOf, Buffers

LEMMA BufferEdited ==
  ASSUME MotorTyped, NEW s \in Slots, NEW b \in Buffers,
         line' = [line EXCEPT ![IndexOf(s)] = b.line], rec' = [rec EXCEPT ![s] = b.rec]
  PROVE  /\ line' \in [Indices -> Seq(Pieces)] /\ rec' \in [Slots -> Records]
         /\ line'[IndexOf(s)] = b.line /\ rec'[s] = b.rec
         /\ \A r \in Slots : r # s => line'[IndexOf(r)] = line[IndexOf(r)] /\ rec'[r] = rec[r]
<1>1. \A r \in Slots : IndexOf(r) \in Indices
  BY DEF Indices, IndexOf
<1>2. b.line \in Seq(Pieces) /\ b.rec \in Records
  BY DEF Buffers
<1>3. \A r \in Slots : r # s => IndexOf(r) # IndexOf(s)
  BY SlotsAreNumbers
<1> QED BY <1>1, <1>2, <1>3 DEF MotorTyped

(* A frame arrives, and the banner has been heard one frame further.       *)
LEMMA FrameHeard ==
  ASSUME MotorInv, NEW s \in Slots, s \in clean, text[s] # <<>>,
         NEW b, b = Feed(BufferOf(s), Head(text[s])),
         text'[s] = Tail(text[s]), fw'[s] = fw[s], line'[IndexOf(s)] = b.line, rec'[s] = b.rec
  PROVE  Heard(s, fw[s], Config[s])'
<1> DEFINE im == fw[s]  c == Config[s]
<1>1. im \in Images /\ Heard(s, im, c) /\ BufferOf(s) \in Buffers
  BY BufferTyped DEF MotorInv, CleanInv
<1>2. BufferOf(s).line = line[IndexOf(s)] /\ BufferOf(s).rec = rec[s]
  BY BufferTyped DEF MotorInv
<1> HIDE DEF im, c
<1>3. CASE text[s] = << <<Mark>>, Second(im), Third(c) >> /\ line[IndexOf(s)] = <<>>
  <2>1. Head(text[s]) = <<Mark>> /\ Tail(text[s]) = << Second(im), Third(c) >>
    BY <1>3
  <2>2. b.line = <<Mark>>
    BY <1>1, <1>2, <1>3, <2>1, MarkRead
  <2> QED BY <2>1, <2>2 DEF Heard, im, c
<1>4. CASE text[s] = << Second(im), Third(c) >> /\ line[IndexOf(s)] = <<Mark>>
  <2>1. Head(text[s]) = Second(im) /\ Tail(text[s]) = << Third(c) >>
    BY <1>4
  <2>2. b.line = <<Ver(im.series)>> /\ b.rec.type = {im.type}
    BY <1>1, <1>2, <1>4, <2>1, NameRead
  <2> QED BY <2>1, <2>2 DEF Heard, im, c
<1>5. CASE /\ text[s] = << Third(c) >>
           /\ line[IndexOf(s)] = <<Ver(im.series)>> /\ rec[s].type = {im.type}
  <2>1. Head(text[s]) = Third(c) /\ Tail(text[s]) = <<>>
    BY <1>5
  <2>2. b.rec.boot /\ b.rec.ver = {im.series} /\ b.rec.type = {im.type}
    BY <1>1, <1>2, <1>5, <2>1, VersionRead
  <2> QED BY <2>1, <2>2 DEF Heard, im, c
<1> QED BY <1>1, <1>3, <1>4, <1>5 DEF Heard

LEMMA DeliverHeard ==
  ASSUME MotorInv, NEW s \in Slots, Deliver(s)
  PROVE  MotorInv'
<1> DEFINE b == Feed(BufferOf(s), Head(text[s]))
<1>1. /\ text[s] # <<>> /\ text' = [text EXCEPT ![s] = Tail(@)]
      /\ line' = [line EXCEPT ![IndexOf(s)] = b.line] /\ rec' = [rec EXCEPT ![s] = b.rec]
      /\ UNCHANGED <<pc, power, fw, job, kept, clean>>
  BY DEF Deliver, BufferOf
<1>2. MotorTyped /\ power
  BY <1>1, QuietIs DEF MotorInv, TextInv
<1>3. fw[s] \in Images /\ text[s] \in Upcoming(fw[s], Config[s]) /\ Config[s] \in Series
  BY <1>1, FilesAssumption DEF MotorInv, TextInv
<1>4. /\ Head(text[s]) \in Frames /\ FrameOf(fw[s], Head(text[s]))
      /\ Tail(text[s]) \in Upcoming(fw[s], Config[s]) \cup {<<>>}
  BY <1>3, NextFrame
<1>5. /\ BufferOf(s) \in Buffers /\ BufferOf(s).line = line[IndexOf(s)] /\ BufferOf(s).rec = rec[s]
  BY <1>2, BufferTyped
<1>6. /\ b \in Buffers
      /\ \A im : FrameOf(im, Head(text[s])) /\ Agrees(im, line[IndexOf(s)])
                 => Agrees(im, b.line) /\ (Fits(im, rec[s]) => Fits(im, b.rec))
  BY <1>4, <1>5, FeedTyped
<1> HIDE DEF b
<1>7. /\ line' \in [Indices -> Seq(Pieces)] /\ rec' \in [Slots -> Records]
      /\ line'[IndexOf(s)] = b.line /\ rec'[s] = b.rec
      /\ \A r \in Slots : r # s => line'[IndexOf(r)] = line[IndexOf(r)] /\ rec'[r] = rec[r]
  BY <1>1, <1>2, <1>6, BufferEdited
<1>8. \A r \in Slots : text'[r] = IF r = s THEN Tail(text[s]) ELSE text[r]
  BY <1>1, <1>2 DEF MotorTyped
<1>9. MotorTyped'
  BY <1>1, <1>2, <1>7 DEF MotorTyped
<1>10. TextInv'
  <2>1. \A r \in Slots : text'[r] # <<>> => fw[r] \in Images /\ text'[r] \in Upcoming(fw[r], Config[r])
    BY <1>3, <1>4, <1>8 DEF MotorInv, TextInv
  <2> QED BY <1>1, <1>2, <2>1
    DEF MotorInv, TextInv
<1>11. JobTyped'
  BY <1>1 DEF MotorInv, JobTyped, JobInv, Slot
<1>12. LinesAgree'
  <2> SUFFICES ASSUME NEW r \in Slots, fw[r] # Broken, r \notin kept \/ r \in job.done
               PROVE  Agrees(fw[r], line'[IndexOf(r)])
    BY <1>1 DEF LinesAgree, Agrees
  <2>1. Agrees(fw[r], line[IndexOf(r)])
    BY <1>2 DEF MotorInv, LinesAgree
  <2> QED BY <1>4, <1>6, <1>7, <2>1
<1>13. RecordsFit'
  <2> SUFFICES ASSUME NEW r \in Slots, fw[r] # Broken, r \notin kept PROVE Fits(fw[r], rec'[r])
    BY <1>1 DEF RecordsFit, Fits
  <2>1. Agrees(fw[r], line[IndexOf(r)]) /\ Fits(fw[r], rec[r])
    BY <1>2 DEF MotorInv, LinesAgree, RecordsFit
  <2> QED BY <1>4, <1>6, <1>7, <2>1
<1>14. CleanInv'
  <2> SUFFICES ASSUME NEW r \in clean PROVE /\ r \in Slots /\ fw[r] \in Images
                                            /\ Heard(r, fw[r], Config[r])'
    BY <1>1 DEF CleanInv
  <2>1. r \in Slots /\ fw[r] \in Images /\ Heard(r, fw[r], Config[r])
    BY DEF MotorInv, CleanInv
  <2>2. CASE r = s
    BY <1>1, <1>7, <1>8, <2>1, <2>2, FrameHeard DEF b
  <2>3. CASE r # s
    BY <1>1, <1>7, <1>8, <2>1, <2>3 DEF Heard
  <2> QED BY <2>1, <2>2, <2>3
<1> QED BY <1>9, <1>10, <1>11, <1>12, <1>13, <1>14 DEF MotorInv

(* What an item of a flash command promises of its motor.                  *)
ItemTyped(it) == it.slot \in Slots /\ it.file \in Files
ItemFits(it) ==
  it.slot \notin kept /\ fw[it.slot] # Broken
  => /\ it.series => Content[it.file].series = fw[it.slot].series
     /\ it.type => Content[it.file].type = fw[it.slot].type
ItemsInv == \A i \in job.todo : Slot(i) \notin job.tried => ItemFits(job.items[i])

LEMMA SeriesFiles ==
  ASSUME MotorTyped, NEW s \in Slots, NEW type, NEW f \in SeriesFile(s, type)
  PROVE  /\ f \in Files /\ type \in Types
         /\ NamesTrue => Content[f].type = type /\ Content[f].series \in Version(s)
<1>1. type \in Types
  BY DEF SeriesFile
<1>2. PICK v \in Version(s) : f \in FileFor[<<type, v>>]
  BY <1>1 DEF SeriesFile
<1>3. rec[s] \in Records
  BY DEF MotorTyped
<1>4. v \in Series
  BY <1>2, <1>3 DEF Version, Records
<1>5. FileFor[<<type, v>>] \in SUBSET Files
  BY <1>1, <1>4, FilesAssumption
<1> QED BY <1>1, <1>2, <1>4, <1>5 DEF NamesTrue

LEMMA ChosenFile ==
  ASSUME MotorTyped, NEW s \in Slots, NEW version, NEW detect, NEW f \in Choice(s, version, detect)
  PROVE  f \in Files /\ Readable(f)
<1>1. CASE version \in Files
  BY <1>1 DEF Choice
<1>2. CASE version \notin Files
  <2>1. PICK type : f \in SeriesFile(s, type) /\ Readable(f)
    BY <1>2 DEF Choice
  <2> QED BY <2>1, SeriesFiles
<1> QED BY <1>1, <1>2

LEMMA ChosenFits ==
  ASSUME MotorInv, NamesTrue, power, NEW s \in Slots, NEW version, NEW detect \in BOOLEAN,
         NEW f \in Choice(s, version, detect)
  PROVE  ItemFits(Item(s, f, version \notin Files, detect))
<1> DEFINE it == Item(s, f, version \notin Files, detect)
<1>1. /\ it.slot = s /\ it.file = f
      /\ it.series <=> version \notin Files /\ rec[s].boot
      /\ it.type <=> /\ version \notin Files /\ detect
                     /\ rec[s].type \subseteq Types /\ rec[s].type # {}
  BY DEF Item
<1> HIDE DEF it
<1>2. SUFFICES ASSUME s \notin kept, fw[s] # Broken
               PROVE  /\ it.series => Content[f].series = fw[s].series
                      /\ it.type => Content[f].type = fw[s].type
  BY <1>1 DEF ItemFits, it
<1>3. Fits(fw[s], rec[s])
  BY <1>2 DEF MotorInv, RecordsFit
<1>4. CASE version \notin Files
  <2>1. f \in SeriesFile(s, IF detect THEN FlashType(s, version) ELSE version)
    BY <1>4 DEF Choice
  <2>2. /\ Content[f].type = IF detect THEN FlashType(s, version) ELSE version
        /\ Content[f].series \in Version(s)
    BY <2>1, SeriesFiles DEF MotorInv
  <2>3. it.series => Content[f].series = fw[s].series
    BY <1>1, <1>3, <2>2 DEF Version, Fits
  <2>4. ASSUME it.type PROVE Content[f].type = fw[s].type
    <3>1. detect /\ rec[s].type \subseteq Types /\ rec[s].type # {}
      BY <1>1, <2>4
    <3>2. Content[f].type = Value(rec[s].type)
      BY <2>2, <3>1 DEF FlashType
    <3>3. rec[s].type = {fw[s].type}
      BY <1>3, <3>1, FilesAssumption DEF Fits
    <3> QED BY <3>2, <3>3 DEF Value
  <2> QED BY <2>3, <2>4
<1>5. CASE version \in Files
  BY <1>1, <1>5
<1> QED BY <1>4, <1>5

(* A flash command begins.                                                 *)
LEMMA BeginHeard ==
  ASSUME MotorInv, NEW cmd, NEW items, NEW due, Begin(cmd, items, due), pc = "shell", power,
         UNCHANGED <<motors, power, known, kept, clean>>,
         \A i \in DOMAIN items : i \in Nat /\ ItemTyped(items[i])
  PROVE  MotorInv' /\ ((\A i \in DOMAIN items : ItemFits(items[i])) => ItemsInv')
<1>1. /\ pc' = "flash"
      /\ job' = [cmd |-> cmd, items |-> items, todo |-> DOMAIN items, due |-> due,
                 tried |-> {}, done |-> {}]
  BY DEF Begin, NoJob
<1> USE DEF motors, known
<1>2. MotorTyped' /\ TextInv'
  BY <1>1 DEF MotorInv, MotorTyped, TextInv
<1>3. JobTyped'
  BY <1>1 DEF JobTyped, JobInv, Slot, ItemTyped
<1>4. job.done = {}
  BY DEF MotorInv, JobTyped
<1>5. LinesAgree' /\ RecordsFit' /\ CleanInv'
  BY <1>1, <1>4 DEF MotorInv, LinesAgree, RecordsFit, CleanInv, Agrees, Fits, Heard
<1>6. ASSUME \A i \in DOMAIN items : ItemFits(items[i]) PROVE ItemsInv'
  BY <1>1, <1>6 DEF ItemsInv, ItemFits
<1> QED BY <1>2, <1>3, <1>5, <1>6 DEF MotorInv

(* The items of flash_all.                                                 *)
LEMMA BatchItems ==
  ASSUME MotorInv, power, NEW plan \in Plans, NEW on \in SUBSET Slots,
         NEW ts, ts = Loaded[plan].targets,
         NEW sel, sel = OnlineTargets(ts, on), Preflight(ts, sel)
  PROVE  \A i \in DOMAIN Batch(ts, sel) :
           /\ i \in Nat /\ ItemTyped(Batch(ts, sel)[i])
           /\ NamesTrue => ItemFits(Batch(ts, sel)[i])
<1> SUFFICES ASSUME NEW i \in sel
             PROVE  /\ i \in Nat /\ ItemTyped(Batch(ts, sel)[i])
                    /\ NamesTrue => ItemFits(Batch(ts, sel)[i])
  BY DEF Batch
<1>1. i \in DOMAIN ts /\ SlotsOf(Entries, ts[i]) \cap on # {}
  BY DEF OnlineTargets
<1>2. i \in Nat
  <2>1. PICK T : ts \in Seq(T)
    BY PlansHaveLines, TargetsInOrder DEF Loaded
  <2> QED BY <1>1, <2>1
<1> DEFINE s == Value(SlotsOf(Entries, ts[i]))  f == Value(Resolved(ts[i]))
<1>3. s \in Slots
  <2>1. s \in SlotsOf(Entries, ts[i])
    BY <1>1 DEF Value
  <2> QED BY <2>1 DEF SlotsOf, Slots
<1>4. f \in Choice(s, ts[i].version, TRUE)
  BY DEF Preflight, Resolved, Value
<1>5. Batch(ts, sel)[i] = Item(s, f, ts[i].version \notin Files, TRUE)
  BY DEF Batch
<1> HIDE DEF s, f
<1>6. f \in Files
  BY <1>3, <1>4, ChosenFile DEF MotorInv
<1>7. NamesTrue => ItemFits(Item(s, f, ts[i].version \notin Files, TRUE))
  BY <1>3, <1>4, ChosenFits
<1>8. ItemTyped(Item(s, f, ts[i].version \notin Files, TRUE))
  BY <1>3, <1>6 DEF Item, ItemTyped
<1> QED BY <1>2, <1>5, <1>7, <1>8

LEMMA JobBegins ==
  ASSUME MotorInv,
         \/ \E s \in Slots : \/ FlashSingle(s, Entries[s].version, TRUE)
                             \/ \E v \in Types \cup Files : FlashSingle(s, v, FALSE) \/ FlashDebug(s, v)
         \/ \E plan \in Plans, on \in SUBSET Slots : FlashAll(plan, on)
  PROVE  MotorInv' /\ (NamesTrue => ItemsInv')
<1>1. ASSUME NEW s \in Slots, NEW version, NEW detect \in BOOLEAN, FlashSingle(s, version, detect)
      PROVE  MotorInv' /\ (NamesTrue => ItemsInv')
  <2>1. PICK f \in Choice(s, version, detect) :
          Begin("single", <<Item(s, f, version \notin Files, detect)>>, {s})
    BY <1>1 DEF FlashSingle
  <2> DEFINE it == Item(s, f, version \notin Files, detect)
  <2>2. pc = "shell" /\ power /\ UNCHANGED <<motors, power, known, kept, clean>>
    BY <1>1 DEF FlashSingle, Ready
  <2>3. f \in Files
    BY <2>1, ChosenFile DEF MotorInv
  <2>4. ItemTyped(it)
    BY <2>3 DEF Item, ItemTyped
  <2>5. NamesTrue => ItemFits(it)
    BY <2>1, <2>2, ChosenFits
  <2> HIDE DEF it
  <2>6. \A i \in DOMAIN <<it>> : i \in Nat /\ <<it>>[i] = it
    OBVIOUS
  <2>7. Begin("single", <<it>>, {s})
    BY <2>1 DEF it
  <2> QED BY <2>2, <2>4, <2>5, <2>6, <2>7, BeginHeard
<1>2. ASSUME NEW s \in Slots, NEW v \in Types \cup Files, FlashDebug(s, v)
      PROVE  MotorInv' /\ (NamesTrue => ItemsInv')
  <2> DEFINE it == Item(s, NameOf(v), FALSE, FALSE)
  <2>1. /\ Begin("debug", <<it>>, {s})
        /\ pc = "shell" /\ power /\ UNCHANGED <<motors, power, known, kept, clean>>
    BY <1>2 DEF FlashDebug, Ready
  <2>2. NameOf(v) \in Files
    BY FilesAssumption DEF NameOf
  <2>3. ItemTyped(it) /\ ItemFits(it)
    BY <2>2 DEF Item, ItemTyped, ItemFits
  <2> HIDE DEF it
  <2>4. \A i \in DOMAIN <<it>> : i \in Nat /\ <<it>>[i] = it
    OBVIOUS
  <2> QED BY <2>1, <2>3, <2>4, BeginHeard
<1>3. ASSUME NEW plan \in Plans, NEW on \in SUBSET Slots, FlashAll(plan, on)
      PROVE  MotorInv' /\ (NamesTrue => ItemsInv')
  <2> DEFINE ts == Loaded[plan].targets
             sel == OnlineTargets(ts, on)
  <2>1. /\ Preflight(ts, sel) /\ Begin("all", Batch(ts, sel), Due(ts, on))
        /\ pc = "shell" /\ power /\ UNCHANGED <<motors, power, known, kept, clean>>
    BY <1>3 DEF FlashAll, Ready
  <2>2. \A i \in DOMAIN Batch(ts, sel) :
           /\ i \in Nat /\ ItemTyped(Batch(ts, sel)[i])
           /\ NamesTrue => ItemFits(Batch(ts, sel)[i])
    BY <2>1, BatchItems
  <2> HIDE DEF ts, sel
  <2> QED BY <2>1, <2>2, BeginHeard
<1> QED BY <1>1, <1>2, <1>3

(* One motor of a job is done with.                                        *)
LEMMA JobVisits ==
  ASSUME JobTyped, NEW i \in job.todo, pc = "flash", pc' \in {"flash", "settle"},
         NEW done, done \subseteq {Slot(i)}, pc' # "settle" => done = {},
         job' = [job EXCEPT !.todo = @ \ {i}, !.tried = @ \cup {Slot(i)}, !.done = done]
  PROVE  /\ JobTyped' /\ job'.done = done /\ job.done = {}
         /\ job'.tried = job.tried \cup {Slot(i)} /\ job'.todo \subseteq job.todo
         /\ job'.items = job.items
<1>1. PICK c, items, left, due, tried, was :
        job = [cmd |-> c, items |-> items, todo |-> left, due |-> due, tried |-> tried, done |-> was]
  BY DEF JobTyped, JobInv
<1>2. job' = [cmd |-> c, items |-> items, todo |-> left \ {i}, due |-> due,
              tried |-> tried \cup {Slot(i)}, done |-> done]
  BY <1>1
<1>3. JobInv'
  BY <1>2 DEF JobInv
<1>4. \A j : Slot(j)' = Slot(j)
  BY <1>1, <1>2 DEF Slot
<1> QED BY <1>1, <1>2, <1>3, <1>4 DEF JobTyped

LEMMA ItemsStay ==
  ASSUME ItemsInv, JobTyped, job'.items = job.items, job'.todo \subseteq job.todo, job.tried \subseteq job'.tried,
         \A s \in Slots : s \notin job'.tried => fw'[s] = fw[s] /\ (s \notin kept' => s \notin kept)
  PROVE  ItemsInv'
<1> SUFFICES ASSUME NEW i \in job'.todo, Slot(i)' \notin job'.tried
             PROVE  ItemFits(job.items[i])'
  BY DEF ItemsInv
<1>1. i \in job.todo /\ Slot(i)' = Slot(i) /\ Slot(i) \in Slots /\ Slot(i) = job.items[i].slot
  BY DEF Slot, JobTyped
<1>2. ItemFits(job.items[i])
  BY <1>1 DEF ItemsInv
<1> QED BY <1>1, <1>2 DEF ItemFits

LEMMA DarkHeard ==
  ASSUME MotorInv, NEW i \in job.todo, FlashInDark(i)
  PROVE  MotorInv' /\ (ItemsInv => ItemsInv')
<1>1. /\ pc = "flash" /\ pc' = "flash" /\ text' = Quiet /\ clean' = {}
      /\ UNCHANGED <<power, fw, line, rec, kept>> /\ JobTyped /\ job.done = {}
  BY DEF FlashInDark, known, MotorInv, JobTyped
<1>2. job' = [job EXCEPT !.todo = @ \ {i}, !.tried = @ \cup {Slot(i)}, !.done = {}]
  <2>1. job' = [job EXCEPT !.todo = @ \ {i}, !.tried = @ \cup {Slot(i)}]
    BY DEF FlashInDark
  <2> QED BY <1>1, <2>1 DEF JobTyped, JobInv
<1>3. /\ JobTyped' /\ job'.done = {}
      /\ job'.tried = job.tried \cup {Slot(i)} /\ job'.todo \subseteq job.todo /\ job'.items = job.items
  BY <1>1, <1>2, JobVisits
<1>4. MotorTyped' /\ TextInv'
  BY <1>1, QuietIs DEF MotorInv, MotorTyped, TextInv
<1>5. LinesAgree' /\ RecordsFit' /\ CleanInv'
  BY <1>1, <1>3 DEF MotorInv, LinesAgree, RecordsFit, CleanInv, Agrees, Fits
<1>6. ItemsInv => ItemsInv'
  BY <1>1, <1>3, ItemsStay
<1> QED BY <1>3, <1>4, <1>5, <1>6 DEF MotorInv

(* The record of what was flashed is cleared, and the motor trusted again: *)
(* what its line holds by then is of the new image.                        *)
LEMMA SettleHeard ==
  ASSUME MotorInv, Settle
  PROVE  MotorInv' /\ (ItemsInv => ItemsInv')
<1>1. /\ pc = "settle" /\ pc' = "flash" /\ UNCHANGED <<fw, text, power, line>>
      /\ \/ /\ rec' = [s \in Slots |-> IF s \in job.done THEN Nothing ELSE rec[s]]
            /\ kept' = kept \ job.done /\ clean' = clean \ job.done
         \/ UNCHANGED <<rec, kept, clean>>
  BY DEF Settle, motors
<1>2. PICK c, items, left, due, tried, done :
        job = [cmd |-> c, items |-> items, todo |-> left, due |-> due, tried |-> tried, done |-> done]
  BY DEF MotorInv, JobTyped, JobInv
<1>3. job' = [cmd |-> c, items |-> items, todo |-> left, due |-> due, tried |-> tried, done |-> {}]
  BY <1>2 DEF Settle
<1>4. JobTyped' /\ job'.items = job.items /\ job'.todo = job.todo /\ job'.tried = job.tried /\ job'.done = {}
  <2>1. \A j : Slot(j)' = Slot(j)
    BY <1>2, <1>3 DEF Slot
  <2>2. JobInv'
    BY <1>3 DEF JobInv
  <2> QED BY <1>1, <1>2, <1>3, <2>1, <2>2 DEF MotorInv, JobTyped
<1>5. rec \in [Slots -> Records]
  BY DEF MotorInv, MotorTyped
<1>6. MotorTyped' /\ TextInv'
  <2>1. rec' \in [Slots -> Records]
    BY <1>1, <1>5, NothingTyped
  <2> QED BY <1>1, <2>1 DEF MotorInv, MotorTyped, TextInv
<1>7. LinesAgree'
  BY <1>1, <1>4 DEF MotorInv, LinesAgree, Agrees
<1>8. RecordsFit'
  <2>1. CASE /\ rec' = [s \in Slots |-> IF s \in job.done THEN Nothing ELSE rec[s]]
             /\ kept' = kept \ job.done
    <3> SUFFICES ASSUME NEW s \in Slots, power, fw[s] # Broken, s \notin kept \ job.done
                 PROVE  Fits(fw[s], rec'[s])
      BY <1>1, <2>1 DEF RecordsFit, Fits
    <3>1. CASE s \in job.done
      <4>1. rec'[s] = Nothing
        BY <2>1, <3>1
      <4> QED BY <4>1, NothingTyped DEF Fits
    <3>2. CASE s \notin job.done
      BY <2>1, <3>2 DEF MotorInv, RecordsFit
    <3> QED BY <3>1, <3>2
  <2>2. CASE UNCHANGED <<rec, kept>>
    BY <1>1, <2>2 DEF MotorInv, RecordsFit, Fits
  <2> QED BY <1>1, <2>1, <2>2
<1>9. CleanInv'
  <2> SUFFICES ASSUME NEW s \in clean' PROVE s \in Slots /\ fw[s] \in Images /\ Heard(s, fw[s], Config[s])'
    BY <1>1 DEF CleanInv
  <2>1. s \in clean /\ (UNCHANGED rec \/ s \notin job.done)
    BY <1>1
  <2>2. s \in Slots /\ fw[s] \in Images /\ Heard(s, fw[s], Config[s])
    BY <2>1 DEF MotorInv, CleanInv
  <2>3. rec'[s] = rec[s]
    BY <1>1, <2>1, <2>2
  <2> QED BY <1>1, <2>2, <2>3 DEF Heard
<1>10. ItemsInv => ItemsInv'
  <2>1. job.done \subseteq job.tried /\ JobTyped
    BY DEF MotorInv, JobTyped
  <2> QED BY <1>1, <1>4, <2>1, ItemsStay
<1> QED BY <1>4, <1>6, <1>7, <1>8, <1>9, <1>10 DEF MotorInv

(* The flash of one motor.  What the console held of it is not trusted     *)
(* until the record is cleared, and what comes from it is of the image.    *)
LEMMA FlashHeard ==
  ASSUME MotorInv, NEW i \in job.todo, NEW cycle \in BOOLEAN, NEW outcome \in Outcomes,
         Flash(i, cycle, outcome)
  PROVE  MotorInv' /\ (ItemsInv => ItemsInv')
<1> DEFINE s == Slot(i)
           image == Content[job.items[i].file]
           b == Feed(BufferOf(s), IF outcome # "missed" THEN Menu ELSE <<>>)
           started == IF cycle THEN Boots ELSE text
<1>1. /\ s = Slot(i) /\ image = Content[job.items[i].file]
      /\ b = Feed(BufferOf(s), IF outcome # "missed" THEN Menu ELSE <<>>)
      /\ started = IF cycle THEN Boots ELSE text
  OBVIOUS
<1>2. /\ pc = "flash" /\ power /\ power' = power
      /\ fw' = CASE outcome = "missed" -> fw
                 [] outcome = "broken" -> [fw EXCEPT ![s] = Broken]
                 [] OTHER -> [fw EXCEPT ![s] = image]
      /\ text' = [started EXCEPT ![s] = IF outcome = "done" THEN Banner(image, Config[s])
                                        ELSE IF outcome # "missed" THEN <<>> ELSE @]
      /\ line' = [line EXCEPT ![IndexOf(s)] = b.line] /\ rec' = [rec EXCEPT ![s] = b.rec]
      /\ clean' = ((IF cycle THEN {m \in Starts : line[IndexOf(m)] = <<>>} ELSE clean) \ {s})
                    \cup (IF outcome = "done" THEN {s} ELSE {})
      /\ kept' = (IF outcome # "missed" THEN kept \cup {s} ELSE kept)
      /\ job' = [job EXCEPT !.todo = @ \ {i}, !.tried = @ \cup {s},
                            !.done = IF outcome = "done" THEN {s} ELSE {}]
      /\ pc' = (IF outcome = "done" THEN "settle" ELSE "flash")
  <2>1. pc = "flash" /\ power /\ power' = power
    BY DEF Flash, MotorInv, TextInv
  <2> QED BY <2>1 DEF Flash, BufferOf, Stored
<1> HIDE DEF s, image, b, started
<1>3. /\ s \in Slots /\ image \in Images /\ MotorTyped /\ JobTyped
      /\ BufferOf(s) \in Buffers /\ BufferOf(s).line = line[IndexOf(s)] /\ BufferOf(s).rec = rec[s]
  BY <1>1, BufferTyped DEF MotorInv, JobTyped, Images
<1>4. /\ b \in Buffers
      /\ outcome # "missed" => b.line = <<>>
      /\ outcome = "missed" => b.line = line[IndexOf(s)] /\ b.rec = rec[s]
  <2>1. CASE outcome # "missed"
    BY <1>1, <1>3, <2>1, MenuEndsLine
  <2>2. CASE outcome = "missed"
    <3>1. b = BufferOf(s)
      BY <1>1, <2>2, FeedShort
    <3> QED BY <1>3, <2>2, <3>1
  <2> QED BY <2>1, <2>2
<1>5. /\ line' \in [Indices -> Seq(Pieces)] /\ rec' \in [Slots -> Records]
      /\ line'[IndexOf(s)] = b.line /\ rec'[s] = b.rec
      /\ \A r \in Slots : r # s => line'[IndexOf(r)] = line[IndexOf(r)] /\ rec'[r] = rec[r]
  BY <1>2, <1>3, <1>4, BufferEdited
<1>6. /\ started = [r \in Slots |-> started[r]]
      /\ \A r \in Slots : started[r] # <<>> => /\ fw[r] \in Images
                                               /\ started[r] \in Upcoming(fw[r], Config[r])
  <2>1. CASE cycle
    BY <1>1, <1>3, <2>1, BootsBanner, BannerFrames
  <2>2. CASE ~cycle
    BY <1>1, <2>2 DEF MotorInv, MotorTyped, TextInv
  <2> QED BY <2>1, <2>2
<1>7. /\ fw' \in [Slots -> Images \cup {Broken}]
      /\ \A r \in Slots : r # s => fw'[r] = fw[r]
      /\ outcome = "missed" => fw' = fw
      /\ outcome = "done" => fw'[s] = image
  <2>1. fw \in [Slots -> Images \cup {Broken}]
    BY <1>3 DEF MotorTyped
  <2>2. CASE outcome = "missed"
    BY <1>2, <2>1, <2>2
  <2>3. CASE outcome = "broken"
    BY <1>2, <1>3, <2>1, <2>3
  <2>4. CASE outcome \notin {"missed", "broken"}
    BY <1>2, <1>3, <2>1, <2>4
  <2> QED BY <2>2, <2>3, <2>4
<1>8. /\ text' = [r \in Slots |-> text'[r]]
      /\ \A r \in Slots : r # s => text'[r] = started[r]
      /\ outcome = "missed" => text'[s] = started[s]
      /\ outcome = "done" => text'[s] = Banner(image, Config[s])
      /\ outcome \notin {"missed", "done"} => text'[s] = <<>>
  BY <1>2, <1>3, <1>6
<1>9. MotorTyped'
  BY <1>5, <1>7, <1>8 DEF MotorTyped
<1>10. TextInv'
  <2>1. ASSUME NEW r \in Slots, text'[r] # <<>>
        PROVE  fw'[r] \in Images /\ text'[r] \in Upcoming(fw'[r], Config[r])
    <3>1. CASE r # s \/ outcome = "missed"
      <4>1. text'[r] = started[r] /\ fw'[r] = fw[r]
        BY <1>7, <1>8, <3>1
      <4> QED BY <1>6, <2>1, <4>1
    <3>2. CASE r = s /\ outcome # "missed"
      <4>1. outcome = "done"
        BY <1>8, <2>1, <3>2
      <4> QED BY <1>3, <1>7, <1>8, <3>2, <4>1, BannerFrames
    <3> QED BY <3>1, <3>2
  <2> QED BY <1>2, <2>1 DEF TextInv
<1>11. /\ JobTyped' /\ job'.done = (IF outcome = "done" THEN {s} ELSE {}) /\ job.done = {}
       /\ job'.tried = job.tried \cup {s} /\ job'.todo \subseteq job.todo /\ job'.items = job.items
  <2> DEFINE done == IF outcome = "done" THEN {s} ELSE {}
  <2>1. /\ done \subseteq {Slot(i)} /\ pc' \in {"flash", "settle"} /\ (pc' # "settle" => done = {})
        /\ job' = [job EXCEPT !.todo = @ \ {i}, !.tried = @ \cup {Slot(i)}, !.done = done]
    BY <1>1, <1>2
  <2> HIDE DEF done
  <2>2. /\ JobTyped' /\ job'.done = done /\ job.done = {}
        /\ job'.tried = job.tried \cup {Slot(i)} /\ job'.todo \subseteq job.todo /\ job'.items = job.items
    BY <1>2, <1>3, <2>1, JobVisits
  <2> QED BY <1>1, <2>2 DEF done
<1>12. LinesAgree'
  <2> SUFFICES ASSUME NEW r \in Slots, fw'[r] # Broken, r \notin kept' \/ r \in job'.done
               PROVE  Agrees(fw'[r], line'[IndexOf(r)])
    BY DEF LinesAgree, Agrees
  <2>1. CASE r # s \/ outcome = "missed"
    <3>1. fw'[r] = fw[r] /\ line'[IndexOf(r)] = line[IndexOf(r)] /\ r \notin kept
      BY <1>2, <1>4, <1>5, <1>7, <1>11, <2>1
    <3> QED BY <1>2, <3>1 DEF MotorInv, LinesAgree
  <2>2. CASE r = s /\ outcome # "missed"
    <3>1. line'[IndexOf(r)] = <<>>
      BY <1>4, <1>5, <2>2
    <3> QED BY <3>1 DEF Agrees
  <2> QED BY <2>1, <2>2
<1>13. RecordsFit'
  <2> SUFFICES ASSUME NEW r \in Slots, fw'[r] # Broken, r \notin kept' PROVE Fits(fw'[r], rec'[r])
    BY DEF RecordsFit, Fits
  <2>1. r # s \/ outcome = "missed"
    BY <1>2
  <2>2. fw'[r] = fw[r] /\ rec'[r] = rec[r] /\ r \notin kept
    BY <1>2, <1>4, <1>5, <1>7, <2>1
  <2> QED BY <1>2, <2>2 DEF MotorInv, RecordsFit
<1>14. CleanInv'
  <2> SUFFICES ASSUME NEW r \in clean'
               PROVE  r \in Slots /\ fw'[r] \in Images /\ Heard(r, fw[r], Config[r])'
    BY DEF CleanInv
  <2>1. CASE r = s
    <3>1. outcome = "done"
      BY <1>2, <2>1
    <3>2. text'[s] = << <<Mark>>, Second(image), Third(Config[s]) >> /\ line'[IndexOf(s)] = <<>>
      BY <1>4, <1>5, <1>8, <3>1, BannerIs
    <3> QED BY <1>3, <1>7, <2>1, <3>1, <3>2 DEF Heard
  <2>2. CASE r # s /\ cycle
    <3>1. r \in Starts /\ line[IndexOf(r)] = <<>>
      BY <1>2, <2>2
    <3>2. r \in Slots /\ fw[r] \in Images /\ Boots[r] = Banner(fw[r], Config[r])
      BY <1>3, <3>1, BootsBanner
    <3>3. text'[r] = << <<Mark>>, Second(fw[r]), Third(Config[r]) >> /\ line'[IndexOf(r)] = <<>>
      BY <1>1, <1>5, <1>8, <2>2, <3>1, <3>2, BannerIs
    <3> QED BY <1>7, <2>2, <3>2, <3>3 DEF Heard
  <2>3. CASE r # s /\ ~cycle
    <3>1. r \in clean
      BY <1>2, <2>3
    <3>2. r \in Slots /\ fw[r] \in Images /\ Heard(r, fw[r], Config[r])
      BY <3>1 DEF MotorInv, CleanInv
    <3>3. text'[r] = text[r] /\ fw'[r] = fw[r]
      BY <1>1, <1>7, <1>8, <2>3, <3>2
    <3> QED BY <1>5, <2>3, <3>2, <3>3 DEF Heard
  <2> QED BY <2>1, <2>2, <2>3
<1>15. ItemsInv => ItemsInv'
  <2>1. \A r \in Slots : r \notin job'.tried => fw'[r] = fw[r] /\ (r \notin kept' => r \notin kept)
    BY <1>2, <1>7, <1>11
  <2> QED BY <1>3, <1>11, <2>1, ItemsStay
<1> QED BY <1>9, <1>10, <1>11, <1>12, <1>13, <1>14, <1>15 DEF MotorInv

(* Every step.                                                             *)
LEMMA MotorStep ==
  ASSUME Dense, MotorInv, [Next]_vars
  PROVE  MotorInv' /\ (NamesTrue /\ ItemsInv => ItemsInv')
<1>0. ASSUME job' = job \/ job' = NoJob, job'.todo = {} \/ UNCHANGED <<fw, kept>>
      PROVE  ItemsInv => ItemsInv'
  <2>1. CASE job'.todo = {}
    BY <2>1 DEF ItemsInv
  <2>2. CASE job' = NoJob
    BY <2>2 DEF ItemsInv, NoJob
  <2>3. CASE job' = job /\ UNCHANGED <<fw, kept>>
    BY <2>3, ItemsStay DEF MotorInv
  <2> QED BY <1>0, <2>1, <2>2, <2>3
<1>1. pc \notin {"flash", "settle"} => job.todo = {}
  BY DEF MotorInv, JobTyped
<1> USE DEF motors
<1>2. CASE StartUp \/ (\E f \in Files : FetchBegin(f)) \/ FetchWhole \/ FetchFails \/ FetchRename \/ SyncEnd
  <2>1. /\ UNCHANGED <<motors, power, known, job, kept, clean>>
        /\ pc \notin {"flash", "settle"} /\ (pc' = pc \/ pc' \in {"sync", "shell"})
    BY <1>2 DEF StartUp, FetchBegin, FetchWhole, FetchFails, FetchRename, SyncEnd
  <2> QED BY <1>0, <2>1, MotorsStay
<1>3. CASE Die \/ \E i \in job.todo : DieInTransfer(i)
  <2>1. Forget /\ fw' \in [Slots -> Images \cup {Broken}]
    BY <1>3 DEF Die, DieInTransfer, MotorInv, MotorTyped
  <2>2. job' = NoJob /\ job'.todo = {}
    BY <2>1 DEF Forget, NoJob
  <2> QED BY <1>0, <2>1, <2>2, ForgetForgets
<1>4. ASSUME NEW s \in Slots, Deliver(s) \/ Lose(s) PROVE MotorInv' /\ (NamesTrue /\ ItemsInv => ItemsInv')
  <2>1. UNCHANGED <<job, fw, kept>>
    BY <1>4 DEF Deliver, Lose
  <2> QED BY <1>0, <1>4, <2>1, DeliverHeard, LoseHeard
<1>5. ASSUME NEW s \in Slots, NEW image \in Images, Swap(s, image)
      PROVE  MotorInv' /\ (NamesTrue /\ ItemsInv => ItemsInv')
  <2>1. job' = job /\ job.todo = {}
    BY <1>1, <1>5 DEF Swap, MotorInv, TextInv
  <2> QED BY <1>0, <1>5, <2>1, SwapMotor
<1>6. CASE PowerOn \/ PowerOnFails \/ PowerOff \/ Reload
  <2>1. job' = job /\ job.todo = {}
    BY <1>1, <1>6 DEF PowerOn, PowerOnFails, PowerOff, Reload
  <2> QED BY <1>0, <1>6, <2>1, PowerOnHeard, PowerlessCalls
<1>7. ASSUME NEW on \in SUBSET Slots, NEW told \in SUBSET on, PowerOnEnd(on, told)
      PROVE  MotorInv' /\ (NamesTrue /\ ItemsInv => ItemsInv')
  <2>1. UNCHANGED <<job, fw, kept>>
    BY <1>7 DEF PowerOnEnd
  <2> QED BY <1>0, <1>7, <2>1, ScanHeard
<1>8. CASE \/ \E s \in Slots : \/ FlashSingle(s, Entries[s].version, TRUE)
                               \/ \E v \in Types \cup Files : FlashSingle(s, v, FALSE) \/ FlashDebug(s, v)
           \/ \E plan \in Plans, on \in SUBSET Slots : FlashAll(plan, on)
  BY <1>8, JobBegins
<1>9. CASE \E i \in job.todo : \/ \E cycle \in BOOLEAN, outcome \in Outcomes : Flash(i, cycle, outcome)
                               \/ FlashInDark(i)
  BY <1>9, FlashHeard, DarkHeard
<1>10. CASE Settle
  BY <1>10, SettleHeard
<1>11. CASE FlashEnd
  <2>1. /\ pc = "flash" /\ pc' = "shell" /\ job' = NoJob /\ UNCHANGED <<motors, power, known, kept, clean>>
    BY <1>11 DEF FlashEnd
  <2> QED BY <1>0, <2>1, MotorsStay
<1>12. CASE UNCHANGED vars
  <2>1. UNCHANGED <<pc, motors, power, known, job, kept, clean>>
    BY <1>12 DEF vars, known
  <2> QED BY <1>0, <2>1, MotorsStay
<1> QED
  BY <1>2, <1>3, <1>4, <1>5, <1>6, <1>7, <1>8, <1>9, <1>10, <1>11, <1>12 DEF Next

----------------------------------------------------------------------------
(* For all motors, images and plans, and any order of events: a version    *)
(* that the record calls confirmed is that of the firmware in the motor.   *)
THEOREM FirmwareConfirmedIsTrue ==
  ASSUME Dense
  PROVE  Spec => []ConfirmedIsTrue
<1>1. MotorInv /\ [Next]_vars => MotorInv'
  BY MotorStep
<1>2. MotorInv => ConfirmedIsTrue
  BY DEF MotorInv, RecordsFit, Fits, ConfirmedIsTrue
<1> QED BY <1>1, <1>2, MotorInit, PTL DEF Spec

(* A banner that came whole to a motor whose line buffer was empty is read *)
(* as it was said: the version and the type of the running firmware are on *)
(* record (save_boot_lines, record_boot_text), for any banner and any cut. *)
THEOREM FirmwareBannerRead ==
  ASSUME Dense
  PROVE  Spec => []BannerRead
<1>1. MotorInv /\ [Next]_vars => MotorInv'
  BY MotorStep
<1>2. MotorInv => BannerRead
  <2> SUFFICES ASSUME MotorInv, NEW s \in clean, text[s] = <<>>
               PROVE  rec[s].boot /\ rec[s].ver = {fw[s].series} /\ rec[s].type = {fw[s].type}
    BY DEF BannerRead
  <2>1. Heard(s, fw[s], Config[s])
    BY DEF MotorInv, CleanInv
  <2>2. \A x, y, z : << x >> # <<>> /\ << x, y >> # <<>> /\ << x, y, z >> # <<>>
    OBVIOUS
  <2> QED BY <2>1, <2>2 DEF Heard
<1> QED BY <1>1, <1>2, MotorInit, PTL DEF Spec

(* What a flash writes was promised when the job began, and what it was    *)
(* promised of is still in the motor.                                      *)
LEMMA FlashFits ==
  ASSUME MotorInv, ItemsInv, [Next]_vars, NEW s \in Slots, NEW i \in job.todo,
         pc = "flash", Current(i), fw'[s] # fw[s], fw[s] # Broken, fw'[s] # Broken,
         s \notin kept \cup job.tried
  PROVE  /\ job.items[i].series => fw'[s].series = fw[s].series
         /\ job.items[i].type => fw'[s].type = fw[s].type
<1>1. power /\ fw \in [Slots -> Images \cup {Broken}] /\ JobTyped
  BY DEF MotorInv, TextInv, MotorTyped
<1>2. ASSUME NEW j \in job.todo, NEW cycle \in BOOLEAN, NEW outcome \in Outcomes,
             Flash(j, cycle, outcome)
      PROVE  /\ job.items[i].series => fw'[s].series = fw[s].series
             /\ job.items[i].type => fw'[s].type = fw[s].type
  <2>1. j = i
    <3>1. Current(j) /\ i \in Nat /\ j \in Nat
      BY <1>1, <1>2 DEF Flash, JobTyped
    <3> QED BY <3>1 DEF Current
  <2>2. fw' = Stored(Slot(i), job.items[i].file, outcome)
    BY <1>2, <2>1 DEF Flash
  <2>3. s = Slot(i) /\ fw'[s] = Content[job.items[i].file]
    <3>1. fw' # fw
      OBVIOUS
    <3>2. CASE outcome = "missed"
      BY <2>2, <3>1, <3>2 DEF Stored
    <3>3. CASE outcome = "broken"
      BY <1>1, <2>2, <3>3 DEF Stored
    <3>4. CASE outcome \notin {"missed", "broken"}
      BY <1>1, <2>2, <3>4 DEF Stored
    <3> QED BY <3>2, <3>3, <3>4
  <2>4. ItemFits(job.items[i]) /\ job.items[i].slot = s
    BY <2>3 DEF ItemsInv, Slot
  <2> QED BY <2>3, <2>4 DEF ItemFits
<1>3. ASSUME NEW j \in job.todo, DieInTransfer(j) PROVE FALSE
  BY <1>1, <1>3 DEF DieInTransfer
<1>4. ASSUME fw' = fw PROVE FALSE
  BY <1>4
<1> USE DEF motors
<1>5. CASE StartUp \/ (\E f \in Files : FetchBegin(f)) \/ FetchWhole \/ FetchFails \/ FetchRename \/ SyncEnd \/ Die
  BY <1>4, <1>5 DEF StartUp, FetchBegin, FetchWhole, FetchFails, FetchRename, SyncEnd, Die
<1>6. CASE \E r \in Slots : Deliver(r) \/ Lose(r) \/ \E image \in Images : Swap(r, image)
  BY <1>1, <1>4, <1>6 DEF Deliver, Lose, Swap
<1>7. CASE PowerOn \/ PowerOnFails \/ PowerOff \/ Reload
  BY <1>4, <1>7 DEF PowerOn, PowerOnFails, PowerOff, Reload
<1>8. CASE \E on \in SUBSET Slots : \E told \in SUBSET on : PowerOnEnd(on, told)
  BY <1>4, <1>8 DEF PowerOnEnd
<1>9. CASE \/ \E r \in Slots : \/ FlashSingle(r, Entries[r].version, TRUE)
                               \/ \E v \in Types \cup Files : FlashSingle(r, v, FALSE) \/ FlashDebug(r, v)
           \/ \E plan \in Plans, on \in SUBSET Slots : FlashAll(plan, on)
  BY <1>9 DEF FlashSingle, FlashDebug, FlashAll, Ready
<1>10. CASE Settle \/ FlashEnd \/ (\E j \in job.todo : FlashInDark(j)) \/ UNCHANGED vars
  BY <1>4, <1>10 DEF Settle, FlashEnd, FlashInDark, vars
<1> QED BY <1>2, <1>3, <1>5, <1>6, <1>7, <1>8, <1>9, <1>10 DEF Next

(* For all motors, plans and files that hold what their names say: a flash *)
(* that keeps the series or the type keeps that of the firmware which is   *)
(* in the motor when it is written (flash_single, flash_all).              *)
THEOREM FirmwareImageFits ==
  ASSUME Dense, NamesTrue
  PROVE  Spec => ImageFits
<1>1. Init => MotorInv /\ ItemsInv
  BY MotorInit DEF Init, ItemsInv, NoJob
<1>2. MotorInv /\ ItemsInv /\ [Next]_vars => (MotorInv /\ ItemsInv)'
  BY MotorStep
<1>3. MotorInv /\ ItemsInv /\ [Next]_vars
      => [\A s \in Slots, i \in job.todo :
            /\ pc = "flash" /\ Current(i) /\ fw'[s] # fw[s]
            /\ fw[s] # Broken /\ fw'[s] # Broken /\ s \notin kept \cup job.tried
            => /\ job.items[i].series => fw'[s].series = fw[s].series
               /\ job.items[i].type => fw'[s].type = fw[s].type]_vars
  BY FlashFits
<1> QED BY <1>1, <1>2, <1>3, PTL DEF Spec, ImageFits
=============================================================================
