------------------------------- MODULE Firmware -------------------------------
(***************************************************************************)
(* From the download station to the motor's flash: the fetch at the start  *)
(* of the program, what the console learns of each motor's firmware, and   *)
(* the choice of a file by flash_single, flash_all and flash_debug.        *)
(* The way into the bootloader and the transfer are the module Ymodem;     *)
(* here they are one step with the outcomes they have.  That no motor is   *)
(* enabled when a flash begins is part of MotorConsole.                    *)
(***************************************************************************)
EXTENDS PlanFile, BootText, FiniteSets

CONSTANTS
  DefaultPlan,   \* lines of config/flash_plan_default.yaml
  Plans,         \* plan files a user may name
  Series,        \* major.minor
  FileFor,       \* firmware_v<major>_<minor> of a type: the names, at most one
  BaseFile,      \* firmware of a type
  Content,       \* what a file holds: type and series
  Bundled,       \* files in firmware_dir
  Config,        \* config version register of the motor in a slot
  SyncOn,        \* firmware_sync_on_start, and there is a URL
  Fitted,        \* firmware in the motor of each slot at first
  Limit,         \* bounds of the runs: events of each kind,
  MaxEvents      \*   and of all kinds together

VARIABLES
  pc,        \* place of the program
  ready,     \* firmware_prefetch_ready
  cache,     \* firmware_cache_dir: what is under each name
  tmp,       \* the download under way: its name and whether it is complete
  todo,      \* names yet to be fetched
  missed,    \* some fetch failed
  supply,    \* the supply is on
  power,     \* motor_power_on
  fw,        \* firmware in the motor of each slot
  text,      \* frames of text under way from it
  line,      \* boot_log_lines, by motor index
  rec,       \* what motors[slot] says of its firmware
  job,       \* the flash command: what it flashes
  kept,      \* motors that were sent an image and whose record was kept
  clean,     \* motors whose banner has been complete and undisturbed so far
  count      \* starts, boots, jobs, lost frames and exchanges so far

vars == <<pc, ready, cache, tmp, todo, missed, supply, power, fw, text, line,
          rec, job, kept, clean, count>>
disk == <<ready, cache, tmp, todo, missed>>
motors == <<supply, fw, text>>
known == <<line, rec>>

Entries == Topology(DefaultPlan)
Slots == DOMAIN Entries
Indices == {Entries[s].index : s \in Slots}
IndexOf(s) == Entries[s].index

Broken == [type |-> "none", series |-> "none"]   \* no application that starts
Images == {Content[f] : f \in Files}
NoFile == "none"
NoTmp == [file |-> NoFile, whole |-> FALSE]
NoJob == [cmd |-> "none", items |-> <<>>, todo |-> {}, due |-> {}, tried |-> {}, done |-> {}]
Blank == [s \in Slots |-> Nothing]
Quiet == [s \in Slots |-> <<>>]

(* The items of a flash command are visited in their order.                *)
Current(i) == i \in job.todo /\ \A j \in job.todo : i <= j
Slot(i) == job.items[i].slot

Starts == {s \in Slots : fw[s] # Broken}
Boots == [s \in Slots |-> IF s \in Starts THEN Banner(fw[s], Config[s]) ELSE <<>>]
Events == {"starts", "boots", "jobs", "lost", "swaps"}
Spent == count.starts + count.boots + count.jobs + count.lost + count.swaps
May(what) == count[what] < Limit[what] /\ Spent < MaxEvents
Count(what) == count' = [count EXCEPT ![what] = @ + 1]

ASSUME FilesAssumption ==
  /\ NoFile \notin Files /\ Bundled \subseteq Files
  /\ FileFor \in [Types \X Series -> SUBSET Files]
  /\ BaseFile \in [Types -> Files]
  /\ \A f \in Files : Content[f].series \in Series
  /\ Config \in [Slots -> Series]
  /\ Fitted \in [Slots -> Images]
  /\ Garbled \notin Types

ASSUME PlansAssumption ==
  \A plan \in Plans \cup {DefaultPlan} : plan \in Seq(Range(plan))

----------------------------------------------------------------------------
(* The fetch at the start: main, console_prefetch_firmware.                *)

(* configured_firmware_name, flash_plan_version_to_filename *)
NameOf(version) == IF version \in Types THEN BaseFile[version] ELSE version

(* The files the default plan calls for: those of a version that ends in   *)
(* .bin, or the base file and every series of a type.                      *)
Wanted ==
  UNION { {NameOf(e.version)}
            \cup IF e.version \in Types THEN UNION {FileFor[<<e.version, v>>] : v \in Series} ELSE {} :
          e \in Range(Entries) }

Init ==
  /\ pc = "down" /\ ready = FALSE /\ tmp = NoTmp /\ todo = {} /\ missed = FALSE
  /\ cache = [f \in Files |-> "none"]
  /\ supply = FALSE /\ power = FALSE
  /\ fw = Fitted
  /\ text = Quiet /\ line = [i \in Indices |-> <<>>] /\ rec = Blank
  /\ job = NoJob /\ kept = {} /\ clean = {}
  /\ count = [what \in Events |-> 0]

(* main: what an earlier run has left in the cache is there, but old. *)
StartUp ==
  /\ pc = "down" /\ May("starts")
  /\ cache' = [f \in Files |-> IF cache[f] = "new" THEN "old" ELSE cache[f]]
  /\ IF SyncOn THEN pc' = "sync" /\ todo' = Wanted
               ELSE pc' = "shell" /\ todo' = {}
  /\ Count("starts")
  /\ UNCHANGED <<ready, tmp, missed, motors, power, known, job, kept, clean>>

(* run_download_tool begins to write, into a name of its own. *)
FetchBegin(f) ==
  /\ pc = "sync" /\ tmp = NoTmp /\ f \in todo
  /\ todo' = todo \ {f}
  /\ tmp' = [file |-> f, whole |-> FALSE]
  /\ UNCHANGED <<pc, ready, cache, missed, motors, power, known, job, kept, clean, count>>

FetchWhole ==
  /\ pc = "sync" /\ tmp.file # NoFile /\ ~tmp.whole
  /\ tmp' = [tmp EXCEPT !.whole = TRUE]
  /\ UNCHANGED <<pc, ready, cache, todo, missed, motors, power, known, job, kept, clean, count>>

(* Both tools failed, or the rename did: the partial file is removed. *)
FetchFails ==
  /\ pc = "sync" /\ tmp.file # NoFile
  /\ tmp' = NoTmp /\ missed' = TRUE
  /\ UNCHANGED <<pc, ready, cache, todo, motors, power, known, job, kept, clean, count>>

Placed == IF tmp.whole THEN "new" ELSE "part"
FetchInPlace ==   \* mutant: the download writes under the final name
  /\ pc = "sync" /\ tmp.file # NoFile
  /\ cache' = [cache EXCEPT ![tmp.file] = Placed]
  /\ tmp' = NoTmp
  /\ UNCHANGED <<pc, ready, todo, missed, motors, power, known, job, kept, clean, count>>
FetchRename ==
  /\ pc = "sync" /\ tmp.file # NoFile /\ tmp.whole
  /\ cache' = [cache EXCEPT ![tmp.file] = Placed]
  /\ tmp' = NoTmp
  /\ UNCHANGED <<pc, ready, todo, missed, motors, power, known, job, kept, clean, count>>

AllFetched == todo = {} /\ ~missed
SyncEnd ==
  /\ pc = "sync" /\ todo = {} /\ tmp = NoTmp
  /\ ready' = AllFetched
  /\ pc' = "shell"
  /\ UNCHANGED <<cache, tmp, todo, missed, motors, power, known, job, kept, clean, count>>

(* The process ends or dies, and all it knows with it; what the motors     *)
(* print while nobody listens is lost.                                     *)
Forget ==
  /\ May("starts") \* a death that nothing follows shows nothing
  /\ pc' = "down"
  /\ ready' = FALSE /\ tmp' = NoTmp /\ todo' = {} /\ missed' = FALSE
  /\ power' = FALSE /\ rec' = Blank /\ line' = [i \in Indices |-> <<>>]
  /\ job' = NoJob /\ kept' = {} /\ clean' = {} /\ text' = Quiet

Die ==
  /\ pc # "down" /\ Forget
  /\ UNCHANGED <<cache, supply, fw, count>>

(* ... in the middle of a transfer *)
DieInTransfer(i) ==
  /\ pc = "flash" /\ Current(i) /\ Forget
  /\ fw' = [fw EXCEPT ![Slot(i)] = Broken]
  /\ UNCHANGED <<cache, supply, count>>

(* A motor is exchanged, or flashed elsewhere, while its supply is off. *)
Swap(s, image) ==
  /\ ~supply /\ ~power /\ May("swaps")
  /\ image # fw[s] /\ fw' = [fw EXCEPT ![s] = image]
  /\ Count("swaps")
  /\ UNCHANGED <<pc, disk, power, supply, text, known, job, kept, clean>>

----------------------------------------------------------------------------
(* What the console learns.                                                *)

(* The receive callback takes a frame of text. *)
Deliver(s) ==
  /\ text[s] # <<>>
  /\ LET b == Feed([line |-> line[IndexOf(s)], rec |-> rec[s]], Head(text[s])) IN
       /\ line' = [line EXCEPT ![IndexOf(s)] = b.line]
       /\ rec' = [rec EXCEPT ![s] = b.rec]
  /\ text' = [text EXCEPT ![s] = Tail(@)]
  /\ UNCHANGED <<pc, disk, supply, power, fw, job, kept, clean, count>>

Lose(s) ==
  /\ text[s] # <<>> /\ May("lost")
  /\ Count("lost")
  /\ text' = [text EXCEPT ![s] = Tail(@)]
  /\ clean' = clean \ {s}
  /\ UNCHANGED <<pc, disk, supply, power, fw, known, job, kept>>

(* console_power_on resets as many line buffers as there are motors, and   *)
(* the versions and the type on record.                                    *)
LinesKept == line   \* mutant: partial lines survive
LinesReset == [i \in Indices |-> IF i < Len(Entries) THEN <<>> ELSE line[i]]
Remembered == line' = LinesReset /\ kept' = {} /\ UNCHANGED rec \* mutant: versions survive
Forgotten == line' = LinesReset /\ kept' = {} /\ rec' = Blank
PowerOn ==
  /\ pc = "shell" /\ ~power /\ May("boots")
  /\ Forgotten
  /\ supply' = TRUE /\ power' = TRUE
  /\ IF supply THEN UNCHANGED <<text, clean>>
     ELSE text' = Boots /\ clean' = Starts
  /\ pc' = "boot" /\ Count("boots")
  /\ UNCHANGED <<disk, fw, job>>

(* The driver refuses: the records are gone all the same. *)
PowerOnFails ==
  /\ pc = "shell" /\ ~power
  /\ Forgotten
  /\ UNCHANGED <<pc, disk, motors, power, job, clean, count>>

(* console_scan_online_versions: a register is read from the motors `on',  *)
(* and answered by the motors `told', whose text has gone before.          *)
Scanned(r, s, told) ==
  LET cfg == IF told THEN {Config[s]} ELSE {} IN
  [r EXCEPT !.cfg = cfg, !.ver = IF @ = {} THEN cfg ELSE @]
PowerOnEnd(on, told) ==
  /\ pc = "boot"
  /\ on \subseteq Starts /\ told \subseteq {s \in on : text[s] = <<>>}
  /\ rec' = [s \in Slots |-> IF s \in on THEN Scanned(rec[s], s, s \in told) ELSE rec[s]]
  /\ pc' = "shell"
  /\ UNCHANGED <<disk, motors, power, line, job, kept, clean, count>>

(* console_power_off: text stops in the middle of a line. *)
PowerOff ==
  /\ pc = "shell" /\ power
  /\ supply' = FALSE /\ power' = FALSE
  /\ text' = Quiet /\ clean' = {}
  /\ UNCHANGED <<pc, disk, fw, known, job, kept, count>>

(* console_reload_config, with the same configuration: the records and the *)
(* result of the fetch are forgotten.                                      *)
Reload ==
  /\ pc = "shell" /\ ~power
  /\ ready' = FALSE /\ rec' = Blank /\ kept' = {} /\ clean' = {}
  /\ UNCHANGED <<pc, cache, tmp, todo, missed, motors, power, line, job, count>>

----------------------------------------------------------------------------
(* The choice of a file.                                                   *)

InCache(f) == cache[f] # "none"
Readable(f) == f \in Bundled \/ (ready /\ InCache(f))

(* console_flash_type_for_motor *)
FlashType(s, otherwise) ==
  IF rec[s].type \subseteq Types /\ rec[s].type # {} THEN Value(rec[s].type) ELSE otherwise

(* console_firmware_name_for_slot: the version of the banner, or else that *)
(* of the register.                                                        *)
VersionByConfig(s) == IF rec[s].cfg # {} THEN rec[s].cfg ELSE rec[s].ver \* mutant
Version(s) == IF rec[s].boot THEN rec[s].ver ELSE rec[s].cfg
SeriesFile(s, type) ==
  IF type \in Types THEN UNION {FileFor[<<type, v>>] : v \in Version(s)} ELSE {}

(* A name that ends in .bin is taken as it is; `detect' is off where the   *)
(* user named a type.                                                      *)
Choice(s, version, detect) ==
  {f \in IF version \in Files THEN {version}
         ELSE SeriesFile(s, IF detect THEN FlashType(s, version) ELSE version) : Readable(f)}

Item(s, f, auto, detect) ==
  [slot |-> s, file |-> f,
   series |-> auto /\ rec[s].boot,            \* chosen by a confirmed version
   type |-> auto /\ detect /\ rec[s].type \subseteq Types /\ rec[s].type # {}]

Begin(cmd, items, due) ==
  /\ pc' = "flash"
  /\ job' = [NoJob EXCEPT !.cmd = cmd, !.items = items, !.todo = DOMAIN items, !.due = due]
  /\ Count("jobs")

Ready == pc = "shell" /\ power /\ May("jobs")

(* console_flash: one motor, the version it has by default or one named. *)
FlashSingle(s, version, detect) ==
  /\ Ready
  /\ \E f \in Choice(s, version, detect) :
       Begin("single", <<Item(s, f, version \notin Files, detect)>>, {s})
  /\ UNCHANGED <<disk, motors, power, known, kept, clean>>

(* console_flash_debug: a type stands for its base file. *)
FlashDebug(s, version) ==
  /\ Ready
  /\ \E f \in {NameOf(version)} :
       Readable(f) /\ Begin("debug", <<Item(s, f, FALSE, FALSE)>>, {s})
  /\ UNCHANGED <<disk, motors, power, known, kept, clean>>

(* console_flash_plan_file: the motors `on' answer the scan.  Every target *)
(* among them needs a file before the first is flashed.                    *)
Resolved(t) == Choice(Value(SlotsOf(Entries, t)), t.version, TRUE)

OnlineSkipping(ts, on) == \* mutant: a target without a file is left out
  {i \in DOMAIN ts : SlotsOf(Entries, ts[i]) \cap on # {} /\ Resolved(ts[i]) # {}}
OnlineTargets(ts, on) == {i \in DOMAIN ts : SlotsOf(Entries, ts[i]) \cap on # {}}
Preflight(ts, sel) == sel # {} /\ \A i \in sel : Resolved(ts[i]) # {}
Batch(ts, sel) ==
  [i \in sel |->
     Item(Value(SlotsOf(Entries, ts[i])), Value(Resolved(ts[i])), ts[i].version \notin Files, TRUE)]
Loaded == [plan \in Plans |-> Load(plan)]
Due(ts, on) == UNION {SlotsOf(Entries, ts[i]) \cap on : i \in DOMAIN ts}
FlashAll(plan, on) ==
  /\ Ready /\ on \subseteq Starts /\ on # {} /\ ~Loaded[plan].bad
  /\ LET ts == Loaded[plan].targets
         sel == OnlineTargets(ts, on)
     IN Preflight(ts, sel) /\ Begin("all", Batch(ts, sel), Due(ts, on))
  /\ UNCHANGED <<disk, motors, power, known, kept, clean>>

----------------------------------------------------------------------------
(* The flash of one motor.                                                 *)

Menu == <<[k |-> "menu"], NL>>            \* Boot menu: ...
Outcomes == {"missed", "broken", "unstarted", "done"}

(* boot_flash_file: the bootloader is not reached; or the image is not     *)
(* stored; or it is, but not started; or all went well.  With `cycle' the  *)
(* supply is switched off and on, and every motor starts again.            *)
Stored(s, f, outcome) ==
  CASE outcome = "missed" -> fw
    [] outcome = "broken" -> [fw EXCEPT ![s] = Broken]
    [] OTHER -> [fw EXCEPT ![s] = Content[f]]

Flash(i, cycle, outcome) ==
  /\ pc = "flash" /\ Current(i)
  /\ cycle => May("boots")
  /\ supply \/ cycle \/ outcome = "missed"
  /\ LET s == Slot(i)
         f == job.items[i].file
         started == IF cycle THEN Boots ELSE text
         seen == outcome # "missed"
         b == Feed([line |-> line[IndexOf(s)], rec |-> rec[s]], IF seen THEN Menu ELSE <<>>)
     IN /\ fw' = Stored(s, f, outcome)
        /\ text' = [started EXCEPT ![s] = IF outcome = "done" THEN Banner(Content[f], Config[s])
                                          ELSE IF seen THEN <<>> ELSE @]
        /\ line' = [line EXCEPT ![IndexOf(s)] = b.line]
        /\ rec' = [rec EXCEPT ![s] = b.rec]
        /\ clean' = ((IF cycle THEN {m \in Starts : line[IndexOf(m)] = <<>>} ELSE clean) \ {s})
                      \cup (IF outcome = "done" THEN {s} ELSE {})
        /\ kept' = IF seen THEN kept \cup {s} ELSE kept
        /\ job' = [job EXCEPT !.todo = @ \ {i}, !.tried = @ \cup {s},
                              !.done = IF outcome = "done" THEN {s} ELSE {}]
  /\ supply' = (supply \/ cycle)
  /\ pc' = IF outcome = "done" THEN "settle" ELSE "flash"
  /\ IF cycle THEN Count("boots") ELSE UNCHANGED count
  /\ UNCHANGED <<disk, power>>

(* The second call of the power cycle fails: the supply stays off. *)
FlashInDark(i) ==
  /\ pc = "flash" /\ Current(i)
  /\ supply' = FALSE /\ text' = Quiet /\ clean' = {}
  /\ job' = [job EXCEPT !.todo = @ \ {i}, !.tried = @ \cup {Slot(i)}]
  /\ UNCHANGED <<pc, disk, power, fw, known, kept, count>>

(* After the success of flash_single or flash_all the record is cleared;   *)
(* flash_debug keeps it.  The callback may have come before.               *)
Cleared == job.cmd # "debug"
Settle ==
  /\ pc = "settle"
  /\ IF Cleared THEN /\ rec' = [s \in Slots |-> IF s \in job.done THEN Nothing ELSE rec[s]]
                     /\ kept' = kept \ job.done /\ clean' = clean \ job.done
     ELSE UNCHANGED <<rec, kept, clean>>
  /\ job' = [job EXCEPT !.done = {}]
  /\ pc' = "flash"
  /\ UNCHANGED <<disk, motors, power, line, count>>

(* All were visited, or a stop request came between two of them. *)
FlashEnd ==
  /\ pc = "flash"
  /\ pc' = "shell" /\ job' = NoJob
  /\ UNCHANGED <<disk, motors, power, known, kept, clean, count>>

Next ==
  \/ StartUp \/ (\E f \in Files : FetchBegin(f)) \/ FetchWhole \/ FetchFails
  \/ FetchRename \/ SyncEnd \/ Die
  \/ \E s \in Slots : Deliver(s) \/ Lose(s) \/ \E image \in Images : Swap(s, image)
  \/ PowerOn \/ PowerOnFails \/ PowerOff \/ Reload
  \/ \E on \in SUBSET Slots : \E told \in SUBSET on : PowerOnEnd(on, told)
  \/ \E s \in Slots : \/ FlashSingle(s, Entries[s].version, TRUE)
                      \/ \E v \in Types \cup Files : FlashSingle(s, v, FALSE) \/ FlashDebug(s, v)
  \/ \E plan \in Plans, on \in SUBSET Slots : FlashAll(plan, on)
  \/ \E i \in job.todo :
       \/ \E cycle \in BOOLEAN, outcome \in Outcomes : Flash(i, cycle, outcome)
       \/ FlashInDark(i) \/ DieInTransfer(i)
  \/ Settle \/ FlashEnd

Spec == Init /\ [][Next]_vars

----------------------------------------------------------------------------
(* Properties                                                              *)

(* Two properties of an installation.  The indices of the motors have no   *)
(* gap: without it PowerOn leaves line buffers that it does not reset.     *)
Dense == \A s \in Slots : IndexOf(s) < Len(Entries)

(* A file holds what its name says: the firmware of a type and a series.   *)
NamesTrue ==
  \A t \in Types, v \in Series : \A f \in FileFor[<<t, v>>] :
     Content[f].type = t /\ Content[f].series = v

(* What a reader finds under a name of the cache is a complete download,   *)
(* whenever the process died; and while the console prefers the cache,     *)
(* every file the default plan calls for was fetched by this very run      *)
(* (README.md:409; the temporary name of download_firmware_to_cache).      *)
CacheSound ==
  /\ \A f \in Files : cache[f] # "part"
  /\ ready => \A f \in Wanted : cache[f] = "new"

(* A version that the record calls confirmed is that of the firmware in    *)
(* the motor, through power cycles, exchanges, lost frames, late text and  *)
(* restarts, unless an image was sent without the record being cleared:    *)
(* flash_debug, or a flash that failed (README.md:433, motor_list).        *)
ConfirmedIsTrue ==
  \A s \in Slots :
    power /\ rec[s].boot /\ s \notin kept /\ fw[s] # Broken => rec[s].ver = {fw[s].series}

(* A banner that arrives whole after the supply was switched on is read,   *)
(* wherever its frames cut the lines and whatever an earlier one left in   *)
(* the line buffer (control.c:548, print_boot_terminal_output).            *)
BannerRead ==
  \A s \in clean :
    text[s] = <<>> => /\ rec[s].boot /\ rec[s].ver = {fw[s].series}
                     /\ rec[s].type = {fw[s].type}

(* flash_all begins only if every target that answered the scan has a      *)
(* readable file, and leaves out none of them (README.md:556).             *)
NothingUnlessAll ==
  pc \in {"flash", "settle"} /\ job.cmd = "all" =>
    /\ job.due \subseteq job.tried \cup {Slot(i) : i \in job.todo}
    /\ \A i \in job.todo : Readable(job.items[i].file)

(* An image chosen by a confirmed version keeps the motor's series, and    *)
(* one chosen by a detected type its type, at the time it is written       *)
(* and not just when it was chosen; but for motors whose record was kept,  *)
(* and for the second flash of a motor that a plan names twice.            *)
ImageFits ==
  [][\A s \in Slots, i \in job.todo :
       /\ pc = "flash" /\ Current(i) /\ fw'[s] # fw[s]
       /\ fw[s] # Broken /\ fw'[s] # Broken /\ s \notin kept \cup job.tried
       => /\ job.items[i].series => fw'[s].series = fw[s].series
          /\ job.items[i].type => fw'[s].type = fw[s].type]_vars
=============================================================================
