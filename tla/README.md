# motor_console: a verification project

TLA+ modules for the console program `motor_console` (`src/main.c` and `src/lib/`),
the TLC configurations that check them on small instances, and proofs for TLAPS.
In this file paths like `control.c:284` are relative to `src/src/lib/`.

## 1. The system

`motor_console` powers, scans, enables, moves and flashes up to 33 motors on seven
CAN buses through a PCI driver. Two threads run: the main thread, which reads
commands and executes them one at a time, and the driver's receive thread, which
calls `can_rx_callback` for every frame. They share `flash_state`. The two receive
rings are under a mutex; the motor records (`online`, `enabled`, `rx_count`, the
last reply, the state label) and the CAN counters are not. `SIGINT` and `SIGTERM`
only set `stop_requested`.

| Part | State | Operations | Module |
|---|---|---|---|
| Terminal and exit path (`terminal.c`, `main.c`) | current command, `stop_requested` | read a line, run a command, leave, close the driver | `MotorConsole` |
| Power and scan (`control.c`) | `motor_power_on`, supply | `power_on`, `motor_probe`, `motor_scan`, `power_off`, `quit` | `MotorConsole`, `PowerSession` |
| Special frames, motion (`control.c`) | `enabled`, `before[]` | enable, disable, zero, `mit_set`, `stand_up`, `stand_sine` | `MotorConsole` |
| Receive callback (`runtime.c`) | motor records, rings, label, lines of boot text | one frame | `MotorConsole`, `Ring`, `Ymodem`, `Registers`, `BootText` |
| Receive rings (`runtime.c`) | `head`, `tail`, `used`, `data` | push, pop, clear | `Ring` |
| Bootloader entry and YMODEM (`runtime.c`) | packet, sequence number, try | `boot_flash_file` and what it calls | `Ymodem` |
| Flash commands (`flash.c`) | plan, targets, records | `flash_single`, `flash_all`, `flash_debug` | `Firmware`, `PlanFile`; power and flags in `MotorConsole`, transfer in `Ymodem` |
| Firmware lookup and download (`flash.c`) | cache directory, temporary file, `firmware_prefetch_ready` | fetch at the start, search, choice by version and type | `Firmware` |
| Plans and default topology (`flash.c`, `runtime.c`) | targets, table of motors | load a plan, make the table | `PlanFile` |
| Register commands (`control.c`, `debug.c`) | pending register, `frame_ring` | read, write, save, info, version scan, `motor_reply`'s read | `Registers` |
| CAN counters (`core.c`) | `outstanding_replies`, ... | expect, receive, time out, reset | not modelled (section 7) |
| Single-motor zero-cycle test (`zero_cycle_test.c`) | software offset, anomalies, tally | `zero_cycle_test` | `ZeroCycle` |
| Group zero-cycle test (`zero_cycle_group_test.c`) | baselines, freeze, tally | `zero_cycle_group_test` | `ZeroCycleGroup` |
| Configuration, display, line editor, frame packing, tools | | | not modelled (section 7) |

What makes it hard: the callback changes flags in the middle of a command that has
read them; a reply may be lost, late, or from an earlier command; a supply call may
fail between two others; a motor starts with text that is cut into frames and may end in mid-line; a stop request cuts every wait short; a transfer resends
packets over a channel whose acknowledgements carry no number; and the zero-cycle tests switch the
supply hundreds of times under motors whose readings may jump at every power-on, which is what they look for.

What should hold, part by part:

* power: the console never forgets a live supply, and leaves it on only if the last cut failed;
* special frames: what it believes about `enabled` covers every drive stage that is on,
  so that ZERO, flashing and the cut find motors at rest;
* terminal: each command ends, and a stop request ends the session;
* rings: newest elements, in order, no lost wake-up;
* registers: an answer is filed under the motor and register that were asked;
* zero-cycle tests: a motor is only driven while its coordinates are true, PASS is earned, what
  is recorded is what happened, and the supply is not cut under a motor that drives;
* flashing: a transfer that is reported as done is whole, and no image is a mixture;
* firmware: what is called confirmed of a motor is true of it, the image that is written fits the motor,
  a batch is checked as a whole before it starts, and no half download is ever used.

`PROJECT.json` lists the hazards behind these properties, each at its line, also
the three that no property covers.

## 2. Modules and how they correspond to the code

**PowerSession** is the abstract promise of the supply: it is switched on and off, a
switch-off may fail, and the session ends with the supply off unless the last
effective call was a switch-off that failed.

**MotorConsole** is the console. `pc` is the place of the main thread; each action is
a stretch of code between two points where the other thread or the environment can be
seen: a send, a wait, a supply call, a return to the prompt. `job` is the command, `sel` the
selected motors, `todo` those the send loop has yet to visit. A command compares
`rx_count` with the copy `before[]` only for equality, so the pair is the set `heard`.
The callback takes two steps, because it writes the flags first (`RxFrame`) and
counts last (`RxCount`). Frames travel in one queue per motor and direction; motors
obey special frames, the supply and the reset, and answer in their own time.
Commands that touch nothing of this are `OtherCommand`. `stand_up` and `stand_sine`
are one stream of frames: they differ in the trajectory and in the grippers they leave
out, which `StandVisit` allows by skipping any motor.

**Ring** is `rx_ring` and `frame_ring`, which are the same code but for the batch.
Elements are stamps in order of arrival. An action is one critical section, but the
push of a batch is one step per element under the lock.

**Ymodem** is `boot_flash_file`. Three tables hold what is uniform in the code: which
byte is sent where (`Sends`), which byte is awaited where (`Awaits`), and how a
packet's acknowledgement leads on (`AckPlace`, `Acked`). The bootloader is not part of
the repository: the receiver modelled here is the one the host code expects (it stores
the expected sequence number, acknowledges the last one again, refuses others, answers
EOT by NAK, then ACK and C). A block of the file carries the number of the call, so
that a mixture of two transfers shows. A call may start while something of an earlier one is still on
its way, as in the code, which only clears `rx_ring`; `overtaken` and `crowded` record it. The power cycle may fail at
either of its supply calls (`PowerCycleFails`).

**Registers** is one register command after another, for one motor or all, with the
version scan of `power_on` and the read that `motor_reply` begins with. A reply names its
command and the motor's id, and comes from a bus; the register it answers is carried along
only for the properties, for the host does not look at it. `Matches` is the test the code
makes: by id for the user's commands, by id and bus for the internal reads. The order of the
targets of an `all` command is left open. Not part of it: the refusal of writes while a
motor is enabled and of everything while the supply is off, and the versions that the
boot text carries.

**ZeroCycle** is `zero_cycle_test` from the check that the supply is off to the result. Places are
counted in steps of the scan; the motor has a place `at`, and its reading is `at + drift`. A power-on
may change `drift`: that is the fault under test. What the host knows is the reading, and `offset`,
its own guess of the drift. `why` tells the three users of the same enable, move and power cycle apart: the
point of the round, the return to zero between two sides of a scan, and the return after a
failure; the latter two are `zero_cycle_return_original_zero`, which differs in what a failure does (`GiveUp`,
`BaseZero`, `OnZero`). `Compare` files a round under an anomaly, `RetestOff` and `RetestOn` are the power cycles
after a failure, `Anchor` computes the offset, `Recheck` clears it. A difference within a tolerance counts as none,
so the tolerances and the release motion are not modelled, and two places are the same or at least a step apart;
encoder checks are failures that may or may not come. The send of a DISABLE may fail wherever one is tried, by the
test, at its end, or in `console_power_off`, which cuts the supply all the same; `owed` says that ENABLE was sent and no DISABLE since,
`lost` that the last DISABLE tried could not be sent. A motor does not move while the supply is off, as
`README.md:948` assumes. That the callback may set `enabled` from the flags of a reply of a motor with `mit_aux_enable` is left out: 0 is the default.

**ZeroCycleGroup** is `zero_cycle_group_test`, with a group that is named or discovered. `Scan`, `Select` and
`Unscan` are the discovery, which starts the test anew with the supply off; `todo` is the loop that
sends DISABLE and ZERO; `home` tells the return to zero between two sides from a point. `printed` is what
the motors named since the supply came on, `detected` what the console has on record. Each ENABLE and each DISABLE reaches
any part of the members, since the send to any of them may fail; `owed` and `lost` are as in `ZeroCycle`, per member. Members exchange frames
in one step: the properties are about the order of the group's steps, and a member that does not answer stops all.

**PlanFile** is the parser of flash plans, line by line, with what makes it refuse a plan, and
`console_load_default_topology`, which makes the table of motors of the default plan. A line is a record: the
characters, comments and quotes are gone.

**BootText** is what the callback does with the text of a motor that starts. Text comes in frames that cut
lines anywhere; a line is put together per motor *index*, is looked at when it ends, and is forced out
when its buffer is full. `TypeIn` and `IsVersion` say what is taken from a line, the first also what it
makes of a line that is not as expected. `Banner`, the text itself, is external.

**Firmware** composes the two with the rest of the way of an image. `StartUp` to `SyncEnd` are the fetch at the start,
with one temporary file at a time, and the order of the names left open; `Die` and `DieInTransfer` end the process anywhere. `PowerOn`, `PowerOnEnd`,
`Deliver`, `Reload` are what fills and forgets the record of a motor. `FlashSingle`, `FlashAll` and `FlashDebug` choose
the files, `Flash` is `boot_flash_file` as one step with its four outcomes, which `Ymodem` has in detail, and
`Settle` the clearing of the record afterwards: between the two, text of the new image may come in.
`job.items` has the targets in the order of the plan. The supply (`supply`) and what the console believes of it (`power`) differ after a crash
and after a power cycle that failed half way. Left out: that a plan and the configuration may name different
directories, `flash_debug` at a bus and id that are not configured, the limit on the number of names, and the refusal
when a motor is enabled (which is in `MotorConsole`).

## 3. Runs

| Run | Checks | Bounds |
|---|---|---|
| `ConsoleFaults` | `LiveRailKnown`; `SessionSpec`: the console implements `PowerSession`; `CommandsReturn`, `StopEndsSession` | 1 motor, 1 frame per queue, lost frames, failing sends and supply calls, no wait is long enough |
| `ConsoleTimely` | `TypeOK`, `BeliefCoversDriving`, `ZeroAtRest`, `QuietWhenOff`, `CutAtRest` | 2 motors, 1 frame per queue, failing supply calls, symmetry |
| `Rings` | `TypeOK`, `NewestKept`, `NoLostWakeup`, `DeliveredInOrder` | 3 slots, batches of up to 4, 11 arrivals |
| `Ymodem` | `StoredAsSent`, `ImageIsPrefix`, `FlashReturns` | 10 blocks, 5 tries, 5 sequence numbers, 2 calls, 2 in flight, every fault |
| `Registers` | `TypeOK`, `AnswersAsked`, `OwnValues`, `CommandReturns` | 2 motors with one id on two buses, ring of 2, 2 register frames under way, read, write, save of one register and both internal reads, every fault |
| `ZeroCycle` | `TypeOK`, `CoordinatesTrue`, `ReachedMeansThere`, `PassEarned`, `PointsAgree`, `NoLiveCut`, `TestEnds` | one angle on each side, 2 comparisons at each; 4 rounds at random; 2 retests, a table of 2, 3 drifts |
| `ZeroCycleGroup` | `TypeOK`, `MovesTrue`, `PassEarned`, `TallyAgrees`, `CutDisabled`, `ZeroVerified`, `FrozenForGood`, `TestEnds` | 2 joints and a hand, one angle on each side, 2 comparisons at each, 2 rounds; 3 rounds at random; 2 drifts |
| `Firmware` | `CacheSound`, `ConfirmedIsTrue`, `BannerRead`, `NothingUnlessAll`, `ImageFits` | 2 motors, files for two series of one type and one of another, 4 plans; 5 events of these: 2 starts, 2 power-ons, 2 flash commands, 1 lost frame, 1 exchanged motor |
| `ConsoleCtrlC` | violates `CtrlCEndsSession` | 1 motor |
| `ConsoleRecorded` | violates `RecordedOnlyAfterReply` | 1 motor |
| `RegistersAux` | violates `DecodesAsMotorSends` | 1 motor, no faults, read and write of `mit_aux_enable` |
| `ZeroCycleUnconfirmed` | violates `UnconfirmedDisabled` | as `ZeroCycle` |

Why the bounds are enough. The power properties do not relate motors to each
other, so one motor is enough, and the order of frames does not bear on the supply; the proofs lift both bounds. `ConsoleTimely` needs a second motor, because a
command selects one or all. A batch of 4 in 3 slots overruns within one lock, and 11
arrivals wrap the indices three times. Ten blocks with five sequence numbers wrap the
counter twice and let an old number be expected again; two calls let what a failed one left
meet the next; each send of a packet again gives a surplus acknowledgement, with which the host runs ahead of the
bootloader, and five tries are enough to run ahead as far as two frames in flight each way allow. Five numbers are then
the fewest that keep the transfers apart: with four, TLC finds `ImageIsPrefix` violated in the same configuration (section 6). A
call that starts in the traffic of an earlier one needs three frames in flight to mix two files (section 4).
In `Registers` two motors with the same id are the case that only the bus tells apart, two
frames under way are a late one and the fresh one, and a ring of two is overrun by other traffic;
`reg_info` behaves as `reg_save` and is left out of the bound `Given`.
In `ZeroCycle` a table of two is overfull at the third place of a scan, four random rounds are a failure, another
place, a revisit and one more, and of two retests one can fail before or after the other; three drifts let a reading jump twice and return.
The limit `Bound` on commands is passed by the larger drifts. A random test without a limit of rounds, and a scan
without a limit of rounds of its own, repeat the loop that is checked; `duration_s` may end any round. In `ZeroCycleGroup` two members are one that fails
beside one that does not, and the hand is the motor that must be left out.

In `Firmware` a second motor is the other target of a batch, and the one that restarts when the first is flashed with a power
cycle. Two starts let one run find what another has left, two power-ons let a banner that was cut off meet the next, and a second flash
command follows one that failed or kept the record. An exchange of a motor and a lost frame are each needed once: a second lost frame of
one banner could join its halves (section 4). The plans name both motors, one motor twice, one that is not configured, and one lacks a field. All
events together are limited as well, which is what ends the behaviours, hence no check for deadlock.

What `ConsoleTimely` assumes: no frame is lost, no send fails, and two waits,
`special_wait` (1000 ms) and `off_wait` (300 ms), outlast the frames in flight. The
other three may give up first. Without it the properties are false, and not by an
error of the code: a DISABLE that was lost leaves a motor driving.
All of them except `ZeroAtRest` leave out the time after a stop request, which cuts waits short:
the code makes no promise there.

Each property of a passing run is paired with a mutant in `PROJECT.json`: a plausible
bug in one definition (a result not looked at, a copy taken too late, a count not
advanced) that violates the property under the same configuration.

## 4. Findings

1. `README.md:107` says Ctrl+C aborts the operation and exits. At the prompt it does
   not: `signal()` restarts the `read()`, and the flag is tested after the next key.
2. `README.md:238` says that a motor is recorded as enabled or disabled only after its reply. An enable
   frame assigns the flag either way, so the loss of a repeated enable's reply records a
   driving motor as disabled; ZERO and flashing are then no longer refused.
3. `README.md:680` says that `mit_aux_enable` is 0 after power-on, and `debug.c:301` that
   replies are then parsed in the old format. `console_power_on` resets other fields of a
   record but not `mit_aux_enabled`: after a power cycle the callback unpacks old-format replies as AUX
   telemetry, until the register is read again. `MotorConsole` takes the flags a reply
   carries at face value, that is, it assumes that the two sides agree on the format.
4. `README.md:892` says that a test that cannot confirm MOTOR within two seconds stops and disables. On
   the return to zero (`zero_cycle_test.c:761`) it does not: the function just fails, the way out sends
   DISABLE only after Ctrl+X, and `console_power_off` sends none because the flag is not set. The supply is cut
   under a motor that was sent ENABLE. `NoLiveCut` names the ways in which that can come about, and shows that there are no
   others: this one; a signal while the flag is clear; and a DISABLE that was tried and could not be sent.

Others that no run shows:

* Where the last DISABLE could not be sent, nothing may send another. In the test of one motor, an ENABLE for a point that is not confirmed
  leaves the flag clear; if the DISABLE of `zero_cycle_test.c:1014` then cannot be sent, `console_power_off` sends none
  (`control.c:632`). In the group test `zero_group_special` clears the flag also of a member to which the send failed, and without waiting for
  a reply (`zero_cycle_group_test.c:113`; `README.md:238` says that a flag follows a reply), and every way to a cut leads through it: no flag
  is set at any cut of the group (`CutInv` and `OwedInv` of `ZeroCycleGroupProofs`), so the DISABLE of `console_power_off`
  is never sent there. Without `lost` in them, TLC finds `NoLiveCut` and `CutDisabled` violated by such failures.
* `README.md:980` says that a failed recheck at zero is marked `PAUSED_ZERO_RECHECK_FAILED`. Between two
  sides of a scan with no earlier failure the line `if (result != 0 && !failures) outcome = "STOPPED"`
  (`zero_cycle_test.c:1193`) replaces the mark; `Outcome` is modelled with that order.
* `README.md:264` says that `mit_set` needs a motor that is online and enabled. The code (`control.c:719`)
  looks at `enabled` alone, which survives a scan that misses the motor.
* `console_power_on` empties the line buffers of the slots below `entry_count` (`control.c:548`), while
  the callback keeps a line under the motor's index (`runtime.c:989`): with indices that have gaps, a line
  that was cut off is joined to the next banner. `LinesReset` is modelled so; the run's indices have no gap, and
  that they have none (`Dense`) is the hypothesis of the theorems about the records (section 6).
  The power cycle of a flash empties none, so after it `BannerRead` speaks only of motors whose buffer was empty.
* `config_reload` clears `firmware_prefetch_ready` (`terminal.c:36`) and the fetch is not done again: from then on the bundled files
  are used, although `README.md:409` says that a complete fetch is preferred.
* `flash_debug`, and a flash that fails, keep the record of the motor: the version and the type on record may then be those of the old image.
  `ConfirmedIsTrue` and `ImageFits` leave these motors out by `kept`.
* A plan that names a motor twice is not refused; its second flash is chosen by what was known before the first.
* Once the fetch is complete every name in the cache is preferred, also files of types that the default plan does not
  name and that an earlier run has left.
* Neither download tool is given a limit on the whole transfer, so a server that trickles holds the start of the program.
* Three or more frames of text lost in a row may join the front of one banner with the end of another.

More come with the properties of `Ymodem`. The exception of `StoredAsSent` for a
call that overtook a reply is needed: with a header sent twice, a late second ACK is
taken for the first data packet, and if that packet is lost the transfer is reported as
done although the block is missing. So is the exception of `ImageIsPrefix` for a call that starts while something of an
earlier one is on its way: late replies to the old header open a new transfer for the host, while the bootloader is still in the
old one and stores the new data after the old; with three frames in flight each way and seven numbers, TLC finds the mixture (the first block of one call, the second of
the next). `boot_flash_file` clears `rx_ring`, but cannot clear what has not arrived. And a file that ends before its size is reported as
done: the property speaks of the blocks that were read, not of the whole file.

## 5. Fairness

`MotorConsole!FairSpec`: the main thread keeps moving except while it blocks in `read()`
(every wait in the code has a deadline); `StandDone` is strongly fair, because a stream of frames
has a finite duration or number of periods; the receive thread is not stuck; a motor
takes the frames that reach it. Nothing is assumed of the user, the signal or the bus.

`Ymodem!FairSpec`: the host keeps moving, the bootloader takes what arrives, and a
timeout that keeps coming due is taken, because the deadlines of `wait_for_byte`
and of the ACK loop are absolute: bytes do not extend them.

`Registers!FairSpec`: the same, with `NoReply` strongly fair because both waits have an absolute
deadline that other frames do not extend, and with motors that answer what reaches them.

`ZeroCycle!FairSpec` and `ZeroCycleGroup!FairSpec`: the host keeps moving, since every wait and every
loop of the tests has a deadline or a count. A cancellation is never owed.

`AnswersAsked` in `Registers` has an exception as well: nothing in a reply tells an earlier request of the same
command from the present one, so a reply that comes after its wait was given up can answer the
next. `OwnValues` has none: a late reply may bring the value of another register, but
never of another motor.

## 6. Proofs

`RingProofs` proves for every size, batch and number of arrivals that the ring is typed
(`RingTyped`), holds the newest elements (`RingKeepsNewest`), loses no wake-up
(`RingWakes`) and hands out with every pop the oldest element it keeps, which is newer than all before it (`RingInOrder`). The inductive invariant adds to the
properties that `head` is `used` slots after `tail` and that what was delivered is
older than what is held; modular arithmetic is kept in two lemmas.

`MotorConsoleProofs` proves for every set of motors, depth and set of faults:

* `ConsoleTyped`: the type invariant;
* `ConsoleKnowsRail`: `LiveRailKnown`;
* `ConsoleIsPowerSession`: every behaviour of the console is one of `PowerSession`.

`LiveRailKnown` is not inductive: it needs to know at which places the supply may be off
while the console believes it on, and where it is certainly believed. `RailInv` says so
by sets of places, and `RailStep` shows it inductive, action by action. The refinement follows from it,
since the session may close with the supply on only after a cut that failed.

`ZeroCycleGroupProofs` proves for every map of motors, scan, limit and set of drifts:

* `GroupCutDisabled`: `CutDisabled`;
* `GroupZeroVerified`: `ZeroVerified`;
* `GroupFrozenForGood`: `FrozenForGood`;
* `GroupMovesTrue`: `MovesTrue`;
* `GroupTallyAgrees`: `TallyAgrees`;
* `GroupPassEarned`: `PassEarned`;
* `GroupTyped`: `TypeOK`.

The first three are facts about steps, and follow from `ControlInv`: where a DISABLE can be owed, that it is owed at the
cut only to members to whom its send failed, and that the discovery is over by then (`CutInv`), that the types on record were said since the
supply came on (`VerifiedInv`), and that a group is frozen only at places from which it
is neither zeroed nor moved, and never on its way to zero (`FrozenInv`).
`MovesTrue` needs more, because a drift changes at the power-on and is found two steps later, by a
comparison with a baseline that was read several rounds before. `TrueInv` says where the
baseline of a group that is not frozen is the place where it stands, and where it reads true;
`HomeInv` the same of the way back to zero, which takes no baseline and is
judged against zero instead. Both need that a boundary between two sides is the first index of its angle
(`SideEnds`): otherwise the group would go on from zero with the baseline of another angle.
`TallyAgrees` carries itself once nothing is on the tally before the loop (`MarksInv`). `PassEarned` rests on three more:
every member is struck off the list as it is zeroed (`ZeroedInv`), a jump is about to be found, or has frozen the group, or the
result is not PASS (`JumpInv`), and after `n` comparisons each angle has as many as the order of the scan gives it (`ScanInv`).
`GroupTyped` says more than types: that a scan never goes past its last comparison needs the same order (`IndexInv`), and that flags are
set for nobody who is not owed a DISABLE needs `CutInv`.

`ScanProofs` holds the arithmetic of a scan that both zero-cycle tests cite: how many of the first `k` comparisons fall on an
angle, as a closed form `Tally` with its step (`TallyNext`, a division that carries over twice) and its value at the end (`TallyAll`).

The second half of `MotorConsoleProofs` proves the properties of `ConsoleTimely` for every set of motors, queue depth and
further faults, under the assumption `Orderly`: no frame is lost, no send fails, and `special_wait` and `off_wait` are timely.

* `ConsoleBeliefCoversDriving`, `ConsoleZeroAtRest`, `ConsoleQuietWhenOff`: the invariants;
* `ConsoleCutAtRest`: `CutAtRest`, a fact about steps.

None of them is inductive, since what a motor does is decided by frames on their way. `TimelyInv` follows them:
`DriveInv`, no motor drives without power or in its bootloader; `FrameInv`, which frames can be in flight
at which place (outside a command's send and wait, none); and `BeliefInv`, that a driving motor is recorded as
enabled with no word to the contrary on its way, or the command under way will make it so: an enabled motor `Speaks`, it is
yet to be sent its frame, or has it before it, or has answered; a disabled one has its frame before it. Outside the send and the wait
every step of the main thread is `Calm`: it either begins to send or leaves all of this alone, so that the
invariant is argued once for all of them. `RailInv` gives that the supply is off where `QuietInv` needs it.

`YmodemProofs` proves for any length of the file, number of tries and of calls, and every fault:

* `FlashStoresTheFile`: `StoredAsSent`, with any two or more sequence numbers;
* `ImageOfOneTransfer`: `ImageIsPrefix`, if `Modulus > 2 * Depth`.

The second needs its hypothesis. A late ACK is taken for that of the packet after, so the host may run ahead of the bootloader, and
packets far behind or far ahead of the expected one are in flight; if two of them had the same number, the bootloader would
store the wrong one. In the code the numbers are bytes, 256 of them, so the hypothesis is that fewer than 128 packets, and fewer than 128 replies, are
on their way at once: the retries of one packet are 5, and a reply is waited for after each. The condition is the one of a sliding window, and
TLC shows that it is sharp: with `Modulus = 2 * Depth` a file of ten blocks is mixed up. What is kept from step to step is `TransferInv`:
`FrameInv`, that frames in flight are of this call and in the order in which they were sent; `OwnInv`, that what the bootloader has stored is a
beginning of this call's file from the moment the host has heard it (`Opened`); `AheadInv`, that no packet in flight lies behind
it but the last one; and `LeadInv`, which bounds how far the host has run ahead by the frames and ACKs on their way, from which
`ModUnique` concludes that a packet with the expected number is the expected packet. `LockInv` is the case in which the call has overtaken no reply: then at
most one packet or its answer is under way, and at each place of the host it is known how much is stored. Every step of the host that
loses or takes replies is `Quiet`, `Counting` or `Sending` (`HostSteps`), so that the invariants are argued for three kinds of steps, and
for the bootloader and the bus. A call that starts on a quiet bus starts these invariants afresh, whatever the calls before it were (`FreshCall`);
one that does not loses them, and `overtaken` and `crowded` say so (`HistoryKept`). `StoredAsSent` therefore speaks again of the calls after it,
`ImageIsPrefix` only of what is stored up to the first such call.

`RegistersProofs` proves for any motors, ids, buses and size of the ring:

* `RegistersTyped`, `RegistersOwnValues`, `RegistersAnswersAsked`.

`RegisterInv` adds to the properties that every frame comes from a motor that has it to answer (`FromOwner`), that
nothing is under way when no request is, unless one was given up (`NoneLeft`), and that there is then at most one answer,
in the request, on the bus or in the ring, counted over the three (`OneAtMost`).

`FirmwareProofs` proves for any plans, files and motors:

* `FirmwareCacheSound`: from `SyncInv`, which says what of the wanted names is fetched at each place of the fetch;
* `FirmwareNothingUnlessAll`: from `BatchInv`, which ties the targets due to the items of the batch, and from the
  fact that no step takes a file away that was readable while a batch runs.
* `FirmwareConfirmedIsTrue` and `FirmwareBannerRead`, if the indices have no gap (`Dense`): from `MotorInv`;
* `FirmwareImageFits`, if besides each file holds what its name says (`NamesTrue`): from `MotorInv` and `ItemsInv`.

No record is true by itself: it is filled from text that may still be on its way when the motor
loses its power. `TextInv` says that what is on its way is the rest of the banner of the firmware that is in the motor, and
`LinesAgree` that the line being put together for it, with that rest, makes a line of that banner or none that is looked at; hence whatever
a step takes from a line is true of the motor (`RecordsFit`). `CleanInv` follows a banner of which nothing is lost: what has been heard of it (`Heard`)
is on record already, or stands in the line buffer. `ItemsInv` carries what was promised of an item from the choice of
its file, over the power cycles of the items before it, to its own transfer. What the callback makes of a frame is
a recursion over its pieces (`Feed`), and what the console makes of a plan file one over its lines (`ReadLines`); that both are defined and keep their types is proved
from the least length that fails the claim (`Least`, `ReadsExist`, `FedExists`), without the library's induction theorems.

Both hypotheses are needed. With an index that is not below the number of motors, TLC finds `BannerRead` violated by the first
power cycle and `ConfirmedIsTrue` by two lost frames, because of the line buffers that `console_power_on` does not empty (section 4);
a file under a wrong name is flashed as what its name says. `MCFirmware` assumes both (`MCInstallation`), so that TLC
evaluates them on the instance of the run: there are installations that meet them, and the run is one.

`ZeroCycleProofs` proves for every scan, limit, table and set of drifts:

* `CycleTyped` and `CycleCoordinatesTrue`: neither is inductive without the other. The motor stays within its reach
  because it is driven with a true offset, and the offset is true because of where the motor stands. `CoordInv`
  says where that holds: from the head of the loop up to the switch-on the offset is the drift, off the way back from a failure
  it is zero, and from the baseline to the last retest the baseline is the place plus the offset. `Anchor` therefore computes the drift,
  and a motor that is cut at zero stands at zero. The table of anomalies keeps its type (`EditedEntry`, `CountedEntry`).
* `CycleReachedMeansThere`: from `ThereInv`, which follows the angle of the scan through moves, detours and
  comparisons that need no move. A side of the scan ends where an angle does (`SideEnds`), so a detour is always followed by a move.
* `CyclePassEarned`: from `PassInv`, by which a jump is on the tally, or about to be found, or the test is not completed, and
  `TallyInv`, by which after `k` comparisons each angle was compared as often as the `Tally` of `ScanProofs` says.
* `CycleNoLiveCut`: from `OwedInv`, which names the places where a motor may be owed a DISABLE, and says for the last ones why: the flag is still
  set, or it was tried and could not be sent (`lost`), or there was a signal, or it was not on the way to a point. What a failure leaves is a lemma (`GivenUp`).
* `CyclePointsAgree`: from `PendingInv`, by which a revisit under way is planned but neither reproduced nor missed, and its entry is the one of the
  target. The sum of the failures in a table is a recursive function; that it exists, and what an edit or a new entry makes of it, is
  proved without the library's induction theorems, from the least length that fails the claim (`Least`, `SumsExist`, `FailsAreSum`).

The assumptions are those of the modules: `Depth` positive, `Faults` and `Timely` among the
named ones, ring size and batch positive, at least one motor and bus, the numbers of the group's scan positive, its
slots numbers and its drifts integers; the same of the scan of one motor, its spots within reach. `Firmware` assumes of its constants no more than
what they are: every name in the plan's tables is a file, files and configurations have a series, what is called garbled is no type, plans are
sequences, and a line buffer has room for two pieces of text (`Room`; in the code 512 characters, `LINE_LEN`). That the slots of
a plan are numbers and the targets of a flash a sequence of them is proved (`SlotsAreNumbers`).

Every safety property of a passing run is stated by a theorem. Only model-checked is all liveness: fairness and
`ENABLED` are out of the prover's reach.

Modules to be proved about have no `RECURSIVE` operator, one action per operation, and invariants
that are conjunctions of named parts.

## 7. Not modelled

* The initial supply state is taken to be off: the driver offers no way to read it.
* Trajectories, gains and the packing of frames: arithmetic on floats.
* The CAN counters of `core.c` and the callback. Both threads change them with no lock (`control.c:22`, `runtime.c:1200`), so a count may be
  lost or wrap below zero; they are printed by `can_status` and in warnings and decide nothing else, and no doc promises their value, so there
  is no property a model could check.
* Parsing of `console.conf` and of `motor_types`: a YAML subset, key by key, with no state but the result. Display, history and completion, log tools: layout and wording.
* Building paths, and `curl` and `wget` themselves: they are what they leave on disk.
* A race of the callback with a `memset` of a record (`flash.c:300`, `runtime.c:904`) in the middle of it: both are one step here.
* `motor_dbg`, `can_dbg`, and what `motor_reply` does after its read: they print what the rings deliver.
* The driver's library is a binary; `motor_pwr_set` either works or fails without effect.
