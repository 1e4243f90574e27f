# Verification of the Hi3521 external drivers

TLA+ models of the peripheral drivers in this repository, checked with TLC, and
theorems about them proved with TLAPS for every size of rings, windows and queues
and mostly for any number of threads.

## The system

The repository holds Linux kernel modules for the peripherals of the Hi3521
SoC. They are independent of each other: each has a device file, some global
state, sometimes an interrupt routine or a kernel thread. What is hard about
them is the same everywhere: system calls of several threads, the interrupt
routine and the hardware touch the same state, mostly without a lock. The
largest by far is the USB wireless driver `rt3370`; its hard part is protocol:
state machines that talk through one queue, with timers, users and access
points that do not wait for each other.

| component | state | operations | what makes it hard | what makes it correct |
|---|---|---|---|---|
| cipher channel driver (`cipher/src/drv_cipher.c`, `hal_cipher.c`) | per channel a ring of descriptors, two indices, change flags for key and IV; four counters and an interrupt bit in registers | open, close, configure, create task, interrupt routine | caller, interrupt routine and engine move the same counters without a lock | packets are processed and reported once, in order, each with the key, mode and IV it was submitted with |
| cipher device (`cipher_intf.c`) | table of channels: open, done flag, owner file; a semaphore | ioctls create, destroy, config, encrypt, decrypt; release; completion callback | signals, timeouts, the semaphore released in the middle of an ioctl | mutual exclusion, a channel belongs to one file, success means done, calls return |
| watchdog (`wtdg/hi_wdt.c`) | margin, options, who feeds, nowayout, open and orphan marks; timer registers | insmod, rmmod, open, write, ioctl, release, reboot notifier; feeding thread | timing of two feeders, options outside the lock, module references | an idle system is fed, an owner that stops feeding is reset, nowayout holds, rmmod ends |
| infrared receiver (`hisi-irda/hiir.c`) | ring of key events, repeat filter, open count | interrupt routine, repeat timer, open, release, read, ioctl | interrupt between any two steps of a thread, no lock, no full test | events delivered once and in order, key-up follows key-down, one opener, readers woken |
| cipher user library (`hi_unf_cipher.c`) | open count, mutex | one wrapper per ioctl | a count shared by threads | planned |
| RTC (`rtc/hi_rtc.c`) | clock registers behind an SPI-like bridge | read and set time, alarm | multi-step register access, calendar arithmetic | planned |
| I2C (`i2c/i2c.c`, `gpio_i2c_8b/gpio_i2c.c`), GPIO (`gpio/gpio.c`), SSP (`ssp-GV7601/hi_ssp.c`) | bus lines, controller registers | byte transfers, pin settings | timeouts in the middle of a transfer, shared pins | planned |
| codecs, HDMI, PSTN (`tw28xx`, `tw2960`, `nvp1918`, `ov7725`, `tlv320aic31`, `adv7179`, `sil9022`, `pstn`) | the chips' registers | ioctls that write register sequences | little state of their own | not modelled |
| rt3370 block ack (`rt3370/common/ba_action.c`, `action.c`, `rtmp_timer.c`) | per session a sorted list of early frames and the last sequence number passed up; tables of sessions with indices, bitmaps, counters; a retry timer per session | frame or block ack request received; request, response, DELBA, timeout, teardown | tasklet, timer thread and MLME thread on the same entries; loss, repetition, wrap-around | frames passed up once and in order, none lost or stuck; both sides agree on the sessions, every attempt ends |
| rt3370 station MLME (`rt3370/sta/connect.c`, `sync.c`, `auth.c`, `auth_rsp.c`, `assoc.c`, `common/cmm_sync.c`, `mlme.c`) | four state machines, their message queue, timers, scan tables, the link | a handler per message and state, timers, periodic work, requests of users | messages of an old attempt meet the next one, a full queue, machines reset or bypassed by others | the link goes up only with a BSS that accepted; no machine waits for ever; data flows again after a scan |
| rest of `rt3370` (WPA handshake, data path, USB, chips, test mode, configuration) | — | — | the vendor's code, ten times the rest of the repository | not modelled |

The two cipher modules interact: `cipher_intf.c`
calls `DRV_Cipher_OpenChn`, `ConfigChn`, `CreatTask` and `CloseChn`, and the
driver's interrupt routine calls back `DRV_CIPHER_UserCommCallBack`. The
composition is made through the abstract queue `CipherFifo`: `CipherChan` is
shown to implement it, `CipherOsr` uses it. Inside `rt3370` the block ack and
the station machines share the MLME thread, its queue and the timer thread; a
lost link ends all block ack sessions (`BASessionTearDownALL`), which is how the
two models meet. `BaReorder` and `BaSession` split the recipient's session: the
list and its sequence numbers in one, the tables and frames in the other.

`PROJECT.json` lists the hazards, each at its line and with the properties that
watch it, and maps every definition to the lines it stands for.

## Modules

| module | models |
|---|---|
| `CipherFifo` | what a channel promises: packets accepted, processed and reported once and in order, at most `Capacity` outstanding |
| `CipherChan` | one multi-packet channel: soft channel, ring, registers, caller, interrupt routine, engine |
| `CipherChanProofs` | type correctness, the ring invariant, refinement of `CipherFifo`; each packet with its own key, mode and IV |
| `CipherOsr` | the device: ioctls and release by threads of several files, over abstract channels |
| `CipherOsrProofs` | type correctness, mutual exclusion, the semaphore is not lost, channels have owners and keep them until these destroy them, success means done |
| `Watchdog` | the watchdog driver, its daemon, the timer |
| `WatchdogProofs` | types, module references, what the driver reports, who feeds, no reset of an idle system |
| `HiIr` | the infrared receiver's ring, interrupt routine, reader and open count |
| `HiIrProofs` | types, one open at a time, the ring is a queue, no wake-up is missed, key-up follows key-down |
| `BaReorder` | receive reordering of one block ack session: list, pool, window, flushes; set-up and teardown around it |
| `BaReorderProofs` | types, the account of the pool, the sorted list, order, no frame stuck or lost |
| `BaSession` | block ack sessions with the access point: tables, ADDBA and DELBA, retry timer and timer queue, both sides |
| `BaSessionProofs` | both tables agree with their indices, a wait is timed, a timeout spares a session |
| `BaAgreeProofs` | both sides agree on the sessions once every frame has arrived |
| `StaMlme` | how the station scans, joins, authenticates, associates and leaves |
| `StaMlmeProofs` | types of the machines, the queue and the tables; a scan that listens is ended; whoever waits for a frame has a timer |
| `MCCipherChan`, `MCCipherOsr`, `MCWatchdog`, `MCHiIr`, `MCBaReorder`, `MCBaSession`, `MCStaMlme` | the sets the cfg files need |

Definitions whose names begin with `Bug` are wrong variants of the definition
behind them: for every property one of them shows that the property would
notice a plausible mistake.

### CipherChan

The variables are the fields of `CIPHER_SOFTCHAN_S` and `CIPHER_CHAN_S`, the
channel's registers, the engine's position, and the places of the caller and of
the interrupt routine. `CreatTask` followed by `GetBusyCnt`, `FillNode`,
`SetKey`, `SetCtrl`, `SaveNode`, `Kick` is `DRV_Cipher_CreatTask` with
`DRV_CipherStartMultiPkgChn`; `IsrEnter` to `IsrSetOutCnt` is `DRV_Cipher_ISR`
with `DRV_CipherDataDoneMultiPkg`, one step per register access. The engine
(`Process`) is external: it is what the register protocol of the driver
requires. Packets are numbers; keys, IVs and modes are model values.
History variables record how many packets were accepted and reported (`sub`,
`cb`) and what each was to be processed with (`want`).

`CI_MAX_LIST_NUM` is 128 in the build. `PromptIrq` says where the caller runs:
`TRUE` on the CPU that serves the interrupt, never between an interrupt and its
routine; `FALSE` on another one. In that case the busy test does not protect the
ring, because it counts packets the engine has not taken and not entries the
routine has not retired; the model then assumes what the callers in the tree do,
to keep at most a ring of packets outstanding (`InflightAssumption`).
`QuietChange` says that a caller with packets outstanding submits others only
with the key and the direction in force, as the test does (`test_cipher.c:694`):
the key and control registers are the channel's, not the packet's.
Hardware channels are copies of each other, since soft channel n always uses
hardware channel n.

### CipherOsr

Each thread has a place in `DRV_CIPHER_Ioctl` or `DRV_CIPHER_Release`, a command
and a channel number. Every access to `g_stCipherOsrChn` and to the semaphore is
a step. Encrypt and decrypt have the same control and are one command. The
constants `Releases`, `Signals`, `Timeouts`, `CopyFaults` say which
disturbances occur. A packet whose caller returned stays in the queue as `Lost`.

### Watchdog

Time is counted in ticks, `Hz` to a second; the register counts at the same
rate. The daemon runs at SCHED_FIFO priority 99, so no tick passes while it can
run; other callers may be delayed at every step. The timer (`Tick`) raises its
interrupt at zero and resets the system at the second zero without a feed, as
the readme says. `age` counts the ticks since a call fed the timer or an open
ended. Failing `ioremap` and registrations at load are left out, since nothing
is changed by them that is not undone; `WDIOC_GET*` change nothing. `EarlyOpen`
lets the device be opened as soon as it is registered. A `Wake` that comes
between the daemon's test and its sleep is lost, as in the code.

### HiIr

The interrupt routine and the timer handler are atomic, each access of a thread
to the ring is a step. `INC_BUF` as it is used modifies its argument twice in
one expression; both orders a compiler may choose end with the same value, and
on one CPU the value in between is read by nobody but its owner. The external
receiver sends frames of one key at a time and a release for a key it sent.
Unless `SlowReader` is set it does so while the ring has room.
A read that finds the ring empty goes through `wait_event_interruptible` as the
kernel has it: the condition, the entry into the wait queue (`irkey_wait`), the
condition again, and only then sleep. Every insertion ends with
`wake_up_interruptible`, which takes the sleepers out of the queue (`Push`); a
sleeper runs again only after that or a signal, and tests the condition anew.
`dev_parm` and the registers it is written to are left out.

### BaReorder

A frame is its number; its sequence number is that modulo `SEQS`, so the model
knows which of two frames is older and the driver has to find out with
`SEQ_SMALLER`. Functions of the code on the reordering buffer are operators on
the record `ba`, with the code's names. The receive tasklet is atomic; the MLME
thread's set-up and teardown of the session are steps between which the tasklet
runs if `Preempt` is set. `up`, `clean`, `late` and `leaked` are history:
`clean` ends when the driver itself gives up the order (the flush of the whole
list after 500 ms, a frame that finds no block or is EAPOL, a block ack request
for a frame that waits). The sender is external: it repeats the frames of its
window and gives up at most `Gap` in a row. `BaReOrderingBufferMaintain`, the
periodic flush, is called from nowhere and is left out.

### BaSession

`o` and `r` are the two tables with `BAOriWcidArray`, `TXBAbitmap`,
`numAsOriginator` and `numDoneOriginator`, and their counterparts. An expired
timer is queued (`TimerFires`), taken off the queue (`RtmpTimerQHandle`) and run
(`BAOriSessionSetupTimeout`), and a response can arrive between any two of
these. `BATableFreeOriEntry` tests and clears the index before it takes the
lock: two steps. `BASessionTearDownALL` starts a loop, `TearDownOne` is its body
for one TID, with the fates of the two DELBA frames if memory is short.
`Preempt` says whether others run in between. The access point
is external: it accepts, refuses, asks and ends as it likes. Requests and
acceptances may be lost, the peer's first request only when nothing of an
earlier attempt is left; a refusal or a DELBA is repeated by the hardware until
acknowledged, and DELBAs are not lost. `Trouble` lifts the rest one by one.

### StaMlme

`pAd` holds the fields of the adapter the four machines use; `Table` is the sum
of their `StateMachineSetAction` calls and of the control machine's `switch`.
Each handler is an action named after the function and takes the head of the
queue. Timers, `STAMlmePeriodicExec`, `Set_SSID_Proc` and the other requests
write the machines' state from outside, as in the code; a request is two steps,
the test with the reset and the message, since anything may happen in between.
A received frame is refused already when the queue is half full
(`MlmeEnqueueForRecv`). Handlers are atomic: two of them never run at once, and
the races of a user's thread inside one are left out, also that between the test
for a full queue and the insertion in `MlmeEnqueue`. Frames to access points may be lost, their
answers may come late. `net.granted` are the BSSs that have accepted the latest
request, `net.cut` notes that the link was cut under a control machine that
waits: in a pending scan, in an exchange whose confirmation is not sent, or
together with the queue's messages. `WaitIsTimed` says that who waits for a
frame has its timer running or the timer's message queued, with one exception
that is in the code: `LinkUp`, on an acceptance left over from earlier, may
cancel the timer of a disassociation; then the association request of the same
attempt is queued and ends that wait.

Left out: ad hoc mode, shared-key authentication, reassociation requests (no
message asks for one), fast connection, radio off, monitor and test mode, a full
BSS table. The WPA handshake is one external step.

## Runs

| run | bounds | shows |
|---|---|---|
| `chan_ring` | ring of 3, 3 outstanding, 4 packets, two CPUs | `TypeOK`, `RingInv`, `FifoLive` at every interleaving |
| `chan_config` | ring of 2, 3 outstanding, 4 packets, one CPU, 2 keys, 2 IVs, key by CA or not | `ProcessedAsAsked` |
| `osr_mutex` | 2 processes, 2 usable channels | `TypeOK`, `MutexOk`, `ChannelOwned`, `OkMeansDone`, `HandleKept` |
| `osr_faults` | 2 processes, 1 channel, all disturbances | `SemNeverLost`, `CallsReturn` |
| `dog_one` | 1 thread, margins -1, 0, 1, 4, 5 with 4 the largest, default margins in and out of range, faults, reboots, reloads | `TypeOK`, `OwnerMustFeed`, `CardAsReported`, `SettledInv`, `IdleNeverResets`, `UnloadEnds` |
| `ir_ring` | ring of 3, or 3 and 4 after `IR_IOC_SET_BUF`, 1 key, reads of at most 1 event | `TypeOK`, `RingInv`, `NoLostWakeup`, `ReaderWoken` |
| `ir_open` | 3 threads, 2 keys, software repeat detection, interrupts served at once | `ExclusiveOpen`, `UpFollowsDown` |
| `ba_order` | 16 sequence numbers, frames 13 to 18, windows of 2 and 3, a pool of 2, gaps of 1 | `ListInv`, `InOrder`, `NoReadyFrameWaits`, `NothingLost` |
| `ba_session` | 2 TIDs, one entry per table, 3 attempts, 2 messages queued, 1 frame to the peer | `TableInv`, `WaitIsTimed`, `SessionAgreed`, `SetupEnds`, `TimeoutSparesDone` |
| `sta_link` | 2 BSSs, open network, roaming, one kind of request | `TypeOK`, `WaitIsTimed`, `LinkUpGranted` |
| `sta_live` | 1 BSS, 2 channels in bursts of 1, every request | `HeldLinkIsGranted`, `WaitEnds`, `TrafficResumes` |
| `sta_wpa` | 1 BSS, WPA-PSK, a queue of 2 that messages from outside may fill, every trouble | `ScanGoesOn`, `LinkUpGranted` |

Some properties are conjunctions of named parts: `CipherChan.RingInv` of
`CountersAgree`, `NoLostInterrupt`, `RingIntact`, `LocalsAgree`;
`HiIr.RingInv` of `RingIsFifo`, `DeliveredInOrder`; `Watchdog.SettledInv` of
`RefsBalanced`, `DownMeansOff`; `BaReorder.ListInv` of `TypeOK`, `ListInWindow`,
`PoolAccounted`, `ResetMeansEmpty`; `BaSession.TableInv` of `TypeOK`,
`OriTableAgrees`, `RecTableAgrees`.

The bounds: a ring wraps, fills and empties with 2 or 3 entries, and one packet
more than the ring has makes every index wrap. Two threads are what each race
needs; three are needed for a refused open to overlap an open and a close. With
`Hz = 2` and `RegMax = 9` the largest margin is not a whole number of register
counts away from `~0`, as with the real rate. In `dog_one` default margins out
of range are replaced by 2 seconds, and the margin in force is at least half the
default. The frames of `ba_order` pass the wrap of the sequence numbers and
exceed the window twice; the pool is smaller than the larger window, so that it
runs out. Two TIDs for one entry make sessions compete in `ba_session`, and
three attempts include one that is answered late. A queue of 9 with one message
from outside at a time never overflows in `sta_link` and `sta_live`, which
`WaitIsTimedHolds` shows for every length from `MaxQ + 8`; one of 2 does so all
the time in `sta_wpa`. Two BSSs let a roaming attempt fail while the old link is
up. `WaitEnds` and `TrafficResumes` were also checked with `Trouble = {"block",
"switch", "privacy"}`, open and WPA-PSK, in larger runs than are kept here.

The runs stay inside what the code gets right. Each restriction below is
one a run needs, and lifting it in the named cfg makes TLC show what happens:

| cfg | change | property that fails | what happens |
|---|---|---|---|
| `chan_config` | `CallBackArgIsOwn` as a property | `CallBackArgIsOwn` | each entry stores its callback argument (`drv_cipher.c:351`), but the routine passes that of the packet submitted last (`:484`); `test_cipher.c:691` gives each task its own, with several in flight, but its callback ignores it, and the ioctls always pass the channel's number |
| `chan_config` | `QuietChange = FALSE` | `ProcessedAsAsked` | a new key, mode or direction is written to the channel's registers and used for the packets still queued |
| `osr_mutex` | `Signals = TRUE` | `MutexOk`, `OkMeansDone` | the result of `down_interruptible` is not looked at (`cipher_intf.c:174`), the command runs without the semaphore that line 62 calls a mutex, and gives it back once too often; also a signal during the wait for the data is taken as completion |
| `osr_mutex` | `Timeouts = TRUE` | `OkMeansDone` | a packet given up after the timeout sets `g_bDataDone`, "mark the data done or not" (`cipher_intf.c:57`), during the next call, which returns success (`:335`) |
| `osr_mutex` | `Releases = TRUE` | `ChannelOwned` | release, without the lock, takes a channel from its new owner |
| `osr_mutex` | `CopyFaults = TRUE` | `ChannelOwned` | a handle that cannot be copied out leaves its channel open without an owner |
| `osr_mutex` | `Threads <- MCThree`, `FileOf <- MCSharedFile`, `TaskOnOwnChannel` as a property | `TaskOnOwnChannel` | a second thread of the process destroys the handle between the test of an encryption and its packet. `HandleKept` holds there, also with timeouts and copy faults (`HandleSafe`) |
| `dog_one` | `DefaultMargins <- MCWideDefault` | `IdleNeverResets` | a margin much shorter than the default survives the close (`hi_wdt.c:254` is commented out), the daemon sleeps half the default (`:413`), and the idle system is reset; `readme-eng.txt:4` says the kernel thread feeds it |
| `dog_one` | `Threads <- MCTwo` | `CardAsReported`, `IdleNeverResets`, `SettledInv` | racing enable and disable leave the timer on and the option off; an enable in flight undoes the reboot notifier |
| `dog_one` | `EarlyOpen = TRUE` | `OwnerMustFeed` | an open during insmod is overruled and the daemon feeds for the owner |
| `ir_open` | `Repkeys = {TRUE, FALSE}` | `UpFollowsDown` | a ring entry of the previous open hides a key press |
| `ir_ring` | `Shared = TRUE`, two threads | `RingInv` | a read undoes the reset of the tail |
| `ir_ring` | `SlowReader = TRUE`, `MaxUnread = 5` | `RingInv` | a full ring looks empty |
| `ba_order` | `Preempt = TRUE` | `ListInv`, `InOrder`, `NoReadyFrameWaits` | a frame received between the flush of the list and the reset of the session stays in the list (the ASSERT at `ba_action.c:1768` fails) |
| `ba_session` | `Preempt = TRUE`, `OriLen = 3` | `TableInv`, `WaitIsTimed`, `TimeoutSparesDone` | two threads free one entry; a timer that has left the queue ends a session just set up |
| `ba_session` | `Trouble` of `"mem"`, `"tear"` or `"stale"` | `SessionAgreed` | a session is ended without a DELBA, or a late response is taken for that of the next attempt |
| `sta_live` | `MAX_LEN_OF_MLME_QUEUE = 3`, `Trouble = {"mem"}` | `WaitEnds`, `TrafficResumes` | the scan is ended because the queue is full (`sync.c:159`), and its confirmation is lost in the same queue |
| `sta_live` | `Psk = TRUE`, `Trouble = {"mem"}` | `HeldLinkIsGranted` | a scan overwrites the state in which the control machine waits for the disassociation `LinkDownExec` asked for (`sync.c:302`) |
| `sta_link` | `Trouble = {"block"}` or `{"privacy"}` | `WaitIsTimed` | blocked, the authentication machine waits for a response to a request that was not sent, without a timer (`auth.c:537`, `:594`), until a later request gets it out; after a change of privacy the sync machine is left in its wait for a beacon without a timer until the scan request is refused |
| `sta_link` | `MaxQ = 2`, `MAX_LEN_OF_MLME_QUEUE = 10` | `LinkUpGranted` | a request resets the machines (`sta_cfg.c:301`) but not the queue. The response to the abandoned attempt's authentication is taken for the next one's; the second authentication is left waiting, and its timeout sends a de-authentication (`auth.c:108`) to the access point that has accepted the association meanwhile; the confirmation already queued brings the link up |
| `sta_link` | `HeldLinkIsGranted` as a property | `HeldLinkIsGranted` | a beacon adds the station's own BSS to the table of roaming candidates; the attempt that reaches it authenticates anew while the station takes itself for connected |

Deadlock is checked in every run but those of `StaMlme`, where a station that
nobody asks anything of may idle.

### Fairness

- `CipherChan`: a call that was entered proceeds, the engine works on what it
  was given, an enabled interrupt is served (weak fairness each).
- `CipherOsr`: strong fairness of each thread's steps, because `up()` hands the
  semaphore to the first waiter; weak fairness of completions, which is what
  `CipherFifo` promises and `FifoLive` checks. Signals are never relied on.
- `Watchdog`: time passes, the daemon runs, rmmod proceeds. Nothing is assumed
  of the processes.
- `HiIr`: interrupts are served, and a reader that is not asleep runs; that a
  sleeper is woken is not assumed, the wake-up is a step of the model. Nothing is
  assumed of the remote control, of signals or of other calls.
- `BaSession`: timers expire; their thread gets the CPU again and again although
  others have it in between, and a scan does not put every retry off (strong
  fairness of the queue and of each entry's timeout); a free and a teardown of
  all sessions that were begun are completed. Nothing is assumed of the peer, the air or the MLME thread.
- `StaMlme`: the MLME thread and the timers run (weak fairness); the periodic
  work is done every second, although not while the queue is long (strong
  fairness of its uneventful case). Nothing is assumed of users or access points.

## Proofs

`CipherChanProofs`, from `ChanAssumption` and `InflightAssumption` only, so for
every ring size and any number of packets:

- `TypeCorrect`, `RingSafe`: the inductive invariant is `TypeOK /\ RingInv`.
  `CountersAgree` alone is not inductive: that the interrupt routine may
  subtract what it read needs to know that it retires only finished packets
  (`LocalsAgree`); that the entry it retires is the packet counted next needs
  the contents of the ring from its position on (`RingIntact`); that a caller
  past the busy test has a free entry needs `InflightAssumption` on two CPUs,
  and on one CPU that nothing finished is unreported while the caller runs
  (`NoLostInterrupt`). The lemmas on `Wrap` and `NextPtr` carry the
  arithmetic of positions.
- `ImplementsFifo`: under that invariant every step is `Submit`, `Process`,
  `Notify` or a stutter of `CipherFifo`.
- `ProcessedAsAskedHolds`, an action property, for callers that change key, mode
  and direction when nothing is outstanding (`QuietChange`), with any number of
  packets queued and refused. `FlagsAgree` says that the change flags tell what is
  still to be written for the next packet, and that the registers are those of
  the configuration from then until the last packet is processed; `NodesAgree`
  that every entry of the ring, from the next to be reported to the one being
  filled, was submitted with that configuration and has its IV. `RingInv` gives
  that the caller fills an entry no packet is in and that the engine reads the
  one of the packet in turn.

`RingSafe` also covers what no run needs: one CPU (`PromptIrq`) and a caller that
submits more packets than the ring holds, where the busy test alone keeps the
ring from being overrun.

`CipherOsrProofs`, from `OsrAssumption`, for any number of threads and channels:

- `TypeCorrect`: with all disturbances, every channel number used as an index
  was tested.
- `MutexSafe` (without signals) and `SemKept` (always): `SemSteps` reduces every
  step to one of four effects on the semaphore and the set of threads inside;
  the invariants follow from these.
- `ChannelSafe` (without signals, releases and copy faults). `ChannelOwned` says
  nothing of a channel somebody is creating or destroying; `ChanInv` adds, for
  every place in these calls, how far the three fields of the channel have been
  changed.
- `HandleSafe` (without signals and releases, with timeouts and copy faults, any
  number of threads to a file), an action property: between the test of a handle
  and the use of its channel, where the semaphore is free in the middle, only a
  thread of the same process that passed the test itself takes the channel away,
  and nobody else gets it. `KeepInv` says of each thread inside the lock whose
  channel it is at, since the test and the change of the owner are two steps.
- `OkSafe` (without signals, releases and timeouts, one thread to a file) needs
  `OwnInv`, that whoever is between the test of a handle and its use still owns
  the channel, and `DoneInv`, that a queue holds nothing or the packet of the one
  thread that waits for it, and that the done flag is down until then.

`WatchdogProofs`, from `WatchdogAssumption`:

- `TypeCorrect`, `RefsCorrect`, for any number of threads and with opens during
  insmod: `TypeInv` adds to the types where in open and release the reference is
  held (`RefInv`), that the counter never exceeds its load value and that a
  margin is loaded only after it was brought into range (`TimerInv`).
- `CardCorrect`, `SettledCorrect`, `OwnerCorrect`, for one thread and opens after
  insmod, which is where the runs are too and outside of which TLC shows them to
  fail. `SoleInv` says of each place in a call how far timer, option and margin
  agree. `OwnerMustFeed` needs the count: time since the owner's feed shows in
  the register (`Counted`), as long as the daemon was told not to feed, and what
  it was about to do when it was told counts for nothing.
- `IdleSafe`, an action property, if moreover `InTime`: half of any default margin
  is less than two of any margin that can be asked for. `AliveInv` says that the
  daemon is there and in charge while nobody has the device, and that the rest of
  its sleep is shorter than what the timer has left (`GuardInv`).

`HiIrProofs`, from `IrAssumption`, for every length of the ring:

- `TypeCorrect` (always): a ring exists before an index is taken modulo its
  length, also while `IR_IOC_SET_BUF` replaces it.
- `OneFileAtATime` (always): `hiir_s_available` is 1, less the owner, less the
  threads that found it taken and have not put their decrement back.
- `RingSafe` (one thread uses the file, the reader keeps up): `FifoInv` places the
  unread events in the ring behind the tail, and says where they are between the
  two assignments that empty it, when an interrupt may come.
- `WakeupSafe` (one thread to an open file, whether or not the reader keeps up):
  a reader that sleeps and has not been woken sleeps on an empty ring. It enters
  the wait queue before it tests the ring for the last time, and whatever is
  inserted after that empties the queue. Nobody else resets the ring in between,
  since one thread has the file open (`OpenInv`) and only it is inside (`Inside`).
- `UpSafe` (interrupts served at once, software repeat detection, the ring left at
  one length): `UpInv` says that the last entry of the ring is the key held down.

`BaReorderProofs`, from `ReorderAssumption`: windows, pool and the range of
sequence numbers are arbitrary, the latter even, with room for two windows and
a gap in one half.

- `TypeCorrect`, with or without preemption: the types, and that no path loses a
  block of the pool.
- `ListSafe`, `OrderSafe`, `ReadySafe`, `LossSafe`, without preemption. The driver
  compares sequence numbers by half the range. The first lemmas show that it
  compares the frames as long as they are less than that apart. The state only
  holds the number of the last frame passed up; `OrderInv` says that there is a
  frame `L` with that number such that everything passed up is not after it,
  everything that waits is in the window after it with a gap before the first,
  and the peer's window is within reach. `Session(L)` is shown for each helper of
  the driver in turn (`ba_indicate_reordering_mpdus_in_order`,
  `ba_indicate_reordering_mpdus_le_seq`, `ba_enqueue_reordering_packet`,
  `ba_flush_reordering_timeout_mpdus`...), then for the steps.

`BaSessionProofs`, from `SessionAssumption`, for tables, queues and numbers of
TIDs and retries of any size and all of `Trouble`:

- `RecTableSafe`, with or without preemption: `RecInv` is the shapes of all
  variables, with counters of any size, and that the recipient's table agrees.
- `TableSafe`, `TimedSafe`, `DoneSafe`, without preemption. With it, as TLC shows, a
  TID can get a second entry between the two halves of a free, of which the
  second then clears the new session's bit; and a response can come after the
  timer left its queue and before the handler runs. `OriTableAgrees` leaves out the entry that is
  being freed; the invariant `OriInv` says that there is at most one and what its
  index holds (`Agrees`), that the timer of an entry is at one place at most,
  pending, queued or with its handler, that an entry has one exactly while it
  waits for a response (`Timed`), and that only one thread is inside. The timeout
  finds its own entry by the TID only because of both, and spares a session
  because `BAOriSessionAdd` takes the expired timer out of the queue, of which
  there is one (`Removed`).

`BaAgreeProofs`, from `SessionAssumption`, for tables, queues and numbers of TIDs
and attempts of any size:

- `AgreedSafe`, without preemption, which the table's invariants need, and
  without `Trouble`, each kind of which makes it fail (see above). That both
  sides agree when nothing is on its way says nothing of the time in between, so
  `Sides` relates, for each TID, this side's entry and the peer's state to the
  frames in both queues and their order: a session that is set up, or will be by
  an acceptance in the queue, is accepted by the peer or a DELBA of the peer
  comes after; a DELBA sent precedes every request for the same entry; and the
  same with the sides exchanged. Queues are taken from at the head and added to
  at the end, so three lemmas carry `Sides`: frames are added (`Grows`), one is
  handled here (`Handles`), one is heard by the peer (`Hears`). It is for
  `Sides` that the peer's first request is not lost while something of an
  earlier attempt is left: otherwise the peer could end a session, ask again
  unheard, and take an old acceptance for the answer.

`StaMlmeProofs`, from `StaAssumption`, for every set of BSSs, every number of
channels, every length of the queue and all of `Trouble`:

- `TypeCorrect`, `ScanSafe`: the invariant `StaInv` has the types of the messages
  in it, since handlers store their fields and use them as indices. For every
  operator the handlers are composed of, a lemma says that it keeps a good
  adapter good. A scan depends on one message only: whoever takes `SCAN_TIMEOUT`
  runs `ScanNextChannel`, which sets the timer anew or ends the scan, and the
  timer itself does so when its message finds the queue full.
- `WaitIsTimedHolds`, if no trouble is assumed and the queue has room for the
  `MaxQ` messages from outside and eight more (the code's has room for 40 in
  all). `WaitInv` adds to `StaInv` that each wait is timed and that messages and
  running timers together never exceed `Bound`: a timer that expires becomes a
  message, a handler takes one and adds at most one message or timer, and what
  users and the periodic work add comes only while at most `MaxQ` wait. So no
  message of a timer is ever dropped. Timers are cancelled by machines that do
  not wait for them; the one exception is `LinkUp` in the middle of leaving, and
  for that `Overtaken` says that behind each disassociation request that is
  queued in an attempt there is its association request. Of the trouble,
  `"block"` and `"privacy"` leave a wait untimed (see above), `"switch"` empties
  the queue with the timers' messages in it, and `"mem"` lets a handler add two
  messages.

Only model-checked:

- All liveness (`FifoLive`, `CallsReturn`, `UnloadEnds`, `ReaderWoken`, `SetupEnds`,
  `WaitEnds`, `TrafficResumes`): out of the prover's reach.
- `LinkUpGranted` and `HeldLinkIsGranted` of `StaMlme`. They hold while at most
  one message from outside waits in the queue (`MaxQ = 1`), which no proof of
  the handlers one by one can use; with two `LinkUpGranted` is false (see above).
  In `sta_wpa` two may wait, but the queue then has no room for more, which
  `LinkUpGranted` survives.

## Not modelled

Single-packet channel 0 of the cipher (no handle names it), suspend and resume,
two callers inside `DRV_Cipher_CreatTask` for the same channel, the reception
parameters of the infrared receiver, failed loading of modules, and the
components marked so above.

Most of the lines of the repository are in `rt3370`, and most of those are
register, EEPROM and rate tables for a family of chips, packet formats,
cryptography, the configuration commands and the manufacturer's test mode.
They are data, arithmetic on bytes or I/O with hardly any control to check, so
the share of all lines that is modelled stays small. What has state and
interleavings in it and is still missing: the WPA handshake, the transmit queues
and USB transfers, power save, rate adaptation.

Seen while modelling and covered by no property: `MlmeEnqueue` tests for a full
queue and inserts under separate locks (`mlme.c:7381`); a BSSID asked for while
the station is connected is passed over, because the index is incremented before
the first attempt (`connect.c:1042`, against the comment at `:705`); a failed
roaming attempt leaves the other BSS's address in the registers (`sync.c:1210`).

## Plan

1. `StaMlme`: find which messages from outside, with which delays, keep
   `LinkUpGranted` true, and prove it from that.
2. Cipher: two callers in `CipherChan`; suspend and resume; channel 0; the user
   library as a client of `CipherOsr`.
3. The WPA handshake of the station (`cmm_wpa.c`, `sta/wpa.c`) in place of
   `WpaCompletes`.
4. RTC: register bridge as a component, calendar conversion as a pure operator
   checked against a reference.
5. I2C: the controller's transfer with timeouts, and the bit-banged bus against
   a slave; an abstract byte transfer both implement; GPIO with it. SSP after.
