------------------------------ MODULE Watchdog ------------------------------
(***************************************************************************)
(* The watchdog driver wtdg/hi_wdt.c: the device file with its open,       *)
(* write, ioctl and release, the kernel thread hidog_deamon, loading and   *)
(* unloading of the module, and the counter of the hardware.               *)
(*                                                                         *)
(* Threads are those of the one process that holds the file; each locked   *)
(* register access and each store to a shared variable is a step.  Time is *)
(* counted in ticks, Hz to a second.  The daemon has SCHED_FIFO priority   *)
(* 99, so time does not pass while it can run, nor inside insmod; any      *)
(* other caller may be delayed at every step.                              *)
(***************************************************************************)
EXTENDS Integers

CONSTANTS
  Threads,
  Hz,                 \* counts per second (rate), also the tick
  RegMax,             \* ~0x0, the largest count of the register
  HIDOG_TIMER_MARGIN, \* 60 in the build
  DefaultMargins,     \* values of the parameter default_margin
  Nowayout, Nodeamon, \* the parameters nowayout and nodeamon
  Margins,            \* arguments of WDIOC_SETTIMEOUT
  Writes,             \* what is written: TRUE for a string with a 'V'
  Faults,             \* get_user may fail in the middle of a write
  Reboots,            \* the reboot notifier is called
  Unloads,            \* the module is unloaded and loaded again
  EarlyOpen           \* the file is opened before insmod has ended

(* cnt = (~0x0)/rate: the longest margin in seconds *)
MaxMargin == RegMax \div Hz

ASSUME WatchdogAssumption ==
  /\ Hz \in Nat \ {0}
  /\ RegMax \in Nat /\ RegMax >= Hz
  /\ HIDOG_TIMER_MARGIN \in 1 .. MaxMargin
  /\ DefaultMargins \subseteq Int /\ DefaultMargins # {}
  /\ Margins \subseteq Int
  /\ Writes \subseteq BOOLEAN
  /\ {Nowayout, Nodeamon, Faults, Reboots, Unloads, EarlyOpen} \subseteq BOOLEAN

VARIABLES
  (* the timer: enabled, load, count, interrupt raised, system reset *)
  ctrl, load, value, intp, bitten,
  (* the driver; hidog_state and options by name, refs counts __module_get *)
  default_margin, cur_margin, nowayout, options, hidog_state, driver_open,
  orphan_timer, refs,
  (* hidog_deamon: its place and the rest of its sleep *)
  dpc, dtimer,
  (* insmod and rmmod, the reboot notifier, the open file *)
  mod, down, file,
  (* each thread: place, argument of set_heartbeat, what follows it *)
  pc, arg, cont,
  (* history: ticks since a call last wrote HIWDT_INTCLR or an open ended *)
  age

timerVars == <<ctrl, load, value, intp, bitten>>
stateVars == <<default_margin, nowayout, options, hidog_state>>
openVars  == <<driver_open, orphan_timer, refs>>
sysVars   == <<mod, down, file>>
callVars  == <<arg, cont>>
vars == <<timerVars, stateVars, cur_margin, openVars, dpc, dtimer, sysVars, pc,
          callVars, age>>

-----------------------------------------------------------------------------
(* The count hidog_set_timeout(nr) loads *)
Count(nr) == IF nr = 0 \/ nr > MaxMargin THEN RegMax ELSE nr * Hz

(* The arguments hidog_set_heartbeat does not report as errors; t is         *)
(* compared as an unsigned number.                                           *)
InRange(t) == t > 0 /\ t <= MaxMargin

(* A wrong variant: only the largest margin is enforced *)
BugMargin(t) == IF t > MaxMargin THEN MaxMargin ELSE t

(* hidog_set_heartbeat(t): 0 keeps the margin, what is out of range is       *)
(* replaced by the largest one.                                              *)
Margin(t) == CASE InRange(t) -> t
               [] t = 0      -> cur_margin
               [] OTHER      -> MaxMargin

(* schedule_timeout_interruptible(msecs_to_jiffies(default_margin*1000/2)+1) *)
Sleep == (default_margin * Hz) \div 2 + 1

(* hidog_feed *)
Feed ==
  /\ intp' = FALSE /\ value' = load
  /\ UNCHANGED <<ctrl, load, bitten>>

(* hidog_set_timeout *)
SetTimeout(nr) ==
  /\ load' = Count(nr) /\ value' = Count(nr)
  /\ UNCHANGED <<ctrl, intp, bitten>>

(* The registers written under the lock by hidog_start and hidog_stop *)
SetCtrl(on) ==
  /\ ctrl' = on
  /\ intp' = FALSE /\ value' = load
  /\ UNCHANGED <<load, bitten>>

(* wake_up_process(task_hidog_deamon); a daemon that is not asleep misses it *)
Wake ==
  /\ dpc' = IF dpc = "sleep" THEN "while" ELSE dpc
  /\ dtimer' = IF dpc = "sleep" THEN 0 ELSE dtimer

-----------------------------------------------------------------------------
Init ==
  /\ ctrl = FALSE /\ load = RegMax /\ value = RegMax
  /\ intp = FALSE /\ bitten = FALSE
  /\ default_margin = HIDOG_TIMER_MARGIN /\ cur_margin = HIDOG_TIMER_MARGIN
  /\ nowayout = Nowayout /\ options = TRUE /\ hidog_state = "EXIT"
  /\ driver_open = FALSE /\ orphan_timer = FALSE /\ refs = 0
  /\ dpc = "none" /\ dtimer = 0
  /\ mod = "unloaded" /\ down = FALSE /\ file = FALSE
  /\ pc = [t \in Threads |-> "idle"]
  /\ arg = [t \in Threads |-> 0] /\ cont = [t \in Threads |-> "idle"]
  /\ age = 0

(* watchdog_init: the margins, then the device is registered.  p is the      *)
(* parameter default_margin; a value out of range is replaced.               *)
Load(p) ==
  /\ ~bitten /\ mod = "unloaded"
  /\ default_margin' = IF InRange(p) THEN p ELSE HIDOG_TIMER_MARGIN
  /\ cur_margin' = default_margin'
  /\ load' = Count(default_margin') /\ value' = Count(default_margin')
  /\ intp' = FALSE
  /\ nowayout' = Nowayout /\ options' = TRUE /\ hidog_state' = "EXIT"
  /\ mod' = "start"
  /\ UNCHANGED <<ctrl, bitten, openVars, dpc, dtimer, down, file, pc, callVars,
                 age>>

(* One step of insmod or rmmod *)
ModStep(here, next) ==
  /\ ~bitten /\ mod = here
  /\ mod' = next
  /\ UNCHANGED <<default_margin, nowayout, cur_margin, openVars, down, file, pc,
                 callVars>>

(* hidog_init: hidog_start, the state, the daemon *)
LoadStart ==
  /\ ModStep("start", "options")
  /\ SetCtrl(TRUE)
  /\ age' = 0
  /\ UNCHANGED <<options, hidog_state, dpc, dtimer>>

LoadOptions ==
  /\ ModStep("options", "state")
  /\ options' = TRUE
  /\ UNCHANGED <<timerVars, hidog_state, dpc, dtimer, age>>

LoadState ==
  /\ ModStep("state", "thread")
  /\ hidog_state' = "SELFCLR"
  /\ UNCHANGED <<timerVars, options, dpc, dtimer, age>>

LoadThread ==
  /\ ModStep("thread", "loaded")
  /\ dpc' = IF Nodeamon THEN "none" ELSE "while"
  /\ UNCHANGED <<timerVars, options, hidog_state, dtimer, age>>

Loading == {"start", "options", "state", "thread"}

(* watchdog_exit.  The kernel refuses rmmod while the driver or an open file *)
(* holds a reference.  hidog_exit: hidog_set_timeout(0) and hidog_stop, each *)
(* up to the point where the daemon could tell the difference.               *)
Unload ==
  /\ Unloads /\ ~down
  /\ refs = 0 /\ ~file /\ \A t \in Threads : pc[t] = "idle"
  /\ ModStep("loaded", "stopload")
  /\ ctrl' = FALSE /\ load' = RegMax /\ value' = RegMax /\ intp' = FALSE
  /\ UNCHANGED <<bitten, options, hidog_state, dpc, dtimer, age>>

UnloadStop ==
  /\ ModStep("stopload", "exit")
  /\ SetTimeout(0)
  /\ options' = FALSE
  /\ UNCHANGED <<hidog_state, dpc, dtimer, age>>

(* A wrong variant: the daemon is only woken *)
BugUnloadState ==
  /\ ModStep("exit", "wake")
  /\ UNCHANGED <<timerVars, options, hidog_state, dpc, dtimer, age>>

(* hidog_state = HIDOG_EXIT, then wake_up_process and kthread_stop, which    *)
(* wakes once more and waits for the thread to end                           *)
UnloadState ==
  /\ ModStep("exit", "wake")
  /\ hidog_state' = "EXIT"
  /\ UNCHANGED <<timerVars, options, dpc, dtimer, age>>

UnloadWake ==
  /\ ModStep("wake", "stop") \/ ModStep("stop", "join")
  /\ Wake
  /\ UNCHANGED <<timerVars, options, hidog_state, age>>

UnloadJoin ==
  /\ ModStep("join", "unloaded")
  /\ dpc \in {"none", "done"}
  /\ dpc' = "none"
  /\ UNCHANGED <<timerVars, options, hidog_state, dtimer, age>>

-----------------------------------------------------------------------------
(* One step of hidog_deamon *)
DaemonStep(here, next) ==
  /\ ~bitten /\ dpc = here
  /\ dpc' = next
  /\ UNCHANGED <<stateVars, cur_margin, openVars, sysVars, pc, callVars, age>>

(* The test of the loop, *)
DaemonWhile ==
  /\ DaemonStep("while", IF hidog_state # "EXIT" THEN "switch" ELSE "done")
  /\ UNCHANGED <<timerVars, dtimer>>

(* the switch, *)
DaemonSwitch ==
  /\ DaemonStep("switch", IF hidog_state = "SELFCLR" /\ options THEN "feed" ELSE "nap")
  /\ UNCHANGED <<timerVars, dtimer>>

DaemonFeed == DaemonStep("feed", "nap") /\ Feed /\ UNCHANGED dtimer

(* and the sleep, which a timer or a wakeup ends. *)
DaemonNap == DaemonStep("nap", "sleep") /\ dtimer' = Sleep /\ UNCHANGED timerVars

DaemonExpire ==
  /\ DaemonStep("sleep", "while")
  /\ dtimer = 0
  /\ UNCHANGED <<timerVars, dtimer>>

Daemon == \/ DaemonWhile \/ DaemonSwitch \/ DaemonFeed \/ DaemonNap
          \/ DaemonExpire

-----------------------------------------------------------------------------
At(t, place) == pc[t] = place

(* Nothing runs once the system is reset *)
Runs(t, place) == ~bitten /\ At(t, place)

Goto(t, place) == pc' = [pc EXCEPT ![t] = place]

(* A step of thread t that changes only the timer's registers, only the      *)
(* state the daemon looks at, only what open and close keep, or nothing of   *)
(* the driver.                                                               *)
TimerStep(t, here, next) ==
  /\ Runs(t, here) /\ Goto(t, next)
  /\ UNCHANGED <<stateVars, cur_margin, openVars, dpc, dtimer, sysVars, callVars>>

StateStep(t, here) ==
  /\ Runs(t, here)
  /\ UNCHANGED <<timerVars, default_margin, cur_margin, openVars, dpc, dtimer, mod,
                 down>>

OpenStep(t, here, next) ==
  /\ Runs(t, here) /\ Goto(t, next)
  /\ UNCHANGED <<timerVars, stateVars, cur_margin, dpc, dtimer, sysVars, callVars,
                 age>>

OnlyCall == UNCHANGED <<timerVars, stateVars, cur_margin, openVars, dpc, dtimer,
                        mod, down, age>>

(* hidog_feed on behalf of a call *)
FeedStep(t, here, next) == TimerStep(t, here, next) /\ Feed /\ age' = 0

(* hidog_set_heartbeat(m), then next *)
CallHeartbeat(t, m, next) ==
  /\ arg' = [arg EXCEPT ![t] = m]
  /\ cont' = [cont EXCEPT ![t] = next]
  /\ Goto(t, "hb_margin")

HbMargin(t) ==
  /\ Runs(t, "hb_margin") /\ Goto(t, "hb_load")
  /\ cur_margin' = Margin(arg[t])
  /\ arg' = [arg EXCEPT ![t] = Margin(arg[t])]
  /\ UNCHANGED <<timerVars, stateVars, openVars, dpc, dtimer, sysVars, cont, age>>

HbLoad(t) ==
  TimerStep(t, "hb_load", "hb_feed") /\ SetTimeout(arg[t]) /\ UNCHANGED age

HbFeed(t) == FeedStep(t, "hb_feed", "hb_wake")

HbWake(t) ==
  /\ Runs(t, "hb_wake") /\ Goto(t, cont[t])
  /\ Wake
  /\ arg' = [arg EXCEPT ![t] = 0] /\ cont' = [cont EXCEPT ![t] = "idle"]
  /\ UNCHANGED <<timerVars, stateVars, cur_margin, openVars, sysVars, age>>

(* hidog_keepalive at the end of a call *)
KeepAlive(t) == FeedStep(t, "feed", "idle")

-----------------------------------------------------------------------------
(* Calls begin while the system is up.  The file is shared by the threads.   *)
Begin(t) == Runs(t, "idle") /\ ~down

Begun(t) == Begin(t) /\ file

(* hidog_open: one opener at a time *)
Open(t) ==
  /\ ~down /\ mod \in {"loaded"} \cup (IF EarlyOpen THEN Loading ELSE {})
  /\ OpenStep(t, "idle", "o_ref")
  /\ ~driver_open
  /\ driver_open' = TRUE
  /\ UNCHANGED <<orphan_timer, refs>>

(* A wrong variant: the reference is taken for an orphaned timer as well *)
BugOpenRef(t) ==
  /\ OpenStep(t, "o_ref", "o_feed")
  /\ orphan_timer' = FALSE
  /\ refs' = refs + 1
  /\ UNCHANGED driver_open

(* An orphaned timer still has its reference *)
OpenRef(t) ==
  /\ OpenStep(t, "o_ref", "o_feed")
  /\ orphan_timer' = FALSE
  /\ refs' = IF orphan_timer THEN refs ELSE refs + 1
  /\ UNCHANGED driver_open

OpenFeed(t) == FeedStep(t, "o_feed", "o_state")

(* A wrong variant: the daemon stays in charge *)
BugOpenState(t) ==
  /\ StateStep(t, "o_state") /\ Goto(t, "idle")
  /\ file' = TRUE
  /\ age' = 0
  /\ UNCHANGED <<hidog_state, nowayout, options, callVars>>

(* The open succeeds *)
OpenState(t) ==
  /\ StateStep(t, "o_state") /\ Goto(t, "idle")
  /\ hidog_state' = "EXTCLR"
  /\ file' = TRUE
  /\ age' = 0
  /\ UNCHANGED <<nowayout, options, callVars>>

(* hidog_write clears nowayout, *)
Write(t) ==
  /\ Begun(t) /\ Writes # {}
  /\ StateStep(t, "idle") /\ Goto(t, "w_scan")
  /\ nowayout' = FALSE
  /\ UNCHANGED <<options, hidog_state, file, callVars, age>>

(* and a 'V' sets it again; a fault before or behind the 'V' ends the call   *)
WriteScan(t, v) ==
  /\ StateStep(t, "w_scan")
  /\ \/ nowayout' = v /\ Goto(t, "feed")
     \/ Faults /\ nowayout' \in {FALSE, v} /\ Goto(t, "idle")
  /\ UNCHANGED <<options, hidog_state, file, callVars, age>>

(* WDIOC_KEEPALIVE *)
IoctlKeepAlive(t) ==
  /\ Begun(t)
  /\ Goto(t, "feed")
  /\ OnlyCall /\ UNCHANGED <<file, callVars>>

(* WDIOC_SETTIMEOUT; an error of hidog_set_heartbeat is returned *)
IoctlSetTimeout(t, m) ==
  /\ Begun(t)
  /\ CallHeartbeat(t, m, IF InRange(m) THEN "feed" ELSE "idle")
  /\ OnlyCall /\ UNCHANGED file

(* WDIOC_SETOPTIONS is refused with nowayout *)
IoctlSetOptions(t, on) ==
  /\ Begun(t)
  /\ ~nowayout
  /\ Goto(t, IF on THEN "s_ctrl" ELSE "x_ctrl")
  /\ OnlyCall /\ UNCHANGED <<file, callVars>>

(* hidog_start, then hidog_set_heartbeat(cur_margin) *)
StartCtrl(t) == TimerStep(t, "s_ctrl", "s_options") /\ SetCtrl(TRUE) /\ age' = 0

StartOptions(t) ==
  /\ StateStep(t, "s_options")
  /\ options' = TRUE
  /\ CallHeartbeat(t, cur_margin, "idle")
  /\ UNCHANGED <<nowayout, hidog_state, file, age>>

(* hidog_stop *)
StopCtrl(t) == TimerStep(t, "x_ctrl", "x_load") /\ SetCtrl(FALSE) /\ age' = 0

StopLoad(t) == TimerStep(t, "x_load", "x_options") /\ SetTimeout(0) /\ UNCHANGED age

(* A wrong variant: the option is left as it was *)
BugStopOptions(t) ==
  /\ StateStep(t, "x_options") /\ Goto(t, "idle")
  /\ UNCHANGED <<options, nowayout, hidog_state, file, callVars, age>>

StopOptions(t) ==
  /\ StateStep(t, "x_options") /\ Goto(t, "idle")
  /\ options' = FALSE
  /\ UNCHANGED <<nowayout, hidog_state, file, callVars, age>>

(* hidog_notifier_sys, called by a thread that shuts the system down *)
NotifierSys(t) ==
  /\ Begin(t) /\ Reboots /\ mod = "loaded"
  /\ down' = TRUE
  /\ Goto(t, "x_ctrl")
  /\ UNCHANGED <<timerVars, stateVars, cur_margin, openVars, dpc, dtimer, mod,
                 file, callVars, age>>

(* hidog_release, when the last user of the file closes it *)
Release(t) ==
  /\ Begun(t) /\ \A u \in Threads : At(u, "idle")
  /\ file' = FALSE
  /\ Goto(t, IF nowayout THEN "r_orphan" ELSE "r_state")
  /\ OnlyCall /\ UNCHANGED callVars

(* A wrong variant: the daemon is not put in charge again *)
BugReleaseState(t) ==
  /\ StateStep(t, "r_state")
  /\ CallHeartbeat(t, cur_margin, "r_put")
  /\ UNCHANGED <<hidog_state, nowayout, options, file, age>>

ReleaseState(t) ==
  /\ StateStep(t, "r_state")
  /\ hidog_state' = "SELFCLR"
  /\ CallHeartbeat(t, cur_margin, "r_put")
  /\ UNCHANGED <<nowayout, options, file, age>>

ReleasePut(t) ==
  /\ OpenStep(t, "r_put", "r_clear")
  /\ refs' = refs - 1
  /\ UNCHANGED <<driver_open, orphan_timer>>

(* "Unexpected close, not stopping watchdog!" *)
ReleaseOrphan(t) ==
  /\ OpenStep(t, "r_orphan", "r_feed")
  /\ orphan_timer' = TRUE
  /\ UNCHANGED <<driver_open, refs>>

ReleaseFeed(t) == FeedStep(t, "r_feed", "r_clear")

ReleaseClear(t) ==
  /\ OpenStep(t, "r_clear", "idle")
  /\ driver_open' = FALSE
  /\ UNCHANGED <<orphan_timer, refs>>

Call(t) ==
  \/ Open(t) \/ OpenRef(t) \/ OpenFeed(t) \/ OpenState(t)
  \/ Write(t) \/ \E v \in Writes : WriteScan(t, v)
  \/ IoctlKeepAlive(t) \/ KeepAlive(t)
  \/ \E m \in Margins : IoctlSetTimeout(t, m)
  \/ HbMargin(t) \/ HbLoad(t) \/ HbFeed(t) \/ HbWake(t)
  \/ \E on \in BOOLEAN : IoctlSetOptions(t, on)
  \/ StartCtrl(t) \/ StartOptions(t)
  \/ StopCtrl(t) \/ StopLoad(t) \/ StopOptions(t) \/ NotifierSys(t)
  \/ Release(t) \/ ReleaseState(t) \/ ReleasePut(t)
  \/ ReleaseOrphan(t) \/ ReleaseFeed(t) \/ ReleaseClear(t)

-----------------------------------------------------------------------------
(* The daemon sleeps or does not exist, no insmod is under way *)
TimePasses ==
  /\ dpc \in {"none", "done"} \/ (dpc = "sleep" /\ dtimer > 0)
  /\ mod \in {"unloaded", "loaded", "join"}

(* age stops growing where it can no longer make a difference *)
AgeCap == 2 * RegMax + 1

(* The hardware (external): the running counter raises the interrupt at 0    *)
(* and starts again; at 0 with the interrupt still raised it resets the      *)
(* system ("after 2 timer interrupt").                                       *)
Tick ==
  /\ ~bitten /\ TimePasses
  /\ dtimer' = IF dpc = "sleep" THEN dtimer - 1 ELSE dtimer
  /\ age' = IF age < AgeCap THEN age + 1 ELSE age
  /\ value' = IF ~ctrl THEN value ELSE IF value > 1 THEN value - 1 ELSE load
  /\ intp' = (intp \/ (ctrl /\ value <= 1))
  /\ bitten' = (ctrl /\ value <= 1 /\ intp)
  /\ UNCHANGED <<ctrl, load, stateVars, cur_margin, openVars, dpc, sysVars, pc,
                 callVars>>

(* The system starts again after a reset or a shutdown *)
Boot ==
  /\ bitten \/ (down /\ \A t \in Threads : At(t, "idle"))
  /\ ctrl' = FALSE /\ load' = RegMax /\ value' = RegMax
  /\ intp' = FALSE /\ bitten' = FALSE
  /\ default_margin' = HIDOG_TIMER_MARGIN /\ cur_margin' = HIDOG_TIMER_MARGIN
  /\ nowayout' = Nowayout /\ options' = TRUE /\ hidog_state' = "EXIT"
  /\ driver_open' = FALSE /\ orphan_timer' = FALSE /\ refs' = 0
  /\ dpc' = "none" /\ dtimer' = 0
  /\ mod' = "unloaded" /\ down' = FALSE /\ file' = FALSE
  /\ pc' = [t \in Threads |-> "idle"]
  /\ arg' = [t \in Threads |-> 0] /\ cont' = [t \in Threads |-> "idle"]
  /\ age' = 0

Insmod == \/ \E p \in DefaultMargins : Load(p)
          \/ LoadStart \/ LoadOptions \/ LoadState \/ LoadThread

Rmmod == Unload \/ UnloadStop \/ UnloadState \/ UnloadWake \/ UnloadJoin

Next == Insmod \/ Rmmod \/ Daemon \/ Tick \/ Boot \/ \E t \in Threads : Call(t)

SafeSpec == Init /\ [][Next]_vars

(* Time passes, the daemon runs when it can, rmmod proceeds *)
Fairness ==
  /\ WF_vars(Tick) /\ WF_vars(Daemon)
  /\ WF_vars(Rmmod /\ mod # "loaded")

Spec == SafeSpec /\ Fairness

-----------------------------------------------------------------------------
Settled == mod = "loaded" /\ \A t \in Threads : At(t, "idle")

Places == {"idle", "feed", "o_ref", "o_feed", "o_state", "w_scan", "hb_margin",
           "hb_load", "hb_feed", "hb_wake", "s_ctrl", "s_options", "x_ctrl",
           "x_load", "x_options", "r_state", "r_put", "r_orphan", "r_feed",
           "r_clear"}

(* Types; in particular the margin in force is one the register can hold and *)
(* never 0, whatever the parameter and WDIOC_SETTIMEOUT ask for.             *)
TypeOK ==
  /\ {ctrl, intp, bitten, nowayout, options, driver_open, orphan_timer, down,
      file} \subseteq BOOLEAN
  /\ load \in 1 .. RegMax /\ value \in 1 .. RegMax
  /\ default_margin \in 1 .. MaxMargin /\ cur_margin \in 1 .. MaxMargin
  /\ hidog_state \in {"EXIT", "SELFCLR", "EXTCLR"}
  /\ refs \in Nat
  /\ dpc \in {"none", "while", "switch", "feed", "nap", "sleep", "done"}
  /\ dtimer \in 0 .. Sleep
  /\ mod \in Loading \cup {"unloaded", "loaded", "stopload", "exit", "wake",
                           "stop", "join"}
  /\ pc \in [Threads -> Places] /\ cont \in [Threads -> {"idle", "feed", "r_put"}]
  /\ arg \in [Threads -> Int]
  /\ age \in 0 .. AgeCap

(* While nobody holds the device, the daemon keeps the system alive: a reset *)
(* happens only while the file is open, or was closed with nowayout set.     *)
IdleNeverResets ==
  [][bitten' /\ ~bitten => driver_open \/ orphan_timer]_vars

(* A process that opened the device has to feed it: between its calls, and   *)
(* after it closed the file with nowayout set, an enabled watchdog is never  *)
(* without a feed of its own for two margins, because nobody else feeds it.  *)
OwnerMustFeed ==
  Settled /\ (file \/ orphan_timer) /\ ctrl => age <= 2 * cur_margin * Hz

(* Between calls the driver's picture of the card is right: what             *)
(* WDIOC_GETSTATUS and WDIOC_GETTIMEOUT report is what the timer does.       *)
CardAsReported ==
  Settled /\ ~down => /\ options = ctrl
                      /\ ctrl => load = cur_margin * Hz

(* The module is held by exactly one reference while the device is open or   *)
(* the timer is orphaned and by none otherwise, however nowayout changes     *)
(* between open and close.                                                   *)
RefsBalanced ==
  Settled => refs = (IF file \/ orphan_timer THEN 1 ELSE 0)

(* A shutdown turns the watchdog off *)
DownMeansOff == Settled /\ down => ~ctrl

(* When no call is under way, the reference that pins the module is there    *)
(* exactly while somebody needs it, and a system that was shut down is not   *)
(* reset.                                                                    *)
SettledInv == RefsBalanced /\ DownMeansOff

(* rmmod ends: the daemon sees HIDOG_EXIT although both wakeups may come     *)
(* while it is not asleep, the sleep being bounded                           *)
UnloadEnds == mod = "exit" ~> (mod = "unloaded")
=============================================================================
