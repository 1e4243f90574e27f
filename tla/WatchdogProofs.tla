--------------------------- MODULE WatchdogProofs ---------------------------
(***************************************************************************)
(* Proofs about Watchdog: for any number of threads the types and the      *)
(* reference that pins the module, for a process with one thread what the  *)
(* driver reports of the card, who feeds it, and that an idle system is    *)
(* not reset.                                                              *)
(***************************************************************************)
EXTENDS Watchdog, TLAPS

(* The place of the daemon and the rest of its sleep go together; it lives   *)
(* between the end of insmod and the end of rmmod.                           *)
DaemonInv ==
  /\ dpc # "sleep" => dtimer = 0
  /\ mod \in Loading \cup {"unloaded"} => dpc = "none"

(* hidog_set_heartbeat loads a margin it has brought into range; the counter *)
(* never exceeds what it was loaded with.                                    *)
TimerInv ==
  /\ \A t \in Threads : pc[t] = "hb_load" => arg[t] \in 1 .. MaxMargin
  /\ value <= load

(* A thread inside hidog_open, and one inside hidog_release *)
Heartbeat == {"hb_margin", "hb_load", "hb_feed", "hb_wake"}
Opening(t) == pc[t] \in {"o_ref", "o_feed", "o_state"}
Closing(t) == \/ pc[t] \in {"r_state", "r_put", "r_orphan", "r_feed", "r_clear"}
              \/ pc[t] \in Heartbeat /\ cont[t] = "r_put"
Switching(t) == Opening(t) \/ Closing(t)

(* The reference is taken behind o_ref and dropped behind r_put, unless the  *)
(* timer is orphaned.                                                        *)
Pins(t) == \/ pc[t] \in {"o_feed", "o_state", "r_state", "r_put", "r_orphan"}
           \/ pc[t] \in Heartbeat

(* One thread at a time opens or closes, and nobody has the file then; the   *)
(* reference is there while the file is open, during the part of open and    *)
(* close that holds it, and while the timer is orphaned.                     *)
RefInv ==
  /\ \A t \in Threads : Switching(t) => ~file /\ driver_open
  /\ \A t, u \in Threads : Switching(t) /\ Switching(u) => t = u
  /\ file => driver_open
  /\ driver_open => file \/ \E t \in Threads : Switching(t)
  /\ file => refs = 1 /\ ~orphan_timer
  /\ \A t \in Threads : Switching(t) /\ Pins(t) => refs = 1 /\ ~orphan_timer
  /\ \A t \in Threads : pc[t] = "r_feed" => refs = 1 /\ orphan_timer
  /\ \A t \in Threads : pc[t] \in {"o_ref", "r_clear"} =>
       refs = (IF orphan_timer THEN 1 ELSE 0)
  /\ ~driver_open => refs = (IF orphan_timer THEN 1 ELSE 0)

(* TypeOK in three parts: flags, numbers and names *)
Flags ==
  /\ ctrl \in BOOLEAN /\ intp \in BOOLEAN /\ bitten \in BOOLEAN
  /\ nowayout \in BOOLEAN /\ options \in BOOLEAN /\ driver_open \in BOOLEAN
  /\ orphan_timer \in BOOLEAN /\ down \in BOOLEAN /\ file \in BOOLEAN

Numbers ==
  /\ load \in 1 .. RegMax /\ value \in 1 .. RegMax
  /\ default_margin \in 1 .. MaxMargin /\ cur_margin \in 1 .. MaxMargin
  /\ refs \in Nat
  /\ dtimer \in 0 .. Sleep
  /\ age \in 0 .. AgeCap

Names ==
  /\ hidog_state \in {"EXIT", "SELFCLR", "EXTCLR"}
  /\ dpc \in {"none", "while", "switch", "feed", "nap", "sleep", "done"}
  /\ mod \in Loading \cup {"unloaded", "loaded", "stopload", "exit", "wake",
                           "stop", "join"}
  /\ pc \in [Threads -> Places] /\ cont \in [Threads -> {"idle", "feed", "r_put"}]
  /\ arg \in [Threads -> Int]

BaseInv == Numbers /\ Names /\ DaemonInv /\ TimerInv

TypeInv == Flags /\ BaseInv /\ RefInv

-----------------------------------------------------------------------------
(* The margins the register can hold, and what is loaded for one of them *)
LEMMA MarginFacts ==
  /\ Hz \in Nat \ {0} /\ RegMax \in Nat \ {0}
  /\ MaxMargin \in Nat \ {0}
  /\ \A nr \in 1 .. MaxMargin : nr * Hz \in 1 .. RegMax
  <1>1. Hz \in Nat \ {0} /\ RegMax \in Nat \ {0} /\ Hz <= RegMax
    BY WatchdogAssumption DEF WatchdogAssumption
  <1>2. MaxMargin \in Nat /\ MaxMargin * Hz <= RegMax BY <1>1 DEF MaxMargin
  <1>3. MaxMargin # 0 BY WatchdogAssumption, <1>2 DEF WatchdogAssumption
  <1>4. \A nr \in 1 .. MaxMargin : nr * Hz \in 1 .. RegMax
    <2> SUFFICES ASSUME NEW nr \in 1 .. MaxMargin
                 PROVE  nr * Hz \in 1 .. RegMax
      OBVIOUS
    <2>1. nr * Hz <= MaxMargin * Hz BY <1>1, <1>2
    <2>2. nr * Hz \in Nat /\ nr * Hz >= 1 BY <1>1
    <2> QED BY <1>1, <1>2, <2>1, <2>2
  <1> QED BY <1>1, <1>2, <1>3, <1>4

LEMMA CountType ==
  \A nr \in 0 .. MaxMargin : /\ Count(nr) \in 1 .. RegMax
                             /\ nr # 0 => Count(nr) = nr * Hz
  BY MarginFacts DEF Count

(* Whatever hidog_set_heartbeat is asked for, it sets a margin in range. *)
LEMMA MarginType ==
  ASSUME Numbers, NEW m \in Int PROVE Margin(m) \in 1 .. MaxMargin
  BY MarginFacts DEF Numbers, Margin, InRange

LEMMA SleepType ==
  ASSUME NEW d \in 1 .. MaxMargin PROVE (d * Hz) \div 2 + 1 \in Nat
  <1>1. d * Hz \in Nat BY MarginFacts
  <1> QED BY <1>1

(* A flag is only ever set or cleared, *)
LEMMA FlagStep == ASSUME Flags, [Next]_vars PROVE Flags'
  <1> USE WatchdogAssumption
      DEF WatchdogAssumption, Flags, timerVars, stateVars, openVars, sysVars
  <1>1. ASSUME NEW t \in Threads, Call(t) PROVE Flags'
    <2> USE DEF OpenStep, StateStep, TimerStep, FeedStep, OnlyCall, Feed,
         SetTimeout,
            SetCtrl
    <2>1. CASE Open(t) \/ OpenRef(t) \/ OpenFeed(t) \/ OpenState(t)
      BY ZenonT(60), <2>1 DEF Open, OpenRef, OpenFeed, OpenState
    <2>2. CASE Write(t) BY <2>2 DEF Write
    <2>3. ASSUME NEW v \in Writes, WriteScan(t, v) PROVE Flags'
      BY <2>3 DEF WriteScan
    <2>4. CASE \/ IoctlKeepAlive(t) \/ \E m \in Margins : IoctlSetTimeout(t, m)
               \/ HbMargin(t) \/ HbLoad(t) \/ HbWake(t)
      BY <2>4 DEF IoctlKeepAlive, IoctlSetTimeout, HbMargin, HbLoad, HbWake
    <2>7. CASE KeepAlive(t) \/ HbFeed(t) BY <2>7 DEF KeepAlive, HbFeed
    <2>5. CASE \/ \E on \in BOOLEAN : IoctlSetOptions(t, on)
               \/ StartCtrl(t) \/ StartOptions(t)
               \/ StopCtrl(t) \/ StopLoad(t) \/ StopOptions(t) \/ NotifierSys(t)
      BY ZenonT(60), <2>5 DEF IoctlSetOptions, StartCtrl, StartOptions,
           StopCtrl, StopLoad,
         StopOptions, NotifierSys
    <2>6. CASE \/ Release(t) \/ ReleaseState(t) \/ ReleasePut(t)
               \/ ReleaseOrphan(t) \/ ReleaseFeed(t) \/ ReleaseClear(t)
      BY ZenonT(60), <2>6 DEF Release, ReleaseState, ReleasePut, ReleaseOrphan,
           ReleaseFeed,
         ReleaseClear
    <2> QED BY <1>1, <2>1, <2>2, <2>3, <2>4, <2>5, <2>6, <2>7 DEF Call
  <1>2. CASE Insmod
    BY ZenonT(60), <1>2 DEF Insmod, Load, LoadStart, LoadOptions, LoadState,
         LoadThread,
       ModStep, SetCtrl
  <1>3. CASE Rmmod
    BY ZenonT(60), <1>3 DEF Rmmod, Unload, UnloadStop, UnloadState, UnloadWake,
         UnloadJoin,
       ModStep, SetTimeout
  <1>4. CASE Daemon
    BY ZenonT(60), <1>4 DEF Daemon, DaemonWhile, DaemonSwitch, DaemonFeed,
         DaemonNap,
       DaemonExpire, DaemonStep, Feed
  <1>5. CASE Tick BY <1>5 DEF Tick
  <1>6. CASE Boot BY <1>6 DEF Boot
  <1>7. CASE UNCHANGED vars BY <1>7 DEF vars
  <1> QED BY <1>1, <1>2, <1>3, <1>4, <1>5, <1>6, <1>7 DEF Next

(* the other types, the place of the daemon and the range of what is loaded  *)
(* are kept,                                                                 *)
LEMMA BaseStep == ASSUME TypeInv, [Next]_vars PROVE BaseInv'
  <1> USE MarginFacts, WatchdogAssumption
      DEF WatchdogAssumption, TypeInv, BaseInv, timerVars, stateVars, openVars,
          sysVars, callVars, Runs, At, Goto, Loading
  <1>s. /\ default_margin' = default_margin => Sleep' = Sleep
        /\ AgeCap \in Nat /\ AgeCap' = AgeCap
    BY DEF Sleep, AgeCap
  <1>d. /\ Sleep \in Nat
        /\ default_margin' \in 1 .. MaxMargin => Sleep' \in Nat
    BY SleepType DEF Sleep, Numbers
  <1> USE <1>s, <1>d DEF Numbers, Names, Places, DaemonInv, TimerInv
  <1>1. ASSUME NEW p \in DefaultMargins, Load(p) PROVE BaseInv'
    <2> USE <1>1 DEF Load
    <2>1. default_margin' \in 1 .. MaxMargin BY DEF InRange
    <2>2. load' \in 1 .. RegMax /\ value' = load' BY <2>1, CountType
    <2> QED BY <2>1, <2>2
  <1>2. CASE LoadStart
    BY <1>2 DEF LoadStart, ModStep, SetCtrl
  <1>3. CASE LoadOptions
    BY <1>3 DEF LoadOptions, ModStep
  <1>4. CASE LoadState
    BY <1>4 DEF LoadState, ModStep
  <1>5. CASE LoadThread
    BY <1>5 DEF LoadThread, ModStep
  <1>6. CASE Unload
    BY <1>6 DEF Unload, ModStep
  <1>7. CASE UnloadStop
    <2> USE <1>7 DEF UnloadStop, ModStep, SetTimeout
    <2>1. Count(0) \in 1 .. RegMax BY CountType
    <2> QED BY <2>1
  <1>8. CASE UnloadState
    BY <1>8 DEF UnloadState, ModStep
  <1>9. CASE UnloadWake
    BY <1>9 DEF UnloadWake, ModStep, Wake
  <1>10. CASE UnloadJoin
    BY <1>10 DEF UnloadJoin, ModStep
  <1>11. CASE DaemonWhile
    BY <1>11 DEF DaemonWhile, DaemonStep
  <1>12. CASE DaemonSwitch
    BY <1>12 DEF DaemonSwitch, DaemonStep
  <1>13. CASE DaemonFeed
    BY <1>13 DEF DaemonFeed, DaemonStep, Feed
  <1>14. CASE DaemonNap
    BY <1>14 DEF DaemonNap, DaemonStep
  <1>15. CASE DaemonExpire
    BY <1>15 DEF DaemonExpire, DaemonStep
  <1>16. CASE Tick
    BY <1>16 DEF Tick, TimePasses
  <1>17. CASE Boot
    BY <1>17 DEF Boot
  <1>18. ASSUME NEW t \in Threads, Call(t) PROVE BaseInv'
    <2>1. CASE Open(t)
      BY <2>1 DEF Open, OpenStep
    <2>2. CASE OpenRef(t)
      BY <2>2 DEF OpenRef, OpenStep
    <2>3. CASE OpenFeed(t)
      BY <2>3 DEF OpenFeed, FeedStep, TimerStep, Feed
    <2>4. CASE OpenState(t)
      BY <2>4 DEF OpenState, StateStep
    <2>5. CASE Write(t)
      BY <2>5 DEF Write, Begun, Begin, StateStep
    <2>6. ASSUME NEW v \in Writes, WriteScan(t, v) PROVE BaseInv'
      BY ZenonT(60), <2>6 DEF WriteScan, StateStep
    <2>7. CASE IoctlKeepAlive(t)
      BY <2>7 DEF IoctlKeepAlive, Begun, Begin, OnlyCall
    <2>8. CASE KeepAlive(t)
      BY <2>8 DEF KeepAlive, FeedStep, TimerStep, Feed
    <2>9. ASSUME NEW m \in Margins, IoctlSetTimeout(t, m) PROVE BaseInv'
      BY <2>9 DEF IoctlSetTimeout, CallHeartbeat, Begun, Begin, OnlyCall
    <2>10. CASE HbMargin(t)
      <3> USE <2>10 DEF HbMargin
      <3>1. Margin(arg[t]) \in 1 .. MaxMargin BY MarginType
      <3> QED BY <3>1
    <2>11. CASE HbLoad(t)
      <3> USE <2>11 DEF HbLoad, TimerStep, SetTimeout
      <3>1. arg[t] \in 1 .. MaxMargin /\ Count(arg[t]) \in 1 .. RegMax
        BY CountType
      <3> QED BY <3>1
    <2>12. CASE HbFeed(t)
      BY <2>12 DEF HbFeed, FeedStep, TimerStep, Feed
    <2>13. CASE HbWake(t)
      BY <2>13 DEF HbWake, Wake
    <2>14. ASSUME NEW on \in BOOLEAN, IoctlSetOptions(t, on) PROVE BaseInv'
      BY <2>14 DEF IoctlSetOptions, Begun, Begin, OnlyCall
    <2>15. CASE StartCtrl(t)
      BY <2>15 DEF StartCtrl, TimerStep, SetCtrl
    <2>16. CASE StartOptions(t)
      BY <2>16 DEF StartOptions, StateStep, CallHeartbeat
    <2>17. CASE StopCtrl(t)
      BY <2>17 DEF StopCtrl, TimerStep, SetCtrl
    <2>18. CASE StopLoad(t)
      <3> USE <2>18 DEF StopLoad, TimerStep, SetTimeout
      <3>1. Count(0) \in 1 .. RegMax BY CountType
      <3> QED BY <3>1
    <2>19. CASE StopOptions(t)
      BY <2>19 DEF StopOptions, StateStep
    <2>20. CASE NotifierSys(t)
      BY <2>20 DEF NotifierSys, Begin
    <2>21. CASE Release(t)
      BY <2>21 DEF Release, Begun, Begin, OnlyCall
    <2>22. CASE ReleaseState(t)
      BY <2>22 DEF ReleaseState, StateStep, CallHeartbeat
    <2>23. CASE ReleasePut(t)
      <3> USE <2>23 DEF ReleasePut, OpenStep
      <3>1. refs = 1 BY DEF RefInv, Switching, Closing, Pins
      <3> QED BY <3>1
    <2>24. CASE ReleaseOrphan(t)
      BY <2>24 DEF ReleaseOrphan, OpenStep
    <2>25. CASE ReleaseFeed(t)
      BY <2>25 DEF ReleaseFeed, FeedStep, TimerStep, Feed
    <2>26. CASE ReleaseClear(t)
      BY <2>26 DEF ReleaseClear, OpenStep
    <2> QED BY <1>18, <2>1, <2>2, <2>3, <2>4, <2>5, <2>6, <2>7, <2>8, <2>9,
             <2>10, <2>11, <2>12, <2>13, <2>14, <2>15, <2>16, <2>17, <2>18,
             <2>19, <2>20, <2>21, <2>22, <2>23, <2>24, <2>25, <2>26 DEF Call
  <1>19. CASE UNCHANGED vars BY <1>19 DEF vars, Sleep
  <1> QED BY <1>1, <1>2, <1>3, <1>4, <1>5, <1>6, <1>7, <1>8, <1>9, <1>10, <1>11,
           <1>12, <1>13, <1>14, <1>15, <1>16, <1>17, <1>18, <1>19 DEF Next,
           Insmod, Rmmod, Daemon

(* and the reference, with who may hold it. *)
LEMMA RefStep == ASSUME TypeInv, [Next]_vars PROVE RefInv'
  <1> USE DEF timerVars, stateVars, openVars, sysVars, callVars, Runs, At, Goto
  <1>f. Flags /\ Names /\ RefInv BY DEF TypeInv, BaseInv
  <1> USE <1>f DEF Flags, Names, Places, RefInv, Switching, Opening, Closing,
       Pins,
          Heartbeat
  <1>1. ASSUME NEW p \in DefaultMargins, Load(p) PROVE RefInv'
    BY <1>1 DEF Load
  <1>2. CASE LoadStart
    BY <1>2 DEF LoadStart, ModStep, SetCtrl
  <1>3. CASE LoadOptions
    BY <1>3 DEF LoadOptions, ModStep
  <1>4. CASE LoadState
    BY <1>4 DEF LoadState, ModStep
  <1>5. CASE LoadThread
    BY <1>5 DEF LoadThread, ModStep
  <1>6. CASE Unload
    BY <1>6 DEF Unload, ModStep
  <1>7. CASE UnloadStop
    BY <1>7 DEF UnloadStop, ModStep, SetTimeout
  <1>8. CASE UnloadState
    BY <1>8 DEF UnloadState, ModStep
  <1>9. CASE UnloadWake
    BY <1>9 DEF UnloadWake, ModStep, Wake
  <1>10. CASE UnloadJoin
    BY <1>10 DEF UnloadJoin, ModStep
  <1>11. CASE DaemonWhile
    BY <1>11 DEF DaemonWhile, DaemonStep
  <1>12. CASE DaemonSwitch
    BY <1>12 DEF DaemonSwitch, DaemonStep
  <1>13. CASE DaemonFeed
    BY <1>13 DEF DaemonFeed, DaemonStep, Feed
  <1>14. CASE DaemonNap
    BY <1>14 DEF DaemonNap, DaemonStep
  <1>15. CASE DaemonExpire
    BY <1>15 DEF DaemonExpire, DaemonStep
  <1>16. CASE Tick
    BY <1>16 DEF Tick, TimePasses
  <1>17. CASE Boot
    BY <1>17 DEF Boot
  <1>18. ASSUME NEW t \in Threads, Call(t) PROVE RefInv'
    <2>1. CASE Open(t)
      BY <2>1 DEF Open, OpenStep
    <2>2. CASE OpenRef(t)
      BY <2>2 DEF OpenRef, OpenStep
    <2>3. CASE OpenFeed(t)
      BY <2>3 DEF OpenFeed, FeedStep, TimerStep, Feed
    <2>4. CASE OpenState(t)
      BY <2>4 DEF OpenState, StateStep
    <2>5. CASE Write(t)
      BY <2>5 DEF Write, Begun, Begin, StateStep
    <2>6. ASSUME NEW v \in Writes, WriteScan(t, v) PROVE RefInv'
      <3> USE <2>6 DEF WriteScan, StateStep
      <3>1. /\ pc[t] = "w_scan"
            /\ UNCHANGED <<cont, file, driver_open, refs, orphan_timer>>
            /\ \E x \in {"feed", "idle"} : pc' = [pc EXCEPT ![t] = x]
        OBVIOUS
      <3> HIDE <2>6 DEF WriteScan, StateStep
      <3>2. PICK x \in {"feed", "idle"} : pc' = [pc EXCEPT ![t] = x] BY <3>1
      <3> QED BY <3>1, <3>2
    <2>7. CASE IoctlKeepAlive(t)
      BY <2>7 DEF IoctlKeepAlive, Begun, Begin, OnlyCall
    <2>8. CASE KeepAlive(t)
      BY <2>8 DEF KeepAlive, FeedStep, TimerStep, Feed
    <2>9. ASSUME NEW m \in Margins, IoctlSetTimeout(t, m) PROVE RefInv'
      BY <2>9 DEF IoctlSetTimeout, CallHeartbeat, Begun, Begin, OnlyCall
    <2>10. CASE HbMargin(t)
      BY <2>10 DEF HbMargin
    <2>11. CASE HbLoad(t)
      BY <2>11 DEF HbLoad, TimerStep, SetTimeout
    <2>12. CASE HbFeed(t)
      BY <2>12 DEF HbFeed, FeedStep, TimerStep, Feed
    <2>13. CASE HbWake(t)
      BY <2>13 DEF HbWake, Wake
    <2>14. ASSUME NEW on \in BOOLEAN, IoctlSetOptions(t, on) PROVE RefInv'
      BY <2>14 DEF IoctlSetOptions, Begun, Begin, OnlyCall
    <2>15. CASE StartCtrl(t)
      BY <2>15 DEF StartCtrl, TimerStep, SetCtrl
    <2>16. CASE StartOptions(t)
      BY <2>16 DEF StartOptions, StateStep, CallHeartbeat
    <2>17. CASE StopCtrl(t)
      BY <2>17 DEF StopCtrl, TimerStep, SetCtrl
    <2>18. CASE StopLoad(t)
      BY <2>18 DEF StopLoad, TimerStep, SetTimeout
    <2>19. CASE StopOptions(t)
      BY <2>19 DEF StopOptions, StateStep
    <2>20. CASE NotifierSys(t)
      BY <2>20 DEF NotifierSys, Begin
    <2>21. CASE Release(t)
      BY <2>21 DEF Release, Begun, Begin, OnlyCall
    <2>22. CASE ReleaseState(t)
      BY <2>22 DEF ReleaseState, StateStep, CallHeartbeat
    <2>23. CASE ReleasePut(t)
      BY <2>23 DEF ReleasePut, OpenStep
    <2>24. CASE ReleaseOrphan(t)
      BY <2>24 DEF ReleaseOrphan, OpenStep
    <2>25. CASE ReleaseFeed(t)
      BY <2>25 DEF ReleaseFeed, FeedStep, TimerStep, Feed
    <2>26. CASE ReleaseClear(t)
      BY <2>26 DEF ReleaseClear, OpenStep
    <2> QED BY <1>18, <2>1, <2>2, <2>3, <2>4, <2>5, <2>6, <2>7, <2>8, <2>9,
             <2>10, <2>11, <2>12, <2>13, <2>14, <2>15, <2>16, <2>17, <2>18,
             <2>19, <2>20, <2>21, <2>22, <2>23, <2>24, <2>25, <2>26 DEF Call
  <1>19. CASE UNCHANGED vars BY <1>19 DEF vars
  <1> QED BY <1>1, <1>2, <1>3, <1>4, <1>5, <1>6, <1>7, <1>8, <1>9, <1>10, <1>11,
           <1>12, <1>13, <1>14, <1>15, <1>16, <1>17, <1>18, <1>19 DEF Next,
           Insmod, Rmmod, Daemon

LEMMA TypeStep == TypeInv /\ [Next]_vars => TypeInv'
  BY FlagStep, BaseStep, RefStep DEF TypeInv

LEMMA TypeInit == Init => TypeInv
  <1> SUFFICES ASSUME Init PROVE TypeInv OBVIOUS
  <1> USE MarginFacts, WatchdogAssumption DEF Init, WatchdogAssumption
  <1>1. Flags BY DEF Flags
  <1>2. Numbers
    <2>1. Sleep \in Nat /\ AgeCap \in Nat BY SleepType DEF Sleep, AgeCap
    <2> QED BY <2>1 DEF Numbers
  <1>3. Names BY DEF Names, Places
  <1>4. DaemonInv /\ TimerInv BY DEF DaemonInv, TimerInv
  <1>5. RefInv BY DEF RefInv, Switching, Opening, Closing
  <1> QED BY <1>1, <1>2, <1>3, <1>4, <1>5 DEF TypeInv, BaseInv

LEMMA TypeAlways == SafeSpec => []TypeInv
  <1>1. Init => TypeInv BY TypeInit
  <1>2. TypeInv /\ [Next]_vars => TypeInv' BY TypeStep
  <1> QED BY <1>1, <1>2, PTL DEF SafeSpec

(* Types, for any number of threads: whatever default_margin and             *)
(* WDIOC_SETTIMEOUT ask for, the margin in force and the count loaded for it *)
(* are ones the register can hold, and __module_get is never undone twice.   *)
THEOREM TypeCorrect == SafeSpec => []TypeOK
  <1>1. TypeInv => TypeOK BY DEF TypeInv, BaseInv, TypeOK, Flags, Numbers, Names
  <1> QED BY <1>1, TypeAlways, PTL

(* For any number of threads: between calls the module is pinned by exactly  *)
(* one reference while the file is open or the timer orphaned, and by none   *)
(* otherwise.                                                                *)
THEOREM RefsCorrect == SafeSpec => []RefsBalanced
  <1>1. TypeInv => RefsBalanced
    <2> SUFFICES ASSUME TypeInv, Settled
                 PROVE refs = (IF file \/ orphan_timer THEN 1 ELSE 0)
      BY DEF RefsBalanced
    <2>1. \A t \in Threads : ~Switching(t)
      BY DEF Settled, At, Switching, Opening, Closing, Heartbeat
    <2>2. driver_open <=> file BY <2>1 DEF TypeInv, RefInv
    <2> QED BY <2>2 DEF TypeInv, RefInv
  <1> QED BY <1>1, TypeAlways, PTL

-----------------------------------------------------------------------------
(* The rest is about a process with one thread that opens the file when      *)
(* insmod has ended.                                                         *)

(* Nobody has the device while the module is not loaded *)
LoadInv ==
  mod # "loaded" => /\ ~driver_open /\ ~orphan_timer /\ ~down /\ ~file
                    /\ \A t \in Threads : pc[t] = "idle"

(* Where a call is about to change what the card does, and how far it got *)
CardInv ==
  /\ mod \in Loading => options /\ load = cur_margin * Hz
  /\ mod \in Loading \ {"start"} => ctrl
  /\ mod \notin Loading \cup {"loaded"} => ~ctrl
  /\ mod = "loaded" =>
       \A t \in Threads :
         /\ pc[t] = "s_options" => ctrl
         /\ pc[t] \in {"x_load", "x_options"} => ~ctrl
         /\ pc[t] \notin {"s_options", "x_load", "x_options"} => options = ctrl
         /\ \/ pc[t] \in {"s_options", "x_load", "x_options", "hb_margin", "hb_load"}
            \/ ~ctrl /\ pc[t] \notin {"hb_feed", "hb_wake"}
            \/ load = cur_margin * Hz
         /\ pc[t] = "hb_load" => arg[t] = cur_margin

(* Once the system goes down, only the notifier's hidog_stop runs *)
DownInv ==
  down => \A t \in Threads : /\ pc[t] \in {"idle", "x_ctrl", "x_load", "x_options"}
                             /\ pc[t] # "x_ctrl" => ~ctrl

(* The time since the owner's last feed shows in the counter *)
Counted == age <= (IF bitten THEN 2 * load
                   ELSE IF intp THEN 2 * load - value ELSE load - value)

(* The owner's watchdog: the daemon has been told not to feed, and what it   *)
(* was about to do when it was told counts for nothing.                      *)
OwnerInv ==
  /\ file \/ orphan_timer => hidog_state = "EXTCLR"
  /\ \A t \in Threads : pc[t] \in {"r_orphan", "r_feed"} => hidog_state = "EXTCLR"
  /\ hidog_state = "EXTCLR" /\ dpc = "feed" => age = 0
  /\ hidog_state = "EXTCLR" /\ ctrl => Counted \/ \E t \in Threads : pc[t] = "hb_feed"

SoleInv == LoadInv /\ CardInv /\ DownInv /\ OwnerInv

(* Every step keeps them. *)
LEMMA SoleStep ==
  ASSUME NEW self, Threads = {self}, ~EarlyOpen,
         TypeInv, SoleInv, [Next]_vars
  PROVE  SoleInv'
  <1> USE MarginFacts DEF SoleInv, timerVars, stateVars, openVars, sysVars,
          callVars, Runs, At, Goto, Loading
  <1>f. Flags /\ Numbers /\ Names /\ RefInv /\ value <= load
    BY DEF TypeInv, BaseInv, TimerInv
  <1> USE <1>f DEF Flags, Numbers, Names, RefInv, Switching, Opening, Closing,
       Pins,
          Heartbeat, LoadInv, CardInv, DownInv, OwnerInv, Counted, Places
  <1>1. ASSUME NEW p \in DefaultMargins, Load(p) PROVE SoleInv'
    <2> USE <1>1 DEF Load
    <2>1. default_margin' \in 1 .. MaxMargin
      BY WatchdogAssumption DEF InRange, WatchdogAssumption
    <2>2. load' = cur_margin' * Hz BY <2>1, CountType
    <2> QED BY <2>2
  <1>2. CASE LoadStart
    BY <1>2 DEF LoadStart, ModStep, SetCtrl
  <1>3. CASE LoadOptions
    BY <1>3 DEF LoadOptions, ModStep
  <1>4. CASE LoadState
    BY <1>4 DEF LoadState, ModStep
  <1>5. CASE LoadThread
    BY <1>5 DEF LoadThread, ModStep
  <1>6. CASE Unload
    BY <1>6 DEF Unload, ModStep
  <1>7. CASE UnloadStop
    BY <1>7 DEF UnloadStop, ModStep, SetTimeout
  <1>8. CASE UnloadState
    BY <1>8 DEF UnloadState, ModStep
  <1>9. CASE UnloadWake
    BY <1>9 DEF UnloadWake, ModStep, Wake
  <1>10. CASE UnloadJoin
    BY <1>10 DEF UnloadJoin, ModStep
  <1>11. CASE DaemonWhile
    BY <1>11 DEF DaemonWhile, DaemonStep
  <1>12. CASE DaemonSwitch
    BY <1>12 DEF DaemonSwitch, DaemonStep
  <1>13. CASE DaemonFeed
    BY <1>13 DEF DaemonFeed, DaemonStep, Feed
  <1>14. CASE DaemonNap
    BY <1>14 DEF DaemonNap, DaemonStep
  <1>15. CASE DaemonExpire
    BY <1>15 DEF DaemonExpire, DaemonStep
  <1>16. CASE Tick
    BY <1>16 DEF Tick, TimePasses
  <1>17. CASE Boot
    BY <1>17 DEF Boot
  <1>18. ASSUME NEW t \in Threads, Call(t) PROVE SoleInv'
    <2>1. CASE Open(t)
      BY <2>1 DEF Open, OpenStep
    <2>2. CASE OpenRef(t)
      BY <2>2 DEF OpenRef, OpenStep
    <2>3. CASE OpenFeed(t)
      BY <2>3 DEF OpenFeed, FeedStep, TimerStep, Feed
    <2>4. CASE OpenState(t)
      BY <2>4 DEF OpenState, StateStep
    <2>5. CASE Write(t)
      BY <2>5 DEF Write, Begun, Begin, StateStep
    <2>6. ASSUME NEW v \in Writes, WriteScan(t, v) PROVE SoleInv'
      BY ZenonT(60), <2>6 DEF WriteScan, StateStep
    <2>7. CASE IoctlKeepAlive(t)
      BY <2>7 DEF IoctlKeepAlive, Begun, Begin, OnlyCall
    <2>8. CASE KeepAlive(t)
      BY <2>8 DEF KeepAlive, FeedStep, TimerStep, Feed
    <2>9. ASSUME NEW m \in Margins, IoctlSetTimeout(t, m) PROVE SoleInv'
      BY <2>9 DEF IoctlSetTimeout, CallHeartbeat, Begun, Begin, OnlyCall
    <2>10. CASE HbMargin(t)
      BY <2>10 DEF HbMargin
    <2>11. CASE HbLoad(t)
      <3> USE <2>11 DEF HbLoad, TimerStep, SetTimeout
      <3>1. arg[t] \in 1 .. MaxMargin BY DEF TypeInv, BaseInv, TimerInv
      <3>2. load' = arg[t] * Hz BY <3>1, CountType
      <3> QED BY <3>2
    <2>12. CASE HbFeed(t)
      BY <2>12 DEF HbFeed, FeedStep, TimerStep, Feed
    <2>13. CASE HbWake(t)
      BY <2>13 DEF HbWake, Wake
    <2>14. ASSUME NEW on \in BOOLEAN, IoctlSetOptions(t, on) PROVE SoleInv'
      BY <2>14 DEF IoctlSetOptions, Begun, Begin, OnlyCall
    <2>15. CASE StartCtrl(t)
      BY <2>15 DEF StartCtrl, TimerStep, SetCtrl
    <2>16. CASE StartOptions(t)
      BY <2>16 DEF StartOptions, StateStep, CallHeartbeat
    <2>17. CASE StopCtrl(t)
      BY <2>17 DEF StopCtrl, TimerStep, SetCtrl
    <2>18. CASE StopLoad(t)
      BY <2>18 DEF StopLoad, TimerStep, SetTimeout
    <2>19. CASE StopOptions(t)
      BY <2>19 DEF StopOptions, StateStep
    <2>20. CASE NotifierSys(t)
      BY <2>20 DEF NotifierSys, Begin
    <2>21. CASE Release(t)
      BY <2>21 DEF Release, Begun, Begin, OnlyCall
    <2>22. CASE ReleaseState(t)
      BY <2>22 DEF ReleaseState, StateStep, CallHeartbeat
    <2>23. CASE ReleasePut(t)
      BY <2>23 DEF ReleasePut, OpenStep
    <2>24. CASE ReleaseOrphan(t)
      BY <2>24 DEF ReleaseOrphan, OpenStep
    <2>25. CASE ReleaseFeed(t)
      BY <2>25 DEF ReleaseFeed, FeedStep, TimerStep, Feed
    <2>26. CASE ReleaseClear(t)
      BY <2>26 DEF ReleaseClear, OpenStep
    <2> QED BY <1>18, <2>1, <2>2, <2>3, <2>4, <2>5, <2>6, <2>7, <2>8, <2>9,
             <2>10, <2>11, <2>12, <2>13, <2>14, <2>15, <2>16, <2>17, <2>18,
             <2>19, <2>20, <2>21, <2>22, <2>23, <2>24, <2>25, <2>26 DEF Call
  <1>19. CASE UNCHANGED vars BY <1>19 DEF vars
  <1> QED BY <1>1, <1>2, <1>3, <1>4, <1>5, <1>6, <1>7, <1>8, <1>9, <1>10, <1>11,
           <1>12, <1>13, <1>14, <1>15, <1>16, <1>17, <1>18, <1>19 DEF Next,
           Insmod, Rmmod, Daemon

LEMMA SoleInit == Init => SoleInv
  BY DEF Init, SoleInv, LoadInv, CardInv, DownInv, OwnerInv, Loading

LEMMA SoleAlways ==
  ASSUME NEW self, Threads = {self}, ~EarlyOpen
  PROVE  SafeSpec => [](TypeInv /\ SoleInv)
  <1>1. Init => SoleInv BY SoleInit
  <1>2. TypeInv /\ SoleInv /\ [Next]_vars => SoleInv' BY SoleStep
  <1> QED BY <1>1, <1>2, TypeAlways, PTL DEF SafeSpec

(* With one thread: between calls WDIOC_GETSTATUS and WDIOC_GETTIMEOUT       *)
(* report what the timer really does.                                        *)
THEOREM CardCorrect ==
  ASSUME NEW self, Threads = {self}, ~EarlyOpen
  PROVE  SafeSpec => []CardAsReported
  <1>1. TypeInv /\ SoleInv => CardAsReported
    BY DEF SoleInv, CardInv, CardAsReported, Settled, At
  <1> QED BY <1>1, SoleAlways, PTL

(* With one thread: between calls the module's reference is right, and a     *)
(* system that was shut down has its watchdog off.                           *)
THEOREM SettledCorrect ==
  ASSUME NEW self, Threads = {self}, ~EarlyOpen
  PROVE  SafeSpec => []SettledInv
  <1>1. TypeInv /\ SoleInv => DownMeansOff
    BY DEF SoleInv, DownInv, DownMeansOff, Settled, At
  <1>2. RefsBalanced /\ DownMeansOff => SettledInv BY DEF SettledInv
  <1> QED BY <1>1, <1>2, SoleAlways, RefsCorrect, PTL

(* With one thread: an enabled watchdog that belongs to the process which    *)
(* opened it, or which left it orphaned, is never without that process's     *)
(* feed for more than two margins, because the daemon no longer feeds it.    *)
THEOREM OwnerCorrect ==
  ASSUME NEW self, Threads = {self}, ~EarlyOpen
  PROVE  SafeSpec => []OwnerMustFeed
  <1>1. TypeInv /\ SoleInv => OwnerMustFeed
    <2> SUFFICES ASSUME TypeInv, SoleInv, Settled, file \/ orphan_timer, ctrl
                 PROVE  age <= 2 * cur_margin * Hz
      BY DEF OwnerMustFeed
    <2>1. load = cur_margin * Hz BY DEF SoleInv, CardInv, Settled, At
    <2>2. Counted BY DEF SoleInv, OwnerInv, Settled, At
    <2>3. age \in Nat /\ value \in Nat /\ load \in Nat /\ age <= 2 * load
      BY <2>2, MarginFacts DEF Counted, TypeInv, BaseInv, Numbers
    <2>4. cur_margin \in Nat /\ Hz \in Nat
      BY MarginFacts DEF TypeInv, BaseInv, Numbers
    <2> QED BY <2>1, <2>3, <2>4
  <1> QED BY <1>1, SoleAlways, PTL

-----------------------------------------------------------------------------
(* The margins insmod and hidog_set_heartbeat can set, and the condition     *)
(* under which the daemon's sleep, which follows default_margin alone, is    *)
(* short enough for each of them.  Where a process asks for less than about  *)
(* a quarter of default_margin the condition fails.                          *)
Defaults == {d \in DefaultMargins : InRange(d)} \cup {HIDOG_TIMER_MARGIN}
Requested == Defaults \cup {m \in Margins : InRange(m)} \cup {MaxMargin}

InTime == \A d \in Defaults, m \in Requested :
            (d * Hz) \div 2 + 1 < 2 * (m * Hz)

MarginInv ==
  /\ default_margin \in Defaults /\ cur_margin \in Requested
  /\ \A t \in Threads : pc[t] = "hb_margin" => arg[t] \in Margins \cup Requested

(* The ticks an enabled watchdog has left, and that the daemon will have     *)
(* woken up before they are over                                             *)
Left == IF intp THEN value ELSE value + load

Guarded == /\ dpc = "sleep" => dtimer < Left
           /\ dpc = "nap" => Sleep < Left

Charge == ~driver_open /\ ~orphan_timer

(* hidog_release has woken the daemon; it has at least put it in charge *)
HandedBack(t) == pc[t] = "r_put" \/ (pc[t] = "r_clear" /\ ~orphan_timer)
HandedOver(t) == (pc[t] \in Heartbeat /\ cont[t] = "r_put") \/ HandedBack(t)

(* A call other than open, close and the notifier is made on the open file *)
FileInv ==
  \A t \in Threads :
    \/ pc[t] \in {"feed", "w_scan", "s_ctrl", "s_options"}
    \/ pc[t] \in Heartbeat /\ cont[t] # "r_put"
    => file

(* The daemon is there and in charge while nobody has the device *)
StateInv ==
  /\ mod = "thread" => hidog_state = "SELFCLR"
  /\ mod = "loaded" => dpc \notin {"none", "done"} /\ hidog_state # "EXIT"
  /\ mod = "loaded" /\ Charge => hidog_state = "SELFCLR"
  /\ \A t \in Threads : HandedOver(t) => hidog_state = "SELFCLR"

(* and it feeds in time, from the moment hidog_release has woken it. *)
GuardInv ==
  /\ mod \in Loading => value = load /\ ~intp
  /\ mod = "loaded" /\ Charge /\ ctrl => Guarded
  /\ \A t \in Threads : HandedBack(t) /\ ctrl => Guarded
  /\ \A t \in Threads :
       pc[t] = "hb_wake" /\ cont[t] = "r_put" /\ ctrl /\ dpc = "nap" => Sleep < Left

AliveInv == MarginInv /\ FileInv /\ StateInv /\ GuardInv

(* In time for the margin in force *)
LEMMA SleepInTime == InTime /\ MarginInv => Sleep < 2 * (cur_margin * Hz)
  BY DEF InTime, MarginInv, Sleep

(* hidog_set_heartbeat sets a margin that was asked for, or the largest. *)
LEMMA MarginRequested ==
  ASSUME MarginInv, NEW m \in Margins \cup Requested
  PROVE  Margin(m) \in Requested
  BY DEF MarginInv, Margin, Requested

(* The daemon's sleep and the counter run down together. *)
LEMMA TickGuarded ==
  ASSUME Flags, Numbers, Names, Tick, Guarded, ctrl, dpc \notin {"none", "done"}
  PROVE  Guarded' /\ ~bitten'
  <1>1. dpc = "sleep" /\ dtimer > 0 /\ dtimer' = dtimer - 1 /\ dpc' = "sleep"
    BY DEF Tick, TimePasses
  <1>2. dtimer \in Int /\ value \in Nat /\ load \in Nat /\ load' = load
    BY MarginFacts, <1>1 DEF Numbers, Tick
  <1>3. /\ value' = IF value > 1 THEN value - 1 ELSE load
        /\ intp' <=> (intp \/ value <= 1)
        /\ bitten' <=> (value <= 1 /\ intp)
    BY DEF Tick
  <1>4. dtimer < Left BY <1>1 DEF Guarded
  <1>5. ~(value <= 1 /\ intp) BY <1>1, <1>2, <1>4 DEF Left
  <1>6. dtimer' < Left'
    <2>1. CASE intp BY <2>1, <1>1, <1>2, <1>3, <1>4, <1>5 DEF Left
    <2>2. CASE ~intp /\ value > 1
      <3>1. ~intp' /\ value' = value - 1 BY <2>2, <1>2, <1>3
      <3> QED BY <3>1, <2>2, <1>1, <1>2, <1>4 DEF Left
    <2>3. CASE ~intp /\ ~(value > 1)
      <3>1. intp' /\ value' = load BY <2>3, <1>2, <1>3
      <3> QED BY <3>1, <2>3, <1>1, <1>2, <1>4 DEF Left
    <2> QED BY <2>1, <2>2, <2>3
  <1> QED BY <1>1, <1>3, <1>5, <1>6 DEF Guarded

(* Every step keeps the daemon in time. *)
LEMMA AliveStep ==
  ASSUME NEW self, Threads = {self}, ~EarlyOpen, ~Nodeamon, InTime,
         TypeInv, SoleInv, AliveInv, [Next]_vars
  PROVE  AliveInv'
  <1> USE MarginFacts DEF AliveInv, timerVars, stateVars, openVars, sysVars,
          callVars, Runs, At, Goto, Loading
  <1>f. Flags /\ Numbers /\ Names /\ RefInv /\ DaemonInv /\ value <= load
    BY DEF TypeInv, BaseInv, TimerInv
  <1>l. LoadInv /\ CardInv BY DEF SoleInv
  <1>s. Sleep \in Nat /\ Sleep < 2 * (cur_margin * Hz)
    BY SleepType, SleepInTime, <1>f DEF Sleep, Numbers
  <1>d. default_margin' = default_margin => Sleep' = Sleep BY DEF Sleep
  <1> USE <1>f, <1>l, <1>s, <1>d
      DEF MarginInv, FileInv, StateInv, GuardInv, Charge, HandedOver,
           HandedBack,
          Guarded, Left, Flags, Numbers, Names, Places, LoadInv, CardInv, RefInv,
          DaemonInv, Switching, Opening, Closing, Pins, Heartbeat
  <1>1. ASSUME NEW p \in DefaultMargins, Load(p) PROVE AliveInv'
    <2> USE <1>1 DEF Load
    <2>1. default_margin' \in Defaults /\ cur_margin' \in Requested
      BY DEF Defaults, Requested
    <2> QED BY <2>1
  <1>2. CASE LoadStart
    BY <1>2 DEF LoadStart, ModStep, SetCtrl
  <1>3. CASE LoadOptions
    BY <1>3 DEF LoadOptions, ModStep
  <1>4. CASE LoadState
    BY <1>4 DEF LoadState, ModStep
  <1>5. CASE LoadThread
    BY <1>5 DEF LoadThread, ModStep
  <1>6. CASE Unload
    BY <1>6 DEF Unload, ModStep
  <1>7. CASE UnloadStop
    BY <1>7 DEF UnloadStop, ModStep, SetTimeout
  <1>8. CASE UnloadState
    BY <1>8 DEF UnloadState, ModStep
  <1>9. CASE UnloadWake
    BY <1>9 DEF UnloadWake, ModStep, Wake
  <1>10. CASE UnloadJoin
    BY <1>10 DEF UnloadJoin, ModStep
  <1>11. CASE DaemonWhile
    BY <1>11 DEF DaemonWhile, DaemonStep
  <1>12. CASE DaemonSwitch
    BY <1>12 DEF DaemonSwitch, DaemonStep
  <1>13. CASE DaemonFeed
    BY <1>13 DEF DaemonFeed, DaemonStep, Feed
  <1>14. CASE DaemonNap
    BY <1>14 DEF DaemonNap, DaemonStep
  <1>15. CASE DaemonExpire
    BY <1>15 DEF DaemonExpire, DaemonStep
  <1>16. CASE Tick
    <2> USE <1>16 DEF Tick, TimePasses
    <2>1. ctrl /\ Guarded /\ dpc \notin {"none", "done"} => Guarded'
      BY TickGuarded, <1>16
    <2>2. /\ HandedBack(self)' = HandedBack(self) /\ Charge' = Charge
          /\ mod = "loaded" => dpc \notin {"none", "done"}
          /\ HandedBack(self) => mod = "loaded" /\ ~Charge
          /\ mod \notin Loading /\ dpc # "nap"
      OBVIOUS
    <2>3. MarginInv' /\ FileInv' /\ StateInv' OBVIOUS
    <2>4. GuardInv'
      <3>1. UNCHANGED <<mod, dpc, ctrl, pc, cont>> OBVIOUS
      <3> HIDE <1>16 DEF Tick, Guarded, HandedBack, Charge
      <3> QED BY <2>1, <2>2, <3>1
    <2> QED BY <2>3, <2>4
  <1>17. CASE Boot
    <2> USE <1>17 DEF Boot
    <2>1. default_margin' \in Defaults /\ cur_margin' \in Requested
      BY DEF Defaults, Requested
    <2> QED BY <2>1
  <1>18. ASSUME NEW t \in Threads, Call(t) PROVE AliveInv'
    <2>1. CASE Open(t)
      BY <2>1 DEF Open, OpenStep
    <2>2. CASE OpenRef(t)
      BY <2>2 DEF OpenRef, OpenStep
    <2>3. CASE OpenFeed(t)
      BY <2>3 DEF OpenFeed, FeedStep, TimerStep, Feed
    <2>4. CASE OpenState(t)
      BY <2>4 DEF OpenState, StateStep
    <2>5. CASE Write(t)
      BY <2>5 DEF Write, Begun, Begin, StateStep
    <2>6. ASSUME NEW v \in Writes, WriteScan(t, v) PROVE AliveInv'
      BY ZenonT(60), <2>6 DEF WriteScan, StateStep
    <2>7. CASE IoctlKeepAlive(t)
      BY <2>7 DEF IoctlKeepAlive, Begun, Begin, OnlyCall
    <2>8. CASE KeepAlive(t)
      BY <2>8 DEF KeepAlive, FeedStep, TimerStep, Feed
    <2>9. ASSUME NEW m \in Margins, IoctlSetTimeout(t, m) PROVE AliveInv'
      BY <2>9 DEF IoctlSetTimeout, CallHeartbeat, Begun, Begin, OnlyCall
    <2>10. CASE HbMargin(t)
      <3> USE <2>10 DEF HbMargin
      <3>1. Margin(arg[t]) \in Requested BY MarginRequested
      <3> QED BY <3>1
    <2>11. CASE HbLoad(t)
      BY <2>11 DEF HbLoad, TimerStep, SetTimeout
    <2>12. CASE HbFeed(t)
      BY <2>12 DEF HbFeed, FeedStep, TimerStep, Feed
    <2>13. CASE HbWake(t)
      BY <2>13 DEF HbWake, Wake
    <2>14. ASSUME NEW on \in BOOLEAN, IoctlSetOptions(t, on) PROVE AliveInv'
      BY <2>14 DEF IoctlSetOptions, Begun, Begin, OnlyCall
    <2>15. CASE StartCtrl(t)
      BY <2>15 DEF StartCtrl, TimerStep, SetCtrl
    <2>16. CASE StartOptions(t)
      BY <2>16 DEF StartOptions, StateStep, CallHeartbeat
    <2>17. CASE StopCtrl(t)
      BY <2>17 DEF StopCtrl, TimerStep, SetCtrl
    <2>18. CASE StopLoad(t)
      BY <2>18 DEF StopLoad, TimerStep, SetTimeout
    <2>19. CASE StopOptions(t)
      BY <2>19 DEF StopOptions, StateStep
    <2>20. CASE NotifierSys(t)
      BY <2>20 DEF NotifierSys, Begin
    <2>21. CASE Release(t)
      BY <2>21 DEF Release, Begun, Begin, OnlyCall
    <2>22. CASE ReleaseState(t)
      BY <2>22 DEF ReleaseState, StateStep, CallHeartbeat
    <2>23. CASE ReleasePut(t)
      BY <2>23 DEF ReleasePut, OpenStep
    <2>24. CASE ReleaseOrphan(t)
      BY <2>24 DEF ReleaseOrphan, OpenStep
    <2>25. CASE ReleaseFeed(t)
      BY <2>25 DEF ReleaseFeed, FeedStep, TimerStep, Feed
    <2>26. CASE ReleaseClear(t)
      BY ZenonT(60), <2>26 DEF ReleaseClear, OpenStep
    <2> QED BY <1>18, <2>1, <2>2, <2>3, <2>4, <2>5, <2>6, <2>7, <2>8, <2>9,
             <2>10, <2>11, <2>12, <2>13, <2>14, <2>15, <2>16, <2>17, <2>18,
             <2>19, <2>20, <2>21, <2>22, <2>23, <2>24, <2>25, <2>26 DEF Call
  <1>19. CASE UNCHANGED vars BY <1>19 DEF vars, Sleep
  <1> QED BY <1>1, <1>2, <1>3, <1>4, <1>5, <1>6, <1>7, <1>8, <1>9, <1>10, <1>11,
           <1>12, <1>13, <1>14, <1>15, <1>16, <1>17, <1>18, <1>19 DEF Next,
           Insmod, Rmmod, Daemon

LEMMA AliveInit == Init => AliveInv
  BY DEF Init, AliveInv, MarginInv, FileInv, StateInv, GuardInv, Defaults,
       Requested,
     HandedOver, HandedBack, Heartbeat, Loading

(* Only the hardware resets the system. *)
LEMMA BiteIsTick == ASSUME [Next]_vars, ~bitten, bitten' PROVE Tick
  <1> USE DEF timerVars
  <1>1. ASSUME NEW t \in Threads, Call(t) PROVE bitten' = bitten
    BY <1>1 DEF Call, Open, OpenRef, OpenFeed, OpenState, Write, WriteScan,
       IoctlKeepAlive, KeepAlive, IoctlSetTimeout, HbMargin, HbLoad, HbFeed, HbWake,
       IoctlSetOptions, StartCtrl, StartOptions, StopCtrl, StopLoad, StopOptions,
       NotifierSys, Release, ReleaseState, ReleasePut, ReleaseOrphan, ReleaseFeed,
       ReleaseClear, OpenStep, StateStep, TimerStep, FeedStep, OnlyCall, Feed,
       SetTimeout, SetCtrl
  <1>2. ASSUME Insmod PROVE bitten' = bitten
    BY <1>2 DEF Insmod, Load, LoadStart, LoadOptions, LoadState, LoadThread,
         SetCtrl
  <1>3. ASSUME Rmmod PROVE bitten' = bitten
    BY <1>3 DEF Rmmod, Unload, UnloadStop, UnloadState, UnloadWake, UnloadJoin,
       SetTimeout
  <1>4. ASSUME Daemon PROVE bitten' = bitten
    BY <1>4 DEF Daemon, DaemonWhile, DaemonSwitch, DaemonFeed, DaemonNap,
       DaemonExpire, Feed
  <1>5. ASSUME Boot PROVE bitten' = FALSE BY <1>5 DEF Boot
  <1>6. ASSUME UNCHANGED vars PROVE bitten' = bitten BY <1>6 DEF vars
  <1> QED BY <1>1, <1>2, <1>3, <1>4, <1>5, <1>6 DEF Next

(* With one thread and the daemon, when every margin asked for leaves it     *)
(* time: a reset happens only while the file is open or after it was closed  *)
(* with nowayout set.                                                        *)
THEOREM IdleSafe ==
  ASSUME NEW self, Threads = {self}, ~EarlyOpen, ~Nodeamon, InTime
  PROVE  SafeSpec => IdleNeverResets
  <1>1. Init => AliveInv BY AliveInit
  <1>2. TypeInv /\ SoleInv /\ AliveInv /\ [Next]_vars => AliveInv' BY AliveStep
  <1>3. ASSUME TypeInv, SoleInv, AliveInv, [Next]_vars
        PROVE  [bitten' /\ ~bitten => driver_open \/ orphan_timer]_vars
    <2> SUFFICES ASSUME bitten', ~bitten, Charge PROVE FALSE BY DEF Charge
    <2>1. Tick BY <1>3, BiteIsTick
    <2>2. ctrl BY <2>1 DEF Tick
    <2>3. mod = "loaded"
      BY <1>3, <2>1, <2>2 DEF Tick, TimePasses, SoleInv, CardInv, Loading
    <2>4. Guarded /\ dpc \notin {"none", "done"}
      BY <1>3, <2>2, <2>3 DEF AliveInv, GuardInv, StateInv
    <2> QED BY <1>3, <2>1, <2>2, <2>4, TickGuarded DEF TypeInv, BaseInv
  <1> QED BY <1>1, <1>2, <1>3, SoleAlways, PTL DEF SafeSpec, IdleNeverResets
=============================================================================
