-------------------------------- MODULE HiIr --------------------------------
(***************************************************************************)
(* The infrared receiver driver hisi-irda/hiir.c: the ring of key events   *)
(* filled by hiir_interrupt and emptied by hiir_read, the repeat timer,    *)
(* IR_IOC_SET_BUF, and the exclusive open.                                 *)
(*                                                                         *)
(* The interrupt routine and the timer handler run to their end between    *)
(* two steps of a thread.  Nothing locks the ring: each access of a thread *)
(* to it is a step.  A key event is a key with its state; the codes of     *)
(* IR_DATAH and IR_DATAL are one value, the parameters of the receiver     *)
(* (dev_parm) are left out.                                                *)
(***************************************************************************)
EXTENDS Integers, Sequences, FiniteSets

CONSTANTS
  Threads,
  Shared,          \* the threads share one open file
  Keys,            \* key codes of the remote control
  Zero,            \* the code in a ring entry never written
  None,            \* no key, no event
  HI_IR_MAX_BUF,   \* the largest argument of IR_IOC_SET_BUF (100)
  DEFAULT_BUF_LEN, \* 8 in the build
  BufArgs,         \* arguments of IR_IOC_SET_BUF
  Keyups, Repkeys, \* values set with ENABLE_KEYUP and ENABLE_REPKEY
  MaxRead,         \* bound: events a read has room for
  PromptIrq,       \* interrupts are served before anything else happens
  SlowReader,      \* keys keep coming when the ring is full
  MaxUnread        \* bound: events waiting for a slow reader

ASSUME IrAssumption ==
  /\ IsFiniteSet(Threads)
  /\ Zero \notin Keys
  /\ None \notin Keys \cup [key : Keys \cup {Zero}, up : BOOLEAN]
  /\ HI_IR_MAX_BUF \in Nat \ {0}
  /\ DEFAULT_BUF_LEN \in 2 .. HI_IR_MAX_BUF + 1
  /\ BufArgs \subseteq Nat
  /\ {Shared, PromptIrq, SlowReader} \subseteq BOOLEAN
  /\ Keyups \subseteq BOOLEAN /\ Repkeys \subseteq BOOLEAN
  /\ MaxRead \in Nat /\ MaxUnread \in Nat

VARIABLES
  (* hiir_dev *)
  head, tail, buf, buf_len, enable_repkey, repkey_checkflag, enable_keyup,
  irkey_wait,      \* the wait queue: threads to be woken
  timer,           \* repkey_timeout_timer is pending
  hiir_s_available,
  (* the receiver: IR_ENABLE, IR_INTS, the data registers, the key held down *)
  enabled, ints, data, held,
  (* each thread: place, file open, events it has room for, event copied *)
  pc, has, room, got,
  (* history: events not yet read, the event stored last *)
  unread, last

ringVars == <<head, tail, buf, buf_len, irkey_wait>>
optVars  == <<enable_repkey, repkey_checkflag, enable_keyup, timer>>
irVars   == <<enabled, ints, data, held>>
locVars  == <<room, got>>
histVars == <<unread, last>>
vars == <<ringVars, optVars, hiir_s_available, irVars, pc, has, locVars, histVars>>

Slots == 0 .. HI_IR_MAX_BUF

Event(k, isUp) == [key |-> k, up |-> isUp]

Events == [key : Keys \cup {Zero}, up : BOOLEAN]

(* INC_BUF.  The build may store ++x before the remainder; an interrupt that *)
(* comes in between does not read the tail, and no thread runs inside one.   *)
IncBuf(x, len) == (x + 1) % len

(* A wrong variant: behind the start of the ring comes entry buf_len *)
BugBufLast == buf[IF head = 0 THEN buf_len ELSE head - 1]

(* BUF_LAST *)
BufLast == buf[IF head = 0 THEN buf_len - 1 ELSE head - 1]

Init ==
  /\ head = 0 /\ tail = 0 /\ buf_len = 0
  /\ buf = [s \in Slots |-> Event(Zero, FALSE)]
  /\ enable_repkey = FALSE /\ repkey_checkflag = FALSE /\ enable_keyup = FALSE
  /\ timer = FALSE /\ irkey_wait = {}
  /\ hiir_s_available = 1
  /\ enabled = FALSE /\ ints = {} /\ data = Zero /\ held = None
  /\ pc = [t \in Threads |-> "idle"] /\ has = [t \in Threads |-> FALSE]
  /\ room = [t \in Threads |-> 0]
  /\ got = [t \in Threads |-> Event(Zero, FALSE)]
  /\ unread = <<>> /\ last = None

-----------------------------------------------------------------------------
(* The receiver (external).  With a reader that keeps up, the remote control *)
(* is used while the ring has room for what is pending.                      *)
Pending == IF ints \cap {"RCV", "RELEASE"} = {"RCV", "RELEASE"} THEN 2
           ELSE IF ints \cap {"RCV", "RELEASE"} = {} THEN 0 ELSE 1

(* The lengths the ring may have *)
RingLens == {DEFAULT_BUF_LEN} \cup {a + 1 : a \in BufArgs \cap 1 .. HI_IR_MAX_BUF}

MayReceive ==
  /\ enabled
  /\ PromptIrq => ints = {}
  /\ \A n \in RingLens :
       Len(unread) + Pending + 1 < (IF SlowReader THEN MaxUnread ELSE n)

(* A frame of key k; a second one before the first is taken is an overflow *)
Frame(k) ==
  /\ MayReceive
  /\ held \in {None, k}
  /\ held' = k
  /\ ints' = ints \cup {IF "RCV" \in ints THEN "OVERFLOW" ELSE "RCV"}
  /\ data' = IF "RCV" \in ints THEN data ELSE k
  /\ UNCHANGED <<ringVars, optVars, hiir_s_available, enabled, pc, has, locVars,
                 histVars>>

(* The key is let go *)
KeyRelease ==
  /\ MayReceive
  /\ held # None
  /\ held' = None
  /\ ints' = ints \cup {"RELEASE"}
  /\ UNCHANGED <<ringVars, optVars, hiir_s_available, enabled, data, pc, has,
                 locVars, histVars>>

FrameError ==
  /\ enabled /\ (PromptIrq => ints = {})
  /\ ints' = ints \cup {"FRAMERR"}
  /\ UNCHANGED <<ringVars, optVars, hiir_s_available, enabled, data, held, pc,
                 has, locVars, histVars>>

-----------------------------------------------------------------------------
(* A wrong variant: nobody is woken *)
BugPush(e) ==
  /\ buf' = [buf EXCEPT ![head] = e]
  /\ head' = IncBuf(head, buf_len)
  /\ unread' = Append(unread, e) /\ last' = e
  /\ UNCHANGED <<tail, buf_len, irkey_wait>>

(* BUF_HEAD = e; head = INC_BUF(head); wake_up_interruptible takes every     *)
(* thread out of the wait queue.  Whether the ring is full is not looked at. *)
Push(e) ==
  /\ buf' = [buf EXCEPT ![head] = e]
  /\ head' = IncBuf(head, buf_len)
  /\ irkey_wait' = {}
  /\ unread' = Append(unread, e) /\ last' = e
  /\ UNCHANGED <<tail, buf_len>>

NoPush == UNCHANGED <<ringVars, histVars>>

(* hiir_interrupt handles one cause, in this order: frame error, overflow,   *)
(* release, receive.                                                         *)
Cause(b) ==
  /\ b \in ints
  /\ CASE b = "FRAMERR"  -> TRUE
       [] b = "OVERFLOW" -> "FRAMERR" \notin ints
       [] b = "RELEASE"  -> ints \cap {"FRAMERR", "OVERFLOW"} = {}
       [] b = "RCV"      -> ints = {"RCV"}
  /\ ints' = ints \ {b}
  /\ UNCHANGED <<hiir_s_available, enabled, data, held, pc, has, locVars>>

IsrError ==
  /\ Cause("FRAMERR") \/ Cause("OVERFLOW")
  /\ NoPush /\ UNCHANGED optVars

(* The last event is stored again as HIIR_KEY_UP, unless it is one *)
IsrRelease ==
  /\ Cause("RELEASE")
  /\ timer' = FALSE /\ repkey_checkflag' = FALSE
  /\ IF enable_keyup /\ ~BufLast.up THEN Push(Event(BufLast.key, TRUE)) ELSE NoPush
  /\ UNCHANGED <<enable_repkey, enable_keyup>>

(* A repeated key: within the delay time, or until it is released *)
Repeated == IF enable_repkey THEN repkey_checkflag /\ BufLast.key = data
                             ELSE BufLast = Event(data, FALSE)

IsrReceive ==
  /\ Cause("RCV")
  /\ IF Repeated THEN NoPush /\ UNCHANGED optVars
     ELSE /\ Push(Event(data, FALSE))
          /\ timer' = (enable_repkey \/ timer)
          /\ repkey_checkflag' = (enable_repkey \/ repkey_checkflag)
          /\ UNCHANGED <<enable_repkey, enable_keyup>>

(* repkey_timeout_handler *)
RepkeyTimeout ==
  /\ timer
  /\ timer' = FALSE /\ repkey_checkflag' = FALSE
  /\ UNCHANGED <<ringVars, enable_repkey, enable_keyup, hiir_s_available, irVars,
                 pc, has, locVars, histVars>>

-----------------------------------------------------------------------------
(* A thread takes a step; an interrupt that is served at once goes first *)
At(t, place) == pc[t] = place /\ (PromptIrq => ints = {})

Goto(t, place) == pc' = [pc EXCEPT ![t] = place]

(* A step that changes only the thread's place *)
Move(t, here, next) ==
  /\ At(t, here) /\ Goto(t, next)
  /\ UNCHANGED <<ringVars, optVars, hiir_s_available, irVars, has, locVars,
                 histVars>>

(* hiir_open: atomic_dec_and_test *)
Open(t) ==
  /\ At(t, "idle") /\ ~has[t]
  /\ hiir_s_available' = hiir_s_available - 1
  /\ Goto(t, IF hiir_s_available = 1 THEN "o_head" ELSE "o_busy")
  /\ UNCHANGED <<ringVars, optVars, irVars, has, locVars, histVars>>

(* A wrong variant: the count of a refused open is not put back *)
BugOpenBusy(t) == Move(t, "o_busy", "idle")

(* "device already open" *)
OpenBusy(t) ==
  /\ At(t, "o_busy")
  /\ hiir_s_available' = hiir_s_available + 1
  /\ Goto(t, "idle")
  /\ UNCHANGED <<ringVars, optVars, irVars, has, locVars, histVars>>

OpenHead(t) ==
  /\ At(t, "o_head")
  /\ timer' = FALSE
  /\ head' = 0
  /\ unread' = <<>> /\ last' = None
  /\ Goto(t, "o_rest")
  /\ UNCHANGED <<tail, buf, buf_len, irkey_wait, enable_repkey, repkey_checkflag,
                 enable_keyup, hiir_s_available, irVars, has, locVars>>

(* The rest of hiir_dev, and hiir_config *)
OpenRest(t) ==
  /\ At(t, "o_rest")
  /\ tail' = 0 /\ buf_len' = DEFAULT_BUF_LEN /\ irkey_wait' = {}
  /\ enable_repkey' = TRUE /\ repkey_checkflag' = FALSE /\ enable_keyup' = TRUE
  /\ enabled' = TRUE
  /\ has' = [u \in Threads |-> Shared \/ u = t]
  /\ Goto(t, "idle")
  /\ UNCHANGED <<head, buf, timer, hiir_s_available, ints, data, held, locVars,
                 histVars>>

(* hiir_release, at the last close; a receiver switched off forgets the key *)
Release(t) ==
  /\ At(t, "idle") /\ has[t]
  /\ \A u \in Threads : has[u] => pc[u] = "idle"
  /\ has' = [u \in Threads |-> FALSE]
  /\ timer' = FALSE
  /\ enabled' = FALSE /\ held' = None
  /\ Goto(t, "c_inc")
  /\ UNCHANGED <<ringVars, enable_repkey, repkey_checkflag, enable_keyup,
                 hiir_s_available, ints, data, locVars, histVars>>

ReleaseInc(t) ==
  /\ At(t, "c_inc")
  /\ hiir_s_available' = hiir_s_available + 1
  /\ Goto(t, "idle")
  /\ UNCHANGED <<ringVars, optVars, irVars, has, locVars, histVars>>

(* IR_IOC_SET_ENABLE_KEYUP and IR_IOC_SET_ENABLE_REPKEY *)
SetEnableKeyup(t, b) ==
  /\ At(t, "idle") /\ has[t]
  /\ enable_keyup' = b
  /\ UNCHANGED <<ringVars, enable_repkey, repkey_checkflag, timer,
                 hiir_s_available, irVars, pc, has, locVars, histVars>>

SetEnableRepkey(t, b) ==
  /\ At(t, "idle") /\ has[t]
  /\ enable_repkey' = b
  /\ UNCHANGED <<ringVars, enable_keyup, repkey_checkflag, timer,
                 hiir_s_available, irVars, pc, has, locVars, histVars>>

(* A wrong variant: the bound of the argument is taken for the length *)
BugSetBuf(t, a) ==
  /\ At(t, "idle") /\ has[t]
  /\ 0 < a /\ a <= HI_IR_MAX_BUF + 1
  /\ buf_len' = a + 1
  /\ Goto(t, "b_head")
  /\ UNCHANGED <<head, tail, buf, irkey_wait, optVars, hiir_s_available, irVars,
                 has, locVars, histVars>>

(* IR_IOC_SET_BUF: the length, then both ends are put back to 0 *)
SetBuf(t, a) ==
  /\ At(t, "idle") /\ has[t]
  /\ 0 < a /\ a <= HI_IR_MAX_BUF
  /\ buf_len' = a + 1
  /\ Goto(t, "b_head")
  /\ UNCHANGED <<head, tail, buf, irkey_wait, optVars, hiir_s_available, irVars,
                 has, locVars, histVars>>

SetBufHead(t) ==
  /\ At(t, "b_head")
  /\ head' = 0
  /\ unread' = <<>> /\ last' = None
  /\ Goto(t, "b_tail")
  /\ UNCHANGED <<tail, buf, buf_len, irkey_wait, optVars, hiir_s_available, irVars,
                 has, locVars>>

SetBufTail(t) ==
  /\ At(t, "b_tail")
  /\ tail' = 0
  /\ Goto(t, "idle")
  /\ UNCHANGED <<head, buf, buf_len, irkey_wait, optVars, hiir_s_available, irVars,
                 has, locVars, histVars>>

-----------------------------------------------------------------------------
(* hiir_read with room for n events *)
Read(t, n) ==
  /\ At(t, "idle") /\ has[t]
  /\ room' = [room EXCEPT ![t] = n]
  /\ Goto(t, "test")
  /\ UNCHANGED <<ringVars, optVars, hiir_s_available, irVars, has, got, histVars>>

(* retry: an empty ring ends a read with O_NONBLOCK and makes others wait *)
ReadTest(t) ==
  \/ head = tail /\ Move(t, "test", "idle")
  \/ head = tail /\ Move(t, "test", "wait")
  \/ head # tail /\ Move(t, "test", "loop")

(* wait_event_interruptible: the condition is tested before the thread       *)
(* enters the wait queue,                                                    *)
ReadWait(t) ==
  \/ head # tail /\ Move(t, "wait", "test")
  \/ head = tail /\ Move(t, "wait", "prepare")

(* A step that changes the thread's place and the wait queue *)
Queue(t, here, next, q) ==
  /\ At(t, here) /\ Goto(t, next)
  /\ irkey_wait' = q
  /\ UNCHANGED <<head, tail, buf, buf_len, optVars, hiir_s_available, irVars, has,
                 locVars, histVars>>

(* A wrong variant: interruptible_sleep_on, which does not test again *)
BugReadPrepare(t) == Queue(t, "prepare", "sleep", irkey_wait \cup {t})

(* prepare_to_wait, *)
ReadPrepare(t) == Queue(t, "prepare", "cond", irkey_wait \cup {t})

(* tested again by a thread in the queue, which leaves it (finish_wait), *)
ReadCond(t) ==
  \/ head # tail /\ Queue(t, "cond", "test", irkey_wait \ {t})
  \/ head = tail /\ Move(t, "cond", "sleep")

(* and schedule() returns when the thread was woken, however early. *)
ReadWoken(t) == t \notin irkey_wait /\ Move(t, "sleep", "prepare")

(* A signal ends the wait, and the read, also if the condition holds *)
ReadSignalled(t) ==
  \E here \in {"wait", "cond", "sleep"} : Queue(t, here, "idle", irkey_wait \ {t})

(* The loop over the events in the ring and the room in the buffer *)
ReadLoop(t) ==
  Move(t, "loop", IF head # tail /\ room[t] > 0 THEN "copy" ELSE "idle")

(* A wrong variant: the tail is moved before the copy is made *)
BugReadCopy(t) ==
  /\ At(t, "copy")
  /\ got' = [got EXCEPT ![t] = buf[IncBuf(tail, buf_len)]]
  /\ Goto(t, "inc")
  /\ UNCHANGED <<ringVars, optVars, hiir_s_available, irVars, has, room, histVars>>

(* irkey_to_user = BUF_TAIL *)
ReadCopy(t) ==
  /\ At(t, "copy")
  /\ got' = [got EXCEPT ![t] = buf[tail]]
  /\ Goto(t, "inc")
  /\ UNCHANGED <<ringVars, optVars, hiir_s_available, irVars, has, room, histVars>>

(* tail = INC_BUF(tail); the event is the reader's, its copy is dead *)
ReadInc(t) ==
  /\ At(t, "inc")
  /\ tail' = IncBuf(tail, buf_len)
  /\ room' = [room EXCEPT ![t] = @ - 1]
  /\ got' = [got EXCEPT ![t] = Event(Zero, FALSE)]
  /\ unread' = IF unread = <<>> THEN unread ELSE Tail(unread)
  /\ Goto(t, "loop")
  /\ UNCHANGED <<head, buf, buf_len, irkey_wait, optVars, hiir_s_available, irVars,
                 has, last>>

Waiting(t) == ReadWait(t) \/ ReadPrepare(t) \/ ReadCond(t) \/ ReadWoken(t)

Reading(t) ==
  ReadTest(t) \/ Waiting(t) \/ ReadLoop(t) \/ ReadCopy(t) \/ ReadInc(t)

Thread(t) ==
  \/ Open(t) \/ OpenBusy(t) \/ OpenHead(t) \/ OpenRest(t)
  \/ Release(t) \/ ReleaseInc(t)
  \/ \E b \in Keyups : SetEnableKeyup(t, b)
  \/ \E b \in Repkeys : SetEnableRepkey(t, b)
  \/ \E a \in BufArgs : SetBuf(t, a)
  \/ SetBufHead(t) \/ SetBufTail(t)
  \/ \E n \in 0 .. MaxRead : Read(t, n)
  \/ Reading(t) \/ ReadSignalled(t)

Isr == IsrError \/ IsrRelease \/ IsrReceive

Next ==
  \/ \E k \in Keys : Frame(k)
  \/ KeyRelease \/ FrameError
  \/ Isr \/ RepkeyTimeout
  \/ \E t \in Threads : Thread(t)

SafeSpec == Init /\ [][Next]_vars

(* Interrupts are served, and a thread that is not asleep runs *)
Fairness == WF_vars(Isr) /\ \A t \in Threads : WF_vars(Reading(t))

Spec == SafeSpec /\ Fairness

-----------------------------------------------------------------------------
WaitPlaces == {"wait", "prepare", "cond", "sleep"}

Places == {"idle", "o_head", "o_busy", "o_rest", "c_inc", "b_head", "b_tail",
           "test", "loop", "copy", "inc"} \cup WaitPlaces

(* Types; in particular both ends of the ring stay inside buf, also when     *)
(* IR_IOC_SET_BUF has shortened the ring and not yet put them back to 0.     *)
TypeOK ==
  /\ head \in Slots /\ tail \in Slots
  /\ buf \in [Slots -> Events]
  /\ buf_len \in 0 .. HI_IR_MAX_BUF + 1
  /\ {enable_repkey, repkey_checkflag, enable_keyup, timer, enabled} \subseteq BOOLEAN
  /\ hiir_s_available \in Int /\ irkey_wait \subseteq Threads
  /\ ints \subseteq {"RCV", "RELEASE", "FRAMERR", "OVERFLOW"}
  /\ data \in Keys \cup {Zero} /\ held \in Keys \cup {None}
  /\ pc \in [Threads -> Places] /\ has \in [Threads -> BOOLEAN]
  /\ room \in [Threads -> Nat] /\ got \in [Threads -> Events]
  /\ unread \in Seq(Events) /\ last \in Events \cup {None}

(* Nobody is between the two assignments that empty the ring *)
Steady == \A t \in Threads : pc[t] \notin {"o_rest", "b_head", "b_tail"}

(* The ring holds the events that were received and not yet read, oldest     *)
(* first, whatever interrupts come between the steps of a read, an open and  *)
(* a change of the ring's length.                                            *)
RingIsFifo ==
  Steady /\ buf_len > 0 =>
    /\ (head + buf_len - tail) % buf_len = Len(unread)
    /\ \A j \in 1 .. Len(unread) : buf[(tail + j - 1) % buf_len] = unread[j]

(* A read returns the oldest event, as it was stored when the copy was made  *)
DeliveredInOrder ==
  \A t \in Threads : pc[t] = "inc" => unread # <<>> /\ got[t] = unread[1]

(* The ring between the interrupt routine and the reader is a queue: what it *)
(* holds was received and not read, and a read takes the oldest of it.       *)
RingInv == RingIsFifo /\ DeliveredInOrder

(* HIIR_KEY_UP is reported for the key reported down last, and once          *)
UpFollowsDown ==
  [][last' # last /\ last' # None /\ last'.up =>
        last # None /\ ~last.up /\ last.key = last'.key]_vars

(* The device is open for one file at a time, and hiir_s_available is right  *)
(* again whenever no open or close is under way, however refused opens and   *)
(* closes overlap.                                                           *)
Opened == {t \in Threads : has[t]}
ExclusiveOpen ==
  /\ ~Shared => \A t, u \in Opened : t = u
  /\ (\A t \in Threads : pc[t] \notin {"o_head", "o_rest", "o_busy", "c_inc"}) =>
       hiir_s_available = (IF Opened = {} THEN 1 ELSE 0)

(* A thread that sleeps until it is woken sleeps on an empty ring: no event  *)
(* came between its last test of the ring and its sleep without waking it.   *)
NoLostWakeup ==
  \A t \in Threads : pc[t] = "sleep" /\ t \in irkey_wait => head = tail

(* A reader does not sleep on while an event is there, wherever the          *)
(* interrupt came between its tests of the ring and its sleep.               *)
ReaderWoken ==
  \A t \in Threads :
    pc[t] \in WaitPlaces /\ unread # <<>> ~> pc[t] \notin WaitPlaces
=============================================================================
