----------------------------- MODULE HiIrProofs -----------------------------
(***************************************************************************)
(* Proofs about HiIr for every number of threads, every ring length up to  *)
(* HI_IR_MAX_BUF and every set of keys.                                    *)
(***************************************************************************)
EXTENDS HiIr, FiniteSetTheorems, TLAPS

(* The ring has a length before the receiver is switched on and before a     *)
(* file is there to read it, so that no index is taken modulo 0.             *)
RingMade ==
  buf_len = 0 => /\ ~enabled /\ ints = {}
                 /\ \A t \in Threads :
                      ~has[t] /\ pc[t] \in {"idle", "o_head", "o_busy", "o_rest"}

(* A read goes on only while the caller's buffer has room. *)
RoomLeft == \A t \in Threads : pc[t] \in {"copy", "inc"} => room[t] > 0

TypeInv == TypeOK /\ RingMade /\ RoomLeft

(* The ring without the wait queue, which the queue of events does not need  *)
ringPart == <<head, tail, buf, buf_len>>

(* A thread inside hiir_open or hiir_release that has counted the device as  *)
(* its own, and the threads that hiir_open is about to refuse.               *)
Holding(t) == pc[t] \in {"o_head", "o_rest", "c_inc"}
Refused == {t \in Threads : pc[t] = "o_busy"}
Owned == Opened # {} \/ \E t \in Threads : Holding(t)

(* hiir_s_available counts the owner and every thread that found it taken    *)
(* and has not yet put its decrement back.                                   *)
OpenInv ==
  /\ hiir_s_available = (IF Owned THEN 0 ELSE 1) - Cardinality(Refused)
  /\ \A t, u \in Threads : Holding(t) /\ Holding(u) => t = u
  /\ \A t \in Threads : Holding(t) => Opened = {}
  /\ ~Shared => \A t, u \in Opened : t = u

(* Only threads that have the file open are inside read or IR_IOC_SET_BUF *)
Inside == \A t \in Threads :
  pc[t] \in {"b_head", "b_tail", "test", "loop", "copy", "inc"} \cup WaitPlaces
    => has[t]

(* With a reader that keeps up the ring never fills, whatever its length     *)
(* becomes                                                                   *)
NeverFull == /\ buf_len \in {0} \cup RingLens
             /\ \A n \in RingLens : Len(unread) + Pending < n

(* Entry x of a ring that is counted on beyond its end *)
Off(x) == IF x < buf_len THEN x ELSE x - buf_len

(* The events not yet read, at their places behind tail *)
Ring ==
  Steady /\ buf_len > 0 =>
    /\ tail < buf_len
    /\ head = Off(tail + Len(unread))
    /\ \A j \in 1 .. Len(unread) : buf[Off(tail + (j - 1))] = unread[j]

(* Between the two assignments that empty the ring the events received since *)
(* the first are stored from entry 0 on                                      *)
Emptied ==
  (\E t \in Threads : pc[t] \in {"o_rest", "b_tail"}) =>
    /\ head = Len(unread)
    /\ \A j \in 1 .. Len(unread) : buf[j - 1] = unread[j]

(* What a reader has seen or copied is still there *)
Copied ==
  \A t \in Threads : /\ pc[t] \in {"copy", "inc"} => unread # <<>>
                     /\ pc[t] = "inc" => got[t] = unread[1]

Unmade == buf_len = 0 => head = 0 /\ tail = 0 /\ unread = <<>>

FifoInv == Inside /\ NeverFull /\ Unmade /\ Ring /\ Emptied /\ Copied

-----------------------------------------------------------------------------
(* What % does to the indices of a ring of length n: INC_BUF stays below n,  *)
(* and an index less than two lengths is reduced by at most one.             *)
LEMMA ModRange == \A n \in Nat \ {0} : \A x \in Nat : x % n \in 0 .. n - 1
  OBVIOUS

LEMMA ModSmall == \A n \in Nat \ {0} : \A x \in 0 .. n - 1 : x % n = x
  OBVIOUS

LEMMA ModWrap == \A n \in Nat \ {0} : \A x \in n .. 2 * n - 1 : x % n = x - n
  OBVIOUS

LEMMA IncBufIs ==
  ASSUME NEW n \in Nat \ {0}, NEW x \in 0 .. n - 1
  PROVE  IncBuf(x, n) = IF x + 1 < n THEN x + 1 ELSE 0
  <1>1. CASE x + 1 < n
    <2>1. x + 1 \in 0 .. n - 1 BY <1>1
    <2> QED BY <1>1, <2>1, ModSmall DEF IncBuf
  <1>2. CASE x + 1 = n
    <2>1. x + 1 \in n .. 2 * n - 1 BY <1>2
    <2> QED BY <1>2, <2>1, ModWrap DEF IncBuf
  <1> QED BY <1>1, <1>2

(* A stored event and a fresh entry are events *)
LEMMA EventType == \A k \in Keys \cup {Zero}, b \in BOOLEAN : Event(k, b) \in Events
  BY DEF Event, Events

(* Storing an event keeps the types, once the ring has a length *)
LEMMA PushType ==
  ASSUME TypeOK, buf_len > 0, NEW e \in Events, Push(e)
  PROVE  /\ head' \in Slots /\ tail' \in Slots /\ buf' \in [Slots -> Events]
         /\ buf_len' = buf_len /\ irkey_wait' = {}
         /\ unread' \in Seq(Events) /\ last' \in Events \cup {None}
  <1>1. head' \in 0 .. buf_len - 1
    <2>1. buf_len \in Nat \ {0} /\ head + 1 \in Nat
      BY IrAssumption DEF IrAssumption, TypeOK, Slots
    <2>2. head' = (head + 1) % buf_len BY DEF Push, IncBuf
    <2> QED BY <2>1, <2>2, ModRange
  <1>2. buf' \in [Slots -> Events] BY DEF TypeOK, Push
  <1>3. unread' \in Seq(Events) BY DEF TypeOK, Push
  <1> QED BY SMTT(60), <1>1, <1>2, <1>3, IrAssumption DEF IrAssumption, TypeOK,
           Slots, Push

(* BUF_LAST is an entry of buf *)
LEMMA BufLastType == ASSUME TypeOK, buf_len > 0 PROVE BufLast \in Events
  <1>1. (IF head = 0 THEN buf_len - 1 ELSE head - 1) \in Slots
    BY SMTT(60), IrAssumption DEF IrAssumption, TypeOK, Slots
  <1> QED BY <1>1 DEF TypeOK, BufLast

(* hiir_init leaves a driver that is not open and has no ring *)
LEMMA TypeInit == Init => TypeInv
  <1> SUFFICES ASSUME Init PROVE TypeInv OBVIOUS
  <1>1. Event(Zero, FALSE) \in Events BY EventType
  <1>2. buf \in [Slots -> Events] /\ got \in [Threads -> Events]
    BY <1>1 DEF Init
  <1>3. unread \in Seq(Events) BY DEF Init
  <1>4. /\ head \in Slots /\ tail \in Slots
        /\ buf_len \in 0 .. HI_IR_MAX_BUF + 1 /\ hiir_s_available \in Int
        /\ room \in [Threads -> Nat]
    BY IrAssumption DEF IrAssumption, Init, Slots
  <1>5. TypeOK BY <1>2, <1>3, <1>4 DEF Init, TypeOK, Places
  <1> QED BY <1>5 DEF Init, TypeInv, RingMade, RoomLeft

(* The steps of a reader around the wait queue move it and change the queue *)
WaitStep(t) == ReadTest(t) \/ Waiting(t) \/ ReadSignalled(t)

LEMMA WaitSteps ==
  ASSUME NEW t \in Threads, WaitStep(t)
  PROVE  \E p \in {"idle", "test", "loop"} \cup WaitPlaces :
           /\ pc[t] \in {"test"} \cup WaitPlaces
           /\ PromptIrq => ints = {}
           /\ pc' = [pc EXCEPT ![t] = p]
           /\ irkey_wait' \in {irkey_wait, irkey_wait \cup {t}, irkey_wait \ {t}}
           /\ UNCHANGED <<ringPart, optVars, hiir_s_available, irVars, has,
                          locVars, histVars>>
  <1> USE DEF At, Goto, Move, Queue, WaitPlaces, ringVars, ringPart
  <1>1. CASE ReadTest(t) BY <1>1 DEF ReadTest
  <1>2. CASE ReadWait(t) BY <1>2 DEF ReadWait
  <1>3. CASE ReadPrepare(t) BY <1>3 DEF ReadPrepare
  <1>4. CASE ReadCond(t) BY <1>4 DEF ReadCond
  <1>5. CASE ReadWoken(t) BY <1>5 DEF ReadWoken
  <1>6. CASE ReadSignalled(t) BY <1>6 DEF ReadSignalled
  <1> QED BY <1>1, <1>2, <1>3, <1>4, <1>5, <1>6 DEF WaitStep, Waiting

(* Every step of the receiver, the interrupt routine, the timer and the      *)
(* threads keeps the types                                                   *)
LEMMA TypeStep == TypeInv /\ [Next]_vars => TypeInv'
  <1> SUFFICES ASSUME TypeInv, [Next]_vars PROVE TypeInv' OBVIOUS
  <1> USE IrAssumption DEF IrAssumption, TypeInv, RingMade, RoomLeft, ringVars, ringPart,
       ringPart, optVars,
          irVars, locVars, histVars, At, Goto, Places, WaitPlaces
  <1>1. ASSUME NEW k \in Keys, Frame(k) PROVE TypeInv'
    BY <1>1 DEF Frame, MayReceive, TypeOK
  <1>2. CASE KeyRelease BY <1>2 DEF KeyRelease, MayReceive, TypeOK
  <1>3. CASE FrameError BY <1>3 DEF FrameError, TypeOK
  <1>4. CASE IsrError BY <1>4 DEF IsrError, Cause, NoPush, TypeOK
  <1>5. CASE IsrRelease
    <2>1. buf_len > 0 BY <1>5 DEF IsrRelease, Cause, TypeOK
    <2>2. CASE NoPush BY <1>5, <2>2 DEF IsrRelease, Cause, NoPush, TypeOK
    <2>3. CASE Push(Event(BufLast.key, TRUE))
      <3>1. Event(BufLast.key, TRUE) \in Events
        BY <2>1, BufLastType DEF Event, Events
      <3>2. /\ head' \in Slots /\ tail' \in Slots /\ buf' \in [Slots -> Events]
            /\ buf_len' = buf_len /\ irkey_wait' = {}
            /\ unread' \in Seq(Events) /\ last' \in Events \cup {None}
        BY <2>1, <2>3, <3>1, PushType
      <3> QED BY <1>5, <2>1, <3>2 DEF IsrRelease, Cause, TypeOK
    <2> QED BY <1>5, <2>2, <2>3 DEF IsrRelease
  <1>6. CASE IsrReceive
    <2>1. buf_len > 0 BY <1>6 DEF IsrReceive, Cause, TypeOK
    <2>2. CASE NoPush /\ UNCHANGED optVars
      BY <1>6, <2>2 DEF IsrReceive, Cause, NoPush, TypeOK
    <2>3. CASE ~Repeated
      <3>1. Event(data, FALSE) \in Events BY EventType DEF TypeOK
      <3>2. /\ head' \in Slots /\ tail' \in Slots /\ buf' \in [Slots -> Events]
            /\ buf_len' = buf_len /\ irkey_wait' = {}
            /\ unread' \in Seq(Events) /\ last' \in Events \cup {None}
        BY <1>6, <2>1, <2>3, <3>1, PushType DEF IsrReceive
      <3>3. {timer', repkey_checkflag', enable_repkey', enable_keyup'} \subseteq BOOLEAN
        BY <1>6, <2>3 DEF IsrReceive, TypeOK
      <3> QED BY <1>6, <2>1, <3>2, <3>3 DEF IsrReceive, Cause, TypeOK
    <2> QED BY <1>6, <2>2, <2>3 DEF IsrReceive
  <1>7. CASE RepkeyTimeout BY <1>7 DEF RepkeyTimeout, TypeOK
  <1>8. ASSUME NEW t \in Threads, Thread(t) PROVE TypeInv'
    <2>1. CASE Open(t) BY <2>1 DEF Open, TypeOK
    <2>2. CASE OpenBusy(t) BY <2>2 DEF OpenBusy, TypeOK
    <2>3. CASE OpenHead(t)
      <3>1. 0 \in Slots /\ <<>> \in Seq(Events) BY DEF Slots
      <3> QED BY <2>3, <3>1 DEF OpenHead, TypeOK
    <2>4. CASE OpenRest(t)
      <3>1. 0 \in Slots /\ DEFAULT_BUF_LEN \in 0 .. HI_IR_MAX_BUF + 1
        BY DEF Slots
      <3>2. has' \in [Threads -> BOOLEAN] BY <2>4 DEF OpenRest
      <3>3. TypeOK' BY <2>4, <3>1, <3>2 DEF OpenRest, TypeOK
      <3>4. buf_len' # 0 BY <2>4 DEF OpenRest
      <3>5. RoomLeft' BY <2>4 DEF OpenRest, TypeOK
      <3> QED BY <3>3, <3>4, <3>5
    <2>5. CASE Release(t) BY <2>5 DEF Release, TypeOK
    <2>6. CASE ReleaseInc(t) BY <2>6 DEF ReleaseInc, TypeOK
    <2>7. ASSUME NEW b \in Keyups, SetEnableKeyup(t, b) PROVE TypeInv'
      BY <2>7 DEF SetEnableKeyup, TypeOK
    <2>8. ASSUME NEW b \in Repkeys, SetEnableRepkey(t, b) PROVE TypeInv'
      BY <2>8 DEF SetEnableRepkey, TypeOK
    <2>9. ASSUME NEW a \in BufArgs, SetBuf(t, a) PROVE TypeInv'
      BY SMTT(60), <2>9 DEF SetBuf, TypeOK
    <2>10. CASE SetBufHead(t) BY <2>10 DEF SetBufHead, TypeOK, Slots
    <2>11. CASE SetBufTail(t) BY <2>11 DEF SetBufTail, TypeOK, Slots
    <2>12. ASSUME NEW n \in 0 .. MaxRead, Read(t, n) PROVE TypeInv'
      BY SMTT(60), <2>12 DEF Read, TypeOK
    <2>13. CASE WaitStep(t)
      <3>1. PICK p \in {"idle", "test", "loop"} \cup WaitPlaces :
              /\ pc' = [pc EXCEPT ![t] = p]
              /\ irkey_wait' \in {irkey_wait, irkey_wait \cup {t}, irkey_wait \ {t}}
              /\ UNCHANGED <<ringPart, optVars, hiir_s_available, irVars, has,
                             locVars, histVars>>
              /\ pc[t] \in {"test"} \cup WaitPlaces
        BY <2>13, WaitSteps
      <3>2. irkey_wait' \subseteq Threads BY <3>1 DEF TypeOK
      <3>3. pc' \in [Threads -> Places] BY <3>1 DEF TypeOK
      <3> QED BY <3>1, <3>2, <3>3 DEF TypeOK, ringPart, WaitPlaces
    <2>15. CASE ReadLoop(t) BY <2>15 DEF ReadLoop, Move, TypeOK
    <2>16. CASE ReadCopy(t) BY <2>16 DEF ReadCopy, TypeOK
    <2>17. CASE ReadInc(t)
      <3>1. tail' \in Slots
        <4>1. pc[t] = "inc" /\ tail' = (tail + 1) % buf_len
          BY <2>17 DEF ReadInc, IncBuf
        <4>2. buf_len # 0 BY <4>1
        <4>3. tail + 1 \in Nat /\ buf_len \in Nat /\ buf_len <= HI_IR_MAX_BUF + 1
          BY DEF TypeOK, Slots
        <4>4. tail' \in 0 .. buf_len - 1 BY <4>1, <4>2, <4>3, ModRange
        <4> QED BY <4>3, <4>4 DEF Slots
      <3>2. unread' \in Seq(Events) BY <2>17 DEF ReadInc, TypeOK
      <3>3. Event(Zero, FALSE) \in Events BY EventType
      <3>4. got' \in [Threads -> Events] /\ room' \in [Threads -> Nat]
        <4>1. room[t] - 1 \in Nat BY <2>17 DEF ReadInc, TypeOK
        <4>2. room' = [room EXCEPT ![t] = room[t] - 1] BY <2>17 DEF ReadInc
        <4>3. got' = [got EXCEPT ![t] = Event(Zero, FALSE)] BY <2>17 DEF ReadInc
        <4> QED BY <3>3, <4>1, <4>2, <4>3 DEF TypeOK
      <3> QED BY <2>17, <3>1, <3>2, <3>4 DEF ReadInc, TypeOK
    <2> QED BY <1>8, <2>1, <2>2, <2>3, <2>4, <2>5, <2>6, <2>7, <2>8, <2>9,
             <2>10, <2>11,
               <2>12, <2>13, <2>15, <2>16, <2>17 DEF Thread, Reading, WaitStep
  <1>9. CASE UNCHANGED vars BY <1>9 DEF vars, TypeOK
  <1> QED BY <1>1, <1>2, <1>3, <1>4, <1>5, <1>6, <1>7, <1>8, <1>9 DEF Next, Isr

(* For any number of threads sharing the file or not, and any order of       *)
(* IR_IOC_SET_BUF, reads and interrupts, both ends of the ring stay inside   *)
(* buf.                                                                      *)
THEOREM TypeCorrect == SafeSpec => []TypeOK
  <1>1. TypeInv => TypeOK BY DEF TypeInv
  <1> QED BY <1>1, TypeInit, TypeStep, PTL DEF SafeSpec

-----------------------------------------------------------------------------
(* Nothing of what hiir_open and hiir_release keep changes *)
Apart ==
  /\ UNCHANGED <<hiir_s_available, has>>
  /\ Refused' = Refused
  /\ \A t \in Threads : Holding(t)' <=> Holding(t)

(* A step that moves one thread, from a place outside open and close to      *)
(* another, or that moves none                                               *)
LEMMA MoveIsApart ==
  ASSUME TypeOK, NEW t \in Threads, NEW p, pc' = [pc EXCEPT ![t] = p],
         UNCHANGED <<hiir_s_available, has>>,
         p \notin {"o_head", "o_rest", "c_inc", "o_busy"},
         pc[t] \notin {"o_head", "o_rest", "c_inc", "o_busy"}
  PROVE  Apart
  BY DEF TypeOK, Apart, Refused, Holding

LEMMA StayIsApart ==
  ASSUME UNCHANGED <<hiir_s_available, has, pc>> PROVE Apart
  BY DEF Apart, Refused, Holding

(* The steps that open and close the device *)
OpenClose(t) ==
  Open(t) \/ OpenBusy(t) \/ OpenHead(t) \/ OpenRest(t) \/ Release(t) \/ ReleaseInc(t)

(* Every other step leaves alone what open and close keep. *)
LEMMA OpenSteps ==
  ASSUME TypeOK, [Next]_vars
  PROVE  Apart \/ \E t \in Threads : OpenClose(t)
  <1>1. ASSUME NEW k \in Keys, Frame(k) PROVE Apart
    BY <1>1, StayIsApart DEF Frame
  <1>2. CASE KeyRelease BY <1>2, StayIsApart DEF KeyRelease
  <1>3. CASE FrameError BY <1>3, StayIsApart DEF FrameError
  <1>4. CASE Isr
    BY <1>4, StayIsApart DEF Isr, IsrError, IsrRelease, IsrReceive, Cause
  <1>5. CASE RepkeyTimeout BY <1>5, StayIsApart DEF RepkeyTimeout
  <1>6. ASSUME NEW t \in Threads, Thread(t), ~OpenClose(t) PROVE Apart
    <2> USE MoveIsApart DEF At, Goto
    <2>1. ASSUME NEW b \in Keyups, SetEnableKeyup(t, b) PROVE Apart
      BY <2>1, StayIsApart DEF SetEnableKeyup
    <2>2. ASSUME NEW b \in Repkeys, SetEnableRepkey(t, b) PROVE Apart
      BY <2>2, StayIsApart DEF SetEnableRepkey
    <2>3. ASSUME NEW a \in BufArgs, SetBuf(t, a) PROVE Apart BY <2>3 DEF SetBuf
    <2>4. CASE SetBufHead(t) BY <2>4 DEF SetBufHead
    <2>5. CASE SetBufTail(t) BY <2>5 DEF SetBufTail
    <2>6. ASSUME NEW n \in 0 .. MaxRead, Read(t, n) PROVE Apart BY <2>6 DEF Read
    <2>7. CASE WaitStep(t) BY <2>7, WaitSteps DEF WaitPlaces
    <2>10. CASE ReadLoop(t) BY <2>10 DEF ReadLoop, Move
    <2>11. CASE ReadCopy(t) BY <2>11 DEF ReadCopy
    <2>12. CASE ReadInc(t) BY <2>12 DEF ReadInc
    <2> QED BY <1>6, <2>1, <2>2, <2>3, <2>4, <2>5, <2>6, <2>7, 
             <2>10,
               <2>11, <2>12 DEF Thread, Reading, WaitStep, OpenClose
  <1>7. CASE UNCHANGED vars BY <1>7, StayIsApart DEF vars
  <1> QED BY <1>1, <1>2, <1>3, <1>4, <1>5, <1>6, <1>7 DEF Next

(* The threads to be refused are finitely many; one more or one fewer of     *)
(* them changes their number by one.                                         *)
LEMMA RefusedCount ==
  /\ IsFiniteSet(Refused) /\ Cardinality(Refused) \in Nat
  /\ \A t : t \notin Refused => Cardinality(Refused \cup {t}) = Cardinality(Refused) + 1
  /\ \A t \in Refused : Cardinality(Refused \ {t}) = Cardinality(Refused) - 1
  <1>1. Refused \in SUBSET Threads BY DEF Refused
  <1>2. IsFiniteSet(Refused) BY <1>1, IrAssumption, FS_Subset DEF IrAssumption
  <1> QED BY <1>2, FS_CardinalityType, FS_AddElement, FS_RemoveElement

(* The count is right after every step. *)
LEMMA OpenStep == TypeOK /\ OpenInv /\ [Next]_vars => OpenInv'
  <1> SUFFICES ASSUME TypeOK, OpenInv, [Next]_vars PROVE OpenInv' OBVIOUS
  <1> USE RefusedCount DEF OpenInv, Owned, Opened, At, Goto
  <1>1. CASE Apart BY <1>1 DEF Apart
  <1>2. ASSUME NEW t \in Threads, Open(t) PROVE OpenInv'
    <2>1. CASE hiir_s_available = 1
      <3>1. Refused' = Refused BY <1>2, <2>1 DEF Open, Refused, TypeOK
      <3>2. ~Owned BY <2>1
      <3>3. Holding(t)' BY <1>2, <2>1 DEF Open, Holding, TypeOK
      <3>4. \A u \in Threads \ {t} : ~Holding(u)'
        BY <1>2, <3>2 DEF Open, Holding, TypeOK
      <3> QED BY <1>2, <2>1, <3>1, <3>2, <3>3, <3>4 DEF Open
    <2>2. CASE hiir_s_available # 1
      <3>1. Refused' = Refused \cup {t} /\ t \notin Refused
        BY <1>2, <2>2 DEF Open, Refused, TypeOK
      <3>2. \A u \in Threads : Holding(u)' <=> Holding(u)
        BY <1>2, <2>2 DEF Open, Holding, TypeOK
      <3> QED BY <1>2, <3>1, <3>2 DEF Open
    <2> QED BY <2>1, <2>2
  <1>3. ASSUME NEW t \in Threads, OpenBusy(t) PROVE OpenInv'
    <2>1. Refused' = Refused \ {t} /\ t \in Refused
      BY <1>3 DEF OpenBusy, Refused, TypeOK
    <2>2. \A u \in Threads : Holding(u)' <=> Holding(u)
      BY <1>3 DEF OpenBusy, Holding, TypeOK
    <2> QED BY <1>3, <2>1, <2>2 DEF OpenBusy
  <1>4. ASSUME NEW t \in Threads, OpenHead(t) PROVE OpenInv'
    <2>1. Refused' = Refused BY <1>4 DEF OpenHead, Refused, TypeOK
    <2>2. \A u \in Threads : Holding(u)' <=> Holding(u)
      BY <1>4 DEF OpenHead, Holding, TypeOK
    <2> QED BY <1>4, <2>1, <2>2 DEF OpenHead
  <1>5. ASSUME NEW t \in Threads, OpenRest(t) PROVE OpenInv'
    <2>1. Refused' = Refused BY <1>5 DEF OpenRest, Refused, TypeOK
    <2>2. Holding(t) /\ \A u \in Threads : ~Holding(u)'
      BY <1>5 DEF OpenRest, Holding, TypeOK
    <2>3. t \in Opened' BY <1>5 DEF OpenRest
    <2>4. ~Shared => Opened' = {t} BY <1>5 DEF OpenRest
    <2> QED BY <1>5, <2>1, <2>2, <2>3, <2>4 DEF OpenRest
  <1>6. ASSUME NEW t \in Threads, Release(t) PROVE OpenInv'
    <2>1. Refused' = Refused BY <1>6 DEF Release, Refused, TypeOK
    <2>2. t \in Opened /\ Opened' = {} BY <1>6 DEF Release
    <2>3. Holding(t)' /\ \A u \in Threads \ {t} : ~Holding(u)'
      BY <1>6, <2>2 DEF Release, Holding, TypeOK
    <2> QED BY <1>6, <2>1, <2>2, <2>3 DEF Release
  <1>7. ASSUME NEW t \in Threads, ReleaseInc(t) PROVE OpenInv'
    <2>1. Refused' = Refused BY <1>7 DEF ReleaseInc, Refused, TypeOK
    <2>2. Holding(t) /\ \A u \in Threads : ~Holding(u)'
      BY <1>7 DEF ReleaseInc, Holding, TypeOK
    <2> QED BY <1>7, <2>1, <2>2 DEF ReleaseInc
  <1> QED BY <1>1, <1>2, <1>3, <1>4, <1>5, <1>6, <1>7, OpenSteps DEF OpenClose

LEMMA OpenInit == Init => OpenInv
  <1> SUFFICES ASSUME Init PROVE OpenInv OBVIOUS
  <1>1. Refused = {} BY DEF Init, Refused
  <1>2. Opened = {} /\ \A t \in Threads : ~Holding(t)
    BY DEF Init, Opened, Holding
  <1> QED BY <1>1, <1>2, FS_EmptySet DEF Init, OpenInv, Owned

(* For any number of threads, however their opens, refused opens and closes  *)
(* overlap, hiir_s_available lets one file in at a time and is right again   *)
(* when none of them is under way.                                           *)
THEOREM OneFileAtATime == SafeSpec => []ExclusiveOpen
  <1>1. TypeOK /\ OpenInv => ExclusiveOpen
    <2> SUFFICES ASSUME OpenInv PROVE ExclusiveOpen OBVIOUS
    <2>1. ASSUME \A t \in Threads : pc[t] \notin {"o_head", "o_rest", "o_busy", "c_inc"}
          PROVE  hiir_s_available = (IF Opened = {} THEN 1 ELSE 0)
      <3>1. Refused = {} /\ \A t \in Threads : ~Holding(t)
        BY <2>1 DEF Refused, Holding
      <3> QED BY <3>1, FS_EmptySet DEF OpenInv, Owned
    <2> QED BY <2>1 DEF OpenInv, ExclusiveOpen
  <1> QED BY <1>1, OpenInit, OpenStep, TypeCorrect, PTL DEF SafeSpec

-----------------------------------------------------------------------------
(* A thread inside read or IR_IOC_SET_BUF keeps its file open *)
LEMMA InsideStep ==
  ASSUME ~Shared, TypeOK, OpenInv, Inside, [Next]_vars
  PROVE  Inside'
  <1> USE DEF WaitPlaces, At, Goto
  <1>2. ASSUME NEW t \in Threads, NEW p, pc' = [pc EXCEPT ![t] = p],
               \A u \in Threads \ {t} : has[u] => has'[u],
               pc'[t] \in {"b_head", "b_tail", "test", "loop", "copy", "inc"}
                            \cup WaitPlaces => has'[t]
        PROVE  Inside'
    BY <1>2 DEF Inside, TypeOK
  <1>3. ASSUME NEW k \in Keys, Frame(k) PROVE Inside' BY <1>3 DEF Frame, Inside
  <1>4. CASE KeyRelease \/ FrameError \/ RepkeyTimeout \/ UNCHANGED vars
    BY <1>4 DEF KeyRelease, FrameError, RepkeyTimeout, vars, Inside
  <1>5. CASE Isr
    BY <1>5 DEF Isr, IsrError, IsrRelease, IsrReceive, Cause, Inside
  <1>6. ASSUME NEW t \in Threads, Thread(t) PROVE Inside'
    <2>1. CASE Open(t) \/ OpenBusy(t) \/ OpenHead(t) \/ ReleaseInc(t)
      BY <2>1, <1>2 DEF Open, OpenBusy, OpenHead, ReleaseInc, Inside, TypeOK
    <2>2. CASE OpenRest(t)
      <3>1. \A u \in Threads : ~has[u]
        BY <2>2 DEF OpenRest, OpenInv, Holding, Opened
      <3> QED BY <2>2, <3>1 DEF OpenRest, Inside, TypeOK
    <2>3. CASE Release(t)
      <3>1. \A u \in Threads : has[u] => u = t
        BY <2>3 DEF Release, OpenInv, Opened
      <3> QED BY <2>3, <3>1 DEF Release, Inside, TypeOK
    <2>4. ASSUME NEW b \in BOOLEAN, SetEnableKeyup(t, b) \/ SetEnableRepkey(t, b)
          PROVE  Inside'
      BY <2>4 DEF SetEnableKeyup, SetEnableRepkey, Inside
    <2>5. ASSUME NEW a \in BufArgs, SetBuf(t, a) PROVE Inside'
      BY <2>5 DEF SetBuf, Inside, TypeOK
    <2>6. CASE SetBufHead(t) \/ SetBufTail(t)
      BY <2>6 DEF SetBufHead, SetBufTail, Inside, TypeOK
    <2>7. ASSUME NEW n \in 0 .. MaxRead, Read(t, n) PROVE Inside'
      BY <2>7 DEF Read, Inside, TypeOK
    <2>8. CASE WaitStep(t) BY <2>8, WaitSteps DEF Inside, TypeOK
    <2>9. CASE ReadLoop(t) \/ ReadCopy(t) \/ ReadInc(t)
      BY <2>9 DEF ReadLoop, Move, ReadCopy, ReadInc, Inside, TypeOK
    <2> QED BY <1>6, <2>1, <2>2, <2>3, <2>4, <2>5, <2>6, <2>7, <2>8, <2>9,
               IrAssumption DEF IrAssumption, Thread, Reading, WaitStep
  <1> QED BY <1>3, <1>4, <1>5, <1>6 DEF Next

(* A step that leaves the ring and the sleepers alone *)
LEMMA SleepKept ==
  ASSUME NoLostWakeup, head' = head, tail' = tail,
         \A u \in Threads : pc'[u] = "sleep" /\ u \in irkey_wait' =>
                              pc[u] = "sleep" /\ u \in irkey_wait
  PROVE  NoLostWakeup'
  BY DEF NoLostWakeup

(* A step that leaves no thread in the wait queue, or that nobody sleeps     *)
(* through                                                                   *)
LEMMA NobodySleeps ==
  ASSUME irkey_wait' = {} \/ \A u \in Threads : pc'[u] # "sleep"
  PROVE  NoLostWakeup'
  BY DEF NoLostWakeup

LEMMA SleepStep ==
  ASSUME ~Shared, TypeOK, OpenInv, Inside, NoLostWakeup, [Next]_vars
  PROVE  NoLostWakeup'
  <1> USE DEF At, Goto, ringVars
  <1>1. ASSUME NEW k \in Keys, Frame(k) PROVE NoLostWakeup'
    BY <1>1, SleepKept DEF Frame
  <1>2. CASE KeyRelease \/ FrameError \/ RepkeyTimeout \/ IsrError
             \/ UNCHANGED vars
    BY <1>2, SleepKept
       DEF KeyRelease, FrameError, RepkeyTimeout, IsrError, Cause, NoPush, vars
  <1>3. CASE IsrRelease \/ IsrReceive
    <2>1. UNCHANGED pc BY <1>3 DEF IsrRelease, IsrReceive, Cause
    <2>2. NoPush \/ irkey_wait' = {} BY <1>3 DEF IsrRelease, IsrReceive, Push
    <2>3. CASE NoPush BY <2>1, <2>3, SleepKept DEF NoPush
    <2> QED BY <2>2, <2>3, NobodySleeps
  <1>4. ASSUME NEW t \in Threads, Thread(t) PROVE NoLostWakeup'
    <2>0. ASSUME has[t] PROVE \A u \in Threads \ {t} : pc[u] # "sleep"
      BY <2>0 DEF Inside, OpenInv, Opened, WaitPlaces
    <2>1. CASE Open(t) \/ OpenBusy(t) \/ Release(t) \/ ReleaseInc(t)
      BY <2>1, SleepKept DEF Open, OpenBusy, Release, ReleaseInc, TypeOK
    <2>2. CASE OpenHead(t)
      <3>1. \A u \in Threads : ~has[u]
        BY <2>2 DEF OpenHead, OpenInv, Holding, Opened
      <3>2. \A u \in Threads : pc'[u] # "sleep"
        BY <2>2, <3>1 DEF OpenHead, Inside, WaitPlaces, TypeOK
      <3> QED BY <3>2, NobodySleeps
    <2>3. CASE OpenRest(t) BY <2>3, NobodySleeps DEF OpenRest
    <2>4. ASSUME NEW b, SetEnableKeyup(t, b) \/ SetEnableRepkey(t, b)
          PROVE  NoLostWakeup'
      BY <2>4, SleepKept DEF SetEnableKeyup, SetEnableRepkey
    <2>5. ASSUME NEW a \in BufArgs, SetBuf(t, a) PROVE NoLostWakeup'
      BY <2>5, SleepKept DEF SetBuf, TypeOK
    <2>6. CASE SetBufHead(t) \/ SetBufTail(t) \/ ReadInc(t)
      <3>1. has[t] BY <2>6 DEF SetBufHead, SetBufTail, ReadInc, Inside
      <3>2. \A u \in Threads : pc'[u] # "sleep"
        BY <2>6, <2>0, <3>1 DEF SetBufHead, SetBufTail, ReadInc, TypeOK
      <3> QED BY <3>2, NobodySleeps
    <2>7. ASSUME NEW n \in 0 .. MaxRead, Read(t, n) PROVE NoLostWakeup'
      BY <2>7, SleepKept DEF Read, TypeOK
    <2>8. CASE WaitStep(t)
      <3>1. CASE ReadCond(t) /\ head = tail
        BY <3>1 DEF ReadCond, Queue, Move, NoLostWakeup
      <3>2. CASE ~ReadCond(t)
        BY <2>8, <3>2, SleepKept DEF WaitStep, Waiting, ReadTest, ReadWait,
           ReadPrepare, ReadWoken, ReadSignalled, Queue, Move, TypeOK
      <3>3. CASE ReadCond(t) /\ head # tail
        BY <3>3, SleepKept DEF ReadCond, Queue, TypeOK
      <3> QED BY <3>1, <3>2, <3>3
    <2>9. CASE ReadLoop(t) \/ ReadCopy(t)
      BY <2>9, SleepKept DEF ReadLoop, Move, ReadCopy, TypeOK
    <2> QED BY <1>4, <2>1, <2>2, <2>3, <2>4, <2>5, <2>6, <2>7, <2>8, <2>9
            DEF Thread, Reading, WaitStep
  <1> QED BY <1>1, <1>2, <1>3, <1>4 DEF Next, Isr

(* With one thread for each open file, a reader never sleeps on an event:    *)
(* for any number of threads and keys, whatever steps of wait_event_         *)
(* interruptible the interrupts come between.                                *)
THEOREM WakeupSafe == ASSUME ~Shared PROVE SafeSpec => []NoLostWakeup
  <1>1. Init => Inside /\ NoLostWakeup
    BY DEF Init, Inside, NoLostWakeup, WaitPlaces
  <1>2. TypeInv /\ OpenInv /\ Inside /\ NoLostWakeup /\ [Next]_vars
          => TypeInv' /\ OpenInv' /\ Inside' /\ NoLostWakeup'
    BY TypeStep, OpenStep, InsideStep, SleepStep DEF TypeInv
  <1> QED BY <1>1, <1>2, TypeInit, OpenInit, PTL DEF SafeSpec

-----------------------------------------------------------------------------
(* The causes among s that make the routine store an event, counted *)
One(b, s) == IF b \in s THEN 1 ELSE 0
Two(s) == One("RCV", s) + One("RELEASE", s)

LEMMA TwoCounts ==
  ASSUME NEW s
  PROVE  (IF s \cap {"RCV", "RELEASE"} = {"RCV", "RELEASE"} THEN 2
          ELSE IF s \cap {"RCV", "RELEASE"} = {} THEN 0 ELSE 1) = Two(s)
  <1> USE DEF One, Two
  <1>1. CASE "RCV" \in s /\ "RELEASE" \in s
    <2>1. s \cap {"RCV", "RELEASE"} = {"RCV", "RELEASE"} BY <1>1
    <2> QED BY <1>1, <2>1
  <1>2. CASE "RCV" \in s /\ "RELEASE" \notin s
    <2>1. s \cap {"RCV", "RELEASE"} = {"RCV"} BY <1>2
    <2>2. {"RCV"} # {} /\ {"RCV"} # {"RCV", "RELEASE"} OBVIOUS
    <2> QED BY <1>2, <2>1, <2>2
  <1>3. CASE "RCV" \notin s /\ "RELEASE" \in s
    <2>1. s \cap {"RCV", "RELEASE"} = {"RELEASE"} BY <1>3
    <2>2. {"RELEASE"} # {} /\ {"RELEASE"} # {"RCV", "RELEASE"} OBVIOUS
    <2> QED BY <1>3, <2>1, <2>2
  <1>4. CASE "RCV" \notin s /\ "RELEASE" \notin s
    <2>1. s \cap {"RCV", "RELEASE"} = {} BY <1>4
    <2>2. {} # {"RCV", "RELEASE"} OBVIOUS
    <2> QED BY <1>4, <2>1, <2>2
  <1> QED BY <1>1, <1>2, <1>3, <1>4

(* The number of pending causes before and after a step *)
LEMMA PendingCounts ==
  /\ Pending = Two(ints) /\ Pending' = Two(ints')
  /\ Pending \in Nat /\ Pending' \in Nat
  <1>1. Pending = Two(ints) BY TwoCounts DEF Pending
  <1>2. Pending' = Two(ints') BY TwoCounts DEF Pending
  <1>3. \A s : Two(s) \in Nat BY DEF Two, One
  <1> QED BY <1>1, <1>2, <1>3

(* Every length the ring may get is at least 2 *)
LEMMA RingLensType == RingLens \subseteq 2 .. HI_IR_MAX_BUF + 1
  BY IrAssumption DEF IrAssumption, RingLens

(* The places of a thread inside read or IR_IOC_SET_BUF *)
Using(t) ==
  pc[t] \in {"b_head", "b_tail", "test", "loop", "copy", "inc"} \cup WaitPlaces

(* With one owner, a thread inside read or IR_IOC_SET_BUF is the only one,   *)
(* and nobody opens or closes.                                               *)
LEMMA SoleUser ==
  ASSUME ~Shared, OpenInv, Inside, NEW t \in Threads, has[t]
  PROVE  /\ \A u \in Threads : Using(u) => u = t
         /\ \A u \in Threads : ~Holding(u)
  BY DEF OpenInv, Inside, Opened, Using

(* The events of a sequence with one more at its end *)
LEMMA AppendFacts ==
  ASSUME NEW q \in Seq(Events), NEW e \in Events
  PROVE  /\ Len(q) \in Nat /\ Len(Append(q, e)) = Len(q) + 1
         /\ \A j \in 1 .. Len(q) : Append(q, e)[j] = q[j]
         /\ Append(q, e)[Len(q) + 1] = e
         /\ Append(q, e) # <<>>
  OBVIOUS

(* hiir_interrupt stores an event while the ring has room for it: the ring   *)
(* stays a queue, also in the middle of being emptied.                       *)
LEMMA PushKeepsRing ==
  ASSUME TypeOK, Ring, Emptied, Copied, buf_len > 0, Len(unread) + 1 < buf_len,
         NEW e \in Events, Push(e), UNCHANGED <<pc, got>>
  PROVE  Ring' /\ Emptied' /\ Copied' /\ Unmade'
  <1> DEFINE n == Len(unread)
  <1>1. /\ n \in Nat /\ Len(unread') = n + 1
        /\ \A j \in 1 .. n : unread'[j] = unread[j]
        /\ unread'[n + 1] = e /\ unread' # <<>>
    BY AppendFacts DEF TypeOK, Push
  <1>2. /\ buf_len \in Nat \ {0} /\ head \in Nat /\ tail \in Nat
        /\ head \in Slots /\ tail' = tail /\ buf_len' = buf_len
        /\ \A x \in Nat : x < buf_len => x \in Slots
    BY IrAssumption DEF IrAssumption, TypeOK, Slots, Push
  <1>3. \A s \in Slots : buf'[s] = IF s = head THEN e ELSE buf[s]
    BY DEF TypeOK, Push
  <1>4. Ring'
    <2> SUFFICES ASSUME Steady
                 PROVE  /\ tail < buf_len
                        /\ head' = Off(tail + (n + 1))
                        /\ \A j \in 1 .. n + 1 : buf'[Off(tail + (j - 1))] = unread'[j]
      BY <1>1, <1>2 DEF Ring, Steady, Off
    <2>1. tail < buf_len /\ head = Off(tail + n) BY DEF Ring
    <2>2. head' = Off(tail + (n + 1))
      <3>1. head' = IncBuf(head, buf_len) BY DEF Push
      <3>2. head < buf_len BY <1>1, <1>2, <2>1 DEF Off
      <3>3. head' = IF head + 1 < buf_len THEN head + 1 ELSE 0
        BY <1>2, <3>1, <3>2, IncBufIs
      <3> QED BY <1>1, <1>2, <2>1, <3>3 DEF Off
    <2>3. ASSUME NEW j \in 1 .. n + 1 PROVE buf'[Off(tail + (j - 1))] = unread'[j]
      <3>1. Off(tail + (j - 1)) \in Slots
        <4>1. Off(tail + (j - 1)) \in Nat /\ Off(tail + (j - 1)) < buf_len
          BY <1>1, <1>2, <2>1 DEF Off
        <4> QED BY <1>2, <4>1
      <3>2. CASE j = n + 1
        <4>1. Off(tail + (j - 1)) = head BY <1>1, <2>1, <3>2
        <4> QED BY <1>1, <1>2, <1>3, <3>2, <4>1
      <3>3. CASE j # n + 1
        <4>1. j \in 1 .. n BY <1>1, <3>3
        <4>2. Off(tail + (j - 1)) # head BY <1>1, <1>2, <2>1, <4>1 DEF Off
        <4>3. buf[Off(tail + (j - 1))] = unread[j] BY <4>1, <1>1 DEF Ring
        <4> QED BY <1>1, <1>3, <3>1, <4>1, <4>2, <4>3
      <3> QED BY <3>2, <3>3
    <2> QED BY <2>1, <2>2, <2>3
  <1>5. Emptied'
    <2> SUFFICES ASSUME \E t \in Threads : pc[t] \in {"o_rest", "b_tail"}
                 PROVE  /\ head' = n + 1
                        /\ \A j \in 1 .. n + 1 : buf'[j - 1] = unread'[j]
      BY <1>1 DEF Emptied
    <2>1. head = n /\ \A j \in 1 .. n : buf[j - 1] = unread[j] BY DEF Emptied
    <2>2. head' = n + 1
      <3>1. n + 1 \in 0 .. buf_len - 1 BY <1>1, <1>2
      <3> QED BY <1>2, <2>1, <3>1, ModSmall DEF Push, IncBuf
    <2>3. ASSUME NEW j \in 1 .. n + 1 PROVE buf'[j - 1] = unread'[j]
      <3>1. j - 1 \in Slots
        <4>1. j - 1 \in Nat /\ j - 1 < buf_len BY <1>1, <1>2
        <4> QED BY <1>2, <4>1
      <3>2. CASE j = n + 1
        <4>1. j - 1 = head BY <1>1, <2>1, <3>2
        <4> QED BY <1>1, <1>2, <1>3, <3>2, <4>1
      <3>3. CASE j # n + 1
        <4>1. j \in 1 .. n BY <1>1, <3>3
        <4>2. j - 1 # head BY <1>1, <2>1, <4>1
        <4> QED BY <1>1, <1>3, <2>1, <3>1, <4>1, <4>2
      <3> QED BY <3>2, <3>3
    <2> QED BY <2>2, <2>3
  <1>6. Copied'
    <2>1. unread # <<>> => n >= 1 BY DEF TypeOK
    <2>2. unread # <<>> => unread'[1] = unread[1] BY <1>1, <2>1
    <2> QED BY <1>1, <2>2 DEF Copied
  <1> QED BY <1>2, <1>4, <1>5, <1>6 DEF Unmade

(* hiir_read takes the oldest event *)
LEMMA TakeKeepsRing ==
  ASSUME TypeOK, Ring, Steady, buf_len > 0, unread # <<>>, Len(unread) < buf_len,
         tail' = IncBuf(tail, buf_len), unread' = Tail(unread),
         UNCHANGED <<head, buf, buf_len>>
  PROVE  Ring' /\ Len(unread') = Len(unread) - 1
  <1> DEFINE n == Len(unread)
  <1>1. /\ n \in Nat \ {0} /\ Len(unread') = n - 1
        /\ \A j \in 1 .. n - 1 : unread'[j] = unread[j + 1]
    BY DEF TypeOK
  <1>2. buf_len \in Nat \ {0} /\ head \in Nat /\ tail \in Nat
    BY DEF TypeOK, Slots
  <1>3. tail < buf_len /\ head = Off(tail + n) BY DEF Ring
  <1>4. tail' = IF tail + 1 < buf_len THEN tail + 1 ELSE 0
    BY <1>2, <1>3, IncBufIs
  <1>5. tail' < buf_len BY <1>2, <1>4
  <1>6. head = Off(tail' + (n - 1)) BY <1>1, <1>2, <1>3, <1>4 DEF Off
  <1>7. ASSUME NEW j \in 1 .. n - 1 PROVE buf[Off(tail' + (j - 1))] = unread'[j]
    <2>1. Off(tail' + (j - 1)) = Off(tail + ((j + 1) - 1))
      BY <1>1, <1>2, <1>3, <1>4 DEF Off
    <2>2. j + 1 \in 1 .. n BY <1>1
    <2>3. buf[Off(tail + ((j + 1) - 1))] = unread[j + 1] BY <2>2 DEF Ring
    <2> QED BY <1>1, <2>1, <2>3
  <1> QED BY <1>1, <1>5, <1>6, <1>7 DEF Ring, Off

(* A ring emptied by its second assignment holds what came since the first *)
LEMMA EmptiedIsRing ==
  ASSUME TypeOK, Emptied, \E t \in Threads : pc[t] \in {"o_rest", "b_tail"},
         tail' = 0, UNCHANGED <<head, buf, unread>>, buf_len' \in Nat \ {0},
         Len(unread) < buf_len'
  PROVE  Ring'
  <1>1. /\ Len(unread) \in Nat /\ head = Len(unread)
        /\ \A j \in 1 .. Len(unread) : buf[j - 1] = unread[j]
    BY DEF TypeOK, Emptied
  <1>2. \A x \in Nat : x < buf_len' => Off(x)' = x BY DEF Off
  <1>3. ASSUME NEW j \in 1 .. Len(unread) PROVE buf[IF tail' + (j - 1) < buf_len' THEN tail' + (j - 1) ELSE tail' + (j - 1) - buf_len'] = unread[j]
    BY <1>1
  <1> QED BY <1>1, <1>3 DEF Ring, Off

(* The steps that leave the ring, its history and the pending causes alone:  *)
(* with the right places before and after, the ring stays as it is.          *)
LEMMA IdleKeepsFifo ==
  ASSUME TypeOK, FifoInv, UNCHANGED <<ringPart, histVars, got>>,
         Pending' <= Pending, Pending' \in Nat,
         Steady' => Steady,
         \A t \in Threads : pc'[t] \in {"o_rest", "b_tail"} => pc[t] = pc'[t],
         \A t \in Threads : pc'[t] \in {"copy", "inc"} => pc[t] = pc'[t],
         Inside'
  PROVE  FifoInv'
  <1> USE DEF ringVars, ringPart, histVars
  <1>1. RingLens \subseteq Nat /\ Len(unread) \in Nat /\ Pending \in Nat
    BY RingLensType, PendingCounts, IrAssumption DEF IrAssumption, TypeOK
  <1>2. NeverFull'
    <2>1. buf_len' = buf_len /\ unread' = unread OBVIOUS
    <2>2. \A n \in RingLens : Len(unread) + Pending' < n
      BY <1>1 DEF FifoInv, NeverFull
    <2> QED BY <2>1, <2>2 DEF FifoInv, NeverFull
  <1>3. Unmade' BY DEF FifoInv, Unmade
  <1>4. Ring' BY DEF FifoInv, Ring, Off
  <1>5. Emptied' BY DEF FifoInv, Emptied
  <1>6. Copied' BY DEF FifoInv, Copied
  <1> QED BY <1>2, <1>3, <1>4, <1>5, <1>6 DEF FifoInv

(* The receiver and the interrupt routine keep the queue. *)
LEMMA IrqKeepsFifo ==
  ASSUME ~SlowReader, TypeInv, FifoInv,
         \/ \E k \in Keys : Frame(k)
         \/ KeyRelease \/ FrameError \/ Isr \/ RepkeyTimeout
  PROVE  FifoInv'
  <1> USE DEF ringVars, ringPart, WaitPlaces
  <1> USE PendingCounts DEF TypeInv
  <1>0. /\ RingLens \subseteq Nat /\ Len(unread) \in Nat /\ Pending \in Nat
        /\ Pending' \in Nat
    BY RingLensType, IrAssumption DEF IrAssumption, TypeOK
  <1>a. ASSUME MayReceive, Pending' <= Pending + 1, UNCHANGED <<ringPart, histVars, has, got, pc>>
        PROVE  FifoInv'
    <2> USE DEF ringVars, ringPart, histVars
    <2>1. \A n \in RingLens : Len(unread) + Pending + 1 < n
      BY <1>a DEF MayReceive
    <2>2. NeverFull' BY <1>0, <1>a, <2>1 DEF FifoInv, NeverFull
    <2>3. Ring' BY <1>a DEF FifoInv, Ring, Off, Steady
    <2> QED BY <1>a, <2>2, <2>3 DEF FifoInv, Inside, Unmade, Emptied, Copied
  <1>b. ASSUME Pending' <= Pending, UNCHANGED <<ringPart, histVars, has, got, pc>>
        PROVE  FifoInv'
    <2>1. Inside' /\ (Steady' => Steady) BY <1>b DEF FifoInv, Inside, Steady
    <2> QED BY <1>0, <1>b, <2>1, IdleKeepsFifo
  <1>c. ASSUME NEW e \in Events, Push(e), buf_len > 0, Pending' = Pending - 1,
               UNCHANGED <<has, got, pc>>
        PROVE  FifoInv'
    <2>1. Len(unread) + 1 < buf_len BY <1>0, <1>c DEF FifoInv, NeverFull, TypeOK
    <2>2. Ring' /\ Emptied' /\ Copied' /\ Unmade'
      BY <1>c, <2>1, PushKeepsRing DEF FifoInv
    <2>3. Inside' BY <1>c DEF FifoInv, Inside
    <2>4. Len(unread') = Len(unread) + 1 /\ buf_len' = buf_len
      BY <1>c DEF Push, TypeOK
    <2>5. NeverFull' BY <1>0, <1>c, <2>4 DEF FifoInv, NeverFull
    <2> QED BY <2>2, <2>3, <2>5 DEF FifoInv
  <1>1. ASSUME NEW k \in Keys, Frame(k) PROVE FifoInv'
    <2>1. Pending' <= Pending + 1 BY <1>1 DEF Two, One, Frame
    <2> QED BY <1>1, <1>a, <2>1 DEF Frame, locVars
  <1>2. CASE KeyRelease
    <2>1. Pending' <= Pending + 1 BY <1>2 DEF Two, One, KeyRelease
    <2> QED BY <1>2, <1>a, <2>1 DEF KeyRelease, locVars
  <1>3. CASE FrameError
    <2>1. Pending' <= Pending BY <1>3, <1>0 DEF Two, One, FrameError
    <2> QED BY <1>3, <1>b, <2>1 DEF FrameError, locVars
  <1>4. CASE IsrError
    <2>1. Pending' <= Pending BY <1>4, <1>0 DEF Two, One, IsrError, Cause
    <2> QED BY <1>4, <1>b, <2>1 DEF IsrError, Cause, NoPush, locVars
  <1>5. CASE IsrRelease
    <2>1. Pending' = Pending - 1 BY <1>5 DEF Two, One, IsrRelease, Cause
    <2>2. buf_len > 0 BY <1>5 DEF IsrRelease, Cause, RingMade, TypeOK
    <2>3. UNCHANGED <<has, got, pc>> BY <1>5 DEF IsrRelease, Cause, locVars
    <2>4. CASE NoPush BY <1>0, <1>b, <2>1, <2>3, <2>4 DEF NoPush
    <2>5. CASE Push(Event(BufLast.key, TRUE))
      <3>1. Event(BufLast.key, TRUE) \in Events
        BY <2>2, BufLastType DEF Event, Events
      <3> QED BY <1>c, <2>1, <2>2, <2>3, <2>5, <3>1
    <2> QED BY <1>5, <2>4, <2>5 DEF IsrRelease
  <1>6. CASE IsrReceive
    <2>1. Pending' = Pending - 1 BY <1>6 DEF Two, One, IsrReceive, Cause
    <2>2. buf_len > 0 BY <1>6 DEF IsrReceive, Cause, RingMade, TypeOK
    <2>3. UNCHANGED <<has, got, pc>> BY <1>6 DEF IsrReceive, Cause, locVars
    <2>4. CASE NoPush BY <1>0, <1>b, <2>1, <2>3, <2>4 DEF NoPush
    <2>5. CASE Push(Event(data, FALSE))
      <3>1. Event(data, FALSE) \in Events BY EventType DEF TypeOK
      <3> QED BY <1>c, <2>1, <2>2, <2>3, <2>5, <3>1
    <2> QED BY <1>6, <2>4, <2>5 DEF IsrReceive
  <1>7. CASE RepkeyTimeout
    <2>1. Pending' <= Pending BY <1>7, <1>0 DEF Two, One, RepkeyTimeout, irVars
    <2> QED BY <1>7, <1>b, <2>1 DEF RepkeyTimeout, locVars
  <1> QED BY <1>1, <1>2, <1>3, <1>4, <1>5, <1>6, <1>7 DEF Isr

(* A thread that moves without touching the ring, and not into or out of     *)
(* the places that mean something for it                                     *)
LEMMA MoveKeepsFifo ==
  ASSUME TypeOK, FifoInv, NEW t \in Threads, NEW p, pc' = [pc EXCEPT ![t] = p],
         UNCHANGED <<ringPart, histVars, irVars, has, got>>,
         pc[t] \notin {"o_rest", "b_head", "b_tail"},
         p \notin {"o_rest", "b_head", "b_tail", "copy", "inc"},
         p \in {"test", "loop"} \cup WaitPlaces => has[t]
  PROVE  FifoInv'
  <1>1. Pending' = Pending BY DEF Pending, irVars
  <1>2. Inside' BY DEF TypeOK, FifoInv, Inside
  <1>3. Steady' => Steady BY DEF TypeOK, Steady
  <1>4. \A u \in Threads : pc'[u] \in {"o_rest", "b_tail", "copy", "inc"} => pc[u] = pc'[u]
    BY DEF TypeOK
  <1> QED BY <1>1, <1>2, <1>3, <1>4, PendingCounts, IdleKeepsFifo

(* The steps of open, close and IR_IOC_SET_BUF keep the queue. *)
LEMMA OwnerKeepsFifo ==
  ASSUME ~Shared, TypeInv, OpenInv, FifoInv, NEW t \in Threads,
         \/ OpenClose(t)
         \/ \E a \in BufArgs : SetBuf(t, a)
         \/ SetBufHead(t) \/ SetBufTail(t)
  PROVE  FifoInv'
  <1> USE DEF ringVars, ringPart, WaitPlaces
  <1> USE DEF TypeInv, At, Goto
  <1>0. /\ RingLens \subseteq Nat \ {0} /\ DEFAULT_BUF_LEN \in RingLens
        /\ Len(unread) \in Nat /\ Pending \in Nat
    BY SMTT(60), RingLensType, PendingCounts, IrAssumption DEF IrAssumption,
         TypeOK, RingLens
  <1>1. CASE Open(t)
    BY <1>1, MoveKeepsFifo DEF Open, locVars
  <1>2. CASE OpenBusy(t) BY <1>2, MoveKeepsFifo DEF OpenBusy, locVars
  <1>3. CASE OpenHead(t)
    <2>1. Holding(t) /\ \A u \in Threads : ~has[u]
      BY <1>3 DEF OpenHead, Holding, OpenInv, Opened
    <2>2. Inside' BY <1>3, <2>1 DEF OpenHead, FifoInv, Inside, TypeOK
    <2>3. NeverFull'
      <3>1. Pending' = Pending /\ Len(unread') = 0 /\ buf_len' = buf_len
        BY <1>3 DEF OpenHead, irVars, Pending
      <3> QED BY <1>0, <3>1 DEF FifoInv, NeverFull
    <2>4. Unmade' BY <1>3 DEF OpenHead, FifoInv, Unmade
    <2>5. Ring'
      <3>1. pc'[t] = "o_rest" BY <1>3 DEF OpenHead, TypeOK
      <3> QED BY <3>1 DEF Ring, Steady
    <2>6. Emptied' BY <1>3 DEF OpenHead, Emptied
    <2>7. Copied'
      <3>1. \A u \in Threads : pc'[u] \notin {"copy", "inc"}
        BY <1>3, <2>1 DEF OpenHead, FifoInv, Inside, TypeOK
      <3> QED BY <3>1 DEF Copied
    <2> QED BY <2>2, <2>3, <2>4, <2>5, <2>6, <2>7 DEF FifoInv
  <1>4. CASE OpenRest(t)
    <2>1. Holding(t) /\ \A u \in Threads : ~has[u]
      BY <1>4 DEF OpenRest, Holding, OpenInv, Opened
    <2>2. \A u \in Threads : ~Using(u)' /\ pc'[u] # "o_rest"
      BY <1>4, <2>1 DEF OpenRest, FifoInv, Inside, Using, OpenInv, Holding,
           TypeOK
    <2>3. Inside' /\ Emptied' /\ Copied'
      BY <2>2 DEF Inside, Emptied, Copied, Using
    <2>4. NeverFull'
      <3>1. Pending' = Pending /\ unread' = unread /\ buf_len' = DEFAULT_BUF_LEN
        BY <1>4 DEF OpenRest, histVars, Pending
      <3> QED BY <1>0, <3>1 DEF FifoInv, NeverFull
    <2>5. Unmade' BY <1>0, <1>4 DEF OpenRest, Unmade
    <2>6. Ring'
      <3>1. buf_len' \in Nat \ {0} /\ Len(unread) < buf_len'
        BY <1>0, <1>4 DEF OpenRest, FifoInv, NeverFull
      <3> QED BY <1>4, <3>1, EmptiedIsRing DEF OpenRest, histVars, FifoInv
    <2> QED BY <2>3, <2>4, <2>5, <2>6 DEF FifoInv
  <1>5. CASE Release(t)
    <2>1. Inside' BY <1>5 DEF Release, FifoInv, Inside, TypeOK
    <2>2. Pending' = Pending BY <1>5 DEF Release, Pending
    <2>3. Steady' => Steady BY <1>5 DEF Release, TypeOK, Steady
    <2>4. \A u \in Threads : pc'[u] \in {"o_rest", "b_tail", "copy", "inc"} => pc[u] = pc'[u]
      BY <1>5 DEF Release, TypeOK
    <2>5. UNCHANGED <<ringPart, histVars, got>> BY <1>5 DEF Release, locVars
    <2> QED BY <1>0, <2>1, <2>2, <2>3, <2>4, <2>5, IdleKeepsFifo
  <1>6. CASE ReleaseInc(t) BY <1>6, MoveKeepsFifo DEF ReleaseInc, locVars
  <1>7. ASSUME NEW a \in BufArgs, SetBuf(t, a) PROVE FifoInv'
    <2>1. has[t] /\ pc[t] = "idle" /\ pc' = [pc EXCEPT ![t] = "b_head"] /\ has' = has
      BY <1>7 DEF SetBuf
    <2>2. \A u \in Threads : ~Using(u) /\ ~Holding(u)
      BY <2>1, SoleUser DEF FifoInv, Using
    <2>3. \A u \in Threads : pc'[u] \notin {"o_rest", "b_tail", "copy", "inc"}
      BY <2>1, <2>2 DEF Using, Holding, TypeOK
    <2>4. Inside' BY <2>1 DEF FifoInv, Inside, TypeOK
    <2>5. NeverFull'
      <3>1. a + 1 \in RingLens
        BY <1>7, IrAssumption DEF IrAssumption, SetBuf, RingLens
      <3>2. Pending' = Pending /\ unread' = unread /\ buf_len' = a + 1
        BY <1>7 DEF SetBuf, histVars, irVars, Pending
      <3> QED BY <3>1, <3>2 DEF FifoInv, NeverFull
    <2>6. Unmade' BY <1>7, IrAssumption DEF IrAssumption, SetBuf, Unmade
    <2>7. Ring'
      <3>1. pc'[t] = "b_head" BY <2>1 DEF TypeOK
      <3> QED BY <3>1 DEF Ring, Steady
    <2> QED BY <2>3, <2>4, <2>5, <2>6, <2>7 DEF FifoInv, Emptied, Copied
  <1>8. CASE SetBufHead(t)
    <2>1. /\ has[t] /\ pc[t] = "b_head" /\ pc' = [pc EXCEPT ![t] = "b_tail"]
          /\ has' = has /\ buf_len # 0
      BY <1>8 DEF SetBufHead, FifoInv, Inside, RingMade
    <2>2. \A u \in Threads \ {t} : ~Using(u) BY <2>1, SoleUser DEF FifoInv
    <2>3. Inside' BY <2>1 DEF FifoInv, Inside, TypeOK
    <2>4. NeverFull'
      <3>1. Pending' = Pending /\ Len(unread') = 0 /\ buf_len' = buf_len
        BY <1>8 DEF SetBufHead, irVars, Pending
      <3> QED BY <1>0, <3>1 DEF FifoInv, NeverFull
    <2>5. Unmade' BY <1>8, <2>1 DEF SetBufHead, Unmade
    <2>6. Ring'
      <3>1. pc'[t] = "b_tail" BY <2>1 DEF TypeOK
      <3> QED BY <3>1 DEF Ring, Steady
    <2>7. Emptied' BY <1>8 DEF SetBufHead, Emptied
    <2>8. Copied'
      <3>1. \A u \in Threads : pc'[u] \notin {"copy", "inc"}
        BY <2>1, <2>2 DEF Using, TypeOK
      <3> QED BY <3>1 DEF Copied
    <2> QED BY <2>3, <2>4, <2>5, <2>6, <2>7, <2>8 DEF FifoInv
  <1>9. CASE SetBufTail(t)
    <2>1. /\ has[t] /\ pc[t] = "b_tail" /\ pc' = [pc EXCEPT ![t] = "idle"]
          /\ has' = has /\ buf_len # 0
      BY <1>9 DEF SetBufTail, FifoInv, Inside, RingMade
    <2>2. \A u \in Threads : pc'[u] \notin {"o_rest", "b_tail", "copy", "inc"}
      <3>1. \A u \in Threads \ {t} : ~Using(u) /\ ~Holding(u)
        BY <2>1, SoleUser DEF FifoInv
      <3> QED BY <2>1, <3>1 DEF Using, Holding, TypeOK
    <2>3. Inside' BY <2>1 DEF FifoInv, Inside, TypeOK
    <2>4. NeverFull' /\ Unmade'
      <3>1. Pending' = Pending /\ unread' = unread /\ buf_len' = buf_len
        BY <1>9 DEF SetBufTail, irVars, histVars, Pending
      <3> QED BY <2>1, <3>1 DEF FifoInv, NeverFull, Unmade
    <2>5. Ring'
      <3>1. buf_len' \in Nat \ {0} /\ Len(unread) < buf_len'
        BY <1>0, <1>9, <2>1 DEF SetBufTail, FifoInv, NeverFull
      <3> QED BY <1>9, <2>1, <3>1, EmptiedIsRing DEF SetBufTail, histVars,
               FifoInv
    <2> QED BY <2>2, <2>3, <2>4, <2>5 DEF FifoInv, Emptied, Copied
  <1> QED BY <1>1, <1>2, <1>3, <1>4, <1>5, <1>6, <1>7, <1>8, <1>9 DEF OpenClose

(* The steps of hiir_read keep the queue. *)
LEMMA ReaderKeepsFifo ==
  ASSUME ~Shared, TypeInv, OpenInv, FifoInv, NEW t \in Threads,
         \/ \E n \in 0 .. MaxRead : Read(t, n)
         \/ Reading(t) \/ ReadSignalled(t)
  PROVE  FifoInv'
  <1> USE DEF ringVars, ringPart, WaitPlaces
  <1> USE DEF TypeInv, At, Goto
  <1>0. /\ RingLens \subseteq Nat \ {0}
        /\ Len(unread) \in Nat /\ Pending \in Nat
    BY RingLensType, PendingCounts, IrAssumption DEF IrAssumption, TypeOK
  (* A thread inside read is alone, the ring is steady and has a length *)
  <1>a. ASSUME pc[t] \in {"loop", "copy", "inc"}
        PROVE  /\ has[t] /\ Steady /\ buf_len > 0 /\ Len(unread) < buf_len
               /\ \A u \in Threads \ {t} : ~Using(u) /\ ~Holding(u)
    <2>1. has[t] BY <1>a DEF FifoInv, Inside
    <2>2. \A u \in Threads : (u # t => ~Using(u)) /\ ~Holding(u)
      BY <2>1, SoleUser DEF FifoInv
    <2>3. Steady BY <1>a, <2>2 DEF Steady, Using, Holding
    <2>4. buf_len # 0 BY <1>a DEF RingMade
    <2>5. buf_len \in RingLens BY <2>4 DEF FifoInv, NeverFull
    <2>6. Len(unread) < buf_len BY <1>0, <2>5 DEF FifoInv, NeverFull
    <2> QED BY <1>0, <2>1, <2>2, <2>3, <2>5, <2>6
  <1>1. ASSUME NEW n \in 0 .. MaxRead, Read(t, n) PROVE FifoInv'
    BY <1>1, MoveKeepsFifo DEF Read, locVars
  <1>2. CASE WaitStep(t)
    <2>1. has[t] BY <1>2, WaitSteps DEF FifoInv, Inside
    <2> QED BY <1>2, <2>1, WaitSteps, MoveKeepsFifo DEF WaitPlaces, locVars
  <1>5. CASE ReadLoop(t)
    <2>1. CASE head # tail /\ room[t] > 0
      <3>1. /\ pc[t] = "loop" /\ pc' = [pc EXCEPT ![t] = "copy"]
            /\ UNCHANGED <<ringPart, histVars, irVars, has, got>>
        BY <1>5, <2>1 DEF ReadLoop, Move, locVars
      <3>2. unread # <<>>
        <4>1. head = Off(tail + Len(unread)) /\ tail < buf_len
          BY <1>a, <3>1 DEF FifoInv, Ring
        <4>2. Len(unread) # 0 BY <2>1, <4>1 DEF Off, TypeOK, Slots
        <4> QED BY <4>2
      <3>3. Inside' BY <1>a, <3>1 DEF FifoInv, Inside, TypeOK
      <3>4. Steady' => Steady BY <1>a, <3>1
      <3>5. Pending' = Pending BY <3>1 DEF irVars, Pending
      <3>6. NeverFull' /\ Unmade'
        BY <3>1, <3>5 DEF FifoInv, NeverFull, Unmade, ringVars, ringPart, histVars
      <3>7. Ring' BY <3>1, <3>4 DEF FifoInv, Ring, Off, ringVars, ringPart, histVars
      <3>8. Emptied' BY <3>1 DEF FifoInv, Emptied, ringVars, ringPart, histVars, TypeOK
      <3>9. Copied'
        BY <3>1, <3>2 DEF FifoInv, Copied, ringVars, ringPart, histVars, TypeOK
      <3> QED BY <3>3, <3>6, <3>7, <3>8, <3>9 DEF FifoInv
    <2>2. CASE ~(head # tail /\ room[t] > 0)
      BY <1>5, <2>2, MoveKeepsFifo DEF ReadLoop, Move, locVars
    <2> QED BY <2>1, <2>2
  <1>6. CASE ReadCopy(t)
    <2>1. /\ pc[t] = "copy" /\ pc' = [pc EXCEPT ![t] = "inc"]
          /\ UNCHANGED <<ringPart, histVars, irVars, has>>
          /\ got' = [got EXCEPT ![t] = buf[tail]]
      BY <1>6 DEF ReadCopy
    <2>2. unread # <<>> /\ Len(unread) >= 1
      BY <2>1 DEF FifoInv, Copied, TypeOK
    <2>3. buf[tail] = unread[1]
      <3>1. 1 \in 1 .. Len(unread) BY <1>0, <2>2
      <3>2. tail < buf_len /\ buf[Off(tail + (1 - 1))] = unread[1]
        BY <1>a, <2>1, <3>1 DEF FifoInv, Ring
      <3>3. Off(tail + (1 - 1)) = tail BY <3>2 DEF Off, TypeOK, Slots
      <3> QED BY <3>2, <3>3
    <2>4. Inside' BY <1>a, <2>1 DEF FifoInv, Inside, TypeOK
    <2>5. Steady' => Steady BY <1>a, <2>1
    <2>6. Pending' = Pending BY <2>1 DEF irVars, Pending
    <2>7. NeverFull' /\ Unmade'
      BY <2>1, <2>6 DEF FifoInv, NeverFull, Unmade, ringVars, ringPart, histVars
    <2>8. Ring' BY <2>1, <2>5 DEF FifoInv, Ring, Off, ringVars, ringPart, histVars
    <2>9. Emptied' BY <2>1 DEF FifoInv, Emptied, ringVars, ringPart, histVars, TypeOK
    <2>10. Copied'
      <3>1. \A u \in Threads \ {t} : pc'[u] = pc[u] /\ got'[u] = got[u]
        BY <2>1 DEF TypeOK
      <3>2. got'[t] = unread[1] BY <2>1, <2>3 DEF TypeOK
      <3> QED BY <2>1, <2>2, <3>1, <3>2 DEF FifoInv, Copied, histVars
    <2> QED BY <2>4, <2>7, <2>8, <2>9, <2>10 DEF FifoInv
  <1>7. CASE ReadInc(t)
    <2>1. /\ pc[t] = "inc" /\ pc' = [pc EXCEPT ![t] = "loop"]
          /\ UNCHANGED <<head, buf, buf_len, irVars, has>>
          /\ tail' = IncBuf(tail, buf_len)
      BY <1>7 DEF ReadInc
    <2>2. unread # <<>> /\ unread' = Tail(unread)
      BY <1>7, <2>1 DEF ReadInc, FifoInv, Copied
    <2>3. Ring' /\ Len(unread') = Len(unread) - 1
      BY <1>a, <2>1, <2>2, TakeKeepsRing DEF FifoInv
    <2>4. \A u \in Threads : pc'[u] \notin {"o_rest", "b_tail", "copy", "inc"}
      BY <1>a, <2>1 DEF Using, Holding, TypeOK
    <2>5. Inside' BY <1>a, <2>1 DEF FifoInv, Inside, TypeOK
    <2>6. Pending' = Pending BY <2>1 DEF irVars, Pending
    <2>7. NeverFull' BY <1>0, <2>1, <2>3, <2>6 DEF FifoInv, NeverFull
    <2>8. Unmade' BY <1>a, <2>1 DEF Unmade
    <2> QED BY <2>3, <2>4, <2>5, <2>7, <2>8 DEF FifoInv, Emptied, Copied
  <1> QED BY <1>1, <1>2, <1>5, <1>6, <1>7 DEF Reading, WaitStep

LEMMA FifoStep ==
  ASSUME ~Shared, ~SlowReader, TypeInv, OpenInv, FifoInv, [Next]_vars
  PROVE  FifoInv'
  <1> USE DEF ringVars, ringPart, WaitPlaces
  <1>1. ASSUME NEW t \in Threads, Thread(t) PROVE FifoInv'
    <2>1. ASSUME NEW b \in BOOLEAN, SetEnableKeyup(t, b) \/ SetEnableRepkey(t, b)
          PROVE  FifoInv'
      <3>1. UNCHANGED <<ringPart, histVars, irVars, has, got, pc>>
        BY <2>1 DEF SetEnableKeyup, SetEnableRepkey, locVars
      <3>2. Inside' /\ (Steady' => Steady) BY <3>1 DEF FifoInv, Inside, Steady
      <3>3. Pending' = Pending BY <3>1 DEF irVars, Pending
      <3> QED BY <3>1, <3>2, <3>3, PendingCounts, IdleKeepsFifo DEF TypeInv
    <2> QED BY <1>1, <2>1, OwnerKeepsFifo, ReaderKeepsFifo, IrAssumption
            DEF IrAssumption, Thread, OpenClose
  <1>2. CASE UNCHANGED vars
    <2>1. UNCHANGED <<ringPart, histVars, irVars, has, got, pc>>
      BY <1>2 DEF vars, locVars
    <2>2. Inside' /\ (Steady' => Steady) BY <2>1 DEF FifoInv, Inside, Steady
    <2>3. Pending' = Pending BY <2>1 DEF irVars, Pending
    <2> QED BY <2>1, <2>2, <2>3, PendingCounts, IdleKeepsFifo DEF TypeInv
  <1> QED BY <1>1, <1>2, IrqKeepsFifo DEF Next

LEMMA FifoInit == Init => FifoInv
  <1> USE DEF WaitPlaces
  <1> SUFFICES ASSUME Init PROVE FifoInv OBVIOUS
  <1>1. Pending = 0
    <2>1. Two({}) = 0 BY DEF Two, One
    <2> QED BY <2>1, PendingCounts DEF Init
  <1>2. NeverFull
    BY <1>1, RingLensType, IrAssumption DEF IrAssumption, Init, NeverFull
  <1>3. Ring /\ Emptied /\ Copied /\ Inside /\ Unmade
    BY DEF Init, Ring, Emptied, Copied, Inside, Unmade
  <1> QED BY <1>2, <1>3 DEF FifoInv

(* The ring as the invariant describes it is the queue of RingInv *)
LEMMA FifoIsRing == TypeInv /\ FifoInv => RingInv
  <1> SUFFICES ASSUME TypeInv, FifoInv PROVE RingInv OBVIOUS
  <1>1. RingIsFifo
    <2> SUFFICES ASSUME Steady, buf_len > 0
                 PROVE  /\ (head + buf_len - tail) % buf_len = Len(unread)
                        /\ \A j \in 1 .. Len(unread) :
                             buf[(tail + j - 1) % buf_len] = unread[j]
      BY DEF RingIsFifo
    <2>1. /\ buf_len \in Nat \ {0} /\ tail \in Nat /\ Len(unread) \in Nat
          /\ tail < buf_len /\ head = Off(tail + Len(unread))
      BY DEF TypeInv, TypeOK, Slots, FifoInv, Ring
    <2>2. Len(unread) < buf_len
      <3>1. buf_len \in RingLens /\ Pending \in Nat
        BY <2>1, PendingCounts DEF FifoInv, NeverFull
      <3> QED BY <2>1, <3>1 DEF FifoInv, NeverFull
    <2>3. \A x \in Nat : x < 2 * buf_len => x % buf_len = Off(x)
      <3> SUFFICES ASSUME NEW x \in Nat, x < 2 * buf_len PROVE x % buf_len = Off(x)
        OBVIOUS
      <3>1. CASE x < buf_len
        <4>1. x \in 0 .. buf_len - 1 BY <2>1, <3>1
        <4> QED BY <2>1, <3>1, <4>1, ModSmall DEF Off
      <3>2. CASE x >= buf_len
        <4>1. x \in buf_len .. 2 * buf_len - 1 BY <2>1, <3>2
        <4>2. x % buf_len = x - buf_len BY <2>1, <4>1, ModWrap
        <4>3. Off(x) = x - buf_len BY <2>1, <3>2 DEF Off
        <4> QED BY <4>2, <4>3
      <3> QED BY <2>1, <3>1, <3>2
    <2>4. (head + buf_len - tail) % buf_len = Len(unread)
      <3>1. /\ head + buf_len - tail \in Nat
            /\ head + buf_len - tail < 2 * buf_len
            /\ Off(head + buf_len - tail) = Len(unread)
        BY <2>1, <2>2 DEF Off
      <3> QED BY <2>3, <3>1
    <2>5. ASSUME NEW j \in 1 .. Len(unread)
          PROVE  buf[(tail + j - 1) % buf_len] = unread[j]
      <3>1. tail + j - 1 = tail + (j - 1) /\ tail + (j - 1) \in Nat
            /\ tail + (j - 1) < 2 * buf_len
        BY <2>1, <2>2
      <3>2. buf[Off(tail + (j - 1))] = unread[j] BY DEF FifoInv, Ring
      <3> QED BY <2>3, <3>1, <3>2
    <2> QED BY <2>4, <2>5
  <1>2. DeliveredInOrder BY DEF FifoInv, Copied, DeliveredInOrder
  <1> QED BY <1>1, <1>2 DEF RingInv

(* While one thread at a time uses the file and reads before the ring is     *)
(* full, no lock is needed: for every ring length, whatever interrupts come  *)
(* between the steps of open, IR_IOC_SET_BUF and read, the ring is a queue   *)
(* and a read takes its oldest event.                                        *)
THEOREM RingSafe == ASSUME ~Shared, ~SlowReader PROVE SafeSpec => []RingInv
  <1>1. TypeInv /\ OpenInv /\ FifoInv /\ [Next]_vars => TypeInv' /\ OpenInv' /\ FifoInv'
    BY TypeStep, OpenStep, FifoStep DEF TypeInv
  <1>2. Init => TypeInv /\ OpenInv /\ FifoInv BY TypeInit, OpenInit, FifoInit
  <1> QED BY <1>1, <1>2, FifoIsRing, PTL DEF SafeSpec

-----------------------------------------------------------------------------
(* A receiver that is on belongs to an open file, repeats are checked with   *)
(* the flag, and the key that is held down is the one stored last, unless    *)
(* its frame is still to be served.                                          *)
HeldIsLast ==
  /\ enabled <=> Opened # {}
  /\ ~enabled => ints = {} /\ held = None
  /\ enabled => enable_repkey
  /\ enabled /\ repkey_checkflag => last # None
  /\ held # None => last # None \/ "RCV" \in ints
  /\ "RELEASE" \in ints => last # None

(* BUF_LAST is the event stored last *)
LastInRing ==
  /\ buf_len > 0 => head < buf_len
  /\ last # None => buf_len > 0 /\ BufLast = last

(* A file being opened finds the ring that was just emptied; nobody changes  *)
(* its length                                                                *)
FreshRing ==
  \A t \in Threads : /\ pc[t] = "o_rest" => head = 0 /\ last = None
                     /\ pc[t] \notin {"b_head", "b_tail"}

UpInv == HeldIsLast /\ LastInRing /\ FreshRing

(* What UpFollowsDown says of one step *)
UpAction == last' # last /\ last' # None /\ last'.up =>
              last # None /\ ~last.up /\ last.key = last'.key

(* An event that was stored is BUF_LAST *)
LEMMA PushIsLast ==
  ASSUME TypeOK, buf_len > 0, head < buf_len, NEW e \in Events, Push(e)
  PROVE  LastInRing' /\ last' = e /\ last' # None
  <1>1. buf_len \in Nat \ {0} /\ head \in 0 .. buf_len - 1 /\ head \in Slots
    BY DEF TypeOK, Slots
  <1>2. head' = IF head + 1 < buf_len THEN head + 1 ELSE 0
    BY <1>1, IncBufIs DEF Push
  <1>3. buf_len' = buf_len /\ last' = e /\ buf'[head] = e
    BY <1>1 DEF Push, TypeOK
  <1>4. (IF head' = 0 THEN buf_len' - 1 ELSE head' - 1) = head
    BY <1>1, <1>2, <1>3
  <1>5. BufLast' = e BY <1>3, <1>4 DEF BufLast
  <1>6. e # None BY IrAssumption DEF IrAssumption, Events
  <1> QED BY <1>1, <1>2, <1>3, <1>5, <1>6 DEF LastInRing

(* The steps that store nothing and leave the receiver on or off *)
LEMMA IdleKeepsUp ==
  ASSUME UpInv, UNCHANGED <<ringPart, histVars, irVars, has>>,
         enabled => enable_repkey', repkey_checkflag' => repkey_checkflag,
         \A t \in Threads : pc'[t] \in {"o_rest", "b_head", "b_tail"} => pc[t] = pc'[t]
  PROVE  UpInv' /\ UpAction
  <1> USE DEF ringVars, ringPart, histVars, irVars, UpInv
  <1>1. HeldIsLast' BY DEF HeldIsLast, Opened
  <1>2. LastInRing' BY DEF LastInRing, BufLast
  <1>3. FreshRing' BY DEF FreshRing
  <1> QED BY <1>1, <1>2, <1>3 DEF UpAction

LEMMA UpStep ==
  ASSUME PromptIrq, BufArgs = {}, Repkeys \subseteq {TRUE},
         TypeInv, OpenInv, UpInv, [Next]_vars
  PROVE  UpInv' /\ UpAction
  <1> USE DEF ringVars, ringPart, WaitPlaces
  <1> USE DEF TypeInv, At, UpInv
  (* While the receiver is on, no file is being opened *)
  <1>a. ASSUME enabled, pc' = pc PROVE FreshRing'
    BY <1>a DEF OpenInv, HeldIsLast, Holding, FreshRing
  <1>1. ASSUME NEW k \in Keys, Frame(k) PROVE UpInv' /\ UpAction
    <2>1. enabled /\ ints = {} BY <1>1 DEF Frame, MayReceive
    <2>2. /\ ints' = {"RCV"} /\ held' = k
          /\ UNCHANGED <<ringPart, optVars, histVars, has, enabled>>
      BY <1>1, <2>1 DEF Frame
    <2>3. HeldIsLast' BY <2>1, <2>2 DEF HeldIsLast, Opened, optVars, histVars
    <2>4. LastInRing' BY <2>2 DEF LastInRing, BufLast, ringVars, ringPart, histVars
    <2>5. FreshRing' BY <1>1, <1>a, <2>1 DEF Frame
    <2> QED BY <2>2, <2>3, <2>4, <2>5 DEF UpAction, histVars
  <1>2. CASE KeyRelease
    <2>1. enabled /\ ints = {} /\ held # None BY <1>2 DEF KeyRelease, MayReceive
    <2>2. /\ ints' = {"RELEASE"} /\ held' = None
          /\ UNCHANGED <<ringPart, optVars, histVars, has, enabled>>
      BY <1>2, <2>1 DEF KeyRelease
    <2>3. HeldIsLast' BY <2>1, <2>2 DEF HeldIsLast, Opened, optVars, histVars
    <2>4. LastInRing' BY <2>2 DEF LastInRing, BufLast, ringVars, ringPart, histVars
    <2>5. FreshRing' BY <1>2, <1>a, <2>1 DEF KeyRelease
    <2> QED BY <2>2, <2>3, <2>4, <2>5 DEF UpAction, histVars
  <1>3. CASE FrameError
    <2>1. enabled /\ ints = {} BY <1>3 DEF FrameError
    <2>2. /\ ints' = {"FRAMERR"}
          /\ UNCHANGED <<ringPart, optVars, histVars, has, enabled, held>>
      BY <1>3, <2>1 DEF FrameError
    <2>3. HeldIsLast' BY <2>1, <2>2 DEF HeldIsLast, Opened, optVars, histVars
    <2>4. LastInRing' BY <2>2 DEF LastInRing, BufLast, ringVars, ringPart, histVars
    <2>5. FreshRing' BY <1>3, <1>a, <2>1 DEF FrameError
    <2> QED BY <2>2, <2>3, <2>4, <2>5 DEF UpAction, histVars
  <1>4. CASE IsrError
    <2>1. /\ "RCV" \in ints => "RCV" \in ints'
          /\ ints' \subseteq ints
          /\ UNCHANGED <<ringPart, optVars, histVars, has, enabled, held>>
      BY <1>4 DEF IsrError, Cause, NoPush
    <2>2. HeldIsLast' BY <2>1 DEF HeldIsLast, Opened, optVars, histVars
    <2>3. LastInRing' BY <2>1 DEF LastInRing, BufLast, ringVars, ringPart, histVars
    <2>4. FreshRing' BY <1>4, <1>a, <2>1 DEF IsrError, Cause, HeldIsLast
    <2> QED BY <2>1, <2>2, <2>3, <2>4 DEF UpAction, histVars
  <1>5. CASE IsrRelease
    <2>1. /\ "RELEASE" \in ints /\ ints' = ints \ {"RELEASE"}
          /\ UNCHANGED <<has, enabled, held, enable_repkey>> /\ ~repkey_checkflag'
      BY <1>5 DEF IsrRelease, Cause
    <2>2. last # None /\ BufLast = last /\ buf_len > 0 /\ head < buf_len
      BY <2>1 DEF HeldIsLast, LastInRing
    <2>f. FreshRing' BY <1>5, <1>a, <2>1 DEF IsrRelease, Cause, HeldIsLast
    <2>3. CASE NoPush
      <3>1. HeldIsLast'
        BY <2>1, <2>2, <2>3 DEF NoPush, HeldIsLast, Opened, histVars
      <3>2. LastInRing'
        BY <2>3 DEF NoPush, LastInRing, BufLast, ringVars, ringPart, histVars
      <3> QED BY <2>3, <2>f, <3>1, <3>2 DEF UpAction, NoPush, histVars
    <2>4. CASE ~BufLast.up /\ Push(Event(BufLast.key, TRUE))
      <3>1. Event(BufLast.key, TRUE) \in Events
        BY <2>2, BufLastType DEF Event, Events
      <3>2. LastInRing' /\ last' = Event(BufLast.key, TRUE) /\ last' # None
        BY <2>2, <2>4, <3>1, PushIsLast
      <3>3. HeldIsLast' BY <2>1, <2>2, <3>2 DEF HeldIsLast, Opened
      <3>4. UpAction BY <2>2, <2>4, <3>2 DEF UpAction, Event
      <3> QED BY <2>f, <3>2, <3>3, <3>4
    <2> QED BY <1>5, <2>3, <2>4 DEF IsrRelease
  <1>6. CASE IsrReceive
    <2>1. /\ ints = {"RCV"} /\ ints' = {} /\ UNCHANGED <<has, enabled, held>>
      BY <1>6 DEF IsrReceive, Cause
    <2>2. enabled /\ enable_repkey /\ buf_len > 0 /\ head < buf_len
      BY <2>1 DEF HeldIsLast, LastInRing, RingMade, TypeOK
    <2>f. FreshRing' BY <1>6, <1>a, <2>2 DEF IsrReceive, Cause
    <2>3. CASE Repeated
      <3>1. UNCHANGED <<ringPart, histVars, optVars>>
        BY <1>6, <2>3 DEF IsrReceive, NoPush
      <3>2. last # None BY <2>2, <2>3 DEF Repeated, HeldIsLast
      <3>3. HeldIsLast'
        BY <2>1, <3>1, <3>2 DEF HeldIsLast, Opened, histVars, optVars
      <3>4. LastInRing' BY <3>1 DEF LastInRing, BufLast, ringVars, ringPart, histVars
      <3> QED BY <2>f, <3>1, <3>3, <3>4 DEF UpAction, histVars
    <2>4. CASE ~Repeated
      <3>1. Event(data, FALSE) \in Events BY EventType DEF TypeOK
      <3>2. Push(Event(data, FALSE)) /\ enable_repkey' = enable_repkey
        BY <1>6, <2>4 DEF IsrReceive
      <3>3. LastInRing' /\ last' = Event(data, FALSE) /\ last' # None
        BY <2>2, <3>1, <3>2, PushIsLast
      <3>4. HeldIsLast' BY <2>1, <2>2, <3>2, <3>3 DEF HeldIsLast, Opened
      <3>5. UpAction BY <3>3 DEF UpAction, Event
      <3> QED BY <2>f, <3>3, <3>4, <3>5
    <2> QED BY <2>3, <2>4
  <1>7. CASE RepkeyTimeout
    BY <1>7, IdleKeepsUp DEF RepkeyTimeout, HeldIsLast
  <1>8. ASSUME NEW t \in Threads, Thread(t) PROVE UpInv' /\ UpAction
    <2> USE DEF Goto
    <2>1. CASE OpenHead(t)
      <3>1. ~enabled
        BY <2>1 DEF OpenHead, OpenInv, Holding, Opened, HeldIsLast
      <3>2. HeldIsLast'
        BY <2>1, <3>1 DEF OpenHead, HeldIsLast, Opened, irVars
      <3>3. LastInRing' BY <2>1 DEF OpenHead, LastInRing, TypeOK
      <3>4. FreshRing' BY <2>1 DEF OpenHead, FreshRing, TypeOK
      <3> QED BY <2>1, <3>2, <3>3, <3>4 DEF OpenHead, UpAction
    <2>2. CASE OpenRest(t)
      <3>1. Opened = {} /\ ~enabled /\ ints = {} /\ held = None
        BY <2>2 DEF OpenRest, OpenInv, Holding, HeldIsLast
      <3>2. t \in Opened' BY <2>2 DEF OpenRest, Opened
      <3>3. HeldIsLast' BY <2>2, <3>1, <3>2 DEF OpenRest, HeldIsLast
      <3>4. head = 0 /\ last = None BY <2>2 DEF OpenRest, FreshRing
      <3>5. buf_len' = DEFAULT_BUF_LEN /\ UNCHANGED <<head, last>>
        BY <2>2 DEF OpenRest, histVars
      <3>6. LastInRing' BY <3>4, <3>5, IrAssumption DEF IrAssumption, LastInRing
      <3>7. FreshRing' BY <2>2, <3>4, <3>5 DEF OpenRest, FreshRing, TypeOK
      <3> QED BY <3>3, <3>5, <3>6, <3>7 DEF UpAction
    <2>3. CASE Release(t)
      <3>1. /\ Opened' = {} /\ ~enabled' /\ held' = None /\ ints = {} /\ ints' = {}
            /\ UNCHANGED <<ringPart, histVars>>
        BY <2>3 DEF Release, Opened
      <3>2. HeldIsLast' BY <3>1 DEF HeldIsLast
      <3>3. LastInRing' BY <3>1 DEF LastInRing, BufLast, ringVars, ringPart, histVars
      <3>4. FreshRing'
        BY <2>3, <3>1 DEF Release, FreshRing, TypeOK, ringVars, ringPart, histVars
      <3> QED BY <3>1, <3>2, <3>3, <3>4 DEF UpAction, histVars
    <2>4. CASE Open(t) \/ OpenBusy(t) \/ ReleaseInc(t)
      <3>1. UNCHANGED <<ringPart, histVars, irVars, has, optVars>>
        BY <2>4 DEF Open, OpenBusy, ReleaseInc
      <3>2. \A u \in Threads : pc'[u] \in {"o_rest", "b_head", "b_tail"} => pc[u] = pc'[u]
        BY <2>4 DEF Open, OpenBusy, ReleaseInc, TypeOK
      <3> QED BY <3>1, <3>2, IdleKeepsUp DEF optVars, HeldIsLast
    <2>5. ASSUME NEW b \in Keyups, SetEnableKeyup(t, b) PROVE UpInv' /\ UpAction
      BY <2>5, IdleKeepsUp DEF SetEnableKeyup, HeldIsLast
    <2>6. ASSUME NEW b \in Repkeys, SetEnableRepkey(t, b) PROVE UpInv' /\ UpAction
      <3>1. b = TRUE OBVIOUS
      <3> QED BY <2>6, <3>1, IdleKeepsUp DEF SetEnableRepkey
    <2>7. CASE SetBufHead(t) \/ SetBufTail(t)
      BY <2>7 DEF SetBufHead, SetBufTail, FreshRing
    <2>8. ASSUME NEW n \in 0 .. MaxRead, Read(t, n) PROVE UpInv' /\ UpAction
      <3>1. \A u \in Threads : pc'[u] \in {"o_rest", "b_head", "b_tail"} => pc[u] = pc'[u]
        BY <2>8 DEF Read, TypeOK
      <3> QED BY <2>8, <3>1, IdleKeepsUp DEF Read, optVars, HeldIsLast
    <2>9. CASE WaitStep(t) \/ ReadLoop(t)
      <3>1. UNCHANGED <<ringPart, histVars, irVars, has, optVars>>
        BY <2>9, WaitSteps DEF ReadLoop, Move
      <3>2. \A u \in Threads : pc'[u] \in {"o_rest", "b_head", "b_tail"} => pc[u] = pc'[u]
        BY <2>9, WaitSteps DEF ReadLoop, Move, TypeOK, WaitPlaces
      <3> QED BY <3>1, <3>2, IdleKeepsUp DEF optVars, HeldIsLast
    <2>10. CASE ReadCopy(t)
      <3>1. \A u \in Threads : pc'[u] \in {"o_rest", "b_head", "b_tail"} => pc[u] = pc'[u]
        BY <2>10 DEF ReadCopy, TypeOK
      <3> QED BY <2>10, <3>1, IdleKeepsUp DEF ReadCopy, optVars, HeldIsLast
    <2>11. CASE ReadInc(t)
      <3>1. /\ UNCHANGED <<head, buf, buf_len, last, irVars, has, optVars>>
            /\ \A u \in Threads : pc'[u] \in {"o_rest", "b_head", "b_tail"} => pc[u] = pc'[u]
        BY <2>11 DEF ReadInc, TypeOK
      <3>2. HeldIsLast' BY <3>1 DEF HeldIsLast, Opened, irVars, optVars
      <3>3. LastInRing' BY <3>1 DEF LastInRing, BufLast
      <3>4. FreshRing' BY <3>1 DEF FreshRing
      <3> QED BY <3>1, <3>2, <3>3, <3>4 DEF UpAction
    <2> QED BY <1>8, <2>1, <2>2, <2>3, <2>4, <2>5, <2>6, <2>7, <2>8, <2>9,
             <2>10, <2>11
            DEF Thread, Reading, WaitStep
  <1>9. CASE UNCHANGED vars BY <1>9, IdleKeepsUp DEF vars, optVars, HeldIsLast
  <1> QED BY <1>1, <1>2, <1>3, <1>4, <1>5, <1>6, <1>7, <1>8, <1>9 DEF Next, Isr

LEMMA UpInit == Init => UpInv
  BY DEF Init, UpInv, HeldIsLast, LastInRing, FreshRing, Opened

(* With interrupts served at once, repeats checked by time and the ring left *)
(* at one length, HIIR_KEY_UP is stored only for the key stored down last,   *)
(* and once, for any number of threads that open and close the device.       *)
THEOREM UpSafe ==
  ASSUME PromptIrq, BufArgs = {}, Repkeys \subseteq {TRUE}
  PROVE  SafeSpec => UpFollowsDown
  <1>1. TypeInv /\ OpenInv /\ UpInv /\ [Next]_vars => TypeInv' /\ OpenInv' /\ UpInv'
    BY TypeStep, OpenStep, UpStep DEF TypeInv
  <1>2. Init => TypeInv /\ OpenInv /\ UpInv BY TypeInit, OpenInit, UpInit
  <1>3. SafeSpec => [](TypeInv /\ OpenInv /\ UpInv)
    BY <1>1, <1>2, PTL DEF SafeSpec
  <1>4. TypeInv /\ OpenInv /\ UpInv /\ [Next]_vars =>
          [last' # last /\ last' # None /\ last'.up =>
             last # None /\ ~last.up /\ last.key = last'.key]_vars
    BY UpStep DEF UpAction
  <1> QED BY <1>3, <1>4, PTL DEF SafeSpec, UpFollowsDown
=============================================================================
