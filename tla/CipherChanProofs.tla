-------------------------- MODULE CipherChanProofs --------------------------
(***************************************************************************)
(* Proofs about CipherChan for every ring size, every number of packets    *)
(* and both CPU arrangements.                                              *)
(*                                                                         *)
(* Two invariants carry the proofs.  Inv, the ring and the counters, holds *)
(* whatever a caller keeps outstanding.  ConfigInv adds, for callers that  *)
(* keep key and direction while packets are outstanding, what key, mode,   *)
(* direction and IV each packet in the ring has.                           *)
(***************************************************************************)
EXTENDS CipherChan, TLAPS

(* The invariant the induction carries: the types and RingInv *)
Inv == TypeOK /\ RingInv

(* DRV_Cipher_Init establishes the invariant *)
THEOREM InitInv == Init => Inv
  <1> SUFFICES ASSUME Init PROVE Inv OBVIOUS
  <1> USE ChanAssumption DEF ChanAssumption, Init
  <1>1. ConfigTypeOK
    BY DEF ConfigTypeOK, CtrlBlocks, Wants
  <1>2. RingTypeOK
    <2>1. 0 \in Slots BY DEF Slots
    <2>2. node \in [Slots -> [task : Nat, iv : IVs \cup {NULL}]] OBVIOUS
    <2> QED BY <2>1, <2>2 DEF RingTypeOK
  <1>3. RingInv
    BY DEF RingInv, CountersAgree, NoLostInterrupt, RingIntact, LocalsAgree,
        Unreturned, Head, Wrap, Filled, Saved
  <1> QED BY <1>1, <1>2, <1>3 DEF Inv, TypeOK

(* Every step of the caller, the engine and the interrupt routine keeps the  *)
(* types of the configuration                                                *)
THEOREM ConfigTypeStep == TypeOK /\ [Next]_vars => ConfigTypeOK'
  <1> SUFFICES ASSUME TypeOK, [Next]_vars PROVE ConfigTypeOK' OBVIOUS
  <1> USE ChanAssumption DEF ChanAssumption, TypeOK, ConfigTypeOK, softVars,
      ringVars, cntVars, intVars,
       cfgVars, hwVars, callVars, isrVars, histVars
  <1>1. CASE OpenChn BY <1>1 DEF OpenChn
  <1>2. CASE CloseChn BY <1>2 DEF CloseChn
  <1>3. ASSUME NEW c \in CtrlBlocks, ConfigChn(c) PROVE ConfigTypeOK'
    BY <1>3 DEF ConfigChn, WasOpened, CtrlValue, CtrlBlocks
  <1>4. ASSUME NEW pKey \in Keys \cup {NULL}, NEW pIV \in IVs \cup {NULL},
      NEW dec \in BOOLEAN, CreatTask(pKey, pIV, dec) PROVE ConfigTypeOK'
    BY <1>4 DEF CreatTask, WasOpened, CtrlBlocks, Changed
  <1>5. CASE GetBusyCnt BY <1>5 DEF GetBusyCnt
  <1>6. CASE FillNode BY <1>6 DEF FillNode, CtrlBlocks, Wants
  <1>7. CASE SetKey BY <1>7 DEF SetKey, CtrlBlocks
  <1>8. CASE SetCtrl BY <1>8 DEF SetCtrl, CtrlValue, CtrlBlocks
  <1>9. CASE SaveNode BY <1>9 DEF SaveNode
  <1>10. CASE Kick BY <1>10 DEF Kick
  <1>11. CASE Process BY <1>11 DEF Process
  <1>12. CASE ISR
    BY <1>12 DEF ISR, IsrEnter, IsrClear, IsrGetFull, IsrCallBack, IsrSetEmpty,
        IsrSetFull, IsrSetOutCnt
  <1>13. CASE UNCHANGED vars BY <1>13 DEF vars
  <1> QED BY <1>1, <1>2, <1>3, <1>4, <1>5, <1>6, <1>7, <1>8, <1>9, <1>10,
      <1>11, <1>12, <1>13 DEF Next, StartMultiPkgChn

(* Stepping a ring index keeps it in the ring *)
LEMMA NextPtrInSlots == \A h \in Slots : NextPtr(h) \in Slots
  BY ChanAssumption DEF ChanAssumption, Slots, NextPtr

(* Distinct offsets from a position are distinct entries of the ring *)
LEMMA WrapInjective ==
  \A h, j, k \in Slots : j # k => Wrap(h + j) # Wrap(h + k)
  BY ChanAssumption DEF ChanAssumption, Slots, Wrap

(* Stepping a position and stepping an offset are the same thing *)
LEMMA WrapFacts ==
  \A h, j \in Slots : /\ Wrap(h + j) \in Slots
                      /\ Wrap(NextPtr(h) + j) = Wrap(h + (j + 1))
                      /\ NextPtr(Wrap(h + j)) = Wrap(h + (j + 1))
  BY ChanAssumption DEF ChanAssumption, Slots, Wrap, NextPtr

(* The first entry is at offset zero *)
LEMMA WrapZero == 0 \in Slots /\ \A h \in Slots : Wrap(h + 0) = h
  BY ChanAssumption DEF ChanAssumption, Slots, Wrap

(* Every step keeps the types of the ring and the four parts of RingInv: one *)
(* case per action, one step per part                                        *)
THEOREM RingStep == Inv /\ [Next]_vars => RingTypeOK' /\ RingInv'
  <1> SUFFICES ASSUME Inv, [Next]_vars PROVE RingTypeOK' /\ RingInv' OBVIOUS
  <1> USE ChanAssumption, InflightAssumption
      DEF ChanAssumption, InflightAssumption, Inv, TypeOK, RingTypeOK, RingInv,
          softVars, ringVars, cntVars, intVars, cfgVars, hwVars, callVars,
              isrVars, histVars
  <1>1. CASE OpenChn
    <2> USE <1>1 DEF OpenChn, CallerRuns, Inflight
    <2>1. RingTypeOK' BY DEF Slots, CountersAgree, LocalsAgree, Unreturned
    <2>2. CountersAgree' BY DEF CountersAgree, LocalsAgree, Unreturned,
        NoLostInterrupt, RingIntact, Head, Wrap, Slots
    <2>3. NoLostInterrupt' BY DEF NoLostInterrupt, CountersAgree, LocalsAgree,
        Unreturned
    <2>4. LocalsAgree' BY DEF LocalsAgree, CountersAgree, NoLostInterrupt,
        Unreturned
    <2>5. RingIntact' BY DEF RingIntact, Head, Wrap, Filled, Saved,
        LocalsAgree, CountersAgree, Slots
    <2> QED BY <2>1, <2>2, <2>3, <2>4, <2>5
  <1>2. CASE CloseChn
    <2> USE <1>2 DEF CloseChn, CallerRuns, Inflight
    <2>1. RingTypeOK' BY DEF Slots, CountersAgree, LocalsAgree, Unreturned
    <2>2. CountersAgree' BY DEF CountersAgree, LocalsAgree, Unreturned,
        NoLostInterrupt, RingIntact, Head, Wrap, Slots
    <2>3. NoLostInterrupt' BY DEF NoLostInterrupt, CountersAgree, LocalsAgree,
        Unreturned
    <2>4. LocalsAgree' BY DEF LocalsAgree, CountersAgree, NoLostInterrupt,
        Unreturned
    <2>5. RingIntact' BY DEF RingIntact, Head, Wrap, Filled, Saved,
        LocalsAgree, CountersAgree, Slots
    <2> QED BY <2>1, <2>2, <2>3, <2>4, <2>5
  <1>3. CASE GetBusyCnt
    <2> USE <1>3 DEF GetBusyCnt, CallerRuns, Inflight, RingHasRoom
    <2>1. RingTypeOK' BY DEF Slots, CountersAgree, LocalsAgree, Unreturned
    <2>2. CountersAgree' BY DEF CountersAgree, LocalsAgree, Unreturned,
        NoLostInterrupt, RingIntact, Head, Wrap, Slots
    <2>3. NoLostInterrupt' BY DEF NoLostInterrupt, CountersAgree, LocalsAgree,
        Unreturned
    <2>4. LocalsAgree' BY DEF LocalsAgree, CountersAgree, NoLostInterrupt,
        Unreturned
    <2>5. RingIntact' BY DEF RingIntact, Head, Wrap, Filled, Saved,
        LocalsAgree, CountersAgree, Slots
    <2> QED BY <2>1, <2>2, <2>3, <2>4, <2>5
  <1>4. CASE FillNode
    <2> USE <1>4 DEF FillNode, CallerRuns, Inflight
    <2>1. RingTypeOK'
      <3>1. [task |-> sub + 1, iv |-> IF bIVChange THEN stCtrl.iv ELSE NULL]
              \in [task : Nat, iv : IVs \cup {NULL}]
        BY DEF ConfigTypeOK, CtrlBlocks
      <3>2. node' \in [Slots -> [task : Nat, iv : IVs \cup {NULL}]]
        BY <3>1
      <3> QED BY <3>2
    <2>2. CountersAgree' BY DEF CountersAgree, Unreturned
    <2>3. NoLostInterrupt' BY DEF NoLostInterrupt
    <2>4. LocalsAgree' BY DEF LocalsAgree
    <2>5. RingIntact'
      <3>1. Head' = Head /\ Head \in Slots BY DEF Head
      <3>2. Saved = 0 /\ Saved' = 0 /\ Filled = 0 /\ Filled' = 1 BY DEF Saved,
          Filled
      <3>3. sub - cb \in Slots BY DEF LocalsAgree, CountersAgree, Slots
      <3>4. inPtr = Wrap(Head + (sub - cb)) BY <3>1, <3>2, <3>3 DEF RingIntact,
          Slots
      <3>5. ASSUME NEW k \in Slots
            PROVE  /\ k < (sub - cb) + 1 => node'[Wrap(Head + k)].task = cb + k + 1
                   /\ k < (sub - cb) => witchSoftChn[Wrap(Head + k)] = "own"
        <4>1. k < (sub - cb) => node[Wrap(Head + k)].task = cb + k + 1 /\ witchSoftChn[Wrap(Head + k)] = "own"
          BY <3>2, <3>3 DEF RingIntact, Slots
        <4>2. Wrap(Head + k) \in Slots BY <3>1, WrapFacts
        <4>3. CASE k = sub - cb
          <5>1. node'[inPtr].task = sub + 1 OBVIOUS
          <5> QED BY <5>1, <4>3, <3>3, <3>4 DEF Slots
        <4>4. CASE k # sub - cb
          <5>1. Wrap(Head + k) # inPtr BY <4>4, <3>1, <3>3, <3>4, WrapInjective
          <5>2. node'[Wrap(Head + k)] = node[Wrap(Head + k)] BY <5>1, <4>2
          <5> QED BY <5>2, <4>1, <4>4, <3>3 DEF Slots
        <4> QED BY <4>3, <4>4
      <3> QED BY <3>1, <3>2, <3>5 DEF RingIntact, Slots
    <2> QED BY <2>1, <2>2, <2>3, <2>4, <2>5
  <1>5. CASE SetKey
    <2> USE <1>5 DEF SetKey, CallerRuns, Inflight
    <2>1. RingTypeOK' BY DEF Slots, CountersAgree, LocalsAgree, Unreturned
    <2>2. CountersAgree' BY DEF CountersAgree, LocalsAgree, Unreturned,
        NoLostInterrupt, RingIntact, Head, Wrap, Slots
    <2>3. NoLostInterrupt' BY DEF NoLostInterrupt, CountersAgree, LocalsAgree,
        Unreturned
    <2>4. LocalsAgree' BY DEF LocalsAgree, CountersAgree, NoLostInterrupt,
        Unreturned
    <2>5. RingIntact' BY DEF RingIntact, Head, Wrap, Filled, Saved,
        LocalsAgree, CountersAgree, Slots
    <2> QED BY <2>1, <2>2, <2>3, <2>4, <2>5
  <1>6. CASE SetCtrl
    <2> USE <1>6 DEF SetCtrl, CallerRuns, Inflight
    <2>1. RingTypeOK' BY DEF Slots, CountersAgree, LocalsAgree, Unreturned
    <2>2. CountersAgree' BY DEF CountersAgree, LocalsAgree, Unreturned,
        NoLostInterrupt, RingIntact, Head, Wrap, Slots
    <2>3. NoLostInterrupt' BY DEF NoLostInterrupt, CountersAgree, LocalsAgree,
        Unreturned
    <2>4. LocalsAgree' BY DEF LocalsAgree, CountersAgree, NoLostInterrupt,
        Unreturned
    <2>5. RingIntact' BY DEF RingIntact, Head, Wrap, Filled, Saved,
        LocalsAgree, CountersAgree, Slots
    <2> QED BY <2>1, <2>2, <2>3, <2>4, <2>5
  <1>7. CASE SaveNode
    <2> USE <1>7 DEF SaveNode, CallerRuns, Inflight
    <2>1. RingTypeOK' BY NextPtrInSlots
    <2>2. CountersAgree' BY DEF CountersAgree, Unreturned
    <2>3. NoLostInterrupt' BY DEF NoLostInterrupt
    <2>4. LocalsAgree' BY DEF LocalsAgree
    <2>5. RingIntact'
      <3>1. Head' = Head /\ Head \in Slots BY DEF Head
      <3>2. Saved = 0 /\ Saved' = 1 /\ Filled = 1 /\ Filled' = 1 BY DEF Saved,
          Filled
      <3>3. sub - cb \in Slots BY DEF LocalsAgree, CountersAgree, Slots
      <3>4. inPtr = Wrap(Head + (sub - cb)) BY <3>1, <3>2, <3>3 DEF RingIntact,
          Slots
      <3>5. inPtr' = Wrap(Head + ((sub - cb) + 1)) BY <3>1, <3>3, <3>4, WrapFacts
      <3>6. ASSUME NEW k \in Slots, k < (sub - cb) + 1
            PROVE  witchSoftChn'[Wrap(Head + k)] = "own"
        <4>1. k < (sub - cb) => witchSoftChn[Wrap(Head + k)] = "own"
          BY <3>2, <3>3 DEF RingIntact, Slots
        <4>2. Wrap(Head + k) \in Slots BY <3>1, WrapFacts
        <4>3. CASE Wrap(Head + k) = inPtr BY <4>2, <4>3
        <4>4. CASE Wrap(Head + k) # inPtr
          <5>1. k # sub - cb BY <4>4, <3>4
          <5>2. k < sub - cb BY <5>1, <3>3, <3>6 DEF Slots
          <5> QED BY <5>2, <4>1, <4>2, <4>4
        <4> QED BY <4>3, <4>4
      <3>7. hwPtr' = Wrap(Head' + (hwDone' - cb')) BY <3>1 DEF RingIntact
      <3>8. inPtr' = Wrap(Head' + (sub' - cb') + Saved') BY <3>1, <3>2, <3>3,
          <3>5 DEF Slots
      <3>9. \A k \in Slots : k < (sub' - cb') + Filled' => node'[Wrap(Head' + k)].task = cb' + k + 1
        BY <3>1, <3>2 DEF RingIntact, Slots
      <3> QED BY <3>1, <3>2, <3>6, <3>7, <3>8, <3>9 DEF RingIntact, Slots
    <2> QED BY <2>1, <2>2, <2>3, <2>4, <2>5
  <1>8. CASE Kick
    <2> USE <1>8 DEF Kick, CallerRuns, Inflight
    <2>1. RingTypeOK' OBVIOUS
    <2>2. CountersAgree' BY DEF CountersAgree, LocalsAgree, Unreturned
    <2>3. NoLostInterrupt' BY DEF NoLostInterrupt, LocalsAgree
    <2>4. LocalsAgree' BY DEF LocalsAgree
    <2>5. RingIntact'
      <3>1. Head' = Head /\ Head \in Slots BY DEF Head
      <3>2. Saved = 1 /\ Saved' = 0 /\ Filled = 1 /\ Filled' = 0 BY DEF Saved,
          Filled
      <3>3. sub - cb \in Slots BY DEF LocalsAgree, CountersAgree, Slots
      <3>4. inPtr = Wrap(Head + (sub - cb) + 1) /\ hwPtr = Wrap(Head + (hwDone - cb))
        BY <3>2 DEF RingIntact
      <3>5. (sub' - cb') + Saved' = (sub - cb) + Saved BY <3>2, <3>3
      <3>6. Head + (sub' - cb') + Saved' = Head + (sub - cb) + 1
        BY <3>1, <3>2, <3>3 DEF Slots
      <3> QED BY <3>1, <3>2, <3>3, <3>4, <3>5, <3>6 DEF RingIntact, Slots
    <2> QED BY <2>1, <2>2, <2>3, <2>4, <2>5
  <1>9. CASE Process
    <2> USE <1>9 DEF Process
    <2>1. Head' = Head /\ Head \in Slots /\ Saved' = Saved /\ Filled' = Filled
          /\ Saved \in 0 .. 1 /\ Filled \in 0 .. 1
      BY DEF Head, Saved, Filled
    <2>2. hwDone - cb \in Slots /\ hwDone < sub BY DEF CountersAgree, Slots
    <2>3. hwPtr = Wrap(Head + (hwDone - cb)) BY DEF RingIntact
    <2>4. hwDone' = hwDone + 1
      <3>1. node[Wrap(Head + (hwDone - cb))].task = cb + (hwDone - cb) + 1
        <4>1. hwDone - cb < (sub - cb) + Filled BY <2>1, <2>2
        <4> QED BY <4>1, <2>2 DEF RingIntact, Slots
      <3> QED BY <3>1, <2>2, <2>3 DEF Slots
    <2>5. hwPtr' = Wrap(Head + ((hwDone - cb) + 1)) BY <2>1, <2>2, <2>3, WrapFacts
    <2>6. RingTypeOK' BY <2>4, NextPtrInSlots
    <2>7. CountersAgree' BY <2>2, <2>4 DEF CountersAgree, Unreturned
    <2>8. NoLostInterrupt' BY DEF NoLostInterrupt
    <2>9. LocalsAgree' BY <2>4 DEF LocalsAgree
    <2>10. RingIntact'
      <3>1. hwDone' - cb' = (hwDone - cb) + 1 BY <2>4
      <3> QED BY <3>1, <2>1, <2>5 DEF RingIntact
    <2> QED BY <2>6, <2>7, <2>8, <2>9, <2>10
  <1>10. CASE IsrEnter
    <2> USE <1>10 DEF IsrEnter, CallerRuns, Inflight, IntStatus
    <2>1. RingTypeOK' BY DEF Slots, CountersAgree, LocalsAgree, Unreturned
    <2>2. CountersAgree' BY DEF CountersAgree, LocalsAgree, Unreturned,
        NoLostInterrupt, RingIntact, Head, Wrap, Slots
    <2>3. NoLostInterrupt' BY DEF NoLostInterrupt, CountersAgree, LocalsAgree,
        Unreturned
    <2>4. LocalsAgree' BY DEF LocalsAgree, CountersAgree, NoLostInterrupt,
        Unreturned
    <2>5. RingIntact' BY DEF RingIntact, Head, Wrap, Filled, Saved,
        LocalsAgree, CountersAgree, Slots
    <2> QED BY <2>1, <2>2, <2>3, <2>4, <2>5
  <1>11. CASE IsrClear
    <2> USE <1>11 DEF IsrClear, CallerRuns, Inflight
    <2>1. RingTypeOK' BY DEF Slots, CountersAgree, LocalsAgree, Unreturned
    <2>2. CountersAgree' BY DEF CountersAgree, LocalsAgree, Unreturned,
        NoLostInterrupt, RingIntact, Head, Wrap, Slots
    <2>3. NoLostInterrupt' BY DEF NoLostInterrupt, CountersAgree, LocalsAgree,
        Unreturned
    <2>4. LocalsAgree' BY DEF LocalsAgree, CountersAgree, NoLostInterrupt,
        Unreturned
    <2>5. RingIntact' BY DEF RingIntact, Head, Wrap, Filled, Saved,
        LocalsAgree, CountersAgree, Slots
    <2> QED BY <2>1, <2>2, <2>3, <2>4, <2>5
  <1>12. CASE IsrGetFull
    <2> USE <1>12 DEF IsrGetFull, CallerRuns, Inflight
    <2>1. RingTypeOK' BY DEF Slots, CountersAgree, LocalsAgree, Unreturned
    <2>2. CountersAgree' BY DEF CountersAgree, LocalsAgree, Unreturned,
        NoLostInterrupt, RingIntact, Head, Wrap, Slots
    <2>3. NoLostInterrupt' BY DEF NoLostInterrupt, CountersAgree, LocalsAgree,
        Unreturned
    <2>4. LocalsAgree' BY DEF LocalsAgree, CountersAgree, NoLostInterrupt,
        Unreturned
    <2>5. RingIntact' BY DEF RingIntact, Head, Wrap, Filled, Saved,
        LocalsAgree, CountersAgree, Slots
    <2> QED BY <2>1, <2>2, <2>3, <2>4, <2>5
  <1>13. CASE IsrCallBack
    <2> USE <1>13 DEF IsrCallBack
    <2>1. Head = idx /\ Head' = NextPtr(idx) /\ Saved' = Saved /\ Filled' = Filled
          /\ Saved \in 0 .. 1 /\ Filled \in 0 .. 1 /\ Saved <= Filled
      BY DEF Head, Saved, Filled
    <2>2. cb < hwDone /\ cb < sub BY DEF LocalsAgree, CountersAgree
    <2>3. cb' = cb + 1
      <3>1. 0 \in Slots /\ Wrap(Head + 0) = idx BY <2>1, WrapZero
      <3>2. 0 < (sub - cb) + Filled BY <2>1, <2>2
      <3>3. node[Wrap(Head + 0)].task = cb + 0 + 1 BY <3>1, <3>2
          DEF RingIntact, Slots
      <3> QED BY <3>1, <3>3
    <2>4. RingTypeOK' BY <2>3, NextPtrInSlots
    <2>5. CountersAgree' BY <2>2, <2>3 DEF CountersAgree, Unreturned
    <2>6. NoLostInterrupt' BY <2>3 DEF NoLostInterrupt, LocalsAgree
    <2>7. LocalsAgree' BY <2>2, <2>3 DEF LocalsAgree
    <2>8. RingIntact'
      <3>1. hwPtr' = Wrap(Head' + (hwDone' - cb'))
        <4>1. hwDone - cb' \in Slots /\ hwDone - cb = (hwDone - cb') + 1
          BY <2>2, <2>3 DEF CountersAgree, Slots
        <4> QED BY <4>1, <2>1, WrapFacts DEF RingIntact
      <3>2. (sub - cb) + Saved \in 1 .. CI_MAX_LIST_NUM
        BY <2>1, <2>2 DEF CountersAgree, LocalsAgree, Saved
      <3>3. inPtr' = Wrap(Head' + (sub' - cb') + Saved')
        <4>1. (sub - cb') + Saved \in Slots /\ (sub - cb) + Saved = ((sub - cb') + Saved) + 1
          BY <2>1, <2>2, <2>3, <3>2 DEF Slots
        <4>2. inPtr = Wrap(Head + (((sub - cb') + Saved) + 1))
          BY <2>1, <4>1 DEF RingIntact, Slots
        <4>3. inPtr = Wrap(NextPtr(Head) + ((sub - cb') + Saved))
          BY <2>1, <4>1, <4>2, WrapFacts
        <4>4. NextPtr(Head) + ((sub - cb') + Saved) = Head' + (sub' - cb') + Saved'
          BY <2>1, <2>3, <4>1, NextPtrInSlots DEF Slots
        <4> QED BY <4>3, <4>4
      <3>4. ASSUME NEW k \in Slots
            PROVE  /\ k < (sub' - cb') + Filled' => node'[Wrap(Head' + k)].task = cb' + k + 1
                   /\ k < (sub' - cb') + Saved' => witchSoftChn'[Wrap(Head' + k)] = "own"
        <4>1. Wrap(Head' + k) = Wrap(Head + (k + 1)) BY <2>1, WrapFacts
        <4>2. CASE k + 1 \notin Slots
          <5>1. k + 1 = CI_MAX_LIST_NUM BY <4>2 DEF Slots
          <5>2. (sub - cb) + Filled <= CI_MAX_LIST_NUM BY DEF CountersAgree,
              LocalsAgree, Filled
          <5> QED BY <5>1, <5>2, <2>1, <2>3 DEF Slots
        <4>3. CASE k + 1 \in Slots
          <5>1. /\ k + 1 < (sub - cb) + Filled => node[Wrap(Head + (k + 1))].task = cb + (k + 1) + 1
                /\ k + 1 < (sub - cb) + Saved => witchSoftChn[Wrap(Head + (k + 1))] = "own"
            BY <4>3 DEF RingIntact, Slots
          <5>2. Wrap(Head + (k + 1)) # idx /\ Wrap(Head + (k + 1)) \in Slots
            <6>1. 0 \in Slots /\ k + 1 # 0 BY DEF Slots
            <6> QED BY <6>1, <4>3, <2>1, WrapFacts, WrapInjective, WrapZero
          <5>3. witchSoftChn'[Wrap(Head + (k + 1))] = witchSoftChn[Wrap(Head + (k + 1))]
            BY <5>2
          <5> QED BY <5>1, <5>3, <4>1, <2>1, <2>3 DEF Slots
        <4> QED BY <4>2, <4>3
      <3> QED BY <3>1, <3>3, <3>4 DEF RingIntact, Slots
    <2> QED BY <2>4, <2>5, <2>6, <2>7, <2>8
  <1>14. CASE IsrSetEmpty
    <2> USE <1>14 DEF IsrSetEmpty, CallerRuns, Inflight, Taken
    <2>1. RingTypeOK' BY DEF Slots, CountersAgree, LocalsAgree, Unreturned
    <2>2. CountersAgree' BY DEF CountersAgree, LocalsAgree, Unreturned,
        NoLostInterrupt, RingIntact, Head, Wrap, Slots
    <2>3. NoLostInterrupt' BY DEF NoLostInterrupt, CountersAgree, LocalsAgree,
        Unreturned
    <2>4. LocalsAgree' BY DEF LocalsAgree, CountersAgree, NoLostInterrupt,
        Unreturned
    <2>5. RingIntact' BY DEF RingIntact, Head, Wrap, Filled, Saved,
        LocalsAgree, CountersAgree, Slots
    <2> QED BY <2>1, <2>2, <2>3, <2>4, <2>5
  <1>15. CASE IsrSetFull
    <2> USE <1>15 DEF IsrSetFull, CallerRuns, Inflight, Taken
    <2>1. RingTypeOK' BY DEF Slots, CountersAgree, LocalsAgree, Unreturned
    <2>2. CountersAgree' BY DEF CountersAgree, LocalsAgree, Unreturned,
        NoLostInterrupt, RingIntact, Head, Wrap, Slots
    <2>3. NoLostInterrupt' BY DEF NoLostInterrupt, CountersAgree, LocalsAgree,
        Unreturned
    <2>4. LocalsAgree' BY DEF LocalsAgree, CountersAgree, NoLostInterrupt,
        Unreturned
    <2>5. RingIntact' BY DEF RingIntact, Head, Wrap, Filled, Saved,
        LocalsAgree, CountersAgree, Slots
    <2> QED BY <2>1, <2>2, <2>3, <2>4, <2>5
  <1>16. CASE IsrSetOutCnt
    <2> USE <1>16 DEF IsrSetOutCnt, CallerRuns, Inflight
    <2>1. RingTypeOK' BY DEF Slots, CountersAgree, LocalsAgree, Unreturned
    <2>2. CountersAgree' BY DEF CountersAgree, LocalsAgree, Unreturned,
        NoLostInterrupt, RingIntact, Head, Wrap, Slots
    <2>3. NoLostInterrupt' BY DEF NoLostInterrupt, CountersAgree, LocalsAgree,
        Unreturned
    <2>4. LocalsAgree' BY DEF LocalsAgree, CountersAgree, NoLostInterrupt,
        Unreturned
    <2>5. RingIntact' BY DEF RingIntact, Head, Wrap, Filled, Saved,
        LocalsAgree, CountersAgree, Slots
    <2> QED BY <2>1, <2>2, <2>3, <2>4, <2>5
  <1>17. ASSUME NEW c \in CtrlBlocks, ConfigChn(c) PROVE RingTypeOK' /\ RingInv'
    <2> USE <1>17 DEF ConfigChn, WasOpened, CallerRuns, Inflight
    <2>1. RingTypeOK' BY DEF Slots, CountersAgree, LocalsAgree, Unreturned
    <2>2. CountersAgree' BY DEF CountersAgree, LocalsAgree, Unreturned,
        NoLostInterrupt, RingIntact, Head, Wrap, Slots
    <2>3. NoLostInterrupt' BY DEF NoLostInterrupt, CountersAgree, LocalsAgree,
        Unreturned
    <2>4. LocalsAgree' BY DEF LocalsAgree, CountersAgree, NoLostInterrupt,
        Unreturned
    <2>5. RingIntact' BY DEF RingIntact, Head, Wrap, Filled, Saved,
        LocalsAgree, CountersAgree, Slots
    <2> QED BY <2>1, <2>2, <2>3, <2>4, <2>5
  <1>18. ASSUME NEW pKey \in Keys \cup {NULL}, NEW pIV \in IVs \cup {NULL},
      NEW dec \in BOOLEAN, CreatTask(pKey, pIV, dec) PROVE RingTypeOK' /\ RingInv'
    <2> USE <1>18 DEF CreatTask, WasOpened, CallerRuns, Inflight
    <2>1. RingTypeOK' BY DEF Slots, CountersAgree, LocalsAgree, Unreturned
    <2>2. CountersAgree' BY DEF CountersAgree, LocalsAgree, Unreturned,
        NoLostInterrupt, RingIntact, Head, Wrap, Slots
    <2>3. NoLostInterrupt' BY DEF NoLostInterrupt, CountersAgree, LocalsAgree,
        Unreturned
    <2>4. LocalsAgree' BY DEF LocalsAgree, CountersAgree, NoLostInterrupt,
        Unreturned
    <2>5. RingIntact' BY DEF RingIntact, Head, Wrap, Filled, Saved,
        LocalsAgree, CountersAgree, Slots
    <2> QED BY <2>1, <2>2, <2>3, <2>4, <2>5
  <1>19. CASE UNCHANGED vars
    <2> USE <1>19 DEF vars, CallerRuns, Inflight
    <2>1. RingTypeOK' BY DEF Slots, CountersAgree, LocalsAgree, Unreturned
    <2>2. CountersAgree' BY DEF CountersAgree, LocalsAgree, Unreturned,
        NoLostInterrupt, RingIntact, Head, Wrap, Slots
    <2>3. NoLostInterrupt' BY DEF NoLostInterrupt, CountersAgree, LocalsAgree,
        Unreturned
    <2>4. LocalsAgree' BY DEF LocalsAgree, CountersAgree, NoLostInterrupt,
        Unreturned
    <2>5. RingIntact' BY DEF RingIntact, Head, Wrap, Filled, Saved,
        LocalsAgree, CountersAgree, Slots
    <2> QED BY <2>1, <2>2, <2>3, <2>4, <2>5
  <1> QED BY <1>1, <1>2, <1>3, <1>4, <1>5, <1>6, <1>7, <1>8, <1>9, <1>10,
      <1>11, <1>12, <1>13, <1>14, <1>15, <1>16, <1>17, <1>18, <1>19 DEF Next,
          StartMultiPkgChn, ISR

(* The three facts that make Inv an invariant of every behaviour *)
THEOREM InvHolds == SafeSpec => []Inv
  <1>1. Init => Inv BY InitInv
  <1>2. Inv /\ [Next]_vars => Inv' BY ConfigTypeStep, RingStep DEF Inv, TypeOK
  <1> QED BY <1>1, <1>2, PTL DEF SafeSpec

(* For every ring size the indices of DRV_CipherStartMultiPkgChn and        *)
(* DRV_CipherDataDoneMultiPkg stay in the ring and the registers' counters  *)
(* are never driven below zero.                                             *)
THEOREM TypeCorrect == SafeSpec => []TypeOK
  <1>1. Inv => TypeOK BY DEF Inv
  <1> QED BY <1>1, InvHolds, PTL

(* For every ring size the caller, the engine and the interrupt routine     *)
(* keep the ring intact, the counters in agreement and no completion        *)
(* without an interrupt.                                                    *)
THEOREM RingSafe == SafeSpec => []RingInv
  <1>1. Inv => RingInv BY DEF Inv
  <1> QED BY <1>1, InvHolds, PTL

(* The channel implements the abstract queue: every step of the caller, the *)
(* engine and the interrupt routine accepts, processes or reports the next  *)
(* packet, or leaves the queue as it is.                                    *)
THEOREM ImplementsFifo == SafeSpec => FifoSafe
  <1>1. Init => Fifo!Init BY DEF Init, Fifo!Init
  <1>2. Inv /\ [Next]_vars => [Fifo!Next]_(Fifo!vars)
    <2> SUFFICES ASSUME Inv, [Next]_vars PROVE [Fifo!Next]_(Fifo!vars) OBVIOUS
    <2> USE ChanAssumption
        DEF ChanAssumption, Inv, TypeOK, RingTypeOK, RingInv, histVars, hwVars,
            Fifo!Next, Fifo!vars
    <2>1. CASE Kick
      <3>1. sub - cb < CI_MAX_LIST_NUM BY <2>1 DEF Kick, LocalsAgree
      <3> QED BY <2>1, <3>1 DEF Kick, Fifo!Submit
    <2>2. CASE Process
      <3>1. hwDone < sub /\ hwDone - cb \in Slots BY <2>2 DEF Process,
          CountersAgree, Slots
      <3>2. hwPtr = Wrap(Head + (hwDone - cb)) BY DEF RingIntact
      <3>3. hwDone - cb < (sub - cb) + Filled BY <3>1 DEF Filled
      <3>4. node[hwPtr].task = cb + (hwDone - cb) + 1 BY <3>1, <3>2, <3>3
          DEF RingIntact, Slots
      <3> QED BY <2>2, <3>1, <3>4 DEF Process, Fifo!Process
    <2>3. CASE IsrCallBack
      <3>1. cb < hwDone /\ cb < sub BY <2>3 DEF IsrCallBack, LocalsAgree,
          CountersAgree
      <3>2. Head = idx /\ Wrap(Head + 0) = idx /\ 0 \in Slots
        BY <2>3, WrapZero DEF IsrCallBack, Head
      <3>3. 0 < (sub - cb) + Filled BY <3>1 DEF Filled
      <3>4. node[idx].task = cb + 0 + 1 BY <3>2, <3>3 DEF RingIntact, Slots
      <3> QED BY <2>3, <3>1, <3>4 DEF IsrCallBack, Fifo!Notify
    <2>4. CASE /\ ~Kick /\ ~Process /\ ~IsrCallBack
      BY <2>4 DEF vars, Next, StartMultiPkgChn, ISR, OpenChn, CloseChn, ConfigChn,
         CreatTask, GetBusyCnt, FillNode, SetKey, SetCtrl, SaveNode, IsrEnter,
         IsrClear, IsrGetFull, IsrSetEmpty, IsrSetFull, IsrSetOutCnt
    <2> QED BY <2>1, <2>2, <2>3, <2>4
  <1> QED BY <1>1, <1>2, InvHolds, PTL DEF SafeSpec, FifoSafe, Fifo!SafeSpec

-----------------------------------------------------------------------------
(* Callers that change key, mode and direction only when all their packets  *)
(* have been reported, as the test and the ioctls do (QuietChange).         *)

(* The direction of a packet has been written to the control register *)
CtrlBusy == pc \in {"save", "kick"} \/ hwDone # sub

(* The key register has the configured key, if that is used at all *)
KeyWritten == stCtrl.byCA \/ keyReg = stCtrl.key

(* bIVChange and bKeyChange say what still has to be written for the next    *)
(* packet; while one is about to be accepted or is not processed yet, the    *)
(* registers are those of the configuration.                                 *)
FlagsAgree ==
  /\ pc \in {"save", "kick"} => ~bIVChange
  /\ pc \notin {"save", "kick"} => (bIVChange <=> ivPending)
  /\ pfnCallBack => bKeyChange \/ KeyWritten
  /\ pfnCallBack /\ (CtrlBusy \/ pc = "ctrl") => KeyWritten
  /\ CtrlBusy => ctrlReg = CtrlValue(bDecrypt, stCtrl)

(* The entry was submitted with the configuration in force and has its IV *)
AsConfigured(s) ==
  /\ want[s].key = stCtrl.key /\ want[s].mode = stCtrl.mode
  /\ want[s].byCA = stCtrl.byCA /\ want[s].dec = bDecrypt
  /\ node[s].iv = want[s].iv

(* So are all entries from the next to be reported to the one being filled *)
NodesAgree ==
  \A k \in Slots : k < (sub - cb) + Filled => AsConfigured(Wrap(Head + k))

ConfigInv == FlagsAgree /\ NodesAgree

(* DRV_Cipher_Init establishes it *)
LEMMA InitConfig == Init => ConfigInv
  <1> SUFFICES ASSUME Init PROVE ConfigInv OBVIOUS
  <1> USE DEF Init
  <1>1. FlagsAgree BY DEF FlagsAgree, CtrlBusy
  <1>2. NodesAgree BY DEF NodesAgree, Filled, Slots
  <1> QED BY <1>1, <1>2 DEF ConfigInv

(* A callback reports the packet after the last one reported *)
LEMMA CallBackReports == Inv /\ IsrCallBack => cb' = cb + 1 /\ cb < hwDone
  <1> SUFFICES ASSUME Inv, IsrCallBack PROVE cb' = cb + 1 /\ cb < hwDone OBVIOUS
  <1> USE ChanAssumption
      DEF ChanAssumption, Inv, TypeOK, RingTypeOK, RingInv, IsrCallBack
  <1>1. cb < hwDone /\ cb < sub BY DEF LocalsAgree, CountersAgree
  <1>2. Head = idx /\ Wrap(Head + 0) = idx /\ 0 \in Slots
    BY WrapZero DEF Head
  <1>3. 0 < (sub - cb) + Filled BY <1>1 DEF Filled
  <1>4. node[idx].task = cb + 0 + 1 BY <1>2, <1>3 DEF RingIntact, Slots
  <1> QED BY <1>1, <1>4

(* What the ring's invariant says of the counts that the steps below use *)
LEMMA Counts ==
  Inv => /\ sub \in Nat /\ cb \in Nat /\ hwDone \in Nat
         /\ cb <= hwDone /\ hwDone <= sub
         /\ Head \in Slots /\ Filled \in {0, 1}
         /\ (sub - cb) + Filled <= CI_MAX_LIST_NUM
  BY ChanAssumption
  DEF ChanAssumption, Inv, TypeOK, RingTypeOK, RingInv, CountersAgree, LocalsAgree,
      Head, Filled

(* The engine takes the packet after the last one it finished, which is in  *)
(* the ring                                                                 *)
LEMMA EngineTakes ==
  Inv /\ Process => /\ hwDone' = hwDone + 1 /\ hwDone < sub
                    /\ hwDone - cb \in Slots /\ hwPtr = Wrap(Head + (hwDone - cb))
  <1> SUFFICES ASSUME Inv, Process
      PROVE /\ hwDone' = hwDone + 1 /\ hwDone < sub
            /\ hwDone - cb \in Slots /\ hwPtr = Wrap(Head + (hwDone - cb))
    OBVIOUS
  <1>0. /\ sub \in Nat /\ cb \in Nat /\ hwDone \in Nat /\ cb <= hwDone
        /\ (sub - cb) + Filled <= CI_MAX_LIST_NUM /\ Filled \in {0, 1}
    BY Counts
  <1>1. hwDone < sub
    BY <1>0 DEF Process, Inv, TypeOK, RingTypeOK, RingInv, CountersAgree
  <1>2. hwDone - cb \in Slots
    BY <1>0, <1>1, ChanAssumption DEF ChanAssumption, Slots
  <1>3. hwPtr = Wrap(Head + (hwDone - cb)) BY DEF Inv, RingInv, RingIntact
  <1>4. hwDone - cb < (sub - cb) + Filled BY <1>0, <1>1
  <1>5. node[hwPtr].task = cb + (hwDone - cb) + 1
    BY <1>2, <1>3, <1>4 DEF Inv, RingInv, RingIntact, Slots
  <1> QED BY <1>0, <1>1, <1>2, <1>3, <1>5 DEF Process

(* Every step keeps the flags and the registers in agreement: one case per  *)
(* action                                                                   *)
LEMMA FlagsStep ==
  QuietChange /\ Inv /\ ConfigInv /\ [Next]_vars => FlagsAgree'
  <1> SUFFICES ASSUME QuietChange, Inv, ConfigInv, [Next]_vars
      PROVE FlagsAgree' OBVIOUS
  <1>0. /\ sub \in Nat /\ cb \in Nat /\ cb <= hwDone /\ hwDone <= sub /\ hwDone \in Nat
        /\ bIVChange \in BOOLEAN /\ bKeyChange \in BOOLEAN /\ ivPending \in BOOLEAN
        /\ pfnCallBack \in BOOLEAN /\ bDecrypt \in BOOLEAN /\ stCtrl \in CtrlBlocks
    BY Counts DEF Inv, TypeOK, ConfigTypeOK
  <1>a. FlagsAgree BY DEF ConfigInv
  <1> USE <1>0, <1>a DEF FlagsAgree, CtrlBusy, KeyWritten, softVars, ringVars, cntVars,
      intVars, cfgVars, hwVars, callVars, isrVars, histVars
  <1>1. CASE OpenChn BY <1>1 DEF OpenChn
  <1>2. CASE CloseChn BY <1>2 DEF CloseChn
  <1>3. ASSUME NEW c \in CtrlBlocks, ConfigChn(c) PROVE FlagsAgree'
    <2>1. sub = hwDone BY <1>3 DEF ConfigChn, Inflight
    <2> QED BY <1>3, <2>1 DEF ConfigChn
  <1>4. ASSUME NEW pKey \in Keys \cup {NULL}, NEW pIV \in IVs \cup {NULL},
      NEW dec \in BOOLEAN, CreatTask(pKey, pIV, dec) PROVE FlagsAgree'
    <2>1. /\ pc = "idle" /\ pc' = "busy" /\ sub' = sub /\ hwDone' = hwDone
          /\ keyReg' = keyReg /\ ctrlReg' = ctrlReg /\ pfnCallBack' = pfnCallBack
          /\ bDecrypt' = dec
      BY <1>4 DEF CreatTask
    <2>2. bIVChange' <=> ivPending' BY <1>4, <2>1 DEF CreatTask, Changed
    <2>3. stCtrl'.byCA = stCtrl.byCA /\ stCtrl'.mode = stCtrl.mode
          /\ stCtrl'.key = IF pKey = NULL THEN stCtrl.key ELSE pKey
      BY <1>4 DEF CreatTask, CtrlBlocks
    <2>4. bKeyChange' = (bKeyChange \/ pKey # NULL)
      BY <1>4 DEF CreatTask, Changed
    <2>5. CtrlBusy => stCtrl'.key = stCtrl.key /\ dec = bDecrypt
      BY <1>4, <2>1, <2>3 DEF CreatTask, KeepsSetting, Inflight
    <2>6. pfnCallBack' => bKeyChange' \/ KeyWritten'
      BY <2>1, <2>3, <2>4
    <2> QED BY <2>1, <2>2, <2>3, <2>5, <2>6 DEF CtrlValue
  <1>5. CASE GetBusyCnt BY <1>5 DEF GetBusyCnt
  <1>6. CASE FillNode BY <1>6 DEF FillNode
  <1>7. CASE SetKey BY <1>7 DEF SetKey
  <1>8. CASE SetCtrl BY <1>8 DEF SetCtrl
  <1>9. CASE SaveNode BY <1>9 DEF SaveNode
  <1>10. CASE Kick BY <1>10 DEF Kick
  <1>11. CASE Process
    <2>1. hwDone # sub BY <1>11, EngineTakes
    <2> QED BY <1>11, <2>1 DEF Process
  <1>12. CASE ISR
    BY <1>12 DEF ISR, IsrEnter, IsrClear, IsrGetFull, IsrCallBack, IsrSetEmpty,
        IsrSetFull, IsrSetOutCnt
  <1>13. CASE UNCHANGED vars BY <1>13 DEF vars
  <1> QED BY <1>1, <1>2, <1>3, <1>4, <1>5, <1>6, <1>7, <1>8, <1>9, <1>10,
      <1>11, <1>12, <1>13 DEF Next, StartMultiPkgChn

(* Nothing that an entry is compared with changes, no more entries are in   *)
(* the ring, and the next to be reported is where it was                    *)
Untouched ==
  /\ want' = want /\ node' = node /\ bDecrypt' = bDecrypt
  /\ stCtrl'.key = stCtrl.key /\ stCtrl'.mode = stCtrl.mode /\ stCtrl'.byCA = stCtrl.byCA
  /\ (sub' - cb') + Filled' = (sub - cb) + Filled
  /\ Head' = Head

LEMMA UntouchedAgree == NodesAgree /\ Untouched => NodesAgree'
  BY DEF NodesAgree, AsConfigured, Untouched, Wrap

(* Every step keeps the packets in the ring and the configuration they were *)
(* submitted with in agreement: FillNode writes an entry that no packet is  *)
(* in, a callback leaves one packet less, and the configuration changes     *)
(* when there is none.                                                      *)
LEMMA NodeStep ==
  QuietChange /\ Inv /\ ConfigInv /\ [Next]_vars => NodesAgree'
  <1> SUFFICES ASSUME QuietChange, Inv, ConfigInv, [Next]_vars
      PROVE NodesAgree' OBVIOUS
  <1>0. /\ sub \in Nat /\ cb \in Nat /\ hwDone \in Nat
        /\ cb <= hwDone /\ hwDone <= sub
        /\ Head \in Slots /\ Filled \in {0, 1}
        /\ (sub - cb) + Filled <= CI_MAX_LIST_NUM
    BY Counts
  <1>a. NodesAgree BY DEF ConfigInv
  <1>b. SUFFICES ASSUME ~Untouched PROVE NodesAgree' BY <1>a, UntouchedAgree
  <1> USE DEF Untouched, Head, Filled, softVars, ringVars, cntVars, intVars, cfgVars,
      hwVars, callVars, isrVars, histVars
  <1>1. CASE OpenChn BY <1>1, <1>b DEF OpenChn
  <1>2. CASE CloseChn BY <1>2, <1>b DEF CloseChn
  <1>3. ASSUME NEW c \in CtrlBlocks, ConfigChn(c) PROVE NodesAgree'
    <2>1. sub' - cb' = 0 /\ pc' = "idle" BY <1>3, <1>0 DEF ConfigChn, Inflight
    <2> QED BY <2>1 DEF NodesAgree, Slots
  <1>4. ASSUME NEW pKey \in Keys \cup {NULL}, NEW pIV \in IVs \cup {NULL},
      NEW dec \in BOOLEAN, CreatTask(pKey, pIV, dec) PROVE NodesAgree'
    <2>1. pc = "idle" /\ pc' = "busy" /\ sub' = sub /\ cb' = cb BY <1>4 DEF CreatTask
    <2>2. CASE sub = cb
      <3>1. (sub' - cb') + Filled' = 0 BY <2>1, <2>2, <1>0
      <3> QED BY <3>1 DEF NodesAgree, Slots
    <2>3. CASE sub # cb
      <3>1. stCtrl \in CtrlBlocks BY DEF Inv, TypeOK, ConfigTypeOK
      <3>2. pKey \in {NULL, stCtrl.key} /\ dec = bDecrypt
        BY <1>4, <2>3, <1>0 DEF CreatTask, KeepsSetting, Inflight
      <3>3. stCtrl'.key = stCtrl.key /\ stCtrl'.mode = stCtrl.mode
            /\ stCtrl'.byCA = stCtrl.byCA
        BY <1>4, <3>1, <3>2 DEF CreatTask, CtrlBlocks
      <3> QED BY <1>4, <1>b, <3>2, <3>3 DEF CreatTask
    <2> QED BY <2>2, <2>3
  <1>5. CASE GetBusyCnt BY <1>5, <1>b DEF GetBusyCnt
  <1>6. CASE FillNode
    <2>1. /\ pc = "fill" /\ pc' = "key" /\ sub' = sub /\ cb' = cb /\ Head' = Head
          /\ stCtrl' = stCtrl /\ bDecrypt' = bDecrypt
      BY <1>6 DEF FillNode
    <2>2. sub - cb \in Slots
      BY <2>1, <1>0, ChanAssumption DEF ChanAssumption, Inv, RingInv, LocalsAgree, Slots
    <2>3. inPtr = Wrap(Head + (sub - cb))
      <3>1. Saved = 0 /\ Head + (sub - cb) + Saved = Head + (sub - cb)
        BY <2>1, <2>2, <1>0 DEF Saved, Slots
      <3> QED BY <3>1 DEF Inv, RingInv, RingIntact
    <2>4. /\ node \in [Slots -> [task : Nat, iv : IVs \cup {NULL}]]
          /\ want \in [Slots -> Wants] /\ inPtr \in Slots
      BY DEF Inv, TypeOK, RingTypeOK, ConfigTypeOK
    <2>5. AsConfigured(inPtr)'
      <3>1. bIVChange <=> ivPending BY <2>1 DEF ConfigInv, FlagsAgree
      <3>2. node'[inPtr].iv = IF bIVChange THEN stCtrl.iv ELSE NULL
        BY <1>6, <2>4 DEF FillNode
      <3>3. want'[inPtr] =
              [key |-> stCtrl.key, mode |-> stCtrl.mode, byCA |-> stCtrl.byCA,
               dec |-> bDecrypt, iv  |-> IF ivPending THEN stCtrl.iv ELSE NULL]
        BY <1>6, <2>4 DEF FillNode
      <3>4. inPtr' = inPtr BY <1>6 DEF FillNode
      <3> QED BY <2>1, <3>1, <3>2, <3>3, <3>4 DEF AsConfigured
    <2>6. ASSUME NEW k \in Slots, k < (sub' - cb') + Filled'
          PROVE AsConfigured(Wrap(Head + k))'
      <3>1. k <= sub - cb BY <2>1, <2>2, <2>6, <1>0 DEF Slots
      <3>2. CASE k = sub - cb
        <4>1. Wrap(Head + k)' = inPtr' /\ inPtr' = inPtr
          BY <1>6, <2>1, <2>3, <3>2 DEF Wrap, FillNode
        <4> QED BY <2>5, <4>1 DEF AsConfigured
      <3>3. CASE k # sub - cb
        <4>1. Wrap(Head + k) # inPtr /\ Wrap(Head + k) \in Slots
          BY <1>0, <2>2, <2>3, <3>3, WrapInjective, WrapFacts
        <4>2. AsConfigured(Wrap(Head + k))
          BY <1>a, <1>0, <2>2, <3>1, <3>3 DEF NodesAgree, Slots
        <4>3. Wrap(Head + k)' = Wrap(Head + k) BY <2>1 DEF Wrap
        <4>4. /\ want'[Wrap(Head + k)] = want[Wrap(Head + k)]
              /\ node'[Wrap(Head + k)] = node[Wrap(Head + k)]
          BY <1>6, <2>4, <4>1 DEF FillNode
        <4> QED BY <2>1, <4>2, <4>3, <4>4 DEF AsConfigured
      <3> QED BY <3>2, <3>3
    <2>7. Slots' = Slots BY DEF Slots
    <2> QED BY <2>6, <2>7 DEF NodesAgree
  <1>7. CASE SetKey BY <1>7, <1>b DEF SetKey
  <1>8. CASE SetCtrl BY <1>8, <1>b DEF SetCtrl
  <1>9. CASE SaveNode BY <1>9, <1>b DEF SaveNode
  <1>10. CASE Kick BY <1>10, <1>b, <1>0 DEF Kick
  <1>11. CASE Process BY <1>11, <1>b DEF Process
  <1>12. CASE IsrCallBack
    <2>1. /\ cb' = cb + 1 /\ cb < hwDone /\ sub' = sub /\ Filled' = Filled
          /\ Head' = NextPtr(Head) /\ want' = want /\ node' = node
          /\ stCtrl' = stCtrl /\ bDecrypt' = bDecrypt
      BY <1>12, CallBackReports DEF IsrCallBack
    <2>2. ASSUME NEW k \in Slots, k < (sub' - cb') + Filled'
          PROVE AsConfigured(Wrap(Head + k))'
      <3>1. k + 1 \in Slots /\ k + 1 < (sub - cb) + Filled
        BY <1>0, <2>1, <2>2, ChanAssumption DEF ChanAssumption, Slots
      <3>2. AsConfigured(Wrap(Head + (k + 1))) BY <1>a, <3>1 DEF NodesAgree
      <3>3. Wrap(Head + k)' = Wrap(Head + (k + 1))
        <4>1. Wrap(NextPtr(Head) + k) = Wrap(Head + (k + 1)) BY <1>0, WrapFacts
        <4> QED BY <2>1, <4>1 DEF Wrap
      <3> QED BY <2>1, <3>2, <3>3 DEF AsConfigured
    <2>3. Slots' = Slots BY DEF Slots
    <2> QED BY <2>2, <2>3 DEF NodesAgree
  <1>13. CASE ISR /\ ~IsrCallBack
    BY <1>13, <1>b DEF ISR, IsrEnter, IsrClear, IsrGetFull, IsrSetEmpty, IsrSetFull,
        IsrSetOutCnt
  <1>14. CASE UNCHANGED vars BY <1>14, <1>b DEF vars
  <1> QED BY <1>1, <1>2, <1>3, <1>4, <1>5, <1>6, <1>7, <1>8, <1>9, <1>10,
      <1>11, <1>12, <1>13, <1>14 DEF Next, StartMultiPkgChn

(* The invariant of a channel whose callers change it when it is empty *)
LEMMA ConfigHolds == QuietChange => (SafeSpec => [](Inv /\ ConfigInv))
  <1> SUFFICES ASSUME QuietChange PROVE SafeSpec => [](Inv /\ ConfigInv) OBVIOUS
  <1>1. Init => Inv /\ ConfigInv BY InitInv, InitConfig
  <1>2. (Inv /\ ConfigInv) /\ [Next]_vars => (Inv /\ ConfigInv)'
    BY ConfigTypeStep, RingStep, FlagsStep, NodeStep DEF Inv, TypeOK, ConfigInv
  <1> QED BY <1>1, <1>2, PTL DEF SafeSpec

(* If callers change key, mode and direction only when nothing is           *)
(* outstanding, the engine finds the packets in turn and processes each     *)
(* with the key, mode and direction current when it was submitted, and      *)
(* loads the IV for exactly the packets it was set for, however many are    *)
(* queued and whatever was refused before.                                  *)
THEOREM ProcessedAsAskedHolds == QuietChange => (SafeSpec => ProcessedAsAsked)
  <1> SUFFICES ASSUME QuietChange PROVE SafeSpec => ProcessedAsAsked OBVIOUS
  <1>1. Inv /\ ConfigInv /\ [Next]_vars =>
          [hwDone' # hwDone /\ pfnCallBack =>
             LET w == want[hwPtr] IN
             /\ hwDone' = hwDone + 1
             /\ EngineKey = IF w.byCA THEN "CA" ELSE w.key
             /\ ctrlReg.mode = w.mode /\ ctrlReg.dec = w.dec
             /\ node[hwPtr].iv = w.iv]_vars
    <2> SUFFICES ASSUME Inv, ConfigInv, [Next]_vars, hwDone' # hwDone, pfnCallBack
        PROVE LET w == want[hwPtr] IN
              /\ hwDone' = hwDone + 1
              /\ EngineKey = IF w.byCA THEN "CA" ELSE w.key
              /\ ctrlReg.mode = w.mode /\ ctrlReg.dec = w.dec
              /\ node[hwPtr].iv = w.iv
      OBVIOUS
    <2>1. Process
      BY ZenonT(60) DEF Next, StartMultiPkgChn, ISR, OpenChn, CloseChn, ConfigChn, CreatTask,
         GetBusyCnt, FillNode, SetKey, SetCtrl, SaveNode, Kick, IsrEnter, IsrClear,
         IsrGetFull, IsrCallBack, IsrSetEmpty, IsrSetFull, IsrSetOutCnt, vars, hwVars
    <2>2. /\ hwDone' = hwDone + 1 /\ hwDone < sub
          /\ hwDone - cb \in Slots /\ hwPtr = Wrap(Head + (hwDone - cb))
      BY <2>1, EngineTakes
    <2>3. AsConfigured(hwPtr)
      <3>1. hwDone - cb < (sub - cb) + Filled BY <2>2, Counts
      <3> QED BY <2>2, <3>1 DEF ConfigInv, NodesAgree
    <2>4. /\ ctrlReg.mode = stCtrl.mode /\ ctrlReg.dec = bDecrypt
          /\ ctrlReg.byCA = stCtrl.byCA
          /\ stCtrl.byCA \/ keyReg = stCtrl.key
      <3>1. CtrlBusy BY <2>2, Counts DEF CtrlBusy
      <3> QED BY <3>1 DEF ConfigInv, FlagsAgree, KeyWritten, CtrlValue
    <2> QED BY <2>2, <2>3, <2>4 DEF EngineKey, AsConfigured
  <1> QED BY <1>1, ConfigHolds, PTL DEF SafeSpec, ProcessedAsAsked

=============================================================================
