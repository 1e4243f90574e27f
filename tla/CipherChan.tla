----------------------------- MODULE CipherChan -----------------------------
(***************************************************************************)
(* One multi-packet channel of the cipher engine: the soft channel and the *)
(* descriptor ring of cipher/src/drv_cipher.c, the channel's registers     *)
(* (cipher/src/hal_cipher.c), the interrupt routine and the engine.        *)
(*                                                                         *)
(* Three actors interleave: the caller of DRV_Cipher_CreatTask (one at a   *)
(* time, one register access or one block of stores per step), the         *)
(* interrupt routine and the engine.  Soft channel n always drives         *)
(* hardware channel n (DRV_Cipher_OpenChn), so the channels are copies of  *)
(* this one; a ring entry names the soft channel ("own"), is cleared to 0   *)
(* by DRV_Cipher_Init ("chn0") or is CIPHER_INVALID_CHN ("invalid").        *)
(***************************************************************************)
EXTENDS Naturals

CONSTANTS
  CI_MAX_LIST_NUM,  \* entries of the ring (128 in the build)
  Keys, IVs, Modes, \* key and IV values; algorithm, width and work mode
  CAModes,          \* the values of bKeyByCA callers use
  NULL,             \* a NULL pointer; the IV of a node without IVSET
  MaxTasks,         \* bound: packets accepted in one behaviour
  MaxInflight,      \* packets a caller lets be outstanding
  PromptIrq,        \* TRUE: one CPU, the caller never runs over an interrupt
  QuietChange       \* TRUE: with packets outstanding a caller keeps the setting

ASSUME ChanAssumption ==
  /\ CI_MAX_LIST_NUM \in Nat \ {0}
  /\ MaxTasks \in Nat
  /\ MaxInflight \in Nat \ {0}
  /\ PromptIrq \in BOOLEAN /\ QuietChange \in BOOLEAN
  /\ NULL \notin Keys /\ NULL \notin IVs
  /\ Keys # {} /\ IVs # {} /\ Modes # {} /\ CAModes # {}
  /\ CAModes \subseteq BOOLEAN

(* A caller on another CPU than the interrupt routine keeps at most a ring  *)
(* of packets outstanding; the code does not enforce this, it is what the   *)
(* callers in the tree do (one per waiting thread, or CHAN_BUF_CNT).        *)
ASSUME InflightAssumption == PromptIrq \/ MaxInflight <= CI_MAX_LIST_NUM

VARIABLES
  (* CIPHER_SOFTCHAN_S *)
  bOpen, pfnCallBack, stCtrl, bIVChange, bKeyChange, u32PirvateData,
  (* CIPHER_CHAN_S *)
  inPtr, outPtr, node, witchSoftChn,
  (* registers of the channel *)
  ibufCnt, iemptyCnt, obufCnt, ofullCnt, intRaw, intEn, keyReg, ctrlReg,
  (* the engine: the node it reads next, the packet it finished last *)
  hwPtr, hwDone,
  (* the caller inside DRV_Cipher_CreatTask, and its bDecrypt argument *)
  pc, bDecrypt,
  (* the interrupt routine: its place, fullCnt, idx and i *)
  isr, fullCnt, idx, i,
  (* history: packets accepted, the packet reported last, what each node   *)
  (* was meant to be processed with, and whether the configured IV waits   *)
  (* for its first packet                                                  *)
  sub, cb, want, ivPending

softVars == <<bOpen, pfnCallBack, stCtrl, bIVChange, bKeyChange, u32PirvateData>>
ringVars == <<inPtr, outPtr, node, witchSoftChn>>
cntVars  == <<ibufCnt, iemptyCnt, obufCnt, ofullCnt>>
intVars  == <<intRaw, intEn>>
cfgVars  == <<keyReg, ctrlReg>>
hwVars   == <<hwPtr, hwDone>>
callVars == <<pc, bDecrypt>>
isrVars  == <<isr, fullCnt, idx, i>>
histVars == <<sub, cb, want, ivPending>>

vars == <<softVars, ringVars, cntVars, intVars, cfgVars, hwVars, callVars,
          isrVars, histVars>>

Slots == 0 .. CI_MAX_LIST_NUM - 1

(* HI_UNF_CIPHER_CTRL_S: what the driver distinguishes of it *)
CtrlBlocks == [key : Keys, iv : IVs, mode : Modes, byCA : CAModes]

(* Wrapping of a ring index less than twice the ring's length *)
Wrap(x) == IF x >= CI_MAX_LIST_NUM THEN x - CI_MAX_LIST_NUM ELSE x

(* A wrong variant: the wrap test is one too late *)
BugNextPtr(p) == IF p + 1 > CI_MAX_LIST_NUM THEN 0 ELSE p + 1

(* currentPtr++; if (currentPtr >= CI_MAX_LIST_NUM) currentPtr = 0; *)
NextPtr(p) == IF p + 1 >= CI_MAX_LIST_NUM THEN 0 ELSE p + 1

(* What a packet is to be processed with *)
Wants == [key : Keys, iv : IVs \cup {NULL}, mode : Modes, byCA : CAModes,
          dec : BOOLEAN]

Inflight == sub - cb

-----------------------------------------------------------------------------
(* DRV_Cipher_Init: soft and hardware channel structures cleared, interrupts *)
(* disabled and cleared, in and out counters set by                          *)
(* DRV_CipherInitHardWareChn.                                                *)
Init ==
  /\ bOpen = FALSE /\ pfnCallBack = FALSE
  /\ stCtrl \in CtrlBlocks                      \* memset: no caller's choice
  /\ bIVChange = FALSE /\ bKeyChange = FALSE /\ u32PirvateData = 0
  /\ inPtr = 0 /\ outPtr = 0
  /\ node = [s \in Slots |-> [task |-> 0, iv |-> NULL]]
  /\ witchSoftChn = [s \in Slots |-> "chn0"]
  /\ ibufCnt = 0 /\ iemptyCnt = 0
  /\ obufCnt = CI_MAX_LIST_NUM /\ ofullCnt = 0
  /\ intRaw = FALSE /\ intEn = FALSE
  /\ keyReg \in Keys                            \* whatever reset left
  /\ ctrlReg = [mode |-> stCtrl.mode, dec |-> FALSE, byCA |-> stCtrl.byCA]
  /\ hwPtr = 0 /\ hwDone = 0
  /\ pc = "idle" /\ bDecrypt = FALSE
  /\ isr = "idle" /\ fullCnt = 0 /\ idx = 0 /\ i = 0
  /\ sub = 0 /\ cb = 0
  /\ want = [s \in Slots |->
               [key |-> stCtrl.key, iv |-> NULL, mode |-> stCtrl.mode,
                byCA |-> stCtrl.byCA, dec |-> FALSE]]
  /\ ivPending = FALSE

-----------------------------------------------------------------------------
(* The caller's own steps never run over an interrupt on one CPU *)
CallerRuns == PromptIrq => isr = "idle" /\ ~(intRaw /\ intEn)

(* DRV_Cipher_OpenChn: threshold 1 (set once, never changed), interrupt on *)
OpenChn ==
  /\ pc = "idle" /\ CallerRuns
  /\ intEn' = TRUE
  /\ bOpen' = TRUE
  /\ UNCHANGED <<pfnCallBack, stCtrl, bIVChange, bKeyChange, u32PirvateData,
                 ringVars, cntVars, intRaw, cfgVars, hwVars, callVars,
                 isrVars, histVars>>

(* DRV_Cipher_CloseChn: the interrupt stays enabled, the ring is kept *)
CloseChn ==
  /\ pc = "idle" /\ CallerRuns
  /\ bOpen' = FALSE
  /\ UNCHANGED <<pfnCallBack, stCtrl, bIVChange, bKeyChange, u32PirvateData,
                 ringVars, cntVars, intVars, cfgVars, hwVars, callVars,
                 isrVars, histVars>>

(* Callers hold a handle, so the channel was opened; the driver never reads  *)
(* bOpen, and a close may have come since.                                   *)
WasOpened == intEn

(* HAL_Cipher_Config: the fields of the control register it replaces *)
CtrlValue(dec, c) == [mode |-> c.mode, dec |-> dec, byCA |-> c.byCA]

(* DRV_Cipher_ConfigChn: the control register is written at once, as for an *)
(* encryption; key and IV wait for the next packet.                         *)
ConfigChn(c) ==
  /\ pc = "idle" /\ CallerRuns
  /\ WasOpened /\ Inflight < MaxInflight
  /\ QuietChange => Inflight = 0
  /\ pfnCallBack' = TRUE
  /\ ctrlReg' = CtrlValue(FALSE, c)
  /\ bIVChange' = TRUE /\ bKeyChange' = TRUE
  /\ stCtrl' = c
  /\ ivPending' = TRUE
  /\ UNCHANGED <<bOpen, u32PirvateData, ringVars, cntVars, intVars, keyReg,
                 hwVars, callVars, isrVars, sub, cb, want>>

(* A wrong variant: a new key or IV is stored but not flagged *)
BugChanged(flag, ptr) == flag

(* if (pKey) bKeyChange = HI_TRUE; if (pIV) bIVChange = HI_TRUE; *)
Changed(flag, ptr) == flag \/ ptr # NULL

(* The test queues packets with the key and the direction of those before,  *)
(* and waits for all of them before it changes either (test_cipher.c:694,   *)
(* :697, :708); the ioctls wait for each packet.                            *)
KeepsSetting(pKey, dec) ==
  QuietChange /\ Inflight > 0 => pKey \in {NULL, stCtrl.key} /\ dec = bDecrypt

(* DRV_Cipher_CreatTask: takes the optional key and IV, then enters         *)
(* DRV_CipherStartMultiPkgChn.                                              *)
CreatTask(pKey, pIV, dec) ==
  /\ pc = "idle" /\ CallerRuns
  /\ WasOpened /\ Inflight < MaxInflight /\ sub < MaxTasks
  /\ KeepsSetting(pKey, dec)
  /\ bKeyChange' = Changed(bKeyChange, pKey)
  /\ bIVChange' = Changed(bIVChange, pIV)
  /\ ivPending' = (ivPending \/ pIV # NULL)
  /\ stCtrl' = [stCtrl EXCEPT !.key = IF pKey = NULL THEN @ ELSE pKey,
                              !.iv  = IF pIV = NULL THEN @ ELSE pIV]
  /\ bDecrypt' = dec
  /\ pc' = "busy"
  /\ UNCHANGED <<bOpen, pfnCallBack, u32PirvateData, ringVars, cntVars,
                 intVars, cfgVars, hwVars, isrVars, sub, cb, want>>

(* A wrong variant: the list may hold one packet more than it has nodes *)
BugRingHasRoom == ibufCnt <= CI_MAX_LIST_NUM

(* HAL_Cipher_GetInBufCnt and the test of BusyCnt *)
RingHasRoom == ibufCnt < CI_MAX_LIST_NUM

(* The caller reads the number of busy entries; a full list is refused *)
GetBusyCnt ==
  /\ pc = "busy" /\ CallerRuns
  /\ pc' = IF RingHasRoom THEN "fill" ELSE "idle"
  /\ UNCHANGED <<softVars, ringVars, cntVars, intVars, cfgVars, hwVars,
                 bDecrypt, isrVars, histVars>>

(* The list node: addresses, length, IV and flags *)
FillNode ==
  /\ pc = "fill" /\ CallerRuns
  /\ node' = [node EXCEPT ![inPtr] =
               [task |-> sub + 1,
                iv   |-> IF bIVChange THEN stCtrl.iv ELSE NULL]]
  /\ want' = [want EXCEPT ![inPtr] =
               [key |-> stCtrl.key, mode |-> stCtrl.mode, byCA |-> stCtrl.byCA,
                dec |-> bDecrypt,
                iv  |-> IF ivPending THEN stCtrl.iv ELSE NULL]]
  /\ pc' = "key"
  /\ UNCHANGED <<softVars, inPtr, outPtr, witchSoftChn, cntVars, intVars,
                 cfgVars, hwVars, bDecrypt, isrVars, sub, cb, ivPending>>

(* HAL_Cipher_SetKey when the key changed; a key by CA is not written *)
SetKey ==
  /\ pc = "key" /\ CallerRuns
  /\ keyReg' = IF bKeyChange /\ ~stCtrl.byCA THEN stCtrl.key ELSE keyReg
  /\ bKeyChange' = FALSE
  /\ pc' = "ctrl"
  /\ UNCHANGED <<bOpen, pfnCallBack, stCtrl, bIVChange, u32PirvateData,
                 ringVars, cntVars, intVars, ctrlReg, hwVars, bDecrypt,
                 isrVars, histVars>>

(* HAL_Cipher_Config with the direction of this packet *)
SetCtrl ==
  /\ pc = "ctrl" /\ CallerRuns
  /\ ctrlReg' = CtrlValue(bDecrypt, stCtrl)
  /\ bIVChange' = FALSE
  /\ pc' = "save"
  /\ UNCHANGED <<bOpen, pfnCallBack, stCtrl, bKeyChange, u32PirvateData,
                 ringVars, cntVars, intVars, keyReg, hwVars, bDecrypt,
                 isrVars, histVars>>

(* Soft channel and callback argument of the entry, then the ring index *)
SaveNode ==
  /\ pc = "save" /\ CallerRuns
  /\ witchSoftChn' = [witchSoftChn EXCEPT ![inPtr] = "own"]
  /\ u32PirvateData' = sub + 1
  /\ inPtr' = NextPtr(inPtr)
  /\ pc' = "kick"
  /\ UNCHANGED <<bOpen, pfnCallBack, stCtrl, bIVChange, bKeyChange, outPtr,
                 node, cntVars, intVars, cfgVars, hwVars, bDecrypt, isrVars,
                 histVars>>

(* HAL_Cipher_SetInBufCnt(hardWareChn, 1): the register adds what is written *)
Kick ==
  /\ pc = "kick" /\ CallerRuns
  /\ ibufCnt' = ibufCnt + 1
  /\ sub' = sub + 1
  /\ ivPending' = FALSE
  /\ pc' = "idle"
  /\ UNCHANGED <<softVars, ringVars, iemptyCnt, obufCnt, ofullCnt, intVars,
                 cfgVars, hwVars, bDecrypt, isrVars, cb, want>>

StartMultiPkgChn ==
  GetBusyCnt \/ FillNode \/ SetKey \/ SetCtrl \/ SaveNode \/ Kick

-----------------------------------------------------------------------------
(* The engine (external): takes the next input node when an output node is  *)
(* free, moves one entry between each pair of counters and raises the       *)
(* channel's output interrupt (threshold 1).                                *)
Process ==
  /\ ibufCnt > 0 /\ obufCnt > 0
  /\ hwDone' = node[hwPtr].task
  /\ hwPtr' = NextPtr(hwPtr)
  /\ ibufCnt' = ibufCnt - 1 /\ iemptyCnt' = iemptyCnt + 1
  /\ obufCnt' = obufCnt - 1 /\ ofullCnt' = ofullCnt + 1
  /\ intRaw' = TRUE
  /\ UNCHANGED <<softVars, ringVars, intEn, cfgVars, callVars, isrVars,
                 histVars>>

(* A wrong variant: the interrupt comes with the second finished packet *)
BugIntStatus == intRaw /\ intEn /\ ofullCnt > 1

(* HAL_Cipher_GetIntState: raw interrupts that are enabled *)
IntStatus == intRaw /\ intEn

(* DRV_Cipher_ISR is entered and reads the interrupt status *)
IsrEnter ==
  /\ isr = "idle" /\ IntStatus
  /\ isr' = "clear"
  /\ UNCHANGED <<softVars, ringVars, cntVars, intVars, cfgVars, hwVars,
                 callVars, fullCnt, idx, i, histVars>>

(* HAL_Cipher_ClrIntState, before any counter is read *)
IsrClear ==
  /\ isr = "clear"
  /\ intRaw' = FALSE
  /\ isr' = "full"
  /\ UNCHANGED <<softVars, ringVars, cntVars, intEn, cfgVars, hwVars,
                 callVars, fullCnt, idx, i, histVars>>

(* DRV_CipherDataDoneMultiPkg: HAL_Cipher_GetOutBufFull.  A count of zero is *)
(* an error that is only logged.                                            *)
IsrGetFull ==
  /\ isr = "full"
  /\ fullCnt' = ofullCnt
  /\ idx' = outPtr
  /\ i' = 0
  /\ isr' = IF ofullCnt > 0 THEN "loop" ELSE "idle"
  /\ UNCHANGED <<softVars, ringVars, cntVars, intVars, cfgVars, hwVars,
                 callVars, histVars>>

(* One turn of the loop: the entry is retired and its callback runs *)
IsrCallBack ==
  /\ isr = "loop" /\ i < fullCnt
  /\ witchSoftChn' = [witchSoftChn EXCEPT ![idx] = "invalid"]
  /\ cb' = node[idx].task
  /\ idx' = NextPtr(idx)
  /\ i' = i + 1
  /\ UNCHANGED <<softVars, inPtr, outPtr, node, cntVars, intVars, cfgVars,
                 hwVars, callVars, isr, fullCnt, sub, want, ivPending>>

(* A write of n to IEMPTY_CNT or OFULL_CNT takes n from the counter *)
Taken(count, n) == count - n

(* The out index is saved, HAL_Cipher_SetInBufEmpty subtracts fullCnt *)
IsrSetEmpty ==
  /\ isr = "loop" /\ i = fullCnt
  /\ outPtr' = idx
  /\ iemptyCnt' = Taken(iemptyCnt, fullCnt)
  /\ isr' = "ofull"
  /\ UNCHANGED <<softVars, inPtr, node, witchSoftChn, ibufCnt, obufCnt,
                 ofullCnt, intVars, cfgVars, hwVars, callVars, fullCnt, idx,
                 i, histVars>>

(* HAL_Cipher_SetOutBufFull subtracts fullCnt *)
IsrSetFull ==
  /\ isr = "ofull"
  /\ ofullCnt' = Taken(ofullCnt, fullCnt)
  /\ isr' = "obuf"
  /\ UNCHANGED <<softVars, ringVars, ibufCnt, iemptyCnt, obufCnt, intVars,
                 cfgVars, hwVars, callVars, fullCnt, idx, i, histVars>>

(* A wrong variant: the interrupt status is cleared when the routine ends *)
BugIsrSetOutCnt ==
  /\ isr = "obuf"
  /\ obufCnt' = obufCnt + fullCnt
  /\ intRaw' = FALSE
  /\ isr' = "idle"
  /\ UNCHANGED <<softVars, ringVars, ibufCnt, iemptyCnt, ofullCnt, intEn,
                 cfgVars, hwVars, callVars, fullCnt, idx, i, histVars>>

(* HAL_Cipher_SetOutBufCnt gives fullCnt output nodes back *)
IsrSetOutCnt ==
  /\ isr = "obuf"
  /\ obufCnt' = obufCnt + fullCnt
  /\ isr' = "idle"
  /\ UNCHANGED <<softVars, ringVars, ibufCnt, iemptyCnt, ofullCnt, intVars,
                 cfgVars, hwVars, callVars, fullCnt, idx, i, histVars>>

ISR == \/ IsrEnter \/ IsrClear \/ IsrGetFull \/ IsrCallBack
       \/ IsrSetEmpty \/ IsrSetFull \/ IsrSetOutCnt

-----------------------------------------------------------------------------
Next ==
  \/ OpenChn \/ CloseChn
  \/ \E c \in CtrlBlocks : ConfigChn(c)
  \/ \E pKey \in Keys \cup {NULL}, pIV \in IVs \cup {NULL}, dec \in BOOLEAN :
       CreatTask(pKey, pIV, dec)
  \/ StartMultiPkgChn
  \/ Process
  \/ ISR

SafeSpec == Init /\ [][Next]_vars

(* A call that was entered runs to its end, the engine keeps working and    *)
(* pending interrupts are served.                                           *)
Fairness == WF_vars(StartMultiPkgChn) /\ WF_vars(Process) /\ WF_vars(ISR)

Spec == SafeSpec /\ Fairness

-----------------------------------------------------------------------------
(* The types of the configuration, and of the ring, its registers and the   *)
(* locals of the caller and the interrupt routine.                          *)
ConfigTypeOK ==
  /\ bOpen \in BOOLEAN /\ pfnCallBack \in BOOLEAN
  /\ stCtrl \in CtrlBlocks
  /\ bIVChange \in BOOLEAN /\ bKeyChange \in BOOLEAN
  /\ bDecrypt \in BOOLEAN
  /\ keyReg \in Keys
  /\ ctrlReg \in [mode : Modes, dec : BOOLEAN, byCA : CAModes]
  /\ want \in [Slots -> Wants]
  /\ ivPending \in BOOLEAN

RingTypeOK ==
  /\ u32PirvateData \in Nat
  /\ inPtr \in Slots /\ outPtr \in Slots
  /\ node \in [Slots -> [task : Nat, iv : IVs \cup {NULL}]]
  /\ witchSoftChn \in [Slots -> {"chn0", "own", "invalid"}]
  /\ ibufCnt \in Nat /\ iemptyCnt \in Nat /\ obufCnt \in Nat /\ ofullCnt \in Nat
  /\ intRaw \in BOOLEAN /\ intEn \in BOOLEAN
  /\ hwPtr \in Slots /\ hwDone \in Nat
  /\ pc \in {"idle", "busy", "fill", "key", "ctrl", "save", "kick"}
  /\ isr \in {"idle", "clear", "full", "loop", "ofull", "obuf"}
  /\ fullCnt \in Nat /\ idx \in Slots /\ i \in Nat
  /\ sub \in Nat /\ cb \in Nat

(* The type invariant: in particular ring indices stay inside the ring and  *)
(* no register count is driven below zero by the interrupt routine.         *)
TypeOK == ConfigTypeOK /\ RingTypeOK

(* The ring position the next callback will retire *)
Head == IF isr = "loop" THEN idx ELSE outPtr

(* Entries retired by the interrupt routine and not yet given back *)
Unreturned(places) == IF isr \in places THEN i ELSE 0

(* The caller has filled (saved) the entry after the last accepted one *)
Filled == IF pc \in {"key", "ctrl", "save", "kick"} THEN 1 ELSE 0
Saved  == IF pc = "kick" THEN 1 ELSE 0

(* The counters of the registers agree with the packets accepted, processed *)
(* and reported at every step of the caller, the engine and the interrupt   *)
(* routine, so the ring never holds more than CI_MAX_LIST_NUM packets and a *)
(* count is never driven below zero.                                        *)
CountersAgree ==
  /\ cb <= hwDone /\ hwDone <= sub
  /\ sub - cb <= CI_MAX_LIST_NUM
  /\ ibufCnt = sub - hwDone
  /\ iemptyCnt = hwDone - cb + Unreturned({"loop"})
  /\ ofullCnt = hwDone - cb + Unreturned({"loop", "ofull"})
  /\ obufCnt + ofullCnt + Unreturned({"obuf"}) = CI_MAX_LIST_NUM

(* A packet the engine finished is never left without a pending interrupt   *)
(* or a running interrupt routine that will still count it: clearing the    *)
(* status before reading the counters loses no completion.                  *)
NoLostInterrupt ==
  /\ sub > 0 => intEn
  /\ hwDone > cb =>
       \/ intRaw
       \/ isr \in {"clear", "full"}
       \/ isr = "loop" /\ fullCnt - i = hwDone - cb

(* From the position the next callback retires, the ring holds the accepted *)
(* packets in order, each still under the soft channel's name, and the      *)
(* engine's and the caller's positions are where the counters say.  In      *)
(* particular the interrupt routine never indexes g_stCipherSoftChans with  *)
(* CIPHER_INVALID_CHN.                                                      *)
RingIntact ==
  /\ hwPtr = Wrap(Head + (hwDone - cb))
  /\ inPtr = Wrap(Head + (sub - cb) + Saved)
  /\ \A k \in 0 .. CI_MAX_LIST_NUM - 1 :
       /\ k < (sub - cb) + Filled => node[Wrap(Head + k)].task = cb + k + 1
       /\ k < (sub - cb) + Saved  => witchSoftChn[Wrap(Head + k)] = "own"

(* What the places of the caller and of the interrupt routine imply: a      *)
(* caller past the test of BusyCnt has a free entry, the loop retires only  *)
(* packets the engine finished, an open channel has its interrupt enabled.  *)
LocalsAgree ==
  /\ pc = "busy" /\ ~PromptIrq => sub - cb < MaxInflight
  /\ pc \in {"fill", "key", "ctrl", "save", "kick"} => sub - cb < CI_MAX_LIST_NUM
  /\ bOpen \/ pc # "idle" \/ sub > 0 => intEn
  /\ isr = "loop" => i <= fullCnt /\ fullCnt - i <= hwDone - cb
  /\ isr \in {"ofull", "obuf"} => i = fullCnt

(* The inductive invariant of the channel: counters, interrupt, ring and    *)
(* locals together, at every step of the three actors.                      *)
RingInv == CountersAgree /\ NoLostInterrupt /\ RingIntact /\ LocalsAgree

(* The channel implements the abstract queue of packets: accepted, processed *)
(* and reported once each and in order.                                     *)
Fifo == INSTANCE CipherFifo WITH
          Capacity <- CI_MAX_LIST_NUM,
          submitted <- sub, processed <- hwDone, notified <- cb

FifoSafe == Fifo!SafeSpec
FifoLive == Fifo!Spec

(* The key the engine uses: the channel's key register or the CA key *)
EngineKey == IF ctrlReg.byCA THEN "CA" ELSE keyReg

(* The engine finds the packets of a configured channel in turn, whatever   *)
(* was refused in between, and processes each with the key, mode and        *)
(* direction current when it was submitted, although they are in registers  *)
(* all queued packets share.  The IV that was set is loaded by exactly the  *)
(* first packet accepted after it: bKeyChange and bIVChange are neither     *)
(* lost on a refused packet nor left over for a second one.                 *)
ProcessedAsAsked ==
  [][hwDone' # hwDone /\ pfnCallBack =>
       LET w == want[hwPtr] IN
       /\ hwDone' = hwDone + 1
       /\ EngineKey = IF w.byCA THEN "CA" ELSE w.key
       /\ ctrlReg.mode = w.mode /\ ctrlReg.dec = w.dec
       /\ node[hwPtr].iv = w.iv]_vars

(* The callback is run with the argument of the packet it reports, as the   *)
(* test takes for granted that gives each of its packets its own.  The      *)
(* interrupt routine passes u32PirvateData, the argument saved last, and    *)
(* never reads au32CallBackArg: with two packets outstanding it does not    *)
(* hold (with one it does, and user space only passes the channel's number).*)
CallBackArgIsOwn ==
  [][cb' # cb /\ pfnCallBack => u32PirvateData = cb']_vars
=============================================================================
