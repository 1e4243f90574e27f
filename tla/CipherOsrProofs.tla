--------------------------- MODULE CipherOsrProofs --------------------------
(***************************************************************************)
(* Proofs about CipherOsr for any number of threads, files and channels    *)
(* and any list length.                                                    *)
(***************************************************************************)
EXTENDS CipherOsr, TLAPS

(* Marking a caller's entry as lost leaves a queue of threads a queue *)
LEMMA MarkedQueue ==
  ASSUME NEW S, NEW q \in Seq(S), NEW t, NEW x \in S
  PROVE  [p \in DOMAIN q |-> IF q[p] = t THEN x ELSE q[p]] \in Seq(S)
  OBVIOUS

(* A call that returns keeps the types: its locals are put back and the      *)
(* queues stay queues.                                                       *)
LEMMA ReturnType ==
  ASSUME TypeOK, NEW t \in Threads, Return(t), sem' \in Nat,
         UNCHANGED <<g_bSoftChnOpen, g_bDataDone, pWichFile, bOpen, pfnCallBack>>
  PROVE  TypeOK'
  <1>1. "idle" \in Places /\ "idle" \notin Indexing /\ "other" \in Cmds /\ 0 \in Handles
    BY OsrAssumption DEF OsrAssumption, Places, Blocking, Indexing, Cmds,
         Handles
  <1>2. /\ pc' \in [Threads -> Places]
        /\ cmd' \in [Threads -> Cmds]
        /\ chn' \in [Threads -> Handles]
    BY <1>1 DEF TypeOK, Return
  <1>3. \A u \in Threads : pc'[u] \in Indexing => chn'[u] \in Chns
    BY <1>1 DEF TypeOK, Return
  <1>4. ASSUME NEW c \in Chns PROVE queue'[c] \in Seq(Threads \cup {Lost})
    <2>1. queue[c] \in Seq(Threads \cup {Lost}) BY DEF TypeOK
    <2> QED BY <2>1, MarkedQueue DEF Return
  <1>5. queue' \in [Chns -> Seq(Threads \cup {Lost})] BY <1>4 DEF Return
  <1> QED BY <1>2, <1>3, <1>5 DEF TypeOK

(* DRV_Cipher_CreatTask appends the caller's packet, or the call returns *)
LEMMA CryptTaskType ==
  ASSUME TypeOK, NEW t \in Threads, CryptTask(t)
  PROVE  TypeOK'
  <1>1. UNCHANGED <<sem, g_bSoftChnOpen, g_bDataDone, pWichFile, bOpen, pfnCallBack>>
    BY DEF CryptTask, chnVars
  <1>2. CASE Return(t) BY <1>1, <1>2, ReturnType DEF TypeOK
  <1>3. CASE /\ queue' = [queue EXCEPT ![chn[t]] = Append(@, t)]
             /\ pc' = [pc EXCEPT ![t] = "wait"] /\ UNCHANGED <<cmd, chn>>
    <2>1. "wait" \in Places BY DEF Places, Blocking
    <2>2. chn[t] \in Chns BY DEF CryptTask, At, TypeOK, Indexing
    <2>3. Append(queue[chn[t]], t) \in Seq(Threads \cup {Lost})
      BY <2>2 DEF TypeOK
    <2>4. queue' \in [Chns -> Seq(Threads \cup {Lost})] BY <1>3, <2>3 DEF TypeOK
    <2>5. pc' \in [Threads -> Places]
          /\ \A u \in Threads : pc'[u] \in Indexing => chn'[u] \in Chns
      BY <1>3, <2>1, <2>2 DEF TypeOK
    <2> QED BY <1>1, <1>3, <2>4, <2>5 DEF TypeOK
  <1> QED BY <1>2, <1>3 DEF CryptTask, Goto, callVars

(* The loop of DRV_CIPHER_Release stops at CIPHER_SOFT_CHAN_NUM *)
LEMMA ReleaseTestType ==
  ASSUME TypeOK, NEW t \in Threads, ReleaseTest(t)
  PROVE  TypeOK'
  <1>1. UNCHANGED <<sem, g_bSoftChnOpen, g_bDataDone, pWichFile, bOpen, pfnCallBack>>
    BY DEF ReleaseTest, chnVars
  <1>2. CASE Return(t) BY <1>1, <1>2, ReturnType DEF TypeOK
  <1>3. CASE /\ chn[t] < CIPHER_SOFT_CHAN_NUM
             /\ pc' = [pc EXCEPT ![t] = "relclose"] /\ UNCHANGED <<chn, queue, cmd>>
    <2>1. "relclose" \in Places BY DEF Places, Releasing
    <2>2. chn[t] \in Chns
      BY <1>3, OsrAssumption DEF OsrAssumption, TypeOK, Handles, Chns
    <2> QED BY <1>1, <1>3, <2>1, <2>2 DEF TypeOK
  <1>4. CASE /\ chn[t] < CIPHER_SOFT_CHAN_NUM /\ pc[t] = "rel"
             /\ chn' = [chn EXCEPT ![t] = @ + 1] /\ UNCHANGED <<pc, queue, cmd>>
    <2>1. chn[t] + 1 \in Handles
      BY <1>4, OsrAssumption DEF OsrAssumption, TypeOK, Handles
    <2>2. chn' \in [Threads -> Handles] BY <1>4, <2>1 DEF TypeOK
    <2>3. "rel" \notin Indexing BY DEF Indexing
    <2>4. \A u \in Threads : pc'[u] \in Indexing => chn'[u] \in Chns
      BY <1>4, <2>3 DEF TypeOK
    <2> QED BY <1>1, <1>4, <2>2, <2>4 DEF TypeOK
  <1> QED BY <1>2, <1>3, <1>4 DEF ReleaseTest, At, Goto

(* The state the module's initialization leaves has the types *)
THEOREM TypeInit == Init => TypeOK
  BY OsrAssumption DEF OsrAssumption, Init, TypeOK, Chns, Handles, Places,
       Blocking, Cmds, Indexing

(* The test that begins three of the commands leaves only a channel number   *)
(* in range for what follows.                                                *)
LEMMA CheckedType ==
  ASSUME TypeOK, NEW t \in Threads, NEW c \in Cmds, NEW n \in Places, Checked(t, c, n)
  PROVE  TypeOK'
  <1>1. UNCHANGED <<sem, g_bSoftChnOpen, g_bDataDone, pWichFile, bOpen, pfnCallBack, queue, cmd, chn>>
    BY DEF Checked, Move, chnVars, drvVars, callVars
  <1>2. \/ pc' = [pc EXCEPT ![t] = n] /\ chn[t] < CIPHER_SOFT_CHAN_NUM
        \/ pc' = [pc EXCEPT ![t] = "up"]
    BY DEF Checked, Move, Goto, HandleOk
  <1>3. "up" \in Places /\ "up" \notin Indexing
    BY DEF Places, Critical, Indexing
  <1>4. pc' \in [Threads -> Places] BY <1>2, <1>3 DEF TypeOK
  <1>5. chn[t] < CIPHER_SOFT_CHAN_NUM => chn[t] \in Chns
    BY OsrAssumption DEF OsrAssumption, TypeOK, Handles, Chns
  <1>6. \A u \in Threads : pc'[u] \in Indexing => chn'[u] \in Chns
    BY <1>1, <1>2, <1>3, <1>5 DEF TypeOK
  <1> QED BY <1>1, <1>4, <1>6 DEF TypeOK

(* Every step of a thread and every callback keeps the types: one case per   *)
(* action                                                                    *)
THEOREM TypeStep == TypeOK /\ [Next]_vars => TypeOK'
  <1> SUFFICES ASSUME TypeOK, [Next]_vars PROVE TypeOK' OBVIOUS
  <1> USE OsrAssumption DEF OsrAssumption, TypeOK, chnVars, drvVars, callVars,
          At, Goto, Move, Places, Blocking, Critical, Releasing, Cmds, Handles, Chns, Indexing
  <1>1. ASSUME NEW t \in Threads, NEW r \in Requests, Ioctl(t, r) PROVE TypeOK'
    BY <1>1 DEF Ioctl, Requests
  <1>2. ASSUME NEW t \in Threads, ReleaseStart(t) PROVE TypeOK'
    BY <1>2 DEF ReleaseStart
  <1>3. ASSUME NEW t \in Threads, Down(t) PROVE TypeOK'
    BY <1>3 DEF Down
  <1>4. ASSUME NEW t \in Threads, DownInterrupted(t) PROVE TypeOK'
    BY <1>4 DEF DownInterrupted
  <1>5. ASSUME NEW t \in Threads, Other(t) PROVE TypeOK'
    BY <1>5 DEF Other
  <1>6. ASSUME NEW t \in Threads, CreateScan(t) PROVE TypeOK'
    <2>1. CASE FreeChns = {} /\ Goto(t, "up") /\ UNCHANGED <<g_bSoftChnOpen, chn>>
      BY <1>6, <2>1 DEF CreateScan
    <2>2. ASSUME NEW c \in FreeChns,
                 g_bSoftChnOpen' = [g_bSoftChnOpen EXCEPT ![c] = TRUE],
                 chn' = [chn EXCEPT ![t] = c],
                 Goto(t, "open")
          PROVE  TypeOK'
      <3>1. c \in Chns /\ c \in Handles BY DEF FreeChns
      <3>2. /\ UNCHANGED <<sem, g_bDataDone, pWichFile, bOpen, pfnCallBack, queue, cmd>>
            /\ g_bSoftChnOpen' \in [Chns -> BOOLEAN]
        BY <1>6, <2>2 DEF CreateScan
      <3>3. chn' \in [Threads -> Handles] BY <3>1, <2>2
      <3>4. pc' \in [Threads -> Places] BY <2>2
      <3>5. \A u \in Threads : pc'[u] \in Indexing => chn'[u] \in Chns
        BY <3>1, <2>2
      <3> QED BY <3>2, <3>3, <3>4, <3>5
    <2> QED BY <1>6, <2>1, <2>2 DEF CreateScan
  <1>7. ASSUME NEW t \in Threads, CreateOpen(t) PROVE TypeOK'
    BY <1>7 DEF CreateOpen
  <1>8. ASSUME NEW t \in Threads, CreateCopyOut(t) PROVE TypeOK'
    <2>1. \/ pWichFile' = [pWichFile EXCEPT ![chn[t]] = FileOf[t]]
          \/ pWichFile' = pWichFile
      BY <1>8 DEF CreateCopyOut
    <2>2. FileOf[t] \in Files OBVIOUS
    <2>3. pWichFile' \in [Chns -> Files \cup {NULL}] BY <2>1, <2>2
    <2>4. pc' = [pc EXCEPT ![t] = "up"]
          /\ UNCHANGED <<sem, g_bSoftChnOpen, g_bDataDone, bOpen, pfnCallBack, queue, cmd, chn>>
      BY <1>8 DEF CreateCopyOut
    <2> QED BY <2>3, <2>4
  <1>9. ASSUME NEW t \in Threads, DestroyCheck(t) PROVE TypeOK'
    BY <1>9, CheckedType DEF DestroyCheck
  <1>10. ASSUME NEW t \in Threads, DestroyShut(t) PROVE TypeOK'
    BY <1>10 DEF DestroyShut
  <1>11. ASSUME NEW t \in Threads, DestroyDisown(t) PROVE TypeOK'
    BY <1>11 DEF DestroyDisown
  <1>12. ASSUME NEW t \in Threads, DestroyClose(t) PROVE TypeOK'
    BY <1>12 DEF DestroyClose
  <1>13. ASSUME NEW t \in Threads, ConfigCheck(t) PROVE TypeOK'
    BY <1>13, CheckedType DEF ConfigCheck
  <1>14. ASSUME NEW t \in Threads, ConfigSetup(t) PROVE TypeOK'
    BY <1>14 DEF ConfigSetup
  <1>15. ASSUME NEW t \in Threads, CryptCheck(t) PROVE TypeOK'
    BY <1>15, CheckedType DEF CryptCheck
  <1>16. ASSUME NEW t \in Threads, CryptClear(t) PROVE TypeOK'
    BY <1>16 DEF CryptClear
  <1>17. ASSUME NEW t \in Threads, CryptUp(t) PROVE TypeOK'
    BY <1>17 DEF CryptUp
  <1>18. ASSUME NEW t \in Threads, CryptWoken(t) PROVE TypeOK'
    BY <1>18 DEF CryptWoken
  <1>19. ASSUME NEW t \in Threads, CryptSignalled(t) PROVE TypeOK'
    BY <1>19 DEF CryptSignalled
  <1>20. ASSUME NEW t \in Threads, CryptDown(t) PROVE TypeOK'
    BY <1>20 DEF CryptDown
  <1>21. ASSUME NEW t \in Threads, CryptOk(t) PROVE TypeOK'
    BY <1>21 DEF CryptOk
  <1>22. ASSUME NEW t \in Threads, ReleaseClose(t) PROVE TypeOK'
    BY <1>22 DEF ReleaseClose
  <1>23. ASSUME NEW t \in Threads, ReleaseOpen(t) PROVE TypeOK'
    BY <1>23 DEF ReleaseOpen
  <1>24. ASSUME NEW t \in Threads, ReleaseOwner(t) PROVE TypeOK'
    BY <1>24 DEF ReleaseOwner
  <1>25. ASSUME NEW t \in Threads, Up(t) PROVE TypeOK'
    <2>1. sem' \in Nat /\ UNCHANGED <<g_bSoftChnOpen, g_bDataDone, pWichFile, bOpen, pfnCallBack>>
      BY <1>25 DEF Up
    <2>2. Return(t) BY <1>25 DEF Up
    <2> QED BY <2>1, <2>2, ReturnType
  <1>26. ASSUME NEW t \in Threads, CryptTimeout(t) PROVE TypeOK'
    BY <1>26, ReturnType DEF CryptTimeout
  <1>27. ASSUME NEW t \in Threads, CryptDownInterrupted(t) PROVE TypeOK'
    BY <1>27, ReturnType DEF CryptDownInterrupted
  <1>28. ASSUME NEW t \in Threads, CryptTask(t) PROVE TypeOK'
    BY <1>28, CryptTaskType
  <1>29. ASSUME NEW t \in Threads, ReleaseTest(t) PROVE TypeOK'
    BY <1>29, ReleaseTestType
  <1>30. ASSUME NEW c \in Chns, UserCommCallBack(c) PROVE TypeOK'
    BY <1>30 DEF UserCommCallBack
  <1>31. CASE UNCHANGED vars BY <1>31 DEF vars
  <1> QED BY <1>1, <1>2, <1>3, <1>4, <1>5, <1>6, <1>7, <1>8, <1>9, <1>10, <1>11,
           <1>12, <1>13, <1>14, <1>15, <1>16, <1>17, <1>18, <1>19, <1>20, <1>21,
           <1>22, <1>23, <1>24, <1>25, <1>26, <1>27, <1>28, <1>29, <1>30, <1>31
           DEF Next, Step

(* For any number of threads and channels the type invariant holds, even     *)
(* with signals, timeouts and faults: no user-supplied channel number ever   *)
(* indexes g_stCipherOsrChn out of range.                                    *)
THEOREM TypeCorrect == SafeSpec => []TypeOK
  BY TypeInit, TypeStep, PTL DEF SafeSpec

-----------------------------------------------------------------------------
(* What a step can do to the semaphore and to the set of threads that are    *)
(* between down and up                                                       *)
Others(t) == \A u \in Threads \ {t} : Inside(u)' <=> Inside(u)
Quiet == sem' = sem /\ \A u \in Threads : Inside(u)' <=> Inside(u)
Take(t) == sem > 0 /\ sem' = sem - 1 /\ ~Inside(t) /\ Inside(t)' /\ Others(t)
Give(t) == sem' = sem + 1 /\ Inside(t) /\ ~Inside(t)' /\ Others(t)
Bypass(t) == Signals /\ sem' = sem /\ ~Inside(t) /\ Inside(t)' /\ Others(t)

(* A step that moves one thread, and not across the borders of the critical  *)
(* section, is quiet.                                                        *)
LEMMA MoveIsQuiet ==
  ASSUME TypeOK, NEW t \in Threads, NEW p, pc' = [pc EXCEPT ![t] = p], sem' = sem,
         p \in Critical <=> pc[t] \in Critical
  PROVE  Quiet
  BY DEF TypeOK, Quiet, Inside

(* Every step leaves the semaphore alone, takes it, gives it back or, on a   *)
(* signal, walks past it.                                                    *)
LEMMA SemSteps ==
  ASSUME TypeOK, [Next]_vars
  PROVE  Quiet \/ \E t \in Threads : Take(t) \/ Give(t) \/ Bypass(t)
  <1> USE DEF At, Goto, Move, Critical, Cmds
  <1>1. ASSUME NEW t \in Threads, NEW r \in Requests, Ioctl(t, r) PROVE Quiet
    BY <1>1, MoveIsQuiet DEF Ioctl
  <1>2. ASSUME NEW t \in Threads, ReleaseStart(t) PROVE Quiet
    BY <1>2, MoveIsQuiet DEF ReleaseStart
  <1>3. ASSUME NEW t \in Threads, Other(t) PROVE Quiet
    BY <1>3, MoveIsQuiet DEF Other
  <1>4. ASSUME NEW t \in Threads, CreateScan(t) PROVE Quiet
    BY <1>4, MoveIsQuiet DEF CreateScan
  <1>5. ASSUME NEW t \in Threads, CreateOpen(t) PROVE Quiet
    BY <1>5, MoveIsQuiet DEF CreateOpen
  <1>6. ASSUME NEW t \in Threads, CreateCopyOut(t) PROVE Quiet
    BY <1>6, MoveIsQuiet DEF CreateCopyOut
  <1>7. ASSUME NEW t \in Threads, DestroyCheck(t) PROVE Quiet
    BY <1>7, MoveIsQuiet DEF DestroyCheck, Checked
  <1>8. ASSUME NEW t \in Threads, DestroyShut(t) PROVE Quiet
    BY <1>8, MoveIsQuiet DEF DestroyShut
  <1>9. ASSUME NEW t \in Threads, DestroyDisown(t) PROVE Quiet
    BY <1>9, MoveIsQuiet DEF DestroyDisown
  <1>10. ASSUME NEW t \in Threads, DestroyClose(t) PROVE Quiet
    BY <1>10, MoveIsQuiet DEF DestroyClose
  <1>11. ASSUME NEW t \in Threads, ConfigCheck(t) PROVE Quiet
    BY <1>11, MoveIsQuiet DEF ConfigCheck, Checked
  <1>12. ASSUME NEW t \in Threads, ConfigSetup(t) PROVE Quiet
    BY <1>12, MoveIsQuiet DEF ConfigSetup
  <1>13. ASSUME NEW t \in Threads, CryptCheck(t) PROVE Quiet
    BY <1>13, MoveIsQuiet DEF CryptCheck, Checked
  <1>14. ASSUME NEW t \in Threads, CryptClear(t) PROVE Quiet
    BY <1>14, MoveIsQuiet DEF CryptClear
  <1>15. ASSUME NEW t \in Threads, CryptTask(t) PROVE Quiet
    BY <1>15, MoveIsQuiet DEF CryptTask, Return
  <1>16. ASSUME NEW t \in Threads, CryptWoken(t) PROVE Quiet
    BY <1>16, MoveIsQuiet DEF CryptWoken
  <1>17. ASSUME NEW t \in Threads, CryptSignalled(t) PROVE Quiet
    BY <1>17, MoveIsQuiet DEF CryptSignalled
  <1>18. ASSUME NEW t \in Threads, CryptTimeout(t) PROVE Quiet
    BY <1>18, MoveIsQuiet DEF CryptTimeout, Return
  <1>19. ASSUME NEW t \in Threads, CryptDownInterrupted(t) PROVE Quiet
    BY <1>19, MoveIsQuiet DEF CryptDownInterrupted, Return
  <1>20. ASSUME NEW t \in Threads, CryptOk(t) PROVE Quiet
    BY <1>20, MoveIsQuiet DEF CryptOk
  <1>21. ASSUME NEW t \in Threads, ReleaseClose(t) PROVE Quiet
    BY <1>21, MoveIsQuiet DEF ReleaseClose
  <1>22. ASSUME NEW t \in Threads, ReleaseOpen(t) PROVE Quiet
    BY <1>22, MoveIsQuiet DEF ReleaseOpen
  <1>23. ASSUME NEW t \in Threads, ReleaseOwner(t) PROVE Quiet
    BY <1>23, MoveIsQuiet DEF ReleaseOwner
  <1>24. ASSUME NEW t \in Threads, ReleaseTest(t) PROVE Quiet
    <2>1. CASE UNCHANGED <<pc, queue, cmd>>
      BY <1>24, <2>1 DEF ReleaseTest, Quiet, Inside
    <2>2. CASE pc' = [pc EXCEPT ![t] = "idle"]
      BY <1>24, <2>2, MoveIsQuiet DEF ReleaseTest
    <2>3. CASE pc' = [pc EXCEPT ![t] = "relclose"]
      BY <1>24, <2>3, MoveIsQuiet DEF ReleaseTest
    <2> QED BY <1>24, <2>1, <2>2, <2>3 DEF ReleaseTest, Return
  <1>25. ASSUME NEW t \in Threads, Down(t) PROVE Take(t)
    BY <1>25 DEF Down, Take, Others, Inside, TypeOK
  <1>26. ASSUME NEW t \in Threads, CryptDown(t) PROVE Take(t)
    BY <1>26 DEF CryptDown, Take, Others, Inside, TypeOK
  <1>27. ASSUME NEW t \in Threads, Up(t) PROVE Give(t)
    BY <1>27 DEF Up, Return, Give, Others, Inside, TypeOK
  <1>28. ASSUME NEW t \in Threads, CryptUp(t) PROVE Give(t)
    BY <1>28 DEF CryptUp, Give, Others, Inside, TypeOK
  <1>29. ASSUME NEW t \in Threads, DownInterrupted(t) PROVE Bypass(t)
    BY <1>29 DEF DownInterrupted, Bypass, Others, Inside, TypeOK
  <1>30. ASSUME NEW c \in Chns, UserCommCallBack(c) PROVE Quiet
    BY <1>30 DEF UserCommCallBack, Quiet, Inside
  <1>31. CASE UNCHANGED vars BY <1>31 DEF vars, Quiet, Inside
  <1> QED BY <1>1, <1>2, <1>3, <1>4, <1>5, <1>6, <1>7, <1>8, <1>9, <1>10, <1>11,
           <1>12, <1>13, <1>14, <1>15, <1>16, <1>17, <1>18, <1>19, <1>20, <1>21,
           <1>22, <1>23, <1>24, <1>25, <1>26, <1>27, <1>28, <1>29, <1>30, <1>31
           DEF Next, Step

(* Without signals g_CipherMutexKernel excludes, for any number of threads:  *)
(* at most one thread is between down and up, and the semaphore is free      *)
(* exactly when none is.                                                     *)
THEOREM MutexSafe == ASSUME ~Signals PROVE SafeSpec => []MutexOk
  <1>1. Init => MutexOk BY DEF Init, MutexOk, Inside, Critical, Cmds
  <1>2. TypeOK /\ MutexOk /\ [Next]_vars => MutexOk'
    <2> SUFFICES ASSUME TypeOK, MutexOk, [Next]_vars PROVE MutexOk' OBVIOUS
    <2>1. CASE Quiet BY <2>1 DEF Quiet, MutexOk
    <2>2. ASSUME NEW t \in Threads, Take(t) PROVE MutexOk'
      BY <2>2 DEF Take, Others, MutexOk
    <2>3. ASSUME NEW t \in Threads, Give(t) PROVE MutexOk'
      BY <2>3 DEF Give, Others, MutexOk
    <2>4. \A t \in Threads : ~Bypass(t) BY DEF Bypass
    <2> QED BY <2>1, <2>2, <2>3, <2>4, SemSteps
  <1> QED BY <1>1, <1>2, TypeCorrect, PTL DEF SafeSpec

(* With or without signals, timeouts and faults the semaphore is never lost: *)
(* while it is taken, some thread is on its way to up().                     *)
THEOREM SemKept == SafeSpec => []SemNeverLost
  <1>1. Init => SemNeverLost BY DEF Init, SemNeverLost
  <1>2. TypeOK /\ SemNeverLost /\ [Next]_vars => SemNeverLost'
    <2> SUFFICES ASSUME TypeOK, SemNeverLost, [Next]_vars PROVE SemNeverLost' OBVIOUS
    <2>1. CASE Quiet BY <2>1 DEF Quiet, SemNeverLost
    <2>2. ASSUME NEW t \in Threads, Take(t) \/ Bypass(t) PROVE SemNeverLost'
      BY <2>2 DEF Take, Bypass, SemNeverLost
    <2>3. ASSUME NEW t \in Threads, Give(t) PROVE SemNeverLost'
      BY <2>3 DEF Give, SemNeverLost, TypeOK
    <2> QED BY <2>1, <2>2, <2>3, SemSteps
  <1> QED BY <1>1, <1>2, TypeCorrect, PTL DEF SafeSpec

-----------------------------------------------------------------------------
(* The state a channel is in while a thread creates or destroys it; one   *)
(* nobody is busy with is open and owned, or neither.                        *)
Changing == {"open", "copyout", "shut", "disown", "close"}

ChanAt(t) ==
  LET c == chn[t] IN
  /\ pc[t] = "open" => g_bSoftChnOpen[c] /\ ~bOpen[c] /\ pWichFile[c] = NULL
  /\ pc[t] = "copyout" => g_bSoftChnOpen[c] /\ bOpen[c] /\ pWichFile[c] = NULL
  /\ pc[t] = "shut" => g_bSoftChnOpen[c] /\ pWichFile[c] # NULL
  /\ pc[t] = "disown" => ~g_bSoftChnOpen[c] /\ bOpen[c]
  /\ pc[t] = "close" => ~g_bSoftChnOpen[c] /\ bOpen[c] /\ pWichFile[c] = NULL

ChanInv ==
  /\ \A t \in Threads : pc[t] \notin Releasing
  /\ \A t \in Threads : ChanAt(t)
  /\ ChannelOwned

(* A thread that neither comes from nor gets to one of these places, and     *)
(* leaves the channels alone, disturbs nothing.                              *)
LEMMA ChanFrame ==
  ASSUME TypeOK, ChanInv, NEW t \in Threads, NEW p,
         pc' = [pc EXCEPT ![t] = p],
         \A u \in Threads \ {t} : chn'[u] = chn[u],
         UNCHANGED <<g_bSoftChnOpen, bOpen, pWichFile>>,
         pc[t] \notin Changing, p \notin Changing \cup Releasing
  PROVE  ChanInv'
  <1>1. pc \in [Threads -> Places] BY DEF TypeOK
  <1>2. \A u \in Threads : /\ pc'[u] = IF u = t THEN p ELSE pc[u]
                           /\ pc[u] \in Changing => chn'[u] = chn[u]
    BY <1>1
  <1>3. \A c \in Chns : BusyWith(c)' <=> BusyWith(c)
    BY <1>1, <1>2 DEF BusyWith, Changing, ChanInv, Releasing
  <1>4. \A u \in Threads : ChanAt(u)'
    BY <1>1, <1>2 DEF ChanInv, ChanAt, Changing
  <1>5. \A u \in Threads : pc'[u] \notin Releasing BY <1>1, <1>2 DEF ChanInv
  <1>6. ChannelOwned' BY <1>3 DEF ChanInv, ChannelOwned
  <1> QED BY <1>4, <1>5, <1>6 DEF ChanInv

(* A thread that is alone with its channel may change its state. *)
LEMMA ChanAlone ==
  ASSUME TypeOK, ChanInv, NEW t \in Threads, NEW p, NEW c \in Chns,
         pc' = [pc EXCEPT ![t] = p], chn' = chn, chn[t] = c, p \notin Releasing,
         \A u \in Threads \ {t} : pc[u] \notin Changing,
         \A d \in Chns \ {c} : /\ g_bSoftChnOpen'[d] = g_bSoftChnOpen[d]
                               /\ bOpen'[d] = bOpen[d] /\ pWichFile'[d] = pWichFile[d],
         ChanAt(t)',
         \/ p \in Changing \ {"shut"}
         \/ /\ g_bSoftChnOpen'[c] = bOpen'[c]
            /\ g_bSoftChnOpen'[c] = (pWichFile'[c] # NULL)
  PROVE  ChanInv'
  <1>1. pc \in [Threads -> Places] BY DEF TypeOK
  <1>2. \A u \in Threads : pc'[u] = IF u = t THEN p ELSE pc[u] BY <1>1
  <1>3. \A d \in Chns \ {c} : ~BusyWith(d)
    BY DEF BusyWith, Changing, ChanInv, Releasing
  <1>4. p \in Changing \ {"shut"} => BusyWith(c)' BY <1>2 DEF BusyWith, Changing
  <1>5. \A u \in Threads : ChanAt(u)' BY <1>2 DEF ChanAt, Changing
  <1>6. \A u \in Threads : pc'[u] \notin Releasing BY <1>2 DEF ChanInv
  <1>7. ChannelOwned' BY <1>3, <1>4 DEF ChanInv, ChannelOwned
  <1> QED BY <1>5, <1>6, <1>7 DEF ChanInv

(* Under the semaphore a thread is alone with the channel it creates or      *)
(* destroys: every step keeps the channels' states.                          *)
LEMMA ChanStep ==
  ASSUME ~Signals, ~Releases, ~CopyFaults, TypeOK, MutexOk, ChanInv, [Next]_vars
  PROVE  ChanInv'
  <1> USE DEF chnVars, drvVars, callVars, At, Goto, Move
  <1>c. \A t \in Threads : cmd[t] \in Cmds /\ cmd[t] \notin Changing \cup Releasing
    BY DEF TypeOK, Cmds, Changing, Releasing
  <1>p. /\ "open" \in Changing /\ "copyout" \in Changing /\ "shut" \in Changing
        /\ "disown" \in Changing /\ "close" \in Changing
        /\ {"down", "up", "setup", "clear", "up1", "task", "wait", "down2", "ok",
            "idle", "create", "destroy", "config", "crypt", "other"}
             \cap (Changing \cup Releasing) = {}
    BY DEF Changing, Releasing
  <1>m. ASSUME NEW t \in Threads, NEW u \in Threads, pc[t] \in Changing \cup Cmds,
               pc[u] \in Changing
        PROVE  t = u
    BY <1>m DEF MutexOk, Inside, Critical, Changing
  <1>t. /\ pc \in [Threads -> Places] /\ chn \in [Threads -> Handles]
        /\ g_bSoftChnOpen \in [Chns -> BOOLEAN] /\ bOpen \in [Chns -> BOOLEAN]
        /\ pWichFile \in [Chns -> Files \cup {NULL}]
        /\ \A t \in Threads : pc[t] \in Changing => chn[t] \in Chns
    BY DEF TypeOK, Changing, Indexing
  <1>1. ASSUME NEW t \in Threads,
               \/ \E r \in Requests : Ioctl(t, r)
               \/ Down(t) \/ Up(t) \/ Other(t) \/ ConfigCheck(t) \/ ConfigSetup(t)
        PROVE  ChanInv'
    <2>1. CASE \E r \in Requests : Ioctl(t, r)
      BY <2>1, <1>p, <1>t, ChanFrame DEF Ioctl
    <2>2. CASE Down(t) BY <2>2, <1>c, <1>p, ChanFrame DEF Down
    <2>3. CASE Up(t) BY <2>3, <1>p, <1>t, ChanFrame DEF Up, Return
    <2>4. CASE Other(t) BY <2>4, <1>p, ChanFrame DEF Other
    <2>5. CASE ConfigCheck(t) BY <2>5, <1>p, ChanFrame DEF ConfigCheck, Checked
    <2>6. CASE ConfigSetup(t) BY <2>6, <1>p, ChanFrame DEF ConfigSetup
    <2> QED BY <1>1, <2>1, <2>2, <2>3, <2>4, <2>5, <2>6
  <1>2. ASSUME NEW t \in Threads,
               \/ CryptCheck(t) \/ CryptClear(t) \/ CryptUp(t) \/ CryptTask(t)
               \/ CryptWoken(t) \/ CryptTimeout(t) \/ CryptDown(t) \/ CryptOk(t)
        PROVE  ChanInv'
    <2>1. CASE CryptCheck(t) BY <2>1, <1>p, ChanFrame DEF CryptCheck, Checked
    <2>2. CASE CryptClear(t) BY <2>2, <1>p, ChanFrame DEF CryptClear
    <2>3. CASE CryptUp(t) BY <2>3, <1>p, ChanFrame DEF CryptUp
    <2>4. CASE CryptTask(t) BY <2>4, <1>p, <1>t, ChanFrame DEF CryptTask, Return
    <2>5. CASE CryptWoken(t) BY <2>5, <1>p, ChanFrame DEF CryptWoken
    <2>6. CASE CryptTimeout(t)
      BY <2>6, <1>p, <1>t, ChanFrame DEF CryptTimeout, Return
    <2>7. CASE CryptDown(t) BY <2>7, <1>p, ChanFrame DEF CryptDown
    <2>8. CASE CryptOk(t) BY <2>8, <1>p, ChanFrame DEF CryptOk
    <2> QED BY <1>2, <2>1, <2>2, <2>3, <2>4, <2>5, <2>6, <2>7, <2>8
  <1>3. ASSUME NEW t \in Threads, CreateScan(t) PROVE ChanInv'
    <2>1. CASE pc' = [pc EXCEPT ![t] = "up"] /\ UNCHANGED <<g_bSoftChnOpen, chn>>
      BY <1>3, <2>1, <1>p, ChanFrame DEF CreateScan
    <2>2. ASSUME NEW c \in FreeChns,
                 g_bSoftChnOpen' = [g_bSoftChnOpen EXCEPT ![c] = TRUE],
                 chn' = [chn EXCEPT ![t] = c],
                 pc' = [pc EXCEPT ![t] = "open"]
          PROVE  ChanInv'
      <3>1. c \in Chns /\ ~g_bSoftChnOpen[c] BY DEF FreeChns
      <3>2. pc[t] = "create" /\ UNCHANGED <<bOpen, pWichFile>>
        BY <1>3 DEF CreateScan
      <3>3. \A u \in Threads : pc[u] \notin Changing
        BY <3>2, <1>m, <1>p DEF Cmds
      <3>4. \A d \in Chns : ~BusyWith(d)
        BY <3>3 DEF BusyWith, Changing, ChanInv, Releasing
      <3>5. ~bOpen[c] /\ pWichFile[c] = NULL
        BY <3>1, <3>4, <1>t DEF ChanInv, ChannelOwned
      <3>6. \A u \in Threads : ChanAt(u)'
        BY <2>2, <3>1, <3>2, <3>3, <3>5, <1>t DEF ChanAt, Changing
      <3>7. \A u \in Threads : pc'[u] \notin Releasing
        BY <2>2, <1>t DEF ChanInv, Releasing
      <3>8. BusyWith(c)' BY <2>2, <1>t DEF BusyWith
      <3>9. ChannelOwned'
        BY <2>2, <3>1, <3>2, <3>4, <3>8, <1>t DEF ChanInv, ChannelOwned
      <3> QED BY <3>6, <3>7, <3>9 DEF ChanInv
    <2> QED BY <1>3, <2>1, <2>2 DEF CreateScan
  <1>4. ASSUME NEW t \in Threads,
               \/ CreateOpen(t) \/ CreateCopyOut(t) \/ DestroyCheck(t)
               \/ DestroyShut(t) \/ DestroyDisown(t) \/ DestroyClose(t)
        PROVE  ChanInv'
    <2> DEFINE c == chn[t]
    <2>1. pc[t] \in Changing \cup {"destroy"}
      BY <1>4, <1>p DEF CreateOpen, CreateCopyOut, DestroyCheck, Checked,
           DestroyShut,
         DestroyDisown, DestroyClose
    <2>2. \A u \in Threads \ {t} : pc[u] \notin Changing BY <2>1, <1>m DEF Cmds
    <2>3. pc[t] \in Changing => c \in Chns /\ ChanAt(t) BY <1>t DEF ChanInv
    <2>4. CASE CreateOpen(t)
      <3>1. ChanAt(t)' BY <2>3, <2>4, <1>p, <1>t DEF CreateOpen, ChanAt
      <3> QED BY <3>1, <2>2, <2>3, <2>4, <1>p, <1>t, ChanAlone
              DEF CreateOpen, Changing, Releasing
    <2>5. CASE CreateCopyOut(t)
      <3>1. ChanAt(t)' /\ FileOf[t] # NULL
        BY <2>5, <1>t, OsrAssumption DEF CreateCopyOut, ChanAt, OsrAssumption
      <3>2. /\ g_bSoftChnOpen'[c] = bOpen'[c]
            /\ g_bSoftChnOpen'[c] = (pWichFile'[c] # NULL)
        BY <3>1, <2>3, <2>5, <1>p, <1>t DEF CreateCopyOut, ChanAt
      <3> QED BY <3>1, <3>2, <2>2, <2>3, <2>5, <1>p, <1>t, ChanAlone
              DEF CreateCopyOut, Releasing
    <2>6. CASE DestroyCheck(t)
      <3>1. CASE Move(t, "destroy", "up") BY <3>1, <1>p, ChanFrame
      <3>2. CASE Move(t, "destroy", "shut") /\ HandleOk(t)
        <4>1. c \in Chns /\ g_bSoftChnOpen[c] /\ pWichFile[c] = FileOf[t] /\ FileOf[t] # NULL
          BY <3>2, <1>t, OsrAssumption DEF HandleOk, Handles, Chns,
               OsrAssumption
        <4>2. ~BusyWith(c)
          BY <3>2, <2>2 DEF BusyWith, Changing, ChanInv, Releasing
        <4>3. ChanAt(t)' BY <3>2, <4>1, <1>t DEF ChanAt
        <4> QED BY <3>2, <4>1, <4>2, <4>3, <2>2, ChanAlone
                DEF ChanInv, ChannelOwned, Releasing
      <3> QED BY <2>6, <3>1, <3>2 DEF DestroyCheck, Checked
    <2>7. CASE DestroyShut(t)
      <3>1. ~BusyWith(c)
        BY <2>2, <2>7 DEF DestroyShut, BusyWith, Changing, ChanInv, Releasing
      <3>2. bOpen[c]
        BY <3>1, <2>3, <2>7, <1>p DEF DestroyShut, ChanInv, ChannelOwned, ChanAt
      <3>3. ChanAt(t)' BY <2>3, <2>7, <3>2, <1>p, <1>t DEF DestroyShut, ChanAt
      <3> QED BY <3>3, <2>2, <2>3, <2>7, <1>p, <1>t, ChanAlone
              DEF DestroyShut, Changing, Releasing
    <2>8. CASE DestroyDisown(t)
      <3>1. ChanAt(t)' BY <2>3, <2>8, <1>p, <1>t DEF DestroyDisown, ChanAt
      <3> QED BY <3>1, <2>2, <2>3, <2>8, <1>p, <1>t, ChanAlone
              DEF DestroyDisown, Changing, Releasing
    <2>9. CASE DestroyClose(t)
      <3>1. ChanAt(t)' BY <2>9, <1>t DEF DestroyClose, ChanAt
      <3>2. /\ g_bSoftChnOpen'[c] = bOpen'[c]
            /\ g_bSoftChnOpen'[c] = (pWichFile'[c] # NULL)
        BY <2>3, <2>9, <1>p, <1>t DEF DestroyClose, ChanAt
      <3> QED BY <3>1, <3>2, <2>2, <2>3, <2>9, <1>p, <1>t, ChanAlone
              DEF DestroyClose, Releasing
    <2> QED BY <1>4, <2>4, <2>5, <2>6, <2>7, <2>8, <2>9
  <1>5. ASSUME NEW t \in Threads,
               \/ ReleaseTest(t) \/ ReleaseClose(t) \/ ReleaseOpen(t) \/ ReleaseOwner(t)
               \/ ReleaseStart(t) \/ DownInterrupted(t) \/ CryptSignalled(t)
               \/ CryptDownInterrupted(t)
        PROVE  FALSE
    BY <1>5 DEF ReleaseTest, ReleaseClose, ReleaseOpen, ReleaseOwner,
         ReleaseStart,
       DownInterrupted, CryptSignalled, CryptDownInterrupted, ChanInv, Releasing
  <1>6. CASE UNCHANGED <<pc, chn, g_bSoftChnOpen, bOpen, pWichFile>>
    BY <1>6 DEF ChanInv, ChanAt, ChannelOwned, BusyWith
  <1>7. (\E c \in Chns : UserCommCallBack(c)) \/ UNCHANGED vars
        => UNCHANGED <<pc, chn, g_bSoftChnOpen, bOpen, pWichFile>>
    BY DEF UserCommCallBack, vars
  <1> QED BY <1>1, <1>2, <1>3, <1>4, <1>5, <1>6, <1>7 DEF Next, Step

(* With neither signals nor faults of copy_to_user, and while no file is     *)
(* closed, for any number of threads, also of one file: a channel that       *)
(* nobody is creating or destroying is open in the driver exactly when it is *)
(* marked open, and then has an owner.                                       *)
THEOREM ChannelSafe ==
  ASSUME ~Signals, ~Releases, ~CopyFaults PROVE SafeSpec => []ChannelOwned
  <1>1. Init => ChanInv
    <2> SUFFICES ASSUME Init PROVE ChanInv OBVIOUS
    <2>1. \A t \in Threads : pc[t] = "idle" BY DEF Init
    <2>2. \A c \in Chns : ~g_bSoftChnOpen[c] /\ ~bOpen[c] /\ pWichFile[c] = NULL
      BY DEF Init
    <2>3. ChannelOwned BY <2>2, TypeInit DEF ChannelOwned, TypeOK
    <2> QED BY <2>1, <2>3 DEF ChanInv, ChanAt, Releasing
  <1>2. TypeOK /\ MutexOk /\ ChanInv /\ [Next]_vars => ChanInv' BY ChanStep
  <1>3. ChanInv => ChannelOwned BY DEF ChanInv
  <1> QED BY <1>1, <1>2, <1>3, TypeCorrect, MutexSafe, PTL DEF SafeSpec

-----------------------------------------------------------------------------
(* One thread uses each file *)
OneThreadPerFile == \A t, u \in Threads : FileOf[t] = FileOf[u] => t = u

(* Places behind the test of the handle, where the channel is the thread's   *)
Owning == {"shut", "setup", "clear", "up1", "task", "wait", "down2", "ok"}
Owned == Owning \cup {"disown", "open", "copyout"}

(* The test of the handle still holds there, also behind up(), where the     *)
(* semaphore protects it no longer: other threads create and destroy only    *)
(* channels of their own files.                                              *)
OwnAt(t) ==
  LET c == chn[t] IN
  /\ pc[t] \in Owning => g_bSoftChnOpen[c] /\ pWichFile[c] = FileOf[t]
  /\ pc[t] = "disown" => ~g_bSoftChnOpen[c] /\ pWichFile[c] = FileOf[t]
  /\ pc[t] \in {"open", "copyout"} => g_bSoftChnOpen[c] /\ pWichFile[c] = NULL

OwnInv ==
  /\ \A t \in Threads : pc[t] \notin Releasing
  /\ \A t \in Threads : OwnAt(t)
  /\ \A c \in Chns : pWichFile[c] # NULL =>
       g_bSoftChnOpen[c] \/ \E t \in Threads : pc[t] = "disown" /\ chn[t] = c

LEMMA OwnFrame ==
  ASSUME TypeOK, OwnInv, NEW t \in Threads, NEW p,
         pc' = [pc EXCEPT ![t] = p],
         \A u \in Threads \ {t} : chn'[u] = chn[u],
         UNCHANGED <<g_bSoftChnOpen, pWichFile>>,
         pc[t] # "disown", p \notin Releasing \cup {"disown", "open", "copyout"},
         p \in Owning => chn'[t] = chn[t] /\ (pc[t] \in Owning \/ HandleOk(t))
  PROVE  OwnInv'
  <1>1. pc \in [Threads -> Places] BY DEF TypeOK
  <1>2. \A u \in Threads : pc'[u] = IF u = t THEN p ELSE pc[u] BY <1>1
  <1>3. \A u \in Threads : OwnAt(u)' BY <1>2 DEF OwnInv, OwnAt, HandleOk
  <1>4. \A u \in Threads : pc'[u] \notin Releasing BY <1>2 DEF OwnInv
  <1>5. ASSUME NEW c \in Chns, pWichFile'[c] # NULL, ~g_bSoftChnOpen'[c]
        PROVE  \E u \in Threads : pc'[u] = "disown" /\ chn'[u] = c
    <2>1. PICK u \in Threads : pc[u] = "disown" /\ chn[u] = c BY <1>5 DEF OwnInv
    <2> QED BY <1>2, <2>1
  <1> QED BY <1>3, <1>4, <1>5 DEF OwnInv

(* A thread may change the state of a channel that no other thread has. *)
LEMMA OwnTouch ==
  ASSUME TypeOK, OwnInv, NEW t \in Threads, NEW p, NEW c \in Chns,
         pc' = [pc EXCEPT ![t] = p], p \notin Releasing,
         \A u \in Threads \ {t} : chn'[u] = chn[u],
         pc[t] = "disown" => chn[t] = c, chn'[t] = c,
         \A u \in Threads \ {t} : pc[u] \in Owned => chn[u] # c /\ chn[u] \in Chns,
         \A d \in Chns \ {c} : /\ g_bSoftChnOpen'[d] = g_bSoftChnOpen[d]
                               /\ pWichFile'[d] = pWichFile[d],
         OwnAt(t)',
         pWichFile'[c] # NULL => g_bSoftChnOpen'[c] \/ p = "disown"
  PROVE  OwnInv'
  <1>1. pc \in [Threads -> Places] BY DEF TypeOK
  <1>2. \A u \in Threads : pc'[u] = IF u = t THEN p ELSE pc[u] BY <1>1
  <1>3. \A u \in Threads : OwnAt(u)' BY <1>2 DEF OwnInv, OwnAt, Owned
  <1>4. \A u \in Threads : pc'[u] \notin Releasing BY <1>2 DEF OwnInv
  <1>5. ASSUME NEW d \in Chns, pWichFile'[d] # NULL, ~g_bSoftChnOpen'[d]
        PROVE  \E u \in Threads : pc'[u] = "disown" /\ chn'[u] = d
    <2>1. CASE d = c BY <2>1, <1>2, <1>5
    <2>2. CASE d # c
      <3>1. PICK u \in Threads : pc[u] = "disown" /\ chn[u] = d
        BY <1>5, <2>2 DEF OwnInv
      <3> QED BY <1>2, <2>2, <3>1
    <2> QED BY <2>1, <2>2
  <1> QED BY <1>3, <1>4, <1>5 DEF OwnInv

LEMMA OwnStep ==
  ASSUME ~Signals, ~Releases, OneThreadPerFile, TypeOK, MutexOk, OwnInv, [Next]_vars
  PROVE  OwnInv'
  <1> USE DEF chnVars, drvVars, callVars, At, Goto, Move
  <1>c. \A t \in Threads : cmd[t] \in Cmds BY DEF TypeOK
  <1>p. /\ {"shut", "setup", "clear", "up1", "task", "wait", "down2", "ok"} \subseteq Owning
        /\ ({"down", "up", "idle"} \cup Cmds) \cap Owned = {}
        /\ (Cmds \cup Owned \cup {"down", "up", "idle", "close"}) \cap Releasing = {}
        /\ Owning \cap {"disown", "open", "copyout"} = {}
        /\ Owning \subseteq Owned /\ {"disown", "open", "copyout"} \subseteq Owned
        /\ "close" \notin Owned
    BY DEF Owning, Owned, Releasing, Cmds
  <1>m. ASSUME NEW t \in Threads, NEW u \in Threads,
               pc[t] = "create", pc[u] \in {"disown", "open", "copyout"}
        PROVE  FALSE
    BY <1>m DEF MutexOk, Inside, Critical, Cmds
  <1>t. /\ pc \in [Threads -> Places] /\ chn \in [Threads -> Handles]
        /\ g_bSoftChnOpen \in [Chns -> BOOLEAN]
        /\ pWichFile \in [Chns -> Files \cup {NULL}]
        /\ \A t \in Threads : pc[t] \in Owned \cup {"close"} => chn[t] \in Chns
        /\ \A t \in Threads : FileOf[t] # NULL
    BY OsrAssumption DEF TypeOK, Owned, Owning, Indexing, OsrAssumption
  <1>1. ASSUME NEW t \in Threads,
               \/ \E r \in Requests : Ioctl(t, r)
               \/ Down(t) \/ Up(t) \/ Other(t) \/ ConfigCheck(t) \/ ConfigSetup(t)
        PROVE  OwnInv'
    <2>1. CASE \E r \in Requests : Ioctl(t, r)
      BY <2>1, <1>p, <1>t, OwnFrame DEF Ioctl
    <2>2. CASE Down(t) BY <2>2, <1>c, <1>p, OwnFrame DEF Down, Cmds
    <2>3. CASE Up(t) BY <2>3, <1>p, <1>t, OwnFrame DEF Up, Return
    <2>4. CASE Other(t) BY <2>4, <1>p, OwnFrame DEF Other
    <2>5. CASE ConfigCheck(t) BY <2>5, <1>p, OwnFrame DEF ConfigCheck, Checked
    <2>6. CASE ConfigSetup(t) BY <2>6, <1>p, OwnFrame DEF ConfigSetup
    <2> QED BY <1>1, <2>1, <2>2, <2>3, <2>4, <2>5, <2>6
  <1>2. ASSUME NEW t \in Threads,
               \/ CryptCheck(t) \/ CryptClear(t) \/ CryptUp(t) \/ CryptTask(t)
               \/ CryptWoken(t) \/ CryptTimeout(t) \/ CryptDown(t) \/ CryptOk(t)
        PROVE  OwnInv'
    <2>1. CASE CryptCheck(t) BY <2>1, <1>p, OwnFrame DEF CryptCheck, Checked
    <2>2. CASE CryptClear(t) BY <2>2, <1>p, OwnFrame DEF CryptClear
    <2>3. CASE CryptUp(t) BY <2>3, <1>p, OwnFrame DEF CryptUp
    <2>4. CASE CryptTask(t) BY <2>4, <1>p, <1>t, OwnFrame DEF CryptTask, Return
    <2>5. CASE CryptWoken(t) BY <2>5, <1>p, OwnFrame DEF CryptWoken
    <2>6. CASE CryptTimeout(t)
      BY <2>6, <1>p, <1>t, OwnFrame DEF CryptTimeout, Return
    <2>7. CASE CryptDown(t) BY <2>7, <1>p, OwnFrame DEF CryptDown
    <2>8. CASE CryptOk(t) BY <2>8, <1>p, OwnFrame DEF CryptOk
    <2> QED BY <1>2, <2>1, <2>2, <2>3, <2>4, <2>5, <2>6, <2>7, <2>8
  <1>3. ASSUME NEW t \in Threads, CreateScan(t) PROVE OwnInv'
    <2>1. CASE pc' = [pc EXCEPT ![t] = "up"] /\ UNCHANGED <<g_bSoftChnOpen, chn>>
      BY <1>3, <2>1, <1>p, OwnFrame DEF CreateScan
    <2>2. ASSUME NEW c \in FreeChns,
                 g_bSoftChnOpen' = [g_bSoftChnOpen EXCEPT ![c] = TRUE],
                 chn' = [chn EXCEPT ![t] = c],
                 pc' = [pc EXCEPT ![t] = "open"]
          PROVE  OwnInv'
      <3>1. c \in Chns /\ ~g_bSoftChnOpen[c] BY DEF FreeChns
      <3>2. pc[t] = "create" /\ UNCHANGED pWichFile BY <1>3 DEF CreateScan
      <3>3. \A u \in Threads : pc[u] \notin {"disown", "open", "copyout"}
        BY <3>2, <1>m
      <3>4. pWichFile[c] = NULL BY <3>1, <3>3 DEF OwnInv
      <3>5. \A u \in Threads \ {t} : pc[u] \in Owned => chn[u] # c /\ chn[u] \in Chns
        BY <3>1, <3>3, <1>t DEF OwnInv, OwnAt, Owned
      <3>6. OwnAt(t)' BY <2>2, <3>1, <3>2, <3>4, <1>p, <1>t DEF OwnAt
      <3>7. /\ \A u \in Threads \ {t} : chn'[u] = chn[u]
            /\ chn'[t] = c /\ pWichFile'[c] = NULL /\ "open" \notin Releasing
            /\ \A d \in Chns \ {c} : g_bSoftChnOpen'[d] = g_bSoftChnOpen[d]
        BY <2>2, <3>1, <3>2, <3>4, <1>p, <1>t
      <3> HIDE <1>3
      <3> QED BY <2>2, <3>1, <3>2, <3>5, <3>6, <3>7, OwnTouch
    <2> QED BY <1>3, <2>1, <2>2 DEF CreateScan
  <1>4. ASSUME NEW t \in Threads, pc[t] \in Owned \cup {"close"}
        PROVE  /\ OwnAt(t) /\ chn[t] \in Chns
               /\ pc[t] # "close" =>
                    \A u \in Threads \ {t} : pc[u] \in Owned \ {"open", "copyout"} =>
                       chn[u] # chn[t] /\ chn[u] \in Chns
    BY <1>4, <1>t DEF OneThreadPerFile, OwnInv, OwnAt, Owned
  <1>o. ASSUME NEW t \in Threads, pc[t] \in {"shut", "disown", "copyout"},
               NEW u \in Threads, pc[u] \in {"open", "copyout"}
        PROVE  t = u
    BY <1>o DEF MutexOk, Inside, Critical
  <1>5. ASSUME NEW t \in Threads, CreateOpen(t) PROVE OwnInv'
    <2>1. OwnAt(t)' BY <1>4, <1>5, <1>p, <1>t DEF CreateOpen, OwnAt
    <2>2. \A u \in Threads \ {t} : pc[u] \notin {"open", "copyout"}
      BY <1>5 DEF CreateOpen, MutexOk, Inside, Critical
    <2> QED BY <2>1, <2>2, <1>4, <1>5, <1>p, <1>t, OwnTouch DEF CreateOpen,
             OwnInv, OwnAt
  <1>6. ASSUME NEW t \in Threads, CreateCopyOut(t) PROVE OwnInv'
    <2>1. OwnAt(t)' BY <1>6, <1>p, <1>t DEF CreateCopyOut, OwnAt
    <2>2. g_bSoftChnOpen[chn[t]] BY <1>4, <1>6, <1>p DEF CreateCopyOut, OwnAt
    <2>3. /\ pc[t] \in Owned /\ chn[t] \in Chns /\ pc' = [pc EXCEPT ![t] = "up"]
          /\ chn' = chn /\ "up" \notin Releasing
          /\ \A d \in Chns \ {chn[t]} : /\ g_bSoftChnOpen'[d] = g_bSoftChnOpen[d]
                                        /\ pWichFile'[d] = pWichFile[d]
          /\ pWichFile'[chn[t]] # NULL => g_bSoftChnOpen'[chn[t]] \/ "up" = "disown"
      BY <2>2, <1>4, <1>6, <1>p, <1>t DEF CreateCopyOut
    <2>4. \A u \in Threads \ {t} : pc[u] \in Owned => chn[u] # chn[t] /\ chn[u] \in Chns
      BY <1>4, <1>o, <1>6, <2>3, <1>t DEF CreateCopyOut
    <2> QED BY <2>1, <2>3, <2>4, OwnTouch
  <1>7. ASSUME NEW t \in Threads, DestroyCheck(t) PROVE OwnInv'
    BY <1>7, <1>p, OwnFrame DEF DestroyCheck, Checked
  <1>8. ASSUME NEW t \in Threads, DestroyShut(t) PROVE OwnInv'
    <2>1. OwnAt(t)'
      BY <1>4, <1>8, <1>p, <1>t DEF DestroyShut, OwnAt, Owned, Owning
    <2>3. /\ pc[t] \in Owned /\ chn[t] \in Chns /\ pc' = [pc EXCEPT ![t] = "disown"]
          /\ chn' = chn /\ "disown" \notin Releasing
          /\ \A d \in Chns \ {chn[t]} : /\ g_bSoftChnOpen'[d] = g_bSoftChnOpen[d]
                                        /\ pWichFile'[d] = pWichFile[d]
          /\ pWichFile'[chn[t]] # NULL => g_bSoftChnOpen'[chn[t]] \/ "disown" = "disown"
      BY <1>4, <1>8, <1>p, <1>t DEF DestroyShut
    <2>4. \A u \in Threads \ {t} : pc[u] \in Owned => chn[u] # chn[t] /\ chn[u] \in Chns
      BY <1>4, <1>o, <1>8, <2>3, <1>t DEF DestroyShut
    <2> QED BY <2>1, <2>3, <2>4, OwnTouch
  <1>9. ASSUME NEW t \in Threads, DestroyDisown(t) PROVE OwnInv'
    <2>1. OwnAt(t)' BY <1>9, <1>p, <1>t DEF DestroyDisown, OwnAt
    <2>3. /\ pc[t] \in Owned /\ chn[t] \in Chns /\ pc' = [pc EXCEPT ![t] = "close"]
          /\ chn' = chn /\ "close" \notin Releasing
          /\ \A d \in Chns \ {chn[t]} : /\ g_bSoftChnOpen'[d] = g_bSoftChnOpen[d]
                                        /\ pWichFile'[d] = pWichFile[d]
          /\ pWichFile'[chn[t]] # NULL => g_bSoftChnOpen'[chn[t]] \/ "close" = "disown"
      BY <1>4, <1>9, <1>p, <1>t DEF DestroyDisown
    <2>4. \A u \in Threads \ {t} : pc[u] \in Owned => chn[u] # chn[t] /\ chn[u] \in Chns
      BY <1>4, <1>o, <1>9, <2>3, <1>t DEF DestroyDisown
    <2> QED BY <2>1, <2>3, <2>4, OwnTouch
  <1>10. ASSUME NEW t \in Threads, DestroyClose(t) PROVE OwnInv'
    BY <1>10, <1>p, <1>t, OwnFrame DEF DestroyClose
  <1>11. ASSUME NEW t \in Threads,
               \/ ReleaseTest(t) \/ ReleaseClose(t) \/ ReleaseOpen(t) \/ ReleaseOwner(t)
               \/ ReleaseStart(t) \/ DownInterrupted(t) \/ CryptSignalled(t)
               \/ CryptDownInterrupted(t)
        PROVE  FALSE
    BY <1>11 DEF ReleaseTest, ReleaseClose, ReleaseOpen, ReleaseOwner,
         ReleaseStart,
       DownInterrupted, CryptSignalled, CryptDownInterrupted, OwnInv, Releasing
  <1>12. CASE UNCHANGED <<pc, chn, g_bSoftChnOpen, pWichFile>>
    BY <1>12 DEF OwnInv, OwnAt
  <1>13. (\E c \in Chns : UserCommCallBack(c)) \/ UNCHANGED vars
         => UNCHANGED <<pc, chn, g_bSoftChnOpen, pWichFile>>
    BY DEF UserCommCallBack, vars
  <1> QED BY <1>1, <1>2, <1>3, <1>5, <1>6, <1>7, <1>8, <1>9, <1>10, <1>11,
           <1>12,
             <1>13 DEF Next, Step

(* The ownership of the channels, with the facts it rests on *)
LEMMA OwnAlways ==
  ASSUME ~Signals, ~Releases, OneThreadPerFile
  PROVE  SafeSpec => [](TypeOK /\ OwnInv)
  <1>1. Init => OwnInv
    BY DEF Init, OwnInv, OwnAt, Owning, Releasing
  <1>2. TypeOK /\ MutexOk /\ OwnInv /\ [Next]_vars => OwnInv' BY OwnStep
  <1> QED BY <1>1, <1>2, TypeCorrect, MutexSafe, PTL DEF SafeSpec

-----------------------------------------------------------------------------
(* What the threads between down and up know of the channel they change, and *)
(* that a channel not marked open has no owner.                              *)
KeepInv ==
  /\ \A t \in Threads : pc[t] \notin Releasing
  /\ \A t \in Threads : pc[t] = "shut" => Holds(FileOf[t], chn[t])
  /\ \A t \in Threads : pc[t] = "disown" => ~g_bSoftChnOpen[chn[t]]
  /\ \A t \in Threads : pc[t] \in {"open", "copyout"} =>
       g_bSoftChnOpen[chn[t]] /\ pWichFile[chn[t]] = NULL
  /\ \A c \in Chns : pWichFile[c] # NULL =>
       g_bSoftChnOpen[c] \/ \E t \in Threads : pc[t] = "disown" /\ chn[t] = c

(* The step is one that HandleKept allows *)
Keeps ==
  \A f \in Files, c \in Chns : Holds(f, c) /\ ~Holds(f, c)' =>
    \E t \in Threads : FileOf[t] = f /\ chn[t] = c /\ pc[t] = "shut"

(* A step of a thread that changes no channel's mark or owner *)
LEMMA KeepFrame ==
  ASSUME KeepInv, NEW t \in Threads,
         \A u \in Threads \ {t} : pc'[u] = pc[u] /\ chn'[u] = chn[u],
         UNCHANGED <<g_bSoftChnOpen, pWichFile>>,
         pc[t] # "disown", pc'[t] \notin Releasing, pc'[t] # "disown",
         pc'[t] = "shut" => chn'[t] = chn[t] /\ HandleOk(t),
         pc'[t] \in {"open", "copyout"} => chn'[t] = chn[t] /\ pc[t] = "open"
  PROVE  KeepInv' /\ Keeps
  <1>1. Keeps BY DEF Keeps, Holds
  <1>2. ASSUME NEW u \in Threads
        PROVE  /\ pc'[u] \notin Releasing
               /\ pc'[u] = "shut" => Holds(FileOf[u], chn[u])'
               /\ pc'[u] = "disown" => ~g_bSoftChnOpen'[chn'[u]]
               /\ pc'[u] \in {"open", "copyout"} =>
                    g_bSoftChnOpen'[chn'[u]] /\ pWichFile'[chn'[u]] = NULL
    <2>1. CASE u = t BY <2>1 DEF KeepInv, Holds, HandleOk
    <2>2. CASE u # t BY <2>2 DEF KeepInv, Holds
    <2> QED BY <2>1, <2>2
  <1>3. ASSUME NEW c \in Chns, pWichFile'[c] # NULL, ~g_bSoftChnOpen'[c]
        PROVE  \E u \in Threads : pc'[u] = "disown" /\ chn'[u] = c
    <2>1. PICK u \in Threads : pc[u] = "disown" /\ chn[u] = c BY <1>3 DEF KeepInv
    <2> QED BY <2>1
  <1> QED BY <1>1, <1>2, <1>3 DEF KeepInv

(* A step of the one thread between down and up that changes a channel *)
LEMMA KeepTouch ==
  ASSUME MutexOk, KeepInv, NEW t \in Threads,
         Inside(t), pc'[t] \notin Releasing, pc'[t] # "shut",
         \A u \in Threads \ {t} : pc'[u] = pc[u] /\ chn'[u] = chn[u],
         pc[t] = "disown" => chn'[t] = chn[t],
         \A d \in Chns \ {chn'[t]} : /\ g_bSoftChnOpen'[d] = g_bSoftChnOpen[d]
                                     /\ pWichFile'[d] = pWichFile[d],
         pc'[t] = "disown" => ~g_bSoftChnOpen'[chn'[t]],
         pc'[t] \in {"open", "copyout"} =>
           g_bSoftChnOpen'[chn'[t]] /\ pWichFile'[chn'[t]] = NULL,
         pWichFile'[chn'[t]] # NULL => g_bSoftChnOpen'[chn'[t]] \/ pc'[t] = "disown"
  PROVE  KeepInv'
  <1>1. \A u \in Threads \ {t} : pc[u] \notin {"shut", "disown", "open", "copyout"}
    BY DEF MutexOk, Inside, Critical
  <1>2. ASSUME NEW u \in Threads
        PROVE  /\ pc'[u] \notin Releasing
               /\ pc'[u] = "shut" => Holds(FileOf[u], chn[u])'
               /\ pc'[u] = "disown" => ~g_bSoftChnOpen'[chn'[u]]
               /\ pc'[u] \in {"open", "copyout"} =>
                    g_bSoftChnOpen'[chn'[u]] /\ pWichFile'[chn'[u]] = NULL
    <2>1. CASE u = t BY <2>1
    <2>2. CASE u # t BY <1>1, <2>2 DEF KeepInv
    <2> QED BY <2>1, <2>2
  <1>3. ASSUME NEW d \in Chns, pWichFile'[d] # NULL, ~g_bSoftChnOpen'[d]
        PROVE  \E u \in Threads : pc'[u] = "disown" /\ chn'[u] = d
    <2>1. CASE d = chn'[t] BY <2>1, <1>3
    <2>2. CASE d # chn'[t]
      <3>1. PICK u \in Threads : pc[u] = "disown" /\ chn[u] = d
        BY <1>3, <2>2 DEF KeepInv
      <3> QED BY <1>1, <2>2, <3>1
    <2> QED BY <2>1, <2>2
  <1> QED BY <1>2, <1>3 DEF KeepInv

(* Every step keeps what the threads know, and takes a channel from a        *)
(* process only by its own destroy.                                          *)
LEMMA KeepStep ==
  ASSUME ~Signals, ~Releases, TypeOK, MutexOk, KeepInv, [Next]_vars
  PROVE  KeepInv' /\ Keeps
  <1> USE DEF chnVars, drvVars, callVars, At, Goto, Move
  <1>c. \A t \in Threads : cmd[t] \in Cmds BY DEF TypeOK
  <1>p. /\ Cmds \cap Releasing = {}
        /\ "down" \notin Releasing /\ "up" \notin Releasing /\ "idle" \notin Releasing
        /\ "open" \notin Releasing /\ "copyout" \notin Releasing
        /\ "shut" \notin Releasing /\ "disown" \notin Releasing
        /\ "close" \notin Releasing /\ "setup" \notin Releasing
        /\ "clear" \notin Releasing /\ "up1" \notin Releasing
        /\ "task" \notin Releasing /\ "wait" \notin Releasing
        /\ "down2" \notin Releasing /\ "ok" \notin Releasing
        /\ Cmds \cap {"shut", "disown", "open", "copyout"} = {}
        /\ {"create", "open", "copyout", "shut", "disown"} \subseteq Critical
    BY DEF Releasing, Cmds, Critical
  <1>t. /\ chn \in [Threads -> Handles] /\ pc \in [Threads -> Places]
        /\ g_bSoftChnOpen \in [Chns -> BOOLEAN]
        /\ pWichFile \in [Chns -> Files \cup {NULL}]
        /\ \A t \in Threads :
             pc[t] \in {"open", "copyout", "shut", "disown"} => chn[t] \in Chns
        /\ NULL \notin Files /\ \A t \in Threads : FileOf[t] \in Files
    BY OsrAssumption DEF TypeOK, Indexing, OsrAssumption
  <1>1. ASSUME NEW t \in Threads,
               \/ \E r \in Requests : Ioctl(t, r)
               \/ Down(t) \/ Up(t) \/ Other(t) \/ ConfigCheck(t) \/ ConfigSetup(t)
               \/ CreateOpen(t) \/ DestroyCheck(t) \/ DestroyClose(t)
        PROVE  KeepInv' /\ Keeps
    <2>1. CASE \E r \in Requests : Ioctl(t, r)
      BY <2>1, <1>p, <1>t, KeepFrame DEF Ioctl
    <2>2. CASE Down(t) BY <2>2, <1>c, <1>p, <1>t, KeepFrame DEF Down, Cmds
    <2>3. CASE Up(t) BY <2>3, <1>p, <1>t, KeepFrame DEF Up, Return
    <2>4. CASE Other(t) BY <2>4, <1>p, <1>t, KeepFrame DEF Other
    <2>5. CASE ConfigCheck(t) BY <2>5, <1>p, <1>t, KeepFrame DEF ConfigCheck, Checked
    <2>6. CASE ConfigSetup(t) BY <2>6, <1>p, <1>t, KeepFrame DEF ConfigSetup
    <2>7. CASE CreateOpen(t) BY <2>7, <1>p, <1>t, KeepFrame DEF CreateOpen
    <2>8. CASE DestroyCheck(t) BY <2>8, <1>p, <1>t, KeepFrame DEF DestroyCheck, Checked
    <2>9. CASE DestroyClose(t) BY <2>9, <1>p, <1>t, KeepFrame DEF DestroyClose
    <2> QED BY <1>1, <2>1, <2>2, <2>3, <2>4, <2>5, <2>6, <2>7, <2>8, <2>9
  <1>2. ASSUME NEW t \in Threads,
               \/ CryptCheck(t) \/ CryptClear(t) \/ CryptUp(t) \/ CryptTask(t)
               \/ CryptWoken(t) \/ CryptTimeout(t) \/ CryptDown(t) \/ CryptOk(t)
        PROVE  KeepInv' /\ Keeps
    <2>1. CASE CryptCheck(t) BY <2>1, <1>p, <1>t, KeepFrame DEF CryptCheck, Checked
    <2>2. CASE CryptClear(t) BY <2>2, <1>p, <1>t, KeepFrame DEF CryptClear
    <2>3. CASE CryptUp(t) BY <2>3, <1>p, <1>t, KeepFrame DEF CryptUp
    <2>4. CASE CryptTask(t) BY <2>4, <1>p, <1>t, KeepFrame DEF CryptTask, Return
    <2>5. CASE CryptWoken(t) BY <2>5, <1>p, <1>t, KeepFrame DEF CryptWoken
    <2>6. CASE CryptTimeout(t)
      BY <2>6, <1>p, <1>t, KeepFrame DEF CryptTimeout, Return
    <2>7. CASE CryptDown(t) BY <2>7, <1>p, <1>t, KeepFrame DEF CryptDown
    <2>8. CASE CryptOk(t) BY <2>8, <1>p, <1>t, KeepFrame DEF CryptOk
    <2> QED BY <1>2, <2>1, <2>2, <2>3, <2>4, <2>5, <2>6, <2>7, <2>8
  (* The steps that change a channel's mark or owner *)
  <1>3. ASSUME NEW t \in Threads, CreateScan(t) PROVE KeepInv' /\ Keeps
    <2>1. CASE pc' = [pc EXCEPT ![t] = "up"] /\ UNCHANGED <<g_bSoftChnOpen, chn>>
      BY <1>3, <2>1, <1>p, <1>t, KeepFrame DEF CreateScan
    <2>2. ASSUME NEW c \in FreeChns,
                 g_bSoftChnOpen' = [g_bSoftChnOpen EXCEPT ![c] = TRUE],
                 chn' = [chn EXCEPT ![t] = c],
                 pc' = [pc EXCEPT ![t] = "open"]
          PROVE  KeepInv' /\ Keeps
      <3>1. c \in Chns /\ ~g_bSoftChnOpen[c] BY DEF FreeChns
      <3>2. pc[t] = "create" /\ UNCHANGED pWichFile BY <1>3 DEF CreateScan
      <3>3. \A u \in Threads : pc[u] # "disown"
        BY <3>2, <1>p DEF MutexOk, Inside
      <3>4. pWichFile[c] = NULL BY <3>1, <3>3 DEF KeepInv
      <3>5. Inside(t) BY <3>2, <1>p DEF Inside
      <3>6. /\ \A u \in Threads \ {t} : chn'[u] = chn[u]
            /\ chn'[t] = c /\ pWichFile'[c] = NULL /\ g_bSoftChnOpen'[c]
            /\ \A d \in Chns \ {c} : /\ g_bSoftChnOpen'[d] = g_bSoftChnOpen[d]
                                      /\ pWichFile'[d] = pWichFile[d]
        BY <2>2, <3>1, <3>2, <3>4, <1>t
      <3>7. KeepInv' BY <2>2, <3>2, <3>5, <3>6, <1>p, <1>t, KeepTouch
      <3>8. Keeps BY <3>1, <3>6 DEF Keeps, Holds
      <3> QED BY <3>7, <3>8
    <2> QED BY <1>3, <2>1, <2>2 DEF CreateScan
  <1>4. ASSUME NEW t \in Threads, CreateCopyOut(t) PROVE KeepInv' /\ Keeps
    <2>1. /\ pc[t] = "copyout" /\ chn[t] \in Chns /\ chn' = chn
          /\ pc' = [pc EXCEPT ![t] = "up"] /\ UNCHANGED g_bSoftChnOpen
          /\ \A d \in Chns \ {chn[t]} : pWichFile'[d] = pWichFile[d]
      BY <1>4, <1>t DEF CreateCopyOut
    <2>2. g_bSoftChnOpen[chn[t]] /\ pWichFile[chn[t]] = NULL
      BY <2>1 DEF KeepInv
    <2>3. Inside(t) BY <2>1, <1>p DEF Inside
    <2>4. KeepInv' BY <2>1, <2>2, <2>3, <1>p, <1>t, KeepTouch
    <2>5. Keeps BY <2>1, <2>2, <1>t DEF Keeps, Holds
    <2> QED BY <2>4, <2>5
  <1>5. ASSUME NEW t \in Threads, DestroyShut(t) PROVE KeepInv' /\ Keeps
    <2>1. /\ pc[t] = "shut" /\ chn[t] \in Chns /\ UNCHANGED <<chn, pWichFile>>
          /\ pc' = [pc EXCEPT ![t] = "disown"]
          /\ g_bSoftChnOpen' = [g_bSoftChnOpen EXCEPT ![chn[t]] = FALSE]
      BY <1>5, <1>t DEF DestroyShut
    <2>2. /\ ~g_bSoftChnOpen'[chn[t]]
          /\ \A d \in Chns \ {chn[t]} : g_bSoftChnOpen'[d] = g_bSoftChnOpen[d]
      BY <2>1, <1>t
    <2>3. Inside(t) BY <2>1, <1>p DEF Inside
    <2>4. KeepInv' BY <2>1, <2>2, <2>3, <1>p, <1>t, KeepTouch
    <2>5. pWichFile[chn[t]] = FileOf[t] BY <2>1 DEF KeepInv, Holds
    <2>6. Keeps BY <2>1, <2>2, <2>5 DEF Keeps, Holds
    <2> QED BY <2>4, <2>6
  <1>6. ASSUME NEW t \in Threads, DestroyDisown(t) PROVE KeepInv' /\ Keeps
    <2>1. /\ pc[t] = "disown" /\ chn[t] \in Chns /\ UNCHANGED <<chn, g_bSoftChnOpen>>
          /\ pc' = [pc EXCEPT ![t] = "close"]
          /\ pWichFile' = [pWichFile EXCEPT ![chn[t]] = NULL]
      BY <1>6, <1>t DEF DestroyDisown
    <2>2. /\ pWichFile'[chn[t]] = NULL
          /\ \A d \in Chns \ {chn[t]} : pWichFile'[d] = pWichFile[d]
      BY <2>1, <1>t
    <2>3. Inside(t) /\ ~g_bSoftChnOpen[chn[t]]
      BY <2>1, <1>p DEF Inside, KeepInv
    <2>4. KeepInv' BY <2>1, <2>2, <2>3, <1>p, <1>t, KeepTouch
    <2>5. Keeps BY <2>1, <2>2, <2>3 DEF Keeps, Holds
    <2> QED BY <2>4, <2>5
  <1>7. ASSUME NEW t \in Threads,
               \/ ReleaseTest(t) \/ ReleaseClose(t) \/ ReleaseOpen(t) \/ ReleaseOwner(t)
               \/ ReleaseStart(t) \/ DownInterrupted(t) \/ CryptSignalled(t)
               \/ CryptDownInterrupted(t)
        PROVE  FALSE
    BY <1>7 DEF ReleaseTest, ReleaseClose, ReleaseOpen, ReleaseOwner,
         ReleaseStart, DownInterrupted, CryptSignalled, CryptDownInterrupted,
         KeepInv, Releasing
  <1>8. CASE UNCHANGED <<pc, chn, g_bSoftChnOpen, pWichFile>>
    BY <1>8 DEF KeepInv, Keeps, Holds
  <1>9. (\E c \in Chns : UserCommCallBack(c)) \/ UNCHANGED vars
         => UNCHANGED <<pc, chn, g_bSoftChnOpen, pWichFile>>
    BY DEF UserCommCallBack, vars
  <1> QED BY <1>1, <1>2, <1>3, <1>4, <1>5, <1>6, <1>7, <1>8, <1>9 DEF Next, Step

(* Without signals and while no file is closed: a process loses a channel    *)
(* only by a destroy of one of its own threads, for any number of threads    *)
(* that share files in any way, whatever times out or faults, and although   *)
(* Encrypt gives the semaphore back in the middle.                           *)
THEOREM HandleSafe ==
  ASSUME ~Signals, ~Releases
  PROVE  SafeSpec => HandleKept
  <1>1. Init => KeepInv BY DEF Init, KeepInv, Releasing
  <1>2. TypeOK /\ MutexOk /\ KeepInv /\ [Next]_vars => KeepInv'
    BY KeepStep
  <1>3. SafeSpec => [](TypeOK /\ MutexOk /\ KeepInv)
    BY <1>1, <1>2, TypeCorrect, MutexSafe, PTL DEF SafeSpec
  <1>4. TypeOK /\ MutexOk /\ KeepInv /\ [Next]_vars =>
          [\A f \in Files, c \in Chns : Holds(f, c) /\ ~Holds(f, c)' =>
             \E t \in Threads : FileOf[t] = f /\ chn[t] = c /\ pc[t] = "shut"]_vars
    BY KeepStep DEF Keeps
  <1> QED BY <1>3, <1>4, PTL DEF SafeSpec, HandleKept

-----------------------------------------------------------------------------
(* Without timeouts no packet is left behind: a queue holds at most the      *)
(* packet of the thread that owns the channel and waits for it, and the flag *)
(* it waits for is clear from before the packet is queued until it is done.  *)
Waiting(t, c) == queue[c] = <<t>> /\ pc[t] = "wait" /\ chn[t] = c

(* The thread has no packet queued *)
NoPacket(t) == \A c \in Chns : queue[c] # <<t>>

DoneInv ==
  /\ \A c \in Chns : queue[c] = <<>> \/ \E t \in Threads : Waiting(t, c)
  /\ \A t \in Threads : pc[t] \in {"up1", "task"} => ~g_bDataDone[chn[t]]
  /\ \A t \in Threads : pc[t] = "wait" /\ g_bDataDone[chn[t]] => queue[chn[t]] = <<>>

(* A call that returns with no packet of its own queued leaves the queues. *)
LEMMA ReturnClean ==
  ASSUME TypeOK, DoneInv, NEW t \in Threads, Return(t), NoPacket(t)
  PROVE  queue' = queue
  <1>1. ASSUME NEW c \in Chns PROVE queue'[c] = queue[c]
    <2>1. queue'[c] = [p \in DOMAIN queue[c] |->
                         IF queue[c][p] = t THEN Lost ELSE queue[c][p]]
      BY DEF Return
    <2>2. CASE queue[c] = <<>> BY <2>1, <2>2
    <2>3. CASE queue[c] # <<>>
      <3>1. PICK u \in Threads : queue[c] = <<u>> BY <2>3 DEF DoneInv, Waiting
      <3>2. u # t BY <3>1 DEF NoPacket
      <3> QED BY <2>1, <3>1, <3>2
    <2> QED BY <2>2, <2>3
  <1>2. queue \in [Chns -> Seq(Threads \cup {Lost})] BY DEF TypeOK
  <1> QED BY <1>1, <1>2 DEF Return

(* A step of a thread that has no packet queued and is not about to queue    *)
(* one                                                                       *)
LEMMA DoneFrame ==
  ASSUME TypeOK, DoneInv, NEW t \in Threads, NEW p,
         pc' = [pc EXCEPT ![t] = p],
         \A u \in Threads \ {t} : chn'[u] = chn[u],
         g_bDataDone' = g_bDataDone, queue' = queue,
         NoPacket(t), p \notin {"up1", "task", "wait"}
  PROVE  DoneInv'
  <1>1. pc \in [Threads -> Places] BY DEF TypeOK
  <1>2. \A u \in Threads : pc'[u] = IF u = t THEN p ELSE pc[u] BY <1>1
  <1>3. ASSUME NEW c \in Chns, queue'[c] # <<>>
        PROVE  \E u \in Threads : Waiting(u, c)'
    <2>1. PICK u \in Threads : Waiting(u, c) BY <1>3 DEF DoneInv
    <2>2. u # t BY <2>1 DEF Waiting, NoPacket
    <2>3. Waiting(u, c)' BY <1>2, <2>1, <2>2 DEF Waiting
    <2> QED BY <2>3
  <1>4. \A u \in Threads : pc'[u] \in {"up1", "task"} => ~g_bDataDone'[chn'[u]]
    BY <1>2 DEF DoneInv
  <1>5. \A u \in Threads : pc'[u] = "wait" /\ g_bDataDone'[chn'[u]]
                           => queue'[chn'[u]] = <<>>
    BY <1>2 DEF DoneInv
  <1> QED BY <1>3, <1>4, <1>5 DEF DoneInv

LEMMA DoneStep ==
  ASSUME ~Signals, ~Releases, ~Timeouts, OneThreadPerFile,
         TypeOK, OwnInv, DoneInv, [Next]_vars
  PROVE  DoneInv'
  <1> USE DEF chnVars, drvVars, callVars, At, Goto, Move
  <1>t. /\ pc \in [Threads -> Places] /\ chn \in [Threads -> Handles]
        /\ g_bDataDone \in [Chns -> BOOLEAN]
        /\ queue \in [Chns -> Seq(Threads \cup {Lost})]
        /\ \A t \in Threads : pc[t] \in Owning => chn[t] \in Chns
        /\ \A t \in Threads : cmd[t] \notin {"up1", "task", "wait"}
    BY DEF TypeOK, Owning, Indexing, Cmds
  <1>q. \A t \in Threads : pc[t] # "wait" => NoPacket(t)
    <2> SUFFICES ASSUME NEW t \in Threads, NEW c \in Chns, queue[c] = <<t>>
                 PROVE  pc[t] = "wait"
      BY DEF NoPacket
    <2>1. PICK u \in Threads : Waiting(u, c) BY DEF DoneInv
    <2> QED BY <2>1 DEF Waiting
  <1>o. ASSUME NEW t \in Threads, NEW u \in Threads, pc[t] \in Owning, pc[u] \in Owning,
               chn[t] = chn[u]
        PROVE  t = u
    BY <1>o DEF OwnInv, OwnAt, OneThreadPerFile
  <1>1. ASSUME NEW t \in Threads,
               \/ \E r \in Requests : Ioctl(t, r)
               \/ Down(t) \/ Other(t) \/ ConfigCheck(t) \/ ConfigSetup(t)
               \/ CreateScan(t) \/ CreateOpen(t) \/ CreateCopyOut(t) \/ DestroyCheck(t)
               \/ DestroyShut(t) \/ DestroyDisown(t) \/ DestroyClose(t)
               \/ CryptCheck(t) \/ CryptDown(t) \/ CryptOk(t)
        PROVE  DoneInv'
    <2>1. CASE \E r \in Requests : Ioctl(t, r)
      BY <2>1, <1>q, <1>t, DoneFrame DEF Ioctl
    <2>2. CASE Down(t) BY <2>2, <1>q, <1>t, DoneFrame DEF Down
    <2>3. CASE Other(t) BY <2>3, <1>q, DoneFrame DEF Other
    <2>4. CASE ConfigCheck(t) \/ DestroyCheck(t) \/ CryptCheck(t)
      BY <2>4, <1>q, DoneFrame DEF ConfigCheck, DestroyCheck, CryptCheck,
           Checked
    <2>5. CASE ConfigSetup(t) BY <2>5, <1>q, DoneFrame DEF ConfigSetup
    <2>6. CASE CreateScan(t) BY <2>6, <1>q, <1>t, DoneFrame DEF CreateScan
    <2>7. CASE CreateOpen(t) BY <2>7, <1>q, DoneFrame DEF CreateOpen
    <2>8. CASE CreateCopyOut(t) BY <2>8, <1>q, DoneFrame DEF CreateCopyOut
    <2>9. CASE DestroyShut(t) BY <2>9, <1>q, DoneFrame DEF DestroyShut
    <2>10. CASE DestroyDisown(t) BY <2>10, <1>q, DoneFrame DEF DestroyDisown
    <2>11. CASE DestroyClose(t) BY <2>11, <1>q, DoneFrame DEF DestroyClose
    <2>12. CASE CryptDown(t) BY <2>12, <1>q, DoneFrame DEF CryptDown
    <2>13. CASE CryptOk(t) BY <2>13, <1>q, DoneFrame DEF CryptOk
    <2> QED BY <1>1, <2>1, <2>2, <2>3, <2>4, <2>5, <2>6, <2>7, <2>8, <2>9,
             <2>10,
               <2>11, <2>12, <2>13
  <1>2. ASSUME NEW t \in Threads, Up(t) PROVE DoneInv'
    <2>1. queue' = queue BY <1>2, <1>q, ReturnClean DEF Up
    <2> QED BY <1>2, <1>q, <1>t, <2>1, DoneFrame DEF Up, Return
  <1>10. ASSUME NEW t \in Threads, CryptUp(t) PROVE DoneInv'
    <2>1. /\ pc[t] = "up1" /\ pc' = [pc EXCEPT ![t] = "task"]
          /\ UNCHANGED <<queue, chn, g_bDataDone>>
      BY <1>10 DEF CryptUp
    <2>2. ASSUME NEW c \in Chns, queue'[c] # <<>>
          PROVE  \E u \in Threads : Waiting(u, c)'
      <3>1. PICK u \in Threads : Waiting(u, c) BY <2>1, <2>2 DEF DoneInv
      <3>2. Waiting(u, c)' BY <2>1, <3>1, <1>t DEF Waiting
      <3> QED BY <3>2
    <2>3. \A u \in Threads : pc'[u] \in {"up1", "task"} => ~g_bDataDone'[chn'[u]]
      BY <2>1, <1>t DEF DoneInv
    <2>4. \A u \in Threads : pc'[u] = "wait" /\ g_bDataDone'[chn'[u]]
                             => queue'[chn'[u]] = <<>>
      BY <2>1, <1>t DEF DoneInv
    <2> QED BY <2>2, <2>3, <2>4 DEF DoneInv
  <1>3. ASSUME NEW t \in Threads, CryptTimeout(t) PROVE DoneInv'
    <2>1. NoPacket(t)
      <3> SUFFICES ASSUME NEW c \in Chns, queue[c] = <<t>> PROVE FALSE
        BY DEF NoPacket
      <3>1. PICK u \in Threads : Waiting(u, c) BY DEF DoneInv
      <3>2. chn[t] = c BY <3>1 DEF Waiting
      <3>3. InQueue(t) BY <3>2 DEF InQueue
      <3> QED BY <1>3, <3>3 DEF CryptTimeout
    <2>2. queue' = queue BY <1>3, <2>1, ReturnClean DEF CryptTimeout
    <2>3. /\ pc' = [pc EXCEPT ![t] = "idle"] /\ g_bDataDone' = g_bDataDone
          /\ \A u \in Threads \ {t} : chn'[u] = chn[u]
      BY <1>3, <1>t DEF CryptTimeout, Return
    <2> QED BY <2>1, <2>2, <2>3, DoneFrame
  <1>4. ASSUME NEW t \in Threads, CryptWoken(t) PROVE DoneInv'
    <2>1. NoPacket(t)
      <3> SUFFICES ASSUME NEW c \in Chns, queue[c] = <<t>> PROVE FALSE
        BY DEF NoPacket
      <3>1. PICK u \in Threads : Waiting(u, c) BY DEF DoneInv
      <3>2. chn[t] = c BY <3>1 DEF Waiting
      <3> QED BY <1>4, <3>2 DEF CryptWoken, DoneInv
    <2>2. pc' = [pc EXCEPT ![t] = "down2"] /\ UNCHANGED <<chn, g_bDataDone, queue>>
      BY <1>4 DEF CryptWoken
    <2> QED BY <2>1, <2>2, DoneFrame
  <1>5. ASSUME NEW t \in Threads, pc[t] \in Owning \ {"wait"}
        PROVE  chn[t] \in Chns /\ queue[chn[t]] = <<>>
    <2>1. chn[t] \in Chns BY <1>5, <1>t
    <2>2. ASSUME NEW u \in Threads, Waiting(u, chn[t]) PROVE FALSE
      BY <1>5, <1>o, <2>2 DEF Waiting, Owning
    <2> QED BY <2>1, <2>2 DEF DoneInv
  <1>6. ASSUME NEW t \in Threads, CryptClear(t) PROVE DoneInv'
    <2>1. /\ pc[t] = "clear" /\ pc[t] \in Owning \ {"wait"}
          /\ pc' = [pc EXCEPT ![t] = "up1"] /\ UNCHANGED <<queue, chn>>
          /\ g_bDataDone' = [g_bDataDone EXCEPT ![chn[t]] = FALSE]
      BY <1>6 DEF CryptClear, Owning
    <2>2. chn[t] \in Chns /\ queue[chn[t]] = <<>> BY <1>5, <2>1
    <2>3. ASSUME NEW c \in Chns, queue'[c] # <<>>
          PROVE  \E u \in Threads : Waiting(u, c)'
      <3>1. PICK u \in Threads : Waiting(u, c) BY <2>1, <2>3 DEF DoneInv
      <3>2. Waiting(u, c)' BY <2>1, <3>1, <1>t DEF Waiting
      <3> QED BY <3>2
    <2>4. \A u \in Threads : pc'[u] \in {"up1", "task"} => ~g_bDataDone'[chn'[u]]
      BY <2>1, <2>2, <1>t DEF DoneInv, Owning
    <2>5. \A u \in Threads : pc'[u] = "wait" /\ g_bDataDone'[chn'[u]]
                             => queue'[chn'[u]] = <<>>
      BY <2>1, <2>2, <1>t DEF DoneInv, Owning
    <2> QED BY <2>3, <2>4, <2>5 DEF DoneInv
  <1>7. ASSUME NEW t \in Threads, CryptTask(t) PROVE DoneInv'
    <2>1. pc[t] = "task" /\ pc[t] \in Owning \ {"wait"}
      BY <1>7 DEF CryptTask, Owning
    <2>2. chn[t] \in Chns /\ queue[chn[t]] = <<>> BY <1>5, <2>1
    <2>3. Len(queue[chn[t]]) < CI_MAX_LIST_NUM
      BY <2>2, OsrAssumption DEF OsrAssumption
    <2>4. /\ queue' = [queue EXCEPT ![chn[t]] = Append(@, t)]
          /\ pc' = [pc EXCEPT ![t] = "wait"] /\ UNCHANGED <<chn, g_bDataDone>>
      BY <1>7, <2>3 DEF CryptTask
    <2>5. queue'[chn[t]] = <<t>> BY <2>2, <2>4, <1>t
    <2>6. ASSUME NEW c \in Chns, queue'[c] # <<>>
          PROVE  \E u \in Threads : Waiting(u, c)'
      <3>1. CASE c = chn[t] BY <3>1, <2>4, <2>5, <1>t DEF Waiting
      <3>2. CASE c # chn[t]
        <4>1. queue'[c] = queue[c] BY <3>2, <2>4, <1>t
        <4>2. PICK u \in Threads : Waiting(u, c) BY <2>6, <4>1 DEF DoneInv
        <4>3. Waiting(u, c)' BY <2>4, <4>1, <4>2, <1>t DEF Waiting
        <4> QED BY <4>3
      <3> QED BY <3>1, <3>2
    <2>7. \A u \in Threads : pc'[u] \in {"up1", "task"} => ~g_bDataDone'[chn'[u]]
      BY <2>4, <1>t DEF DoneInv
    <2>8. ~g_bDataDone[chn[t]] BY <2>1 DEF DoneInv
    <2>9. ASSUME NEW u \in Threads, pc'[u] = "wait", g_bDataDone'[chn'[u]]
          PROVE  queue'[chn'[u]] = <<>>
      <3>1. u # t BY <2>4, <2>8, <2>9
      <3>2. pc[u] = "wait" /\ chn'[u] = chn[u] /\ chn[u] \in Chns
        BY <2>4, <2>9, <3>1, <1>t DEF Owning
      <3>3. chn[u] # chn[t] BY <2>1, <3>1, <3>2, <1>o DEF Owning
      <3> QED BY <2>4, <2>9, <3>2, <3>3, <1>t DEF DoneInv
    <2> QED BY <2>6, <2>7, <2>9 DEF DoneInv
  <1>8. ASSUME NEW c \in Chns, UserCommCallBack(c) PROVE DoneInv'
    <2>1. /\ queue[c] # <<>> /\ UNCHANGED <<pc, chn>>
          /\ queue' = [queue EXCEPT ![c] = Tail(@)]
          /\ g_bDataDone' \in {g_bDataDone, [g_bDataDone EXCEPT ![c] = TRUE]}
      BY <1>8 DEF UserCommCallBack
    <2>2. PICK t \in Threads : Waiting(t, c) BY <2>1 DEF DoneInv
    <2>3. queue'[c] = <<>> BY <2>1, <2>2, <1>t DEF Waiting
    <2>4. \A d \in Chns \ {c} : queue'[d] = queue[d] /\ g_bDataDone'[d] = g_bDataDone[d]
      BY <2>1, <1>t
    <2>5. ASSUME NEW d \in Chns, queue'[d] # <<>>
          PROVE  \E u \in Threads : Waiting(u, d)'
      <3>1. d # c BY <2>3, <2>5
      <3>2. PICK u \in Threads : Waiting(u, d) BY <2>4, <2>5, <3>1 DEF DoneInv
      <3>3. Waiting(u, d)' BY <2>1, <2>4, <3>1, <3>2 DEF Waiting
      <3> QED BY <3>3
    <2>6. ASSUME NEW u \in Threads, pc'[u] \in {"up1", "task"}
          PROVE  ~g_bDataDone'[chn'[u]]
      <3>1. pc[u] \in {"up1", "task"} /\ chn'[u] = chn[u] BY <2>1, <2>6
      <3>2. chn[u] \in Chns /\ chn[u] # c
        BY <2>2, <3>1, <1>o, <1>t DEF Waiting, Owning
      <3> QED BY <2>4, <3>1, <3>2 DEF DoneInv
    <2>7. ASSUME NEW u \in Threads, pc'[u] = "wait", g_bDataDone'[chn'[u]]
          PROVE  queue'[chn'[u]] = <<>>
      <3>1. pc[u] = "wait" /\ chn'[u] = chn[u] /\ chn[u] \in Chns
        BY <2>1, <2>7, <1>t DEF Owning
      <3>2. CASE chn[u] = c BY <2>3, <3>1, <3>2
      <3>3. CASE chn[u] # c BY <2>4, <2>7, <3>1, <3>3 DEF DoneInv
      <3> QED BY <3>2, <3>3
    <2> QED BY <2>5, <2>6, <2>7 DEF DoneInv
  <1>9. ASSUME NEW t \in Threads,
               \/ ReleaseTest(t) \/ ReleaseClose(t) \/ ReleaseOpen(t) \/ ReleaseOwner(t)
               \/ ReleaseStart(t) \/ DownInterrupted(t) \/ CryptSignalled(t)
               \/ CryptDownInterrupted(t)
        PROVE  FALSE
    BY <1>9 DEF ReleaseTest, ReleaseClose, ReleaseOpen, ReleaseOwner,
         ReleaseStart,
       DownInterrupted, CryptSignalled, CryptDownInterrupted, OwnInv, Releasing
  <1>11. CASE UNCHANGED vars BY <1>11 DEF vars, DoneInv, Waiting
  <1> QED BY <1>1, <1>2, <1>3, <1>4, <1>6, <1>7, <1>8, <1>9, <1>10,
             <1>11 DEF Next, Step

(* With one thread per file, without signals, timeouts and closes: Encrypt   *)
(* and Decrypt report success only when the caller's own packet is done.     *)
THEOREM OkSafe ==
  ASSUME ~Signals, ~Releases, ~Timeouts, OneThreadPerFile
  PROVE  SafeSpec => []OkMeansDone
  <1>1. Init => DoneInv BY DEF Init, DoneInv
  <1>2. TypeOK /\ OwnInv /\ DoneInv /\ [Next]_vars => DoneInv' BY DoneStep
  <1>3. TypeOK /\ DoneInv => OkMeansDone
    <2> SUFFICES ASSUME TypeOK, DoneInv, NEW t \in Threads, pc[t] = "ok", InQueue(t)
                 PROVE  FALSE
      BY DEF OkMeansDone
    <2>1. chn[t] \in Chns BY DEF TypeOK, Indexing
    <2>2. PICK p \in DOMAIN queue[chn[t]] : queue[chn[t]][p] = t BY DEF InQueue
    <2>3. queue[chn[t]] # <<>> BY <2>2
    <2>4. PICK u \in Threads : Waiting(u, chn[t]) BY <2>1, <2>3 DEF DoneInv
    <2>5. u = t BY <2>2, <2>4 DEF Waiting
    <2> QED BY <2>4, <2>5 DEF Waiting
  <1> QED BY <1>1, <1>2, <1>3, OwnAlways, PTL DEF SafeSpec
=============================================================================
