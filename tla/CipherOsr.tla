----------------------------- MODULE CipherOsr ------------------------------
(***************************************************************************)
(* The cipher device as user space sees it: cipher/src/cipher_intf.c.      *)
(* Threads of processes call DRV_CIPHER_Ioctl and DRV_CIPHER_Release; the  *)
(* channels below are the abstract queues of CipherFifo (CipherChan        *)
(* implements them), whose callback is DRV_CIPHER_UserCommCallBack.        *)
(*                                                                         *)
(* Every access of a thread to the shared structures is a step of its own, *)
(* so threads interleave wherever the kernel may switch or run them side   *)
(* by side.  Encrypt and Decrypt have the same control and are one command.*)
(***************************************************************************)
EXTENDS Naturals, Sequences

CONSTANTS
  Threads, Files,
  FileOf,               \* the open file each thread uses
  NULL,                 \* no file
  Lost,                 \* queue entry whose caller has gone
  CIPHER_SOFT_CHAN_NUM, \* channels 0 .. NUM - 1; channel 0 is never handed out
  CI_MAX_LIST_NUM,      \* packets a channel's list holds
  Releases,             \* files are closed
  Signals,              \* signals reach threads that wait
  Timeouts,             \* 200 jiffies may pass before the engine answers
  CopyFaults            \* copy_to_user and copy_from_user may fail

ASSUME OsrAssumption ==
  /\ FileOf \in [Threads -> Files]
  /\ NULL \notin Files /\ Lost \notin Threads
  /\ CIPHER_SOFT_CHAN_NUM \in Nat \ {0}
  /\ CI_MAX_LIST_NUM \in Nat \ {0}
  /\ {Releases, Signals, Timeouts, CopyFaults} \subseteq BOOLEAN

VARIABLES
  sem,            \* count of g_CipherMutexKernel
  g_bSoftChnOpen, g_bDataDone, pWichFile, \* g_stCipherOsrChn, by channel
  bOpen, pfnCallBack, queue,              \* the channels of the driver
  pc, cmd, chn    \* each thread's place, command and softChnId

chnVars  == <<g_bSoftChnOpen, g_bDataDone, pWichFile>>
drvVars  == <<bOpen, pfnCallBack, queue>>
callVars == <<cmd, chn>>
vars == <<sem, chnVars, drvVars, pc, callVars>>

Chns == 0 .. CIPHER_SOFT_CHAN_NUM - 1

(* A handle's channel number; the last one is out of range *)
Handles == 0 .. CIPHER_SOFT_CHAN_NUM

Cmds == {"create", "destroy", "config", "crypt", "other"}

(* The commands with the handles that go with them *)
Requests == ({"create", "other"} \X {0}) \cup ({"destroy", "config", "crypt"} \X Handles)

(* Places where a thread gives up the CPU *)
Blocking == {"idle", "down", "wait", "down2"}

(* Places between taking and giving back the semaphore *)
Critical == Cmds \cup {"open", "copyout", "shut", "disown", "close", "setup",
                       "clear", "up1", "ok", "up"}

Releasing == {"rel", "relclose", "relopen", "relowner"}

Places == Blocking \cup Critical \cup Releasing \cup {"task"}

Init ==
  /\ sem = 1
  /\ g_bSoftChnOpen = [c \in Chns |-> FALSE]
  /\ g_bDataDone = [c \in Chns |-> FALSE]
  /\ pWichFile = [c \in Chns |-> NULL]
  /\ bOpen = [c \in Chns |-> FALSE]
  /\ pfnCallBack = [c \in Chns |-> FALSE]
  /\ queue = [c \in Chns |-> <<>>]
  /\ pc = [t \in Threads |-> "idle"]
  /\ cmd = [t \in Threads |-> "other"]
  /\ chn = [t \in Threads |-> 0]

At(t, place) == pc[t] = place

Goto(t, place) == pc' = [pc EXCEPT ![t] = place]

(* A step that changes only the thread's place *)
Move(t, here, next) ==
  /\ At(t, here) /\ Goto(t, next)
  /\ UNCHANGED <<sem, chnVars, drvVars, callVars>>

(* The call returns: its locals are gone, and a packet it did not wait for   *)
(* stays in the queue as nobody's                                            *)
Return(t) ==
  /\ pc' = [pc EXCEPT ![t] = "idle"]
  /\ cmd' = [cmd EXCEPT ![t] = "other"]
  /\ chn' = [chn EXCEPT ![t] = 0]
  /\ queue' = [c \in Chns |-> [p \in DOMAIN queue[c] |->
                 IF queue[c][p] = t THEN Lost ELSE queue[c][p]]]

(* The caller's packet was submitted and not yet reported *)
InQueue(t) == \E p \in DOMAIN queue[chn[t]] : queue[chn[t]][p] = t

-----------------------------------------------------------------------------
(* Entry of DRV_CIPHER_Ioctl.  A file being released has no other users. *)
Ioctl(t, r) ==
  /\ At(t, "idle")
  /\ \A u \in Threads : FileOf[u] = FileOf[t] => pc[u] \notin Releasing
  /\ cmd' = [cmd EXCEPT ![t] = r[1]]
  /\ chn' = [chn EXCEPT ![t] = r[2]]
  /\ Goto(t, "down")
  /\ UNCHANGED <<sem, chnVars, drvVars>>

(* A wrong variant: the semaphore is taken without waiting for it *)
BugDown(t) ==
  /\ At(t, "down")
  /\ sem' = sem - 1
  /\ Goto(t, cmd[t])
  /\ UNCHANGED <<chnVars, drvVars, callVars>>

(* down_interruptible(&g_CipherMutexKernel) takes the semaphore *)
Down(t) ==
  /\ At(t, "down")
  /\ sem > 0
  /\ sem' = sem - 1
  /\ Goto(t, cmd[t])
  /\ UNCHANGED <<chnVars, drvVars, callVars>>

(* A signal ends the wait for the semaphore.  The result is stored in Ret,  *)
(* no code reads it, and the command runs without the semaphore.            *)
DownInterrupted(t) == Signals /\ sem = 0 /\ Move(t, "down", cmd[t])

(* up(&g_CipherMutexKernel) at the end of the switch *)
Up(t) ==
  /\ At(t, "up")
  /\ sem' = sem + 1
  /\ Return(t)
  /\ UNCHANGED <<chnVars, bOpen, pfnCallBack>>

(* An unknown command *)
Other(t) == Move(t, "other", "up")

-----------------------------------------------------------------------------
(* HI_CIPHER_CreateHandle: under the spin lock the first free channel is     *)
(* found and marked open                                                     *)
FreeChns == {c \in Chns \ {0} : ~g_bSoftChnOpen[c]}

CreateScan(t) ==
  /\ At(t, "create")
  /\ \/ /\ FreeChns = {}
        /\ Goto(t, "up")
        /\ UNCHANGED <<g_bSoftChnOpen, chn>>
     \/ \E c \in FreeChns :
          /\ \A d \in FreeChns : c <= d
          /\ g_bSoftChnOpen' = [g_bSoftChnOpen EXCEPT ![c] = TRUE]
          /\ chn' = [chn EXCEPT ![t] = c]
          /\ Goto(t, "open")
  /\ UNCHANGED <<sem, g_bDataDone, pWichFile, drvVars, cmd>>

(* DRV_Cipher_OpenChn *)
CreateOpen(t) ==
  /\ At(t, "open")
  /\ bOpen' = [bOpen EXCEPT ![chn[t]] = TRUE]
  /\ Goto(t, "copyout")
  /\ UNCHANGED <<sem, chnVars, pfnCallBack, queue, callVars>>

(* copy_to_user of the handle; only then the channel gets its file *)
CreateCopyOut(t) ==
  /\ At(t, "copyout")
  /\ \/ pWichFile' = [pWichFile EXCEPT ![chn[t]] = FileOf[t]]
     \/ CopyFaults /\ UNCHANGED pWichFile
  /\ Goto(t, "up")
  /\ UNCHANGED <<sem, g_bSoftChnOpen, g_bDataDone, drvVars, callVars>>

-----------------------------------------------------------------------------
(* A wrong variant: the file is not compared *)
BugHandleOk(t) == chn[t] < CIPHER_SOFT_CHAN_NUM /\ g_bSoftChnOpen[chn[t]]

(* CIPHER_CHECK_HANDLE and the test of the channel's state and file *)
HandleOk(t) ==
  /\ chn[t] < CIPHER_SOFT_CHAN_NUM
  /\ g_bSoftChnOpen[chn[t]]
  /\ pWichFile[chn[t]] = FileOf[t]

(* The test that HI_CIPHER_DestroyHandle, ConfigHandle and Encrypt begin     *)
(* with; a failed test or a failed copy_from_user leaves the switch.         *)
Checked(t, command, next) ==
  \/ Move(t, command, next) /\ HandleOk(t)
  \/ Move(t, command, "up") /\ ~HandleOk(t)
  \/ CopyFaults /\ command # "destroy" /\ Move(t, command, "up")

(* HI_CIPHER_DestroyHandle *)
DestroyCheck(t) == Checked(t, "destroy", "shut")

DestroyShut(t) ==
  /\ At(t, "shut")
  /\ g_bSoftChnOpen' = [g_bSoftChnOpen EXCEPT ![chn[t]] = FALSE]
  /\ Goto(t, "disown")
  /\ UNCHANGED <<sem, g_bDataDone, pWichFile, drvVars, callVars>>

(* A wrong variant: the file stays in the channel *)
BugDestroyDisown(t) == Move(t, "disown", "close")

DestroyDisown(t) ==
  /\ At(t, "disown")
  /\ pWichFile' = [pWichFile EXCEPT ![chn[t]] = NULL]
  /\ Goto(t, "close")
  /\ UNCHANGED <<sem, g_bSoftChnOpen, g_bDataDone, drvVars, callVars>>

DestroyClose(t) ==
  /\ At(t, "close")
  /\ bOpen' = [bOpen EXCEPT ![chn[t]] = FALSE]
  /\ Goto(t, "up")
  /\ UNCHANGED <<sem, chnVars, pfnCallBack, queue, callVars>>

(* HI_CIPHER_ConfigHandle: DRV_Cipher_ConfigChn installs the callback *)
ConfigCheck(t) == Checked(t, "config", "setup")

ConfigSetup(t) ==
  /\ At(t, "setup")
  /\ pfnCallBack' = [pfnCallBack EXCEPT ![chn[t]] = TRUE]
  /\ Goto(t, "up")
  /\ UNCHANGED <<sem, chnVars, bOpen, queue, callVars>>

-----------------------------------------------------------------------------
(* HI_CIPHER_Encrypt and HI_CIPHER_Decrypt *)
CryptCheck(t) == Checked(t, "crypt", "clear")

(* A wrong variant: the flag of the previous packet is kept *)
BugCryptClear(t) == Move(t, "clear", "up1")

CryptClear(t) ==
  /\ At(t, "clear")
  /\ g_bDataDone' = [g_bDataDone EXCEPT ![chn[t]] = FALSE]
  /\ Goto(t, "up1")
  /\ UNCHANGED <<sem, g_bSoftChnOpen, pWichFile, drvVars, callVars>>

(* A wrong variant: the semaphore is kept while the packet is processed *)
BugCryptUp(t) == Move(t, "up1", "task")

(* The semaphore is given back before the packet is submitted *)
CryptUp(t) ==
  /\ At(t, "up1")
  /\ sem' = sem + 1
  /\ Goto(t, "task")
  /\ UNCHANGED <<chnVars, drvVars, callVars>>

(* DRV_Cipher_CreatTask; a full list makes the ioctl return *)
CryptTask(t) ==
  /\ At(t, "task")
  /\ IF Len(queue[chn[t]]) < CI_MAX_LIST_NUM
       THEN /\ queue' = [queue EXCEPT ![chn[t]] = Append(@, t)]
            /\ Goto(t, "wait")
            /\ UNCHANGED callVars
       ELSE Return(t)
  /\ UNCHANGED <<sem, chnVars, bOpen, pfnCallBack>>

(* wait_event_interruptible_timeout finds g_bDataDone set *)
CryptWoken(t) == Move(t, "wait", "down2") /\ g_bDataDone[chn[t]]

(* A signal ends the wait with -ERESTARTSYS, which is not 0 and therefore    *)
(* taken like the end of the data.                                           *)
CryptSignalled(t) == Signals /\ Move(t, "wait", "down2") /\ ~g_bDataDone[chn[t]]

(* A wrong variant: the wait has no timeout *)
BugCryptTimeout(t) == FALSE

(* The timeout: the ioctl returns HI_FAILURE, the packet stays queued.  With *)
(* Timeouts FALSE the engine is faster than 200 jiffies, and only a packet   *)
(* that ended without a report (no callback is installed) times out.         *)
CryptTimeout(t) ==
  /\ At(t, "wait")
  /\ ~g_bDataDone[chn[t]]
  /\ Timeouts \/ ~InQueue(t)
  /\ Return(t)
  /\ UNCHANGED <<sem, chnVars, bOpen, pfnCallBack>>

(* The second down_interruptible, whose failure returns -ERESTARTSYS *)
CryptDown(t) ==
  /\ At(t, "down2")
  /\ sem > 0
  /\ sem' = sem - 1
  /\ Goto(t, "ok")
  /\ UNCHANGED <<chnVars, drvVars, callVars>>

CryptDownInterrupted(t) ==
  /\ At(t, "down2")
  /\ Signals /\ sem = 0
  /\ Return(t)
  /\ UNCHANGED <<sem, chnVars, bOpen, pfnCallBack>>

(* "Encrypt OK": Ret = HI_SUCCESS *)
CryptOk(t) == Move(t, "ok", "up")

-----------------------------------------------------------------------------
(* DRV_CIPHER_Release, run by thread t when nobody uses its file any more.   *)
(* It takes neither the semaphore nor the spin lock.                         *)
ReleaseStart(t) ==
  /\ At(t, "idle")
  /\ Releases
  /\ \A u \in Threads : FileOf[u] = FileOf[t] => pc[u] = "idle"
  /\ chn' = [chn EXCEPT ![t] = 0]
  /\ Goto(t, "rel")
  /\ UNCHANGED <<sem, chnVars, drvVars, cmd>>

ReleaseTest(t) ==
  /\ At(t, "rel")
  /\ \/ chn[t] = CIPHER_SOFT_CHAN_NUM /\ Return(t)
     \/ /\ chn[t] < CIPHER_SOFT_CHAN_NUM /\ pWichFile[chn[t]] = FileOf[t]
        /\ Goto(t, "relclose") /\ UNCHANGED <<chn, queue, cmd>>
     \/ /\ chn[t] < CIPHER_SOFT_CHAN_NUM /\ pWichFile[chn[t]] # FileOf[t]
        /\ chn' = [chn EXCEPT ![t] = @ + 1] /\ UNCHANGED <<pc, queue, cmd>>
  /\ UNCHANGED <<sem, chnVars, bOpen, pfnCallBack>>

ReleaseClose(t) ==
  /\ At(t, "relclose")
  /\ bOpen' = [bOpen EXCEPT ![chn[t]] = FALSE]
  /\ Goto(t, "relopen")
  /\ UNCHANGED <<sem, chnVars, pfnCallBack, queue, callVars>>

ReleaseOpen(t) ==
  /\ At(t, "relopen")
  /\ g_bSoftChnOpen' = [g_bSoftChnOpen EXCEPT ![chn[t]] = FALSE]
  /\ Goto(t, "relowner")
  /\ UNCHANGED <<sem, g_bDataDone, pWichFile, drvVars, callVars>>

ReleaseOwner(t) ==
  /\ At(t, "relowner")
  /\ pWichFile' = [pWichFile EXCEPT ![chn[t]] = NULL]
  /\ chn' = [chn EXCEPT ![t] = @ + 1]
  /\ Goto(t, "rel")
  /\ UNCHANGED <<sem, g_bSoftChnOpen, g_bDataDone, drvVars, cmd>>

-----------------------------------------------------------------------------
(* The driver reports the oldest packet of a channel: if a callback is       *)
(* installed, DRV_CIPHER_UserCommCallBack sets g_bDataDone and wakes up.     *)
UserCommCallBack(c) ==
  /\ queue[c] # <<>>
  /\ queue' = [queue EXCEPT ![c] = Tail(@)]
  /\ g_bDataDone' = IF pfnCallBack[c] THEN [g_bDataDone EXCEPT ![c] = TRUE]
                                      ELSE g_bDataDone
  /\ UNCHANGED <<sem, g_bSoftChnOpen, pWichFile, bOpen, pfnCallBack, pc, callVars>>

(* The steps of a call once entered *)
Step(t) ==
  \/ Down(t) \/ Up(t) \/ Other(t)
  \/ CreateScan(t) \/ CreateOpen(t) \/ CreateCopyOut(t)
  \/ DestroyCheck(t) \/ DestroyShut(t) \/ DestroyDisown(t) \/ DestroyClose(t)
  \/ ConfigCheck(t) \/ ConfigSetup(t)
  \/ CryptCheck(t) \/ CryptClear(t) \/ CryptUp(t) \/ CryptTask(t)
  \/ CryptWoken(t) \/ CryptTimeout(t) \/ CryptDown(t) \/ CryptOk(t)
  \/ ReleaseTest(t) \/ ReleaseClose(t) \/ ReleaseOpen(t) \/ ReleaseOwner(t)

Next ==
  \/ \E t \in Threads :
       \/ \E r \in Requests : Ioctl(t, r)
       \/ ReleaseStart(t)
       \/ Step(t)
       \/ DownInterrupted(t) \/ CryptSignalled(t) \/ CryptDownInterrupted(t)
  \/ \E c \in Chns : UserCommCallBack(c)

SafeSpec == Init /\ [][Next]_vars

(* A thread that can run again and again does, up() hands the semaphore to   *)
(* the first waiter and the timer of a wait expires, so no call that can     *)
(* proceed again and again is passed over; the driver reports every packet   *)
(* (CipherFifo).  Signals are never relied on.                               *)
Fairness ==
  /\ \A t \in Threads : SF_vars(Step(t))
  /\ \A c \in Chns \ {0} : WF_vars(UserCommCallBack(c))

Spec == SafeSpec /\ Fairness

-----------------------------------------------------------------------------
(* Places where the thread's softChnId indexes g_stCipherOsrChn *)
Indexing == {"open", "copyout", "shut", "disown", "close", "setup", "clear",
             "up1", "task", "wait", "down2", "ok", "relclose", "relopen",
             "relowner"}

(* Type invariant: in particular a channel number read from user space is    *)
(* below CIPHER_SOFT_CHAN_NUM wherever it indexes g_stCipherOsrChn.          *)
TypeOK ==
  /\ sem \in Nat
  /\ g_bSoftChnOpen \in [Chns -> BOOLEAN]
  /\ g_bDataDone \in [Chns -> BOOLEAN]
  /\ pWichFile \in [Chns -> Files \cup {NULL}]
  /\ bOpen \in [Chns -> BOOLEAN]
  /\ pfnCallBack \in [Chns -> BOOLEAN]
  /\ queue \in [Chns -> Seq(Threads \cup {Lost})]
  /\ pc \in [Threads -> Places]
  /\ cmd \in [Threads -> Cmds]
  /\ chn \in [Threads -> Handles]
  /\ \A t \in Threads : pc[t] \in Indexing => chn[t] \in Chns

Inside(t) == pc[t] \in Critical

(* Without signals g_CipherMutexKernel is a mutex: it is free exactly when   *)
(* no thread is between down and up, and two threads never are at once,      *)
(* although Encrypt gives it back in the middle, takes it again and has      *)
(* three returns in between.                                                 *)
MutexOk ==
  /\ sem \in {0, 1}
  /\ sem = 0 <=> \E t \in Threads : Inside(t)
  /\ \A t, u \in Threads : Inside(t) /\ Inside(u) => t = u

(* Whatever signals, timeouts and faults do, the semaphore is never lost:    *)
(* when it is taken some thread is on its way to up().                       *)
SemNeverLost == sem = 0 => \E t \in Threads : Inside(t)

(* Somebody is changing the ownership of channel c *)
BusyWith(c) ==
  \E t \in Threads : chn[t] = c /\ pc[t] \in {"open", "copyout", "disown", "close",
                                             "relopen", "relowner"}

(* A channel nobody is creating, destroying or releasing is open in the      *)
(* driver exactly when it is marked open, and then belongs to a file: no     *)
(* channel is taken from its owner and none is left open without one, which  *)
(* only a reload of the module would give back.                              *)
ChannelOwned ==
  \A c \in Chns : ~BusyWith(c) =>
     /\ g_bSoftChnOpen[c] = bOpen[c]
     /\ g_bSoftChnOpen[c] = (pWichFile[c] # NULL)

(* A packet is put on a channel only for the file that owns the channel at   *)
(* that moment, although the owner was tested before the semaphore was given *)
(* back and DRV_Cipher_CreatTask runs without it.                            *)
TaskOnOwnChannel ==
  \A t \in Threads : pc[t] = "task" =>
     g_bSoftChnOpen[chn[t]] /\ pWichFile[chn[t]] = FileOf[t]

(* A process loses a channel only by a destroy of one of its own threads,    *)
(* which has passed the test of the handle: also while others create,        *)
(* destroy and encrypt with handles of the same number, before and after up()*)
(* in Encrypt.                                                               *)
Holds(f, c) == g_bSoftChnOpen[c] /\ pWichFile[c] = f

HandleKept ==
  [][\A f \in Files, c \in Chns : Holds(f, c) /\ ~Holds(f, c)' =>
       \E t \in Threads : FileOf[t] = f /\ chn[t] = c /\ pc[t] = "shut"]_vars

(* "Encrypt OK" is reported only when the caller's own packet was done *)
OkMeansDone ==
  \A t \in Threads : pc[t] = "ok" => ~InQueue(t)

(* Every call returns *)
CallsReturn == \A t \in Threads : pc[t] # "idle" ~> pc[t] = "idle"
=============================================================================
