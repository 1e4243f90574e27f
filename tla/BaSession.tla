----------------------------- MODULE BaSession -----------------------------
(***************************************************************************)
(* The block ack sessions of the rt3370 driver with its access point       *)
(* (common/ba_action.c, common/action.c): the tables of sessions as        *)
(* originator and as recipient, the requests with their retry timer, and   *)
(* the frames of both sides.                                               *)
(*                                                                         *)
(* The MLME thread takes messages from its queue one by one, the timer     *)
(* thread runs expired timers (common/rtmp_timer.c), a transmitted packet  *)
(* or a user starts a session, users end them.  The sequence numbers of a  *)
(* session are in BaReorder.                                               *)
(***************************************************************************)
EXTENDS Integers, Sequences, FiniteSets, SequencesExt

CONSTANTS
  NumTid,    \* NUM_OF_TID
  OriTids,   \* the TIDs this side sends on
  RecTids,   \* the TIDs the peer sends on
  OriLen,    \* MAX_LEN_OF_BA_ORI_TABLE; entry 0 is never used
  RecLen,    \* MAX_LEN_OF_BA_REC_TABLE; entry 0 is never used
  ORI_SESSION_MAX_RETRY,
  MaxQ,      \* MAX_LEN_OF_MLME_QUEUE
  MaxNet,    \* how many frames wait for the peer
  Preempt,   \* the threads preempt each other
  Trouble    \* "mem": there may be no memory for a DELBA; "tear": users end
             \* sessions without one; "stale": a session is set up again
             \* while frames of an earlier attempt are on their way

SessionAssumption ==
  /\ NumTid \in Nat \ {0} /\ OriLen \in Nat \ {0} /\ RecLen \in Nat \ {0}
  /\ ORI_SESSION_MAX_RETRY \in Nat \ {0} /\ MaxQ \in Nat /\ MaxNet \in Nat
  /\ OriTids \subseteq 0..NumTid - 1 /\ RecTids \subseteq 0..NumTid - 1
  /\ Preempt \in BOOLEAN /\ Trouble \subseteq {"mem", "tear", "stale"}

ASSUME SessionAssumption

TIDs == 0..NumTid - 1
OriEntries == 1..OriLen - 1
RecEntries == 1..RecLen - 1
Actors == {"mlme", "timer", "user"}

VARIABLES
  o,     \* sessions as originator: ent, the table; idx, BAOriWcidArray; bm,
         \* TXBAbitmap; num, numAsOriginator; done, numDoneOriginator
  r,     \* sessions as recipient: ent, idx, bm, num
  tq,    \* the timer queue: the entries whose ORIBATimer has expired
  trun,  \* the entry whose timer handler is about to run, or 0
  fr,    \* per actor, the entry it is about to free, or 0
  td,    \* the TID BASessionTearDownALL comes to next; NumTid: it does not run
  mq,    \* the MLME queue
  out,   \* the frames sent to the peer
  peer   \* external: rec, the sessions it has accepted; ori, its own

vars == <<o, r, tq, trun, fr, td, mq, out, peer>>

REQ(t) == [k |-> "REQ", t |-> t]
RSP(t, ok) == [k |-> "RSP", t |-> t, ok |-> ok]
DEL(t, initiator) == [k |-> "DEL", t |-> t, initiator |-> initiator]
ADDBA(t) == [k |-> "ADDBA", t |-> t]

Frame == {REQ(t) : t \in TIDs} \cup {RSP(t, ok) : t \in TIDs, ok \in BOOLEAN}
           \cup {DEL(t, i) : t \in TIDs, i \in {"ORIGINATOR", "RECIPIENT"}}

Init ==
  /\ o = [ent |-> [i \in OriEntries |-> [st |-> "NONE", tid |-> 0, token |-> 0,
                                        valid |-> FALSE, pend |-> FALSE]],
          idx |-> [t \in TIDs |-> 0], bm |-> {}, num |-> 0, done |-> 0]
  /\ r = [ent |-> [i \in RecEntries |-> [st |-> "NONE", tid |-> 0]],
          idx |-> [t \in TIDs |-> 0], bm |-> {}, num |-> 0]
  /\ tq = <<>> /\ trun = 0 /\ fr = [a \in Actors |-> 0] /\ td = NumTid
  /\ mq = <<>> /\ out = <<>>
  /\ peer = [rec |-> {}, ori |-> [t \in TIDs |-> "none"]]

(* On one CPU without preemption nobody runs between two steps of a thread. *)
Calm == Preempt \/ (trun = 0 /\ td = NumTid /\ \A a \in Actors : fr[a] = 0)

-----------------------------------------------------------------------------
(* Timers.  RTMPSetTimer does nothing for a timer that was never initialized *)
RTMPSetTimer(x, i) == [x EXCEPT !.ent[i].pend = @ \/ x.ent[i].valid]

RTMPInitTimer(x, i) == [x EXCEPT !.ent[i].valid = TRUE]

(* RTMPCancelTimer: a handler that already left the queue is not held up.    *)
RTMPCancelTimer(x, i) == [x EXCEPT !.ent[i].pend = FALSE]
RtmpTimerQRemove(q, i) == RemoveFirst(q, i)

(* The first free entry.  The result's e is the entry, 0 if there is none,   *)
(* and i what the caller takes for its index.                                *)
AllocEntry(ent, num, max) ==
  LET free == {i \in DOMAIN ent : ent[i].st = "NONE"} IN
  CASE num >= max -> [e |-> 0, i |-> 0]
    [] num < max /\ free = {} -> [e |-> max, i |-> 0]
    [] OTHER -> LET i == CHOOSE i \in free : \A j \in free : i <= j
                IN  [e |-> i, i |-> i]

BATableAllocOriEntry(x) == AllocEntry(x.ent, x.num, OriLen - 1)
BATableAllocRecEntry(x) == AllocEntry(x.ent, x.num, RecLen - 1)

(* BATableFreeOriEntry up to the lock, and under it *)
FreeOriEnter(x, i) == [x EXCEPT !.idx[x.ent[i].tid] = 0]

FreeOriLocked(x, i) ==
  LET d == x.ent[i].st = "Done" IN
  [x EXCEPT !.done = @ - (IF d THEN 1 ELSE 0),
            !.bm = @ \ (IF d THEN {x.ent[i].tid} ELSE {}),
            !.num = @ - 1, !.ent[i].st = "NONE", !.ent[i].token = 0]

BATableFreeRecEntry(x, i) ==
  [x EXCEPT !.idx[x.ent[i].tid] = 0, !.num = @ - 1, !.ent[i].st = "NONE"]

-----------------------------------------------------------------------------
(* BAOriSessionSetUp, from a transmitted packet or a request: an entry is    *)
(* taken and its timer set, which sends the first request when it expires.   *)
Settled(t) ==
  (ToSet(mq) \cup ToSet(out)) \cap {ADDBA(t), REQ(t), RSP(t, TRUE)} = {}

SetUpEntry(x, t, e, i) ==
  LET y == [x EXCEPT !.idx[t] = i, !.num = IF x.idx[t] = 0 /\ i # 0 THEN @ + 1 ELSE @,
                     !.ent[e].st = "WaitRes", !.ent[e].token = 1, !.ent[e].tid = t]
  IN  RTMPSetTimer(IF t \in x.bm THEN RTMPCancelTimer(y, e) ELSE RTMPInitTimer(y, e), e)

BAOriSessionSetUp(t) ==
  LET a == IF o.idx[t] # 0 THEN [e |-> o.idx[t], i |-> o.idx[t]]
           ELSE BATableAllocOriEntry(o) IN
  /\ Calm
  /\ Settled(t) \/ "stale" \in Trouble
  /\ a.e # 0
  /\ o.ent[a.e].st \notin {"WaitRes", "Done"}
  /\ o' = SetUpEntry(o, t, a.e, a.i)
  /\ tq' = IF t \in o.bm THEN RtmpTimerQRemove(tq, a.e) ELSE tq
  /\ UNCHANGED <<r, trun, fr, td, mq, out, peer>>

(* The kernel's timer expires: rtmp_timer_BAOriSessionSetupTimeout *)
TimerFires(i) ==
  /\ o.ent[i].pend
  /\ o' = [o EXCEPT !.ent[i].pend = FALSE]
  /\ tq' = Append(tq, i)
  /\ UNCHANGED <<r, trun, fr, td, mq, out, peer>>

(* RtmpTimerQHandle takes the next timer off its queue *)
RtmpTimerQHandle ==
  /\ Calm
  /\ tq # <<>> /\ trun = 0 /\ fr["timer"] = 0
  /\ trun' = Head(tq)
  /\ tq' = Tail(tq)
  /\ UNCHANGED <<o, r, fr, td, mq, out, peer>>

Retries(e) == o.ent[e].st = "WaitRes" /\ o.ent[e].token < ORI_SESSION_MAX_RETRY

(* A wrong variant: the timer is not set again *)
BugResend(x, e) == [x EXCEPT !.ent[e].token = @ + 1]

Resend(x, e) == RTMPSetTimer([x EXCEPT !.ent[e].token = @ + 1], e)

(* BAOriSessionSetupTimeout sends the next request, or waits for the end of  *)
(* a scan, or gives the session of this TID up.                              *)
BAOriSessionSetupTimeout ==
  /\ trun # 0
  /\ trun' = 0
  /\ IF Retries(trun)
       THEN /\ o' = Resend(o, trun)
            /\ mq' = IF Len(mq) < MaxQ THEN Append(mq, ADDBA(o.ent[trun].tid)) ELSE mq
            /\ UNCHANGED fr
       ELSE LET i == o.idx[o.ent[trun].tid] IN
            /\ IF i # 0 /\ o.ent[i].st # "NONE"
                 THEN o' = FreeOriEnter(o, i) /\ fr' = [fr EXCEPT !["timer"] = i]
                 ELSE UNCHANGED <<o, fr>>
            /\ UNCHANGED mq
  /\ UNCHANGED <<r, tq, td, out, peer>>

TimeoutInScan ==
  /\ trun # 0
  /\ Retries(trun)
  /\ o' = RTMPSetTimer(o, trun)
  /\ trun' = 0
  /\ UNCHANGED <<r, tq, fr, td, mq, out, peer>>

(* The second half of BATableFreeOriEntry *)
BATableFreeOriEntry(a) ==
  /\ fr[a] # 0
  /\ o' = FreeOriLocked(o, fr[a])
  /\ fr' = [fr EXCEPT ![a] = 0]
  /\ UNCHANGED <<r, tq, trun, td, mq, out, peer>>

-----------------------------------------------------------------------------
Send(f) == Len(out) < MaxNet /\ out' = Append(out, f)

(* BAOriSessionTearDown up to the last step of BATableFreeOriEntry.  If the  *)
(* memory for the DELBA is lacking nothing is done, or it is done without    *)
(* the DELBA.                                                                *)
OriDown(a, t, passive, force) ==
  LET i == o.idx[t] IN
  /\ fr[a] = 0
  /\ \/ /\ i = 0 /\ force
        /\ Send(DEL(t, "ORIGINATOR"))
        /\ UNCHANGED <<o, tq, fr>>
     \/ /\ i # 0
        /\ IF ~passive /\ o.ent[i].st = "Done"
             THEN Send(DEL(t, "ORIGINATOR")) \/ ("mem" \in Trouble /\ UNCHANGED out)
             ELSE UNCHANGED out
        /\ o' = IF o.ent[i].st # "NONE" THEN FreeOriEnter(RTMPCancelTimer(o, i), i)
                ELSE RTMPCancelTimer(o, i)
        /\ fr' = [fr EXCEPT ![a] = IF o.ent[i].st # "NONE" THEN i ELSE 0]
        /\ tq' = RtmpTimerQRemove(tq, i)

(* On request, which is forced, or when transmissions fail *)
BAOriSessionTearDown(t) ==
  /\ Calm
  /\ OriDown("user", t, FALSE, TRUE)
  /\ UNCHANGED <<r, trun, td, mq, peer>>

(* A wrong variant: the bit of the TID stays *)
BugRecEnd(x, t) == BATableFreeRecEntry(x, x.idx[t])

RecEnd(x, t) ==
  LET i == x.idx[t] IN
  BATableFreeRecEntry([x EXCEPT !.bm = @ \ {t}, !.idx[t] = 0], i)

(* BARecSessionTearDown on request *)
BARecSessionTearDown(t, passive) ==
  /\ Calm
  /\ r.idx[t] # 0
  /\ passive => "tear" \in Trouble
  /\ IF passive THEN UNCHANGED out
     ELSE Send(DEL(t, "RECIPIENT")) \/ ("mem" \in Trouble /\ UNCHANGED out)
  /\ r' = RecEnd(r, t)
  /\ UNCHANGED <<o, tq, trun, fr, td, mq, peer>>

OriDone(t) == o.idx[t] # 0 /\ o.ent[o.idx[t]].st = "Done"

(* BASessionTearDownALL, when MacTableDeleteEntry holds the table's lock,    *)
(* goes through the TIDs one by one; timers may expire meanwhile.  It starts *)
(* while all its DELBA frames find room.                                     *)
BASessionTearDownALL ==
  /\ Calm
  /\ fr["mlme"] = 0 /\ td = NumTid
  /\ Len(out) + Cardinality({t \in TIDs : OriDone(t)})
       + Cardinality({t \in TIDs : r.idx[t] # 0}) <= MaxNet
  /\ td' = 0
  /\ UNCHANGED <<o, r, tq, trun, fr, mq, out, peer>>

(* What becomes of a DELBA: it is sent, or for lack of memory the session is *)
(* kept, or ended without the frame.                                         *)
Fates == {"sent"} \cup (IF "mem" \in Trouble THEN {"kept", "silent"} ELSE {})

(* Its step for one TID, with the fates of the two sessions' DELBA frames *)
TearDownOne(ori, rec) ==
  LET i == IF OriDone(td) /\ ori = "kept" THEN 0 ELSE o.idx[td]
      j == IF rec = "kept" THEN 0 ELSE r.idx[td] IN
  /\ td # NumTid
  /\ td' = td + 1
  /\ IF i = 0 THEN UNCHANGED <<o, tq>>
     ELSE /\ o' = IF o.ent[i].st = "NONE" THEN RTMPCancelTimer(o, i)
                  ELSE FreeOriLocked(FreeOriEnter(RTMPCancelTimer(o, i), i), i)
          /\ tq' = RtmpTimerQRemove(tq, i)
  /\ r' = IF j = 0 THEN r ELSE RecEnd(r, td)
  /\ out' = out \o (IF i # 0 /\ OriDone(td) /\ ori = "sent"
                      THEN <<DEL(td, "ORIGINATOR")>> ELSE <<>>)
                \o (IF j # 0 /\ rec = "sent" THEN <<DEL(td, "RECIPIENT")>> ELSE <<>>)
  /\ UNCHANGED <<trun, fr, mq, peer>>

-----------------------------------------------------------------------------
(* The MLME thread *)
Handle(k) ==
  /\ Calm
  /\ fr["mlme"] = 0 /\ td = NumTid
  /\ mq # <<>>
  /\ Head(mq).k = k
  /\ mq' = Tail(mq)

MlmeADDBAAction ==
  /\ Handle("ADDBA")
  /\ \/ o.idx[Head(mq).t] # 0 /\ Send(REQ(Head(mq).t))
     \/ o.idx[Head(mq).t] = 0 /\ UNCHANGED out
  /\ UNCHANGED <<o, r, tq, trun, fr, td, peer>>

(* A wrong variant: the timer keeps running *)
BugOriAdd(x, t) ==
  [x EXCEPT !.ent[x.idx[t]].st = "Done", !.done = @ + 1, !.bm = @ \cup {t}]

(* BAOriSessionAdd *)
OriAdd(x, t) ==
  LET i == x.idx[t] IN
  RTMPCancelTimer([x EXCEPT !.ent[i].st = "Done", !.done = @ + 1, !.bm = @ \cup {t}], i)

Awaited(t) ==
  /\ o.idx[t] # 0
  /\ o.ent[o.idx[t]].tid = t
  /\ o.ent[o.idx[t]].st = "WaitRes"

PeerAddBARspAction ==
  /\ Handle("RSP")
  /\ LET t == Head(mq).t IN
     \/ /\ Head(mq).ok /\ Awaited(t)
        /\ o' = OriAdd(o, t)
        /\ tq' = RtmpTimerQRemove(tq, o.idx[t])
        /\ UNCHANGED <<fr, out>>
     \/ /\ ~Head(mq).ok
        /\ OriDown("mlme", t, TRUE, FALSE)
     \/ /\ IF Head(mq).ok THEN ~Awaited(t) ELSE o.idx[t] = 0
        /\ UNCHANGED <<o, tq, fr, out>>
  /\ UNCHANGED <<r, trun, td, peer>>

(* BARecSessionAdd takes an entry unless the TID has one *)
RecAdd(x, t) ==
  LET a == IF x.idx[t] # 0 THEN [e |-> x.idx[t], i |-> x.idx[t]]
           ELSE BATableAllocRecEntry(x)
  IN  IF a.e = 0 THEN x
      ELSE [x EXCEPT !.idx[t] = a.i, !.bm = @ \cup {t},
                     !.num = IF x.idx[t] = 0 /\ a.i # 0 THEN @ + 1 ELSE @,
                     !.ent[a.e] = [st |-> "Accept", tid |-> t]]

(* A wrong variant: the response does not say that the request was declined *)
BugAccepted(x, t, decline) == TRUE

Accepted(x, t, decline) == ~decline /\ x.idx[t] # 0

(* PeerAddBAReqAction; bBADecline can be set at any time *)
PeerAddBAReqAction(decline) ==
  /\ Handle("REQ")
  /\ LET t == Head(mq).t
         x == IF decline THEN r ELSE RecAdd(r, t)
     IN  /\ r' = x
         /\ Send(RSP(t, Accepted(x, t, decline)))
  /\ UNCHANGED <<o, tq, trun, fr, td, peer>>

PeerDelBAAction ==
  /\ Handle("DEL")
  /\ LET t == Head(mq).t IN
     \/ /\ Head(mq).initiator = "ORIGINATOR"
        /\ r' = IF r.idx[t] = 0 THEN r ELSE RecEnd(r, t)
        /\ UNCHANGED <<o, tq, fr, out>>
     \/ /\ Head(mq).initiator = "RECIPIENT"
        /\ OriDown("mlme", t, TRUE, FALSE)
        /\ UNCHANGED r
     \/ /\ Head(mq).initiator = "RECIPIENT" /\ o.idx[t] = 0
        /\ UNCHANGED <<o, r, tq, fr, out>>
  /\ UNCHANGED <<trun, td, peer>>

-----------------------------------------------------------------------------
(* The peer and the air, external.  Frames arrive in order; requests and     *)
(* acceptances may be lost, a refusal or a DELBA is repeated until it is     *)
(* acknowledged.                                                             *)
PeerSays(f) == Len(mq) < MaxQ /\ mq' = Append(mq, f)

PeerHears ==
  /\ Calm
  /\ out # <<>>
  /\ out' = Tail(out)
  /\ LET f == Head(out) IN
     \/ /\ f.k = "REQ" \/ (f.k = "RSP" /\ f.ok)
        /\ UNCHANGED <<mq, peer>>
     \/ /\ f.k = "REQ"
        /\ peer' = [peer EXCEPT !.rec = @ \cup {f.t}]
        /\ PeerSays(RSP(f.t, TRUE)) \/ UNCHANGED mq
     \/ /\ f.k = "REQ" /\ f.t \notin peer.rec
        /\ PeerSays(RSP(f.t, FALSE))
        /\ UNCHANGED peer
     \/ /\ f.k = "RSP"
        /\ peer' = [peer EXCEPT !.ori[f.t] = CASE ~f.ok -> "none"
                                              [] f.ok /\ @ = "wait" -> "done"
                                              [] OTHER -> @]
        /\ UNCHANGED mq
     \/ /\ f.k = "DEL"
        /\ peer' = IF f.initiator = "ORIGINATOR" THEN [peer EXCEPT !.rec = @ \ {f.t}]
                   ELSE [peer EXCEPT !.ori[f.t] = "none"]
        /\ UNCHANGED mq
  /\ UNCHANGED <<o, r, tq, trun, fr, td>>

(* A first request is lost only when nothing of an earlier attempt is left. *)
PeerSettled(t) == REQ(t) \notin ToSet(mq) /\ RSP(t, TRUE) \notin ToSet(out)

PeerStarts(t) ==
  /\ Calm
  /\ \/ /\ peer.ori[t] # "done"
        /\ peer' = [peer EXCEPT !.ori[t] = "wait"]
        /\ PeerSays(REQ(t)) \/ (PeerSettled(t) /\ UNCHANGED mq)
     \/ /\ peer.ori[t] = "wait"
        /\ peer' = [peer EXCEPT !.ori[t] = "none"]
        /\ UNCHANGED mq
  /\ UNCHANGED <<o, r, tq, trun, fr, td, out>>

PeerEnds(t) ==
  /\ Calm
  /\ \/ /\ peer.ori[t] = "done"
        /\ peer' = [peer EXCEPT !.ori[t] = "none"]
        /\ PeerSays(DEL(t, "ORIGINATOR"))
     \/ /\ t \in peer.rec
        /\ peer' = [peer EXCEPT !.rec = @ \ {t}]
        /\ PeerSays(DEL(t, "RECIPIENT"))
  /\ UNCHANGED <<o, r, tq, trun, fr, td, out>>

Timers ==
  \/ \E i \in OriEntries : TimerFires(i)
  \/ RtmpTimerQHandle
  \/ BAOriSessionSetupTimeout
  \/ \E a \in Actors : BATableFreeOriEntry(a)

Next ==
  \/ Timers
  \/ TimeoutInScan
  \/ \E t \in OriTids :
       \/ BAOriSessionSetUp(t)
       \/ BAOriSessionTearDown(t)
  \/ \E t \in RecTids :
       \/ \E passive \in BOOLEAN : BARecSessionTearDown(t, passive)
       \/ PeerStarts(t)
  \/ \E t \in TIDs : PeerEnds(t)
  \/ BASessionTearDownALL
  \/ \E ori, rec \in Fates : TearDownOne(ori, rec)
  \/ MlmeADDBAAction \/ PeerAddBARspAction \/ PeerDelBAAction
  \/ \E decline \in BOOLEAN : PeerAddBAReqAction(decline)
  \/ PeerHears

(* Timers expire and their thread gets the CPU again and again, although     *)
(* others have it in between; a scan does not last forever.                  *)
Fairness ==
  /\ \A i \in OriEntries : WF_vars(TimerFires(i))
  /\ SF_vars(RtmpTimerQHandle)
  /\ \A i \in OriEntries : SF_vars(trun = i /\ BAOriSessionSetupTimeout)
  /\ WF_vars(\E a \in Actors : BATableFreeOriEntry(a))
  /\ WF_vars(\E ori, rec \in Fates : TearDownOne(ori, rec))

SafeSpec == Init /\ [][Next]_vars
Spec == SafeSpec /\ Fairness

-----------------------------------------------------------------------------
(* The entries of both tables, the queues and the frames on their way *)
TypeOK ==
  /\ o \in [ent : [OriEntries -> [st : {"NONE", "WaitRes", "Done"}, tid : TIDs,
                                  token : 0..ORI_SESSION_MAX_RETRY,
                                  valid : BOOLEAN, pend : BOOLEAN]],
            idx : [TIDs -> 0..OriLen - 1], bm : SUBSET TIDs,
            num : 0..OriLen - 1, done : 0..OriLen - 1]
  /\ r \in [ent : [RecEntries -> [st : {"NONE", "Accept"}, tid : TIDs]],
            idx : [TIDs -> 0..RecLen - 1], bm : SUBSET TIDs, num : 0..RecLen - 1]
  /\ tq \in Seq(OriEntries) /\ trun \in 0..OriLen - 1
  /\ fr \in [Actors -> 0..OriLen - 1] /\ td \in 0..NumTid
  /\ mq \in Seq(Frame \cup {ADDBA(t) : t \in TIDs}) /\ out \in Seq(Frame)
  /\ peer \in [rec : SUBSET TIDs, ori : [TIDs -> {"none", "wait", "done"}]]

(* The table of sessions as originator, the index of each TID, the bitmap    *)
(* the transmit path tests and both counters tell the same: an entry in use  *)
(* can be found, is counted and can be freed.                                *)
OriTableAgrees ==
  LET busy == {fr[a] : a \in Actors}
      used == {i \in OriEntries : o.ent[i].st # "NONE"}
  IN  /\ o.num = Cardinality(used)
      /\ o.done = Cardinality({i \in used : o.ent[i].st = "Done"})
      /\ \A i \in used \ busy : o.idx[o.ent[i].tid] = i
      /\ \A t \in TIDs : o.idx[t] # 0 =>
           o.idx[t] \in used /\ o.ent[o.idx[t]].tid = t
      /\ o.bm = {o.ent[i].tid : i \in {j \in used : o.ent[j].st = "Done"}}

(* The same for the sessions as recipient *)
RecTableAgrees ==
  LET used == {i \in RecEntries : r.ent[i].st # "NONE"} IN
  /\ r.num = Cardinality(used)
  /\ \A i \in used : r.idx[r.ent[i].tid] = i
  /\ \A t \in TIDs : r.idx[t] # 0 => r.idx[t] \in used /\ r.ent[r.idx[t]].tid = t
  /\ r.bm = {t \in TIDs : r.idx[t] # 0}

(* Both tables agree with their indices, bitmaps and counters, whatever      *)
(* order requests, responses, timeouts and teardowns come in.                *)
TableInv == TypeOK /\ OriTableAgrees /\ RecTableAgrees

(* A session that waits for the response has a timer that runs, is queued or *)
(* being handled: nothing else would ever end the wait, and no second        *)
(* session can be set up for its TID.                                        *)
WaitIsTimed ==
  \A i \in OriEntries : o.ent[i].st = "WaitRes" =>
    o.ent[i].pend \/ i \in ToSet(tq) \/ i = trun \/ \E a \in Actors : fr[a] = i

Quiet ==
  mq = <<>> /\ out = <<>> /\ trun = 0 /\ td = NumTid /\ \A a \in Actors : fr[a] = 0

(* When every frame has arrived, a session this side uses as originator is   *)
(* one the peer has accepted, and one the peer uses is accepted here,        *)
(* although requests and responses are lost and repeated, arrive late, and   *)
(* carry no token that is compared.                                          *)
SessionAgreed ==
  Quiet => \A t \in TIDs :
    /\ OriDone(t) => t \in peer.rec
    /\ peer.ori[t] = "done" => r.idx[t] # 0

(* The timer of a session never ends it once it is set up; it ends with a    *)
(* DELBA of either side or a refusal.                                        *)
TimeoutSparesDone ==
  [][\A t \in TIDs : OriDone(t) /\ ~OriDone(t)' => trun = 0]_vars

(* Every attempt to set up a session ends, with a session or without. *)
SetupEnds ==
  \A t \in OriTids : (o.idx[t] # 0 /\ ~OriDone(t)) ~> (o.idx[t] = 0 \/ OriDone(t))
=============================================================================
