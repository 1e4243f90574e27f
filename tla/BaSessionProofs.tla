-------------------------- MODULE BaSessionProofs ---------------------------
(***************************************************************************)
(* Proofs about the block ack sessions.  The table of sessions as          *)
(* recipient agrees with its index, bitmap and counter in every behaviour. *)
(* The table of sessions as originator does where the threads do not       *)
(* preempt each other; there an entry that waits for a response is timed,  *)
(* and the timeout spares sessions that are set up.                        *)
(*                                                                         *)
(* The inductive invariant says of the originator's table that it agrees   *)
(* with its indices but for the one entry that is being freed (Agrees),    *)
(* and of the timers that exactly the entries that wait for a response     *)
(* have one, at one place (Timed).                                         *)
(***************************************************************************)
EXTENDS BaSession, FiniteSetTheorems, SequenceTheorems, WellFoundedInduction, TLAPS

(* What the tables, queues and frames are made of, with counters of any size *)
Sessions == [st : {"NONE", "WaitRes", "Done"}, tid : TIDs,
             token : 0..ORI_SESSION_MAX_RETRY, valid : BOOLEAN, pend : BOOLEAN]

OriTables ==
  [ent : [OriEntries -> Sessions], idx : [TIDs -> 0..OriLen - 1],
   bm : SUBSET TIDs, num : Int, done : Int]

RecTables ==
  [ent : [RecEntries -> [st : {"NONE", "Accept"}, tid : TIDs]],
   idx : [TIDs -> 0..RecLen - 1], bm : SUBSET TIDs, num : Int]

Messages == Frame \cup {ADDBA(t) : t \in TIDs}

Peers == [rec : SUBSET TIDs, ori : [TIDs -> {"none", "wait", "done"}]]

Shapes ==
  /\ o \in OriTables /\ r \in RecTables
  /\ tq \in Seq(OriEntries) /\ trun \in 0..OriLen - 1
  /\ fr \in [Actors -> 0..OriLen - 1] /\ td \in 0..NumTid
  /\ mq \in Seq(Messages) /\ out \in Seq(Frame) /\ peer \in Peers

(* The entries in use, and those with a session *)
Used(x) == {i \in DOMAIN x.ent : x.ent[i].st # "NONE"}
DoneIn(x) == {i \in DOMAIN x.ent : x.ent[i].st = "Done"}

(* The table of sessions as originator agrees with its indices, bitmap and   *)
(* counters while entry b is being freed, or none if b is 0.                 *)
Agrees(x, b) ==
  /\ x.num = Cardinality(Used(x)) /\ x.done = Cardinality(DoneIn(x))
  /\ \A i \in Used(x) : i # b => x.idx[x.ent[i].tid] = i
  /\ \A t \in TIDs : x.idx[t] # 0 =>
       x.idx[t] \in Used(x) /\ x.idx[t] # b /\ x.ent[x.idx[t]].tid = t
  /\ b # 0 => b \in Used(x) /\ x.idx[x.ent[b].tid] = 0
  /\ x.bm = {x.ent[i].tid : i \in DoneIn(x)}

(* No entry is twice in the queue. *)
Distinct(q) == \A j, k \in 1..Len(q) : q[j] = q[k] => j = k

(* The timer of an entry runs, is queued or being handled at one of these    *)
(* places only, and only while the entry waits for a response and is not     *)
(* being freed; an entry that waits has its timer at one of them.            *)
Timed(x, q, n, b) ==
  /\ \A i \in OriEntries : x.ent[i].pend \/ i \in ToSet(q) \/ i = n =>
       x.ent[i].st = "WaitRes" /\ i # b
  /\ \A i \in OriEntries : x.ent[i].pend => i \notin ToSet(q) /\ i # n
  /\ n \notin ToSet(q)
  /\ Distinct(q)
  /\ \A i \in OriEntries : x.ent[i].st = "WaitRes" =>
       x.ent[i].valid /\ (x.ent[i].pend \/ i \in ToSet(q) \/ i = n \/ i = b)

(* Entry b is being freed by one thread, or none if b is 0. *)
Frees(b) ==
  \/ b = 0 /\ \A a \in Actors : fr[a] = 0
  \/ b # 0 /\ \E a \in Actors : fr[a] = b /\ \A c \in Actors \ {a} : fr[c] = 0

(* One thread at a time is inside the code that works on the table *)
OriInv ==
  /\ trun # 0 => td = NumTid /\ Frees(0)
  /\ td # NumTid => trun = 0 /\ Frees(0)
  /\ \E b \in 0..OriLen - 1 : Frees(b) /\ Agrees(o, b) /\ Timed(o, tq, trun, b)

-----------------------------------------------------------------------------
(* Constants and helpers *)
LEMMA Constants ==
  /\ OriLen \in Nat /\ OriLen >= 1 /\ RecLen \in Nat /\ RecLen >= 1
  /\ NumTid \in Nat /\ NumTid >= 1 /\ TIDs \subseteq Nat /\ 0 \in TIDs
  /\ OriTids \subseteq TIDs /\ RecTids \subseteq TIDs
  /\ ORI_SESSION_MAX_RETRY \in Nat /\ ORI_SESSION_MAX_RETRY >= 1
  /\ 0 \notin OriEntries /\ 0 \notin RecEntries
  /\ OriEntries \cup {0} = 0..OriLen - 1 /\ RecEntries \cup {0} = 0..RecLen - 1
  BY SessionAssumption DEF SessionAssumption, TIDs, OriEntries, RecEntries

LEMMA OriFields ==
  ASSUME NEW x \in OriTables
  PROVE  /\ DOMAIN x.ent = OriEntries
         /\ x.idx \in [TIDs -> 0..OriLen - 1] /\ x.bm \subseteq TIDs
         /\ x.num \in Int /\ x.done \in Int
         /\ \A i \in OriEntries :
              /\ x.ent[i] \in Sessions
              /\ x.ent[i].st \in {"NONE", "WaitRes", "Done"}
              /\ x.ent[i].tid \in TIDs /\ x.ent[i].valid \in BOOLEAN
              /\ x.ent[i].token \in 0..ORI_SESSION_MAX_RETRY
              /\ x.ent[i].pend \in BOOLEAN
  BY DEF OriTables, Sessions

(* Two tables that differ in their timers and tokens only *)
SameBut(x, y) ==
  /\ y.idx = x.idx /\ y.bm = x.bm /\ y.num = x.num /\ y.done = x.done
  /\ \A j \in OriEntries : y.ent[j].st = x.ent[j].st /\ y.ent[j].tid = x.ent[j].tid

(* A timer that was initialized runs once it is set. *)
LEMMA SetTimerIs ==
  ASSUME NEW x \in OriTables, NEW i \in OriEntries
  PROVE  LET y == RTMPSetTimer(x, i) IN
         /\ y \in OriTables /\ SameBut(x, y)
         /\ \A j \in OriEntries : /\ y.ent[j].valid = x.ent[j].valid
                                  /\ y.ent[j].pend <=> \/ x.ent[j].pend
                                                       \/ j = i /\ x.ent[i].valid
  <1> DEFINE e == [x.ent[i] EXCEPT !.pend = @ \/ x.ent[i].valid]
             y == RTMPSetTimer(x, i)
  <1>t. /\ x.idx \in [TIDs -> 0..OriLen - 1] /\ x.bm \in SUBSET TIDs
        /\ x.num \in Int /\ x.done \in Int
    BY OriFields
  <1>1. y = [x EXCEPT !.ent = [x.ent EXCEPT ![i] = e]]
    BY DEF RTMPSetTimer, OriTables
  <1>2. /\ e.st = x.ent[i].st /\ e.tid = x.ent[i].tid /\ e.valid = x.ent[i].valid
        /\ e.pend <=> x.ent[i].pend \/ x.ent[i].valid
    BY OriFields DEF Sessions
  <1>e. e \in Sessions BY OriFields DEF Sessions
  <1> HIDE DEF e, y
  <1>3. /\ y \in OriTables /\ y.idx = x.idx /\ y.bm = x.bm /\ y.num = x.num
        /\ y.done = x.done
        /\ \A j \in OriEntries : y.ent[j] = IF j = i THEN e ELSE x.ent[j]
    BY <1>1, <1>e, <1>t DEF OriTables
  <1> QED BY <1>2, <1>3 DEF SameBut, y

(* The next request is counted and the timer set again. *)
LEMMA ResendIs ==
  ASSUME NEW x \in OriTables, NEW i \in OriEntries,
         x.ent[i].token < ORI_SESSION_MAX_RETRY
  PROVE  LET y == Resend(x, i) IN
         /\ y \in OriTables /\ SameBut(x, y)
         /\ \A j \in OriEntries : /\ y.ent[j].valid = x.ent[j].valid
                                  /\ y.ent[j].pend <=> \/ x.ent[j].pend
                                                       \/ j = i /\ x.ent[i].valid
  <1> DEFINE e == [x.ent[i] EXCEPT !.token = @ + 1]
             z == [x EXCEPT !.ent[i].token = @ + 1]
  <1>t. /\ x.idx \in [TIDs -> 0..OriLen - 1] /\ x.bm \in SUBSET TIDs
        /\ x.num \in Int /\ x.done \in Int
    BY OriFields
  <1>1. z = [x EXCEPT !.ent = [x.ent EXCEPT ![i] = e]]
    BY DEF OriTables
  <1>2. x.ent[i].token + 1 \in 0..ORI_SESSION_MAX_RETRY BY OriFields, Constants
  <1>3. /\ e \in Sessions /\ e.valid = x.ent[i].valid /\ e.pend = x.ent[i].pend
        /\ e.st = x.ent[i].st /\ e.tid = x.ent[i].tid
    BY <1>2, OriFields DEF Sessions
  <1>4. Resend(x, i) = RTMPSetTimer(z, i) BY DEF Resend
  <1> HIDE DEF e, z
  <1>5. /\ z \in OriTables /\ z.idx = x.idx /\ z.bm = x.bm /\ z.num = x.num
        /\ z.done = x.done
        /\ \A j \in OriEntries : z.ent[j] = IF j = i THEN e ELSE x.ent[j]
    BY <1>1, <1>3, <1>t DEF OriTables
  <1> DEFINE y == RTMPSetTimer(z, i)
  <1>6. /\ y \in OriTables /\ SameBut(z, y)
        /\ \A j \in OriEntries : /\ y.ent[j].valid = z.ent[j].valid
                                 /\ y.ent[j].pend <=> \/ z.ent[j].pend
                                                      \/ j = i /\ z.ent[i].valid
    BY <1>5, SetTimerIs
  <1> HIDE DEF y
  <1>7. Resend(x, i) = y BY <1>4 DEF y
  <1> QED BY <1>3, <1>5, <1>6, <1>7 DEF SameBut

(* A timer that is cancelled, or that expires, does not run. *)
LEMMA CancelIs ==
  ASSUME NEW x \in OriTables, NEW i \in OriEntries
  PROVE  LET y == RTMPCancelTimer(x, i) IN
         /\ y \in OriTables /\ SameBut(x, y)
         /\ \A j \in OriEntries : /\ y.ent[j].valid = x.ent[j].valid
                                  /\ y.ent[j].pend <=> x.ent[j].pend /\ j # i
  <1> DEFINE e == [x.ent[i] EXCEPT !.pend = FALSE]
             y == RTMPCancelTimer(x, i)
  <1>t. /\ x.idx \in [TIDs -> 0..OriLen - 1] /\ x.bm \in SUBSET TIDs
        /\ x.num \in Int /\ x.done \in Int
    BY OriFields
  <1>1. y = [x EXCEPT !.ent = [x.ent EXCEPT ![i] = e]]
    BY DEF RTMPCancelTimer, OriTables
  <1>2. /\ e \in Sessions /\ e.valid = x.ent[i].valid /\ e.pend = FALSE
        /\ e.st = x.ent[i].st /\ e.tid = x.ent[i].tid
    BY OriFields DEF Sessions
  <1> HIDE DEF e, y
  <1>3. /\ y \in OriTables /\ y.idx = x.idx /\ y.bm = x.bm /\ y.num = x.num
        /\ y.done = x.done
        /\ \A j \in OriEntries : y.ent[j] = IF j = i THEN e ELSE x.ent[j]
    BY <1>1, <1>2, <1>t DEF OriTables
  <1> QED BY <1>2, <1>3 DEF SameBut, y

(* The index of an entry that is freed goes first, *)
LEMMA EnterIs ==
  ASSUME NEW x \in OriTables, NEW i \in OriEntries
  PROVE  LET y == FreeOriEnter(x, i) IN
         /\ y \in OriTables
         /\ y.ent = x.ent /\ y.bm = x.bm /\ y.num = x.num /\ y.done = x.done
         /\ \A t \in TIDs : y.idx[t] = IF t = x.ent[i].tid THEN 0 ELSE x.idx[t]
  <1> DEFINE f == [x.idx EXCEPT ![x.ent[i].tid] = 0]
  <1>1. FreeOriEnter(x, i) = [x EXCEPT !.idx = f] BY DEF FreeOriEnter, OriTables
  <1>2. /\ f \in [TIDs -> 0..OriLen - 1]
        /\ \A t \in TIDs : f[t] = IF t = x.ent[i].tid THEN 0 ELSE x.idx[t]
    BY OriFields, Constants
  <1> HIDE DEF f
  <1> QED BY <1>1, <1>2 DEF OriTables

(* the entry, its bit and its count under the lock. *)
LEMMA LockedIs ==
  ASSUME NEW x \in OriTables, NEW i \in OriEntries
  PROVE  LET y == FreeOriLocked(x, i)
             d == x.ent[i].st = "Done"
         IN
         /\ y \in OriTables /\ y.idx = x.idx /\ y.num = x.num - 1
         /\ y.bm = (IF d THEN x.bm \ {x.ent[i].tid} ELSE x.bm)
         /\ y.done = (IF d THEN x.done - 1 ELSE x.done)
         /\ \A j \in OriEntries :
              /\ y.ent[j].st = IF j = i THEN "NONE" ELSE x.ent[j].st
              /\ y.ent[j].tid = x.ent[j].tid /\ y.ent[j].valid = x.ent[j].valid
              /\ y.ent[j].pend = x.ent[j].pend
  <1> DEFINE d == x.ent[i].st = "Done"
             m == x.bm \ (IF d THEN {x.ent[i].tid} ELSE {})
             n == x.done - (IF d THEN 1 ELSE 0)
             z == [x EXCEPT !.done = @ - (IF d THEN 1 ELSE 0),
                            !.bm = @ \ (IF d THEN {x.ent[i].tid} ELSE {}),
                            !.num = @ - 1, !.ent[i].st = "NONE"]
             y == FreeOriLocked(x, i)
  <1>t. /\ x.idx \in [TIDs -> 0..OriLen - 1] /\ x.bm \in SUBSET TIDs
        /\ x.num \in Int /\ x.done \in Int
    BY OriFields
  <1>1. y = [z EXCEPT !.ent[i].token = 0] BY DEF FreeOriLocked
  <1>2. m \in SUBSET TIDs /\ m = IF d THEN x.bm \ {x.ent[i].tid} ELSE x.bm
    BY OriFields
  <1>3. n \in Int /\ x.num - 1 \in Int /\ n = IF d THEN x.done - 1 ELSE x.done
    BY OriFields
  <1> HIDE DEF m, n
  <1>4. z = [x EXCEPT !.done = n, !.bm = m, !.num = x.num - 1,
                      !.ent = [x.ent EXCEPT ![i] = [x.ent[i] EXCEPT !.st = "NONE"]]]
    BY DEF OriTables, m, n
  <1> HIDE DEF z, y
  <1>5. /\ [x.ent[i] EXCEPT !.st = "NONE"] \in Sessions
        /\ 0 \in 0..ORI_SESSION_MAX_RETRY
    BY OriFields, Constants DEF Sessions
  <1>6. /\ z \in OriTables /\ z.idx = x.idx /\ z.bm = m /\ z.num = x.num - 1
        /\ z.done = n
        /\ z.ent = [x.ent EXCEPT ![i] = [x.ent[i] EXCEPT !.st = "NONE"]]
    BY <1>2, <1>3, <1>4, <1>5, <1>t DEF OriTables
  <1>7. y = [z EXCEPT !.ent = [z.ent EXCEPT ![i] = [z.ent[i] EXCEPT !.token = 0]]]
    BY <1>1, <1>6 DEF OriTables
  <1>8. [z.ent[i] EXCEPT !.token = 0] \in Sessions
    BY <1>5, <1>6, OriFields DEF Sessions
  <1>9. /\ y \in OriTables /\ y.idx = z.idx /\ y.bm = z.bm /\ y.num = z.num
        /\ y.done = z.done
        /\ y.ent = [z.ent EXCEPT ![i] = [z.ent[i] EXCEPT !.token = 0]]
    BY <1>6, <1>7, <1>8 DEF OriTables
  <1>10. \A j \in OriEntries :
           /\ y.ent[j].st = IF j = i THEN "NONE" ELSE x.ent[j].st
           /\ y.ent[j].tid = x.ent[j].tid /\ y.ent[j].valid = x.ent[j].valid
           /\ y.ent[j].pend = x.ent[j].pend
    <2>1. \A j \in OriEntries \ {i} : y.ent[j] = x.ent[j]
      BY <1>6, <1>9 DEF OriTables
    <2>2. /\ y.ent[i].st = "NONE" /\ y.ent[i].tid = x.ent[i].tid
          /\ y.ent[i].valid = x.ent[i].valid /\ y.ent[i].pend = x.ent[i].pend
      BY <1>6, <1>9 DEF OriTables, Sessions
    <2> QED BY <2>1, <2>2
  <1> QED BY <1>2, <1>3, <1>6, <1>9, <1>10 DEF y

(* A response turns an entry that waits into a session. *)
LEMMA AddIs ==
  ASSUME NEW x \in OriTables, NEW t \in TIDs, x.idx[t] # 0
  PROVE  LET y == OriAdd(x, t)
             i == x.idx[t]
         IN
         /\ y \in OriTables /\ y.idx = x.idx /\ y.num = x.num
         /\ y.bm = x.bm \cup {t} /\ y.done = x.done + 1
         /\ \A j \in OriEntries :
              /\ y.ent[j].st = IF j = i THEN "Done" ELSE x.ent[j].st
              /\ y.ent[j].tid = x.ent[j].tid /\ y.ent[j].valid = x.ent[j].valid
              /\ y.ent[j].pend <=> x.ent[j].pend /\ j # i
  <1> DEFINE i == x.idx[t]
             e == [x.ent[i] EXCEPT !.st = "Done"]
             m == x.bm \cup {t}
             z == [x EXCEPT !.ent[i].st = "Done", !.done = @ + 1, !.bm = @ \cup {t}]
  <1>t. /\ x.idx \in [TIDs -> 0..OriLen - 1] /\ x.bm \in SUBSET TIDs
        /\ x.num \in Int /\ x.done \in Int
    BY OriFields
  <1>0. i \in OriEntries BY OriFields, Constants
  <1>1. z = [x EXCEPT !.ent = [x.ent EXCEPT ![i] = e], !.idx = x.idx, !.bm = m,
                      !.num = x.num, !.done = x.done + 1]
    BY DEF OriTables
  <1>2. /\ e \in Sessions /\ e.valid = x.ent[i].valid /\ e.pend = x.ent[i].pend
        /\ e.st = "Done" /\ e.tid = x.ent[i].tid
    BY <1>0, OriFields DEF Sessions
  <1>3. m \in SUBSET TIDs /\ x.done + 1 \in Int BY OriFields
  <1>4. OriAdd(x, t) = RTMPCancelTimer(z, i) BY DEF OriAdd
  <1> HIDE DEF e, z
  <1>5. /\ z \in OriTables /\ z.idx = x.idx /\ z.bm = m /\ z.num = x.num
        /\ z.done = x.done + 1
        /\ \A j \in OriEntries : z.ent[j] = IF j = i THEN e ELSE x.ent[j]
    BY <1>0, <1>1, <1>2, <1>3, <1>t DEF OriTables
  <1> DEFINE y == RTMPCancelTimer(z, i)
  <1>6. /\ y \in OriTables /\ SameBut(z, y)
        /\ \A j \in OriEntries : /\ y.ent[j].valid = z.ent[j].valid
                                 /\ y.ent[j].pend <=> z.ent[j].pend /\ j # i
    BY <1>0, <1>5, CancelIs
  <1> HIDE DEF y
  <1>7. OriAdd(x, t) = y BY <1>4 DEF y
  <1> QED BY <1>0, <1>2, <1>5, <1>6, <1>7 DEF SameBut

(* An entry that is set up for a TID *)
LEMMA SetUpIs ==
  ASSUME NEW x \in OriTables, NEW t \in TIDs, NEW e \in OriEntries,
         NEW i \in 0..OriLen - 1
  PROVE  LET y == SetUpEntry(x, t, e, i) IN
         /\ y \in OriTables /\ y.bm = x.bm /\ y.done = x.done
         /\ y.num = IF x.idx[t] = 0 /\ i # 0 THEN x.num + 1 ELSE x.num
         /\ \A u \in TIDs : y.idx[u] = IF u = t THEN i ELSE x.idx[u]
         /\ \A j \in OriEntries :
              /\ y.ent[j].st = IF j = e THEN "WaitRes" ELSE x.ent[j].st
              /\ y.ent[j].tid = IF j = e THEN t ELSE x.ent[j].tid
              /\ j # e => /\ y.ent[j].valid = x.ent[j].valid
                          /\ y.ent[j].pend = x.ent[j].pend
         /\ t \notin x.bm => y.ent[e].valid /\ y.ent[e].pend
  <1> DEFINE f == [x.idx EXCEPT ![t] = i]
             n == IF x.idx[t] = 0 /\ i # 0 THEN x.num + 1 ELSE x.num
             z == [x EXCEPT !.idx[t] = i,
                            !.num = IF x.idx[t] = 0 /\ i # 0 THEN @ + 1 ELSE @,
                            !.ent[e].st = "WaitRes", !.ent[e].token = 1,
                            !.ent[e].tid = t]
  <1>t. /\ x.idx \in [TIDs -> 0..OriLen - 1] /\ x.bm \in SUBSET TIDs
        /\ x.num \in Int /\ x.done \in Int
    BY OriFields
  <1>1. f \in [TIDs -> 0..OriLen - 1] /\ n \in Int BY OriFields
  <1>2. \A u \in TIDs : f[u] = IF u = t THEN i ELSE x.idx[u] BY OriFields
  <1>3. 1 \in 0..ORI_SESSION_MAX_RETRY BY Constants
  <1> DEFINE c1 == [x.ent[e] EXCEPT !.st = "WaitRes"]
             c2 == [c1 EXCEPT !.token = 1]
             c == [c2 EXCEPT !.tid = t]
             x1 == [x EXCEPT !.idx[t] = i,
                             !.num = IF x.idx[t] = 0 /\ i # 0 THEN @ + 1 ELSE @,
                             !.ent[e].st = "WaitRes"]
             x2 == [x1 EXCEPT !.ent[e].token = 1]
             e1 == [x.ent EXCEPT ![e] = c1]
             e2 == [x.ent EXCEPT ![e] = c2]
             e3 == [x.ent EXCEPT ![e] = c]
  <1>4. /\ c1 \in Sessions /\ c2 \in Sessions /\ c \in Sessions
        /\ c.st = "WaitRes" /\ c.tid = t
    <2>1. x.ent[e] \in Sessions BY OriFields
    <2>2. c1 \in Sessions /\ c1.st = "WaitRes" BY <2>1 DEF Sessions
    <2> HIDE DEF c1
    <2>3. c2 \in Sessions /\ c2.st = "WaitRes" BY <1>3, <2>2 DEF Sessions
    <2> HIDE DEF c2
    <2>4. c \in Sessions /\ c.st = "WaitRes" /\ c.tid = t BY <2>3 DEF Sessions
    <2> QED BY <2>2, <2>3, <2>4
  <1>5. /\ z \in OriTables /\ z.idx = f /\ z.bm = x.bm /\ z.num = n
        /\ z.done = x.done
        /\ \A j \in OriEntries : z.ent[j] = IF j = e THEN c ELSE x.ent[j]
    <2>1. x1 = [x EXCEPT !.idx = f, !.num = n, !.ent = e1] BY DEF OriTables
    <2>2. /\ x1 \in OriTables /\ x1.idx = f /\ x1.num = n /\ x1.ent = e1
          /\ x1.bm = x.bm /\ x1.done = x.done
      <3> HIDE DEF f, n, c1, x1
      <3> QED BY <1>t, <1>1, <1>4, <2>1 DEF OriTables
    <2>3. x2 = [x1 EXCEPT !.ent = e2]
      <3> HIDE DEF x1
      <3> QED BY <2>2 DEF OriTables
    <2>4. /\ x2 \in OriTables /\ x2.idx = f /\ x2.num = n /\ x2.ent = e2
          /\ x2.bm = x.bm /\ x2.done = x.done
      <3> HIDE DEF f, n, c2, x2, x1
      <3> QED BY <1>4, <2>2, <2>3 DEF OriTables
    <2>5. z = [x2 EXCEPT !.ent[e].tid = t] OBVIOUS
    <2>6. z = [x2 EXCEPT !.ent = e3]
      <3> HIDE DEF x2, z
      <3> QED BY <2>4, <2>5 DEF OriTables
    <2> HIDE DEF f, n, c, x2, z
    <2> QED BY <1>4, <2>4, <2>6 DEF OriTables
  <1> HIDE DEF c, z, f
  <1> DEFINE v == RTMPInitTimer(z, e)
  <1>6. /\ v \in OriTables /\ SameBut(z, v) /\ v.ent[e].valid
        /\ \A j \in OriEntries : j # e => v.ent[j] = z.ent[j]
    <2> DEFINE g == [z.ent[e] EXCEPT !.valid = TRUE]
    <2>1. v = [z EXCEPT !.ent = [z.ent EXCEPT ![e] = g]]
      BY <1>5 DEF RTMPInitTimer, OriTables
    <2>2. /\ g \in Sessions /\ g.valid /\ g.st = z.ent[e].st /\ g.tid = z.ent[e].tid
      <3>1. z.ent[e] \in Sessions BY <1>5, OriFields
      <3> QED BY <3>1 DEF Sessions
    <2> HIDE DEF g, v
    <2>3. /\ v \in OriTables /\ v.idx = z.idx /\ v.bm = z.bm /\ v.num = z.num
          /\ v.done = z.done
          /\ \A j \in OriEntries : v.ent[j] = IF j = e THEN g ELSE z.ent[j]
      BY <1>5, <2>1, <2>2, OriFields DEF OriTables
    <2> QED BY <2>2, <2>3 DEF SameBut
  <1> DEFINE w == RTMPCancelTimer(z, e)
  <1>7. /\ w \in OriTables /\ SameBut(z, w)
        /\ \A j \in OriEntries : j # e => /\ w.ent[j].valid = z.ent[j].valid
                                          /\ w.ent[j].pend = z.ent[j].pend
    BY <1>5, CancelIs, OriFields
  <1>8. SetUpEntry(x, t, e, i) = RTMPSetTimer(IF t \in x.bm THEN w ELSE v, e)
    BY DEF SetUpEntry, z
  <1> HIDE DEF v, w
  <1>9. CASE t \in x.bm
    <2> DEFINE y == RTMPSetTimer(w, e)
    <2>1. /\ y \in OriTables /\ SameBut(w, y)
          /\ \A j \in OriEntries : j # e => /\ y.ent[j].valid = w.ent[j].valid
                                            /\ y.ent[j].pend = w.ent[j].pend
      BY <1>7, SetTimerIs, OriFields
    <2> HIDE DEF y
    <2>2. SetUpEntry(x, t, e, i) = y BY <1>8, <1>9 DEF y
    <2> QED BY <1>2, <1>4, <1>5, <1>7, <1>9, <2>1, <2>2 DEF SameBut
  <1>10. CASE t \notin x.bm
    <2> DEFINE y == RTMPSetTimer(v, e)
    <2>1. /\ y \in OriTables /\ SameBut(v, y) /\ y.ent[e].valid /\ y.ent[e].pend
          /\ \A j \in OriEntries : j # e => /\ y.ent[j].valid = v.ent[j].valid
                                            /\ y.ent[j].pend = v.ent[j].pend
      BY <1>6, SetTimerIs, OriFields
    <2> HIDE DEF y
    <2>2. SetUpEntry(x, t, e, i) = y BY <1>8, <1>10 DEF y
    <2> QED BY <1>2, <1>4, <1>5, <1>6, <1>10, <2>1, <2>2 DEF SameBut
  <1> QED BY <1>9, <1>10

-----------------------------------------------------------------------------
(* The timer queue *)
LEMMA InToSet ==
  ASSUME NEW S, NEW q \in Seq(S)
  PROVE  /\ \A x : x \in ToSet(q) <=> \E j \in 1..Len(q) : q[j] = x
         /\ ToSet(q) \subseteq S
  BY DEF ToSet

LEMMA LeastOf ==
  ASSUME NEW T, T \subseteq Nat, T # {}
  PROVE  \E m \in T : \A i \in T : m <= i
  <1>1. IsWellFoundedOn(OpToRel(<, Nat), Nat) BY NatLessThanWellFounded
  <1>2. PICK m \in T : \A i \in T : ~(<<i, m>> \in OpToRel(<, Nat))
    BY <1>1, WFMin
  <1>3. \A i \in T : <<i, m>> \in OpToRel(<, Nat) <=> i < m BY DEF OpToRel
  <1>4. \A i \in T : i \in Nat /\ m \in Nat /\ ~(i < m) BY <1>2, <1>3
  <1> QED BY <1>4

(* Taking a timer off the queue leaves the others in it. *)
LEMMA Removed ==
  ASSUME NEW S, NEW q \in Seq(S), NEW e
  PROVE  LET p == RtmpTimerQRemove(q, e) IN
         /\ p \in Seq(S)
         /\ \A x : x # e => (x \in ToSet(p) <=> x \in ToSet(q))
         /\ Distinct(q) => Distinct(p) /\ e \notin ToSet(p)
  <1> DEFINE p == RtmpTimerQRemove(q, e)
             I == {i \in 1..Len(q) : q[i] = e}
  <1>0. Len(q) \in Nat OBVIOUS
  <1>1. CASE I = {}
    <2>1. p = q BY <1>1 DEF RtmpTimerQRemove, RemoveFirst
    <2>2. e \notin ToSet(q) BY <1>1, InToSet
    <2> HIDE DEF p
    <2> QED BY <2>1, <2>2 DEF p
  <1>2. CASE I # {}
    <2> DEFINE k == SelectInSeq(q, LAMBDA v : v = e)
    <2>1. k = Min(I) BY <1>2 DEF SelectInSeq
    <2>2. I \subseteq Nat OBVIOUS
    <2>3. \E m \in I : \A i \in I : m <= i BY <1>2, <2>2, LeastOf
    <2>4. Min(I) \in I BY <2>3 DEF Min
    <2>5. k \in 1..Len(q) /\ q[k] = e BY <2>1, <2>4
    <2>6. p = SubSeq(q, 1, k - 1) \o SubSeq(q, k + 1, Len(q))
      BY <1>2 DEF RtmpTimerQRemove, RemoveFirst, RemoveAt
    <2> HIDE DEF k, p, I
    <2> DEFINE a == SubSeq(q, 1, k - 1)
               b == SubSeq(q, k + 1, Len(q))
    <2>7. \A i \in 1..Len(q) : q[i] \in S OBVIOUS
    <2>8. k \in Nat /\ k >= 1 /\ k <= Len(q) BY <2>5, <1>0
    <2>9. /\ a \in Seq(S) /\ Len(a) = k - 1 /\ \A i \in 1..k - 1 : a[i] = q[i]
      <3>1. \A i \in 1..k - 1 : q[i] \in S BY <2>7, <2>8, <1>0
      <3>2. 1 \in Int /\ k - 1 \in Int BY <2>8
      <3>3. /\ a \in Seq(S)
            /\ Len(a) = IF 1 <= k - 1 THEN (k - 1) - 1 + 1 ELSE 0
            /\ \A i \in 1..(k - 1) - 1 + 1 : a[i] = q[1 + i - 1]
        BY <3>1, <3>2, SubSeqProperties
      <3> HIDE DEF a
      <3>4. Len(a) = k - 1 BY <3>3, <2>8
      <3>5. ASSUME NEW i \in 1..k - 1 PROVE a[i] = q[i]
        <4>1. i \in 1..(k - 1) - 1 + 1 /\ 1 + i - 1 = i BY <2>8
        <4> QED BY <3>3, <4>1
      <3> QED BY <3>3, <3>4, <3>5
    <2>10. /\ b \in Seq(S) /\ Len(b) = Len(q) - k
           /\ \A i \in 1..Len(q) - k : b[i] = q[k + i]
      <3>1. \A i \in k + 1..Len(q) : q[i] \in S BY <2>7, <2>8, <1>0
      <3>2. k + 1 \in Int /\ Len(q) \in Int BY <2>8, <1>0
      <3>3. /\ b \in Seq(S)
            /\ Len(b) = IF k + 1 <= Len(q) THEN Len(q) - (k + 1) + 1 ELSE 0
            /\ \A i \in 1..Len(q) - (k + 1) + 1 : b[i] = q[(k + 1) + i - 1]
        BY <3>1, <3>2, SubSeqProperties
      <3> HIDE DEF b
      <3>4. Len(b) = Len(q) - k BY <3>3, <2>8, <1>0
      <3>5. ASSUME NEW i \in 1..Len(q) - k PROVE b[i] = q[k + i]
        <4>1. i \in 1..Len(q) - (k + 1) + 1 /\ (k + 1) + i - 1 = k + i
          BY <2>8, <1>0
        <4> QED BY <3>3, <4>1
      <3> QED BY <3>3, <3>4, <3>5
    <2> HIDE DEF a, b
    <2>11. /\ p \in Seq(S) /\ Len(p) = Len(a) + Len(b)
           /\ \A i \in 1..Len(a) + Len(b) :
                p[i] = IF i <= Len(a) THEN a[i] ELSE b[i - Len(a)]
      BY <2>6, <2>9, <2>10, ConcatProperties DEF a, b
    <2>12. /\ Len(p) = Len(q) - 1
           /\ \A i \in 1..Len(p) : p[i] = IF i < k THEN q[i] ELSE q[i + 1]
      <3>1. Len(p) = Len(q) - 1 BY <1>0, <2>8, <2>9, <2>10, <2>11
      <3>2. ASSUME NEW i \in 1..Len(p) PROVE p[i] = IF i < k THEN q[i] ELSE q[i + 1]
        <4>1. CASE i < k
          <5>1. i \in 1..Len(a) + Len(b) /\ i <= Len(a) /\ i \in 1..k - 1
            BY <4>1, <1>0, <2>8, <2>9, <2>10, <2>11
          <5> QED BY <4>1, <5>1, <2>9, <2>11
        <4>2. CASE i >= k
          <5> DEFINE l == i - Len(a)
          <5>1. /\ i \in 1..Len(a) + Len(b) /\ ~(i <= Len(a)) /\ ~(i < k)
                /\ l \in 1..Len(q) - k /\ k + l = i + 1
            BY <4>2, <1>0, <2>8, <2>9, <2>10, <2>11
          <5>2. p[i] = b[l] BY <5>1, <2>11
          <5> HIDE DEF l
          <5>3. b[l] = q[k + l] BY <5>1, <2>10
          <5> QED BY <5>1, <5>2, <5>3
        <4> QED BY <4>1, <4>2, <2>8
      <3> QED BY <3>1, <3>2
    <2>13. ASSUME NEW x, x # e PROVE x \in ToSet(p) <=> x \in ToSet(q)
      <3>1. ASSUME NEW i \in 1..Len(p), p[i] = x PROVE \E j \in 1..Len(q) : q[j] = x
        <4>1. i \in 1..Len(q) /\ i + 1 \in 1..Len(q) BY <2>12, <1>0
        <4> QED BY <2>12, <3>1, <4>1
      <3>2. ASSUME NEW j \in 1..Len(q), q[j] = x PROVE \E i \in 1..Len(p) : p[i] = x
        <4>1. j # k BY <2>5, <2>13, <3>2
        <4>2. CASE j < k
          <5>1. j \in 1..Len(p) BY <4>2, <2>8, <2>12, <1>0
          <5> QED BY <4>2, <5>1, <2>12, <3>2
        <4>3. CASE j > k
          <5>1. j - 1 \in 1..Len(p) /\ ~(j - 1 < k) /\ (j - 1) + 1 = j
            BY <4>3, <2>8, <2>12, <1>0
          <5> QED BY <5>1, <2>12, <3>2
        <4> QED BY <4>1, <4>2, <4>3, <2>8
      <3> QED BY <2>11, <3>1, <3>2, InToSet
    <2>14. ASSUME Distinct(q) PROVE Distinct(p) /\ e \notin ToSet(p)
      <3>1. ASSUME NEW i \in 1..Len(p)
            PROVE  \E j \in 1..Len(q) :
                     p[i] = q[j] /\ j # k /\ j = IF i < k THEN i ELSE i + 1
        <4>1. i \in 1..Len(q) /\ i + 1 \in 1..Len(q) BY <2>12, <1>0
        <4> QED BY <2>8, <2>12, <4>1
      <3>2. ASSUME NEW i \in 1..Len(p), NEW j \in 1..Len(p), p[i] = p[j] PROVE i = j
        <4>1. PICK m \in 1..Len(q) : p[i] = q[m] /\ m = IF i < k THEN i ELSE i + 1
          BY <3>1
        <4>2. PICK n \in 1..Len(q) : p[j] = q[n] /\ n = IF j < k THEN j ELSE j + 1
          BY <3>1
        <4>3. m = n BY <3>2, <4>1, <4>2, <2>14 DEF Distinct
        <4> QED BY <4>1, <4>2, <4>3, <2>8
      <3>3. \A i \in 1..Len(p) : p[i] # e BY <3>1, <2>5, <2>14 DEF Distinct
      <3> QED BY <3>2, <3>3, <2>11, InToSet DEF Distinct
    <2> QED BY <2>11, <2>13, <2>14 DEF p
  <1> QED BY <1>1, <1>2

-----------------------------------------------------------------------------
(* An entry is found whenever the counter says that there is a free one; if  *)
(* the counter is wrong the result is still an entry.                        *)
LEMMA AllocType ==
  ASSUME NEW ent, NEW max \in Nat, DOMAIN ent = 1..max, NEW num \in Int
  PROVE  LET a == AllocEntry(ent, num, max) IN a.e \in 0..max /\ a.i \in 0..max
  <1> DEFINE free == {i \in DOMAIN ent : ent[i].st = "NONE"}
             a == AllocEntry(ent, num, max)
             m == CHOOSE i \in free : \A j \in free : i <= j
  <1>1. CASE num >= max
    <2>1. a = [e |-> 0, i |-> 0] BY <1>1 DEF AllocEntry
    <2> QED BY <2>1
  <1>2. CASE num < max /\ free = {}
    <2>1. a = [e |-> max, i |-> 0] BY <1>2 DEF AllocEntry
    <2> QED BY <2>1
  <1>3. CASE num < max /\ free # {}
    <2>1. a = [e |-> m, i |-> m] BY <1>3 DEF AllocEntry
    <2>2. \E i \in free : \A j \in free : i <= j
      <3>1. free \subseteq Nat OBVIOUS
      <3> QED BY <1>3, <3>1, LeastOf
    <2>3. m \in free BY <2>2
    <2> HIDE DEF m
    <2> QED BY <2>1, <2>3
  <1> QED BY <1>1, <1>2, <1>3

LEMMA AllocIs ==
  ASSUME NEW ent, NEW max \in Nat, DOMAIN ent = 1..max,
         NEW num, num = Cardinality({i \in 1..max : ent[i].st # "NONE"})
  PROVE  LET a == AllocEntry(ent, num, max) IN
         a.e # 0 => a.i = a.e /\ a.e \in 1..max /\ ent[a.e].st = "NONE"
  <1> DEFINE free == {i \in DOMAIN ent : ent[i].st = "NONE"}
             used == {i \in 1..max : ent[i].st # "NONE"}
             a == AllocEntry(ent, num, max)
             m == CHOOSE i \in free : \A j \in free : i <= j
  <1>0. IsFiniteSet(1..max) /\ Cardinality(1..max) = max
    <2>1. 1 \in Int /\ max \in Int OBVIOUS
    <2> QED BY <2>1, FS_Interval
  <1>1. num \in Nat
    <2>1. used \in SUBSET (1..max) OBVIOUS
    <2> QED BY <1>0, <2>1, FS_Subset, FS_CardinalityType
  <1>2. CASE num >= max
    <2>1. a = [e |-> 0, i |-> 0] BY <1>1, <1>2 DEF AllocEntry
    <2> QED BY <2>1
  <1>3. CASE num < max
    <2>1. free # {}
      <3> SUFFICES ASSUME free = {} PROVE FALSE OBVIOUS
      <3>1. \A i \in 1..max : i \in used OBVIOUS
      <3>2. used = 1..max BY <3>1
      <3>3. num = Cardinality(1..max) BY <3>2
      <3> QED BY <1>0, <1>3, <3>3
    <2>2. a = [e |-> m, i |-> m] BY <1>1, <1>3, <2>1 DEF AllocEntry
    <2>3. \E i \in free : \A j \in free : i <= j
      <3>1. free \subseteq Nat OBVIOUS
      <3> QED BY <2>1, <3>1, LeastOf
    <2>4. m \in free BY <2>3
    <2> HIDE DEF m
    <2> QED BY <2>2, <2>4
  <1> QED BY <1>1, <1>2, <1>3

LEMMA UsedIs ==
  ASSUME NEW x \in OriTables
  PROVE  /\ \A i : i \in Used(x) <=> i \in OriEntries /\ x.ent[i].st # "NONE"
         /\ \A i : i \in DoneIn(x) <=> i \in OriEntries /\ x.ent[i].st = "Done"
         /\ IsFiniteSet(Used(x)) /\ IsFiniteSet(DoneIn(x))
         /\ Cardinality(Used(x)) \in 0..OriLen - 1
         /\ Cardinality(DoneIn(x)) \in 0..OriLen - 1
  <1>1. /\ \A i : i \in Used(x) <=> i \in OriEntries /\ x.ent[i].st # "NONE"
        /\ \A i : i \in DoneIn(x) <=> i \in OriEntries /\ x.ent[i].st = "Done"
    BY OriFields DEF Used, DoneIn
  <1>2. IsFiniteSet(OriEntries) /\ Cardinality(OriEntries) = OriLen - 1
    <2>1. 1 \in Int /\ OriLen - 1 \in Int BY Constants
    <2>2. /\ IsFiniteSet(1..OriLen - 1)
          /\ Cardinality(1..OriLen - 1) = IF 1 > OriLen - 1 THEN 0
                                          ELSE (OriLen - 1) - 1 + 1
      BY <2>1, FS_Interval
    <2> QED BY <2>2, Constants DEF OriEntries
  <1>3. Used(x) \in SUBSET OriEntries /\ DoneIn(x) \in SUBSET OriEntries BY <1>1
  <1>4. /\ IsFiniteSet(Used(x)) /\ Cardinality(Used(x)) <= OriLen - 1
        /\ IsFiniteSet(DoneIn(x)) /\ Cardinality(DoneIn(x)) <= OriLen - 1
    BY <1>2, <1>3, FS_Subset
  <1>5. Cardinality(Used(x)) \in Nat /\ Cardinality(DoneIn(x)) \in Nat
    BY <1>4, FS_CardinalityType
  <1> QED BY <1>1, <1>4, <1>5, Constants

-----------------------------------------------------------------------------
(* What the operations on the table of sessions as originator keep *)
LEMMA AgreesSame ==
  ASSUME NEW x \in OriTables, NEW y \in OriTables, NEW b, SameBut(x, y), Agrees(x, b)
  PROVE  Agrees(y, b)
  <1>x. /\ \A j : j \in Used(x) <=> j \in OriEntries /\ x.ent[j].st # "NONE"
        /\ \A j : j \in DoneIn(x) <=> j \in OriEntries /\ x.ent[j].st = "Done"
    BY UsedIs
  <1>y. /\ \A j : j \in Used(y) <=> j \in OriEntries /\ y.ent[j].st # "NONE"
        /\ \A j : j \in DoneIn(y) <=> j \in OriEntries /\ y.ent[j].st = "Done"
    BY UsedIs
  <1>1. Used(y) = Used(x) /\ DoneIn(y) = DoneIn(x) BY <1>x, <1>y DEF SameBut
  <1>2. \A i \in Used(x) \cup DoneIn(x) : y.ent[i].tid = x.ent[i].tid
    BY UsedIs DEF SameBut
  <1>3. {y.ent[i].tid : i \in DoneIn(x)} = {x.ent[i].tid : i \in DoneIn(x)}
    BY <1>2
  <1>4. \A t \in TIDs : x.idx[t] # 0 => x.idx[t] \in Used(x)
                          /\ y.ent[x.idx[t]].tid = t /\ x.idx[t] # b
    BY <1>2 DEF Agrees
  <1>5. b # 0 => b \in Used(x) /\ x.idx[y.ent[b].tid] = 0 BY <1>2 DEF Agrees
  <1>6. \A i \in Used(x) : i # b => x.idx[y.ent[i].tid] = i BY <1>2 DEF Agrees
  <1> QED BY SMTT(60), <1>1, <1>3, <1>4, <1>5, <1>6 DEF Agrees, SameBut

LEMMA AgreesEnter ==
  ASSUME NEW x \in OriTables, Agrees(x, 0), NEW i \in OriEntries, i \in Used(x)
  PROVE  Agrees(FreeOriEnter(x, i), i)
  <1> DEFINE y == FreeOriEnter(x, i)
  <1>1. /\ y \in OriTables
        /\ y.ent = x.ent /\ y.bm = x.bm /\ y.num = x.num /\ y.done = x.done
        /\ \A t \in TIDs : y.idx[t] = IF t = x.ent[i].tid THEN 0 ELSE x.idx[t]
    BY EnterIs
  <1> HIDE DEF y
  <1>2. Used(y) = Used(x) /\ DoneIn(y) = DoneIn(x) BY <1>1 DEF Used, DoneIn
  <1>3. x.ent[i].tid \in TIDs /\ i # 0 BY OriFields, Constants
  <1>4. ASSUME NEW j \in Used(x), j # i PROVE y.idx[x.ent[j].tid] = j
    <2>1. x.idx[x.ent[j].tid] = j /\ x.idx[x.ent[i].tid] = i /\ j # 0
      BY Constants, UsedIs DEF Agrees
    <2>2. x.ent[j].tid \in TIDs /\ x.ent[j].tid # x.ent[i].tid
      BY <1>4, <2>1, UsedIs, OriFields
    <2> QED BY <1>1, <2>1, <2>2
  <1>5. ASSUME NEW t \in TIDs, y.idx[t] # 0
        PROVE  y.idx[t] \in Used(x) /\ y.idx[t] # i /\ x.ent[y.idx[t]].tid = t
    BY <1>1, <1>5 DEF Agrees
  <1>6. y.idx[x.ent[i].tid] = 0 BY <1>1, <1>3
  <1>7. x.num = Cardinality(Used(x)) /\ x.done = Cardinality(DoneIn(x))
        /\ x.bm = {x.ent[j].tid : j \in DoneIn(x)}
    BY DEF Agrees
  <1>8. Agrees(y, i) BY <1>1, <1>2, <1>4, <1>5, <1>6, <1>7 DEF Agrees
  <1> QED BY <1>8 DEF y

LEMMA AgreesLocked ==
  ASSUME NEW x \in OriTables, NEW i \in OriEntries, Agrees(x, i)
  PROVE  Agrees(FreeOriLocked(x, i), 0)
  <1> DEFINE y == FreeOriLocked(x, i)
             d == x.ent[i].st = "Done"
  <1>1. /\ y \in OriTables /\ y.idx = x.idx /\ y.num = x.num - 1
        /\ y.bm = (IF d THEN x.bm \ {x.ent[i].tid} ELSE x.bm)
        /\ y.done = (IF d THEN x.done - 1 ELSE x.done)
        /\ \A j \in OriEntries :
             /\ y.ent[j].st = IF j = i THEN "NONE" ELSE x.ent[j].st
             /\ y.ent[j].tid = x.ent[j].tid
    BY ZenonT(60), LockedIs
  <1> HIDE DEF y
  <1>2. i # 0 /\ i \in Used(x) /\ x.idx[x.ent[i].tid] = 0
    BY Constants DEF Agrees
  <1>x. /\ \A j : j \in Used(x) <=> j \in OriEntries /\ x.ent[j].st # "NONE"
        /\ \A j : j \in DoneIn(x) <=> j \in OriEntries /\ x.ent[j].st = "Done"
    BY UsedIs
  <1>y. /\ \A j : j \in Used(y) <=> j \in OriEntries /\ y.ent[j].st # "NONE"
        /\ \A j : j \in DoneIn(y) <=> j \in OriEntries /\ y.ent[j].st = "Done"
    BY <1>1, UsedIs
  <1>3. Used(y) = Used(x) \ {i} /\ DoneIn(y) = DoneIn(x) \ {i}
    BY <1>1, <1>x, <1>y
  <1>4. Cardinality(Used(y)) = x.num - 1
    <2>1. x.num = Cardinality(Used(x)) /\ IsFiniteSet(Used(x))
      BY UsedIs DEF Agrees
    <2> QED BY <1>2, <1>3, <2>1, FS_RemoveElement
  <1>5. Cardinality(DoneIn(y)) = IF d THEN x.done - 1 ELSE x.done
    <2>1. d <=> i \in DoneIn(x) BY <1>x
    <2>2. x.done = Cardinality(DoneIn(x)) /\ IsFiniteSet(DoneIn(x))
      BY UsedIs DEF Agrees
    <2> QED BY <1>3, <2>1, <2>2, FS_RemoveElement
  <1>6. \A j \in Used(y) : y.idx[y.ent[j].tid] = j
    BY <1>1, <1>3, UsedIs DEF Agrees
  <1>7. ASSUME NEW t \in TIDs, y.idx[t] # 0
        PROVE  y.idx[t] \in Used(y) /\ y.ent[y.idx[t]].tid = t
    <2>1. x.idx[t] \in Used(x) /\ x.idx[t] # i /\ x.ent[x.idx[t]].tid = t
      BY <1>1, <1>7 DEF Agrees
    <2>2. x.idx[t] \in OriEntries BY <2>1, UsedIs
    <2> QED BY <1>1, <1>3, <2>1, <2>2
  <1>8. y.bm = {y.ent[j].tid : j \in DoneIn(y)}
    <2>1. \A j \in DoneIn(x) \ {i} : /\ x.ent[j].tid # x.ent[i].tid
                                     /\ y.ent[j].tid = x.ent[j].tid
      <3> TAKE j \in DoneIn(x) \ {i}
      <3>1. j \in Used(x) /\ j # 0 /\ j \in OriEntries BY UsedIs, Constants
      <3>2. x.idx[x.ent[j].tid] = j BY <3>1 DEF Agrees
      <3> QED BY <1>1, <1>2, <3>1, <3>2
    <2>2. x.bm = {x.ent[j].tid : j \in DoneIn(x)} BY DEF Agrees
    <2>3. {y.ent[j].tid : j \in DoneIn(y)} = {x.ent[j].tid : j \in DoneIn(x) \ {i}}
      BY <1>3, <2>1
    <2>4. CASE d
      <3>1. x.bm \ {x.ent[i].tid} = {x.ent[j].tid : j \in DoneIn(x) \ {i}}
        BY <2>1, <2>2
      <3> QED BY <1>1, <2>3, <2>4, <3>1
    <2>5. CASE ~d
      <3>1. DoneIn(x) \ {i} = DoneIn(x) BY <2>5, UsedIs
      <3> QED BY <1>1, <2>2, <2>3, <2>5, <3>1
    <2> QED BY <2>4, <2>5
  <1>9. Agrees(y, 0)
    <2>1. \A t \in TIDs : y.idx[t] # 0 =>
            y.idx[t] \in Used(y) /\ y.idx[t] # 0 /\ y.ent[y.idx[t]].tid = t
      BY <1>7
    <2> QED BY <1>1, <1>4, <1>5, <1>6, <1>8, <2>1 DEF Agrees
  <1> QED BY <1>9 DEF y

(* Without a session or an attempt at one the bit of a TID is not set. *)
LEMMA NoBit ==
  ASSUME NEW x \in OriTables, Agrees(x, 0), NEW t \in TIDs, x.idx[t] = 0
  PROVE  t \notin x.bm
  <1> SUFFICES ASSUME t \in x.bm PROVE FALSE OBVIOUS
  <1>1. PICK j \in DoneIn(x) : x.ent[j].tid = t BY DEF Agrees
  <1>2. j \in Used(x) /\ j # 0 BY UsedIs, Constants
  <1> QED BY <1>1, <1>2 DEF Agrees

LEMMA AgreesSetUp ==
  ASSUME NEW x \in OriTables, Agrees(x, 0), NEW t \in TIDs, x.idx[t] = 0,
         NEW e \in OriEntries, x.ent[e].st = "NONE"
  PROVE  Agrees(SetUpEntry(x, t, e, e), 0)
  <1> DEFINE y == SetUpEntry(x, t, e, e)
  <1>0. e \in 0..OriLen - 1 /\ e # 0 BY Constants
  <1>1. /\ y \in OriTables /\ y.bm = x.bm /\ y.done = x.done /\ y.num = x.num + 1
        /\ \A u \in TIDs : y.idx[u] = IF u = t THEN e ELSE x.idx[u]
        /\ \A j \in OriEntries :
             /\ y.ent[j].st = IF j = e THEN "WaitRes" ELSE x.ent[j].st
             /\ y.ent[j].tid = IF j = e THEN t ELSE x.ent[j].tid
    BY <1>0, SetUpIs
  <1> HIDE DEF y
  <1>x. /\ \A j : j \in Used(x) <=> j \in OriEntries /\ x.ent[j].st # "NONE"
        /\ \A j : j \in DoneIn(x) <=> j \in OriEntries /\ x.ent[j].st = "Done"
    BY UsedIs
  <1>y. /\ \A j : j \in Used(y) <=> j \in OriEntries /\ y.ent[j].st # "NONE"
        /\ \A j : j \in DoneIn(y) <=> j \in OriEntries /\ y.ent[j].st = "Done"
    BY <1>1, UsedIs
  <1>2. /\ Used(y) = Used(x) \cup {e} /\ DoneIn(y) = DoneIn(x)
        /\ e \notin Used(x) /\ e \notin DoneIn(x)
    <2>1. /\ \A j : j \in Used(y) <=> j \in Used(x) \cup {e}
          /\ \A j : j \in DoneIn(y) <=> j \in DoneIn(x)
      BY <1>1, <1>x, <1>y
    <2> QED BY <1>x, <2>1
  <1>3. Cardinality(Used(y)) = x.num + 1
    <2>1. x.num = Cardinality(Used(x)) /\ IsFiniteSet(Used(x))
      BY UsedIs DEF Agrees
    <2> QED BY <1>2, <2>1, FS_AddElement
  <1>4. Cardinality(DoneIn(y)) = x.done BY <1>2 DEF Agrees
  <1>5. ASSUME NEW j \in Used(y) PROVE y.idx[y.ent[j].tid] = j
    <2>1. CASE j = e BY <1>1, <2>1
    <2>2. CASE j # e
      <3>1. j \in Used(x) /\ j \in OriEntries /\ j # 0
        BY <1>2, <2>2, UsedIs, Constants
      <3>2. x.idx[x.ent[j].tid] = j /\ x.ent[j].tid \in TIDs
        BY <3>1, OriFields DEF Agrees
      <3>3. x.ent[j].tid # t BY <3>1, <3>2
      <3> QED BY <1>1, <2>2, <3>1, <3>2, <3>3
    <2> QED BY <2>1, <2>2
  <1>6. ASSUME NEW u \in TIDs, y.idx[u] # 0
        PROVE  y.idx[u] \in Used(y) /\ y.ent[y.idx[u]].tid = u
    <2>1. CASE u = t BY <1>1, <1>2, <2>1
    <2>2. CASE u # t
      <3>1. y.idx[u] = x.idx[u] /\ x.idx[u] \in Used(x) /\ x.ent[x.idx[u]].tid = u
        BY <1>1, <1>6, <2>2 DEF Agrees
      <3>2. x.idx[u] \in OriEntries /\ x.idx[u] # e BY <1>2, <3>1, UsedIs
      <3> QED BY <1>1, <1>2, <3>1, <3>2
    <2> QED BY <2>1, <2>2
  <1>7. y.bm = {y.ent[j].tid : j \in DoneIn(y)}
    <2>1. \A j \in DoneIn(x) : y.ent[j].tid = x.ent[j].tid BY <1>1, <1>2, UsedIs
    <2> QED BY <1>1, <1>2, <2>1 DEF Agrees
  <1>8. Agrees(y, 0) BY <1>1, <1>3, <1>4, <1>5, <1>6, <1>7 DEF Agrees
  <1> QED BY <1>8 DEF y

LEMMA AgreesAdd ==
  ASSUME NEW x \in OriTables, Agrees(x, 0), NEW t \in TIDs, x.idx[t] # 0,
         x.ent[x.idx[t]].st = "WaitRes"
  PROVE  Agrees(OriAdd(x, t), 0)
  <1> DEFINE y == OriAdd(x, t)
             i == x.idx[t]
  <1>1. /\ y \in OriTables /\ y.idx = x.idx /\ y.num = x.num
        /\ y.bm = x.bm \cup {t} /\ y.done = x.done + 1
        /\ \A j \in OriEntries :
             /\ y.ent[j].st = IF j = i THEN "Done" ELSE x.ent[j].st
             /\ y.ent[j].tid = x.ent[j].tid
    BY AddIs
  <1>2. i \in OriEntries /\ i \in Used(x) /\ x.ent[i].tid = t /\ i # 0
    BY UsedIs DEF Agrees
  <1> HIDE DEF y, i
  <1>3. x.ent[i].st = "WaitRes" BY DEF i
  <1>x. /\ \A j : j \in Used(x) <=> j \in OriEntries /\ x.ent[j].st # "NONE"
        /\ \A j : j \in DoneIn(x) <=> j \in OriEntries /\ x.ent[j].st = "Done"
    BY UsedIs
  <1>y. /\ \A j : j \in Used(y) <=> j \in OriEntries /\ y.ent[j].st # "NONE"
        /\ \A j : j \in DoneIn(y) <=> j \in OriEntries /\ y.ent[j].st = "Done"
    BY <1>1, UsedIs
  <1>4. /\ Used(y) = Used(x) /\ DoneIn(y) = DoneIn(x) \cup {i} /\ i \notin DoneIn(x)
    <2>1. /\ \A j : j \in Used(y) <=> j \in Used(x)
          /\ \A j : j \in DoneIn(y) <=> j \in DoneIn(x) \cup {i}
      BY <1>1, <1>2, <1>3, <1>x, <1>y
    <2>2. i \notin DoneIn(x) BY <1>3, <1>x
    <2> QED BY <2>1, <2>2
  <1>5. Cardinality(DoneIn(y)) = x.done + 1
    <2>1. x.done = Cardinality(DoneIn(x)) /\ IsFiniteSet(DoneIn(x))
      BY UsedIs DEF Agrees
    <2> QED BY <1>4, <2>1, FS_AddElement
  <1>6. \A j \in Used(x) : y.ent[j].tid = x.ent[j].tid BY <1>1, UsedIs
  <1>7. y.bm = {y.ent[j].tid : j \in DoneIn(y)}
    <2>1. \A j \in DoneIn(x) : y.ent[j].tid = x.ent[j].tid BY <1>1, UsedIs
    <2>2. y.ent[i].tid = t BY <1>1, <1>2
    <2>3. x.bm = {x.ent[j].tid : j \in DoneIn(x)} BY DEF Agrees
    <2> QED BY <1>1, <1>4, <2>1, <2>2, <2>3
  <1>8. /\ \A j \in Used(y) : y.idx[y.ent[j].tid] = j
        /\ \A u \in TIDs : y.idx[u] # 0 =>
             y.idx[u] \in Used(y) /\ y.ent[y.idx[u]].tid = u
    <2>1. \A j \in Used(x) : x.idx[x.ent[j].tid] = j
      BY UsedIs, Constants DEF Agrees
    <2> QED BY <1>1, <1>4, <1>6, <2>1 DEF Agrees
  <1>9. Agrees(y, 0) BY <1>1, <1>4, <1>5, <1>7, <1>8 DEF Agrees
  <1> QED BY <1>9 DEF y

-----------------------------------------------------------------------------
(* What they keep of the timers.  A timer expires: *)
LEMMA TimedFires ==
  ASSUME NEW x \in OriTables, NEW q \in Seq(OriEntries), NEW n, NEW b,
         Timed(x, q, n, b), NEW i \in OriEntries, x.ent[i].pend
  PROVE  Timed(RTMPCancelTimer(x, i), Append(q, i), n, b)
  <1> DEFINE y == RTMPCancelTimer(x, i)
             p == Append(q, i)
  <1>1. /\ y \in OriTables /\ SameBut(x, y)
        /\ \A j \in OriEntries : /\ y.ent[j].valid = x.ent[j].valid
                                 /\ y.ent[j].pend <=> x.ent[j].pend /\ j # i
    BY CancelIs
  <1>2. /\ p \in Seq(OriEntries) /\ Len(p) = Len(q) + 1 /\ Len(q) \in Nat
        /\ \A j \in 1..Len(q) : p[j] = q[j]
        /\ p[Len(q) + 1] = i
    OBVIOUS
  <1> HIDE DEF y, p
  <1>3. \A j : j \in ToSet(p) <=> j \in ToSet(q) \/ j = i
    <2>1. /\ \A j : j \in ToSet(p) <=> \E k \in 1..Len(p) : p[k] = j
          /\ \A j : j \in ToSet(q) <=> \E k \in 1..Len(q) : q[k] = j
      BY <1>2, InToSet
    <2>2. 1..Len(p) = (1..Len(q)) \cup {Len(q) + 1} BY <1>2
    <2> QED BY <1>2, <2>1, <2>2
  <1>4. i \notin ToSet(q) /\ i # n BY DEF Timed
  <1>5. Distinct(p)
    <2>1. \A k \in 1..Len(q) : q[k] # i BY <1>4, InToSet
    <2>2. ASSUME NEW j \in 1..Len(p), NEW k \in 1..Len(p), p[j] = p[k] PROVE j = k
      <3>1. /\ j \in 1..Len(q) \/ j = Len(q) + 1
            /\ k \in 1..Len(q) \/ k = Len(q) + 1
        BY <1>2
      <3>2. Distinct(q) BY DEF Timed
      <3> QED BY <1>2, <2>1, <2>2, <3>1, <3>2 DEF Distinct
    <2> QED BY <2>2 DEF Distinct
  <1>6. \A j \in OriEntries : y.ent[j].st = x.ent[j].st BY <1>1 DEF SameBut
  <1>7. Timed(y, p, n, b) BY <1>1, <1>3, <1>4, <1>5, <1>6 DEF Timed
  <1> QED BY <1>7 DEF y, p

(* its handler is about to run, *)
LEMMA TimedHandled ==
  ASSUME NEW x \in OriTables, NEW q \in Seq(OriEntries), q # <<>>, Timed(x, q, 0, 0)
  PROVE  Timed(x, Tail(q), Head(q), 0)
  <1> DEFINE p == Tail(q)
             n == Head(q)
  <1>1. /\ p \in Seq(OriEntries) /\ Len(q) \in Nat /\ Len(q) >= 1 /\ n = q[1]
        /\ Len(p) = Len(q) - 1 /\ \A j \in 1..Len(p) : p[j] = q[j + 1]
        /\ n \in OriEntries
    OBVIOUS
  <1> HIDE DEF p, n
  <1>2. Distinct(q) BY DEF Timed
  <1>3. /\ \A j : j \in ToSet(p) <=> \E k \in 1..Len(p) : p[k] = j
        /\ \A j : j \in ToSet(q) <=> \E k \in 1..Len(q) : q[k] = j
    BY <1>1, InToSet
  <1>4. \A k \in 1..Len(q) : k = 1 \/ \E m \in 1..Len(p) : p[m] = q[k]
    <2> TAKE k \in 1..Len(q)
    <2> DEFINE l == k - 1
    <2>1. (k = 1 \/ l \in 1..Len(p)) /\ l + 1 = k BY <1>1
    <2> HIDE DEF l
    <2>2. l \in 1..Len(p) => p[l] = q[l + 1] BY <1>1
    <2>3. l \in 1..Len(p) => p[l] = q[k] BY <2>1, <2>2
    <2> QED BY <2>1, <2>3
  <1>5. \A k \in 1..Len(p) : k + 1 \in 1..Len(q) /\ 1 \in 1..Len(q) /\ k + 1 # 1
    BY <1>1
  <1>6. n \notin ToSet(p) BY <1>1, <1>2, <1>3, <1>5 DEF Distinct
  <1>7. \A j : j \in ToSet(q) <=> j \in ToSet(p) \/ j = n
    <2>1. 1 \in 1..Len(q) BY <1>1
    <2> QED BY <1>1, <1>3, <1>4, <1>5, <2>1
  <1>8. Distinct(p)
    <2>1. ASSUME NEW j \in 1..Len(p), NEW k \in 1..Len(p), p[j] = p[k] PROVE j = k
      <3>1. j + 1 = k + 1 BY <1>1, <1>2, <1>5, <2>1 DEF Distinct
      <3> QED BY <3>1
    <2> QED BY <2>1 DEF Distinct
  <1>9. \A j \in OriEntries : j # 0 BY Constants
  <1>10. Timed(x, p, n, 0) BY <1>6, <1>7, <1>8, <1>9 DEF Timed
  <1> QED BY <1>10 DEF p, n

(* it sets the timer again, *)
LEMMA TimedAgain ==
  ASSUME NEW x \in OriTables, NEW y \in OriTables, NEW q \in Seq(OriEntries),
         NEW i \in OriEntries, Timed(x, q, i, 0), SameBut(x, y),
         \A j \in OriEntries : /\ y.ent[j].valid = x.ent[j].valid
                               /\ y.ent[j].pend <=> \/ x.ent[j].pend
                                                    \/ j = i /\ x.ent[i].valid
  PROVE  Timed(y, q, 0, 0)
  <1>1. x.ent[i].st = "WaitRes" /\ x.ent[i].valid /\ i \notin ToSet(q)
    BY DEF Timed
  <1>2. \A j \in OriEntries : j # 0 /\ y.ent[j].st = x.ent[j].st
    BY Constants DEF SameBut
  <1>3. 0 \notin ToSet(q) BY InToSet, Constants
  <1> QED BY <1>1, <1>2, <1>3 DEF Timed

(* or gives the entry up; *)
LEMMA TimedFrees ==
  ASSUME NEW x \in OriTables, NEW y \in OriTables, NEW q \in Seq(OriEntries),
         NEW i \in OriEntries, Timed(x, q, i, 0), y.ent = x.ent
  PROVE  Timed(y, q, 0, i)
  <1>1. \A j \in OriEntries : j # 0 BY Constants
  <1>2. 0 \notin ToSet(q) BY InToSet, Constants
  <1> QED BY <1>1, <1>2 DEF Timed

(* others cancel it, to give the entry up *)
LEMMA TimedDown ==
  ASSUME NEW x \in OriTables, NEW y \in OriTables, NEW q \in Seq(OriEntries),
         NEW i \in OriEntries, Timed(x, q, 0, 0),
         \A j \in OriEntries : /\ y.ent[j].st = x.ent[j].st
                               /\ y.ent[j].valid = x.ent[j].valid
                               /\ y.ent[j].pend <=> x.ent[j].pend /\ j # i
  PROVE  Timed(y, RtmpTimerQRemove(q, i), 0, i)
  <1> DEFINE p == RtmpTimerQRemove(q, i)
  <1>1. Distinct(q) BY DEF Timed
  <1>2. /\ p \in Seq(OriEntries) /\ Distinct(p) /\ i \notin ToSet(p)
        /\ \A j : j # i => (j \in ToSet(p) <=> j \in ToSet(q))
    BY <1>1, Removed
  <1> HIDE DEF p
  <1>3. \A j \in OriEntries : j # 0 BY Constants
  <1>4. 0 \notin ToSet(p) BY <1>2, InToSet, Constants
  <1>5. Timed(y, p, 0, i) BY <1>2, <1>3, <1>4 DEF Timed
  <1> QED BY <1>5 DEF p

(* or because the response is there. *)
LEMMA TimedAdd ==
  ASSUME NEW x \in OriTables, NEW y \in OriTables, NEW q \in Seq(OriEntries),
         NEW i \in OriEntries, Timed(x, q, 0, 0),
         \A j \in OriEntries : /\ y.ent[j].st = IF j = i THEN "Done" ELSE x.ent[j].st
                               /\ y.ent[j].valid = x.ent[j].valid
                               /\ y.ent[j].pend <=> x.ent[j].pend /\ j # i
  PROVE  Timed(y, RtmpTimerQRemove(q, i), 0, 0)
  <1> DEFINE p == RtmpTimerQRemove(q, i)
  <1>1. Distinct(q) BY DEF Timed
  <1>2. /\ p \in Seq(OriEntries) /\ Distinct(p) /\ i \notin ToSet(p)
        /\ \A j : j # i => (j \in ToSet(p) <=> j \in ToSet(q))
    BY <1>1, Removed
  <1> HIDE DEF p
  <1>3. \A j \in OriEntries : j # 0 BY Constants
  <1>4. 0 \notin ToSet(p) BY <1>2, InToSet, Constants
  <1>5. Timed(y, p, 0, 0) BY <1>2, <1>3, <1>4 DEF Timed
  <1> QED BY <1>5 DEF p

LEMMA TimedLocked ==
  ASSUME NEW x \in OriTables, NEW y \in OriTables, NEW q \in Seq(OriEntries),
         NEW n, NEW i \in OriEntries, Timed(x, q, n, i),
         \A j \in OriEntries : /\ y.ent[j].st = IF j = i THEN "NONE" ELSE x.ent[j].st
                               /\ y.ent[j].valid = x.ent[j].valid
                               /\ y.ent[j].pend = x.ent[j].pend
  PROVE  Timed(y, q, n, 0)
  <1>1. \A j \in OriEntries : j # 0 BY Constants
  <1> QED BY <1>1 DEF Timed

LEMMA TimedSetUp ==
  ASSUME NEW x \in OriTables, NEW y \in OriTables, NEW q \in Seq(OriEntries),
         NEW e \in OriEntries, Timed(x, q, 0, 0), x.ent[e].st = "NONE",
         y.ent[e].st = "WaitRes", y.ent[e].valid, y.ent[e].pend,
         \A j \in OriEntries : j # e => /\ y.ent[j].st = x.ent[j].st
                                        /\ y.ent[j].valid = x.ent[j].valid
                                        /\ y.ent[j].pend = x.ent[j].pend
  PROVE  Timed(y, q, 0, 0)
  <1>1. \A j \in OriEntries : j # 0 BY Constants
  <1> QED BY <1>1 DEF Timed

-----------------------------------------------------------------------------
(* The table of sessions as recipient *)
RecAgrees(x) ==
  /\ x.num = Cardinality(Used(x))
  /\ \A i \in Used(x) : x.idx[x.ent[i].tid] = i
  /\ \A t \in TIDs : x.idx[t] # 0 =>
       x.idx[t] \in Used(x) /\ x.ent[x.idx[t]].tid = t
  /\ x.bm = {t \in TIDs : x.idx[t] # 0}

LEMMA RecFields ==
  ASSUME NEW x \in RecTables
  PROVE  /\ DOMAIN x.ent = RecEntries
         /\ x.idx \in [TIDs -> 0..RecLen - 1] /\ x.bm \subseteq TIDs /\ x.num \in Int
         /\ \A i \in RecEntries :
              /\ x.ent[i] \in [st : {"NONE", "Accept"}, tid : TIDs]
              /\ x.ent[i].st \in {"NONE", "Accept"} /\ x.ent[i].tid \in TIDs
  BY DEF RecTables

LEMMA RecUsedIs ==
  ASSUME NEW x \in RecTables
  PROVE  /\ \A i : i \in Used(x) <=> i \in RecEntries /\ x.ent[i].st # "NONE"
         /\ IsFiniteSet(Used(x)) /\ Cardinality(Used(x)) \in 0..RecLen - 1
  <1>1. \A i : i \in Used(x) <=> i \in RecEntries /\ x.ent[i].st # "NONE"
    BY RecFields DEF Used
  <1>2. IsFiniteSet(RecEntries) /\ Cardinality(RecEntries) = RecLen - 1
    <2>1. 1 \in Int /\ RecLen - 1 \in Int BY Constants
    <2>2. /\ IsFiniteSet(1..RecLen - 1)
          /\ Cardinality(1..RecLen - 1) = IF 1 > RecLen - 1 THEN 0
                                          ELSE (RecLen - 1) - 1 + 1
      BY <2>1, FS_Interval
    <2> QED BY <2>2, Constants DEF RecEntries
  <1>3. Used(x) \in SUBSET RecEntries BY <1>1
  <1>4. IsFiniteSet(Used(x)) /\ Cardinality(Used(x)) <= RecLen - 1
    BY <1>2, <1>3, FS_Subset
  <1>5. Cardinality(Used(x)) \in Nat BY <1>4, FS_CardinalityType
  <1> QED BY <1>1, <1>4, <1>5, Constants

(* The end of a session *)
LEMMA RecEnds ==
  ASSUME NEW x \in RecTables, RecAgrees(x), NEW t \in TIDs, x.idx[t] # 0
  PROVE  RecEnd(x, t) \in RecTables /\ RecAgrees(RecEnd(x, t))
  <1> DEFINE i == x.idx[t]
             z == [x EXCEPT !.bm = @ \ {t}, !.idx[t] = 0]
             f == [x.idx EXCEPT ![t] = 0]
             y == RecEnd(x, t)
             c == [x.ent[i] EXCEPT !.st = "NONE"]
  <1>1. i \in Used(x) /\ i \in RecEntries /\ x.ent[i].tid = t /\ i # 0
    BY RecUsedIs DEF RecAgrees
  <1>2. z = [x EXCEPT !.bm = x.bm \ {t}, !.idx = f] BY DEF RecTables
  <1>3. /\ f \in [TIDs -> 0..RecLen - 1]
        /\ \A u \in TIDs : f[u] = IF u = t THEN 0 ELSE x.idx[u]
    BY RecFields, Constants
  <1>4. y = BATableFreeRecEntry(z, i) BY DEF RecEnd
  <1>5. /\ c \in [st : {"NONE", "Accept"}, tid : TIDs] /\ c.st = "NONE"
        /\ c.tid = x.ent[i].tid
    BY <1>1, RecFields
  <1> HIDE DEF i, z, f, y, c
  <1>6. /\ z \in RecTables /\ z.ent = x.ent /\ z.idx = f /\ z.num = x.num
        /\ z.bm = x.bm \ {t}
    BY <1>2, <1>3 DEF RecTables
  <1>7. /\ [f EXCEPT ![t] = 0] = f
        /\ x.num - 1 \in Int
    BY <1>3, RecFields
  <1>8. y = [z EXCEPT !.idx = [f EXCEPT ![t] = 0], !.num = x.num - 1,
                      !.ent = [x.ent EXCEPT ![i] = c]]
    BY <1>1, <1>4, <1>6 DEF BATableFreeRecEntry, RecTables, c
  <1>9. /\ y \in RecTables /\ y.idx = f /\ y.num = x.num - 1 /\ y.bm = x.bm \ {t}
        /\ \A j \in RecEntries : y.ent[j] = IF j = i THEN c ELSE x.ent[j]
    BY <1>1, <1>3, <1>5, <1>6, <1>7, <1>8 DEF RecTables
  <1>10. \A u \in TIDs : y.idx[u] = IF u = t THEN 0 ELSE x.idx[u] BY <1>3, <1>9
  <1>x. \A j : j \in Used(x) <=> j \in RecEntries /\ x.ent[j].st # "NONE"
    BY RecUsedIs
  <1>y. \A j : j \in Used(y) <=> j \in RecEntries /\ y.ent[j].st # "NONE"
    BY <1>9, RecUsedIs
  <1>11. Used(y) = Used(x) \ {i}
    <2>1. \A j : j \in Used(y) <=> j \in Used(x) \ {i} BY <1>5, <1>9, <1>x, <1>y
    <2> QED BY <2>1
  <1>12. Cardinality(Used(y)) = x.num - 1
    <2>1. x.num = Cardinality(Used(x)) /\ IsFiniteSet(Used(x))
      BY RecUsedIs DEF RecAgrees
    <2> QED BY <1>1, <1>11, <2>1, FS_RemoveElement
  <1>13. ASSUME NEW j \in Used(y) PROVE y.idx[y.ent[j].tid] = j
    <2>1. j \in Used(x) /\ j # i /\ j \in RecEntries BY <1>11, <1>x
    <2>2. x.idx[x.ent[j].tid] = j /\ x.ent[j].tid \in TIDs
      BY <2>1, RecFields DEF RecAgrees
    <2>3. x.ent[j].tid # t BY <2>1, <2>2 DEF i
    <2> QED BY <1>9, <1>10, <2>1, <2>2, <2>3
  <1>14. ASSUME NEW u \in TIDs, y.idx[u] # 0
         PROVE  y.idx[u] \in Used(y) /\ y.ent[y.idx[u]].tid = u
    <2>1. u # t /\ y.idx[u] = x.idx[u] BY <1>10, <1>14
    <2>2. x.idx[u] \in Used(x) /\ x.ent[x.idx[u]].tid = u
      BY <1>14, <2>1 DEF RecAgrees
    <2>3. x.idx[u] # i /\ x.idx[u] \in RecEntries BY <1>1, <1>x, <2>1, <2>2
    <2> QED BY <1>9, <1>11, <2>1, <2>2, <2>3
  <1>15. y.bm = {u \in TIDs : y.idx[u] # 0}
    <2>1. x.bm = {u \in TIDs : x.idx[u] # 0} BY DEF RecAgrees
    <2> QED BY <1>9, <1>10, <2>1
  <1>16. RecAgrees(y) BY <1>9, <1>12, <1>13, <1>14, <1>15 DEF RecAgrees
  <1> QED BY <1>9, <1>16 DEF y

(* A request is granted: the TID has an entry, an old or a new one. *)
LEMMA RecAdds ==
  ASSUME NEW x \in RecTables, RecAgrees(x), NEW t \in TIDs
  PROVE  RecAdd(x, t) \in RecTables /\ RecAgrees(RecAdd(x, t))
  <1> DEFINE a == IF x.idx[t] # 0 THEN [e |-> x.idx[t], i |-> x.idx[t]]
                  ELSE BATableAllocRecEntry(x)
             c == [st |-> "Accept", tid |-> t]
             n == IF x.idx[t] = 0 /\ a.i # 0 THEN x.num + 1 ELSE x.num
             y == RecAdd(x, t)
  <1>0. RecLen - 1 \in Nat /\ RecEntries = 1..RecLen - 1
    BY Constants DEF RecEntries
  <1>1. a.e # 0 => /\ a.i = a.e /\ a.e \in RecEntries
                   /\ x.idx[t] = 0 => x.ent[a.e].st = "NONE"
                   /\ x.idx[t] # 0 => a.e = x.idx[t] /\ x.ent[a.e].st # "NONE"
                                      /\ x.ent[a.e].tid = t
    <2>1. CASE x.idx[t] # 0
      <3>1. a = [e |-> x.idx[t], i |-> x.idx[t]] BY <2>1
      <3>2. x.idx[t] \in Used(x) /\ x.ent[x.idx[t]].tid = t BY <2>1 DEF RecAgrees
      <3>3. x.idx[t] \in RecEntries /\ x.ent[x.idx[t]].st # "NONE"
        BY <3>2, RecUsedIs
      <3> HIDE DEF a
      <3> QED BY <2>1, <3>1, <3>2, <3>3
    <2>2. CASE x.idx[t] = 0
      <3>1. a = AllocEntry(x.ent, x.num, RecLen - 1)
        BY <2>2 DEF BATableAllocRecEntry
      <3>2. DOMAIN x.ent = 1..RecLen - 1 BY <1>0, RecFields
      <3>3. Used(x) = {i \in 1..RecLen - 1 : x.ent[i].st # "NONE"}
        BY <3>2 DEF Used
      <3>4. x.num = Cardinality({i \in 1..RecLen - 1 : x.ent[i].st # "NONE"})
        BY <3>3 DEF RecAgrees
      <3> DEFINE v == AllocEntry(x.ent, x.num, RecLen - 1)
      <3>5. v.e # 0 => v.i = v.e /\ v.e \in 1..RecLen - 1 /\ x.ent[v.e].st = "NONE"
        BY <1>0, <3>2, <3>4, AllocIs
      <3> HIDE DEF a, v
      <3>6. a = v BY <3>1 DEF v
      <3> QED BY <1>0, <2>2, <3>5, <3>6
    <2> QED BY <2>1, <2>2
  <1>2. CASE a.e = 0
    <2>1. y = x BY <1>2 DEF RecAdd
    <2> QED BY <2>1
  <1>3. CASE a.e # 0
    <2> DEFINE e == a.e
               f == [x.idx EXCEPT ![t] = e]
    <2>1. y = [x EXCEPT !.idx = f, !.bm = x.bm \cup {t}, !.num = n,
                        !.ent = [x.ent EXCEPT ![e] = c]]
      <3>1. y = [x EXCEPT !.idx[t] = a.i, !.bm = @ \cup {t},
                          !.num = IF x.idx[t] = 0 /\ a.i # 0 THEN @ + 1 ELSE @,
                          !.ent[a.e] = [st |-> "Accept", tid |-> t]]
        BY <1>3 DEF RecAdd
      <3>2. a.i = e BY <1>1, <1>3
      <3> HIDE DEF a, y
      <3> QED BY <3>1, <3>2 DEF RecTables
    <2>2. e \in RecEntries /\ e # 0 /\ e \in 0..RecLen - 1 /\ a.i = e
      BY <1>1, <1>3, Constants
    <2>3. n = (IF x.idx[t] = 0 THEN x.num + 1 ELSE x.num) /\ n \in Int
      BY <2>2, RecFields
    <2>4. c \in [st : {"NONE", "Accept"}, tid : TIDs] /\ c.st = "Accept" /\ c.tid = t
      OBVIOUS
    <2>5. /\ x.idx[t] = 0 => x.ent[e].st = "NONE"
          /\ x.idx[t] # 0 => e = x.idx[t] /\ x.ent[e].st # "NONE" /\ x.ent[e].tid = t
      BY <1>1, <1>3
    <2> HIDE DEF a, e, n, c, y
    <2>6. /\ f \in [TIDs -> 0..RecLen - 1]
          /\ \A u \in TIDs : f[u] = IF u = t THEN e ELSE x.idx[u]
      BY <2>2, RecFields
    <2>7. x.bm \cup {t} \in SUBSET TIDs BY RecFields
    <2> HIDE DEF f
    <2>8. /\ y \in RecTables /\ y.idx = f /\ y.num = n /\ y.bm = x.bm \cup {t}
          /\ \A j \in RecEntries : y.ent[j] = IF j = e THEN c ELSE x.ent[j]
      BY <2>1, <2>2, <2>3, <2>4, <2>6, <2>7 DEF RecTables
    <2>9. \A u \in TIDs : y.idx[u] = IF u = t THEN e ELSE x.idx[u] BY <2>6, <2>8
    <2>x. \A j : j \in Used(x) <=> j \in RecEntries /\ x.ent[j].st # "NONE"
      BY RecUsedIs
    <2>y. \A j : j \in Used(y) <=> j \in RecEntries /\ y.ent[j].st # "NONE"
      BY <2>8, RecUsedIs
    <2>10. Used(y) = Used(x) \cup {e}
      <3>1. \A j : j \in Used(y) <=> j \in Used(x) \cup {e}
        BY <2>2, <2>4, <2>8, <2>x, <2>y
      <3> QED BY <3>1
    <2>11. Cardinality(Used(y)) = n
      <3>1. x.num = Cardinality(Used(x)) /\ IsFiniteSet(Used(x))
        BY RecUsedIs DEF RecAgrees
      <3>2. e \in Used(x) <=> x.idx[t] # 0 BY <2>2, <2>5, <2>x
      <3> QED BY <2>3, <2>10, <3>1, <3>2, FS_AddElement
    <2>12. ASSUME NEW j \in Used(y) PROVE y.idx[y.ent[j].tid] = j
      <3>1. CASE j = e BY <2>2, <2>4, <2>8, <2>9, <3>1
      <3>2. CASE j # e
        <4>1. j \in Used(x) /\ j \in RecEntries BY <2>10, <2>x, <3>2
        <4>2. x.idx[x.ent[j].tid] = j /\ x.ent[j].tid \in TIDs /\ j # 0
          BY <4>1, RecFields, Constants DEF RecAgrees
        <4>3. x.ent[j].tid # t BY <2>5, <3>2, <4>2
        <4> QED BY <2>8, <2>9, <3>2, <4>1, <4>2, <4>3
      <3> QED BY <3>1, <3>2
    <2>13. ASSUME NEW u \in TIDs, y.idx[u] # 0
           PROVE  y.idx[u] \in Used(y) /\ y.ent[y.idx[u]].tid = u
      <3>1. CASE u = t BY <2>2, <2>4, <2>8, <2>9, <2>10, <3>1
      <3>2. CASE u # t
        <4>1. /\ y.idx[u] = x.idx[u] /\ x.idx[u] \in Used(x)
              /\ x.ent[x.idx[u]].tid = u
          BY <2>9, <2>13, <3>2 DEF RecAgrees
        <4>2. x.idx[u] \in RecEntries /\ x.idx[u] # e BY <2>5, <2>x, <3>2, <4>1
        <4> QED BY <2>8, <2>10, <4>1, <4>2
      <3> QED BY <3>1, <3>2
    <2>14. y.bm = {u \in TIDs : y.idx[u] # 0}
      <3>1. x.bm = {u \in TIDs : x.idx[u] # 0} BY DEF RecAgrees
      <3> QED BY <2>2, <2>8, <2>9, <3>1
    <2>15. RecAgrees(y) BY <2>8, <2>11, <2>12, <2>13, <2>14 DEF RecAgrees
    <2> QED BY <2>8, <2>15 DEF y
  <1> QED BY <1>2, <1>3

-----------------------------------------------------------------------------
(* Messages and frames *)
LEMMA FrameTypes ==
  /\ \A t \in TIDs : REQ(t) \in Frame /\ ADDBA(t) \in Messages
  /\ \A t \in TIDs, ok \in BOOLEAN : RSP(t, ok) \in Frame
  /\ \A t \in TIDs, i \in {"ORIGINATOR", "RECIPIENT"} : DEL(t, i) \in Frame
  /\ Frame \subseteq Messages
  BY DEF Frame, Messages

LEMMA FrameTid == \A m \in Messages : m.t \in TIDs
  <1> TAKE m \in Messages
  <1>1. CASE \E t \in TIDs : m = REQ(t) BY <1>1 DEF REQ
  <1>2. CASE \E t \in TIDs, ok \in BOOLEAN : m = RSP(t, ok) BY <1>2 DEF RSP
  <1>3. CASE \E t \in TIDs, i \in {"ORIGINATOR", "RECIPIENT"} : m = DEL(t, i)
    BY <1>3 DEF DEL
  <1>4. CASE \E t \in TIDs : m = ADDBA(t) BY <1>4 DEF ADDBA
  <1> QED BY <1>1, <1>2, <1>3, <1>4 DEF Messages, Frame

LEMMA Queued ==
  ASSUME NEW S, NEW q \in Seq(S)
  PROVE  /\ \A m \in S : Append(q, m) \in Seq(S)
         /\ q # <<>> => Head(q) \in S /\ Tail(q) \in Seq(S)
  OBVIOUS

(* A frame is sent to the peer, or the peer sends one. *)
LEMMA SendType ==
  ASSUME Shapes, NEW f \in Frame
  PROVE  (Send(f) => out' \in Seq(Frame)) /\ (PeerSays(f) => mq' \in Seq(Messages))
  BY FrameTypes, Queued DEF Shapes, Send, PeerSays

LEMMA HandleType ==
  ASSUME Shapes, NEW k, Handle(k)
  PROVE  Head(mq) \in Messages /\ Head(mq).t \in TIDs /\ mq' \in Seq(Messages)
  BY FrameTid, Queued DEF Shapes, Handle

(* The first half of the end of a session as originator *)
LEMMA DownType ==
  ASSUME Shapes, NEW a \in Actors, NEW t \in TIDs, NEW passive \in BOOLEAN,
         NEW force \in BOOLEAN, OriDown(a, t, passive, force)
  PROVE  /\ o' \in OriTables /\ tq' \in Seq(OriEntries) /\ out' \in Seq(Frame)
         /\ fr' \in [Actors -> 0..OriLen - 1]
  <1> DEFINE i == o.idx[t]
  <1>1. i \in 0..OriLen - 1 BY OriFields DEF Shapes
  <1>2. DEL(t, "ORIGINATOR") \in Frame BY FrameTypes
  <1>3. Send(DEL(t, "ORIGINATOR")) => out' \in Seq(Frame) BY <1>2, SendType
  <1>4. CASE i = 0
    BY <1>3, <1>4 DEF OriDown, Shapes
  <1>5. CASE i # 0
    <2>1. i \in OriEntries BY <1>1, <1>5, Constants
    <2> DEFINE z == RTMPCancelTimer(o, i)
    <2>2. z \in OriTables BY <2>1, CancelIs DEF Shapes
    <2>3. FreeOriEnter(z, i) \in OriTables BY <2>1, <2>2, EnterIs
    <2>4. RtmpTimerQRemove(tq, i) \in Seq(OriEntries) BY Removed DEF Shapes
    <2>5. out' \in Seq(Frame) BY <1>3, <1>5 DEF OriDown, Shapes
    <2>6. /\ o' = FreeOriEnter(z, i) \/ o' = z
          /\ tq' = RtmpTimerQRemove(tq, i)
          /\ fr' = [fr EXCEPT ![a] = IF o.ent[i].st # "NONE" THEN i ELSE 0]
      BY <1>5 DEF OriDown
    <2> HIDE DEF i, z
    <2>7. fr' \in [Actors -> 0..OriLen - 1] BY <1>1, <2>6, Constants DEF Shapes
    <2> QED BY <2>2, <2>3, <2>4, <2>5, <2>6, <2>7
  <1> QED BY <1>4, <1>5

-----------------------------------------------------------------------------
(* The queues and tables keep their shapes and the table of sessions as      *)
(* recipient agrees with its indices, whether or not threads preempt each    *)
(* other.                                                                    *)
RecInv == Shapes /\ RecAgrees(r)

LEMMA RecInit == Init => RecInv
  <1> SUFFICES ASSUME Init PROVE RecInv OBVIOUS
  <1> USE Constants
  <1>1. 0 \in 0..OriLen - 1 /\ 0 \in 0..RecLen - 1 /\ NumTid \in 0..NumTid
        /\ 0 \in 0..ORI_SESSION_MAX_RETRY
    OBVIOUS
  <1>2. o \in OriTables BY <1>1 DEF Init, OriTables, Sessions
  <1>3. r \in RecTables BY <1>1 DEF Init, RecTables
  <1>4. /\ tq \in Seq(OriEntries) /\ mq \in Seq(Messages) /\ out \in Seq(Frame)
        /\ trun \in 0..OriLen - 1 /\ fr \in [Actors -> 0..OriLen - 1]
        /\ td \in 0..NumTid
    BY <1>1 DEF Init
  <1>5. peer \in Peers BY DEF Init, Peers
  <1>6. \A i : i \notin Used(r) BY DEF Init, Used
  <1>7. Used(r) = {} /\ Cardinality(Used(r)) = 0 BY <1>6, FS_EmptySet
  <1>8. r.num = 0 /\ r.bm = {} /\ \A t \in TIDs : r.idx[t] = 0 BY DEF Init
  <1>9. RecAgrees(r) BY <1>7, <1>8 DEF RecAgrees
  <1> QED BY <1>2, <1>3, <1>4, <1>5, <1>9 DEF RecInv, Shapes

LEMMA SetUpType ==
  ASSUME Shapes, NEW t \in TIDs, BAOriSessionSetUp(t)
  PROVE  o' \in OriTables /\ tq' \in Seq(OriEntries)
  <1> DEFINE a == IF o.idx[t] # 0 THEN [e |-> o.idx[t], i |-> o.idx[t]]
                  ELSE BATableAllocOriEntry(o)
  <1>1. o \in OriTables /\ tq \in Seq(OriEntries) BY DEF Shapes
  <1>2. /\ a.e # 0 /\ o' = SetUpEntry(o, t, a.e, a.i)
        /\ tq' = tq \/ tq' = RtmpTimerQRemove(tq, a.e)
    BY DEF BAOriSessionSetUp
  <1>3. a.e \in 0..OriLen - 1 /\ a.i \in 0..OriLen - 1
    <2>1. CASE o.idx[t] # 0 BY <1>1, <2>1, OriFields
    <2>2. CASE o.idx[t] = 0
      <3>1. OriLen - 1 \in Nat /\ DOMAIN o.ent = 1..OriLen - 1 /\ o.num \in Int
        BY <1>1, OriFields, Constants DEF OriEntries
      <3>2. a = AllocEntry(o.ent, o.num, OriLen - 1)
        BY <2>2 DEF BATableAllocOriEntry
      <3> HIDE DEF a
      <3> QED BY <3>1, <3>2, AllocType
    <2> QED BY <2>1, <2>2
  <1> HIDE DEF a
  <1>4. a.e \in OriEntries BY <1>2, <1>3, Constants
  <1>5. SetUpEntry(o, t, a.e, a.i) \in OriTables BY <1>1, <1>3, <1>4, SetUpIs
  <1> QED BY <1>1, <1>2, <1>5, Removed

LEMMA TimeoutType ==
  ASSUME Shapes, BAOriSessionSetupTimeout
  PROVE  o' \in OriTables /\ mq' \in Seq(Messages) /\ fr' \in [Actors -> 0..OriLen - 1]
  <1>1. /\ o \in OriTables /\ fr \in [Actors -> 0..OriLen - 1] /\ mq \in Seq(Messages)
        /\ trun \in OriEntries
    BY Constants DEF Shapes, BAOriSessionSetupTimeout
  <1>2. CASE Retries(trun)
    <2>1. /\ o' = Resend(o, trun) /\ fr' = fr
          /\ mq' = mq \/ mq' = Append(mq, ADDBA(o.ent[trun].tid))
      BY <1>2 DEF BAOriSessionSetupTimeout
    <2>2. o.ent[trun].token < ORI_SESSION_MAX_RETRY BY <1>2 DEF Retries
    <2>3. Resend(o, trun) \in OriTables BY <1>1, <2>2, ResendIs
    <2>4. ADDBA(o.ent[trun].tid) \in Messages BY <1>1, OriFields, FrameTypes
    <2>5. Append(mq, ADDBA(o.ent[trun].tid)) \in Seq(Messages)
      BY <1>1, <2>4, Queued
    <2> QED BY <1>1, <2>1, <2>3, <2>5
  <1>3. CASE ~Retries(trun)
    <2> DEFINE i == o.idx[o.ent[trun].tid]
    <2>1. i \in 0..OriLen - 1 BY <1>1, OriFields
    <2>2. /\ mq' = mq
          /\ \/ o' = o /\ fr' = fr
             \/ i # 0 /\ o' = FreeOriEnter(o, i) /\ fr' = [fr EXCEPT !["timer"] = i]
      BY <1>3 DEF BAOriSessionSetupTimeout
    <2> HIDE DEF i
    <2>3. ASSUME i # 0 PROVE FreeOriEnter(o, i) \in OriTables
      <3>1. i \in OriEntries BY <2>1, <2>3, Constants
      <3> QED BY <1>1, <3>1, EnterIs
    <2> QED BY <1>1, <2>1, <2>2, <2>3
  <1> QED BY <1>2, <1>3

(* One TID of BASessionTearDownALL *)
LEMMA OneType ==
  ASSUME RecInv, NEW ori, NEW rec, TearDownOne(ori, rec)
  PROVE  /\ o' \in OriTables /\ tq' \in Seq(OriEntries) /\ td' \in 0..NumTid
         /\ out' \in Seq(Frame) /\ r' \in RecTables /\ RecAgrees(r')
  <1> DEFINE i == IF OriDone(td) /\ ori = "kept" THEN 0 ELSE o.idx[td]
             j == IF rec = "kept" THEN 0 ELSE r.idx[td]
             z == RTMPCancelTimer(o, i)
             w == FreeOriEnter(z, i)
             d == IF i # 0 /\ OriDone(td) /\ ori = "sent"
                  THEN <<DEL(td, "ORIGINATOR")>> ELSE <<>>
             e == IF j # 0 /\ rec = "sent" THEN <<DEL(td, "RECIPIENT")>> ELSE <<>>
  <1>1. /\ o \in OriTables /\ r \in RecTables /\ RecAgrees(r) /\ tq \in Seq(OriEntries)
        /\ out \in Seq(Frame) /\ td \in 0..NumTid
    BY DEF RecInv, Shapes
  <1>2. /\ td # NumTid /\ td' = td + 1
        /\ \/ i = 0 /\ o' = o /\ tq' = tq
           \/ /\ i # 0 /\ tq' = RtmpTimerQRemove(tq, i)
              /\ o' = z \/ o' = FreeOriLocked(w, i)
        /\ r' = IF j = 0 THEN r ELSE RecEnd(r, td)
        /\ out' = out \o d \o e
    BY DEF TearDownOne
  <1>3. td \in TIDs /\ td' \in 0..NumTid BY <1>1, <1>2, Constants DEF TIDs
  <1>4. i \in 0..OriLen - 1 BY <1>1, <1>3, OriFields, Constants
  <1>5. j = 0 \/ j = r.idx[td] OBVIOUS
  <1>6. out' \in Seq(Frame)
    <2>1. DEL(td, "ORIGINATOR") \in Frame /\ DEL(td, "RECIPIENT") \in Frame
      BY <1>3, FrameTypes
    <2>2. d \in Seq(Frame) /\ e \in Seq(Frame) BY <2>1
    <2> HIDE DEF d, e
    <2> QED BY <1>1, <1>2, <2>2
  <1> HIDE DEF i, j, d, e
  <1>7. o' \in OriTables /\ tq' \in Seq(OriEntries)
    <2>1. CASE i = 0 BY <1>1, <1>2, <2>1
    <2>2. CASE i # 0
      <3>1. i \in OriEntries BY <1>4, <2>2, Constants
      <3>2. z \in OriTables BY <1>1, <3>1, CancelIs
      <3>3. w \in OriTables BY <3>1, <3>2, EnterIs
      <3> HIDE DEF z, w
      <3>4. FreeOriLocked(w, i) \in OriTables BY <3>1, <3>3, LockedIs
      <3>5. RtmpTimerQRemove(tq, i) \in Seq(OriEntries) BY <1>1, Removed
      <3> QED BY <1>2, <2>2, <3>2, <3>4, <3>5
    <2> QED BY <2>1, <2>2
  <1>8. r' \in RecTables /\ RecAgrees(r')
    <2>1. CASE j = 0 BY <1>1, <1>2, <2>1
    <2>2. CASE j # 0
      <3>1. r.idx[td] # 0 BY <1>5, <2>2
      <3>2. RecEnd(r, td) \in RecTables /\ RecAgrees(RecEnd(r, td))
        BY <1>1, <1>3, <3>1, RecEnds
      <3> QED BY <1>2, <2>2, <3>2
    <2> QED BY <2>1, <2>2
  <1> QED BY <1>3, <1>6, <1>7, <1>8

LEMMA RspType ==
  ASSUME Shapes, PeerAddBARspAction
  PROVE  /\ o' \in OriTables /\ tq' \in Seq(OriEntries) /\ out' \in Seq(Frame)
         /\ fr' \in [Actors -> 0..OriLen - 1] /\ mq' \in Seq(Messages)
  <1> DEFINE t == Head(mq).t
  <1>1. t \in TIDs /\ mq' \in Seq(Messages) BY HandleType DEF PeerAddBARspAction
  <1>2. \/ /\ Awaited(t) /\ o' = OriAdd(o, t) /\ tq' = RtmpTimerQRemove(tq, o.idx[t])
           /\ fr' = fr /\ out' = out
        \/ OriDown("mlme", t, TRUE, FALSE)
        \/ o' = o /\ tq' = tq /\ fr' = fr /\ out' = out
    BY DEF PeerAddBARspAction
  <1> HIDE DEF t
  <1>3. CASE /\ Awaited(t) /\ o' = OriAdd(o, t)
             /\ tq' = RtmpTimerQRemove(tq, o.idx[t]) /\ fr' = fr /\ out' = out
    <2>1. o.idx[t] # 0 BY <1>3 DEF Awaited
    <2>2. OriAdd(o, t) \in OriTables BY <1>1, <2>1, AddIs DEF Shapes
    <2>3. RtmpTimerQRemove(tq, o.idx[t]) \in Seq(OriEntries) BY Removed DEF Shapes
    <2> QED BY <1>1, <1>3, <2>2, <2>3 DEF Shapes
  <1>4. CASE OriDown("mlme", t, TRUE, FALSE)
    <2>1. "mlme" \in Actors BY DEF Actors
    <2> QED BY <1>1, <1>4, <2>1, DownType
  <1>5. CASE o' = o /\ tq' = tq /\ fr' = fr /\ out' = out
    BY <1>1, <1>5 DEF Shapes
  <1> QED BY <1>2, <1>3, <1>4, <1>5

LEMMA DelType ==
  ASSUME RecInv, PeerDelBAAction
  PROVE  /\ o' \in OriTables /\ tq' \in Seq(OriEntries) /\ out' \in Seq(Frame)
         /\ fr' \in [Actors -> 0..OriLen - 1] /\ mq' \in Seq(Messages)
         /\ r' \in RecTables /\ RecAgrees(r')
  <1> DEFINE t == Head(mq).t
  <1>s. Shapes /\ RecAgrees(r) BY DEF RecInv
  <1>1. t \in TIDs /\ mq' \in Seq(Messages) BY <1>s, HandleType DEF PeerDelBAAction
  <1>2. \/ /\ r' = IF r.idx[t] = 0 THEN r ELSE RecEnd(r, t)
           /\ o' = o /\ tq' = tq /\ fr' = fr /\ out' = out
        \/ OriDown("mlme", t, TRUE, FALSE) /\ r' = r
        \/ o' = o /\ r' = r /\ tq' = tq /\ fr' = fr /\ out' = out
    BY DEF PeerDelBAAction
  <1> HIDE DEF t
  <1>3. CASE /\ r' = IF r.idx[t] = 0 THEN r ELSE RecEnd(r, t)
             /\ o' = o /\ tq' = tq /\ fr' = fr /\ out' = out
    <2>1. r.idx[t] # 0 => RecEnd(r, t) \in RecTables /\ RecAgrees(RecEnd(r, t))
      BY <1>s, <1>1, RecEnds DEF Shapes
    <2>2. r' \in RecTables /\ RecAgrees(r')
      <3>1. CASE r.idx[t] = 0 BY <1>s, <1>3, <3>1 DEF Shapes
      <3>2. CASE r.idx[t] # 0 BY <1>3, <2>1, <3>2
      <3> QED BY <3>1, <3>2
    <2> QED BY <1>s, <1>1, <1>3, <2>2 DEF Shapes
  <1>4. CASE OriDown("mlme", t, TRUE, FALSE) /\ r' = r
    <2>1. "mlme" \in Actors BY DEF Actors
    <2>2. RecAgrees(r') BY <1>s, <1>4
    <2> QED BY <1>s, <1>1, <1>4, <2>1, <2>2, DownType DEF Shapes
  <1>5. CASE o' = o /\ r' = r /\ tq' = tq /\ fr' = fr /\ out' = out
    <2>1. RecAgrees(r') BY <1>s, <1>5
    <2> QED BY <1>s, <1>1, <1>5, <2>1 DEF Shapes
  <1> QED BY <1>2, <1>3, <1>4, <1>5

(* The peer *)
LEMMA HearsType ==
  ASSUME Shapes, PeerHears
  PROVE  mq' \in Seq(Messages) /\ out' \in Seq(Frame) /\ peer' \in Peers
  <1> DEFINE f == Head(out)
  <1>1. f \in Frame /\ Tail(out) \in Seq(Frame) BY Queued DEF Shapes, PeerHears
  <1>2. f.t \in TIDs BY <1>1, FrameTid, FrameTypes
  <1>3. out' \in Seq(Frame) BY <1>1 DEF PeerHears
  <1>4. \/ mq' = mq
        \/ PeerSays(RSP(f.t, TRUE)) \/ PeerSays(RSP(f.t, FALSE))
    BY DEF PeerHears
  <1>5. mq' \in Seq(Messages)
    <2>1. RSP(f.t, TRUE) \in Frame /\ RSP(f.t, FALSE) \in Frame
      BY <1>2, FrameTypes
    <2>2. /\ PeerSays(RSP(f.t, TRUE)) => mq' \in Seq(Messages)
          /\ PeerSays(RSP(f.t, FALSE)) => mq' \in Seq(Messages)
      BY <2>1, SendType
    <2> QED BY <1>4, <2>2 DEF Shapes
  <1>6. peer' \in Peers
    <2> DEFINE s == CASE ~f.ok -> "none" [] f.ok /\ peer.ori[f.t] = "wait" -> "done"
                      [] OTHER -> peer.ori[f.t]
    <2>1. peer \in Peers /\ peer.rec \subseteq TIDs
          /\ peer.ori \in [TIDs -> {"none", "wait", "done"}]
      BY DEF Shapes, Peers
    <2>2. s \in {"none", "wait", "done"}
      <3>1. peer.ori[f.t] \in {"none", "wait", "done"} BY <1>2, <2>1
      <3> HIDE DEF f
      <3>2. CASE ~f.ok BY <3>2
      <3>3. CASE f.ok /\ peer.ori[f.t] = "wait" BY <3>3
      <3>4. CASE f.ok /\ peer.ori[f.t] # "wait" BY <3>1, <3>4
      <3> QED BY <3>2, <3>3, <3>4
    <2>3. \/ peer' = peer \/ peer' = [peer EXCEPT !.rec = @ \cup {f.t}]
          \/ peer' = [peer EXCEPT !.rec = @ \ {f.t}]
          \/ peer' = [peer EXCEPT !.ori[f.t] = s]
          \/ peer' = [peer EXCEPT !.ori[f.t] = "none"]
      BY DEF PeerHears
    <2> HIDE DEF s, f
    <2> QED BY <1>2, <2>1, <2>2, <2>3 DEF Peers
  <1> QED BY <1>3, <1>5, <1>6

LEMMA RecStep == RecInv /\ [Next]_vars => RecInv'
  <1> SUFFICES ASSUME RecInv, [Next]_vars PROVE RecInv' OBVIOUS
  <1>s. /\ Shapes /\ RecAgrees(r) /\ o \in OriTables /\ r \in RecTables
        /\ tq \in Seq(OriEntries) /\ trun \in 0..OriLen - 1
        /\ fr \in [Actors -> 0..OriLen - 1] /\ td \in 0..NumTid
        /\ mq \in Seq(Messages) /\ out \in Seq(Frame) /\ peer \in Peers
    BY DEF RecInv, Shapes
  <1>0. /\ o' \in OriTables /\ r' \in RecTables /\ RecAgrees(r')
        /\ tq' \in Seq(OriEntries) /\ trun' \in 0..OriLen - 1
        /\ fr' \in [Actors -> 0..OriLen - 1] /\ td' \in 0..NumTid
        /\ mq' \in Seq(Messages) /\ out' \in Seq(Frame) /\ peer' \in Peers
        => RecInv'
    BY DEF RecInv, Shapes, RecAgrees, Used
  <1>r. r' = r => r' \in RecTables /\ RecAgrees(r') BY <1>s
  <1>c. 0 \in 0..OriLen - 1 /\ 0 \in 0..NumTid BY Constants
  <1>1. ASSUME NEW i \in OriEntries, TimerFires(i) PROVE RecInv'
    <2>1. RTMPCancelTimer(o, i) \in OriTables BY <1>s, CancelIs
    <2>2. o' \in OriTables BY <1>1, <2>1 DEF TimerFires, RTMPCancelTimer
    <2>3. Append(tq, i) \in Seq(OriEntries) BY <1>s, Queued
    <2> QED BY <1>s, <1>0, <1>r, <1>1, <2>2, <2>3 DEF TimerFires
  <1>2. CASE RtmpTimerQHandle
    <2>1. Head(tq) \in OriEntries /\ Tail(tq) \in Seq(OriEntries)
      BY <1>s, <1>2, Queued DEF RtmpTimerQHandle
    <2>2. Head(tq) \in 0..OriLen - 1 BY <2>1, Constants
    <2> QED BY <1>s, <1>0, <1>r, <1>2, <2>1, <2>2 DEF RtmpTimerQHandle
  <1>3. CASE BAOriSessionSetupTimeout
    <2>1. o' \in OriTables /\ mq' \in Seq(Messages) /\ fr' \in [Actors -> 0..OriLen - 1]
      BY <1>s, <1>3, TimeoutType
    <2>2. /\ trun' = 0 /\ r' = r /\ tq' = tq /\ td' = td /\ out' = out /\ peer' = peer
      BY <1>3 DEF BAOriSessionSetupTimeout
    <2> QED BY <1>s, <1>0, <1>r, <1>c, <2>1, <2>2
  <1>4. CASE TimeoutInScan
    <2>1. trun \in OriEntries BY <1>s, <1>4, Constants DEF TimeoutInScan
    <2>2. RTMPSetTimer(o, trun) \in OriTables BY <1>s, <2>1, SetTimerIs
    <2> QED BY <1>s, <1>0, <1>r, <1>c, <1>4, <2>2 DEF TimeoutInScan
  <1>5. ASSUME NEW a \in Actors, BATableFreeOriEntry(a) PROVE RecInv'
    <2>1. fr[a] \in OriEntries BY <1>s, <1>5, Constants DEF BATableFreeOriEntry
    <2>2. FreeOriLocked(o, fr[a]) \in OriTables BY <1>s, <2>1, LockedIs
    <2> QED BY <1>s, <1>0, <1>r, <1>c, <1>5, <2>2 DEF BATableFreeOriEntry
  <1>6. ASSUME NEW t \in TIDs, BAOriSessionSetUp(t) PROVE RecInv'
    <2>1. o' \in OriTables /\ tq' \in Seq(OriEntries) BY <1>s, <1>6, SetUpType
    <2>2. /\ r' = r /\ trun' = trun /\ fr' = fr /\ td' = td /\ mq' = mq /\ out' = out
          /\ peer' = peer
      BY <1>6 DEF BAOriSessionSetUp
    <2> QED BY <1>s, <1>0, <1>r, <2>1, <2>2
  <1>7. ASSUME NEW t \in TIDs, BAOriSessionTearDown(t) PROVE RecInv'
    <2>1. /\ OriDown("user", t, FALSE, TRUE)
          /\ r' = r /\ trun' = trun /\ td' = td /\ mq' = mq /\ peer' = peer
      BY <1>7 DEF BAOriSessionTearDown
    <2>2. "user" \in Actors BY DEF Actors
    <2>3. /\ o' \in OriTables /\ tq' \in Seq(OriEntries) /\ out' \in Seq(Frame)
          /\ fr' \in [Actors -> 0..OriLen - 1]
      BY <1>s, <2>1, <2>2, DownType
    <2> QED BY <1>s, <1>0, <1>r, <2>1, <2>3
  <1>8. ASSUME NEW t \in TIDs, NEW passive \in BOOLEAN,
               BARecSessionTearDown(t, passive)
        PROVE  RecInv'
    <2>1. /\ r.idx[t] # 0 /\ r' = RecEnd(r, t)
          /\ out' = out \/ Send(DEL(t, "RECIPIENT"))
          /\ o' = o /\ tq' = tq /\ trun' = trun /\ fr' = fr /\ td' = td /\ mq' = mq
          /\ peer' = peer
      BY <1>8 DEF BARecSessionTearDown
    <2>2. RecEnd(r, t) \in RecTables /\ RecAgrees(RecEnd(r, t))
      BY <1>s, <2>1, RecEnds
    <2>3. DEL(t, "RECIPIENT") \in Frame BY FrameTypes
    <2>4. out' \in Seq(Frame) BY <1>s, <2>1, <2>3, SendType
    <2> QED BY <1>s, <1>0, <2>1, <2>2, <2>4
  <1>9. CASE BASessionTearDownALL
    BY <1>s, <1>0, <1>r, <1>c, <1>9 DEF BASessionTearDownALL
  <1>10. ASSUME NEW ori, NEW rec, TearDownOne(ori, rec) PROVE RecInv'
    <2>1. /\ o' \in OriTables /\ tq' \in Seq(OriEntries) /\ td' \in 0..NumTid
          /\ out' \in Seq(Frame) /\ r' \in RecTables /\ RecAgrees(r')
      BY <1>10, OneType
    <2>2. trun' = trun /\ fr' = fr /\ mq' = mq /\ peer' = peer
      BY <1>10 DEF TearDownOne
    <2> QED BY <1>s, <1>0, <2>1, <2>2
  <1>11. CASE MlmeADDBAAction
    <2>1. /\ Handle("ADDBA")
          /\ out' = out \/ Send(REQ(Head(mq).t))
          /\ o' = o /\ r' = r /\ tq' = tq /\ trun' = trun /\ fr' = fr /\ td' = td
          /\ peer' = peer
      BY <1>11 DEF MlmeADDBAAction
    <2>2. Head(mq).t \in TIDs /\ mq' \in Seq(Messages) BY <1>s, <2>1, HandleType
    <2>3. REQ(Head(mq).t) \in Frame BY <2>2, FrameTypes
    <2>4. out' \in Seq(Frame) BY <1>s, <2>1, <2>3, SendType
    <2> QED BY <1>s, <1>0, <1>r, <2>1, <2>2, <2>4
  <1>12. CASE PeerAddBARspAction
    <2>1. /\ o' \in OriTables /\ tq' \in Seq(OriEntries) /\ out' \in Seq(Frame)
          /\ fr' \in [Actors -> 0..OriLen - 1] /\ mq' \in Seq(Messages)
      BY <1>s, <1>12, RspType
    <2>2. r' = r /\ trun' = trun /\ td' = td /\ peer' = peer
      BY <1>12 DEF PeerAddBARspAction
    <2> QED BY <1>s, <1>0, <1>r, <2>1, <2>2
  <1>13. CASE PeerDelBAAction
    <2>1. /\ o' \in OriTables /\ tq' \in Seq(OriEntries) /\ out' \in Seq(Frame)
          /\ fr' \in [Actors -> 0..OriLen - 1] /\ mq' \in Seq(Messages)
          /\ r' \in RecTables /\ RecAgrees(r')
      BY <1>13, DelType
    <2>2. trun' = trun /\ td' = td /\ peer' = peer BY <1>13 DEF PeerDelBAAction
    <2> QED BY <1>s, <1>0, <2>1, <2>2
  <1>14. ASSUME NEW decline \in BOOLEAN, PeerAddBAReqAction(decline) PROVE RecInv'
    <2> DEFINE t == Head(mq).t
               x == IF decline THEN r ELSE RecAdd(r, t)
    <2>1. /\ Handle("REQ") /\ r' = x /\ Send(RSP(t, Accepted(x, t, decline)))
          /\ o' = o /\ tq' = tq /\ trun' = trun /\ fr' = fr /\ td' = td /\ peer' = peer
      BY <1>14 DEF PeerAddBAReqAction
    <2>2. t \in TIDs /\ mq' \in Seq(Messages) BY <1>s, <2>1, HandleType
    <2>3. x \in RecTables /\ RecAgrees(x)
      <3>1. RecAdd(r, t) \in RecTables /\ RecAgrees(RecAdd(r, t))
        BY <1>s, <2>2, RecAdds
      <3> QED BY <1>s, <3>1
    <2> HIDE DEF t, x
    <2>4. Accepted(x, t, decline) \in BOOLEAN BY DEF Accepted
    <2>5. RSP(t, Accepted(x, t, decline)) \in Frame BY <2>2, <2>4, FrameTypes
    <2>6. out' \in Seq(Frame) BY <1>s, <2>1, <2>5, SendType
    <2> QED BY <1>s, <1>0, <2>1, <2>2, <2>3, <2>6
  <1>15. CASE PeerHears
    <2>1. mq' \in Seq(Messages) /\ out' \in Seq(Frame) /\ peer' \in Peers
      BY <1>s, <1>15, HearsType
    <2>2. o' = o /\ r' = r /\ tq' = tq /\ trun' = trun /\ fr' = fr /\ td' = td
      BY <1>15 DEF PeerHears
    <2> QED BY <1>s, <1>0, <1>r, <2>1, <2>2
  <1>16. ASSUME NEW t \in TIDs, PeerStarts(t) \/ PeerEnds(t) PROVE RecInv'
    <2>1. /\ \/ mq' = mq \/ PeerSays(REQ(t)) \/ PeerSays(DEL(t, "ORIGINATOR"))
             \/ PeerSays(DEL(t, "RECIPIENT"))
          /\ o' = o /\ r' = r /\ tq' = tq /\ trun' = trun /\ fr' = fr /\ td' = td
          /\ out' = out
      BY <1>16 DEF PeerStarts, PeerEnds
    <2>2. \/ peer' = [peer EXCEPT !.ori[t] = "wait"]
          \/ peer' = [peer EXCEPT !.ori[t] = "none"]
          \/ peer' = [peer EXCEPT !.rec = @ \ {t}]
      BY <1>16 DEF PeerStarts, PeerEnds
    <2>3. REQ(t) \in Frame /\ DEL(t, "ORIGINATOR") \in Frame
          /\ DEL(t, "RECIPIENT") \in Frame
      BY FrameTypes
    <2>4. mq' \in Seq(Messages) BY <1>s, <2>1, <2>3, SendType
    <2>5. peer' \in Peers
      <3>1. /\ peer.rec \subseteq TIDs
            /\ peer.ori \in [TIDs -> {"none", "wait", "done"}]
        BY <1>s DEF Peers
      <3>2. CASE peer' = [peer EXCEPT !.ori[t] = "wait"] BY <1>s, <3>1, <3>2 DEF Peers
      <3>3. CASE peer' = [peer EXCEPT !.ori[t] = "none"] BY <1>s, <3>1, <3>3 DEF Peers
      <3>4. CASE peer' = [peer EXCEPT !.rec = @ \ {t}] BY <1>s, <3>1, <3>4 DEF Peers
      <3> QED BY <2>2, <3>2, <3>3, <3>4
    <2> QED BY <1>s, <1>0, <1>r, <2>1, <2>4, <2>5
  <1>17. CASE UNCHANGED vars
    BY <1>s, <1>0, <1>r, <1>17 DEF vars
  <1> QED
    BY <1>1, <1>2, <1>3, <1>4, <1>5, <1>6, <1>7, <1>8, <1>9, <1>10, <1>11, <1>12,
       <1>13, <1>14, <1>15, <1>16, <1>17, Constants
       DEF Next, Timers

(* The table of sessions as recipient, the index of each TID, the bitmap and *)
(* the counter tell the same after every sequence of requests, DELBA frames  *)
(* and teardowns, for tables of any length (BARecSessionAdd,                 *)
(* BARecSessionTearDown, BATableFreeRecEntry of common/ba_action.c).         *)
THEOREM RecTableSafe == SafeSpec => []RecTableAgrees
  <1>1. Init => RecInv BY RecInit
  <1>2. RecInv /\ [Next]_vars => RecInv' BY RecStep
  <1>3. RecInv => RecTableAgrees
    <2> SUFFICES ASSUME RecInv PROVE RecTableAgrees OBVIOUS
    <2>1. r \in RecTables /\ RecAgrees(r) BY DEF RecInv, Shapes
    <2>2. Used(r) = {i \in RecEntries : r.ent[i].st # "NONE"}
      BY <2>1, RecFields DEF Used
    <2> QED BY <2>1, <2>2 DEF RecAgrees, RecTableAgrees
  <1> QED BY <1>1, <1>2, <1>3, PTL DEF SafeSpec

-----------------------------------------------------------------------------
(* The table of sessions as originator, on one CPU without preemption: one   *)
(* thread at a time works on it.                                             *)
OriAll == RecInv /\ OriInv

LEMMA OriInit == Init => OriAll
  <1> SUFFICES ASSUME Init PROVE OriAll OBVIOUS
  <1>0. RecInv BY RecInit
  <1>1. o \in OriTables BY <1>0 DEF RecInv, Shapes
  <1>2. \A i : i \notin Used(o) /\ i \notin DoneIn(o) BY DEF Init, Used, DoneIn
  <1>3. Used(o) = {} /\ DoneIn(o) = {} BY <1>2
  <1>4. Cardinality(Used(o)) = 0 /\ Cardinality(DoneIn(o)) = 0 BY <1>3, FS_EmptySet
  <1>5. o.num = 0 /\ o.done = 0 /\ o.bm = {} /\ \A t \in TIDs : o.idx[t] = 0
    BY DEF Init
  <1>6. Agrees(o, 0) BY <1>3, <1>4, <1>5 DEF Agrees
  <1>7. /\ \A i \in OriEntries : o.ent[i].st = "NONE" /\ ~o.ent[i].pend
        /\ tq = <<>> /\ trun = 0 /\ td = NumTid /\ \A a \in Actors : fr[a] = 0
    BY DEF Init
  <1>8. ToSet(tq) = {} /\ Distinct(tq)
    <2>1. tq \in Seq(OriEntries) /\ Len(tq) = 0 BY <1>7
    <2>2. 1..Len(tq) = {} BY <2>1
    <2> QED BY <2>1, <2>2, InToSet DEF Distinct
  <1>9. Timed(o, tq, trun, 0) BY <1>7, <1>8, Constants DEF Timed
  <1>10. Frees(0) /\ 0 \in 0..OriLen - 1 BY <1>7, Constants DEF Frees
  <1> QED BY <1>0, <1>6, <1>7, <1>9, <1>10 DEF OriAll, OriInv

(* What holds when no thread is inside that code *)
LEMMA CalmFacts ==
  ASSUME OriAll, Calm, ~Preempt
  PROVE  /\ o \in OriTables /\ tq \in Seq(OriEntries)
         /\ trun = 0 /\ td = NumTid /\ \A a \in Actors : fr[a] = 0
         /\ Agrees(o, 0) /\ Timed(o, tq, 0, 0)
  <1>1. trun = 0 /\ td = NumTid /\ \A a \in Actors : fr[a] = 0 BY DEF Calm
  <1>2. PICK b \in 0..OriLen - 1 : Frees(b) /\ Agrees(o, b) /\ Timed(o, tq, trun, b)
    BY DEF OriAll, OriInv
  <1>3. b = 0 BY <1>1, <1>2 DEF Frees
  <1> QED BY <1>1, <1>2, <1>3 DEF OriAll, RecInv, Shapes

(* and inside its steps: a timer's handler or BASessionTearDownALL *)
LEMMA InsideFacts ==
  ASSUME OriAll, trun # 0 \/ td # NumTid
  PROVE  /\ o \in OriTables /\ tq \in Seq(OriEntries)
         /\ trun \in 0..OriLen - 1 /\ \A a \in Actors : fr[a] = 0
         /\ trun # 0 => td = NumTid
         /\ Agrees(o, 0) /\ Timed(o, tq, trun, 0)
  <1>1. Frees(0) /\ (trun # 0 => td = NumTid) BY DEF OriAll, OriInv
  <1>2. \A a \in Actors : fr[a] = 0 BY <1>1 DEF Frees
  <1>3. PICK b \in 0..OriLen - 1 : Frees(b) /\ Agrees(o, b) /\ Timed(o, tq, trun, b)
    BY DEF OriAll, OriInv
  <1>4. b = 0 BY <1>2, <1>3 DEF Frees
  <1> QED BY <1>1, <1>2, <1>3, <1>4 DEF OriAll, RecInv, Shapes

(* or the second half of BATableFreeOriEntry. *)
LEMMA FreeingFacts ==
  ASSUME OriAll, NEW a \in Actors, fr[a] # 0
  PROVE  /\ o \in OriTables /\ tq \in Seq(OriEntries) /\ fr[a] \in OriEntries
         /\ trun = 0 /\ td = NumTid /\ \A c \in Actors \ {a} : fr[c] = 0
         /\ Agrees(o, fr[a]) /\ Timed(o, tq, 0, fr[a])
  <1>1. trun = 0 /\ td = NumTid BY DEF OriAll, OriInv, Frees
  <1>2. PICK b \in 0..OriLen - 1 : Frees(b) /\ Agrees(o, b) /\ Timed(o, tq, trun, b)
    BY DEF OriAll, OriInv
  <1>3. b = fr[a] /\ \A c \in Actors \ {a} : fr[c] = 0 BY <1>2 DEF Frees
  <1>4. fr[a] \in OriEntries BY <1>2, <1>3, Constants
  <1> QED BY <1>1, <1>2, <1>3, <1>4 DEF OriAll, RecInv, Shapes

(* The first half of the end of a session *)
LEMMA DownIs ==
  ASSUME o \in OriTables, tq \in Seq(OriEntries), \A a \in Actors : fr[a] = 0,
         fr \in [Actors -> 0..OriLen - 1], Agrees(o, 0), Timed(o, tq, 0, 0),
         NEW a \in Actors, NEW t \in TIDs, NEW passive, NEW force,
         OriDown(a, t, passive, force)
  PROVE  \/ o' = o /\ tq' = tq /\ fr' = fr
         \/ \E i \in OriEntries : /\ Agrees(o', i) /\ Timed(o', tq', 0, i)
                                  /\ fr' = [fr EXCEPT ![a] = i]
  <1> DEFINE i == o.idx[t]
             z == RTMPCancelTimer(o, i)
             y == FreeOriEnter(z, i)
  <1>1. CASE i = 0 BY <1>1 DEF OriDown
  <1>2. CASE i # 0
    <2>1. i \in OriEntries /\ o.ent[i].st # "NONE" BY <1>2, UsedIs DEF Agrees
    <2>2. /\ o' = y /\ tq' = RtmpTimerQRemove(tq, i) /\ fr' = [fr EXCEPT ![a] = i]
      BY <1>2, <2>1 DEF OriDown
    <2> HIDE DEF i
    <2>3. /\ z \in OriTables /\ SameBut(o, z)
          /\ \A j \in OriEntries : /\ z.ent[j].valid = o.ent[j].valid
                                   /\ z.ent[j].pend <=> o.ent[j].pend /\ j # i
      BY <2>1, CancelIs
    <2> HIDE DEF z
    <2>4. Agrees(z, 0) BY <2>3, AgreesSame
    <2>5. i \in Used(z) BY <2>1, <2>3, UsedIs DEF SameBut
    <2>6. Agrees(y, i) BY <2>1, <2>3, <2>4, <2>5, AgreesEnter
    <2>7. y \in OriTables /\ y.ent = z.ent BY <2>1, <2>3, EnterIs
    <2> HIDE DEF y
    <2>8. \A j \in OriEntries : /\ y.ent[j].st = o.ent[j].st
                                /\ y.ent[j].valid = o.ent[j].valid
                                /\ y.ent[j].pend <=> o.ent[j].pend /\ j # i
      BY <2>3, <2>7 DEF SameBut
    <2>9. Timed(y, RtmpTimerQRemove(tq, i), 0, i) BY <2>1, <2>7, <2>8, TimedDown
    <2> QED BY <2>1, <2>2, <2>6, <2>9
  <1> QED BY <1>1, <1>2

LEMMA OneIs ==
  ASSUME OriAll, NEW ori, NEW rec, TearDownOne(ori, rec)
  PROVE  Agrees(o', 0) /\ Timed(o', tq', 0, 0) /\ trun = 0
  <1> DEFINE i == IF OriDone(td) /\ ori = "kept" THEN 0 ELSE o.idx[td]
             z == RTMPCancelTimer(o, i)
             w == FreeOriEnter(z, i)
             y == FreeOriLocked(w, i)
  <1>1. /\ td # NumTid
        /\ IF i = 0 THEN o' = o /\ tq' = tq
           ELSE /\ o' = (IF o.ent[i].st = "NONE" THEN z ELSE y)
                /\ tq' = RtmpTimerQRemove(tq, i)
    BY DEF TearDownOne
  <1>2. /\ o \in OriTables /\ tq \in Seq(OriEntries) /\ trun = 0
        /\ Agrees(o, 0) /\ Timed(o, tq, 0, 0)
    BY <1>1, InsideFacts
  <1>3. td \in TIDs BY <1>1, Constants DEF OriAll, RecInv, Shapes, TIDs
  <1>4. CASE i = 0 BY <1>1, <1>2, <1>4
  <1>5. CASE i # 0
    <2>1. i = o.idx[td] BY <1>5
    <2>2. i \in OriEntries /\ o.ent[i].st # "NONE"
      BY <1>2, <1>3, <1>5, <2>1, UsedIs DEF Agrees
    <2>3. o' = y /\ tq' = RtmpTimerQRemove(tq, i) BY <1>1, <1>5, <2>2
    <2> HIDE DEF i
    <2>4. /\ z \in OriTables /\ SameBut(o, z)
          /\ \A j \in OriEntries : /\ z.ent[j].valid = o.ent[j].valid
                                   /\ z.ent[j].pend <=> o.ent[j].pend /\ j # i
      BY <1>2, <2>2, CancelIs
    <2> HIDE DEF z
    <2>5. Agrees(z, 0) BY <1>2, <2>4, AgreesSame
    <2>6. i \in Used(z) BY <2>2, <2>4, UsedIs DEF SameBut
    <2>7. Agrees(w, i) BY <2>2, <2>4, <2>5, <2>6, AgreesEnter
    <2>8. w \in OriTables /\ w.ent = z.ent BY <2>2, <2>4, EnterIs
    <2> HIDE DEF w
    <2>9. \A j \in OriEntries : /\ w.ent[j].st = o.ent[j].st
                                /\ w.ent[j].valid = o.ent[j].valid
                                /\ w.ent[j].pend <=> o.ent[j].pend /\ j # i
      BY <2>4, <2>8 DEF SameBut
    <2>10. Timed(w, RtmpTimerQRemove(tq, i), 0, i) BY <1>2, <2>2, <2>8, <2>9, TimedDown
    <2>11. Agrees(y, 0) BY <2>2, <2>7, <2>8, AgreesLocked
    <2>12. /\ y \in OriTables
           /\ \A j \in OriEntries : /\ y.ent[j].st = IF j = i THEN "NONE" ELSE w.ent[j].st
                                    /\ y.ent[j].valid = w.ent[j].valid
                                    /\ y.ent[j].pend = w.ent[j].pend
      BY ZenonT(60), <2>2, <2>8, LockedIs
    <2> HIDE DEF y
    <2>13. RtmpTimerQRemove(tq, i) \in Seq(OriEntries) BY <1>2, Removed
    <2>14. Timed(y, RtmpTimerQRemove(tq, i), 0, 0)
      BY <2>2, <2>8, <2>10, <2>12, <2>13, TimedLocked
    <2> QED BY <1>2, <2>3, <2>11, <2>14
  <1> QED BY <1>4, <1>5

(* A request is answered, *)
LEMMA RspIs ==
  ASSUME o \in OriTables, tq \in Seq(OriEntries), Agrees(o, 0), Timed(o, tq, 0, 0),
         NEW t \in TIDs, Awaited(t), o' = OriAdd(o, t),
         tq' = RtmpTimerQRemove(tq, o.idx[t])
  PROVE  Agrees(o', 0) /\ Timed(o', tq', 0, 0)
  <1> DEFINE i == o.idx[t]
             y == OriAdd(o, t)
  <1>1. i # 0 /\ o.ent[i].st = "WaitRes" BY DEF Awaited
  <1>2. i \in OriEntries BY <1>1, UsedIs DEF Agrees
  <1>3. Agrees(y, 0) BY <1>1, AgreesAdd
  <1>4. /\ y \in OriTables
        /\ \A j \in OriEntries : /\ y.ent[j].st = IF j = i THEN "Done" ELSE o.ent[j].st
                                 /\ y.ent[j].valid = o.ent[j].valid
                                 /\ y.ent[j].pend <=> o.ent[j].pend /\ j # i
    BY <1>1, AddIs
  <1> HIDE DEF i, y
  <1>5. Timed(y, RtmpTimerQRemove(tq, i), 0, 0) BY <1>2, <1>4, TimedAdd
  <1> QED BY <1>3, <1>5 DEF i, y

(* made, *)
LEMMA SetUpOri ==
  ASSUME o \in OriTables, tq \in Seq(OriEntries), Agrees(o, 0), Timed(o, tq, 0, 0),
         NEW t \in TIDs, BAOriSessionSetUp(t)
  PROVE  Agrees(o', 0) /\ Timed(o', tq', 0, 0)
  <1> DEFINE a == IF o.idx[t] # 0 THEN [e |-> o.idx[t], i |-> o.idx[t]]
                  ELSE BATableAllocOriEntry(o)
             y == SetUpEntry(o, t, a.e, a.i)
  <1>1. /\ a.e # 0 /\ o.ent[a.e].st \notin {"WaitRes", "Done"} /\ o' = y
        /\ tq' = IF t \in o.bm THEN RtmpTimerQRemove(tq, a.e) ELSE tq
    BY DEF BAOriSessionSetUp
  <1>2. o.idx[t] = 0
    <2> SUFFICES ASSUME o.idx[t] # 0 PROVE FALSE OBVIOUS
    <2>1. a.e \in OriEntries /\ o.ent[a.e].st # "NONE" BY UsedIs DEF Agrees
    <2> HIDE DEF a
    <2> QED BY <1>1, <2>1, OriFields
  <1>3. a = AllocEntry(o.ent, o.num, OriLen - 1) BY <1>2 DEF BATableAllocOriEntry
  <1> HIDE DEF a
  <1>4. a.e \in OriEntries /\ a.i = a.e /\ o.ent[a.e].st = "NONE"
    <2>1. OriLen - 1 \in Nat /\ DOMAIN o.ent = 1..OriLen - 1 /\ OriEntries = 1..OriLen - 1
      BY OriFields, Constants DEF OriEntries
    <2>2. o.num = Cardinality({i \in DOMAIN o.ent : o.ent[i].st # "NONE"})
      BY DEF Agrees, Used
    <2> QED BY ZenonT(60), <1>1, <1>3, <2>1, <2>2, AllocIs
  <1>5. t \notin o.bm BY <1>2, NoBit
  <1>6. a.e \in 0..OriLen - 1 BY <1>4, Constants
  <1>7. y = SetUpEntry(o, t, a.e, a.e) BY <1>4
  <1>8. Agrees(y, 0) BY <1>2, <1>4, <1>7, AgreesSetUp
  <1>9. /\ y \in OriTables /\ y.ent[a.e].valid /\ y.ent[a.e].pend
        /\ \A j \in OriEntries :
             /\ y.ent[j].st = IF j = a.e THEN "WaitRes" ELSE o.ent[j].st
             /\ j # a.e => /\ y.ent[j].valid = o.ent[j].valid
                           /\ y.ent[j].pend = o.ent[j].pend
    BY <1>4, <1>5, <1>6, <1>7, SetUpIs
  <1> HIDE DEF y
  <1>10. Timed(y, tq, 0, 0) BY <1>4, <1>9, TimedSetUp
  <1> QED BY <1>1, <1>5, <1>8, <1>10

(* or given up. *)
LEMMA TimeoutIs ==
  ASSUME OriAll, BAOriSessionSetupTimeout
  PROVE  \/ Agrees(o', 0) /\ Timed(o', tq', 0, 0) /\ fr' = fr /\ SameBut(o, o')
         \/ /\ Agrees(o', trun) /\ Timed(o', tq', 0, trun)
            /\ fr' = [fr EXCEPT !["timer"] = trun] /\ o' = FreeOriEnter(o, trun)
  <1>1. trun # 0 /\ tq' = tq BY DEF BAOriSessionSetupTimeout
  <1>2. /\ o \in OriTables /\ tq \in Seq(OriEntries) /\ trun \in OriEntries
        /\ Agrees(o, 0) /\ Timed(o, tq, trun, 0)
    BY <1>1, InsideFacts, Constants
  <1>3. CASE Retries(trun)
    <2>1. o' = Resend(o, trun) /\ fr' = fr BY <1>3 DEF BAOriSessionSetupTimeout
    <2>2. o.ent[trun].token < ORI_SESSION_MAX_RETRY BY <1>3 DEF Retries
    <2>3. /\ o' \in OriTables /\ SameBut(o, o')
          /\ \A j \in OriEntries : /\ o'.ent[j].valid = o.ent[j].valid
                                   /\ o'.ent[j].pend <=> \/ o.ent[j].pend
                                                         \/ j = trun /\ o.ent[trun].valid
      BY <1>2, <2>1, <2>2, ResendIs
    <2>4. Agrees(o', 0) BY <1>2, <2>3, AgreesSame
    <2>5. Timed(o', tq, 0, 0) BY <1>2, <2>3, TimedAgain
    <2> QED BY <1>1, <2>1, <2>3, <2>4, <2>5
  <1>4. CASE ~Retries(trun)
    <2>1. o.ent[trun].st = "WaitRes" BY <1>2 DEF Timed
    <2>2. trun \in Used(o) BY <1>2, <2>1, UsedIs
    <2>3. o.idx[o.ent[trun].tid] = trun BY <1>1, <2>2, <1>2 DEF Agrees
    <2>4. o' = FreeOriEnter(o, trun) /\ fr' = [fr EXCEPT !["timer"] = trun]
      BY <1>1, <1>4, <2>1, <2>3 DEF BAOriSessionSetupTimeout
    <2>5. Agrees(o', trun) BY <1>2, <2>2, <2>4, AgreesEnter
    <2>6. o' \in OriTables /\ o'.ent = o.ent BY <1>2, <2>4, EnterIs
    <2>7. Timed(o', tq, 0, trun) BY <1>2, <2>6, TimedFrees
    <2> QED BY <1>1, <2>4, <2>5, <2>7
  <1> QED BY <1>3, <1>4

LEMMA OriStep ==
  ASSUME ~Preempt
  PROVE  OriAll /\ [Next]_vars => OriAll'
  <1> SUFFICES ASSUME OriAll, [Next]_vars PROVE OriAll' OBVIOUS
  <1>r. RecInv' BY RecStep DEF OriAll
  <1>s. /\ o \in OriTables /\ tq \in Seq(OriEntries) /\ trun \in 0..OriLen - 1
        /\ fr \in [Actors -> 0..OriLen - 1]
    BY DEF OriAll, RecInv, Shapes
  <1>c. 0 \in 0..OriLen - 1 /\ \A i \in OriEntries : i \in 0..OriLen - 1 /\ i # 0
    BY Constants
  <1>0. ASSUME NEW b \in 0..OriLen - 1, Frees(b)', Agrees(o', b),
               Timed(o', tq', trun', b), trun' # 0 => td' = NumTid /\ b = 0,
               td' # NumTid => trun' = 0 /\ b = 0
        PROVE  OriAll'
    <2>1. \E c \in 0..OriLen - 1 : (Frees(c) /\ Agrees(o, c) /\ Timed(o, tq, trun, c))'
      BY <1>0 DEF Frees, Agrees, Timed, Used, DoneIn, Distinct
    <2>2. b = 0 => Frees(0)' BY <1>0
    <2> QED BY <1>r, <1>0, <2>1, <2>2 DEF OriAll, OriInv
  (* The whole table is as it was, and so is the rest of OriInv. *)
  <1>u. ASSUME o' = o, tq' = tq, trun' = trun, fr' = fr, td' = td PROVE OriAll'
    <2>1. PICK b \in 0..OriLen - 1 : Frees(b) /\ Agrees(o, b) /\ Timed(o, tq, trun, b)
      BY DEF OriAll, OriInv
    <2>2. (trun # 0 => td = NumTid /\ b = 0) /\ (td # NumTid => trun = 0 /\ b = 0)
      BY <2>1 DEF OriAll, OriInv, Frees
    <2>3. Frees(b)' BY <1>u, <2>1 DEF Frees
    <2>4. Agrees(o', b) /\ Timed(o', tq', trun', b) BY <1>u, <2>1
    <2> QED BY <1>0, <1>u, <2>2, <2>3, <2>4
  (* Nobody is inside afterwards, *)
  <1>v. ASSUME Agrees(o', 0), Timed(o', tq', 0, 0), trun' = 0,
               \A a \in Actors : fr'[a] = 0
        PROVE  OriAll'
    <2>1. Frees(0)' BY <1>v DEF Frees
    <2> QED BY <1>c, <1>v, <1>0, <2>1
  (* or one thread is about to free an entry. *)
  <1>w. ASSUME NEW a \in Actors, NEW i \in OriEntries, \A c \in Actors : fr[c] = 0,
               fr' = [fr EXCEPT ![a] = i], Agrees(o', i), Timed(o', tq', 0, i),
               trun' = 0, td' = NumTid
        PROVE  OriAll'
    <2>1. fr'[a] = i /\ \A c \in Actors \ {a} : fr'[c] = 0 BY <1>s, <1>w
    <2>2. Frees(i)' BY <1>c, <2>1 DEF Frees
    <2> QED BY <1>c, <1>w, <1>0, <2>2
  <1>d. ASSUME NEW a \in Actors, NEW t \in TIDs, NEW passive, NEW force,
               OriDown(a, t, passive, force), Calm, trun' = trun, td' = td
        PROVE  OriAll'
    <2>1. /\ trun = 0 /\ td = NumTid /\ \A c \in Actors : fr[c] = 0
          /\ Agrees(o, 0) /\ Timed(o, tq, 0, 0)
      BY <1>d, CalmFacts
    <2>2. \/ o' = o /\ tq' = tq /\ fr' = fr
          \/ \E i \in OriEntries : /\ Agrees(o', i) /\ Timed(o', tq', 0, i)
                                   /\ fr' = [fr EXCEPT ![a] = i]
      BY <1>s, <1>d, <2>1, DownIs
    <2>3. CASE o' = o /\ tq' = tq /\ fr' = fr BY <1>d, <1>u, <2>3
    <2>4. CASE \E i \in OriEntries : /\ Agrees(o', i) /\ Timed(o', tq', 0, i)
                                     /\ fr' = [fr EXCEPT ![a] = i]
      BY <1>d, <1>w, <2>1, <2>4
    <2> QED BY <2>2, <2>3, <2>4
  <1>1. ASSUME NEW i \in OriEntries, TimerFires(i) PROVE OriAll'
    <2>1. /\ o.ent[i].pend /\ o' = RTMPCancelTimer(o, i) /\ tq' = Append(tq, i)
          /\ trun' = trun /\ fr' = fr /\ td' = td
      BY <1>1 DEF TimerFires, RTMPCancelTimer
    <2>2. PICK b \in 0..OriLen - 1 : Frees(b) /\ Agrees(o, b) /\ Timed(o, tq, trun, b)
      BY DEF OriAll, OriInv
    <2>3. o' \in OriTables /\ SameBut(o, o') BY <1>s, <2>1, CancelIs
    <2>4. Agrees(o', b) BY <1>s, <2>2, <2>3, AgreesSame
    <2>5. Timed(o', tq', trun', b) BY <1>s, <2>1, <2>2, TimedFires
    <2>6. Frees(b)' BY <2>1, <2>2 DEF Frees
    <2>7. (trun # 0 => td = NumTid /\ b = 0) /\ (td # NumTid => trun = 0 /\ b = 0)
      BY <2>2 DEF OriAll, OriInv, Frees
    <2> QED BY <1>0, <2>1, <2>2, <2>4, <2>5, <2>6, <2>7
  <1>2. CASE RtmpTimerQHandle
    <2>1. /\ Calm /\ tq # <<>> /\ trun' = Head(tq) /\ tq' = Tail(tq)
          /\ o' = o /\ fr' = fr /\ td' = td
      BY <1>2 DEF RtmpTimerQHandle
    <2>2. /\ td = NumTid /\ \A a \in Actors : fr[a] = 0
          /\ Agrees(o, 0) /\ Timed(o, tq, 0, 0)
      BY <2>1, CalmFacts
    <2>3. Timed(o', tq', trun', 0) BY <1>s, <2>1, <2>2, TimedHandled
    <2>4. Frees(0)' BY <2>1, <2>2 DEF Frees
    <2>5. Agrees(o', 0) BY <2>1, <2>2
    <2> QED BY <1>c, <1>0, <2>1, <2>2, <2>3, <2>4, <2>5
  <1>3. CASE BAOriSessionSetupTimeout
    <2>1. trun # 0 /\ trun' = 0 /\ td' = td BY <1>3 DEF BAOriSessionSetupTimeout
    <2>2. /\ trun \in OriEntries /\ td = NumTid /\ \A a \in Actors : fr[a] = 0
      BY <2>1, InsideFacts, Constants
    <2>3. \/ Agrees(o', 0) /\ Timed(o', tq', 0, 0) /\ fr' = fr
          \/ /\ Agrees(o', trun) /\ Timed(o', tq', 0, trun)
             /\ fr' = [fr EXCEPT !["timer"] = trun]
      BY <1>3, TimeoutIs
    <2>4. "timer" \in Actors BY DEF Actors
    <2>5. CASE Agrees(o', 0) /\ Timed(o', tq', 0, 0) /\ fr' = fr
      BY <1>v, <2>1, <2>2, <2>5
    <2>6. CASE /\ Agrees(o', trun) /\ Timed(o', tq', 0, trun)
               /\ fr' = [fr EXCEPT !["timer"] = trun]
      BY <1>w, <2>1, <2>2, <2>4, <2>6
    <2> QED BY <2>3, <2>5, <2>6
  <1>4. CASE TimeoutInScan
    <2>1. trun # 0 /\ trun' = 0 /\ tq' = tq /\ fr' = fr /\ o' = RTMPSetTimer(o, trun)
      BY <1>4 DEF TimeoutInScan
    <2>2. /\ trun \in OriEntries /\ \A a \in Actors : fr[a] = 0
          /\ Agrees(o, 0) /\ Timed(o, tq, trun, 0)
      BY <2>1, InsideFacts, Constants
    <2>3. /\ o' \in OriTables /\ SameBut(o, o')
          /\ \A j \in OriEntries : /\ o'.ent[j].valid = o.ent[j].valid
                                   /\ o'.ent[j].pend <=> \/ o.ent[j].pend
                                                         \/ j = trun /\ o.ent[trun].valid
      BY <1>s, <2>1, <2>2, SetTimerIs
    <2>4. Agrees(o', 0) BY <1>s, <2>2, <2>3, AgreesSame
    <2>5. Timed(o', tq, 0, 0) BY <1>s, <2>2, <2>3, TimedAgain
    <2> QED BY <1>v, <2>1, <2>2, <2>4, <2>5
  <1>5. ASSUME NEW a \in Actors, BATableFreeOriEntry(a) PROVE OriAll'
    <2> DEFINE i == fr[a]
    <2>1. /\ i # 0 /\ o' = FreeOriLocked(o, i) /\ fr' = [fr EXCEPT ![a] = 0]
          /\ tq' = tq /\ trun' = trun
      BY <1>5 DEF BATableFreeOriEntry
    <2>2. /\ i \in OriEntries /\ trun = 0 /\ \A c \in Actors \ {a} : fr[c] = 0
          /\ Agrees(o, i) /\ Timed(o, tq, 0, i)
      BY <2>1, FreeingFacts
    <2>3. \A c \in Actors : fr'[c] = 0 BY <1>s, <2>1, <2>2
    <2> HIDE DEF i
    <2>4. Agrees(o', 0) BY <1>s, <2>1, <2>2, AgreesLocked
    <2>5. /\ o' \in OriTables
          /\ \A j \in OriEntries : /\ o'.ent[j].st = IF j = i THEN "NONE" ELSE o.ent[j].st
                                   /\ o'.ent[j].valid = o.ent[j].valid
                                   /\ o'.ent[j].pend = o.ent[j].pend
      BY ZenonT(60), <1>s, <2>1, <2>2, LockedIs
    <2>6. Timed(o', tq, 0, 0) BY <1>s, <2>2, <2>5, TimedLocked
    <2> QED BY <1>v, <2>1, <2>2, <2>3, <2>4, <2>6
  <1>6. ASSUME NEW t \in TIDs, BAOriSessionSetUp(t) PROVE OriAll'
    <2>1. Calm /\ trun' = trun /\ fr' = fr BY <1>6 DEF BAOriSessionSetUp
    <2>2. trun = 0 /\ \A a \in Actors : fr[a] = 0 BY <2>1, CalmFacts
    <2>3. Agrees(o, 0) /\ Timed(o, tq, 0, 0) BY <2>1, CalmFacts
    <2>4. Agrees(o', 0) /\ Timed(o', tq', 0, 0) BY <1>s, <1>6, <2>3, SetUpOri
    <2> QED BY <1>v, <2>1, <2>2, <2>4
  <1>7. ASSUME NEW t \in TIDs, BAOriSessionTearDown(t) PROVE OriAll'
    <2>1. Calm /\ OriDown("user", t, FALSE, TRUE) /\ trun' = trun /\ td' = td
      BY <1>7 DEF BAOriSessionTearDown
    <2>2. "user" \in Actors BY DEF Actors
    <2> QED BY <1>d, <2>1, <2>2
  <1>8. CASE BASessionTearDownALL
    <2>1. Calm /\ o' = o /\ tq' = tq /\ trun' = trun /\ fr' = fr
      BY <1>8 DEF BASessionTearDownALL
    <2>2. /\ trun = 0 /\ \A a \in Actors : fr[a] = 0
      BY <2>1, CalmFacts
    <2>3. Agrees(o, 0) /\ Timed(o, tq, 0, 0) BY <2>1, CalmFacts
    <2> QED BY <1>v, <2>1, <2>2, <2>3
  <1>9. ASSUME NEW ori, NEW rec, TearDownOne(ori, rec) PROVE OriAll'
    <2>1. td # NumTid /\ trun' = trun /\ fr' = fr BY <1>9 DEF TearDownOne
    <2>2. Agrees(o', 0) /\ Timed(o', tq', 0, 0) /\ trun = 0 BY <1>9, OneIs
    <2>3. \A a \in Actors : fr[a] = 0 BY <2>1, InsideFacts
    <2> QED BY <1>v, <2>1, <2>2, <2>3
  <1>10. CASE PeerAddBARspAction
    <2> DEFINE t == Head(mq).t
    <2>1. /\ Handle("RSP") /\ trun' = trun /\ td' = td
          /\ \/ /\ Awaited(t) /\ o' = OriAdd(o, t)
                /\ tq' = RtmpTimerQRemove(tq, o.idx[t]) /\ fr' = fr
             \/ OriDown("mlme", t, TRUE, FALSE)
             \/ o' = o /\ tq' = tq /\ fr' = fr
      BY <1>10 DEF PeerAddBARspAction
    <2>2. t \in TIDs BY <2>1, HandleType DEF OriAll, RecInv
    <2>3. Calm BY <2>1 DEF Handle
    <2> HIDE DEF t
    <2>4. CASE /\ Awaited(t) /\ o' = OriAdd(o, t)
               /\ tq' = RtmpTimerQRemove(tq, o.idx[t]) /\ fr' = fr
      <3>1. trun = 0 /\ \A a \in Actors : fr[a] = 0 BY <2>3, CalmFacts
      <3>2. Agrees(o, 0) /\ Timed(o, tq, 0, 0) BY <2>3, CalmFacts
      <3>3. Agrees(o', 0) /\ Timed(o', tq', 0, 0) BY <1>s, <2>2, <2>4, <3>2, RspIs
      <3> QED BY <1>v, <2>1, <2>4, <3>1, <3>3
    <2>5. CASE OriDown("mlme", t, TRUE, FALSE)
      <3>1. "mlme" \in Actors BY DEF Actors
      <3> QED BY <1>d, <2>1, <2>2, <2>3, <2>5, <3>1
    <2>6. CASE o' = o /\ tq' = tq /\ fr' = fr BY <1>u, <2>1, <2>6
    <2> QED BY <2>1, <2>4, <2>5, <2>6
  <1>11. CASE PeerDelBAAction
    <2> DEFINE t == Head(mq).t
    <2>1. /\ Handle("DEL") /\ trun' = trun /\ td' = td
          /\ \/ OriDown("mlme", t, TRUE, FALSE)
             \/ o' = o /\ tq' = tq /\ fr' = fr
      BY <1>11 DEF PeerDelBAAction
    <2>2. t \in TIDs BY <2>1, HandleType DEF OriAll, RecInv
    <2>3. Calm BY <2>1 DEF Handle
    <2> HIDE DEF t
    <2>4. CASE OriDown("mlme", t, TRUE, FALSE)
      <3>1. "mlme" \in Actors BY DEF Actors
      <3> QED BY <1>d, <2>1, <2>2, <2>3, <2>4, <3>1
    <2>5. CASE o' = o /\ tq' = tq /\ fr' = fr BY <1>u, <2>1, <2>5
    <2> QED BY <2>1, <2>4, <2>5
  <1>12. ASSUME NEW t, NEW passive, BARecSessionTearDown(t, passive) PROVE OriAll'
    BY <1>u, <1>12 DEF BARecSessionTearDown
  <1>13. CASE MlmeADDBAAction BY <1>u, <1>13 DEF MlmeADDBAAction
  <1>14. ASSUME NEW decline, PeerAddBAReqAction(decline) PROVE OriAll'
    BY <1>u, <1>14 DEF PeerAddBAReqAction
  <1>15. CASE PeerHears BY <1>u, <1>15 DEF PeerHears
  <1>16. ASSUME NEW t, PeerStarts(t) \/ PeerEnds(t) PROVE OriAll'
    BY <1>u, <1>16 DEF PeerStarts, PeerEnds
  <1>17. CASE UNCHANGED vars BY <1>u, <1>17 DEF vars
  <1> QED
    BY <1>1, <1>2, <1>3, <1>4, <1>5, <1>6, <1>7, <1>8, <1>9, <1>10, <1>11, <1>12,
       <1>13, <1>14, <1>15, <1>16, <1>17, Constants
       DEF Next, Timers

LEMMA OriReached ==
  ASSUME ~Preempt
  PROVE  SafeSpec => []OriAll
  <1>1. Init => OriAll BY OriInit
  <1>2. OriAll /\ [Next]_vars => OriAll' BY OriStep
  <1> QED BY <1>1, <1>2, PTL DEF SafeSpec

(* Where threads do not preempt each other, both tables agree with their     *)
(* indices, bitmaps and counters, and the counters stay within the tables,   *)
(* for tables of any length, whichever frames are lost, late or repeated,    *)
(* and although memory for a DELBA may be lacking (BATableAllocOriEntry,     *)
(* BAOriSessionSetUp, BAOriSessionAdd, BAOriSessionTearDown,                 *)
(* BATableFreeOriEntry of common/ba_action.c).                               *)
THEOREM TableSafe ==
  ASSUME ~Preempt
  PROVE  SafeSpec => []TableInv
  <1>1. OriAll => TableInv
    <2> SUFFICES ASSUME OriAll PROVE TableInv OBVIOUS
    <2>1. Shapes /\ RecAgrees(r) /\ o \in OriTables /\ r \in RecTables
      BY DEF OriAll, RecInv, Shapes
    <2>2. PICK b \in 0..OriLen - 1 : Frees(b) /\ Agrees(o, b)
      BY DEF OriAll, OriInv
    <2>3. o.num \in 0..OriLen - 1 /\ o.done \in 0..OriLen - 1
      BY <2>1, <2>2, UsedIs DEF Agrees
    <2>4. r.num \in 0..RecLen - 1 BY <2>1, RecUsedIs DEF RecAgrees
    <2>5. TypeOK
      <3>1. o \in [ent : [OriEntries -> [st : {"NONE", "WaitRes", "Done"}, tid : TIDs,
                                         token : 0..ORI_SESSION_MAX_RETRY,
                                         valid : BOOLEAN, pend : BOOLEAN]],
                   idx : [TIDs -> 0..OriLen - 1], bm : SUBSET TIDs,
                   num : 0..OriLen - 1, done : 0..OriLen - 1]
        BY <2>1, <2>3 DEF OriTables, Sessions
      <3>2. r \in [ent : [RecEntries -> [st : {"NONE", "Accept"}, tid : TIDs]],
                   idx : [TIDs -> 0..RecLen - 1], bm : SUBSET TIDs, num : 0..RecLen - 1]
        BY <2>1, <2>4 DEF RecTables
      <3> QED BY <2>1, <3>1, <3>2 DEF TypeOK, Shapes, Messages, Peers
    <2>6. RecTableAgrees
      <3>1. Used(r) = {i \in RecEntries : r.ent[i].st # "NONE"}
        BY <2>1, RecFields DEF Used
      <3> QED BY <2>1, <3>1 DEF RecAgrees, RecTableAgrees
    <2>7. OriTableAgrees
      <3> DEFINE used == {i \in OriEntries : o.ent[i].st # "NONE"}
                 dones == {i \in used : o.ent[i].st = "Done"}
                 busy == {fr[a] : a \in Actors}
      <3>1. used = Used(o) BY <2>1, UsedIs
      <3>2. dones = DoneIn(o) BY <2>1, UsedIs
      <3>3. \A i \in used \ busy : i # b BY <2>2, Constants DEF Frees
      <3> HIDE DEF used, dones, busy
      <3>4. /\ o.num = Cardinality(used) /\ o.done = Cardinality(dones)
            /\ \A i \in used \ busy : o.idx[o.ent[i].tid] = i
            /\ \A t \in TIDs : o.idx[t] # 0 => o.idx[t] \in used /\ o.ent[o.idx[t]].tid = t
            /\ o.bm = {o.ent[i].tid : i \in dones}
        BY <2>2, <3>1, <3>2, <3>3 DEF Agrees
      <3> QED BY <3>4 DEF OriTableAgrees, used, dones, busy
    <2> QED BY <2>5, <2>6, <2>7 DEF TableInv
  <1> QED BY <1>1, OriReached, PTL

(* There too a session that waits for a response has a timer that runs, is   *)
(* queued or being handled, or is being freed: BAOriSessionSetupTimeout ends *)
(* or repeats every request.                                                 *)
THEOREM TimedSafe ==
  ASSUME ~Preempt
  PROVE  SafeSpec => []WaitIsTimed
  <1>1. OriAll => WaitIsTimed
    <2> SUFFICES ASSUME OriAll PROVE WaitIsTimed OBVIOUS
    <2>1. PICK b \in 0..OriLen - 1 : Frees(b) /\ Timed(o, tq, trun, b)
      BY DEF OriAll, OriInv
    <2>2. \A i \in OriEntries : i = b => \E a \in Actors : fr[a] = i
      BY <2>1, Constants DEF Frees
    <2> QED BY <2>1, <2>2 DEF Timed, WaitIsTimed
  <1> QED BY <1>1, OriReached, PTL

(* A step taken while a timer's handler runs leaves the sessions that are    *)
(* set up as they are.                                                       *)
LEMMA SparedStep ==
  ASSUME ~Preempt, OriAll, Next, trun # 0, NEW t \in TIDs, OriDone(t)
  PROVE  OriDone(t)'
  <1>1. /\ o \in OriTables /\ trun \in OriEntries /\ td = NumTid
        /\ Agrees(o, 0) /\ Timed(o, tq, trun, 0)
    BY InsideFacts, Constants
  <1>2. \A a \in Actors : fr[a] = 0 BY InsideFacts
  <1>3. ~Calm BY DEF Calm
  <1>4. \A i : i \in Used(o) => i \in OriEntries BY <1>1, UsedIs
  <1>5. o.idx[t] # 0 /\ o.idx[t] \in OriEntries /\ o.ent[o.idx[t]].st = "Done"
    BY <1>1, <1>4 DEF OriDone, Agrees
  <1>6. SameBut(o, o') => OriDone(t)' BY <1>5 DEF OriDone, SameBut
  <1>7. ASSUME NEW i \in OriEntries, TimerFires(i) PROVE OriDone(t)'
    <2>1. o' = RTMPCancelTimer(o, i) BY <1>7 DEF TimerFires, RTMPCancelTimer
    <2> QED BY <1>1, <1>6, <2>1, CancelIs
  <1>8. CASE BAOriSessionSetupTimeout
    <2>1. SameBut(o, o') \/ o' = FreeOriEnter(o, trun) BY <1>8, TimeoutIs
    <2>2. CASE o' = FreeOriEnter(o, trun)
      <3>1. o.ent[trun].st = "WaitRes" BY <1>1 DEF Timed
      <3>2. o.idx[o.ent[trun].tid] = trun
        <4>1. trun \in Used(o) BY <1>1, <3>1, UsedIs
        <4> QED BY <1>1, <4>1 DEF Agrees
      <3>3. t # o.ent[trun].tid BY <1>5, <3>1, <3>2
      <3>4. /\ o'.ent = o.ent
            /\ \A u \in TIDs : o'.idx[u] = IF u = o.ent[trun].tid THEN 0 ELSE o.idx[u]
        BY <1>1, <2>2, EnterIs
      <3> QED BY <1>5, <3>3, <3>4 DEF OriDone
    <2> QED BY <1>6, <2>1, <2>2
  <1>9. CASE TimeoutInScan
    <2>1. o' = RTMPSetTimer(o, trun) BY <1>9 DEF TimeoutInScan
    <2> QED BY <1>1, <1>6, <2>1, SetTimerIs
  <1>10. /\ ~RtmpTimerQHandle /\ \A a \in Actors : ~BATableFreeOriEntry(a)
         /\ ~BASessionTearDownALL /\ \A ori, rec : ~TearDownOne(ori, rec)
    BY <1>1, <1>2, <1>3
       DEF RtmpTimerQHandle, BATableFreeOriEntry, BASessionTearDownALL, TearDownOne
  <1>11. \A u : /\ ~BAOriSessionSetUp(u) /\ ~BAOriSessionTearDown(u)
                /\ ~PeerStarts(u) /\ ~PeerEnds(u)
                /\ \A passive : ~BARecSessionTearDown(u, passive)
    BY <1>3 DEF BAOriSessionSetUp, BAOriSessionTearDown, PeerStarts, PeerEnds,
                BARecSessionTearDown
  <1>12. /\ ~MlmeADDBAAction /\ ~PeerAddBARspAction /\ ~PeerDelBAAction /\ ~PeerHears
         /\ \A decline : ~PeerAddBAReqAction(decline)
    BY <1>3 DEF Handle, MlmeADDBAAction, PeerAddBARspAction, PeerDelBAAction,
                PeerAddBAReqAction, PeerHears
  <1> QED BY <1>7, <1>8, <1>9, <1>10, <1>11, <1>12 DEF Next, Timers

(* Where threads do not preempt each other, the timeout of a request never   *)
(* ends a session that has been set up: BAOriSessionAdd cancels the timer    *)
(* also when it already waits in the timer thread's queue.                   *)
THEOREM DoneSafe ==
  ASSUME ~Preempt
  PROVE  SafeSpec => TimeoutSparesDone
  <1>1. OriAll /\ [Next]_vars =>
          [\A t \in TIDs : OriDone(t) /\ ~OriDone(t)' => trun = 0]_vars
    BY SparedStep
  <1> QED BY <1>1, OriReached, PTL DEF SafeSpec, TimeoutSparesDone
=============================================================================
