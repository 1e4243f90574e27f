---------------------------- MODULE BaAgreeProofs ----------------------------
(***************************************************************************)
(* Proofs about BaSession: when every frame has arrived both sides agree   *)
(* on the sessions, for tables and queues of any length.                   *)
(*                                                                         *)
(* The invariant relates, for each TID, the entry of this side and the     *)
(* state of the peer with the frames still on their way and their order:   *)
(* Sides below.  A queue is only ever taken from at its head and added to  *)
(* at its end, so one lemma per side and kind of step (Grows, Handles,     *)
(* Hears) carries it, and the actions are cases of those lemmas.           *)
(***************************************************************************)
EXTENDS BaSessionProofs

(* What follows place k of a queue *)
After(q, k) == {q[j] : j \in k + 1..Len(q)}

(* A TID has an entry, and a session that is set up. *)
Has(x, t) == x.idx[t] # 0
HasDone(x, t) == x.idx[t] # 0 /\ x.ent[x.idx[t]].st = "Done"

(* The originator's side of an agreement about one TID: x is the table and   *)
(* p what the peer accepts, m and u are the queue from and the queue to the  *)
(* peer.  A session that is set up, or that an acceptance in the queue will  *)
(* set up, is accepted by the peer or a DELBA of the peer follows; a DELBA   *)
(* that was sent precedes every request for the entry.                       *)
OriSide(x, p, m, u, t) ==
  /\ HasDone(x, t) => /\ DEL(t, "ORIGINATOR") \notin After(u, 0)
                      /\ t \in p \/ DEL(t, "RECIPIENT") \in After(m, 0)
  /\ Has(x, t) => \A k \in 1..Len(m) : m[k] = RSP(t, TRUE) =>
                    /\ DEL(t, "ORIGINATOR") \notin After(u, 0)
                    /\ t \in p \/ DEL(t, "RECIPIENT") \in After(m, k)
  /\ Has(x, t) => \A k \in 1..Len(u) : u[k] = REQ(t) =>
                    DEL(t, "ORIGINATOR") \notin After(u, k)

(* A request is queued that no DELBA follows. *)
Asked(m, t) ==
  \E k \in 1..Len(m) : m[k] = REQ(t) /\ DEL(t, "ORIGINATOR") \notin After(m, k)

(* The session is accepted, or will be, or one of these frames tells the     *)
(* peer that it is not.                                                      *)
Granted(y, m, s, t) ==
  \/ Has(y, t) /\ DEL(t, "ORIGINATOR") \notin After(m, 0)
  \/ Asked(m, t)
  \/ DEL(t, "RECIPIENT") \in s \/ RSP(t, FALSE) \in s

(* The recipient's side: y is the table and st the peer's state.  When the   *)
(* peer uses the session, or an acceptance on its way makes it, the session  *)
(* is granted.                                                               *)
RecSide(y, st, m, u, t) ==
  /\ st = "done" => Granted(y, m, After(u, 0), t)
  /\ st # "none" => \A k \in 1..Len(u) : u[k] = RSP(t, TRUE) =>
                      Granted(y, m, After(u, k), t)
  /\ st # "none" /\ REQ(t) \in After(m, 0) => Asked(m, t)

Sides ==
  \A t \in TIDs :
    OriSide(o, peer.rec, mq, out, t) /\ RecSide(r, peer.ori[t], mq, out, t)

-----------------------------------------------------------------------------
(* Queues *)
LEMMA AfterAdded ==
  ASSUME NEW S, NEW q \in Seq(S), NEW s \in Seq(S)
  PROVE  /\ q \o s \in Seq(S) /\ Len(q \o s) = Len(q) + Len(s)
         /\ \A k \in 1..Len(q) : (q \o s)[k] = q[k]
         /\ \A k \in Len(q) + 1..Len(q \o s) : (q \o s)[k] \in After(s, 0)
         /\ \A k \in 0..Len(q) : After(q \o s, k) = After(q, k) \cup After(s, 0)
         /\ \A k \in Len(q) + 1..Len(q \o s) : After(q \o s, k) \subseteq After(s, 0)
  <1> DEFINE p == q \o s
             n == Len(q)
             l == Len(s)
  <1>1. n \in Nat /\ l \in Nat OBVIOUS
  <1>2. /\ p \in Seq(S) /\ Len(p) = n + l
        /\ \A i \in 1..n + l : p[i] = IF i <= n THEN q[i] ELSE s[i - n]
    BY ConcatProperties
  <1> HIDE DEF p
  <1>3. /\ \A x, k : x \in After(q, k) <=> \E j \in k + 1..n : q[j] = x
        /\ \A x, k : x \in After(p, k) <=> \E j \in k + 1..Len(p) : p[j] = x
        /\ \A x : x \in After(s, 0) <=> \E j \in 0 + 1..l : s[j] = x
    BY DEF After
  <1> HIDE DEF n, l
  <1>4. \A k \in 1..n : p[k] = q[k] BY <1>1, <1>2
  <1>5. ASSUME NEW k \in n + 1..Len(p) PROVE p[k] = s[k - n] /\ p[k] \in After(s, 0)
    <2> DEFINE i == k - n
    <2>1. i \in 0 + 1..l /\ k \in 1..n + l /\ ~(k <= n) BY <1>1, <1>2
    <2>2. p[k] = s[i] BY <1>2, <2>1
    <2> HIDE DEF i
    <2>3. p[k] \in After(s, 0) BY <1>3, <2>1, <2>2
    <2> QED BY <2>2, <2>3 DEF i
  <1>6. ASSUME NEW j \in 0 + 1..l PROVE n + j \in n + 1..Len(p) /\ p[n + j] = s[j]
    <2> DEFINE k == n + j
    <2>1. k \in n + 1..Len(p) /\ k - n = j BY <1>1, <1>2
    <2>2. p[k] = s[k - n] BY <1>5, <2>1
    <2> QED BY <2>1, <2>2
  <1>7. ASSUME NEW k \in 0..n PROVE After(p, k) = After(q, k) \cup After(s, 0)
    <2>1. ASSUME NEW x \in After(p, k) PROVE x \in After(q, k) \cup After(s, 0)
      <3>1. PICK j \in k + 1..Len(p) : p[j] = x BY <1>3
      <3>2. CASE j <= n
        <4>1. j \in k + 1..n /\ j \in 1..n BY <1>1, <3>2
        <4> QED BY <1>3, <1>4, <3>1, <4>1
      <3>3. CASE j > n
        <4>1. j \in n + 1..Len(p) BY <1>1, <3>3
        <4> QED BY <1>5, <3>1, <4>1
      <3> QED BY <1>1, <3>2, <3>3
    <2>2. ASSUME NEW x \in After(q, k) PROVE x \in After(p, k)
      <3>1. PICK j \in k + 1..n : q[j] = x BY <1>3
      <3>2. j \in k + 1..Len(p) /\ j \in 1..n BY <1>1, <1>2
      <3> QED BY <1>3, <1>4, <3>1, <3>2
    <2>3. ASSUME NEW x \in After(s, 0) PROVE x \in After(p, k)
      <3>1. PICK j \in 0 + 1..l : s[j] = x BY <1>3
      <3> DEFINE i == n + j
      <3>2. i \in n + 1..Len(p) /\ p[i] = x BY <1>6, <3>1
      <3> HIDE DEF i
      <3>3. i \in k + 1..Len(p) BY <1>1, <3>2
      <3> QED BY <1>3, <3>2, <3>3
    <2> QED BY <2>1, <2>2, <2>3
  <1>8. ASSUME NEW k \in n + 1..Len(p) PROVE After(p, k) \subseteq After(s, 0)
    <2> SUFFICES ASSUME NEW x \in After(p, k) PROVE x \in After(s, 0) OBVIOUS
    <2>1. PICK j \in k + 1..Len(p) : p[j] = x BY <1>3
    <2>2. j \in n + 1..Len(p) BY <1>1
    <2> QED BY <1>5, <2>1, <2>2
  <1> QED BY <1>2, <1>4, <1>5, <1>7, <1>8 DEF p, n, l

LEMMA AfterTaken ==
  ASSUME NEW S, NEW q \in Seq(S), q # <<>>
  PROVE  /\ Tail(q) \in Seq(S) /\ Len(Tail(q)) = Len(q) - 1 /\ Len(q) \in Nat \ {0}
         /\ Head(q) = q[1]
         /\ \A k \in 1..Len(Tail(q)) : k + 1 \in 1..Len(q) /\ Tail(q)[k] = q[k + 1]
         /\ \A k \in 0..Len(Tail(q)) : After(Tail(q), k) = After(q, k + 1)
         /\ After(q, 0) = After(q, 1) \cup {Head(q)}
  <1> DEFINE p == Tail(q)
             n == Len(q)
  <1>1. n \in Nat \ {0} OBVIOUS
  <1>2. /\ p \in Seq(S) /\ Len(p) = n - 1 /\ Head(q) = q[1]
        /\ \A i \in 1..n - 1 : p[i] = q[i + 1]
    OBVIOUS
  <1> HIDE DEF p
  <1>3. /\ \A x, k : x \in After(q, k) <=> \E j \in k + 1..n : q[j] = x
        /\ \A x, k : x \in After(p, k) <=> \E j \in k + 1..Len(p) : p[j] = x
    BY DEF After
  <1> HIDE DEF n
  <1>4. ASSUME NEW k \in 0..Len(p) PROVE After(p, k) = After(q, k + 1)
    <2>1. ASSUME NEW x \in After(p, k) PROVE x \in After(q, k + 1)
      <3>1. PICK j \in k + 1..Len(p) : p[j] = x BY <1>3
      <3> DEFINE i == j + 1
      <3>2. i \in (k + 1) + 1..n /\ j \in 1..n - 1 BY <1>1, <1>2
      <3>3. q[i] = x BY <1>2, <3>1, <3>2
      <3> HIDE DEF i
      <3> QED BY <1>3, <3>2, <3>3
    <2>2. ASSUME NEW x \in After(q, k + 1) PROVE x \in After(p, k)
      <3>1. PICK j \in (k + 1) + 1..n : q[j] = x BY <1>3
      <3> DEFINE i == j - 1
      <3>2. i \in k + 1..Len(p) /\ i \in 1..n - 1 /\ i + 1 = j BY <1>1, <1>2
      <3> HIDE DEF i
      <3>3. p[i] = x BY <1>2, <3>1, <3>2
      <3> QED BY <1>3, <3>2, <3>3
    <2> QED BY <2>1, <2>2
  <1>5. \A k \in 1..Len(p) : k + 1 \in 1..n /\ p[k] = q[k + 1] BY <1>1, <1>2
  <1>6. ASSUME NEW x PROVE x \in After(q, 0) <=> x \in After(q, 1) \/ x = q[1]
    <2>1. \A j : j \in 0 + 1..n <=> j = 1 \/ j \in 1 + 1..n BY <1>1
    <2> QED BY <1>3, <2>1
  <1>7. After(q, 0) = After(q, 1) \cup {Head(q)} BY <1>2, <1>6
  <1> QED BY <1>1, <1>2, <1>4, <1>5, <1>7 DEF p, n

(* The messages of one TID are told apart. *)
LEMMA Kinds ==
  ASSUME NEW t
  PROVE  /\ REQ(t) # RSP(t, TRUE) /\ REQ(t) # RSP(t, FALSE)
         /\ REQ(t) # DEL(t, "ORIGINATOR") /\ REQ(t) # DEL(t, "RECIPIENT")
         /\ RSP(t, TRUE) # RSP(t, FALSE)
         /\ \A ok \in BOOLEAN, i \in {"ORIGINATOR", "RECIPIENT"} : RSP(t, ok) # DEL(t, i)
         /\ DEL(t, "ORIGINATOR") # DEL(t, "RECIPIENT")
  <1>1. REQ(t).k = "REQ" BY DEF REQ
  <1>2. \A ok \in BOOLEAN : RSP(t, ok).k = "RSP" /\ RSP(t, ok).ok = ok
    BY DEF RSP
  <1>3. \A i \in {"ORIGINATOR", "RECIPIENT"} :
          DEL(t, i).k = "DEL" /\ DEL(t, i).initiator = i
    BY DEF DEL
  <1>4. RSP(t, TRUE) # RSP(t, FALSE) BY <1>2
  <1>5. DEL(t, "ORIGINATOR") # DEL(t, "RECIPIENT") BY <1>3
  <1>6. \A ok \in BOOLEAN : REQ(t) # RSP(t, ok) BY <1>1, <1>2
  <1>7. \A i \in {"ORIGINATOR", "RECIPIENT"} : REQ(t) # DEL(t, i) BY <1>1, <1>3
  <1>8. \A ok \in BOOLEAN, i \in {"ORIGINATOR", "RECIPIENT"} : RSP(t, ok) # DEL(t, i)
    BY <1>2, <1>3
  <1> QED BY <1>4, <1>5, <1>6, <1>7, <1>8

-----------------------------------------------------------------------------
(* The originator's side *)

(* Messages and frames are added, or an entry is taken or given back. *)
LEMMA OriGrows ==
  ASSUME NEW m \in Seq(Messages), NEW u \in Seq(Messages),
         NEW s \in Seq(Messages), NEW v \in Seq(Messages),
         NEW x, NEW p, NEW t, NEW x1, NEW p1,
         OriSide(x, p, m, u, t),
         Has(x1, t) => \/ Has(x, t)
                       \/ RSP(t, TRUE) \notin After(m, 0) /\ REQ(t) \notin After(u, 0),
         HasDone(x1, t) => HasDone(x, t),
         Has(x1, t) => DEL(t, "ORIGINATOR") \notin After(v, 0),
         RSP(t, TRUE) \notin After(s, 0),
         t \in p => t \in p1 \/ DEL(t, "RECIPIENT") \in After(s, 0)
  PROVE  OriSide(x1, p1, m \o s, u \o v, t)
  <1> DEFINE m1 == m \o s
             u1 == u \o v
  <1>m. /\ Len(m) \in Nat /\ Len(m1) = Len(m) + Len(s) /\ Len(s) \in Nat
        /\ \A k \in 1..Len(m) : m1[k] = m[k]
        /\ \A k \in Len(m) + 1..Len(m1) : m1[k] \in After(s, 0)
        /\ \A k \in 0..Len(m) : After(m1, k) = After(m, k) \cup After(s, 0)
    BY AfterAdded
  <1>u. /\ Len(u) \in Nat /\ Len(u1) = Len(u) + Len(v) /\ Len(v) \in Nat
        /\ \A k \in 1..Len(u) : u1[k] = u[k]
        /\ \A k \in 0..Len(u) : After(u1, k) = After(u, k) \cup After(v, 0)
        /\ \A k \in Len(u) + 1..Len(u1) : After(u1, k) \subseteq After(v, 0)
    BY AfterAdded
  <1> HIDE DEF m1, u1
  <1>i. /\ \A k \in 1..Len(m) : m[k] \in After(m, 0)
        /\ \A k \in 1..Len(u) : u[k] \in After(u, 0)
    BY DEF After
  <1>0. 0 \in 0..Len(m) /\ 0 \in 0..Len(u) BY <1>m, <1>u
  <1>1. ASSUME HasDone(x1, t)
        PROVE  /\ DEL(t, "ORIGINATOR") \notin After(u1, 0)
               /\ t \in p1 \/ DEL(t, "RECIPIENT") \in After(m1, 0)
    BY <1>0, <1>1, <1>m, <1>u DEF OriSide, Has, HasDone
  <1>2. ASSUME Has(x1, t), NEW k \in 1..Len(m1), m1[k] = RSP(t, TRUE)
        PROVE  /\ DEL(t, "ORIGINATOR") \notin After(u1, 0)
               /\ t \in p1 \/ DEL(t, "RECIPIENT") \in After(m1, k)
    <2>1. ~(k \in Len(m) + 1..Len(m1)) BY <1>2, <1>m
    <2>2. k \in 1..Len(m) /\ k \in 0..Len(m) BY <2>1, <1>m
    <2>3. m[k] = RSP(t, TRUE) BY <1>2, <1>m, <2>2
    <2>4. Has(x, t) BY <1>2, <1>i, <2>2, <2>3
    <2>5. /\ DEL(t, "ORIGINATOR") \notin After(u, 0)
          /\ t \in p \/ DEL(t, "RECIPIENT") \in After(m, k)
      BY <2>2, <2>3, <2>4 DEF OriSide
    <2> QED BY <1>0, <1>2, <1>m, <1>u, <2>2, <2>5
  <1>3. ASSUME Has(x1, t), NEW k \in 1..Len(u1), u1[k] = REQ(t)
        PROVE  DEL(t, "ORIGINATOR") \notin After(u1, k)
    <2>1. CASE k \in Len(u) + 1..Len(u1) BY <1>3, <1>u, <2>1
    <2>2. CASE k \in 1..Len(u)
      <3>0. k \in 0..Len(u) BY <1>u, <2>2
      <3>1. u[k] = REQ(t) BY <1>3, <1>u, <2>2
      <3>2. Has(x, t) BY <1>3, <1>i, <2>2, <3>1
      <3>3. DEL(t, "ORIGINATOR") \notin After(u, k)
        BY <2>2, <3>1, <3>2 DEF OriSide
      <3> QED BY <1>3, <1>u, <3>0, <3>3
    <2> QED BY <2>1, <2>2, <1>u
  <1> QED BY <1>1, <1>2, <1>3 DEF OriSide, m1, u1

(* A message is handled and frames are sent. *)
LEMMA OriHandles ==
  ASSUME NEW m \in Seq(Messages), NEW u \in Seq(Messages), NEW v \in Seq(Messages), m # <<>>,
         NEW x, NEW p, NEW t, NEW x1,
         OriSide(x, p, m, u, t),
         Has(x1, t) => Has(x, t) /\ DEL(t, "ORIGINATOR") \notin After(v, 0),
         HasDone(x1, t) => \/ HasDone(x, t) /\ Head(m) # DEL(t, "RECIPIENT")
                           \/ Head(m) = RSP(t, TRUE)
  PROVE  OriSide(x1, p, Tail(m), u \o v, t)
  <1> DEFINE m1 == Tail(m)
             u1 == u \o v
  <1>m. /\ Len(m) \in Nat \ {0} /\ Len(m1) = Len(m) - 1 /\ Head(m) = m[1]
        /\ \A k \in 1..Len(m1) : k + 1 \in 1..Len(m) /\ m1[k] = m[k + 1]
        /\ \A k \in 0..Len(m1) : After(m1, k) = After(m, k + 1)
        /\ After(m, 0) = After(m, 1) \cup {Head(m)}
    BY AfterTaken
  <1>u. /\ Len(u) \in Nat /\ Len(u1) = Len(u) + Len(v) /\ Len(v) \in Nat
        /\ \A k \in 1..Len(u) : u1[k] = u[k]
        /\ \A k \in 0..Len(u) : After(u1, k) = After(u, k) \cup After(v, 0)
    BY AfterAdded
  <1>v. \A k \in Len(u) + 1..Len(u1) : After(u1, k) \subseteq After(v, 0)
    BY AfterAdded
  <1> HIDE DEF m1, u1
  <1>0. /\ 0 \in 0..Len(m1) /\ 0 + 1 = 1 /\ 1 \in 1..Len(m) /\ 0 \in 0..Len(u)
    BY <1>m, <1>u
  <1>1. ASSUME HasDone(x1, t)
        PROVE  /\ DEL(t, "ORIGINATOR") \notin After(u1, 0)
               /\ t \in p \/ DEL(t, "RECIPIENT") \in After(m1, 0)
    <2>0. Has(x1, t) /\ Has(x, t) BY <1>1 DEF Has, HasDone
    <2>1. After(m1, 0) = After(m, 1) BY <1>0, <1>m
    <2>2. DEL(t, "ORIGINATOR") \notin After(u, 0)
      BY <1>0, <1>1, <1>m, <2>0 DEF OriSide
    <2>3. t \in p \/ DEL(t, "RECIPIENT") \in After(m, 1)
      BY <1>0, <1>1, <1>m, <2>0 DEF OriSide
    <2> QED BY <1>0, <1>1, <1>u, <2>0, <2>1, <2>2, <2>3
  <1>2. ASSUME Has(x1, t), NEW k \in 1..Len(m1), m1[k] = RSP(t, TRUE)
        PROVE  /\ DEL(t, "ORIGINATOR") \notin After(u1, 0)
               /\ t \in p \/ DEL(t, "RECIPIENT") \in After(m1, k)
    <2> DEFINE j == k + 1
    <2>0. k \in 0..Len(m1) BY <1>m
    <2>1. j \in 1..Len(m) /\ m[j] = RSP(t, TRUE) /\ After(m1, k) = After(m, j)
      BY <1>2, <1>m, <2>0
    <2> HIDE DEF j
    <2>2. /\ DEL(t, "ORIGINATOR") \notin After(u, 0)
          /\ t \in p \/ DEL(t, "RECIPIENT") \in After(m, j)
      BY <1>2, <2>1 DEF OriSide
    <2> QED BY <1>0, <1>2, <1>u, <2>1, <2>2
  <1>3. ASSUME Has(x1, t), NEW k \in 1..Len(u1), u1[k] = REQ(t)
        PROVE  DEL(t, "ORIGINATOR") \notin After(u1, k)
    <2>1. CASE k \in Len(u) + 1..Len(u1) BY <1>3, <1>v, <2>1
    <2>2. CASE k \in 1..Len(u)
      <3>0. k \in 0..Len(u) BY <1>u, <2>2
      <3>1. u[k] = REQ(t) BY <1>3, <1>u, <2>2
      <3>3. DEL(t, "ORIGINATOR") \notin After(u, k)
        BY <1>3, <2>2, <3>1 DEF OriSide
      <3> QED BY <1>3, <1>u, <3>0, <3>3
    <2> QED BY <2>1, <2>2, <1>u
  <1> QED BY <1>1, <1>2, <1>3 DEF OriSide, m1, u1

(* The peer hears a frame and sends messages. *)
LEMMA OriHears ==
  ASSUME NEW m \in Seq(Messages), NEW u \in Seq(Messages), NEW s \in Seq(Messages), u # <<>>,
         NEW x, NEW p, NEW t, NEW p1,
         OriSide(x, p, m, u, t),
         RSP(t, TRUE) \in After(s, 0) => Head(u) = REQ(t) /\ t \in p1,
         t \in p => t \in p1 \/ Head(u) = DEL(t, "ORIGINATOR")
  PROVE  OriSide(x, p1, m \o s, Tail(u), t)
  <1> DEFINE m1 == m \o s
             u1 == Tail(u)
  <1>m. /\ Len(m) \in Nat /\ Len(m1) = Len(m) + Len(s) /\ Len(s) \in Nat
        /\ \A k \in 1..Len(m) : m1[k] = m[k]
        /\ \A k \in Len(m) + 1..Len(m1) : m1[k] \in After(s, 0)
        /\ \A k \in 0..Len(m) : After(m1, k) = After(m, k) \cup After(s, 0)
    BY AfterAdded
  <1>u. /\ Len(u) \in Nat \ {0} /\ Len(u1) = Len(u) - 1 /\ Head(u) = u[1]
        /\ \A k \in 1..Len(u1) : k + 1 \in 1..Len(u) /\ u1[k] = u[k + 1]
        /\ \A k \in 0..Len(u1) : After(u1, k) = After(u, k + 1)
        /\ After(u, 0) = After(u, 1) \cup {Head(u)}
    BY AfterTaken
  <1> HIDE DEF m1, u1
  <1>0. /\ 0 \in 0..Len(u1) /\ 0 + 1 = 1 /\ 1 \in 1..Len(u) /\ 0 \in 0..Len(m)
        /\ After(u1, 0) = After(u, 1)
    BY <1>m, <1>u
  <1>1. ASSUME HasDone(x, t)
        PROVE  /\ DEL(t, "ORIGINATOR") \notin After(u1, 0)
               /\ t \in p1 \/ DEL(t, "RECIPIENT") \in After(m1, 0)
    BY <1>0, <1>1, <1>m, <1>u DEF OriSide, Has, HasDone
  <1>2. ASSUME Has(x, t), NEW k \in 1..Len(m1), m1[k] = RSP(t, TRUE)
        PROVE  /\ DEL(t, "ORIGINATOR") \notin After(u1, 0)
               /\ t \in p1 \/ DEL(t, "RECIPIENT") \in After(m1, k)
    <2>1. CASE k \in Len(m) + 1..Len(m1)
      <3>1. Head(u) = REQ(t) /\ t \in p1 BY <1>2, <1>m, <2>1
      <3>2. DEL(t, "ORIGINATOR") \notin After(u, 1)
        BY <1>0, <1>2, <1>u, <3>1 DEF OriSide
      <3> QED BY <1>0, <3>1, <3>2
    <2>2. CASE k \in 1..Len(m)
      <3>0. k \in 0..Len(m) BY <1>m, <2>2
      <3>1. m[k] = RSP(t, TRUE) BY <1>2, <1>m, <2>2
      <3>2. /\ DEL(t, "ORIGINATOR") \notin After(u, 0)
            /\ t \in p \/ DEL(t, "RECIPIENT") \in After(m, k)
        BY <1>2, <2>2, <3>1 DEF OriSide
      <3> QED BY <1>0, <1>m, <1>u, <3>0, <3>1, <3>2
    <2> QED BY <2>1, <2>2, <1>m
  <1>3. ASSUME Has(x, t), NEW k \in 1..Len(u1), u1[k] = REQ(t)
        PROVE  DEL(t, "ORIGINATOR") \notin After(u1, k)
    <2> DEFINE j == k + 1
    <2>0. k \in 0..Len(u1) BY <1>u
    <2>1. j \in 1..Len(u) /\ u[j] = REQ(t) /\ After(u1, k) = After(u, j)
      BY <1>3, <1>u, <2>0
    <2> HIDE DEF j
    <2> QED BY <1>3, <2>1 DEF OriSide
  <1> QED BY <1>1, <1>2, <1>3 DEF OriSide, m1, u1

-----------------------------------------------------------------------------
(* The recipient's side *)
LEMMA AskedMore ==
  ASSUME NEW m \in Seq(Messages), NEW s \in Seq(Messages), NEW t, Asked(m, t),
         DEL(t, "ORIGINATOR") \notin After(s, 0)
  PROVE  Asked(m \o s, t)
  <1> DEFINE m1 == m \o s
  <1>m. /\ Len(m) \in Nat /\ Len(m1) = Len(m) + Len(s) /\ Len(s) \in Nat
        /\ \A k \in 1..Len(m) : m1[k] = m[k]
        /\ \A k \in 0..Len(m) : After(m1, k) = After(m, k) \cup After(s, 0)
    BY AfterAdded
  <1> HIDE DEF m1
  <1>1. PICK k \in 1..Len(m) : m[k] = REQ(t) /\ DEL(t, "ORIGINATOR") \notin After(m, k)
    BY DEF Asked
  <1>2. k \in 0..Len(m) /\ k \in 1..Len(m1) BY <1>m
  <1>3. m1[k] = REQ(t) /\ DEL(t, "ORIGINATOR") \notin After(m1, k)
    BY <1>m, <1>1, <1>2
  <1> QED BY <1>2, <1>3 DEF Asked, m1

(* Messages other than requests and DELBAs of the originator are added, an   *)
(* entry is taken, or given back with a DELBA.                               *)
LEMMA RecGrows ==
  ASSUME NEW m \in Seq(Messages), NEW u \in Seq(Messages),
         NEW s \in Seq(Messages), NEW v \in Seq(Messages),
         NEW y, NEW y1, NEW st, NEW t,
         RecSide(y, st, m, u, t),
         DEL(t, "ORIGINATOR") \notin After(s, 0), REQ(t) \notin After(s, 0),
         Has(y, t) => Has(y1, t) \/ DEL(t, "RECIPIENT") \in After(v, 0),
         RSP(t, TRUE) \notin After(v, 0)
  PROVE  RecSide(y1, st, m \o s, u \o v, t)
  <1> DEFINE m1 == m \o s
             u1 == u \o v
  <1>m. After(m1, 0) = After(m, 0) \cup After(s, 0)
    <2>1. Len(m) \in Nat /\ 0 \in 0..Len(m) OBVIOUS
    <2> QED BY <2>1, AfterAdded
  <1>u. /\ Len(u) \in Nat /\ Len(u1) = Len(u) + Len(v) /\ Len(v) \in Nat
        /\ \A k \in 1..Len(u) : u1[k] = u[k]
        /\ \A k \in Len(u) + 1..Len(u1) : u1[k] \in After(v, 0)
        /\ \A k \in 0..Len(u) : After(u1, k) = After(u, k) \cup After(v, 0)
    BY AfterAdded
  <1>a. Asked(m, t) => Asked(m1, t) BY AskedMore
  <1> HIDE DEF m1, u1
  <1>g. ASSUME NEW k \in 0..Len(u), Granted(y, m, After(u, k), t)
        PROVE  Granted(y1, m1, After(u1, k), t)
    BY <1>a, <1>g, <1>m, <1>u DEF Granted
  <1>1. ASSUME st = "done" PROVE Granted(y1, m1, After(u1, 0), t)
    <2>1. 0 \in 0..Len(u) BY <1>u
    <2> QED BY <1>1, <1>g, <2>1 DEF RecSide
  <1>2. ASSUME st # "none", NEW k \in 1..Len(u1), u1[k] = RSP(t, TRUE)
        PROVE  Granted(y1, m1, After(u1, k), t)
    <2>1. ~(k \in Len(u) + 1..Len(u1)) BY <1>2, <1>u
    <2>2. k \in 1..Len(u) /\ k \in 0..Len(u) BY <2>1, <1>u
    <2>3. u[k] = RSP(t, TRUE) BY <1>2, <1>u, <2>2
    <2> QED BY <1>2, <1>g, <2>2, <2>3 DEF RecSide
  <1>3. ASSUME st # "none", REQ(t) \in After(m1, 0) PROVE Asked(m1, t)
    BY <1>3, <1>a, <1>m DEF RecSide
  <1> QED BY <1>1, <1>2, <1>3 DEF RecSide, m1, u1

(* The peer's request is queued. *)
LEMMA RecAsks ==
  ASSUME NEW m \in Seq(Messages), NEW u, NEW y, NEW t, REQ(t) \in Messages
  PROVE  RecSide(y, "wait", m \o <<REQ(t)>>, u, t)
  <1> DEFINE s == <<REQ(t)>>
             m1 == m \o s
  <1>1. s \in Seq(Messages) /\ Len(s) = 1 /\ s[1] = REQ(t) OBVIOUS
  <1>2. /\ Len(m) \in Nat /\ m1 \in Seq(Messages) /\ Len(m1) = Len(m) + 1
        /\ m1[Len(m) + 1] \in After(s, 0)
    <2>0. Len(m) \in Nat /\ Len(m1) = Len(m) + 1 OBVIOUS
    <2> HIDE DEF s
    <2>1. Len(m) + 1 \in Len(m) + 1..Len(m1) /\ Len(m1) = Len(m) + 1
      BY <1>1, <2>0
    <2> HIDE DEF m1
    <2>2. \A k \in Len(m) + 1..Len(m1) : m1[k] \in After(s, 0)
      BY <1>1, AfterAdded DEF m1
    <2>3. m1 \in Seq(Messages) BY <1>1 DEF m1
    <2> QED BY <2>0, <2>1, <2>2, <2>3
  <1>3. After(s, 0) = {REQ(t)}
    <2> HIDE DEF s
    <2>1. \A j : j \in 0 + 1..Len(s) <=> j = 1 BY <1>1
    <2> QED BY <1>1, <2>1 DEF After
  <1> HIDE DEF s, m1
  <1> DEFINE k == Len(m) + 1
  <1>4. k \in 1..Len(m1) /\ m1[k] = REQ(t) BY <1>2, <1>3
  <1>5. \A j : j \notin k + 1..Len(m1) BY <1>2
  <1> HIDE DEF k
  <1>6. DEL(t, "ORIGINATOR") \notin After(m1, k) BY <1>5 DEF After
  <1>7. Asked(m1, t) BY <1>4, <1>6 DEF Asked
  <1> QED BY <1>7 DEF RecSide, Granted, m1, s

(* A message is handled and frames are sent. *)
LEMMA RecHandles ==
  ASSUME NEW m \in Seq(Messages), NEW u \in Seq(Messages), NEW v \in Seq(Messages), m # <<>>,
         NEW y, NEW y1, NEW st, NEW t,
         RecSide(y, st, m, u, t),
         Has(y, t) => Has(y1, t) \/ Head(m) = DEL(t, "ORIGINATOR"),
         Head(m) = REQ(t) => Has(y1, t) \/ RSP(t, FALSE) \in After(v, 0),
         RSP(t, TRUE) \in After(v, 0) =>
           Head(m) = REQ(t) /\ Has(y1, t) /\ RSP(t, FALSE) \notin After(v, 0)
  PROVE  RecSide(y1, st, Tail(m), u \o v, t)
  <1> DEFINE m1 == Tail(m)
             u1 == u \o v
  <1>m. /\ Len(m) \in Nat \ {0} /\ Len(m1) = Len(m) - 1 /\ Head(m) = m[1]
        /\ \A k \in 1..Len(m1) : k + 1 \in 1..Len(m) /\ m1[k] = m[k + 1]
        /\ \A k \in 0..Len(m1) : After(m1, k) = After(m, k + 1)
        /\ After(m, 0) = After(m, 1) \cup {Head(m)}
    BY AfterTaken
  <1>u. /\ Len(u) \in Nat /\ Len(u1) = Len(u) + Len(v) /\ Len(v) \in Nat
        /\ \A k \in 1..Len(u) : u1[k] = u[k]
        /\ \A k \in Len(u) + 1..Len(u1) : u1[k] \in After(v, 0)
        /\ \A k \in 0..Len(u) : After(u1, k) = After(u, k) \cup After(v, 0)
    BY AfterAdded
  <1> HIDE DEF m1, u1
  <1>0. After(m1, 0) = After(m, 1)
    <2>1. 0 \in 0..Len(m1) /\ 0 + 1 = 1 BY <1>m
    <2> QED BY <2>1, <1>m
  <1>a. ASSUME Asked(m, t)
        PROVE  \/ Asked(m1, t)
               \/ Head(m) = REQ(t) /\ DEL(t, "ORIGINATOR") \notin After(m1, 0)
    <2>1. PICK k \in 1..Len(m) : m[k] = REQ(t) /\ DEL(t, "ORIGINATOR") \notin After(m, k)
      BY <1>a DEF Asked
    <2>2. CASE k = 1 BY <1>0, <1>m, <2>1, <2>2
    <2>3. CASE k # 1
      <3> DEFINE j == k - 1
      <3>1. j \in 1..Len(m1) /\ j \in 0..Len(m1) /\ j + 1 = k BY <1>m, <2>3
      <3> HIDE DEF j
      <3>2. m1[j] = REQ(t) /\ After(m1, j) = After(m, k) BY <1>m, <2>1, <3>1
      <3> QED BY <2>1, <3>1, <3>2 DEF Asked
    <2> QED BY <2>2, <2>3
  <1>g. ASSUME NEW s, NEW s1, Granted(y, m, s, t), s1 = s \cup After(v, 0)
        PROVE  Granted(y1, m1, s1, t)
    BY <1>0, <1>a, <1>g, <1>m DEF Granted
  <1>1. ASSUME st = "done" PROVE Granted(y1, m1, After(u1, 0), t)
    <2>1. 0 \in 0..Len(u) BY <1>u
    <2>2. After(u1, 0) = After(u, 0) \cup After(v, 0) BY <1>u, <2>1
    <2> QED BY <1>1, <1>g, <2>2 DEF RecSide
  <1>2. ASSUME st # "none", NEW k \in 1..Len(u1), u1[k] = RSP(t, TRUE)
        PROVE  Granted(y1, m1, After(u1, k), t)
    <2>1. CASE k \in Len(u) + 1..Len(u1)
      <3>1. Head(m) = REQ(t) /\ Has(y1, t) BY <1>2, <1>u, <2>1
      <3>2. Asked(m, t) BY <1>2, <1>m, <3>1 DEF RecSide
      <3>3. Asked(m1, t) \/ DEL(t, "ORIGINATOR") \notin After(m1, 0)
        BY <1>a, <3>2
      <3> QED BY <3>1, <3>3 DEF Granted
    <2>2. CASE k \in 1..Len(u)
      <3>1. u[k] = RSP(t, TRUE) /\ After(u1, k) = After(u, k) \cup After(v, 0)
        <4>1. k \in 0..Len(u) BY <1>u, <2>2
        <4> QED BY <1>2, <1>u, <2>2, <4>1
      <3> QED BY <1>2, <1>g, <2>2, <3>1 DEF RecSide
    <2> QED BY <2>1, <2>2, <1>u
  <1>3. ASSUME st # "none", REQ(t) \in After(m1, 0) PROVE Asked(m1, t)
    <2>1. Asked(m, t) BY <1>0, <1>3, <1>m DEF RecSide
    <2>2. CASE DEL(t, "ORIGINATOR") \notin After(m1, 0)
      <3>1. PICK k \in 0 + 1..Len(m1) : m1[k] = REQ(t) BY <1>3 DEF After
      <3>2. k \in 1..Len(m1) BY <1>m
      <3>3. After(m1, k) \subseteq After(m1, 0)
        <4>1. \A j \in k + 1..Len(m1) : j \in 0 + 1..Len(m1) BY <1>m
        <4> QED BY <4>1 DEF After
      <3> QED BY <2>2, <3>1, <3>2, <3>3 DEF Asked
    <2> QED BY <1>a, <2>1, <2>2
  <1> QED BY <1>1, <1>2, <1>3 DEF RecSide, m1, u1

(* The peer hears a frame and sends messages. *)
LEMMA RecHears ==
  ASSUME NEW m \in Seq(Messages), NEW u \in Seq(Messages), NEW s \in Seq(Messages), u # <<>>,
         NEW y, NEW st, NEW st1, NEW t,
         RecSide(y, st, m, u, t),
         DEL(t, "ORIGINATOR") \notin After(s, 0), REQ(t) \notin After(s, 0),
         \/ st1 = "none"
         \/ st1 = st /\ Head(u) # RSP(t, FALSE) /\ Head(u) # DEL(t, "RECIPIENT")
         \/ st1 = "done" /\ st = "wait" /\ Head(u) = RSP(t, TRUE)
  PROVE  RecSide(y, st1, m \o s, Tail(u), t)
  <1> DEFINE m1 == m \o s
             u1 == Tail(u)
  <1>m. After(m1, 0) = After(m, 0) \cup After(s, 0)
    <2>1. Len(m) \in Nat /\ 0 \in 0..Len(m) OBVIOUS
    <2> QED BY <2>1, AfterAdded
  <1>u. /\ Len(u) \in Nat \ {0} /\ Len(u1) = Len(u) - 1 /\ Head(u) = u[1]
        /\ \A k \in 1..Len(u1) : k + 1 \in 1..Len(u) /\ u1[k] = u[k + 1]
        /\ \A k \in 0..Len(u1) : After(u1, k) = After(u, k + 1)
        /\ After(u, 0) = After(u, 1) \cup {Head(u)}
    BY AfterTaken
  <1>a. Asked(m, t) => Asked(m1, t) BY AskedMore
  <1> HIDE DEF m1, u1
  <1>0. After(u1, 0) = After(u, 1) /\ 1 \in 1..Len(u)
    <2>1. 0 \in 0..Len(u1) /\ 0 + 1 = 1 /\ 1 \in 1..Len(u) BY <1>u
    <2> QED BY <2>1, <1>u
  <1>g. \A f : Granted(y, m, f, t) => Granted(y, m1, f, t)
    BY <1>a, <1>m DEF Granted
  <1>1. ASSUME st1 = "done" PROVE Granted(y, m1, After(u1, 0), t)
    <2>1. CASE st = "done" /\ Head(u) # RSP(t, FALSE) /\ Head(u) # DEL(t, "RECIPIENT")
      <3>1. Granted(y, m, After(u, 0), t) BY <2>1 DEF RecSide
      <3>2. Granted(y, m, After(u, 1), t) BY <1>u, <2>1, <3>1 DEF Granted
      <3> QED BY <1>0, <1>g, <3>2
    <2>2. CASE st = "wait" /\ Head(u) = RSP(t, TRUE)
      <3>1. Granted(y, m, After(u, 1), t) BY <1>0, <1>u, <2>2 DEF RecSide
      <3> QED BY <1>0, <1>g, <3>1
    <2> QED BY <1>1, <2>1, <2>2
  <1>2. ASSUME st1 # "none", NEW k \in 1..Len(u1), u1[k] = RSP(t, TRUE)
        PROVE  Granted(y, m1, After(u1, k), t)
    <2> DEFINE j == k + 1
    <2>0. k \in 0..Len(u1) BY <1>u
    <2>1. j \in 1..Len(u) /\ u[j] = RSP(t, TRUE) /\ After(u1, k) = After(u, j)
      BY <1>2, <1>u, <2>0
    <2> HIDE DEF j
    <2>2. st # "none" BY <1>2
    <2> QED BY <1>g, <2>1, <2>2 DEF RecSide
  <1>3. ASSUME st1 # "none", REQ(t) \in After(m1, 0) PROVE Asked(m1, t)
    <2>1. st # "none" BY <1>3
    <2> QED BY <1>3, <1>a, <1>m, <2>1 DEF RecSide
  <1> QED BY <1>1, <1>2, <1>3 DEF RecSide, m1, u1

-----------------------------------------------------------------------------
(* Messages and what is added to a queue *)
LEMMA NoneAdded ==
  ASSUME NEW S, NEW q \in Seq(S)
  PROVE  q \o <<>> = q /\ <<>> \in Seq(S) /\ After(<<>>, 0) = {}
  <1>1. q \o <<>> = q /\ <<>> \in Seq(S) OBVIOUS
  <1>2. \A j : j \notin 0 + 1..Len(<<>>) OBVIOUS
  <1>3. After(<<>>, 0) = {} BY <1>2 DEF After
  <1> QED BY <1>1, <1>3

LEMMA OneAdded ==
  ASSUME NEW S, NEW q \in Seq(S), NEW x \in S
  PROVE  Append(q, x) = q \o <<x>> /\ <<x>> \in Seq(S) /\ After(<<x>>, 0) = {x}
  <1> DEFINE s == <<x>>
  <1>1. s \in Seq(S) /\ Len(s) = 1 /\ s[1] = x OBVIOUS
  <1>2. Append(q, x) = q \o s OBVIOUS
  <1> HIDE DEF s
  <1>3. \A j : j \in 0 + 1..Len(s) <=> j = 1 BY <1>1
  <1>4. After(s, 0) = {x} BY <1>1, <1>3 DEF After
  <1> QED BY <1>1, <1>2, <1>4 DEF s

LEMMA TwoAdded ==
  ASSUME NEW S, NEW q \in Seq(S), NEW a \in Seq(S), NEW b \in Seq(S)
  PROVE  /\ q \o a \o b = q \o (a \o b) /\ a \o b \in Seq(S)
         /\ After(a \o b, 0) = After(a, 0) \cup After(b, 0)
  <1>1. q \o a \o b = q \o (a \o b) /\ a \o b \in Seq(S) OBVIOUS
  <1>2. 0 \in 0..Len(a) OBVIOUS
  <1> QED BY <1>1, <1>2, AfterAdded

LEMMA Fields ==
  ASSUME NEW t
  PROVE  /\ REQ(t).k = "REQ" /\ REQ(t).t = t /\ ADDBA(t).k = "ADDBA" /\ ADDBA(t).t = t
         /\ \A ok : RSP(t, ok).k = "RSP" /\ RSP(t, ok).t = t /\ RSP(t, ok).ok = ok
         /\ \A i : DEL(t, i).k = "DEL" /\ DEL(t, i).t = t /\ DEL(t, i).initiator = i
  BY DEF REQ, RSP, DEL, ADDBA

LEMMA Which ==
  ASSUME NEW m \in Messages
  PROVE  /\ m.k = "REQ" => m = REQ(m.t)
         /\ m.k = "RSP" => m.ok \in BOOLEAN /\ m = RSP(m.t, m.ok)
         /\ m.k = "DEL" => /\ m.initiator \in {"ORIGINATOR", "RECIPIENT"}
                           /\ m = DEL(m.t, m.initiator)
  <1>1. CASE \E t \in TIDs : m = REQ(t)
    <2>1. PICK t \in TIDs : m = REQ(t) BY <1>1
    <2>2. m.k = "REQ" /\ m.t = t BY <2>1, Fields
    <2> QED BY <2>1, <2>2
  <1>2. CASE \E t \in TIDs, ok \in BOOLEAN : m = RSP(t, ok)
    <2>1. PICK t \in TIDs, ok \in BOOLEAN : m = RSP(t, ok) BY <1>2
    <2>2. m.k = "RSP" /\ m.t = t /\ m.ok = ok BY <2>1, Fields
    <2>3. m.k # "REQ" /\ m.k # "DEL" BY <2>2
    <2> QED BY <2>1, <2>2, <2>3
  <1>3. CASE \E t \in TIDs, i \in {"ORIGINATOR", "RECIPIENT"} : m = DEL(t, i)
    <2>1. PICK t \in TIDs, i \in {"ORIGINATOR", "RECIPIENT"} : m = DEL(t, i)
      BY <1>3
    <2>2. m.k = "DEL" /\ m.t = t /\ m.initiator = i BY <2>1 DEF DEL
    <2>3. m.k # "REQ" /\ m.k # "RSP" BY <2>2
    <2> QED BY <2>1, <2>2, <2>3
  <1>4. CASE \E t \in TIDs : m = ADDBA(t) BY <1>4, Fields
  <1> QED BY <1>1, <1>2, <1>3, <1>4 DEF Messages, Frame

-----------------------------------------------------------------------------
(* The tables: which TIDs an operation takes an entry or a session from *)
(* No TID gains an entry or a session. *)
Fewer(x, y) ==
  \A t \in TIDs : (Has(y, t) => Has(x, t)) /\ (HasDone(y, t) => HasDone(x, t))

LEMMA FewerSame ==
  ASSUME NEW x \in OriTables, NEW y, SameBut(x, y), NEW b, Agrees(x, b)
  PROVE  Fewer(x, y)
  <1> SUFFICES ASSUME NEW t \in TIDs
               PROVE  (Has(y, t) => Has(x, t)) /\ (HasDone(y, t) => HasDone(x, t))
    BY DEF Fewer
  <1>1. y.idx[t] = x.idx[t] BY DEF SameBut
  <1>2. x.idx[t] # 0 => x.idx[t] \in OriEntries BY UsedIs DEF Agrees
  <1>3. x.idx[t] # 0 => y.ent[x.idx[t]].st = x.ent[x.idx[t]].st
    BY <1>2 DEF SameBut
  <1> QED BY <1>1, <1>3 DEF Has, HasDone

LEMMA FewerEnter ==
  ASSUME NEW x \in OriTables, NEW i \in OriEntries
  PROVE  /\ Fewer(x, FreeOriEnter(x, i))
         /\ FreeOriEnter(x, i) \in OriTables
         /\ ~Has(FreeOriEnter(x, i), x.ent[i].tid)
  <1> DEFINE y == FreeOriEnter(x, i)
  <1>1. /\ y \in OriTables /\ y.ent = x.ent
        /\ \A t \in TIDs : y.idx[t] = IF t = x.ent[i].tid THEN 0 ELSE x.idx[t]
    BY EnterIs
  <1>2. x.ent[i].tid \in TIDs BY OriFields
  <1> HIDE DEF y
  <1>3. Fewer(x, y) BY <1>1 DEF Fewer, Has, HasDone
  <1> QED BY <1>1, <1>2, <1>3 DEF Has, y

LEMMA FewerLocked ==
  ASSUME NEW x \in OriTables, NEW i \in OriEntries, Agrees(x, i)
  PROVE  /\ Fewer(x, FreeOriLocked(x, i))
         /\ \A t \in TIDs : ~Has(x, t) => ~Has(FreeOriLocked(x, i), t)
  <1> DEFINE y == FreeOriLocked(x, i)
  <1>1. /\ y.idx = x.idx
        /\ \A j \in OriEntries : y.ent[j].st = IF j = i THEN "NONE" ELSE x.ent[j].st
    BY ZenonT(60), LockedIs
  <1> HIDE DEF y
  <1>2. \A t \in TIDs : x.idx[t] # 0 => x.idx[t] \in OriEntries
    BY UsedIs DEF Agrees
  <1>3. Fewer(x, y) BY <1>1, <1>2 DEF Fewer, Has, HasDone
  <1> QED BY <1>1, <1>3 DEF Has, y

LEMMA FewerTwice ==
  ASSUME NEW x, NEW y, NEW z, Fewer(x, y), Fewer(y, z)
  PROVE  Fewer(x, z)
  BY DEF Fewer

(* The end of a session as recipient *)
LEMMA RecEndIs ==
  ASSUME NEW x \in RecTables, RecAgrees(x), NEW t \in TIDs, x.idx[t] # 0
  PROVE  \A u \in TIDs : RecEnd(x, t).idx[u] = IF u = t THEN 0 ELSE x.idx[u]
  <1> DEFINE i == x.idx[t]
             z == [x EXCEPT !.bm = @ \ {t}, !.idx[t] = 0]
             y == RecEnd(x, t)
             f == [x.idx EXCEPT ![t] = 0]
  <1>1. i \in RecEntries /\ x.ent[i].tid = t BY RecUsedIs DEF RecAgrees
  <1>2. z.ent = x.ent /\ z.idx = f BY DEF RecTables
  <1>3. /\ f \in [TIDs -> 0..RecLen - 1]
        /\ \A u \in TIDs : f[u] = IF u = t THEN 0 ELSE x.idx[u]
    BY RecFields, Constants
  <1>4. z \in RecTables
    <2>1. z = [x EXCEPT !.bm = x.bm \ {t}, !.idx = f] BY DEF RecTables
    <2> HIDE DEF z, f
    <2> QED BY <1>3, <2>1 DEF RecTables
  <1>5. y = BATableFreeRecEntry(z, i) BY DEF RecEnd
  <1> HIDE DEF i, z, y, f
  <1>6. y.idx = [z.idx EXCEPT ![z.ent[i].tid] = 0]
    BY <1>4, <1>5 DEF BATableFreeRecEntry, RecTables
  <1>7. y.idx = [f EXCEPT ![t] = 0] BY <1>1, <1>2, <1>6
  <1> QED BY <1>3, <1>7 DEF y

(* A request is granted or there is no entry left. *)
LEMMA RecAddIs ==
  ASSUME NEW x \in RecTables, RecAgrees(x), NEW t \in TIDs
  PROVE  \A u \in TIDs : Has(x, u) => Has(RecAdd(x, t), u)
  <1> DEFINE a == IF x.idx[t] # 0 THEN [e |-> x.idx[t], i |-> x.idx[t]]
                  ELSE BATableAllocRecEntry(x)
             y == RecAdd(x, t)
  <1>1. CASE a.e = 0 BY <1>1 DEF RecAdd
  <1>2. CASE a.e # 0
    <2>1. y = [x EXCEPT !.idx[t] = a.i, !.bm = @ \cup {t},
                        !.num = IF x.idx[t] = 0 /\ a.i # 0 THEN @ + 1 ELSE @,
                        !.ent[a.e] = [st |-> "Accept", tid |-> t]]
      BY <1>2 DEF RecAdd
    <2>2. x.idx[t] # 0 => a.i = x.idx[t] OBVIOUS
    <2> HIDE DEF a, y
    <2>3. y.idx = [x.idx EXCEPT ![t] = a.i] BY <2>1 DEF RecTables
    <2>4. x.idx \in [TIDs -> 0..RecLen - 1] BY RecFields
    <2>5. \A u \in TIDs : y.idx[u] = IF u = t THEN a.i ELSE x.idx[u]
      BY <2>3, <2>4
    <2>6. \A u \in TIDs : Has(x, u) => Has(y, u) BY <2>2, <2>5 DEF Has
    <2> QED BY <2>6 DEF y
  <1> QED BY <1>1, <1>2

-----------------------------------------------------------------------------
(* The three kinds of steps, for all TIDs *)
LEMMA SidesThen ==
  ASSUME \A t \in TIDs : /\ OriSide(o', peer'.rec, mq', out', t)
                         /\ RecSide(r', peer'.ori[t], mq', out', t)
  PROVE  Sides'
  BY DEF Sides, OriSide, RecSide, Granted, Asked, After, Has, HasDone

LEMMA QueueTypes == Shapes => mq \in Seq(Messages) /\ out \in Seq(Messages)
  <1> SUFFICES ASSUME Shapes PROVE mq \in Seq(Messages) /\ out \in Seq(Messages)
    OBVIOUS
  <1>1. Frame \subseteq Messages /\ mq \in Seq(Messages) /\ out \in Seq(Frame)
    BY FrameTypes DEF Shapes
  <1> QED BY <1>1

(* Messages s and frames v are added. *)
LEMMA GrowsStep ==
  ASSUME Shapes, Sides, NEW s \in Seq(Messages), NEW v \in Seq(Messages),
         mq' = mq \o s, out' = out \o v,
         \A t \in TIDs :
           /\ Has(o', t) => \/ Has(o, t)
                            \/ RSP(t, TRUE) \notin After(mq, 0) /\ REQ(t) \notin After(out, 0)
           /\ HasDone(o', t) => HasDone(o, t)
           /\ Has(o', t) => DEL(t, "ORIGINATOR") \notin After(v, 0)
           /\ RSP(t, TRUE) \notin After(s, 0)
           /\ t \in peer.rec => t \in peer'.rec \/ DEL(t, "RECIPIENT") \in After(s, 0),
         \A t \in TIDs :
           \/ RecSide(r', peer'.ori[t], mq', out', t)
           \/ /\ DEL(t, "ORIGINATOR") \notin After(s, 0) /\ REQ(t) \notin After(s, 0)
              /\ Has(r, t) => Has(r', t) \/ DEL(t, "RECIPIENT") \in After(v, 0)
              /\ RSP(t, TRUE) \notin After(v, 0)
              /\ peer'.ori[t] = peer.ori[t]
  PROVE  Sides'
  <1>0. mq \in Seq(Messages) /\ out \in Seq(Messages) BY QueueTypes
  <1> SUFFICES ASSUME NEW t \in TIDs
               PROVE  /\ OriSide(o', peer'.rec, mq', out', t)
                      /\ RecSide(r', peer'.ori[t], mq', out', t)
    BY SidesThen
  <1>1. OriSide(o, peer.rec, mq, out, t) /\ RecSide(r, peer.ori[t], mq, out, t)
    BY DEF Sides
  <1>2. OriSide(o', peer'.rec, mq \o s, out \o v, t) BY <1>0, <1>1, OriGrows
  <1>3. RecSide(r', peer'.ori[t], mq', out', t)
    <2>1. \/ RecSide(r', peer'.ori[t], mq', out', t)
          \/ /\ DEL(t, "ORIGINATOR") \notin After(s, 0) /\ REQ(t) \notin After(s, 0)
             /\ Has(r, t) => Has(r', t) \/ DEL(t, "RECIPIENT") \in After(v, 0)
             /\ RSP(t, TRUE) \notin After(v, 0)
             /\ peer'.ori[t] = peer.ori[t]
      OBVIOUS
    <2>2. CASE /\ DEL(t, "ORIGINATOR") \notin After(s, 0) /\ REQ(t) \notin After(s, 0)
               /\ Has(r, t) => Has(r', t) \/ DEL(t, "RECIPIENT") \in After(v, 0)
               /\ RSP(t, TRUE) \notin After(v, 0)
               /\ peer'.ori[t] = peer.ori[t]
      <3>1. RecSide(r', peer.ori[t], mq \o s, out \o v, t)
        BY <1>0, <1>1, <2>2, RecGrows
      <3> QED BY <2>2, <3>1
    <2> QED BY <2>1, <2>2
  <1> QED BY <1>2, <1>3

(* The first message is handled and frames v are sent. *)
LEMMA HandlesStep ==
  ASSUME Shapes, Sides, NEW v \in Seq(Messages), mq # <<>>,
         mq' = Tail(mq), out' = out \o v, peer' = peer,
         \A t \in TIDs :
           /\ Has(o', t) => Has(o, t) /\ DEL(t, "ORIGINATOR") \notin After(v, 0)
           /\ HasDone(o', t) => \/ HasDone(o, t) /\ Head(mq) # DEL(t, "RECIPIENT")
                                \/ Head(mq) = RSP(t, TRUE)
           /\ Has(r, t) => Has(r', t) \/ Head(mq) = DEL(t, "ORIGINATOR")
           /\ Head(mq) = REQ(t) => Has(r', t) \/ RSP(t, FALSE) \in After(v, 0)
           /\ RSP(t, TRUE) \in After(v, 0) =>
                Head(mq) = REQ(t) /\ Has(r', t) /\ RSP(t, FALSE) \notin After(v, 0)
  PROVE  Sides'
  <1>0. mq \in Seq(Messages) /\ out \in Seq(Messages) BY QueueTypes
  <1> SUFFICES ASSUME NEW t \in TIDs
               PROVE  /\ OriSide(o', peer'.rec, mq', out', t)
                      /\ RecSide(r', peer'.ori[t], mq', out', t)
    BY SidesThen
  <1>1. OriSide(o, peer.rec, mq, out, t) /\ RecSide(r, peer.ori[t], mq, out, t)
    BY DEF Sides
  <1>2. OriSide(o', peer.rec, Tail(mq), out \o v, t) BY <1>0, <1>1, OriHandles
  <1>3. RecSide(r', peer.ori[t], Tail(mq), out \o v, t)
    BY <1>0, <1>1, RecHandles
  <1> QED BY <1>2, <1>3

(* The peer hears the first frame and sends messages s. *)
LEMMA HearsStep ==
  ASSUME Shapes, Sides, NEW s \in Seq(Messages), out # <<>>,
         mq' = mq \o s, out' = Tail(out), o' = o, r' = r,
         \A t \in TIDs :
           /\ RSP(t, TRUE) \in After(s, 0) => Head(out) = REQ(t) /\ t \in peer'.rec
           /\ t \in peer.rec => t \in peer'.rec \/ Head(out) = DEL(t, "ORIGINATOR")
           /\ DEL(t, "ORIGINATOR") \notin After(s, 0) /\ REQ(t) \notin After(s, 0)
           /\ \/ peer'.ori[t] = "none"
              \/ /\ peer'.ori[t] = peer.ori[t]
                 /\ Head(out) # RSP(t, FALSE) /\ Head(out) # DEL(t, "RECIPIENT")
              \/ /\ peer'.ori[t] = "done" /\ peer.ori[t] = "wait"
                 /\ Head(out) = RSP(t, TRUE)
  PROVE  Sides'
  <1>0. mq \in Seq(Messages) /\ out \in Seq(Messages) BY QueueTypes
  <1> SUFFICES ASSUME NEW t \in TIDs
               PROVE  /\ OriSide(o', peer'.rec, mq', out', t)
                      /\ RecSide(r', peer'.ori[t], mq', out', t)
    BY SidesThen
  <1>1. OriSide(o, peer.rec, mq, out, t) /\ RecSide(r, peer.ori[t], mq, out, t)
    BY DEF Sides
  <1>2. OriSide(o, peer'.rec, mq \o s, Tail(out), t) BY <1>0, <1>1, OriHears
  <1>3. RecSide(r, peer'.ori[t], mq \o s, Tail(out), t) BY <1>0, <1>1, RecHears
  <1> QED BY <1>2, <1>3

-----------------------------------------------------------------------------
(* What the actions do to the table of sessions as originator *)
LEMMA DownTakes ==
  ASSUME ~Preempt, OriAll, Calm, NEW a \in Actors, NEW t \in TIDs, NEW passive,
         NEW force, OriDown(a, t, passive, force)
  PROVE  /\ Fewer(o, o') /\ ~Has(o', t)
         /\ out' = out \/ out' = Append(out, DEL(t, "ORIGINATOR"))
         /\ passive /\ ~force => out' = out
  <1> DEFINE i == o.idx[t]
             z == RTMPCancelTimer(o, i)
  <1>1. o \in OriTables /\ Agrees(o, 0) BY CalmFacts
  <1>2. /\ out' = out \/ out' = Append(out, DEL(t, "ORIGINATOR"))
        /\ passive /\ ~force => out' = out
    BY DEF OriDown, Send
  <1>3. CASE i = 0
    <2>1. o' = o BY <1>3 DEF OriDown
    <2> QED BY <1>2, <1>3, <2>1 DEF Fewer, Has
  <1>4. CASE i # 0
    <2>1. i \in OriEntries /\ o.ent[i].st # "NONE" /\ o.ent[i].tid = t
      BY <1>1, <1>4, UsedIs DEF Agrees
    <2>2. o' = FreeOriEnter(z, i) BY <1>4, <2>1 DEF OriDown
    <2> HIDE DEF i
    <2>3. z \in OriTables /\ SameBut(o, z) BY <1>1, <2>1, CancelIs
    <2> HIDE DEF z
    <2>4. Fewer(o, z) BY <1>1, <2>3, FewerSame
    <2>5. z.ent[i].tid = t BY <2>1, <2>3 DEF SameBut
    <2>6. Fewer(z, o') /\ ~Has(o', t) BY <2>1, <2>2, <2>3, <2>5, FewerEnter
    <2> QED BY <1>2, <2>4, <2>6, FewerTwice
  <1> QED BY <1>3, <1>4

LEMMA OneTakes ==
  ASSUME OriAll, NEW ori, NEW rec, TearDownOne(ori, rec), ori # "kept"
  PROVE  Fewer(o, o') /\ ~Has(o', td) /\ td \in TIDs
  <1> DEFINE i == o.idx[td]
             z == RTMPCancelTimer(o, i)
             w == FreeOriEnter(z, i)
  <1>1. /\ td # NumTid
        /\ IF i = 0 THEN o' = o
           ELSE o' = IF o.ent[i].st = "NONE" THEN z ELSE FreeOriLocked(w, i)
    BY DEF TearDownOne
  <1>2. o \in OriTables /\ Agrees(o, 0) BY <1>1, InsideFacts
  <1>3. td \in TIDs BY <1>1, Constants DEF OriAll, RecInv, Shapes, TIDs
  <1>4. CASE i = 0
    BY <1>1, <1>3, <1>4 DEF Fewer, Has
  <1>5. CASE i # 0
    <2>1. i \in Used(o) /\ i \in OriEntries /\ o.ent[i].st # "NONE" /\ o.ent[i].tid = td
      BY <1>2, <1>3, <1>5, UsedIs DEF Agrees
    <2>2. o' = FreeOriLocked(w, i) BY <1>1, <1>5, <2>1
    <2> HIDE DEF i
    <2>3. z \in OriTables /\ SameBut(o, z) BY <1>2, <2>1, CancelIs
    <2> HIDE DEF z
    <2>4. Fewer(o, z) /\ Agrees(z, 0) BY <1>2, <2>3, FewerSame, AgreesSame
    <2>5. z.ent[i].tid = td /\ i \in Used(z) BY <2>1, <2>3, UsedIs DEF SameBut
    <2>6. Fewer(z, w) /\ w \in OriTables /\ ~Has(w, td)
      BY <2>1, <2>3, <2>5, FewerEnter
    <2>7. Agrees(w, i) BY <2>1, <2>3, <2>4, <2>5, AgreesEnter
    <2> HIDE DEF w
    <2>8. Fewer(w, o') /\ ~Has(o', td)
      BY <1>3, <2>1, <2>2, <2>6, <2>7, FewerLocked
    <2>9. Fewer(o, w) BY <2>4, <2>6, FewerTwice
    <2> QED BY <1>3, <2>8, <2>9, FewerTwice
  <1> QED BY <1>4, <1>5

LEMMA AddTakes ==
  ASSUME ~Preempt, OriAll, Calm, NEW t \in TIDs, Awaited(t), o' = OriAdd(o, t)
  PROVE  \A u \in TIDs : /\ Has(o', u) => Has(o, u)
                         /\ HasDone(o', u) => HasDone(o, u) \/ u = t
  <1> DEFINE y == OriAdd(o, t)
             i == o.idx[t]
  <1>1. o \in OriTables /\ Agrees(o, 0) BY CalmFacts
  <1>2. i # 0 BY DEF Awaited
  <1>3. /\ y.idx = o.idx
        /\ \A j \in OriEntries : y.ent[j].st = IF j = i THEN "Done" ELSE o.ent[j].st
    BY <1>1, <1>2, AddIs
  <1> HIDE DEF y
  <1>4. ASSUME NEW u \in TIDs, HasDone(y, u), u # t PROVE HasDone(o, u)
    <2>1. o.idx[u] # 0 BY <1>3, <1>4 DEF HasDone
    <2>2. o.idx[u] \in OriEntries /\ o.ent[o.idx[u]].tid = u
      BY <1>1, <2>1, UsedIs DEF Agrees
    <2>3. o.ent[i].tid = t BY DEF Awaited
    <2>4. o.idx[u] # i BY <1>4, <2>2, <2>3
    <2> QED BY <1>3, <1>4, <2>1, <2>2, <2>4 DEF HasDone
  <1> QED BY <1>3, <1>4 DEF Has, y

LEMMA SetUpTakes ==
  ASSUME ~Preempt, OriAll, NEW t \in TIDs, BAOriSessionSetUp(t)
  PROVE  \A u \in TIDs : /\ Has(o', u) => Has(o, u) \/ u = t
                         /\ HasDone(o', u) => HasDone(o, u)
  <1> DEFINE a == IF o.idx[t] # 0 THEN [e |-> o.idx[t], i |-> o.idx[t]]
                  ELSE BATableAllocOriEntry(o)
             y == SetUpEntry(o, t, a.e, a.i)
  <1>0. Calm /\ a.e # 0 /\ o.ent[a.e].st \notin {"WaitRes", "Done"} /\ o' = y
    BY DEF BAOriSessionSetUp
  <1>1. o \in OriTables /\ Agrees(o, 0) BY <1>0, CalmFacts
  <1>2. o.idx[t] = 0
    <2> SUFFICES ASSUME o.idx[t] # 0 PROVE FALSE OBVIOUS
    <2>1. a.e \in OriEntries /\ o.ent[a.e].st # "NONE"
      BY <1>1, UsedIs DEF Agrees
    <2> HIDE DEF a
    <2> QED BY <1>0, <1>1, <2>1, OriFields
  <1>3. a = AllocEntry(o.ent, o.num, OriLen - 1)
    BY <1>2 DEF BATableAllocOriEntry
  <1> HIDE DEF a
  <1>4. a.e \in OriEntries /\ a.i = a.e /\ o.ent[a.e].st = "NONE"
    <2>1. OriLen - 1 \in Nat /\ DOMAIN o.ent = 1..OriLen - 1 /\ OriEntries = 1..OriLen - 1
      BY <1>1, OriFields, Constants DEF OriEntries
    <2>2. o.num = Cardinality({i \in DOMAIN o.ent : o.ent[i].st # "NONE"})
      BY <1>1 DEF Agrees, Used
    <2> QED BY ZenonT(60), <1>0, <1>3, <2>1, <2>2, AllocIs
  <1>5. a.e \in 0..OriLen - 1 BY <1>4, Constants
  <1>6. y = SetUpEntry(o, t, a.e, a.e) BY <1>4
  <1>7. /\ \A u \in TIDs : y.idx[u] = IF u = t THEN a.e ELSE o.idx[u]
        /\ \A j \in OriEntries :
             y.ent[j].st = IF j = a.e THEN "WaitRes" ELSE o.ent[j].st
    BY <1>1, <1>4, <1>5, <1>6, SetUpIs
  <1> HIDE DEF y
  <1>8. ASSUME NEW u \in TIDs, HasDone(y, u) PROVE HasDone(o, u)
    <2>1. u # t BY <1>4, <1>7, <1>8 DEF HasDone
    <2>2. y.idx[u] = o.idx[u] /\ o.idx[u] # 0 BY <1>7, <1>8, <2>1 DEF HasDone
    <2>3. o.idx[u] \in OriEntries /\ o.ent[o.idx[u]].st # "NONE"
      BY <1>1, <2>2, UsedIs DEF Agrees
    <2>4. o.idx[u] # a.e BY <1>4, <2>3
    <2> QED BY <1>7, <1>8, <2>2, <2>3, <2>4 DEF HasDone
  <1>9. \A u \in TIDs : Has(y, u) => Has(o, u) \/ u = t BY <1>7 DEF Has
  <1> QED BY <1>0, <1>8, <1>9

(* Settled is said of all that is queued. *)
LEMMA AfterAll ==
  ASSUME NEW S, NEW q \in Seq(S)
  PROVE  After(q, 0) = ToSet(q)
  <1>1. \A x : x \in ToSet(q) <=> \E j \in 1..Len(q) : q[j] = x BY InToSet
  <1>2. \A x : x \in After(q, 0) <=> \E j \in 0 + 1..Len(q) : q[j] = x
    BY DEF After
  <1>3. 0 + 1 = 1 OBVIOUS
  <1>4. \A x : x \in After(q, 0) <=> x \in ToSet(q) BY <1>1, <1>2, <1>3
  <1> QED BY <1>4

-----------------------------------------------------------------------------
(* Steps that add nothing to the queues, steps that add one message or frame *)
LEMMA IdleStep ==
  ASSUME Shapes, Sides, mq' = mq, out' = out, peer' = peer, Fewer(o, o'),
         \A t \in TIDs : Has(r, t) => Has(r', t)
  PROVE  Sides'
  <1>1. mq \in Seq(Messages) /\ out \in Seq(Messages) BY QueueTypes
  <1>2. mq' = mq \o <<>> /\ out' = out \o <<>> BY <1>1, NoneAdded
  <1>3. <<>> \in Seq(Messages) /\ After(<<>>, 0) = {} BY <1>1, NoneAdded
  <1> DEFINE e == <<>>
  <1> HIDE DEF e
  <1>4. e \in Seq(Messages) /\ mq' = mq \o e /\ out' = out \o e /\ After(e, 0) = {}
    BY <1>2, <1>3 DEF e
  <1>5. \A t \in TIDs :
          /\ Has(o', t) => \/ Has(o, t)
                           \/ RSP(t, TRUE) \notin After(mq, 0) /\ REQ(t) \notin After(out, 0)
          /\ HasDone(o', t) => HasDone(o, t)
          /\ Has(o', t) => DEL(t, "ORIGINATOR") \notin After(e, 0)
          /\ RSP(t, TRUE) \notin After(e, 0)
          /\ t \in peer.rec => t \in peer'.rec \/ DEL(t, "RECIPIENT") \in After(e, 0)
    BY <1>4 DEF Fewer
  <1>6. \A t \in TIDs :
          \/ RecSide(r', peer'.ori[t], mq', out', t)
          \/ /\ DEL(t, "ORIGINATOR") \notin After(e, 0) /\ REQ(t) \notin After(e, 0)
             /\ Has(r, t) => Has(r', t) \/ DEL(t, "RECIPIENT") \in After(e, 0)
             /\ RSP(t, TRUE) \notin After(e, 0)
             /\ peer'.ori[t] = peer.ori[t]
    BY <1>4
  <1> QED BY <1>4, <1>5, <1>6, GrowsStep

(* The side of one message in the queue *)
LEMMA SayStep ==
  ASSUME Shapes, Sides, NEW f \in Messages, mq' = Append(mq, f), out' = out,
         Fewer(o, o'), r' = r,
         \A t \in TIDs :
           /\ RSP(t, TRUE) # f
           /\ t \in peer.rec => t \in peer'.rec \/ DEL(t, "RECIPIENT") = f
           /\ \/ RecSide(r', peer'.ori[t], mq', out', t)
              \/ /\ DEL(t, "ORIGINATOR") # f /\ REQ(t) # f
                 /\ peer'.ori[t] = peer.ori[t]
  PROVE  Sides'
  <1> DEFINE s == <<f>>
             e == <<>>
  <1>1. mq \in Seq(Messages) /\ out \in Seq(Messages) BY QueueTypes
  <1>2. s \in Seq(Messages) /\ mq' = mq \o s /\ After(s, 0) = {f}
    BY <1>1, OneAdded
  <1>3. e \in Seq(Messages) /\ out' = out \o e /\ After(e, 0) = {}
    BY <1>1, NoneAdded
  <1> HIDE DEF s, e
  <1>4. \A t \in TIDs :
          /\ Has(o', t) => \/ Has(o, t)
                           \/ RSP(t, TRUE) \notin After(mq, 0) /\ REQ(t) \notin After(out, 0)
          /\ HasDone(o', t) => HasDone(o, t)
          /\ Has(o', t) => DEL(t, "ORIGINATOR") \notin After(e, 0)
          /\ RSP(t, TRUE) \notin After(s, 0)
          /\ t \in peer.rec => t \in peer'.rec \/ DEL(t, "RECIPIENT") \in After(s, 0)
    BY <1>2, <1>3 DEF Fewer
  <1>5. \A t \in TIDs :
          \/ RecSide(r', peer'.ori[t], mq', out', t)
          \/ /\ DEL(t, "ORIGINATOR") \notin After(s, 0) /\ REQ(t) \notin After(s, 0)
             /\ Has(r, t) => Has(r', t) \/ DEL(t, "RECIPIENT") \in After(e, 0)
             /\ RSP(t, TRUE) \notin After(e, 0)
             /\ peer'.ori[t] = peer.ori[t]
    BY <1>2, <1>3
  <1> QED BY <1>2, <1>3, <1>4, <1>5, GrowsStep

(* DELBA frames v go to the peer. *)
LEMMA EndStep ==
  ASSUME Shapes, Sides, NEW v \in Seq(Messages), mq' = mq, out' = out \o v, peer' = peer,
         Fewer(o, o'),
         \A t \in TIDs : /\ Has(o', t) => DEL(t, "ORIGINATOR") \notin After(v, 0)
                         /\ Has(r, t) => Has(r', t) \/ DEL(t, "RECIPIENT") \in After(v, 0)
                         /\ RSP(t, TRUE) \notin After(v, 0)
  PROVE  Sides'
  <1> DEFINE e == <<>>
  <1>1. mq \in Seq(Messages) /\ out \in Seq(Messages) BY QueueTypes
  <1>2. e \in Seq(Messages) /\ mq' = mq \o e /\ After(e, 0) = {}
    BY <1>1, NoneAdded
  <1> HIDE DEF e
  <1>3. \A t \in TIDs :
          /\ Has(o', t) => \/ Has(o, t)
                           \/ RSP(t, TRUE) \notin After(mq, 0) /\ REQ(t) \notin After(out, 0)
          /\ HasDone(o', t) => HasDone(o, t)
          /\ Has(o', t) => DEL(t, "ORIGINATOR") \notin After(v, 0)
          /\ RSP(t, TRUE) \notin After(e, 0)
          /\ t \in peer.rec => t \in peer'.rec \/ DEL(t, "RECIPIENT") \in After(e, 0)
    BY <1>2 DEF Fewer
  <1>4. \A t \in TIDs :
          \/ RecSide(r', peer'.ori[t], mq', out', t)
          \/ /\ DEL(t, "ORIGINATOR") \notin After(e, 0) /\ REQ(t) \notin After(e, 0)
             /\ Has(r, t) => Has(r', t) \/ DEL(t, "RECIPIENT") \in After(v, 0)
             /\ RSP(t, TRUE) \notin After(v, 0)
             /\ peer'.ori[t] = peer.ori[t]
    BY <1>2
  <1> QED BY <1>2, <1>3, <1>4, GrowsStep

LEMMA DelOnly ==
  ASSUME NEW t, NEW i
  PROVE  \A u : /\ REQ(u) # DEL(t, i) /\ \A ok : RSP(u, ok) # DEL(t, i)
                /\ \A j : DEL(u, j) = DEL(t, i) => u = t /\ j = i
  <1>1. DEL(t, i).k = "DEL" /\ DEL(t, i).t = t /\ DEL(t, i).initiator = i
    BY Fields
  <1> TAKE u
  <1>2. REQ(u) # DEL(t, i) BY <1>1, Fields
  <1>3. \A ok : RSP(u, ok) # DEL(t, i) BY <1>1 DEF RSP
  <1>4. \A j : DEL(u, j) = DEL(t, i) => u = t /\ j = i BY <1>1 DEF DEL
  <1> QED BY <1>2, <1>3, <1>4

LEMMA RspOnly ==
  ASSUME NEW t, NEW b
  PROVE  \A u : /\ REQ(u) # RSP(t, b) /\ \A i : DEL(u, i) # RSP(t, b)
                /\ \A ok : RSP(u, ok) = RSP(t, b) => u = t /\ ok = b
  <1>1. RSP(t, b).k = "RSP" /\ RSP(t, b).t = t /\ RSP(t, b).ok = b BY DEF RSP
  <1> TAKE u
  <1>2. REQ(u) # RSP(t, b) BY <1>1, Fields
  <1>3. \A i : DEL(u, i) # RSP(t, b) BY <1>1 DEF DEL
  <1>4. \A ok : RSP(u, ok) = RSP(t, b) => u = t /\ ok = b BY <1>1 DEF RSP
  <1> QED BY <1>2, <1>3, <1>4

LEMMA ReqOnly ==
  ASSUME NEW t
  PROVE  \A u : /\ \A i : DEL(u, i) # REQ(t)
                /\ \A ok : RSP(u, ok) # REQ(t)
                /\ REQ(u) = REQ(t) => u = t
  <1>1. REQ(t).k = "REQ" /\ REQ(t).t = t BY Fields
  <1> TAKE u
  <1>2. \A i : DEL(u, i) # REQ(t) BY <1>1 DEF DEL
  <1>3. \A ok : RSP(u, ok) # REQ(t) BY <1>1 DEF RSP
  <1>4. REQ(u) = REQ(t) => u = t BY <1>1, Fields
  <1> QED BY <1>2, <1>3, <1>4

LEMMA AddbaOnly ==
  ASSUME NEW f, f.k = "ADDBA"
  PROVE  \A u : REQ(u) # f /\ (\A i : DEL(u, i) # f) /\ (\A ok : RSP(u, ok) # f)
  <1> TAKE u
  <1>1. REQ(u) # f BY Fields
  <1>2. \A i : DEL(u, i) # f BY DEF DEL
  <1>3. \A ok : RSP(u, ok) # f BY DEF RSP
  <1> QED BY <1>1, <1>2, <1>3

-----------------------------------------------------------------------------
(* The steps *)
LEMMA TearDownSides ==
  ASSUME OriAll, Sides, NEW ori, NEW rec, ori = "sent", rec = "sent",
         TearDownOne(ori, rec)
  PROVE  Sides'
  <1> DEFINE t == td
             d == DEL(t, "ORIGINATOR")
             c == DEL(t, "RECIPIENT")
             a == IF o.idx[t] # 0 /\ OriDone(t) THEN <<d>> ELSE <<>>
             b == IF r.idx[t] # 0 THEN <<c>> ELSE <<>>
             v == a \o b
  <1>s. Shapes /\ r \in RecTables /\ RecAgrees(r) BY DEF OriAll, RecInv, Shapes
  <1>1. /\ out' = out \o a \o b /\ mq' = mq /\ peer' = peer
        /\ r' = IF r.idx[t] = 0 THEN r ELSE RecEnd(r, t)
    BY DEF TearDownOne
  <1>2. Fewer(o, o') /\ ~Has(o', t) /\ t \in TIDs BY OneTakes
  <1>3. out \in Seq(Messages) BY <1>s, QueueTypes
  <1>4. d \in Messages /\ c \in Messages BY <1>2, FrameTypes
  <1> HIDE DEF d, c, t
  <1>5. a \in Seq(Messages) /\ After(a, 0) \subseteq {d}
    BY <1>3, <1>4, NoneAdded, OneAdded
  <1>6. /\ b \in Seq(Messages) /\ After(b, 0) \subseteq {c}
        /\ r.idx[t] # 0 => c \in After(b, 0)
    <2>1. CASE r.idx[t] # 0 BY <1>3, <1>4, <2>1, OneAdded
    <2>2. CASE r.idx[t] = 0 BY <1>3, <2>2, NoneAdded
    <2> QED BY <2>1, <2>2
  <1> HIDE DEF a, b
  <1>7. out' = out \o v /\ v \in Seq(Messages) /\ After(v, 0) = After(a, 0) \cup After(b, 0)
    <2>1. out \in Seq(Messages) /\ a \in Seq(Messages) /\ b \in Seq(Messages)
      BY <1>3, <1>5, <1>6
    <2>2. /\ out \o a \o b = out \o (a \o b) /\ a \o b \in Seq(Messages)
          /\ After(a \o b, 0) = After(a, 0) \cup After(b, 0)
      BY <2>1, TwoAdded
    <2> QED BY <1>1, <2>2
  <1> HIDE DEF v
  <1>8. /\ After(v, 0) \subseteq {d, c}
        /\ Has(r, t) => c \in After(v, 0)
    BY <1>5, <1>6, <1>7 DEF Has
  <1>9. \A u \in TIDs : Has(r, u) /\ u # t => Has(r', u)
    BY <1>1, <1>2, <1>s, RecEndIs DEF Has
  <1>10. ASSUME NEW u \in TIDs
         PROVE  /\ Has(o', u) => DEL(u, "ORIGINATOR") \notin After(v, 0)
                /\ Has(r, u) => Has(r', u) \/ DEL(u, "RECIPIENT") \in After(v, 0)
                /\ RSP(u, TRUE) \notin After(v, 0)
    <2>1. RSP(u, TRUE) # d /\ RSP(u, TRUE) # c BY DelOnly DEF d, c
    <2>2. DEL(u, "ORIGINATOR") = d => u = t BY DelOnly DEF d
    <2>3. DEL(u, "ORIGINATOR") # c BY DelOnly DEF c
    <2>4. u = t => DEL(u, "RECIPIENT") = c BY DEF c
    <2> QED BY <1>2, <1>8, <1>9, <2>1, <2>2, <2>3, <2>4
  <1> QED BY <1>s, <1>1, <1>2, <1>7, <1>10, EndStep

(* A DELBA of this side *)
LEMMA DelSides ==
  ASSUME Shapes, Sides, NEW t \in TIDs, NEW i \in {"ORIGINATOR", "RECIPIENT"},
         mq' = mq, peer' = peer, Fewer(o, o'), out' = Append(out, DEL(t, i)),
         i = "ORIGINATOR" => ~Has(o', t),
         \A u \in TIDs : Has(r, u) => Has(r', u) \/ (u = t /\ i = "RECIPIENT")
  PROVE  Sides'
  <1> DEFINE d == DEL(t, i)
             v == <<d>>
  <1>1. d \in Messages BY FrameTypes
  <1>2. out \in Seq(Messages) BY QueueTypes
  <1>3. v \in Seq(Messages) /\ out' = out \o v /\ After(v, 0) = {d}
    BY <1>1, <1>2, OneAdded
  <1> HIDE DEF v
  <1>4. ASSUME NEW u \in TIDs
        PROVE  /\ Has(o', u) => DEL(u, "ORIGINATOR") \notin After(v, 0)
               /\ Has(r, u) => Has(r', u) \/ DEL(u, "RECIPIENT") \in After(v, 0)
               /\ RSP(u, TRUE) \notin After(v, 0)
    <2>1. RSP(u, TRUE) # d BY DelOnly
    <2>2. DEL(u, "ORIGINATOR") = d => u = t /\ i = "ORIGINATOR" BY DelOnly
    <2>3. u = t /\ i = "RECIPIENT" => DEL(u, "RECIPIENT") = d OBVIOUS
    <2> QED BY <1>3, <2>1, <2>2, <2>3
  <1> QED BY <1>3, <1>4, EndStep

LEMMA MlmeFacts ==
  ASSUME OriAll, NEW k, Handle(k)
  PROVE  /\ Calm /\ mq # <<>> /\ Head(mq).k = k /\ mq' = Tail(mq)
         /\ Head(mq) \in Messages /\ Head(mq).t \in TIDs
         /\ Shapes /\ mq \in Seq(Messages) /\ out \in Seq(Messages)
  BY HandleType, QueueTypes DEF Handle, OriAll, RecInv

(* A message is handled without an answer. *)
LEMMA MuteStep ==
  ASSUME Shapes, Sides, mq # <<>>, mq' = Tail(mq), out' = out, peer' = peer,
         \A t \in TIDs :
           /\ Has(o', t) => Has(o, t)
           /\ HasDone(o', t) => \/ HasDone(o, t) /\ Head(mq) # DEL(t, "RECIPIENT")
                                \/ Head(mq) = RSP(t, TRUE)
           /\ Has(r, t) => Has(r', t) \/ Head(mq) = DEL(t, "ORIGINATOR")
           /\ Head(mq) # REQ(t)
  PROVE  Sides'
  <1> DEFINE e == <<>>
  <1>1. out \in Seq(Messages) BY QueueTypes
  <1>2. e \in Seq(Messages) /\ out' = out \o e /\ After(e, 0) = {}
    BY <1>1, NoneAdded
  <1> HIDE DEF e
  <1>3. \A t \in TIDs :
          /\ Has(o', t) => Has(o, t) /\ DEL(t, "ORIGINATOR") \notin After(e, 0)
          /\ HasDone(o', t) => \/ HasDone(o, t) /\ Head(mq) # DEL(t, "RECIPIENT")
                               \/ Head(mq) = RSP(t, TRUE)
          /\ Has(r, t) => Has(r', t) \/ Head(mq) = DEL(t, "ORIGINATOR")
          /\ Head(mq) = REQ(t) => Has(r', t) \/ RSP(t, FALSE) \in After(e, 0)
          /\ RSP(t, TRUE) \in After(e, 0) =>
               Head(mq) = REQ(t) /\ Has(r', t) /\ RSP(t, FALSE) \notin After(e, 0)
    BY <1>2
  <1> QED BY <1>2, <1>3, HandlesStep

LEMMA AddbaSides ==
  ASSUME OriAll, Sides, MlmeADDBAAction
  PROVE  Sides'
  <1> DEFINE f == Head(mq)
             t == f.t
             g == REQ(t)
             v == <<g>>
  <1>1. /\ Handle("ADDBA")
        /\ out' = out \/ out' = Append(out, g)
        /\ o' = o /\ r' = r /\ peer' = peer
    BY DEF MlmeADDBAAction, Send
  <1>2. /\ Shapes /\ mq # <<>> /\ mq' = Tail(mq) /\ f.k = "ADDBA" /\ t \in TIDs
        /\ out \in Seq(Messages)
    BY <1>1, MlmeFacts
  <1>3. \A u : REQ(u) # f /\ (\A i : DEL(u, i) # f) /\ (\A ok : RSP(u, ok) # f)
    BY <1>2, AddbaOnly
  <1>4. CASE out' = out
    <2>1. \A u \in TIDs :
            /\ Has(o', u) => Has(o, u)
            /\ HasDone(o', u) => \/ HasDone(o, u) /\ f # DEL(u, "RECIPIENT")
                                 \/ f = RSP(u, TRUE)
            /\ Has(r, u) => Has(r', u) \/ f = DEL(u, "ORIGINATOR")
            /\ f # REQ(u)
      BY <1>1, <1>3
    <2> QED BY <1>1, <1>2, <1>4, <2>1, MuteStep
  <1>5. CASE out' = Append(out, g)
    <2>1. g \in Messages BY <1>2, FrameTypes
    <2> HIDE DEF g
    <2>2. v \in Seq(Messages) /\ out' = out \o v /\ After(v, 0) = {g}
      BY <1>2, <1>5, <2>1, OneAdded
    <2>3. \A u : (\A i : DEL(u, i) # g) /\ (\A ok : RSP(u, ok) # g)
      BY ReqOnly DEF g
    <2> HIDE DEF v
    <2>4. \A u \in TIDs :
            /\ Has(o', u) => Has(o, u) /\ DEL(u, "ORIGINATOR") \notin After(v, 0)
            /\ HasDone(o', u) => \/ HasDone(o, u) /\ f # DEL(u, "RECIPIENT")
                                 \/ f = RSP(u, TRUE)
            /\ Has(r, u) => Has(r', u) \/ f = DEL(u, "ORIGINATOR")
            /\ f = REQ(u) => Has(r', u) \/ RSP(u, FALSE) \in After(v, 0)
            /\ RSP(u, TRUE) \in After(v, 0) =>
                 f = REQ(u) /\ Has(r', u) /\ RSP(u, FALSE) \notin After(v, 0)
      BY <1>1, <1>3, <2>2, <2>3
    <2> QED BY <1>1, <1>2, <2>2, <2>4, HandlesStep
  <1> QED BY <1>1, <1>4, <1>5

LEMMA RspSides ==
  ASSUME ~Preempt, OriAll, Sides, PeerAddBARspAction
  PROVE  Sides'
  <1> DEFINE f == Head(mq)
             t == f.t
  <1>1. /\ Handle("RSP") /\ r' = r /\ peer' = peer
        /\ \/ /\ f.ok /\ Awaited(t) /\ o' = OriAdd(o, t) /\ out' = out
           \/ OriDown("mlme", t, TRUE, FALSE)
           \/ o' = o /\ out' = out
    BY DEF PeerAddBARspAction
  <1>2. /\ Shapes /\ Calm /\ mq # <<>> /\ mq' = Tail(mq) /\ f.k = "RSP" /\ t \in TIDs
        /\ f \in Messages
    BY <1>1, MlmeFacts
  <1> HIDE DEF f
  <1>3. f.ok \in BOOLEAN /\ f = RSP(t, f.ok) BY <1>2, Which
  <1>4. /\ \A u : REQ(u) # f /\ \A i : DEL(u, i) # f
        /\ f.ok => f = RSP(t, TRUE)
    <2> DEFINE b == f.ok
    <2>1. b \in BOOLEAN /\ f = RSP(t, b) BY <1>3
    <2> HIDE DEF b
    <2>2. \A u : REQ(u) # f /\ \A i : DEL(u, i) # f
      <3> DEFINE n == f.t
      <3>1. f = RSP(n, b) BY <2>1
      <3> HIDE DEF n
      <3>2. \A u : REQ(u) # RSP(n, b) /\ \A i : DEL(u, i) # RSP(n, b) BY RspOnly
      <3> QED BY <3>1, <3>2
    <2>3. b => b = TRUE BY <2>1
    <2>4. b => f = RSP(t, TRUE) BY <2>1, <2>3
    <2> QED BY <2>2, <2>4 DEF b
  <1>5. /\ out' = out
        /\ \A u \in TIDs : /\ Has(o', u) => Has(o, u)
                           /\ HasDone(o', u) => HasDone(o, u) \/ f = RSP(u, TRUE)
    <2>1. CASE f.ok /\ Awaited(t) /\ o' = OriAdd(o, t) /\ out' = out
      <3>1. \A u \in TIDs : /\ Has(o', u) => Has(o, u)
                            /\ HasDone(o', u) => HasDone(o, u) \/ u = t
        BY <1>2, <2>1, AddTakes
      <3> QED BY <1>4, <2>1, <3>1
    <2>2. CASE OriDown("mlme", t, TRUE, FALSE)
      <3>1. "mlme" \in Actors BY DEF Actors
      <3>2. Fewer(o, o') /\ out' = out BY <1>2, <2>2, <3>1, DownTakes
      <3> QED BY <3>2 DEF Fewer
    <2>3. CASE o' = o /\ out' = out BY <2>3
    <2> QED BY <1>1, <2>1, <2>2, <2>3 DEF f
  <1>6. \A u \in TIDs :
          /\ Has(o', u) => Has(o, u)
          /\ HasDone(o', u) => \/ HasDone(o, u) /\ f # DEL(u, "RECIPIENT")
                               \/ f = RSP(u, TRUE)
          /\ Has(r, u) => Has(r', u) \/ f = DEL(u, "ORIGINATOR")
          /\ f # REQ(u)
    BY <1>1, <1>4, <1>5
  <1> QED BY <1>1, <1>2, <1>5, <1>6, MuteStep DEF f

LEMMA DelBaSides ==
  ASSUME ~Preempt, OriAll, Sides, PeerDelBAAction
  PROVE  Sides'
  <1> DEFINE f == Head(mq)
             t == f.t
             i == f.initiator
  <1>1. /\ Handle("DEL") /\ peer' = peer
        /\ \/ /\ i = "ORIGINATOR" /\ o' = o /\ out' = out
              /\ r' = IF r.idx[t] = 0 THEN r ELSE RecEnd(r, t)
           \/ i = "RECIPIENT" /\ OriDown("mlme", t, TRUE, FALSE) /\ r' = r
           \/ i = "RECIPIENT" /\ o.idx[t] = 0 /\ o' = o /\ r' = r /\ out' = out
    BY DEF PeerDelBAAction
  <1>2. /\ Shapes /\ Calm /\ mq # <<>> /\ mq' = Tail(mq) /\ f.k = "DEL" /\ t \in TIDs
        /\ f \in Messages
    BY <1>1, MlmeFacts
  <1> HIDE DEF f
  <1>3. f = DEL(t, i) BY <1>2, Which
  <1>4. \A u : REQ(u) # f /\ \A j : DEL(u, j) = f => u = t /\ j = i
    BY <1>3, DelOnly
  <1>5. CASE /\ i = "ORIGINATOR" /\ o' = o /\ out' = out
             /\ r' = IF r.idx[t] = 0 THEN r ELSE RecEnd(r, t)
    <2>1. \A u \in TIDs : Has(r, u) /\ u # t => Has(r', u)
      <3>1. r \in RecTables /\ RecAgrees(r) BY DEF OriAll, RecInv, Shapes
      <3>2. CASE r.idx[t] = 0 BY <1>5, <3>2
      <3>3. CASE r.idx[t] # 0
        <4>1. \A u \in TIDs : u # t => r'.idx[u] = r.idx[u]
          BY <1>2, <1>5, <3>1, <3>3, RecEndIs
        <4> QED BY <4>1 DEF Has
      <3> QED BY <3>2, <3>3
    <2>2. ASSUME NEW u PROVE f # DEL(u, "RECIPIENT")
      <3>1. SUFFICES ASSUME DEL(u, "RECIPIENT") = f PROVE FALSE OBVIOUS
      <3>2. i = "RECIPIENT" BY <1>4, <3>1 DEF i
      <3> QED BY <1>5, <3>2
    <2>3. \A u \in TIDs :
            /\ Has(o', u) => Has(o, u)
            /\ HasDone(o', u) => \/ HasDone(o, u) /\ f # DEL(u, "RECIPIENT")
                                 \/ f = RSP(u, TRUE)
            /\ Has(r, u) => Has(r', u) \/ f = DEL(u, "ORIGINATOR")
            /\ f # REQ(u)
      BY <1>3, <1>4, <1>5, <2>1, <2>2
    <2> QED BY <1>1, <1>2, <1>5, <2>3, MuteStep DEF f
  <1>6. CASE i = "RECIPIENT" /\ r' = r /\ Fewer(o, o') /\ ~Has(o', t) /\ out' = out
    <2>1. \A u \in TIDs :
            /\ Has(o', u) => Has(o, u)
            /\ HasDone(o', u) => \/ HasDone(o, u) /\ f # DEL(u, "RECIPIENT")
                                 \/ f = RSP(u, TRUE)
            /\ Has(r, u) => Has(r', u) \/ f = DEL(u, "ORIGINATOR")
            /\ f # REQ(u)
      BY <1>4, <1>6 DEF Fewer, Has, HasDone
    <2> QED BY <1>1, <1>2, <1>6, <2>1, MuteStep DEF f
  <1>7. CASE i = "RECIPIENT" /\ OriDown("mlme", t, TRUE, FALSE) /\ r' = r
    <2>1. "mlme" \in Actors BY DEF Actors
    <2>2. Fewer(o, o') /\ ~Has(o', t) /\ out' = out
      BY <1>2, <1>7, <2>1, DownTakes
    <2> QED BY <1>6, <1>7, <2>2
  <1>8. CASE i = "RECIPIENT" /\ o.idx[t] = 0 /\ o' = o /\ r' = r /\ out' = out
    <2>1. Fewer(o, o') /\ ~Has(o', t) BY <1>8 DEF Fewer, Has
    <2> QED BY <1>6, <1>8, <2>1
  <1> QED BY <1>1, <1>5, <1>7, <1>8 DEF f

LEMMA ReqSides ==
  ASSUME OriAll, Sides, NEW decline \in BOOLEAN, PeerAddBAReqAction(decline)
  PROVE  Sides'
  <1> DEFINE f == Head(mq)
             t == f.t
             x == IF decline THEN r ELSE RecAdd(r, t)
             b == Accepted(x, t, decline)
             g == RSP(t, b)
             v == <<g>>
  <1>1. /\ Handle("REQ") /\ r' = x /\ out' = Append(out, g) /\ o' = o /\ peer' = peer
    BY DEF PeerAddBAReqAction, Send
  <1>2. /\ Shapes /\ mq # <<>> /\ mq' = Tail(mq) /\ f.k = "REQ" /\ t \in TIDs
        /\ f \in Messages /\ out \in Seq(Messages)
    BY <1>1, MlmeFacts
  <1> HIDE DEF f
  <1>3. f = REQ(t) BY <1>2, Which
  <1>4. \A u : /\ \A i : DEL(u, i) # f
               /\ \A ok : RSP(u, ok) # f
               /\ REQ(u) = f => u = t
    BY <1>3, ReqOnly
  <1>5. \A u \in TIDs : Has(r, u) => Has(r', u)
    <2>1. r \in RecTables /\ RecAgrees(r) BY DEF OriAll, RecInv, Shapes
    <2>2. \A u \in TIDs : Has(r, u) => Has(RecAdd(r, t), u)
      BY <1>2, <2>1, RecAddIs
    <2> QED BY <1>1, <2>2
  <1>6. b \in BOOLEAN /\ (b => Has(r', t)) BY <1>1 DEF Accepted, Has
  <1> HIDE DEF x, b
  <1>7. g \in Messages BY <1>2, <1>6, FrameTypes
  <1> HIDE DEF g
  <1>8. v \in Seq(Messages) /\ out' = out \o v /\ After(v, 0) = {g}
    BY <1>1, <1>2, <1>7, OneAdded
  <1> HIDE DEF v
  <1>9. /\ \A u : \A i : DEL(u, i) # g
        /\ \A u : \A ok : RSP(u, ok) = g => u = t /\ ok = b
    BY RspOnly DEF g
  <1>10. ASSUME NEW u \in TIDs
         PROVE  /\ Has(o', u) => Has(o, u) /\ DEL(u, "ORIGINATOR") \notin After(v, 0)
                /\ HasDone(o', u) => \/ HasDone(o, u) /\ f # DEL(u, "RECIPIENT")
                                     \/ f = RSP(u, TRUE)
                /\ Has(r, u) => Has(r', u) \/ f = DEL(u, "ORIGINATOR")
                /\ f = REQ(u) => Has(r', u) \/ RSP(u, FALSE) \in After(v, 0)
                /\ RSP(u, TRUE) \in After(v, 0) =>
                     f = REQ(u) /\ Has(r', u) /\ RSP(u, FALSE) \notin After(v, 0)
    <2>1. DEL(u, "ORIGINATOR") \notin After(v, 0) /\ f # DEL(u, "RECIPIENT")
      BY <1>4, <1>8, <1>9
    <2>2. f = REQ(u) => Has(r', u) \/ RSP(u, FALSE) \in After(v, 0)
      <3>1. ~b => b = FALSE BY <1>6
      <3>2. ~b => g = RSP(t, FALSE) BY <3>1 DEF g
      <3> QED BY <1>4, <1>6, <1>8, <3>2
    <2>3. RSP(u, TRUE) \in After(v, 0) =>
            f = REQ(u) /\ Has(r', u) /\ RSP(u, FALSE) \notin After(v, 0)
      <3> SUFFICES ASSUME RSP(u, TRUE) \in After(v, 0)
                   PROVE  f = REQ(u) /\ Has(r', u) /\ RSP(u, FALSE) \notin After(v, 0)
        OBVIOUS
      <3>1. u = t /\ b = TRUE BY <1>8, <1>9
      <3>2. f = REQ(u) /\ Has(r', u) BY <1>3, <1>6, <3>1
      <3>3. RSP(u, FALSE) # g BY <1>9, <3>1
      <3> QED BY <1>8, <3>2, <3>3
    <2> QED BY <1>1, <1>5, <2>1, <2>2, <2>3
  <1> QED BY <1>1, <1>2, <1>8, <1>10, HandlesStep DEF f

(* The peer *)
LEMMA HeardSides ==
  ASSUME OriAll, Sides, PeerHears
  PROVE  Sides'
  <1> DEFINE f == Head(out)
             t == f.t
             st == CASE ~f.ok -> "none" [] f.ok /\ peer.ori[t] = "wait" -> "done"
                     [] OTHER -> peer.ori[t]
  <1>0. Shapes /\ mq \in Seq(Messages) /\ out \in Seq(Messages) /\ peer \in Peers
    BY QueueTypes DEF OriAll, RecInv, Shapes
  <1>1. /\ out # <<>> /\ out' = Tail(out) /\ o' = o /\ r' = r
        /\ \/ /\ f.k = "REQ" \/ (f.k = "RSP" /\ f.ok)
              /\ mq' = mq /\ peer' = peer
           \/ /\ f.k = "REQ" /\ peer' = [peer EXCEPT !.rec = @ \cup {t}]
              /\ mq' = Append(mq, RSP(t, TRUE)) \/ mq' = mq
           \/ f.k = "REQ" /\ peer' = peer /\ mq' = Append(mq, RSP(t, FALSE))
           \/ f.k = "RSP" /\ peer' = [peer EXCEPT !.ori[t] = st] /\ mq' = mq
           \/ /\ f.k = "DEL" /\ mq' = mq
              /\ peer' = IF f.initiator = "ORIGINATOR" THEN [peer EXCEPT !.rec = @ \ {t}]
                         ELSE [peer EXCEPT !.ori[t] = "none"]
    BY DEF PeerHears, PeerSays
  <1>2. f \in Messages BY <1>0, <1>1, Queued
  <1>3. t \in TIDs BY <1>2, FrameTid
  <1>4. peer.ori \in [TIDs -> {"none", "wait", "done"}] BY <1>0 DEF Peers
  <1>5. \A x : (peer' = [peer EXCEPT !.ori[t] = x] =>
                  /\ peer'.rec = peer.rec
                  /\ \A u \in TIDs : peer'.ori[u] = IF u = t THEN x ELSE peer.ori[u])
    BY <1>0, <1>3, <1>4 DEF Peers
  <1>6. \A x : peer' = [peer EXCEPT !.rec = x] => peer'.rec = x /\ peer'.ori = peer.ori
    BY <1>0 DEF Peers
  <1> DEFINE Told(s) ==
        \A u \in TIDs :
           /\ RSP(u, TRUE) \in After(s, 0) => Head(out) = REQ(u) /\ u \in peer'.rec
           /\ u \in peer.rec => u \in peer'.rec \/ Head(out) = DEL(u, "ORIGINATOR")
           /\ DEL(u, "ORIGINATOR") \notin After(s, 0) /\ REQ(u) \notin After(s, 0)
           /\ \/ peer'.ori[u] = "none"
              \/ /\ peer'.ori[u] = peer.ori[u]
                 /\ Head(out) # RSP(u, FALSE) /\ Head(out) # DEL(u, "RECIPIENT")
              \/ /\ peer'.ori[u] = "done" /\ peer.ori[u] = "wait"
                 /\ Head(out) = RSP(u, TRUE)
  <1>7. ASSUME NEW s \in Seq(Messages), mq' = mq \o s, Told(s) PROVE Sides'
    BY <1>0, <1>1, <1>7, HearsStep
  <1>8. ASSUME mq' = mq, \A s : After(s, 0) = {} => Told(s) PROVE Sides'
    <2> DEFINE e == <<>>
    <2>1. e \in Seq(Messages) /\ mq' = mq \o e /\ After(e, 0) = {}
      BY <1>0, <1>8, NoneAdded
    <2> HIDE DEF e, Told
    <2> QED BY <1>7, <1>8, <2>1
  <1>9. ASSUME NEW g \in Messages, mq' = Append(mq, g),
               \A s : After(s, 0) = {g} => Told(s)
        PROVE  Sides'
    <2> DEFINE v == <<g>>
    <2>1. v \in Seq(Messages) /\ mq' = mq \o v /\ After(v, 0) = {g}
      BY <1>0, <1>9, OneAdded
    <2> HIDE DEF v, Told
    <2> QED BY <1>7, <1>9, <2>1
  <1>10. f.k = "REQ" => f = REQ(t) /\ \A u : /\ \A i : DEL(u, i) # f
                                             /\ \A ok : RSP(u, ok) # f
                                             /\ REQ(u) = f => u = t
    BY <1>2, Which, ReqOnly
  <1>11. f.k = "RSP" => /\ f.ok \in BOOLEAN
                        /\ \A u : \A i : DEL(u, i) # f
                        /\ \A u : \A ok : RSP(u, ok) = f => u = t /\ ok = f.ok
                        /\ f.ok => f = RSP(t, TRUE)
    <2> SUFFICES ASSUME f.k = "RSP"
                 PROVE  /\ f.ok \in BOOLEAN
                        /\ \A u : \A i : DEL(u, i) # f
                        /\ \A u : \A ok : RSP(u, ok) = f => u = t /\ ok = f.ok
                        /\ f.ok => f = RSP(t, TRUE)
      OBVIOUS
    <2> DEFINE b == f.ok
               n == f.t
    <2>1. b \in BOOLEAN /\ f = RSP(n, b) BY <1>2, Which
    <2> HIDE DEF b, n
    <2>2. /\ \A u : \A i : DEL(u, i) # RSP(n, b)
          /\ \A u : \A ok : RSP(u, ok) = RSP(n, b) => u = n /\ ok = b
      BY RspOnly
    <2>3. b => b = TRUE BY <2>1
    <2>4. b => f = RSP(n, TRUE) BY <2>1, <2>3
    <2> QED BY <2>1, <2>2, <2>4 DEF b, n
  <1>12. f.k = "DEL" =>
           /\ f.initiator \in {"ORIGINATOR", "RECIPIENT"} /\ f = DEL(t, f.initiator)
           /\ \A u : \A ok : RSP(u, ok) # f
           /\ \A u : \A i : DEL(u, i) = f => u = t /\ i = f.initiator
    <2> SUFFICES ASSUME f.k = "DEL"
                 PROVE  /\ f.initiator \in {"ORIGINATOR", "RECIPIENT"}
                        /\ f = DEL(t, f.initiator)
                        /\ \A u : \A ok : RSP(u, ok) # f
                        /\ \A u : \A i : DEL(u, i) = f => u = t /\ i = f.initiator
      OBVIOUS
    <2> DEFINE b == f.initiator
               n == f.t
    <2>1. b \in {"ORIGINATOR", "RECIPIENT"} /\ f = DEL(n, b) BY <1>2, Which
    <2> HIDE DEF b, n
    <2>2. /\ \A u : \A ok : RSP(u, ok) # DEL(n, b)
          /\ \A u : \A i : DEL(u, i) = DEL(n, b) => u = n /\ i = b
      BY DelOnly
    <2> QED BY <2>1, <2>2 DEF b, n
  <1> HIDE DEF f
  <1>13. CASE /\ f.k = "REQ" \/ (f.k = "RSP" /\ f.ok)
              /\ mq' = mq /\ peer' = peer
    <2>1. \A u : f # RSP(u, FALSE) /\ f # DEL(u, "RECIPIENT")
      BY <1>10, <1>11, <1>13
    <2> QED BY <1>8, <1>13, <2>1 DEF f
  <1>14. CASE /\ f.k = "REQ" /\ peer' = [peer EXCEPT !.rec = @ \cup {t}]
              /\ mq' = Append(mq, RSP(t, TRUE)) \/ mq' = mq
    <2>1. peer'.rec = peer.rec \cup {t} /\ peer'.ori = peer.ori BY <1>6, <1>14
    <2>2. CASE mq' = mq BY <1>8, <1>10, <1>14, <2>1, <2>2 DEF f
    <2>3. CASE mq' = Append(mq, RSP(t, TRUE))
      <3>1. RSP(t, TRUE) \in Messages BY <1>3, FrameTypes
      <3>2. \A u : /\ DEL(u, "ORIGINATOR") # RSP(t, TRUE) /\ REQ(u) # RSP(t, TRUE)
                   /\ RSP(u, TRUE) = RSP(t, TRUE) => u = t
        BY RspOnly
      <3>3. \A s : After(s, 0) = {RSP(t, TRUE)} => Told(s)
        BY <1>10, <1>14, <2>1, <3>2 DEF f
      <3> HIDE DEF Told
      <3> QED BY <1>9, <2>3, <3>1, <3>3
    <2> QED BY <1>14, <2>2, <2>3
  <1>15. CASE f.k = "REQ" /\ peer' = peer /\ mq' = Append(mq, RSP(t, FALSE))
    <2>1. RSP(t, FALSE) \in Messages BY <1>3, FrameTypes
    <2>2. \A u : /\ DEL(u, "ORIGINATOR") # RSP(t, FALSE) /\ REQ(u) # RSP(t, FALSE)
                 /\ RSP(u, TRUE) # RSP(t, FALSE)
      BY RspOnly
    <2>3. \A s : After(s, 0) = {RSP(t, FALSE)} => Told(s)
      BY <1>10, <1>15, <2>2 DEF f
    <2> HIDE DEF Told
    <2> QED BY <1>9, <1>15, <2>1, <2>3
  <1>16. CASE f.k = "RSP" /\ peer' = [peer EXCEPT !.ori[t] = st] /\ mq' = mq
    <2>1. /\ peer'.rec = peer.rec
          /\ \A u \in TIDs : peer'.ori[u] = IF u = t THEN st ELSE peer.ori[u]
      BY <1>5, <1>16
    <2>2. \/ ~f.ok /\ st = "none"
          \/ f.ok /\ peer.ori[t] = "wait" /\ st = "done"
          \/ f.ok /\ st = peer.ori[t]
      BY <1>11, <1>16
    <2> HIDE DEF st
    <2>3. ASSUME NEW u \in TIDs
          PROVE  \/ peer'.ori[u] = "none"
                 \/ /\ peer'.ori[u] = peer.ori[u]
                    /\ f # RSP(u, FALSE) /\ f # DEL(u, "RECIPIENT")
                 \/ peer'.ori[u] = "done" /\ peer.ori[u] = "wait" /\ f = RSP(u, TRUE)
      <3>1. f # DEL(u, "RECIPIENT") /\ (f = RSP(u, FALSE) => u = t /\ ~f.ok)
        BY <1>11, <1>16
      <3>2. CASE u = t
        <4>1. peer'.ori[u] = st BY <2>1, <3>2
        <4>2. f.ok => f = RSP(u, TRUE) BY <1>11, <1>16, <3>2
        <4> QED BY <2>2, <3>1, <3>2, <4>1, <4>2
      <3>3. CASE u # t BY <2>1, <3>1, <3>3
      <3> QED BY <3>2, <3>3
    <2>4. \A s : After(s, 0) = {} => Told(s) BY <2>1, <2>3 DEF f
    <2> HIDE DEF Told
    <2> QED BY <1>8, <1>16, <2>4
  <1>17. CASE /\ f.k = "DEL" /\ mq' = mq
              /\ peer' = IF f.initiator = "ORIGINATOR" THEN [peer EXCEPT !.rec = @ \ {t}]
                         ELSE [peer EXCEPT !.ori[t] = "none"]
    <2>1. CASE f.initiator = "ORIGINATOR"
      <3>1. peer'.rec = peer.rec \ {t} /\ peer'.ori = peer.ori
        BY <1>6, <1>17, <2>1
      <3>2. \A u : f # RSP(u, FALSE) /\ f # DEL(u, "RECIPIENT")
        <4>1. "ORIGINATOR" # "RECIPIENT" OBVIOUS
        <4> QED BY <1>12, <1>17, <2>1, <4>1
      <3>3. f = DEL(t, "ORIGINATOR") BY <1>12, <1>17, <2>1
      <3>4. \A s : After(s, 0) = {} => Told(s) BY <3>1, <3>2, <3>3 DEF f
      <3> HIDE DEF Told
      <3> QED BY <1>8, <1>17, <3>4
    <2>2. CASE f.initiator # "ORIGINATOR"
      <3>1. /\ peer'.rec = peer.rec
            /\ \A u \in TIDs : peer'.ori[u] = IF u = t THEN "none" ELSE peer.ori[u]
        BY <1>5, <1>17, <2>2
      <3>2. \A u : f # RSP(u, FALSE) /\ (f = DEL(u, "RECIPIENT") => u = t)
        BY <1>12, <1>17
      <3>3. \A s : After(s, 0) = {} => Told(s) BY <3>1, <3>2 DEF f
      <3> HIDE DEF Told
      <3> QED BY <1>8, <1>17, <3>3
    <2> QED BY <2>1, <2>2
  <1> HIDE DEF Told, st
  <1> QED BY <1>1, <1>13, <1>14, <1>15, <1>16, <1>17 DEF f

LEMMA PeerSides ==
  ASSUME OriAll, Sides, NEW t \in TIDs, PeerStarts(t) \/ PeerEnds(t)
  PROVE  Sides'
  <1>0. Shapes /\ mq \in Seq(Messages) /\ out \in Seq(Messages) /\ peer \in Peers
    BY QueueTypes DEF OriAll, RecInv, Shapes
  <1>1. /\ o' = o /\ r' = r /\ out' = out
        /\ \/ /\ peer' = [peer EXCEPT !.ori[t] = "wait"]
              /\ \/ mq' = Append(mq, REQ(t))
                 \/ PeerSettled(t) /\ mq' = mq
           \/ peer' = [peer EXCEPT !.ori[t] = "none"] /\ mq' = mq
           \/ /\ peer' = [peer EXCEPT !.ori[t] = "none"]
              /\ mq' = Append(mq, DEL(t, "ORIGINATOR"))
           \/ /\ peer' = [peer EXCEPT !.rec = @ \ {t}]
              /\ mq' = Append(mq, DEL(t, "RECIPIENT"))
    BY DEF PeerStarts, PeerEnds, PeerSays
  <1>2. Fewer(o, o') BY <1>1 DEF Fewer
  <1>3. /\ REQ(t) \in Messages /\ DEL(t, "ORIGINATOR") \in Messages
        /\ DEL(t, "RECIPIENT") \in Messages
    BY FrameTypes
  <1>4. peer.ori \in [TIDs -> {"none", "wait", "done"}] BY <1>0 DEF Peers
  <1>5. \A x : peer' = [peer EXCEPT !.ori[t] = x] =>
                 /\ peer'.rec = peer.rec
                 /\ \A u \in TIDs : peer'.ori[u] = IF u = t THEN x ELSE peer.ori[u]
    BY <1>0, <1>4 DEF Peers
  <1>6. \A u : RecSide(r', "none", mq', out', u) BY DEF RecSide
  <1>7. CASE peer' = [peer EXCEPT !.ori[t] = "wait"] /\ mq' = Append(mq, REQ(t))
    <2> DEFINE s == <<REQ(t)>>
    <2>1. mq' = mq \o s BY <1>0, <1>3, <1>7, OneAdded
    <2>2. RecSide(r', "wait", mq', out', t) BY <1>0, <1>3, <2>1, RecAsks
    <2>3. /\ peer'.rec = peer.rec
          /\ \A u \in TIDs : peer'.ori[u] = IF u = t THEN "wait" ELSE peer.ori[u]
      BY <1>5, <1>7
    <2>4. \A u \in TIDs :
            /\ RSP(u, TRUE) # REQ(t)
            /\ u \in peer.rec => u \in peer'.rec \/ DEL(u, "RECIPIENT") = REQ(t)
            /\ \/ RecSide(r', peer'.ori[u], mq', out', u)
               \/ /\ DEL(u, "ORIGINATOR") # REQ(t) /\ REQ(u) # REQ(t)
                  /\ peer'.ori[u] = peer.ori[u]
      BY <2>2, <2>3, ReqOnly
    <2> QED BY <1>0, <1>1, <1>2, <1>3, <1>7, <2>4, SayStep
  (* The first request was lost, and nothing of an earlier attempt is left. *)
  <1>8. CASE /\ peer' = [peer EXCEPT !.ori[t] = "wait"] /\ PeerSettled(t) /\ mq' = mq
    <2>1. /\ peer'.rec = peer.rec
          /\ \A u \in TIDs : peer'.ori[u] = IF u = t THEN "wait" ELSE peer.ori[u]
      BY <1>5, <1>8
    <2>2. RecSide(r', "wait", mq', out', t)
      <3>1. REQ(t) \notin After(mq, 0) /\ RSP(t, TRUE) \notin After(out, 0)
        BY <1>0, <1>8, AfterAll DEF PeerSettled
      <3>2. \A k \in 1..Len(out) : out[k] \in After(out, 0) BY DEF After
      <3> QED BY <1>1, <1>8, <3>1, <3>2 DEF RecSide
    <2>3. \A u \in TIDs : /\ OriSide(o, peer.rec, mq, out, u)
                          /\ RecSide(r, peer.ori[u], mq, out, u)
      BY DEF Sides
    <2>4. \A u \in TIDs : /\ OriSide(o', peer'.rec, mq', out', u)
                          /\ RecSide(r', peer'.ori[u], mq', out', u)
      BY <1>1, <1>8, <2>1, <2>2, <2>3
    <2> QED BY <2>4, SidesThen
  <1>9. CASE peer' = [peer EXCEPT !.ori[t] = "none"] /\ mq' = mq
    <2>1. /\ peer'.rec = peer.rec
          /\ \A u \in TIDs : peer'.ori[u] = IF u = t THEN "none" ELSE peer.ori[u]
      BY <1>5, <1>9
    <2>2. \A u \in TIDs : /\ OriSide(o, peer.rec, mq, out, u)
                          /\ RecSide(r, peer.ori[u], mq, out, u)
      BY DEF Sides
    <2>3. \A u \in TIDs : /\ OriSide(o', peer'.rec, mq', out', u)
                          /\ RecSide(r', peer'.ori[u], mq', out', u)
      BY <1>1, <1>6, <1>9, <2>1, <2>2
    <2> QED BY <2>3, SidesThen
  <1>10. CASE /\ peer' = [peer EXCEPT !.ori[t] = "none"]
              /\ mq' = Append(mq, DEL(t, "ORIGINATOR"))
    <2> DEFINE f == DEL(t, "ORIGINATOR")
    <2>1. /\ peer'.rec = peer.rec
          /\ \A u \in TIDs : peer'.ori[u] = IF u = t THEN "none" ELSE peer.ori[u]
      BY <1>5, <1>10
    <2>2. \A u : /\ REQ(u) # f /\ RSP(u, TRUE) # f
                 /\ DEL(u, "ORIGINATOR") = f => u = t
      BY DelOnly
    <2> HIDE DEF f
    <2>3. \A u \in TIDs :
            /\ RSP(u, TRUE) # f
            /\ u \in peer.rec => u \in peer'.rec \/ DEL(u, "RECIPIENT") = f
            /\ \/ RecSide(r', peer'.ori[u], mq', out', u)
               \/ /\ DEL(u, "ORIGINATOR") # f /\ REQ(u) # f
                  /\ peer'.ori[u] = peer.ori[u]
      BY <1>6, <2>1, <2>2
    <2>4. f \in Messages /\ mq' = Append(mq, f) BY <1>3, <1>10 DEF f
    <2> QED BY <1>0, <1>1, <1>2, <2>3, <2>4, SayStep
  <1>11. CASE /\ peer' = [peer EXCEPT !.rec = @ \ {t}]
              /\ mq' = Append(mq, DEL(t, "RECIPIENT"))
    <2> DEFINE f == DEL(t, "RECIPIENT")
    <2>1. peer'.rec = peer.rec \ {t} /\ peer'.ori = peer.ori
      BY <1>0, <1>11 DEF Peers
    <2>2. \A u : REQ(u) # f /\ RSP(u, TRUE) # f /\ DEL(u, "ORIGINATOR") # f
      <3>1. "ORIGINATOR" # "RECIPIENT" OBVIOUS
      <3> QED BY <3>1, DelOnly
    <2>3. DEL(t, "RECIPIENT") = f OBVIOUS
    <2> HIDE DEF f
    <2>4. \A u \in TIDs :
            /\ RSP(u, TRUE) # f
            /\ u \in peer.rec => u \in peer'.rec \/ DEL(u, "RECIPIENT") = f
            /\ \/ RecSide(r', peer'.ori[u], mq', out', u)
               \/ /\ DEL(u, "ORIGINATOR") # f /\ REQ(u) # f
                  /\ peer'.ori[u] = peer.ori[u]
      BY <2>1, <2>2, <2>3
    <2>5. f \in Messages /\ mq' = Append(mq, f) BY <1>3, <1>11 DEF f
    <2> QED BY <1>0, <1>1, <1>2, <2>4, <2>5, SayStep
  <1> QED BY <1>1, <1>7, <1>8, <1>9, <1>10, <1>11

LEMMA SideStep ==
  ASSUME ~Preempt, Trouble = {}
  PROVE  OriAll /\ Sides /\ [Next]_vars => Sides'
  <1> SUFFICES ASSUME OriAll, Sides, [Next]_vars PROVE Sides' OBVIOUS
  <1>s. /\ Shapes /\ RecAgrees(r) /\ o \in OriTables /\ r \in RecTables
        /\ trun \in 0..OriLen - 1 /\ mq \in Seq(Messages) /\ out \in Seq(Messages)
    BY QueueTypes DEF OriAll, RecInv, Shapes
  <1>b. PICK b \in 0..OriLen - 1 : Agrees(o, b) BY DEF OriAll, OriInv
  <1>i. ASSUME mq' = mq, out' = out, peer' = peer, r' = r,
               o' = o \/ SameBut(o, o') \/ Fewer(o, o')
        PROVE  Sides'
    <2>1. o' = o => Fewer(o, o') BY DEF Fewer
    <2>2. SameBut(o, o') => Fewer(o, o') BY <1>s, <1>b, FewerSame
    <2>3. Fewer(o, o') /\ \A t \in TIDs : Has(r, t) => Has(r', t)
      BY <1>i, <2>1, <2>2
    <2> QED BY <1>s, <1>i, <2>3, IdleStep
  <1>1. ASSUME NEW i \in OriEntries, TimerFires(i) PROVE Sides'
    <2>1. o' = RTMPCancelTimer(o, i) BY <1>1 DEF TimerFires, RTMPCancelTimer
    <2>2. SameBut(o, o') BY <1>s, <2>1, CancelIs
    <2> QED BY <1>1, <1>i, <2>2 DEF TimerFires
  <1>2. CASE RtmpTimerQHandle BY <1>2, <1>i DEF RtmpTimerQHandle
  <1>3. CASE BAOriSessionSetupTimeout
    <2>1. trun # 0 /\ r' = r /\ out' = out /\ peer' = peer
      BY <1>3 DEF BAOriSessionSetupTimeout
    <2>2. trun \in OriEntries BY <1>s, <2>1, Constants
    <2>3. SameBut(o, o') \/ o' = FreeOriEnter(o, trun) BY <1>3, TimeoutIs
    <2>4. Fewer(o, o')
      <3>1. SameBut(o, o') => Fewer(o, o') BY <1>s, <1>b, FewerSame
      <3>2. Fewer(o, FreeOriEnter(o, trun)) BY <1>s, <2>2, FewerEnter
      <3> QED BY <2>3, <3>1, <3>2
    <2>5. mq' = mq \/ mq' = Append(mq, ADDBA(o.ent[trun].tid))
      BY <1>3 DEF BAOriSessionSetupTimeout
    <2>6. CASE mq' = mq BY <1>i, <2>1, <2>4, <2>6
    <2>7. CASE mq' = Append(mq, ADDBA(o.ent[trun].tid))
      <3> DEFINE f == ADDBA(o.ent[trun].tid)
      <3>1. f \in Messages BY <1>s, <2>2, OriFields, FrameTypes
      <3>2. \A u : REQ(u) # f /\ (\A i : DEL(u, i) # f) /\ (\A ok : RSP(u, ok) # f)
        BY Fields, AddbaOnly
      <3> HIDE DEF f
      <3>3. mq' = Append(mq, f) BY <2>7 DEF f
      <3>4. \A t \in TIDs :
              /\ RSP(t, TRUE) # f
              /\ t \in peer.rec => t \in peer'.rec \/ DEL(t, "RECIPIENT") = f
              /\ \/ RecSide(r', peer'.ori[t], mq', out', t)
                 \/ /\ DEL(t, "ORIGINATOR") # f /\ REQ(t) # f
                    /\ peer'.ori[t] = peer.ori[t]
        BY <2>1, <3>2
      <3> QED BY <1>s, <2>1, <2>4, <3>1, <3>3, <3>4, SayStep
    <2> QED BY <2>5, <2>6, <2>7
  <1>4. CASE TimeoutInScan
    <2>1. trun # 0 /\ o' = RTMPSetTimer(o, trun) BY <1>4 DEF TimeoutInScan
    <2>2. trun \in OriEntries BY <1>s, <2>1, Constants
    <2>3. SameBut(o, o') BY <1>s, <2>1, <2>2, SetTimerIs
    <2> QED BY <1>4, <1>i, <2>3 DEF TimeoutInScan
  <1>5. ASSUME NEW a \in Actors, BATableFreeOriEntry(a) PROVE Sides'
    <2>1. fr[a] # 0 /\ o' = FreeOriLocked(o, fr[a])
      BY <1>5 DEF BATableFreeOriEntry
    <2>2. fr[a] \in OriEntries /\ Agrees(o, fr[a]) BY <2>1, FreeingFacts
    <2>3. Fewer(o, o') BY <1>s, <2>1, <2>2, FewerLocked
    <2> QED BY <1>5, <1>i, <2>3 DEF BATableFreeOriEntry
  <1>6. ASSUME NEW t \in TIDs, BAOriSessionSetUp(t) PROVE Sides'
    <2> DEFINE e == <<>>
    <2>1. /\ Settled(t) /\ r' = r /\ mq' = mq /\ out' = out /\ peer' = peer
      BY <1>6 DEF BAOriSessionSetUp
    <2>2. RSP(t, TRUE) \notin After(mq, 0) /\ REQ(t) \notin After(out, 0)
      BY <1>s, <2>1, AfterAll DEF Settled
    <2>3. \A u \in TIDs : /\ Has(o', u) => Has(o, u) \/ u = t
                          /\ HasDone(o', u) => HasDone(o, u)
      BY <1>6, SetUpTakes
    <2>4. /\ e \in Seq(Messages) /\ mq' = mq \o e /\ out' = out \o e
          /\ After(e, 0) = {}
      BY <1>s, <2>1, NoneAdded
    <2> HIDE DEF e
    <2>5. \A u \in TIDs :
            /\ Has(o', u) => \/ Has(o, u)
                             \/ /\ RSP(u, TRUE) \notin After(mq, 0)
                                /\ REQ(u) \notin After(out, 0)
            /\ HasDone(o', u) => HasDone(o, u)
            /\ Has(o', u) => DEL(u, "ORIGINATOR") \notin After(e, 0)
            /\ RSP(u, TRUE) \notin After(e, 0)
            /\ u \in peer.rec => u \in peer'.rec \/ DEL(u, "RECIPIENT") \in After(e, 0)
      BY <2>1, <2>2, <2>3, <2>4
    <2>6. \A u \in TIDs :
            \/ RecSide(r', peer'.ori[u], mq', out', u)
            \/ /\ DEL(u, "ORIGINATOR") \notin After(e, 0) /\ REQ(u) \notin After(e, 0)
               /\ Has(r, u) => Has(r', u) \/ DEL(u, "RECIPIENT") \in After(e, 0)
               /\ RSP(u, TRUE) \notin After(e, 0)
               /\ peer'.ori[u] = peer.ori[u]
      BY <2>1, <2>4
    <2> QED BY <1>s, <2>4, <2>5, <2>6, GrowsStep
  <1>7. ASSUME NEW t \in TIDs, BAOriSessionTearDown(t) PROVE Sides'
    <2>1. /\ Calm /\ OriDown("user", t, FALSE, TRUE) /\ r' = r /\ mq' = mq
          /\ peer' = peer
      BY <1>7 DEF BAOriSessionTearDown
    <2>2. "user" \in Actors BY DEF Actors
    <2>3. /\ Fewer(o, o') /\ ~Has(o', t)
          /\ out' = out \/ out' = Append(out, DEL(t, "ORIGINATOR"))
      BY <2>1, <2>2, DownTakes
    <2>4. CASE out' = out BY <1>i, <2>1, <2>3, <2>4
    <2>5. CASE out' = Append(out, DEL(t, "ORIGINATOR"))
      BY <1>s, <2>1, <2>3, <2>5, DelSides
    <2> QED BY <2>3, <2>4, <2>5
  <1>8. ASSUME NEW t \in TIDs, NEW passive \in BOOLEAN,
               BARecSessionTearDown(t, passive)
        PROVE  Sides'
    <2>1. /\ r.idx[t] # 0 /\ r' = RecEnd(r, t) /\ out' = Append(out, DEL(t, "RECIPIENT"))
          /\ o' = o /\ mq' = mq /\ peer' = peer
      BY <1>8 DEF BARecSessionTearDown, Send
    <2>2. \A u \in TIDs : r'.idx[u] = IF u = t THEN 0 ELSE r.idx[u]
      BY <1>s, <2>1, RecEndIs
    <2>3. Fewer(o, o') /\ \A u \in TIDs : Has(r, u) => Has(r', u) \/ u = t
      BY <2>1, <2>2 DEF Fewer, Has
    <2> QED BY <1>s, <2>1, <2>3, DelSides
  <1>9. CASE BASessionTearDownALL BY <1>9, <1>i DEF BASessionTearDownALL
  <1>10. ASSUME NEW ori \in Fates, NEW rec \in Fates, TearDownOne(ori, rec) PROVE Sides'
    <2>1. ori = "sent" /\ rec = "sent" BY DEF Fates
    <2> QED BY <1>10, <2>1, TearDownSides
  <1>11. ASSUME NEW t \in TIDs, PeerStarts(t) \/ PeerEnds(t) PROVE Sides'
    BY <1>11, PeerSides
  <1>12. CASE MlmeADDBAAction BY <1>12, AddbaSides
  <1>13. CASE PeerAddBARspAction BY <1>13, RspSides
  <1>14. CASE PeerDelBAAction BY <1>14, DelBaSides
  <1>15. ASSUME NEW decline \in BOOLEAN, PeerAddBAReqAction(decline) PROVE Sides'
    BY <1>15, ReqSides
  <1>16. CASE PeerHears BY <1>16, HeardSides
  <1>17. CASE UNCHANGED vars BY <1>17, <1>i DEF vars
  <1> QED
    BY <1>1, <1>2, <1>3, <1>4, <1>5, <1>6, <1>7, <1>8, <1>9, <1>10, <1>11,
         <1>12,
       <1>13, <1>14, <1>15, <1>16, <1>17, Constants
       DEF Next, Timers

LEMMA SideInit == Init => Sides
  <1> SUFFICES ASSUME Init, NEW t \in TIDs
               PROVE  OriSide(o, peer.rec, mq, out, t) /\ RecSide(r, peer.ori[t], mq, out, t)
    BY DEF Sides
  <1>1. ~Has(o, t) /\ ~HasDone(o, t) /\ peer.ori[t] = "none"
    BY DEF Init, Has, HasDone
  <1> QED BY <1>1 DEF OriSide, RecSide

(* When no frame is on its way and every DELBA was sent, a session that this *)
(* side uses as originator is accepted by the peer and one that the peer     *)
(* uses is accepted here, for tables, queues and retries of any number       *)
(* (PeerAddBARspAction, PeerAddBAReqAction, PeerDelBAAction,                 *)
(* BAOriSessionAdd, BARecSessionAdd and both teardowns of                    *)
(* common/ba_action.c), where threads do not preempt each other and a        *)
(* session is set up again only after what an earlier attempt sent is gone.  *)
THEOREM AgreedSafe ==
  ASSUME ~Preempt, Trouble = {}
  PROVE  SafeSpec => []SessionAgreed
  <1>1. SafeSpec => []OriAll BY OriReached
  <1>2. Init => Sides BY SideInit
  <1>3. OriAll /\ Sides /\ [Next]_vars => Sides' BY SideStep
  <1>4. Sides => SessionAgreed
    <2> SUFFICES ASSUME Sides, mq = <<>>, out = <<>>, NEW t \in TIDs
                 PROVE  /\ OriDone(t) => t \in peer.rec
                        /\ peer.ori[t] = "done" => r.idx[t] # 0
      BY DEF SessionAgreed, Quiet
    <2>1. After(mq, 0) = {} /\ After(out, 0) = {}
      <3>1. mq \in Seq(Messages) /\ out \in Seq(Messages) OBVIOUS
      <3> QED BY <3>1, NoneAdded
    <2>2. ~Asked(mq, t)
      <3>1. \A k : k \notin 1..Len(mq) OBVIOUS
      <3> QED BY <3>1 DEF Asked
    <2>3. OriSide(o, peer.rec, mq, out, t) /\ RecSide(r, peer.ori[t], mq, out, t)
      BY DEF Sides
    <2>4. OriDone(t) => t \in peer.rec
      BY <2>1, <2>3 DEF OriSide, OriDone, HasDone
    <2>5. peer.ori[t] = "done" => r.idx[t] # 0
      BY <2>1, <2>2, <2>3 DEF RecSide, Granted, Has
    <2> QED BY <2>4, <2>5
  <1> QED BY <1>1, <1>2, <1>3, <1>4, PTL DEF SafeSpec
=============================================================================
