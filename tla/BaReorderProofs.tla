-------------------------- MODULE BaReorderProofs ---------------------------
(***************************************************************************)
(* What holds of the receive reordering for every window, every pool and   *)
(* every even range of sequence numbers that is wide enough:               *)
(*                                                                         *)
(*   - the types and the account of the pool, with or without preemption;  *)
(*   - without preemption, that the list is sorted and in the window, that *)
(*     frames are passed up in order, that none waits whose turn it is,    *)
(*     and that none is lost.                                              *)
(*                                                                         *)
(* The code compares numbers modulo SEQS.  The first lemmas show that it   *)
(* compares the frames themselves as long as those are less than half the  *)
(* numbers apart; then come the helpers of the driver one by one, first    *)
(* the fields they keep and then the order.  The inductive invariant       *)
(* OrderInv says that there is a frame L, of which only the number         *)
(* LastIndSeq is in the state, such that all that was passed up is not     *)
(* after L, all that waits is in the window after L with a gap before it,  *)
(* and L is within reach of the window of the peer.                        *)
(***************************************************************************)
EXTENDS BaReorder, SequenceTheorems, WellFoundedInduction, TLAPS

(* A set of numbers has a least one. *)
LEMMA LeastOf ==
  ASSUME NEW T, T \subseteq Nat, T # {}
  PROVE  \E m \in T : \A i \in T : m <= i
  <1>1. IsWellFoundedOn(OpToRel(<, Nat), Nat) BY NatLessThanWellFounded
  <1>2. PICK m \in T : \A i \in T : ~(<<i, m>> \in OpToRel(<, Nat))
    BY <1>1, WFMin
  <1>3. \A i \in T : <<i, m>> \in OpToRel(<, Nat) <=> i < m BY DEF OpToRel
  <1>4. \A i \in T : i \in Nat /\ m \in Nat /\ ~(i < m) BY <1>2, <1>3
  <1> QED BY <1>4

(* The places 1..n that satisfy a condition (P) have a longest prefix. *)
LEMMA LongestPrefix ==
  ASSUME NEW n \in Nat, NEW P
  PROVE  \E k \in 0..n : (\A i \in 1..k : i \in P) /\ (k < n => k + 1 \notin P)
  <1> DEFINE T == {i \in 1..n + 1 : i = n + 1 \/ i \notin P}
  <1>1. T \subseteq Nat /\ n + 1 \in T OBVIOUS
  <1>2. PICK m \in T : \A i \in T : m <= i BY <1>1, LeastOf
  <1>3. m - 1 \in 0..n BY <1>2
  <1>4. \A i \in 1..m - 1 : i \in P BY <1>2
  <1>5. m - 1 < n => (m - 1) + 1 \notin P BY <1>2
  <1> QED BY <1>3, <1>4, <1>5

-----------------------------------------------------------------------------
LEMMA SeqsType == SEQS \in Nat /\ SEQS > 1
  BY ReorderAssumption DEF ReorderAssumption

LEMMA DivMod ==
  ASSUME NEW a \in Int
  PROVE  \E q \in Int, r \in 0..SEQS - 1 : a = q * SEQS + r /\ r = a % SEQS
  <1>1. a \div SEQS \in Int /\ a % SEQS \in 0..SEQS - 1 BY SeqsType
  <1>2. a = (a \div SEQS) * SEQS + (a % SEQS) BY SeqsType
  <1> QED BY <1>1, <1>2

LEMMA ModIs ==
  ASSUME NEW a \in Int, NEW q \in Int, NEW r \in 0..SEQS - 1, a = q * SEQS + r
  PROVE  a % SEQS = r
  <1>1. PICK p \in Int, s \in 0..SEQS - 1 : a = p * SEQS + s /\ s = a % SEQS
    BY DivMod
  <1> DEFINE d == p - q
             x == d * SEQS
  <1>0. p * SEQS - q * SEQS = r - s
    <2> DEFINE u == p * SEQS
               v == q * SEQS
    <2>1. u \in Int /\ v \in Int /\ s \in Int /\ r \in Int BY SeqsType
    <2>2. a = u + s /\ a = v + r BY <1>1
    <2> HIDE DEF u, v
    <2>3. u - v = r - s BY <2>1, <2>2
    <2> QED BY <2>3 DEF u, v
  <1>2. x = r - s BY <1>0, SeqsType
  <1>3. d \in Int /\ x \in Int BY SeqsType
  <1>4. d >= 1 => x >= SEQS BY <1>3, SeqsType
  <1>5. d <= -1 => x <= -SEQS BY <1>3, SeqsType
  <1>6. d = 0 => x = 0 BY SeqsType
  <1> HIDE DEF d, x
  <1>7. r = s BY <1>2, <1>3, <1>4, <1>5, <1>6, SeqsType
  <1> QED BY <1>1, <1>7

(* The remainder of a sum is that of the sum with the remainder. *)
LEMMA ModSum ==
  ASSUME NEW a \in Int, NEW j \in Int
  PROVE  ((a % SEQS) + j) % SEQS = (a + j) % SEQS
  <1>1. PICK q \in Int, r \in 0..SEQS - 1 : a = q * SEQS + r /\ r = a % SEQS
    BY DivMod
  <1>2. r + j \in Int BY SeqsType
  <1>3. PICK p \in Int, s \in 0..SEQS - 1 : r + j = p * SEQS + s /\ s = (r + j) % SEQS
    BY <1>2, DivMod
  <1>4. a + j = (p + q) * SEQS + s BY <1>1, <1>3, SeqsType
  <1>5. (a + j) % SEQS = s BY <1>4, ModIs
  <1> QED BY <1>1, <1>3, <1>5

(* The same with two remainders *)
LEMMA ModDifference ==
  ASSUME NEW a \in Int, NEW b \in Int
  PROVE  (SeqNo(a) - SeqNo(b)) % SEQS = (a - b) % SEQS
  <1>1. PICK q \in Int, r \in 0..SEQS - 1 : b = q * SEQS + r /\ r = b % SEQS
    BY DivMod
  <1>2. ((a % SEQS) - r) % SEQS = (a - r) % SEQS
    <2>1. -r \in Int BY SeqsType
    <2>2. ((a % SEQS) + (-r)) % SEQS = (a + (-r)) % SEQS BY <2>1, ModSum
    <2>3. (a % SEQS) + (-r) = (a % SEQS) - r /\ a + (-r) = a - r BY SeqsType
    <2> QED BY <2>2, <2>3
  <1>3. PICK p \in Int, s \in 0..SEQS - 1 :
               a - b = p * SEQS + s /\ s = (a - b) % SEQS
    <2>1. a - b \in Int OBVIOUS
    <2> QED BY <2>1, DivMod
  <1>4. a - r = (p + q) * SEQS + s BY <1>1, <1>3, SeqsType
  <1>5. (a - r) % SEQS = s BY <1>4, ModIs, SeqsType
  <1> QED BY <1>1, <1>2, <1>3, <1>5 DEF SeqNo

(* The remainder of a small number, of either sign *)
LEMMA ModSmall ==
  ASSUME NEW a \in Int
  PROVE  /\ a \in 0..SEQS - 1 => a % SEQS = a
         /\ -SEQS <= a /\ a < 0 => a % SEQS = a + SEQS
  <1>1. a = 0 * SEQS + a /\ a = (-1) * SEQS + (a + SEQS) BY SeqsType
  <1> QED BY <1>1, ModIs, SeqsType

H == SEQS \div 2

LEMMA HalfType == H \in Nat /\ SEQS = 2 * H
  BY ReorderAssumption DEF ReorderAssumption, H

(* SEQ_SMALLER compares frames that are less than half the numbers apart. *)
LEMMA SmallerIs ==
  ASSUME NEW n \in Int, NEW m \in Int, n - m < H, m - n <= H
  PROVE  SEQ_SMALLER(SeqNo(n), SeqNo(m)) <=> n < m
  <1>1. n - m \in Int OBVIOUS
  <1>2. /\ n - m \in 0..SEQS - 1 => (n - m) % SEQS = n - m
        /\ -SEQS <= n - m /\ n - m < 0 => (n - m) % SEQS = n - m + SEQS
    BY <1>1, ModSmall
  <1> HIDE DEF H
  <1>3. (n - m) % SEQS >= H <=> n < m BY <1>2, HalfType, SeqsType
  <1> QED BY <1>3, ModDifference DEF SEQ_SMALLER, H

(* Equal sequence numbers are of one frame, if both are of one round. *)
LEMMA SameIs ==
  ASSUME NEW n \in Int, NEW m \in Int, n - m < SEQS, m - n < SEQS
  PROVE  SeqNo(n) = SeqNo(m) <=> n = m
  <1>1. n - m \in Int OBVIOUS
  <1>2. /\ n - m \in 0..SEQS - 1 => (n - m) % SEQS = n - m
        /\ -SEQS <= n - m /\ n - m < 0 => (n - m) % SEQS = n - m + SEQS
    BY <1>1, ModSmall
  <1>3. (n - m) % SEQS = 0 <=> n = m BY <1>2, SeqsType
  <1>4. SeqNo(n) = SeqNo(m) => (SeqNo(n) - SeqNo(m)) % SEQS = 0
    <2>1. SeqNo(n) \in Int BY SeqsType DEF SeqNo
    <2>2. SeqNo(n) - SeqNo(n) = 0 BY <2>1
    <2>3. 0 % SEQS = 0 BY ModSmall, SeqsType
    <2> QED BY <2>2, <2>3
  <1> QED BY <1>3, <1>4, ModDifference

(* SEQ_STEPONE finds the frame after the next j. *)
LEMMA StepIs ==
  ASSUME NEW n \in Int, NEW m \in Int, NEW j \in Int,
         n - (m + j + 1) < SEQS, (m + j + 1) - n < SEQS
  PROVE  SEQ_STEPONE(SeqNo(n), SeqNo(m) + j) <=> n = m + j + 1
  <1>1. m + j + 1 \in Int /\ j + 1 \in Int OBVIOUS
  <1>2. ((m % SEQS) + (j + 1)) % SEQS = (m + (j + 1)) % SEQS BY <1>1, ModSum
  <1>3. (m % SEQS) + (j + 1) = (m % SEQS) + j + 1 /\ m + (j + 1) = m + j + 1
    BY SeqsType
  <1>4. (SeqNo(m) + j + 1) % SEQS = SeqNo(m + j + 1) BY <1>2, <1>3 DEF SeqNo
  <1> QED BY <1>1, <1>4, SameIs DEF SEQ_STEPONE

LEMMA SeqNoType == ASSUME NEW n \in Int PROVE SeqNo(n) \in 0..SEQS - 1
  BY SeqsType DEF SeqNo

-----------------------------------------------------------------------------
(* The session's buffer, with its pool *)
Buffers == [LastIndSeq : {RESET_RCV_SEQ} \cup 0..SEQS - 1, list : Seq(Frames),
            free : 0..NumBlk, leaked : 0..NumBlk, up : Seq(Frames),
            clean : BOOLEAN, late : BOOLEAN]

Pool(b) == b.free + Len(b.list) + b.leaked = NumBlk

Buffer(b) == b \in Buffers /\ Pool(b)

LEMMA FramesType == Frames \subseteq Int /\ NumBlk \in Nat
  BY ReorderAssumption DEF ReorderAssumption, Frames

(* Announce moves the first k frames of the list to the end of those passed  *)
(* up and gives their blocks back.                                           *)
LEMMA Announced ==
  ASSUME NEW b, Buffer(b), NEW k \in 0..Len(b.list)
  PROVE  LET c == Announce(b, k) IN
         /\ Buffer(c)
         /\ Len(c.list) = Len(b.list) - k
         /\ \A i \in 1..Len(c.list) : c.list[i] = b.list[k + i]
         /\ Len(c.up) = Len(b.up) + k
         /\ \A i \in 1..Len(c.up) :
              c.up[i] = IF i <= Len(b.up) THEN b.up[i] ELSE b.list[i - Len(b.up)]
         /\ c.LastIndSeq = b.LastIndSeq /\ c.clean = b.clean /\ c.late = b.late
  <1> DEFINE c == Announce(b, k)
             s == SubSeq(b.list, k + 1, Len(b.list))
             p == SubSeq(b.list, 1, k)
  <1>1. /\ b.list \in Seq(Frames) /\ b.up \in Seq(Frames) /\ Len(b.list) \in Nat
        /\ Len(b.up) \in Nat /\ b.free \in 0..NumBlk /\ b.leaked \in 0..NumBlk
        /\ b.free + Len(b.list) + b.leaked = NumBlk
    BY DEF Buffer, Buffers, Pool
  <1>2. \A i \in 1..Len(b.list) : b.list[i] \in Frames BY <1>1
  <1>3. /\ s \in Seq(Frames) /\ Len(s) = Len(b.list) - k
        /\ \A i \in 1..Len(s) : s[i] = b.list[k + i]
    <2>1. \A i \in k + 1..Len(b.list) : b.list[i] \in Frames BY <1>2
    <2>2. k + 1 \in Int /\ Len(b.list) \in Int BY <1>1
    <2>3. /\ s \in Seq(Frames)
          /\ Len(s) = IF k + 1 <= Len(b.list) THEN Len(b.list) - (k + 1) + 1 ELSE 0
          /\ \A i \in 1..Len(b.list) - (k + 1) + 1 : s[i] = b.list[(k + 1) + i - 1]
      BY <2>1, <2>2, SubSeqProperties
    <2> HIDE DEF s
    <2>4. Len(s) = Len(b.list) - k BY <2>3, <1>1
    <2>5. ASSUME NEW i \in 1..Len(s) PROVE s[i] = b.list[k + i]
      <3>1. i \in 1..Len(b.list) - (k + 1) + 1 /\ (k + 1) + i - 1 = k + i
        BY <2>4, <1>1
      <3> QED BY <2>3, <3>1
    <2> QED BY <2>3, <2>4, <2>5
  <1>4. /\ p \in Seq(Frames) /\ Len(p) = k /\ \A i \in 1..k : p[i] = b.list[i]
    <2>1. \A i \in 1..k : b.list[i] \in Frames BY <1>2, <1>1
    <2>2. 1 \in Int /\ k \in Int BY <1>1
    <2>3. /\ p \in Seq(Frames) /\ Len(p) = (IF 1 <= k THEN k - 1 + 1 ELSE 0)
          /\ \A i \in 1..k - 1 + 1 : p[i] = b.list[1 + i - 1]
      BY <2>1, <2>2, SubSeqProperties
    <2> HIDE DEF p
    <2>4. Len(p) = k BY <2>3, <1>1
    <2>5. ASSUME NEW i \in 1..k PROVE p[i] = b.list[i]
      <3>1. i \in 1..k - 1 + 1 /\ 1 + i - 1 = i BY <1>1
      <3> QED BY <2>3, <3>1
    <2> QED BY <2>3, <2>4, <2>5
  <1> DEFINE u == b.up \o p
  <1>5. /\ u \in Seq(Frames) /\ Len(u) = Len(b.up) + k
        /\ \A i \in 1..Len(b.up) + k :
             u[i] = IF i <= Len(b.up) THEN b.up[i] ELSE b.list[i - Len(b.up)]
    <2>1. /\ u \in Seq(Frames) /\ Len(u) = Len(b.up) + Len(p)
          /\ \A i \in 1..Len(b.up) + Len(p) : u[i] =
               IF i <= Len(b.up) THEN b.up[i] ELSE p[i - Len(b.up)]
      BY <1>1, <1>4, ConcatProperties
    <2> HIDE DEF u, p
    <2>2. ASSUME NEW i \in 1..Len(b.up) + k
          PROVE  u[i] = IF i <= Len(b.up) THEN b.up[i] ELSE b.list[i - Len(b.up)]
      <3>1. i <= Len(b.up) \/ i - Len(b.up) \in 1..k BY <1>1
      <3> QED BY <2>1, <1>4, <3>1
    <2> QED BY <2>1, <2>2, <1>4
  <1>6. c = [b EXCEPT !.list = s, !.free = b.free + k, !.up = u] BY DEF Announce
  <1> HIDE DEF s, p, u, c
  <1>7. /\ c.list = s /\ c.free = b.free + k /\ c.up = u /\ c.leaked = b.leaked
        /\ c.LastIndSeq = b.LastIndSeq /\ c.clean = b.clean /\ c.late = b.late
    BY <1>6 DEF Buffer, Buffers
  <1>8. b.free + k \in 0..NumBlk /\ (b.free + k) + Len(s) + b.leaked = NumBlk
    <2>1. /\ b.free \in Nat /\ b.leaked \in Nat /\ Len(b.list) \in Nat
          /\ b.free + Len(b.list) + b.leaked = NumBlk /\ k \in Nat
          /\ k <= Len(b.list)
      BY <1>1
    <2>2. Len(s) = Len(b.list) - k BY <1>3
    <2>3. NumBlk \in Nat BY FramesType
    <2>4. b.free + k <= NumBlk BY <2>1, <2>3
    <2>5. b.free + k >= 0 /\ b.free + k \in Int BY <2>1
    <2>6. (b.free + k) + Len(s) + b.leaked = NumBlk BY <2>1, <2>2
    <2> QED BY <2>3, <2>4, <2>5, <2>6
  <1>9. c \in Buffers BY <1>6, <1>1, <1>3, <1>5, <1>8 DEF Buffer, Buffers
  <1>10. Buffer(c) BY <1>7, <1>8, <1>9 DEF Buffer, Pool
  <1>11. Len(c.list) = Len(b.list) - k /\ Len(c.up) = Len(b.up) + k
    BY <1>3, <1>5, <1>7
  <1>12. \A i \in 1..Len(c.list) : c.list[i] = b.list[k + i] BY <1>3, <1>7
  <1>13. \A i \in 1..Len(c.up) :
           c.up[i] = IF i <= Len(b.up) THEN b.up[i] ELSE b.list[i - Len(b.up)]
    BY <1>5, <1>7
  <1> QED BY <1>7, <1>10, <1>11, <1>12, <1>13 DEF c

(* The frames passed up and then those of the list are in order. *)
Sorted(s) == \A i, j \in 1..Len(s) : i < j => s[i] < s[j]

InLine(b) ==
  /\ Sorted(b.up) /\ Sorted(b.list)
  /\ \A m \in ToSet(b.up), n \in ToSet(b.list) : m < n

LEMMA BufferFields ==
  ASSUME NEW b, Buffer(b)
  PROVE  /\ b.list \in Seq(Frames) /\ Len(b.list) \in Nat
         /\ b.up \in Seq(Frames) /\ Len(b.up) \in Nat
         /\ DOMAIN b.list = 1..Len(b.list) /\ DOMAIN b.up = 1..Len(b.up)
         /\ \A i \in 1..Len(b.list) : b.list[i] \in Frames /\ b.list[i] \in Int
         /\ \A i \in 1..Len(b.up) : b.up[i] \in Frames /\ b.up[i] \in Int
         /\ b.free \in 0..NumBlk /\ b.leaked \in 0..NumBlk
         /\ b.free + Len(b.list) + b.leaked = NumBlk
         /\ b.LastIndSeq \in {RESET_RCV_SEQ} \cup 0..SEQS - 1
  <1>1. /\ b.list \in Seq(Frames) /\ b.up \in Seq(Frames)
        /\ b.free \in 0..NumBlk /\ b.leaked \in 0..NumBlk
        /\ b.free + Len(b.list) + b.leaked = NumBlk
        /\ b.LastIndSeq \in {RESET_RCV_SEQ} \cup 0..SEQS - 1
    BY DEF Buffer, Buffers, Pool
  <1>2. /\ Len(b.list) \in Nat /\ Len(b.up) \in Nat
        /\ DOMAIN b.list = 1..Len(b.list) /\ DOMAIN b.up = 1..Len(b.up)
    BY <1>1
  <1>3. \A i \in 1..Len(b.list) : b.list[i] \in Frames BY <1>1
  <1>4. \A i \in 1..Len(b.up) : b.up[i] \in Frames BY <1>1
  <1> QED BY <1>1, <1>2, <1>3, <1>4, FramesType

LEMMA BufferSets ==
  ASSUME NEW b, Buffer(b)
  PROVE  /\ ToSet(b.list) = {b.list[i] : i \in 1..Len(b.list)}
         /\ ToSet(b.up) = {b.up[i] : i \in 1..Len(b.up)}
         /\ ToSet(b.list) \subseteq Frames /\ ToSet(b.up) \subseteq Frames
         /\ ToSet(b.list) \subseteq Int /\ ToSet(b.up) \subseteq Int
  BY BufferFields DEF ToSet

(* Which frames Announce passes up, and that they stay in order *)
LEMMA AnnouncedSets ==
  ASSUME NEW b, Buffer(b), NEW k \in 0..Len(b.list)
  PROVE  LET c == Announce(b, k) IN
         /\ ToSet(c.list) = {b.list[i] : i \in k + 1..Len(b.list)}
         /\ ToSet(c.up) = ToSet(b.up) \cup {b.list[i] : i \in 1..k}
         /\ InLine(b) => InLine(c)
  <1> DEFINE c == Announce(b, k)
  <1>1. /\ Buffer(c)
        /\ Len(c.list) = Len(b.list) - k
        /\ \A i \in 1..Len(c.list) : c.list[i] = b.list[k + i]
        /\ Len(c.up) = Len(b.up) + k
        /\ \A i \in 1..Len(c.up) :
             c.up[i] = IF i <= Len(b.up) THEN b.up[i] ELSE b.list[i - Len(b.up)]
    BY Announced
  <1> HIDE DEF c
  <1>2. Len(b.list) \in Nat /\ Len(b.up) \in Nat BY BufferFields
  <1>3. ToSet(c.list) = {b.list[i] : i \in k + 1..Len(b.list)}
    <2>1. ToSet(c.list) = {c.list[i] : i \in 1..Len(c.list)} BY <1>1, BufferSets
    <2>2. ASSUME NEW i \in k + 1..Len(b.list) PROVE b.list[i] \in ToSet(c.list)
      <3>1. i - k \in 1..Len(c.list) /\ k + (i - k) = i BY <1>1, <1>2
      <3>2. c.list[i - k] = b.list[i] BY <1>1, <3>1
      <3> QED BY <2>1, <3>1, <3>2
    <2>3. ASSUME NEW i \in 1..Len(c.list)
          PROVE  c.list[i] \in {b.list[j] : j \in k + 1..Len(b.list)}
      <3>1. k + i \in k + 1..Len(b.list) BY <1>1, <1>2
      <3>2. c.list[i] = b.list[k + i] BY <1>1
      <3> QED BY <3>1, <3>2
    <2> QED BY <2>1, <2>2, <2>3
  <1>4. ToSet(c.up) = ToSet(b.up) \cup {b.list[i] : i \in 1..k}
    <2>1. /\ ToSet(c.up) = {c.up[i] : i \in 1..Len(c.up)}
          /\ ToSet(b.up) = {b.up[i] : i \in 1..Len(b.up)}
      BY <1>1, BufferSets
    <2>2. ASSUME NEW i \in 1..Len(c.up)
          PROVE  c.up[i] \in ToSet(b.up) \cup {b.list[j] : j \in 1..k}
      <3>1. CASE i <= Len(b.up)
        <4>1. i \in 1..Len(b.up) /\ c.up[i] = b.up[i] BY <1>1, <1>2, <3>1
        <4> QED BY <2>1, <4>1
      <3>2. CASE ~(i <= Len(b.up))
        <4>1. i - Len(b.up) \in 1..k /\ c.up[i] = b.list[i - Len(b.up)]
          BY <1>1, <1>2, <3>2
        <4> QED BY <4>1
      <3> QED BY <3>1, <3>2
    <2>3. ASSUME NEW i \in 1..Len(b.up) PROVE b.up[i] \in ToSet(c.up)
      <3>1. i \in 1..Len(c.up) /\ c.up[i] = b.up[i] BY <1>1, <1>2
      <3> QED BY <2>1, <3>1
    <2>4. ASSUME NEW i \in 1..k PROVE b.list[i] \in ToSet(c.up)
      <3>1. /\ i + Len(b.up) \in 1..Len(c.up) /\ ~(i + Len(b.up) <= Len(b.up))
            /\ (i + Len(b.up)) - Len(b.up) = i
        BY <1>1, <1>2
      <3>2. c.up[i + Len(b.up)] = b.list[i] BY <1>1, <3>1
      <3> QED BY <2>1, <3>1, <3>2
    <2> QED BY <2>1, <2>2, <2>3, <2>4
  <1>5. ASSUME InLine(b) PROVE InLine(c)
    <2>1. /\ \A i, j \in 1..Len(b.up) : i < j => b.up[i] < b.up[j]
          /\ \A i, j \in 1..Len(b.list) : i < j => b.list[i] < b.list[j]
      BY <1>5 DEF InLine, Sorted
    <2>2. \A i \in 1..Len(b.up), j \in 1..Len(b.list) : b.up[i] < b.list[j]
      BY <1>5, BufferSets DEF InLine
    <2>3. Sorted(c.list)
      <3> SUFFICES ASSUME NEW i \in 1..Len(c.list), NEW j \in 1..Len(c.list), i < j
                   PROVE  c.list[i] < c.list[j]
        BY DEF Sorted
      <3>1. /\ k + i \in 1..Len(b.list) /\ k + j \in 1..Len(b.list) /\ k + i < k + j
            /\ c.list[i] = b.list[k + i] /\ c.list[j] = b.list[k + j]
        BY <1>1, <1>2
      <3> QED BY <2>1, <3>1
    <2>4. Sorted(c.up)
      <3> SUFFICES ASSUME NEW i \in 1..Len(c.up), NEW j \in 1..Len(c.up), i < j
                   PROVE  c.up[i] < c.up[j]
        BY DEF Sorted
      <3>1. CASE j <= Len(b.up)
        <4>1. /\ i \in 1..Len(b.up) /\ j \in 1..Len(b.up)
              /\ c.up[i] = b.up[i] /\ c.up[j] = b.up[j]
          BY <1>1, <1>2, <3>1
        <4> QED BY <2>1, <4>1
      <3>2. CASE i <= Len(b.up) /\ ~(j <= Len(b.up))
        <4>1. /\ i \in 1..Len(b.up) /\ j - Len(b.up) \in 1..Len(b.list)
              /\ c.up[i] = b.up[i] /\ c.up[j] = b.list[j - Len(b.up)]
          BY SMTT(60), <1>1, <1>2, <3>2
        <4> QED BY <2>2, <4>1
      <3>3. CASE ~(i <= Len(b.up)) /\ ~(j <= Len(b.up))
        <4>1. /\ i - Len(b.up) \in 1..Len(b.list) /\ j - Len(b.up) \in 1..Len(b.list)
              /\ i - Len(b.up) < j - Len(b.up)
          BY <1>1, <1>2, <3>3
        <4>2. c.up[i] = b.list[i - Len(b.up)] /\ c.up[j] = b.list[j - Len(b.up)]
          BY <1>1, <3>3
        <4> QED BY <2>1, <4>1, <4>2
      <3> QED BY <3>1, <3>2, <3>3, <1>2
    <2>5. ASSUME NEW m \in ToSet(c.up), NEW n \in ToSet(c.list) PROVE m < n
      <3>1. PICK j \in k + 1..Len(b.list) : n = b.list[j] BY <1>3
      <3>2. j \in 1..Len(b.list) BY <1>2
      <3>3. CASE m \in ToSet(b.up)
        <4>1. ToSet(b.up) = {b.up[i] : i \in 1..Len(b.up)} BY BufferSets
        <4>2. PICK i \in 1..Len(b.up) : m = b.up[i] BY <3>3, <4>1
        <4> QED BY <2>2, <3>1, <3>2, <4>2
      <3>4. CASE m \in {b.list[i] : i \in 1..k}
        <4>1. PICK i \in 1..k : m = b.list[i] BY <3>4
        <4>2. i \in 1..Len(b.list) /\ i < j BY <1>2, <3>1, <4>1
        <4> QED BY <2>1, <3>1, <3>2, <4>1, <4>2
      <3> QED BY <1>4, <3>3, <3>4
    <2> QED BY <2>3, <2>4, <2>5 DEF InLine
  <1> QED BY <1>3, <1>4, <1>5 DEF c

-----------------------------------------------------------------------------
(* ba_indicate_reordering_mpdus_le_seq: the frames it passes up *)
UpTo(n, S) == SeqNo(n) = S \/ SEQ_SMALLER(SeqNo(n), S)

LEMMA LeCountIs ==
  ASSUME NEW b, Buffer(b), NEW S
  PROVE  /\ LeCount(b.list, S) \in 0..Len(b.list)
         /\ \A i \in 1..LeCount(b.list, S) : UpTo(b.list[i], S)
         /\ LeCount(b.list, S) < Len(b.list)
              => ~UpTo(b.list[LeCount(b.list, S) + 1], S)
  <1> DEFINE P == {i \in 1..Len(b.list) : UpTo(b.list[i], S)}
  <1>1. Len(b.list) \in Nat BY BufferFields
  <1>2. PICK k \in 0..Len(b.list) :
               (\A i \in 1..k : i \in P) /\ (k < Len(b.list) => k + 1 \notin P)
    BY <1>1, LongestPrefix
  <1>3. /\ \A i \in 1..k : UpTo(b.list[i], S)
        /\ k < Len(b.list) => ~UpTo(b.list[k + 1], S)
    BY <1>1, <1>2
  <1> QED BY <1>2, <1>3 DEF LeCount, UpTo

LEMMA LeSeqFields ==
  ASSUME NEW b, Buffer(b), NEW S
  PROVE  LET c == ba_indicate_reordering_mpdus_le_seq(b, S) IN
         /\ Buffer(c)
         /\ c.LastIndSeq = b.LastIndSeq /\ c.clean = b.clean /\ c.late = b.late
         /\ b.list = <<>> => c.list = <<>>
  <1> DEFINE k == LeCount(b.list, S)
             c == Announce(b, k)
  <1>1. k \in 0..Len(b.list) BY LeCountIs
  <1>2. /\ Buffer(c) /\ Len(c.list) = Len(b.list) - k
        /\ c.LastIndSeq = b.LastIndSeq /\ c.clean = b.clean /\ c.late = b.late
    BY <1>1, Announced
  <1>3. c = ba_indicate_reordering_mpdus_le_seq(b, S)
    BY DEF ba_indicate_reordering_mpdus_le_seq
  <1> HIDE DEF c, k
  <1>4. ASSUME b.list = <<>> PROVE c.list = <<>>
    <2>1. Len(c.list) = 0 BY <1>1, <1>2, <1>4
    <2>2. c.list \in Seq(Frames) BY <1>2, BufferFields
    <2> QED BY <2>1, <2>2
  <1> QED BY <1>2, <1>3, <1>4

LEMMA LeSeqOrder ==
  ASSUME NEW b, Buffer(b), InLine(b), NEW M \in Int,
         \A n \in ToSet(b.list) : n - M < H /\ M - n <= H
  PROVE  LET c == ba_indicate_reordering_mpdus_le_seq(b, SeqNo(M)) IN
         /\ InLine(c)
         /\ ToSet(c.list) = {n \in ToSet(b.list) : M < n}
         /\ ToSet(c.up) = ToSet(b.up) \cup {n \in ToSet(b.list) : n <= M}
  <1> DEFINE k == LeCount(b.list, SeqNo(M))
             c == Announce(b, k)
  <1>1. /\ k \in 0..Len(b.list) /\ \A i \in 1..k : UpTo(b.list[i], SeqNo(M))
        /\ k < Len(b.list) => ~UpTo(b.list[k + 1], SeqNo(M))
    BY LeCountIs
  <1>2. c = ba_indicate_reordering_mpdus_le_seq(b, SeqNo(M))
    BY DEF ba_indicate_reordering_mpdus_le_seq
  <1>3. /\ ToSet(c.list) = {b.list[i] : i \in k + 1..Len(b.list)}
        /\ ToSet(c.up) = ToSet(b.up) \cup {b.list[i] : i \in 1..k}
        /\ InLine(c)
    BY <1>1, AnnouncedSets
  <1>4. /\ Len(b.list) \in Nat /\ \A i \in 1..Len(b.list) : b.list[i] \in Int
        /\ ToSet(b.list) = {b.list[i] : i \in 1..Len(b.list)}
    BY BufferFields, BufferSets
  <1>5. ASSUME NEW i \in 1..Len(b.list)
        PROVE  UpTo(b.list[i], SeqNo(M)) <=> b.list[i] <= M
    <2> DEFINE n == b.list[i]
    <2>1. n \in Int /\ n - M < H /\ M - n <= H BY <1>4
    <2> HIDE DEF n
    <2>2. n - M < SEQS /\ M - n < SEQS BY <2>1, HalfType, SeqsType
    <2>3. SeqNo(n) = SeqNo(M) <=> n = M BY <2>1, <2>2, SameIs
    <2>4. SEQ_SMALLER(SeqNo(n), SeqNo(M)) <=> n < M BY <2>1, SmallerIs
    <2>5. n < M \/ n = M <=> n <= M BY <2>1
    <2> QED BY <2>3, <2>4, <2>5 DEF UpTo, n
  <1> HIDE DEF k, c
  <1>6. \A i, j \in 1..Len(b.list) : i < j => b.list[i] < b.list[j]
    BY DEF InLine, Sorted
  <1>7. ASSUME NEW i \in 1..Len(b.list) PROVE i <= k <=> b.list[i] <= M
    <2>1. CASE i <= k
      <3>1. i \in 1..k BY <1>1, <2>1
      <3> QED BY <1>1, <1>5, <2>1, <3>1
    <2>2. CASE ~(i <= k)
      <3>1. k < Len(b.list) /\ k + 1 \in 1..Len(b.list) /\ (k + 1 < i \/ k + 1 = i)
        BY <1>1, <1>4, <2>2
      <3>2. ~(b.list[k + 1] <= M) BY <1>1, <1>5, <3>1
      <3>3. b.list[k + 1] <= b.list[i] BY <1>4, <1>6, <3>1
      <3> QED BY <1>4, <2>2, <3>1, <3>2, <3>3
    <2> QED BY <2>1, <2>2
  <1>8. {b.list[i] : i \in k + 1..Len(b.list)} = {n \in ToSet(b.list) : M < n}
    <2>1. ASSUME NEW i \in k + 1..Len(b.list)
          PROVE  b.list[i] \in {n \in ToSet(b.list) : M < n}
      <3>1. i \in 1..Len(b.list) /\ ~(i <= k) BY <1>1, <1>4
      <3> QED BY <1>4, <1>7, <3>1
    <2>2. ASSUME NEW n \in ToSet(b.list), M < n
          PROVE  n \in {b.list[i] : i \in k + 1..Len(b.list)}
      <3>1. PICK i \in 1..Len(b.list) : n = b.list[i] BY <1>4
      <3>2. ~(i <= k) BY <1>4, <1>7, <2>2, <3>1
      <3>3. i \in k + 1..Len(b.list) BY <1>1, <1>4, <3>1, <3>2
      <3> QED BY <3>1, <3>3
    <2> QED BY <2>1, <2>2
  <1>9. {b.list[i] : i \in 1..k} = {n \in ToSet(b.list) : n <= M}
    <2>1. ASSUME NEW i \in 1..k PROVE b.list[i] \in {n \in ToSet(b.list) : n <= M}
      <3>1. i \in 1..Len(b.list) /\ i <= k BY <1>1, <1>4
      <3> QED BY <1>4, <1>7, <3>1
    <2>2. ASSUME NEW n \in ToSet(b.list), n <= M
          PROVE  n \in {b.list[i] : i \in 1..k}
      <3>1. PICK i \in 1..Len(b.list) : n = b.list[i] BY <1>4
      <3>2. i <= k BY <1>7, <2>2, <3>1
      <3>3. i \in 1..k BY <1>1, <1>4, <3>1, <3>2
      <3> QED BY <3>1, <3>3
    <2> QED BY <2>1, <2>2
  <1> QED BY <1>2, <1>3, <1>8, <1>9

-----------------------------------------------------------------------------
SeqNos == {RESET_RCV_SEQ} \cup 0..SEQS - 1

(* Updates that leave the frames alone *)
LEMMA Labelled ==
  ASSUME NEW b, Buffer(b), NEW x \in SeqNos
  PROVE  LET c == [b EXCEPT !.LastIndSeq = x] IN
         /\ Buffer(c) /\ c.LastIndSeq = x /\ c.list = b.list /\ c.up = b.up
         /\ c.free = b.free /\ c.leaked = b.leaked
         /\ c.clean = b.clean /\ c.late = b.late
  BY DEF Buffer, Buffers, Pool, SeqNos

LEMMA LabelledLate ==
  ASSUME NEW b, Buffer(b), NEW x \in SeqNos
  PROVE  LET c == [b EXCEPT !.LastIndSeq = x, !.late = TRUE] IN
         /\ Buffer(c) /\ c.LastIndSeq = x /\ c.list = b.list /\ c.up = b.up
         /\ c.free = b.free /\ c.leaked = b.leaked
         /\ c.clean = b.clean /\ c.late
  BY DEF Buffer, Buffers, Pool, SeqNos

LEMMA RunCountIs ==
  ASSUME NEW b, Buffer(b), NEW S \in Int
  PROVE  /\ RunCount(b.list, S) \in 0..Len(b.list)
         /\ \A i \in 1..RunCount(b.list, S) :
              SEQ_STEPONE(SeqNo(b.list[i]), S + i - 1)
         /\ RunCount(b.list, S) < Len(b.list)
              => ~SEQ_STEPONE(SeqNo(b.list[RunCount(b.list, S) + 1]),
                              S + RunCount(b.list, S))
  <1> DEFINE P == {i \in 1..Len(b.list) : SEQ_STEPONE(SeqNo(b.list[i]), S + i - 1)}
  <1>1. Len(b.list) \in Nat BY BufferFields
  <1>2. PICK k \in 0..Len(b.list) :
               (\A i \in 1..k : i \in P) /\ (k < Len(b.list) => k + 1 \notin P)
    BY <1>1, LongestPrefix
  <1>3. \A i \in 1..k : SEQ_STEPONE(SeqNo(b.list[i]), S + i - 1) BY <1>2
  <1>4. ASSUME k < Len(b.list) PROVE ~SEQ_STEPONE(SeqNo(b.list[k + 1]), S + k)
    <2>1. k + 1 \in 1..Len(b.list) /\ S + (k + 1) - 1 = S + k
      BY <1>1, <1>2, <1>4
    <2> QED BY <1>2, <1>4, <2>1
  <1> QED BY <1>2, <1>3, <1>4 DEF RunCount

(* ba_indicate_reordering_mpdus_in_order *)
LEMMA RunFields ==
  ASSUME NEW b, Buffer(b)
  PROVE  LET c == ba_indicate_reordering_mpdus_in_order(b) IN
         /\ Buffer(c) /\ c.clean = b.clean /\ c.late = b.late
         /\ c.LastIndSeq = RESET_RCV_SEQ => b.LastIndSeq = RESET_RCV_SEQ
         /\ b.list = <<>> => c.list = <<>>
  <1> DEFINE k == RunCount(b.list, b.LastIndSeq)
             a == Announce(b, k)
             c == ba_indicate_reordering_mpdus_in_order(b)
  <1>1. b.LastIndSeq \in Int BY BufferFields, SeqsType DEF RESET_RCV_SEQ
  <1>2. k \in 0..Len(b.list) BY <1>1, RunCountIs
  <1>3. /\ Buffer(a) /\ Len(a.list) = Len(b.list) - k
        /\ a.LastIndSeq = b.LastIndSeq /\ a.clean = b.clean /\ a.late = b.late
    BY <1>2, Announced
  <1>4. c = IF k = 0 THEN a ELSE [a EXCEPT !.LastIndSeq = SeqNo(b.list[k])]
    BY DEF ba_indicate_reordering_mpdus_in_order
  <1> HIDE DEF k, a, c
  <1>5. ASSUME b.list = <<>> PROVE a.list = <<>>
    <2>1. Len(a.list) = 0 BY <1>2, <1>3, <1>5
    <2>2. a.list \in Seq(Frames) BY <1>3, BufferFields
    <2> QED BY <2>1, <2>2
  <1>6. CASE k = 0 BY <1>3, <1>4, <1>5, <1>6 DEF c
  <1>7. CASE k # 0
    <2>1. k \in 1..Len(b.list) BY <1>2, <1>7, BufferFields
    <2>2. b.list[k] \in Int BY <2>1, BufferFields
    <2>3. SeqNo(b.list[k]) \in 0..SEQS - 1 BY <2>2, SeqNoType
    <2>4. SeqNo(b.list[k]) \in SeqNos /\ SeqNo(b.list[k]) # RESET_RCV_SEQ
      BY <2>3, SeqsType DEF SeqNos, RESET_RCV_SEQ
    <2>5. /\ Buffer(c) /\ c.LastIndSeq = SeqNo(b.list[k])
          /\ c.clean = a.clean /\ c.late = a.late /\ c.list = a.list
      BY <1>3, <1>4, <1>7, <2>4, Labelled
    <2> QED BY <1>3, <1>5, <2>4, <2>5 DEF c
  <1> QED BY <1>6, <1>7

(* In order, the frames from L on up to the first gap are passed up, and     *)
(* LastIndSeq is the last of them.                                           *)
LEMMA RunOrder ==
  ASSUME NEW b, Buffer(b), InLine(b), NEW L \in Int, b.LastIndSeq = SeqNo(L),
         \A n \in ToSet(b.list) : L < n /\ n - L < SEQS
  PROVE  LET c == ba_indicate_reordering_mpdus_in_order(b) IN
         \E K \in Int :
         /\ L <= K /\ c.LastIndSeq = SeqNo(K) /\ InLine(c)
         /\ ToSet(c.list) = {n \in ToSet(b.list) : K + 1 < n}
         /\ ToSet(c.list) = {n \in ToSet(b.list) : K < n}
         /\ ToSet(c.up) = ToSet(b.up) \cup {n \in ToSet(b.list) : n <= K}
         /\ K # L => K \in ToSet(b.list)
  <1> DEFINE k == RunCount(b.list, SeqNo(L))
             a == Announce(b, k)
             c == ba_indicate_reordering_mpdus_in_order(b)
             K == L + k
  <1>1. SeqNo(L) \in Int BY SeqNoType, SeqsType
  <1>2. /\ k \in 0..Len(b.list)
        /\ \A i \in 1..k : SEQ_STEPONE(SeqNo(b.list[i]), SeqNo(L) + i - 1)
        /\ k < Len(b.list) => ~SEQ_STEPONE(SeqNo(b.list[k + 1]), SeqNo(L) + k)
    BY <1>1, RunCountIs
  <1>3. /\ ToSet(a.list) = {b.list[i] : i \in k + 1..Len(b.list)}
        /\ ToSet(a.up) = ToSet(b.up) \cup {b.list[i] : i \in 1..k}
        /\ InLine(a)
    BY <1>2, AnnouncedSets
  <1>4. Buffer(a) /\ a.LastIndSeq = b.LastIndSeq BY <1>2, Announced
  <1>5. c = IF k = 0 THEN a ELSE [a EXCEPT !.LastIndSeq = SeqNo(b.list[k])]
    BY DEF ba_indicate_reordering_mpdus_in_order
  <1>6. /\ Len(b.list) \in Nat /\ \A i \in 1..Len(b.list) : b.list[i] \in Int
        /\ ToSet(b.list) = {b.list[i] : i \in 1..Len(b.list)}
    BY BufferFields, BufferSets
  <1>7. \A i, j \in 1..Len(b.list) : i < j => b.list[i] < b.list[j]
    BY DEF InLine, Sorted
  <1>8. \A i \in 1..Len(b.list) : L < b.list[i] /\ b.list[i] - L < SEQS BY <1>6
  <1> HIDE DEF k, a, c
  <1>9. ASSUME NEW i \in 1..Len(b.list), i > 1 => b.list[i - 1] = L + (i - 1)
        PROVE  /\ b.list[i] >= L + i
               /\ SEQ_STEPONE(SeqNo(b.list[i]), SeqNo(L) + i - 1)
                    <=> b.list[i] = L + i
    <2> DEFINE n == b.list[i]
    <2>1. n \in Int /\ L < n /\ n - L < SEQS BY <1>6, <1>8
    <2>2. n >= L + i
      <3>1. CASE i = 1 BY <2>1, <3>1
      <3>2. CASE i > 1
        <4>1. i - 1 \in 1..Len(b.list) /\ i - 1 < i BY <1>6, <3>2
        <4>2. b.list[i - 1] < n BY <1>7, <4>1
        <4> QED BY <1>9, <2>1, <3>2, <4>2
      <3> QED BY <3>1, <3>2
    <2> HIDE DEF n
    <2>3. i - 1 \in Int /\ L + (i - 1) + 1 = L + i OBVIOUS
    <2>4. n - (L + (i - 1) + 1) < SEQS /\ (L + (i - 1) + 1) - n < SEQS
      BY <2>1, <2>2, <2>3, SeqsType
    <2>5. SEQ_STEPONE(SeqNo(n), SeqNo(L) + (i - 1)) <=> n = L + (i - 1) + 1
      BY <2>1, <2>3, <2>4, StepIs
    <2>6. SeqNo(L) + (i - 1) = SeqNo(L) + i - 1 BY <1>1
    <2> QED BY <2>2, <2>3, <2>5, <2>6 DEF n
  <1>10. \A i \in 1..k : b.list[i] = L + i
    <2> DEFINE T == {i \in 1..k : b.list[i] # L + i}
    <2> SUFFICES ASSUME T # {} PROVE FALSE OBVIOUS
    <2>1. T \subseteq Nat BY <1>2
    <2>2. PICK m \in T : \A i \in T : m <= i BY <2>1, LeastOf
    <2>3. m \in 1..k /\ m \in 1..Len(b.list) BY <1>2, <1>6, <2>2
    <2>4. m > 1 => b.list[m - 1] = L + (m - 1)
      <3> SUFFICES ASSUME m > 1 PROVE b.list[m - 1] = L + (m - 1) OBVIOUS
      <3>1. m - 1 \in 1..k /\ ~(m <= m - 1) BY <1>2, <2>3
      <3> QED BY <2>2, <3>1
    <2> QED BY <1>2, <1>9, <2>2, <2>3, <2>4
  <1>11. ASSUME NEW i \in k + 1..Len(b.list) PROVE K + 1 < b.list[i]
    <2>1. k < Len(b.list) /\ k + 1 \in 1..Len(b.list) /\ (k + 1 < i \/ k + 1 = i)
          /\ i \in 1..Len(b.list)
      BY <1>2, <1>6
    <2>2. k + 1 > 1 => b.list[(k + 1) - 1] = L + ((k + 1) - 1)
      <3> SUFFICES ASSUME k + 1 > 1 PROVE b.list[(k + 1) - 1] = L + ((k + 1) - 1)
        OBVIOUS
      <3>1. k \in 1..k /\ (k + 1) - 1 = k BY <1>2, <1>6
      <3> QED BY <1>10, <3>1
    <2>3. /\ b.list[k + 1] >= L + (k + 1)
          /\ SEQ_STEPONE(SeqNo(b.list[k + 1]), SeqNo(L) + (k + 1) - 1)
               <=> b.list[k + 1] = L + (k + 1)
      BY <1>9, <2>1, <2>2
    <2>4. SeqNo(L) + (k + 1) - 1 = SeqNo(L) + k BY <1>1, <1>2, <1>6
    <2>5. b.list[k + 1] > L + (k + 1)
      <3>1. b.list[k + 1] # L + (k + 1) BY <1>2, <2>1, <2>3, <2>4
      <3>2. b.list[k + 1] \in Int /\ L + (k + 1) \in Int BY <1>2, <1>6, <2>1
      <3> QED BY <2>3, <3>1, <3>2
    <2>6. b.list[k + 1] <= b.list[i] BY <1>6, <1>7, <2>1
    <2> QED BY <1>2, <1>6, <2>1, <2>5, <2>6
  <1>12. K \in Int /\ L <= K BY <1>2, <1>6
  <1>13. ASSUME NEW i \in 1..k PROVE b.list[i] <= K /\ i \in 1..Len(b.list)
    BY <1>2, <1>6, <1>10
  <1> HIDE DEF K
  <1>14. ASSUME NEW n \in ToSet(b.list)
         PROVE  \/ n \in {b.list[i] : i \in 1..k} /\ n <= K
                \/ n \in {b.list[i] : i \in k + 1..Len(b.list)} /\ K + 1 < n
    <2>1. PICK i \in 1..Len(b.list) : n = b.list[i] BY <1>6
    <2>2. i \in 1..k \/ i \in k + 1..Len(b.list) BY <1>2, <1>6
    <2> QED BY <1>11, <1>13, <2>1, <2>2
  <1>15. {b.list[i] : i \in 1..k} \subseteq ToSet(b.list) BY <1>6, <1>13
  <1>16. {b.list[i] : i \in k + 1..Len(b.list)} \subseteq ToSet(b.list)
    <2>1. k + 1..Len(b.list) \subseteq 1..Len(b.list) BY <1>2, <1>6
    <2> QED BY <1>6, <2>1
  <1>17. ASSUME NEW n \in {b.list[i] : i \in k + 1..Len(b.list)} PROVE K + 1 < n
    <2>1. PICK i \in k + 1..Len(b.list) : n = b.list[i] BY <1>17
    <2> QED BY <1>11, <2>1 DEF K
  <1>18. ASSUME NEW n \in ToSet(b.list)
         PROVE  n \in Int /\ (K + 1 < n <=> ~(n <= K)) /\ (K < n <=> ~(n <= K))
    BY <1>6, <1>12, <1>14
  <1>22. /\ ToSet(a.list) = {n \in ToSet(b.list) : K + 1 < n}
         /\ ToSet(a.list) = {n \in ToSet(b.list) : K < n}
    BY <1>3, <1>14, <1>16, <1>17, <1>18
  <1>19. ToSet(a.up) = ToSet(b.up) \cup {n \in ToSet(b.list) : n <= K}
    BY <1>3, <1>6, <1>12, <1>13, <1>14, <1>15
  <1>20. /\ c.LastIndSeq = SeqNo(K) /\ c.list = a.list /\ c.up = a.up
         /\ K # L => K \in ToSet(b.list)
    <2>1. CASE k = 0
      <3>1. K = L BY <2>1 DEF K
      <3> QED BY <1>4, <1>5, <2>1, <3>1
    <2>2. CASE k # 0
      <3>1. k \in 1..k /\ k \in 1..Len(b.list) BY <1>2, <1>6, <2>2
      <3>2. b.list[k] = K /\ K \in ToSet(b.list) BY <1>6, <1>10, <3>1 DEF K
      <3>3. SeqNo(K) \in SeqNos BY <1>12, SeqNoType DEF SeqNos
      <3>4. c = [a EXCEPT !.LastIndSeq = SeqNo(K)] BY <1>5, <2>2, <3>2
      <3> QED BY <1>4, <3>2, <3>3, <3>4, Labelled
    <2> QED BY <2>1, <2>2
  <1>21. InLine(c) BY <1>3, <1>20 DEF InLine
  <1> QED BY <1>12, <1>22, <1>19, <1>20, <1>21 DEF c

-----------------------------------------------------------------------------
(* INDICATE_LEGACY_OR_AMSDU *)
LEMMA Indicated ==
  ASSUME NEW b, Buffer(b), NEW n \in Frames
  PROVE  LET c == Indicate(b, n) IN
         /\ Buffer(c) /\ c.LastIndSeq = b.LastIndSeq /\ c.list = b.list
         /\ c.clean = b.clean /\ c.late = b.late
         /\ ToSet(c.up) = ToSet(b.up) \cup {n}
         /\ (/\ InLine(b) /\ \A m \in ToSet(b.up) : m < n
             /\ \A m \in ToSet(b.list) : n < m) => InLine(c)
  <1> DEFINE c == Indicate(b, n)
             u == Append(b.up, n)
  <1>1. b.up \in Seq(Frames) /\ Len(b.up) \in Nat BY BufferFields
  <1>2. /\ u \in Seq(Frames) /\ Len(u) = Len(b.up) + 1 /\ u[Len(b.up) + 1] = n
        /\ \A i \in 1..Len(b.up) : u[i] = b.up[i]
    BY <1>1, AppendProperties
  <1>3. c = [b EXCEPT !.up = u] BY DEF Indicate
  <1> HIDE DEF c, u
  <1>4. /\ Buffer(c) /\ c.LastIndSeq = b.LastIndSeq /\ c.list = b.list
        /\ c.clean = b.clean /\ c.late = b.late /\ c.up = u
    <2>1. u \in Seq(Frames) BY <1>2
    <2> QED BY <1>3, <2>1 DEF Buffer, Buffers, Pool
  <1>5. /\ ToSet(u) = {u[i] : i \in 1..Len(b.up) + 1}
        /\ ToSet(b.up) = {b.up[i] : i \in 1..Len(b.up)}
    <2>1. Buffer(c) /\ c.up = u BY <1>4
    <2>2. ToSet(c.up) = {c.up[i] : i \in 1..Len(c.up)} BY <2>1, BufferSets
    <2>3. ToSet(b.up) = {b.up[i] : i \in 1..Len(b.up)} BY BufferSets
    <2> QED BY <1>2, <2>1, <2>2, <2>3
  <1>6. ToSet(u) = ToSet(b.up) \cup {n}
    <2>1. ASSUME NEW i \in 1..Len(b.up) + 1 PROVE u[i] \in ToSet(b.up) \cup {n}
      <3>1. i \in 1..Len(b.up) \/ i = Len(b.up) + 1 BY <1>1
      <3> QED BY <1>2, <1>5, <3>1
    <2>2. ASSUME NEW i \in 1..Len(b.up) PROVE b.up[i] \in ToSet(u)
      <3>1. i \in 1..Len(b.up) + 1 BY <1>1
      <3> QED BY <1>2, <1>5, <3>1
    <2>3. n \in ToSet(u)
      <3>1. Len(b.up) + 1 \in 1..Len(b.up) + 1 BY <1>1
      <3> QED BY <1>2, <1>5, <3>1
    <2> QED BY <1>5, <2>1, <2>2, <2>3
  <1>7. ASSUME InLine(b), \A m \in ToSet(b.up) : m < n, \A m \in ToSet(b.list) : n < m
        PROVE  InLine(c)
    <2>1. \A i, j \in 1..Len(b.up) : i < j => b.up[i] < b.up[j]
      BY <1>7 DEF InLine, Sorted
    <2>2. \A i \in 1..Len(b.up) : b.up[i] < n BY <1>5, <1>7
    <2>3. Sorted(u)
      <3> SUFFICES ASSUME NEW i \in 1..Len(u), NEW j \in 1..Len(u), i < j
                   PROVE  u[i] < u[j]
        BY DEF Sorted
      <3>1. i \in 1..Len(b.up) /\ (j \in 1..Len(b.up) \/ j = Len(b.up) + 1)
        BY <1>1, <1>2
      <3> QED BY <1>2, <2>1, <2>2, <3>1
    <2> QED BY <1>4, <1>6, <1>7, <2>3 DEF InLine
  <1> QED BY <1>4, <1>6, <1>7 DEF c

-----------------------------------------------------------------------------
(* InsertAt puts e at place p. *)
LEMMA Inserted ==
  ASSUME NEW S, NEW s \in Seq(S), NEW p \in 1..Len(s) + 1, NEW e \in S
  PROVE  LET t == InsertAt(s, p, e) IN
         /\ t \in Seq(S) /\ Len(t) = Len(s) + 1
         /\ \A i \in 1..Len(s) + 1 :
              t[i] = IF i < p THEN s[i] ELSE IF i = p THEN e ELSE s[i - 1]
  <1> DEFINE x == SubSeq(s, 1, p - 1)
             y == SubSeq(s, p, Len(s))
             v == x \o <<e>>
             t == v \o y
  <1>1. Len(s) \in Nat /\ \A i \in 1..Len(s) : s[i] \in S OBVIOUS
  <1>2. x \in Seq(S) /\ Len(x) = p - 1 /\ \A i \in 1..p - 1 : x[i] = s[i]
    <2>1. \A i \in 1..p - 1 : s[i] \in S BY <1>1
    <2>2. 1 \in Int /\ p - 1 \in Int BY <1>1
    <2>3. /\ x \in Seq(S) /\ Len(x) = (IF 1 <= p - 1 THEN (p - 1) - 1 + 1 ELSE 0)
          /\ \A i \in 1..(p - 1) - 1 + 1 : x[i] = s[1 + i - 1]
      BY <2>1, <2>2, SubSeqProperties
    <2> QED BY <2>3, <1>1
  <1>3. /\ y \in Seq(S) /\ Len(y) = Len(s) - p + 1
        /\ \A i \in 1..Len(s) - p + 1 : y[i] = s[p + i - 1]
    <2>1. \A i \in p..Len(s) : s[i] \in S BY <1>1
    <2>2. p \in Int /\ Len(s) \in Int BY <1>1
    <2>3. /\ y \in Seq(S) /\ Len(y) = (IF p <= Len(s) THEN Len(s) - p + 1 ELSE 0)
          /\ \A i \in 1..Len(s) - p + 1 : y[i] = s[p + i - 1]
      BY <2>1, <2>2, SubSeqProperties
    <2> QED BY <2>3, <1>1
  <1> HIDE DEF x, y
  <1>4. <<e>> \in Seq(S) /\ Len(<<e>>) = 1 /\ <<e>>[1] = e OBVIOUS
  <1>5. /\ v \in Seq(S) /\ Len(v) = p
        /\ \A i \in 1..p : v[i] = IF i < p THEN s[i] ELSE e
    <2>1. /\ v \in Seq(S) /\ Len(v) = Len(x) + Len(<<e>>)
          /\ \A i \in 1..Len(x) + Len(<<e>>) :
               v[i] = IF i <= Len(x) THEN x[i] ELSE <<e>>[i - Len(x)]
      BY <1>2, <1>4, ConcatProperties
    <2>2. Len(x) + Len(<<e>>) = p /\ p \in Int BY <1>1, <1>2, <1>4
    <2> HIDE DEF v
    <2>3. ASSUME NEW i \in 1..p PROVE v[i] = IF i < p THEN s[i] ELSE e
      <3>1. CASE i < p
        <4>1. i \in 1..p - 1 /\ i <= Len(x) BY <1>2, <2>2, <3>1
        <4> QED BY <1>2, <2>1, <2>2, <3>1, <4>1
      <3>2. CASE ~(i < p)
        <4>1. i = p /\ i - Len(x) = 1 /\ ~(i <= Len(x)) BY <1>2, <2>2, <3>2
        <4> QED BY <1>4, <2>1, <2>2, <3>2, <4>1
      <3> QED BY <3>1, <3>2
    <2> QED BY <2>1, <2>2, <2>3
  <1> HIDE DEF v
  <1>6. /\ t \in Seq(S) /\ Len(t) = Len(v) + Len(y)
        /\ \A i \in 1..Len(v) + Len(y) :
             t[i] = IF i <= Len(v) THEN v[i] ELSE y[i - Len(v)]
    BY <1>3, <1>5, ConcatProperties
  <1>7. Len(v) + Len(y) = Len(s) + 1 /\ p \in Int BY <1>1, <1>3, <1>5
  <1>8. t = InsertAt(s, p, e) BY DEF InsertAt, v, x, y
  <1> HIDE DEF t
  <1>9. ASSUME NEW i \in 1..Len(s) + 1
        PROVE  t[i] = IF i < p THEN s[i] ELSE IF i = p THEN e ELSE s[i - 1]
    <2>1. CASE i <= p
      <3>1. i \in 1..p /\ t[i] = v[i] BY <1>5, <1>6, <1>7, <2>1
      <3> QED BY <1>5, <1>7, <2>1, <3>1
    <2>2. CASE ~(i <= p)
      <3>1. /\ i - p \in 1..Len(s) - p + 1 /\ ~(i < p) /\ i # p
            /\ p + (i - p) - 1 = i - 1
        BY <1>1, <1>7, <2>2
      <3>2. t[i] = y[i - p] BY <1>5, <1>6, <1>7, <2>2
      <3> QED BY <1>3, <3>1, <3>2
    <2> QED BY <2>1, <2>2
  <1> QED BY <1>6, <1>7, <1>8, <1>9

(* ba_reordering_mpdu_insertsorted finds the place before the first frame    *)
(* that is not smaller.                                                      *)
Place(list, n) ==
  CHOOSE q \in 1..Len(list) + 1 :
    /\ \A i \in 1..q - 1 : SEQ_SMALLER(SeqNo(list[i]), SeqNo(n))
    /\ q <= Len(list) => ~SEQ_SMALLER(SeqNo(list[q]), SeqNo(n))

LEMMA PlaceIs ==
  ASSUME NEW b, Buffer(b), NEW n
  PROVE  /\ Place(b.list, n) \in 1..Len(b.list) + 1
         /\ \A i \in 1..Place(b.list, n) - 1 : SEQ_SMALLER(SeqNo(b.list[i]), SeqNo(n))
         /\ Place(b.list, n) <= Len(b.list)
              => ~SEQ_SMALLER(SeqNo(b.list[Place(b.list, n)]), SeqNo(n))
  <1> DEFINE P == {i \in 1..Len(b.list) : SEQ_SMALLER(SeqNo(b.list[i]), SeqNo(n))}
  <1>1. Len(b.list) \in Nat BY BufferFields
  <1>2. PICK k \in 0..Len(b.list) :
               (\A i \in 1..k : i \in P) /\ (k < Len(b.list) => k + 1 \notin P)
    BY <1>1, LongestPrefix
  <1>3. k + 1 \in 1..Len(b.list) + 1 /\ (k + 1) - 1 = k BY <1>1, <1>2
  <1>4. \A i \in 1..(k + 1) - 1 : SEQ_SMALLER(SeqNo(b.list[i]), SeqNo(n))
    BY <1>2, <1>3
  <1>5. k + 1 <= Len(b.list) => ~SEQ_SMALLER(SeqNo(b.list[k + 1]), SeqNo(n))
    BY <1>1, <1>2, <1>3
  <1> QED BY <1>3, <1>4, <1>5 DEF Place

LEMMA InsertFields ==
  ASSUME NEW b, Buffer(b), NEW n \in Frames, b.free > 0
  PROVE  LET c == ba_reordering_mpdu_insertsorted(b, n) IN
         /\ Buffer(c) /\ c.LastIndSeq = b.LastIndSeq /\ c.up = b.up
         /\ c.clean = b.clean /\ c.late = b.late
  <1> DEFINE c == ba_reordering_mpdu_insertsorted(b, n)
             p == Place(b.list, n)
             t == InsertAt(b.list, p, n)
  <1>1. p \in 1..Len(b.list) + 1 BY PlaceIs
  <1>2. /\ b.list \in Seq(Frames) /\ b.free \in 0..NumBlk /\ Len(b.list) \in Nat
        /\ b.leaked \in 0..NumBlk /\ b.free + Len(b.list) + b.leaked = NumBlk
    BY BufferFields
  <1>3. t \in Seq(Frames) /\ Len(t) = Len(b.list) + 1 BY <1>1, <1>2, Inserted
  <1>4. c = b \/ c = [b EXCEPT !.list = t, !.free = b.free - 1]
    BY DEF ba_reordering_mpdu_insertsorted, Place
  <1> HIDE DEF c, p, t
  <1>5. CASE c = b BY <1>5 DEF c
  <1>6. CASE c = [b EXCEPT !.list = t, !.free = b.free - 1]
    <2>1. b.free - 1 \in 0..NumBlk /\ (b.free - 1) + Len(t) + b.leaked = NumBlk
      <3>1. /\ b.free \in Int /\ b.leaked \in Int /\ Len(b.list) \in Int
            /\ b.free <= NumBlk /\ NumBlk \in Int
        BY <1>2, FramesType
      <3>2. b.free - 1 \in 0..NumBlk BY <3>1
      <3>3. Len(t) = Len(b.list) + 1 BY <1>3
      <3> QED BY <1>2, <3>1, <3>2, <3>3
    <2>2. t \in Seq(Frames) BY <1>3
    <2>3. /\ c.list = t /\ c.free = b.free - 1 /\ c.leaked = b.leaked
          /\ c.LastIndSeq = b.LastIndSeq /\ c.up = b.up
          /\ c.clean = b.clean /\ c.late = b.late
      BY <1>6 DEF Buffer, Buffers
    <2>4. c \in Buffers BY <1>6, <2>1, <2>2 DEF Buffer, Buffers
    <2>5. Buffer(c) BY <2>1, <2>3, <2>4 DEF Buffer, Pool
    <2> QED BY <2>3, <2>5 DEF c
  <1> QED BY <1>4, <1>5, <1>6

LEMMA InsertOrder ==
  ASSUME NEW b, Buffer(b), NEW n \in Frames, b.free > 0, InLine(b),
         \A m \in ToSet(b.up) : m < n,
         \A m \in ToSet(b.list) : m - n < H /\ n - m <= H
  PROVE  LET c == ba_reordering_mpdu_insertsorted(b, n) IN
         InLine(c) /\ ToSet(c.list) = ToSet(b.list) \cup {n}
  <1> DEFINE c == ba_reordering_mpdu_insertsorted(b, n)
             p == Place(b.list, n)
             t == InsertAt(b.list, p, n)
             d == [b EXCEPT !.list = t, !.free = b.free - 1]
  <1>1. /\ p \in 1..Len(b.list) + 1
        /\ \A i \in 1..p - 1 : SEQ_SMALLER(SeqNo(b.list[i]), SeqNo(n))
        /\ p <= Len(b.list) => ~SEQ_SMALLER(SeqNo(b.list[p]), SeqNo(n))
    BY PlaceIs
  <1>2. /\ b.list \in Seq(Frames) /\ Len(b.list) \in Nat
        /\ \A i \in 1..Len(b.list) : b.list[i] \in Int
        /\ ToSet(b.list) = {b.list[i] : i \in 1..Len(b.list)}
    BY BufferFields, BufferSets
  <1>3. /\ t \in Seq(Frames) /\ Len(t) = Len(b.list) + 1
        /\ \A i \in 1..Len(b.list) + 1 :
             t[i] = IF i < p THEN b.list[i] ELSE IF i = p THEN n ELSE b.list[i - 1]
    <2>1. b.list \in Seq(Frames) /\ p \in 1..Len(b.list) + 1 BY <1>1, <1>2
    <2> HIDE DEF p, d, c
    <2>2. t \in Seq(Frames) /\ Len(t) = Len(b.list) + 1 BY <2>1, Inserted
    <2>3. \A S : \A s \in Seq(S), e \in S : \A q \in 1..Len(s) + 1 :
            \A i \in 1..Len(s) + 1 : InsertAt(s, q, e)[i]
              = IF i < q THEN s[i] ELSE IF i = q THEN e ELSE s[i - 1]
      BY Inserted
    <2>4. \A q \in 1..Len(b.list) + 1 :
            \A i \in 1..Len(b.list) + 1 : InsertAt(b.list, q, n)[i]
              = IF i < q THEN b.list[i] ELSE IF i = q THEN n ELSE b.list[i - 1]
      BY <2>1, <2>3
    <2> QED BY <2>1, <2>2, <2>4
  <1>4. c = IF p <= Len(b.list) /\ SeqNo(b.list[p]) = SeqNo(n) THEN b ELSE d
    BY DEF ba_reordering_mpdu_insertsorted, Place
  <1>5. n \in Int /\ p \in Int
    <2>1. n \in Int BY FramesType
    <2>2. p \in Int BY <1>1, <1>2
    <2> QED BY <2>1, <2>2
  <1> HIDE DEF c, p, t
  <1>6. ASSUME NEW i \in 1..Len(b.list)
        PROVE  /\ SEQ_SMALLER(SeqNo(b.list[i]), SeqNo(n)) <=> b.list[i] < n
               /\ SeqNo(b.list[i]) = SeqNo(n) <=> b.list[i] = n
    <2> DEFINE m == b.list[i]
    <2>1. m \in Int /\ m - n < H /\ n - m <= H BY <1>2
    <2> HIDE DEF m
    <2>2. m - n < SEQS /\ n - m < SEQS BY <1>5, <2>1, HalfType, SeqsType
    <2>3. SEQ_SMALLER(SeqNo(m), SeqNo(n)) <=> m < n BY <1>5, <2>1, SmallerIs
    <2>4. SeqNo(m) = SeqNo(n) <=> m = n BY <1>5, <2>1, <2>2, SameIs
    <2> QED BY <2>3, <2>4 DEF m
  <1>7. CASE p <= Len(b.list) /\ SeqNo(b.list[p]) = SeqNo(n)
    <2>1. p \in 1..Len(b.list) /\ b.list[p] = n
      <3>1. p \in 1..Len(b.list) BY <1>1, <1>2, <1>7
      <3> QED BY <1>6, <1>7, <3>1
    <2>2. n \in ToSet(b.list) BY <1>2, <2>1
    <2> QED BY <1>4, <1>7, <2>2 DEF c
  <1>8. CASE ~(p <= Len(b.list) /\ SeqNo(b.list[p]) = SeqNo(n))
    <2>1. c = d BY <1>4, <1>8
    <2>2. c.list = t /\ c.up = b.up BY <2>1 DEF Buffer, Buffers
    <2> HIDE DEF d
    <2>3. \A i, j \in 1..Len(b.list) : i < j => b.list[i] < b.list[j]
      BY DEF InLine, Sorted
    <2>4. ASSUME NEW i \in 1..Len(b.list), i < p PROVE b.list[i] < n
      <3>1. i \in 1..p - 1 BY <1>5, <2>4
      <3> QED BY <1>1, <1>6, <3>1
    <2>5. ASSUME NEW i \in 1..Len(b.list), ~(i < p) PROVE n < b.list[i]
      <3>1. p \in 1..Len(b.list) /\ p <= Len(b.list) /\ (p < i \/ p = i)
        BY <1>1, <1>2, <1>5, <2>5
      <3>2. ~(b.list[p] < n) /\ b.list[p] # n BY <1>1, <1>6, <1>8, <3>1
      <3>3. n < b.list[p] BY <1>2, <1>5, <3>1, <3>2
      <3>4. b.list[p] <= b.list[i] BY <1>2, <2>3, <3>1
      <3> QED BY <1>2, <1>5, <3>1, <3>3, <3>4
    <2>6. Sorted(t)
      <3> SUFFICES ASSUME NEW i \in 1..Len(t), NEW j \in 1..Len(t), i < j
                   PROVE  t[i] < t[j]
        BY DEF Sorted
      <3>1. CASE j < p
        <4>1. i \in 1..Len(b.list) /\ j \in 1..Len(b.list) /\ i < p
          BY <1>1, <1>2, <1>3, <1>5, <3>1
        <4>2. t[i] = b.list[i] /\ t[j] = b.list[j] BY <1>3, <3>1, <4>1
        <4> QED BY <2>3, <4>1, <4>2
      <3>2. CASE j = p
        <4>1. i \in 1..Len(b.list) /\ i < p BY <1>1, <1>2, <1>3, <1>5, <3>2
        <4>2. t[i] = b.list[i] /\ t[j] = n BY <1>3, <1>5, <3>2, <4>1
        <4> QED BY <2>4, <4>1, <4>2
      <3>3. CASE j > p
        <4>1. j - 1 \in 1..Len(b.list) /\ ~(j - 1 < p) /\ ~(j < p) /\ j # p
          BY <1>1, <1>2, <1>3, <1>5, <3>3
        <4>2. t[j] = b.list[j - 1] BY <1>3, <4>1
        <4>3. CASE i < p
          <5>1. i \in 1..Len(b.list) /\ i < j - 1
            BY <1>1, <1>2, <1>3, <1>5, <3>3, <4>3
          <5>2. t[i] = b.list[i] BY <1>3, <4>3
          <5> QED BY <2>3, <4>1, <4>2, <5>1, <5>2
        <4>4. CASE i = p
          <5>1. t[i] = n BY <1>3, <1>5, <4>4
          <5> QED BY <2>5, <4>1, <4>2, <5>1
        <4>5. CASE i > p
          <5>1. i - 1 \in 1..Len(b.list) /\ i - 1 < j - 1 /\ ~(i < p) /\ i # p
            BY <1>1, <1>2, <1>3, <1>5, <4>5
          <5>2. t[i] = b.list[i - 1] BY <1>3, <5>1
          <5> QED BY <2>3, <4>1, <4>2, <5>1, <5>2
        <4> QED BY <1>5, <4>3, <4>4, <4>5
      <3> QED BY <1>5, <3>1, <3>2, <3>3
    <2>7. ToSet(t) = ToSet(b.list) \cup {n}
      <3>1. ToSet(t) = {t[i] : i \in 1..Len(b.list) + 1} BY <1>3 DEF ToSet
      <3>2. ASSUME NEW i \in 1..Len(b.list) + 1 PROVE t[i] \in ToSet(b.list) \cup {n}
        <4>1. \/ i < p /\ i \in 1..Len(b.list)
              \/ i = p
              \/ ~(i < p) /\ i # p /\ i - 1 \in 1..Len(b.list)
          BY <1>1, <1>2, <1>5
        <4> QED BY SMTT(60), <1>2, <1>3, <4>1
      <3>3. n \in ToSet(t)
        <4>1. t[p] = n BY <1>1, <1>3, <1>5
        <4> QED BY <1>1, <3>1, <4>1
      <3>4. ASSUME NEW i \in 1..Len(b.list) PROVE b.list[i] \in ToSet(t)
        <4>1. CASE i < p
          <5>1. i \in 1..Len(b.list) + 1 BY <1>2
          <5>2. t[i] = b.list[i] BY <1>3, <4>1, <5>1
          <5> QED BY <3>1, <5>1, <5>2
        <4>2. CASE ~(i < p)
          <5>1. /\ i + 1 \in 1..Len(b.list) + 1 /\ ~(i + 1 < p) /\ i + 1 # p
                /\ (i + 1) - 1 = i
            BY <1>2, <1>5, <4>2
          <5>2. t[i + 1] = b.list[i] BY <1>3, <5>1
          <5> QED BY <3>1, <5>1, <5>2
        <4> QED BY <4>1, <4>2
      <3> QED BY <1>2, <3>1, <3>2, <3>3, <3>4
    <2>8. ASSUME NEW m \in ToSet(c.up), NEW q \in ToSet(c.list) PROVE m < q
      BY <2>2, <2>7 DEF InLine
    <2>9. Sorted(c.up) /\ Sorted(c.list) BY <2>2, <2>6 DEF InLine
    <2> QED BY <2>2, <2>7, <2>8, <2>9 DEF InLine, c
  <1> QED BY <1>7, <1>8

-----------------------------------------------------------------------------
LEMMA WinType ==
  ASSUME NEW w \in WinSizes
  PROVE  w \in Nat /\ w >= 1 /\ Gap \in Nat /\ 2 * w + Gap < H
  BY ReorderAssumption DEF ReorderAssumption, H

(* ba_refresh_reordering_mpdus empties the list. *)
LEMMA RefreshIs ==
  ASSUME NEW b, Buffer(b)
  PROVE  LET c == ba_refresh_reordering_mpdus(b) IN
         /\ Buffer(c) /\ c.list = <<>> /\ c.LastIndSeq = RESET_RCV_SEQ
         /\ ~c.clean
  <1> DEFINE a == Announce(b, Len(b.list))
             c == ba_refresh_reordering_mpdus(b)
  <1>1. Len(b.list) \in 0..Len(b.list) /\ Len(b.list) - Len(b.list) = 0
    BY BufferFields
  <1>2. Buffer(a) /\ Len(a.list) = 0 BY <1>1, Announced
  <1>3. c = [a EXCEPT !.LastIndSeq = RESET_RCV_SEQ, !.clean = FALSE]
    BY DEF ba_refresh_reordering_mpdus
  <1> HIDE DEF a, c
  <1>4. a.list = <<>>
    <2>1. a.list \in Seq(Frames) BY <1>2, BufferFields
    <2> QED BY <1>2, <2>1
  <1>5. RESET_RCV_SEQ \in SeqNos /\ FALSE \in BOOLEAN BY DEF SeqNos
  <1>6. /\ Buffer(c) /\ c.LastIndSeq = RESET_RCV_SEQ /\ c.list = a.list
        /\ c.clean = FALSE
    <2>1. Buffer(a) BY <1>2
    <2> QED BY <1>3, <1>5, <2>1 DEF Buffer, Buffers, Pool, SeqNos
  <1> QED BY <1>4, <1>6 DEF c

(* A list is empty before the first frame of a session. *)
Ready(b) == b.LastIndSeq = RESET_RCV_SEQ => b.list = <<>>

LEMMA SeqNoIsNo ==
  ASSUME NEW n \in Int PROVE SeqNo(n) \in SeqNos /\ SeqNo(n) # RESET_RCV_SEQ
  BY SeqNoType DEF SeqNos, RESET_RCV_SEQ

LEMMA EnqueueFields ==
  ASSUME NEW b, Buffer(b), NEW n \in Frames, NEW eap \in BOOLEAN,
         b.LastIndSeq # RESET_RCV_SEQ
  PROVE  LET c == ba_enqueue_reordering_packet(b, n, eap) IN
         /\ Buffer(c) /\ c.late = b.late /\ c.LastIndSeq # RESET_RCV_SEQ
         /\ c.clean => /\ b.clean /\ b.free > 0
                       /\ c = ba_reordering_mpdu_insertsorted(b, n)
  <1> DEFINE c == ba_enqueue_reordering_packet(b, n, eap)
  <1>0. n \in Int BY FramesType
  <1>1. CASE b.free > 0 /\ ~eap
    <2>1. c = ba_reordering_mpdu_insertsorted(b, n)
      BY <1>1 DEF ba_enqueue_reordering_packet
    <2>2. /\ Buffer(c) /\ c.LastIndSeq = b.LastIndSeq
          /\ c.clean = b.clean /\ c.late = b.late
      BY <1>1, <2>1, InsertFields
    <2> HIDE DEF c
    <2> QED BY <1>1, <2>1, <2>2 DEF c
  <1>2. CASE ~(b.free > 0 /\ ~eap)
    <2> DEFINE a == ba_indicate_reordering_mpdus_le_seq(b, SeqNo(n))
               f == IF b.free > 0 THEN 1 ELSE 0
               e == [a EXCEPT !.LastIndSeq = SeqNo(n), !.clean = FALSE,
                              !.free = a.free - f, !.leaked = a.leaked + f]
    <2>1. c = Indicate(e, n) BY <1>2 DEF ba_enqueue_reordering_packet
    <2>2. Buffer(a) /\ a.late = b.late BY LeSeqFields
    <2>3. a.free >= b.free
      <3> DEFINE k == LeCount(b.list, SeqNo(n))
      <3>1. k \in 0..Len(b.list) BY LeCountIs
      <3>2. a = [b EXCEPT !.list = SubSeq(b.list, k + 1, Len(b.list)),
                          !.free = b.free + k, !.up = b.up \o SubSeq(b.list, 1, k)]
        BY DEF ba_indicate_reordering_mpdus_le_seq, Announce
      <3> HIDE DEF k, a
      <3>3. a.free = b.free + k BY <3>2 DEF Buffer, Buffers
      <3>4. b.free \in Int /\ Len(b.list) \in Int BY BufferFields
      <3> QED BY <3>1, <3>3, <3>4
    <2>4. SeqNo(n) \in SeqNos /\ SeqNo(n) # RESET_RCV_SEQ BY <1>0, SeqNoIsNo
    <2> HIDE DEF a, c
    <2>5. Buffer(e) /\ e.late = a.late /\ e.LastIndSeq = SeqNo(n) /\ e.clean = FALSE
      <3>1. /\ a.free \in Int /\ a.leaked \in Int /\ Len(a.list) \in Int
            /\ a.free >= 0 /\ a.leaked >= 0 /\ Len(a.list) >= 0
            /\ a.free + Len(a.list) + a.leaked = NumBlk
        BY <2>2, BufferFields
      <3>2. f \in {0, 1} /\ f <= a.free
        <4>1. b.free \in Int /\ b.free >= 0 BY BufferFields
        <4> QED BY <2>3, <3>1, <4>1
      <3> HIDE DEF f
      <3>3. a.free - f >= 0 /\ a.leaked + f >= 0 BY <3>1, <3>2
      <3>4. a.free - f <= NumBlk /\ a.leaked + f <= NumBlk
        BY <3>1, <3>2, FramesType
      <3>5. (a.free - f) + Len(a.list) + (a.leaked + f) = NumBlk
        BY SMTT(60), <3>1, <3>2
      <3>6. a.free - f \in 0..NumBlk /\ a.leaked + f \in 0..NumBlk
        BY <3>1, <3>2, <3>3, <3>4, FramesType
      <3>7. /\ e.late = a.late /\ e.LastIndSeq = SeqNo(n) /\ e.clean = FALSE
            /\ e.list = a.list /\ e.free = a.free - f /\ e.leaked = a.leaked + f
        BY <2>2 DEF Buffer, Buffers
      <3>8. e \in Buffers BY <2>2, <2>4, <3>6 DEF Buffer, Buffers, SeqNos
      <3> QED BY <3>5, <3>7, <3>8 DEF Buffer, Pool
    <2> HIDE DEF e
    <2>6. /\ Buffer(c) /\ c.late = e.late /\ c.LastIndSeq = e.LastIndSeq
          /\ c.clean = e.clean
      BY <2>1, <2>5, Indicated
    <2> QED BY <2>2, <2>4, <2>5, <2>6 DEF c
  <1> QED BY <1>1, <1>2

LEMMA RunReady ==
  ASSUME NEW b, Buffer(b)
  PROVE  LET c == ba_indicate_reordering_mpdus_in_order(b) IN
         /\ Ready(b) => Ready(c)
         /\ b.LastIndSeq # RESET_RCV_SEQ => c.LastIndSeq # RESET_RCV_SEQ
  BY RunFields DEF Ready

(* ba_flush_reordering_timeout_mpdus *)
LEMMA FlushFields ==
  ASSUME NEW b, Buffer(b), NEW t \in 0..2
  PROVE  LET c == ba_flush_reordering_timeout_mpdus(b, t) IN
         Buffer(c) /\ (Ready(b) => Ready(c)) /\ (c.clean => b.clean)
  <1> DEFINE c == ba_flush_reordering_timeout_mpdus(b, t)
             S == (b.LastIndSeq + 1) % SEQS
  <1>1. CASE t = 2 /\ Len(b.list) > 1
    <2>1. c = ba_refresh_reordering_mpdus(b)
      BY <1>1 DEF ba_flush_reordering_timeout_mpdus
    <2>2. Buffer(c) /\ c.list = <<>> /\ ~c.clean BY <2>1, RefreshIs
    <2> QED BY <2>2 DEF Ready
  <1>2. CASE t > 0 /\ b.list # <<>> /\ ~(t = 2 /\ Len(b.list) > 1)
    <2> DEFINE a == ba_indicate_reordering_mpdus_le_seq(b, S)
               d == [a EXCEPT !.LastIndSeq = S, !.late = TRUE]
    <2>1. c = ba_indicate_reordering_mpdus_in_order(d)
      BY <1>2 DEF ba_flush_reordering_timeout_mpdus
    <2>2. Buffer(a) /\ a.clean = b.clean BY LeSeqFields
    <2>3. b.LastIndSeq \in Int BY BufferFields, SeqsType DEF RESET_RCV_SEQ
    <2>4. S \in SeqNos /\ S # RESET_RCV_SEQ
      <3>1. b.LastIndSeq + 1 \in Int BY <2>3
      <3>2. S = SeqNo(b.LastIndSeq + 1) BY DEF SeqNo
      <3> QED BY <3>1, <3>2, SeqNoIsNo
    <2> HIDE DEF a, S, c
    <2>5. Buffer(d) /\ d.clean = a.clean /\ d.LastIndSeq = S
      BY <2>2, <2>4, LabelledLate
    <2> HIDE DEF d
    <2>6. Buffer(c) /\ c.clean = d.clean /\ c.LastIndSeq # RESET_RCV_SEQ
      BY <2>1, <2>4, <2>5, RunFields
    <2> QED BY <2>2, <2>5, <2>6 DEF Ready, c
  <1>3. CASE /\ ~(t = 2 /\ Len(b.list) > 1)
             /\ ~(t > 0 /\ b.list # <<>> /\ ~(t = 2 /\ Len(b.list) > 1))
    <2>1. c = b BY <1>3 DEF ba_flush_reordering_timeout_mpdus
    <2> QED BY <2>1
  <1> QED BY <1>1, <1>2, <1>3

LEMMA BeyondFields ==
  ASSUME NEW b, Buffer(b), NEW n \in Frames, NEW eap \in BOOLEAN, win \in Nat
  PROVE  LET c == BeyondWindow(b, n, eap) IN
         Buffer(c) /\ Ready(c) /\ (c.clean => b.clean) /\ c.late = b.late
  <1> DEFINE S == (SeqNo(n) - win) % SEQS
             a == ba_indicate_reordering_mpdus_le_seq(b, S)
             d == [a EXCEPT !.LastIndSeq = S]
             e == ba_enqueue_reordering_packet(d, n, eap)
             c == ba_indicate_reordering_mpdus_in_order(e)
  <1>1. c = BeyondWindow(b, n, eap) BY DEF BeyondWindow
  <1>2. S \in SeqNos /\ S # RESET_RCV_SEQ
    <2>1. SeqNo(n) - win \in Int BY FramesType, SeqNoType, SeqsType
    <2>2. S = SeqNo(SeqNo(n) - win) BY DEF SeqNo
    <2> QED BY <2>1, <2>2, SeqNoIsNo
  <1>3. Buffer(a) /\ a.clean = b.clean /\ a.late = b.late BY LeSeqFields
  <1> HIDE DEF S, a
  <1>4. Buffer(d) /\ d.clean = a.clean /\ d.late = a.late /\ d.LastIndSeq = S
    BY <1>2, <1>3, Labelled
  <1> HIDE DEF d
  <1>5. /\ Buffer(e) /\ (e.clean => d.clean) /\ e.late = d.late
        /\ e.LastIndSeq # RESET_RCV_SEQ
    BY <1>2, <1>4, EnqueueFields
  <1> HIDE DEF e
  <1>6. /\ Buffer(c) /\ c.clean = e.clean /\ c.late = e.late
        /\ c.LastIndSeq # RESET_RCV_SEQ
    BY <1>5, RunFields
  <1> HIDE DEF c
  <1> QED BY <1>1, <1>3, <1>4, <1>5, <1>6 DEF Ready

LEMMA InSessionFields ==
  ASSUME NEW b, Buffer(b), NEW n \in Frames, NEW eap \in BOOLEAN, win \in Nat
  PROVE  LET c == InSession(b, n, eap) IN
         /\ Buffer(c) /\ (Ready(b) => Ready(c)) /\ (c.clean => b.clean)
         /\ c.late = b.late
  <1> DEFINE c == InSession(b, n, eap)
             S == SeqNo(n)
             a == [b EXCEPT !.LastIndSeq = S]
             d == Indicate(a, n)
  <1>0. n \in Int BY FramesType
  <1>1. S \in SeqNos /\ S # RESET_RCV_SEQ BY <1>0, SeqNoIsNo
  <1>2. /\ Buffer(a) /\ a.clean = b.clean /\ a.late = b.late /\ a.LastIndSeq = S
    BY <1>1, Labelled
  <1> HIDE DEF a
  <1>3. /\ Buffer(d) /\ d.clean = a.clean /\ d.late = a.late /\ d.LastIndSeq = S
    BY <1>2, Indicated
  <1>4. \/ c = d
        \/ c = ba_indicate_reordering_mpdus_in_order(d)
        \/ c = b
        \/ b.LastIndSeq # RESET_RCV_SEQ /\ c = ba_enqueue_reordering_packet(b, n, eap)
        \/ c = BeyondWindow(b, n, eap)
    BY DEF InSession, a
  <1> HIDE DEF d, c, S
  <1>5. CASE c = d BY <1>1, <1>2, <1>3, <1>5 DEF Ready, c
  <1>6. CASE c = ba_indicate_reordering_mpdus_in_order(d)
    <2>1. /\ Buffer(c) /\ c.clean = d.clean /\ c.late = d.late
          /\ c.LastIndSeq # RESET_RCV_SEQ
      BY <1>1, <1>3, <1>6, RunFields
    <2> QED BY <1>2, <1>3, <2>1 DEF Ready, c
  <1>7. CASE c = b BY <1>7 DEF c
  <1>8. CASE /\ b.LastIndSeq # RESET_RCV_SEQ
             /\ c = ba_enqueue_reordering_packet(b, n, eap)
    <2>1. /\ Buffer(c) /\ (c.clean => b.clean) /\ c.late = b.late
          /\ c.LastIndSeq # RESET_RCV_SEQ
      BY <1>8, EnqueueFields
    <2> QED BY <2>1 DEF Ready, c
  <1>9. CASE c = BeyondWindow(b, n, eap) BY <1>9, BeyondFields DEF c
  <1> QED BY <1>4, <1>5, <1>6, <1>7, <1>8, <1>9

-----------------------------------------------------------------------------
(* A session in order, of which L was the last frame passed up or passed     *)
(* over: what was passed up is not after L, what waits is in the window      *)
(* after L and does not follow L directly.                                   *)
Line(b, L) ==
  /\ L \in Int /\ b.LastIndSeq = SeqNo(L) /\ InLine(b)
  /\ \A n \in ToSet(b.up) : n <= L
  /\ \A n \in ToSet(b.list) : L + 1 < n /\ n <= L + win

(* No frame is lost on the way from buffer b to c. *)
Keeps(b, c) ==
  /\ ToSet(b.up) \subseteq ToSet(c.up)
  /\ ToSet(b.list) \subseteq ToSet(c.list) \cup ToSet(c.up)

(* From frame L on, all that follow without a gap are passed up. *)
LEMMA RunLine ==
  ASSUME NEW b, Buffer(b), InLine(b), win \in WinSizes,
         NEW L \in Int, b.LastIndSeq = SeqNo(L),
         \A n \in ToSet(b.up) : n <= L,
         \A n \in ToSet(b.list) : L < n /\ n <= L + win
  PROVE  LET c == ba_indicate_reordering_mpdus_in_order(b) IN
         \E K \in Int :
         /\ L <= K /\ Line(c, K) /\ Keeps(b, c)
         /\ ToSet(c.list) \subseteq ToSet(b.list)
         /\ K # L => K \in ToSet(b.list) /\ K \in ToSet(c.up)
  <1> DEFINE c == ba_indicate_reordering_mpdus_in_order(b)
  <1>1. /\ win \in Nat /\ win < SEQS /\ ToSet(b.list) \subseteq Int
        /\ ToSet(b.up) \subseteq Int
    BY WinType, HalfType, BufferSets
  <1>2. \A n \in ToSet(b.list) : L < n /\ n - L < SEQS BY <1>1, SeqsType
  <1>3. PICK K \in Int :
         /\ L <= K /\ c.LastIndSeq = SeqNo(K) /\ InLine(c)
         /\ ToSet(c.list) = {n \in ToSet(b.list) : K + 1 < n}
         /\ ToSet(c.list) = {n \in ToSet(b.list) : K < n}
         /\ ToSet(c.up) = ToSet(b.up) \cup {n \in ToSet(b.list) : n <= K}
         /\ K # L => K \in ToSet(b.list)
    BY <1>2, RunOrder
  <1> HIDE DEF c
  <1>4. ASSUME NEW n \in ToSet(c.up) PROVE n <= K BY <1>1, <1>3
  <1>5. ASSUME NEW n \in ToSet(c.list) PROVE K + 1 < n /\ n <= K + win
    BY <1>1, <1>3
  <1>6. Line(c, K) BY <1>3, <1>4, <1>5 DEF Line
  <1>7. ASSUME NEW n \in ToSet(b.list) PROVE n \in ToSet(c.list) \cup ToSet(c.up)
    BY <1>1, <1>3
  <1>8. Keeps(b, c) BY <1>3, <1>7 DEF Keeps
  <1>9. K # L => K \in ToSet(c.up) BY <1>3
  <1> QED BY <1>3, <1>6, <1>8, <1>9 DEF c

(* A timeout passes over the one frame that is missing. *)
LEMMA FlushLine ==
  ASSUME NEW b, Buffer(b), NEW t \in 0..2, win \in WinSizes, NEW L, Line(b, L),
         ba_flush_reordering_timeout_mpdus(b, t).clean
  PROVE  LET c == ba_flush_reordering_timeout_mpdus(b, t) IN
         \E K \in Int :
         /\ L <= K /\ Line(c, K) /\ Keeps(b, c)
         /\ ToSet(c.list) \subseteq ToSet(b.list)
         /\ \/ K = L /\ c = b
            \/ c.late /\ \E m \in ToSet(b.list) : K <= m
  <1> DEFINE c == ba_flush_reordering_timeout_mpdus(b, t)
             S == (b.LastIndSeq + 1) % SEQS
  <1>0. L \in Int BY DEF Line
  <1>1. CASE t = 2 /\ Len(b.list) > 1
    <2>1. c = ba_refresh_reordering_mpdus(b)
      BY <1>1 DEF ba_flush_reordering_timeout_mpdus
    <2> QED BY <2>1, RefreshIs
  <1>2. CASE t > 0 /\ b.list # <<>> /\ ~(t = 2 /\ Len(b.list) > 1)
    <2> DEFINE M == L + 1
               a == ba_indicate_reordering_mpdus_le_seq(b, S)
               d == [a EXCEPT !.LastIndSeq = S, !.late = TRUE]
    <2>1. c = ba_indicate_reordering_mpdus_in_order(d)
      BY <1>2 DEF ba_flush_reordering_timeout_mpdus
    <2>2. M \in Int /\ S = SeqNo(M)
      <3>1. b.LastIndSeq = L % SEQS BY DEF Line, SeqNo
      <3>2. ((L % SEQS) + 1) % SEQS = (L + 1) % SEQS BY <1>0, ModSum
      <3> QED BY <1>0, <3>1, <3>2 DEF SeqNo
    <2>3. /\ win \in Nat /\ win < H /\ H \in Nat
          /\ ToSet(b.list) \subseteq Int /\ ToSet(b.up) \subseteq Int
      BY WinType, HalfType, BufferSets
    <2>4. \A n \in ToSet(b.list) : L + 1 < n /\ n <= L + win BY DEF Line
    <2>5. \A n \in ToSet(b.list) : n - M < H /\ M - n <= H BY <1>0, <2>3, <2>4
    <2>6. \A n \in ToSet(b.list) : M < n /\ ~(n <= M) BY <1>0, <2>3, <2>4
    <2> HIDE DEF M, S, c
    <2>7. InLine(b) BY DEF Line
    <2>8. /\ InLine(a) /\ ToSet(a.list) = ToSet(b.list) /\ ToSet(a.up) = ToSet(b.up)
      <3>1. /\ InLine(a) /\ ToSet(a.list) = {n \in ToSet(b.list) : M < n}
            /\ ToSet(a.up) = ToSet(b.up) \cup {n \in ToSet(b.list) : n <= M}
        BY <2>2, <2>5, <2>7, LeSeqOrder
      <3> QED BY <2>6, <3>1
    <2>9. Buffer(a) /\ S \in SeqNos BY <2>2, LeSeqFields, SeqNoIsNo
    <2> HIDE DEF a
    <2>10. /\ Buffer(d) /\ d.LastIndSeq = S /\ d.list = a.list /\ d.up = a.up
           /\ d.late
      BY <2>9, LabelledLate
    <2> HIDE DEF d
    <2>11. InLine(d) BY <2>8, <2>10 DEF InLine
    <2>12. \A n \in ToSet(d.up) : n <= M
      <3>1. \A n \in ToSet(b.up) : n <= L BY DEF Line
      <3> QED BY <1>0, <2>3, <2>8, <2>10, <3>1 DEF M
    <2>13. \A n \in ToSet(d.list) : M < n /\ n <= M + win
      BY <1>0, <2>3, <2>4, <2>6, <2>8, <2>10 DEF M
    <2>14. PICK K \in Int :
           /\ M <= K /\ Line(c, K) /\ Keeps(d, c)
           /\ ToSet(c.list) \subseteq ToSet(d.list)
           /\ K # M => K \in ToSet(d.list) /\ K \in ToSet(c.up)
      BY <2>1, <2>2, <2>10, <2>11, <2>12, <2>13, RunLine
    <2>15. c.late BY <2>1, <2>10, RunFields
    <2>16. Keeps(b, c) /\ ToSet(c.list) \subseteq ToSet(b.list)
      BY <2>8, <2>10, <2>14 DEF Keeps
    <2>17. PICK m \in ToSet(b.list) : TRUE
      <3>1. b.list \in Seq(Frames) /\ Len(b.list) \in Nat BY BufferFields
      <3>2. 1 \in 1..Len(b.list) BY <1>2, <3>1
      <3>3. ToSet(b.list) = {b.list[i] : i \in 1..Len(b.list)} BY BufferSets
      <3>4. b.list[1] \in ToSet(b.list) BY <3>2, <3>3
      <3> QED BY <3>4
    <2>18. \E q \in ToSet(b.list) : K <= q
      <3>1. CASE K = M
        <4>1. m \in ToSet(b.list) /\ m \in Int BY <2>3, <2>17
        <4>2. M < m BY <2>6, <4>1
        <4>3. K <= m BY <2>2, <3>1, <4>1, <4>2
        <4> QED BY <4>1, <4>3
      <3>2. CASE K # M
        <4>1. K \in ToSet(b.list) BY <2>8, <2>10, <2>14, <3>2
        <4>2. K \in Int BY <2>14
        <4>3. K <= K BY <4>2
        <4> QED BY <4>1, <4>3
      <3> QED BY <3>1, <3>2
    <2>19. L <= K BY <1>0, <2>14 DEF M
    <2> QED BY <2>14, <2>15, <2>16, <2>18, <2>19 DEF c
  <1>3. CASE /\ ~(t = 2 /\ Len(b.list) > 1)
             /\ ~(t > 0 /\ b.list # <<>> /\ ~(t = 2 /\ Len(b.list) > 1))
    <2>1. c = b BY <1>3 DEF ba_flush_reordering_timeout_mpdus
    <2> HIDE DEF c
    <2>2. Keeps(b, b) BY DEF Keeps
    <2> QED BY <1>0, <2>1, <2>2 DEF c
  <1> QED BY <1>1, <1>2, <1>3

(* Frame n beyond the window: the window is moved to end with n. *)
LEMMA BeyondLine ==
  ASSUME NEW b, Buffer(b), NEW n \in Frames, NEW eap \in BOOLEAN,
         win \in WinSizes, NEW L, Line(b, L), n > L + win, n - L < H,
         BeyondWindow(b, n, eap).clean
  PROVE  LET c == BeyondWindow(b, n, eap) IN
         \E K \in Int :
         /\ n - win <= K /\ Line(c, K) /\ Keeps(b, c)
         /\ n \in ToSet(c.up) \cup ToSet(c.list)
         /\ ToSet(c.list) \subseteq ToSet(b.list) \cup {n}
         /\ K # n - win => K \in ToSet(b.list) \cup {n} /\ K \in ToSet(c.up)
  <1> DEFINE M == n - win
             S == (SeqNo(n) - win) % SEQS
             a == ba_indicate_reordering_mpdus_le_seq(b, S)
             d == [a EXCEPT !.LastIndSeq = S]
             e == ba_enqueue_reordering_packet(d, n, eap)
             c == ba_indicate_reordering_mpdus_in_order(e)
  <1>1. c = BeyondWindow(b, n, eap) BY DEF BeyondWindow
  <1>2. /\ L \in Int /\ n \in Int /\ win \in Nat /\ win >= 1 /\ win < H /\ H \in Nat
        /\ ToSet(b.list) \subseteq Int /\ ToSet(b.up) \subseteq Int
    BY WinType, HalfType, BufferSets, FramesType DEF Line
  <1>3. M \in Int /\ S = SeqNo(M)
    <2>1. -win \in Int BY <1>2
    <2>2. ((n % SEQS) + (-win)) % SEQS = (n + (-win)) % SEQS
      BY <1>2, <2>1, ModSum
    <2>3. n % SEQS \in Int BY <1>2, SeqsType
    <2>4. (n % SEQS) + (-win) = (n % SEQS) - win /\ n + (-win) = n - win
      BY <1>2, <2>3
    <2> QED BY <1>2, <2>2, <2>4 DEF SeqNo
  <1>4. S \in SeqNos /\ S # RESET_RCV_SEQ BY <1>3, SeqNoIsNo
  <1>5. /\ InLine(b) /\ \A m \in ToSet(b.up) : m <= L
        /\ \A m \in ToSet(b.list) : L + 1 < m /\ m <= L + win
    BY DEF Line
  <1>6. /\ M \in Int /\ M < n /\ L < M /\ M - L < H /\ M + win = n BY <1>2
  <1> HIDE DEF M, S, a, c
  <1>7. \A m \in ToSet(b.list) : m - M < H /\ M - m <= H
    <2> SUFFICES ASSUME NEW m \in ToSet(b.list) PROVE m - M < H /\ M - m <= H
      OBVIOUS
    <2>1. m \in Int /\ L + 1 < m /\ m <= L + win BY <1>2, <1>5
    <2> QED BY <1>2, <1>6, <2>1
  <1>8. /\ InLine(a) /\ ToSet(a.list) = {m \in ToSet(b.list) : M < m}
        /\ ToSet(a.up) = ToSet(b.up) \cup {m \in ToSet(b.list) : m <= M}
    BY <1>3, <1>5, <1>7, LeSeqOrder DEF a
  <1>9. Buffer(a) BY LeSeqFields DEF a
  <1>10. Buffer(d) /\ d.LastIndSeq = S /\ d.list = a.list /\ d.up = a.up
    BY <1>4, <1>9, Labelled
  <1> HIDE DEF d
  <1>11. d.LastIndSeq # RESET_RCV_SEQ BY <1>4, <1>10
  <1>12. /\ Buffer(e)
         /\ e.clean => d.clean /\ d.free > 0 /\ e = ba_reordering_mpdu_insertsorted(d, n)
    BY <1>10, <1>11, EnqueueFields
  <1> HIDE DEF e
  <1>13. e.clean
    <2>1. c.clean = e.clean BY <1>12, RunFields DEF c
    <2> QED BY <1>1, <2>1
  <1>14. InLine(d) BY <1>8, <1>10 DEF InLine
  <1>15. \A m \in ToSet(d.up) : m \in Int /\ m <= M
    <2> SUFFICES ASSUME NEW m \in ToSet(d.up) PROVE m \in Int /\ m <= M OBVIOUS
    <2>1. CASE m \in ToSet(b.up) BY <1>2, <1>5, <1>6, <2>1
    <2>2. CASE m \in ToSet(b.list) /\ m <= M BY <1>2, <2>2
    <2> QED BY <1>8, <1>10, <2>1, <2>2
  <1>16. \A m \in ToSet(d.list) : m \in Int /\ M < m /\ m < n
    <2> SUFFICES ASSUME NEW m \in ToSet(d.list) PROVE m \in Int /\ M < m /\ m < n
      OBVIOUS
    <2>1. m \in ToSet(b.list) /\ M < m BY <1>8, <1>10
    <2>2. m \in Int /\ m <= L + win BY <1>2, <1>5, <2>1
    <2> QED BY <1>2, <2>1, <2>2
  <1>17. \A m \in ToSet(d.up) : m < n BY <1>2, <1>6, <1>15
  <1>18. \A m \in ToSet(d.list) : m - n < H /\ n - m <= H BY <1>2, <1>6, <1>16
  <1>19. InLine(e) /\ ToSet(e.list) = ToSet(d.list) \cup {n}
    <2>1. Buffer(d) /\ d.free > 0 /\ e = ba_reordering_mpdu_insertsorted(d, n)
      BY <1>10, <1>12, <1>13
    <2> QED BY <1>14, <1>17, <1>18, <2>1, InsertOrder
  <1>20. e.LastIndSeq = SeqNo(M) /\ e.up = d.up
    BY <1>3, <1>10, <1>12, <1>13, InsertFields
  <1>21. \A m \in ToSet(e.up) : m <= M BY <1>15, <1>20
  <1>22. \A m \in ToSet(e.list) : M < m /\ m <= M + win
    BY <1>2, <1>6, <1>16, <1>19
  <1>23. PICK K \in Int :
         /\ M <= K /\ Line(c, K) /\ Keeps(e, c)
         /\ ToSet(c.list) \subseteq ToSet(e.list)
         /\ K # M => K \in ToSet(e.list) /\ K \in ToSet(c.up)
    BY <1>3, <1>12, <1>19, <1>20, <1>21, <1>22, RunLine DEF c
  <1>24. ToSet(d.list) \subseteq ToSet(b.list) BY <1>8, <1>10
  <1>25. n \in ToSet(c.up) \cup ToSet(c.list) BY <1>19, <1>23 DEF Keeps
  <1>26. ToSet(b.list) \subseteq ToSet(d.list) \cup ToSet(d.up)
    BY <1>2, <1>6, <1>8, <1>10
  <1>27. ToSet(b.up) \subseteq ToSet(d.up) BY <1>8, <1>10
  <1>28. Keeps(b, c) BY <1>19, <1>20, <1>23, <1>26, <1>27 DEF Keeps
  <1> QED BY <1>1, <1>19, <1>23, <1>24, <1>25, <1>28 DEF M

(* A frame n near L: the next in order, an old one, one in the window or one *)
(* beyond it.                                                                *)
LEMMA InSessionLine ==
  ASSUME NEW b, Buffer(b), NEW n \in Frames, NEW eap \in BOOLEAN,
         win \in WinSizes, NEW L, Line(b, L), n - L < H, L - n < H,
         InSession(b, n, eap).clean
  PROVE  LET c == InSession(b, n, eap) IN
         \E K \in Int :
         /\ L <= K /\ n <= K + win /\ Line(c, K) /\ Keeps(b, c)
         /\ ToSet(c.list) \subseteq ToSet(b.list) \cup {n}
         /\ \/ K = L
            \/ K = n - win
            \/ K \in ToSet(b.list) \cup {n} /\ K \in ToSet(c.up)
         /\ n \in ToSet(c.up) \cup ToSet(c.list) \/ (n <= L /\ K = L)
  <1> DEFINE c == InSession(b, n, eap)
             S == SeqNo(n)
             T == (b.LastIndSeq + win + 1) % SEQS
             a == [b EXCEPT !.LastIndSeq = S]
             d == Indicate(a, n)
  <1>1. /\ L \in Int /\ n \in Int /\ win \in Nat /\ win >= 1 /\ win < H /\ H \in Nat
        /\ ToSet(b.list) \subseteq Int /\ ToSet(b.up) \subseteq Int
    BY WinType, HalfType, BufferSets, FramesType DEF Line
  <1>2. /\ InLine(b) /\ b.LastIndSeq = SeqNo(L) /\ \A m \in ToSet(b.up) : m <= L
        /\ \A m \in ToSet(b.list) : L + 1 < m /\ m <= L + win
    BY DEF Line
  <1>3. SeqNo(L) \in 0..SEQS - 1 /\ SeqNo(L) # RESET_RCV_SEQ /\ S \in SeqNos
    BY <1>1, SeqNoType, SeqNoIsNo
  <1>4. SEQ_STEPONE(S, b.LastIndSeq) <=> n = L + 1
    <2>1. n - (L + 0 + 1) < SEQS /\ (L + 0 + 1) - n < SEQS
      BY <1>1, HalfType
    <2>2. SEQ_STEPONE(SeqNo(n), SeqNo(L) + 0) <=> n = L + 0 + 1
      BY <1>1, <2>1, StepIs
    <2>3. SeqNo(L) + 0 = SeqNo(L) /\ L + 0 + 1 = L + 1 BY <1>1, <1>3, SeqsType
    <2> QED BY <1>2, <2>2, <2>3
  <1>5. S = b.LastIndSeq \/ SEQ_SMALLER(S, b.LastIndSeq) <=> n <= L
    <2>1. n - L < SEQS /\ L - n < SEQS /\ L - n <= H BY <1>1, HalfType
    <2>2. SeqNo(n) = SeqNo(L) <=> n = L BY <1>1, <2>1, SameIs
    <2>3. SEQ_SMALLER(SeqNo(n), SeqNo(L)) <=> n < L BY <1>1, <2>1, SmallerIs
    <2>4. n < L \/ n = L <=> n <= L BY <1>1
    <2> QED BY <1>2, <2>2, <2>3, <2>4
  <1>6. L < n => (SEQ_SMALLER(S, T) <=> n <= L + win)
    <2>1. T = SeqNo(L + win + 1)
      <3>1. win + 1 \in Int BY <1>1
      <3>2. ((L % SEQS) + (win + 1)) % SEQS = (L + (win + 1)) % SEQS
        BY <1>1, <3>1, ModSum
      <3>3. L % SEQS \in Int BY <1>1, SeqsType
      <3>4. /\ (L % SEQS) + (win + 1) = (L % SEQS) + win + 1
            /\ L + (win + 1) = L + win + 1
        BY <1>1, <3>3
      <3> QED BY <1>2, <3>2, <3>4 DEF SeqNo
    <2> SUFFICES ASSUME L < n PROVE SEQ_SMALLER(S, T) <=> n <= L + win OBVIOUS
    <2> DEFINE X == L + win + 1
    <2>2. X \in Int /\ n - X < H /\ X - n <= H /\ (n < X <=> n <= L + win)
      BY <1>1
    <2>3. T = SeqNo(X) BY <2>1
    <2> HIDE DEF X, T
    <2>4. SEQ_SMALLER(SeqNo(n), SeqNo(X)) <=> n < X BY <1>1, <2>2, SmallerIs
    <2> QED BY <2>2, <2>3, <2>4
  <1>7. c = IF SEQ_STEPONE(S, b.LastIndSeq)
              THEN ba_indicate_reordering_mpdus_in_order(d)
            ELSE IF S = b.LastIndSeq \/ SEQ_SMALLER(S, b.LastIndSeq) THEN b
            ELSE IF SEQ_SMALLER(S, T) THEN ba_enqueue_reordering_packet(b, n, eap)
            ELSE BeyondWindow(b, n, eap)
    BY <1>2, <1>3 DEF InSession
  <1> HIDE DEF c, T
  <1>8. CASE n = L + 1
    <2>1. c = ba_indicate_reordering_mpdus_in_order(d) BY <1>4, <1>7, <1>8
    <2>2. Buffer(a) /\ a.LastIndSeq = S /\ a.list = b.list /\ a.up = b.up
      BY <1>3, Labelled
    <2> HIDE DEF a
    <2>3. InLine(a) BY <1>2, <2>2 DEF InLine
    <2>4. \A m \in ToSet(a.up) : m < n BY <1>1, <1>2, <1>8, <2>2
    <2>5. \A m \in ToSet(a.list) : n < m BY <1>1, <1>2, <1>8, <2>2
    <2>6. /\ Buffer(d) /\ d.LastIndSeq = SeqNo(n) /\ d.list = b.list
          /\ ToSet(d.up) = ToSet(b.up) \cup {n} /\ InLine(d)
      BY SMTT(60), <2>2, <2>3, <2>4, <2>5, Indicated
    <2> HIDE DEF d, S
    <2>7. \A m \in ToSet(d.up) : m <= n BY <1>1, <1>2, <1>8, <2>6
    <2>8. \A m \in ToSet(d.list) : n < m /\ m <= n + win
      BY <1>1, <1>2, <1>8, <2>6
    <2>9. PICK K \in Int :
           /\ n <= K /\ Line(c, K) /\ Keeps(d, c)
           /\ ToSet(c.list) \subseteq ToSet(d.list)
           /\ K # n => K \in ToSet(d.list) /\ K \in ToSet(c.up)
      BY <1>1, <2>1, <2>6, <2>7, <2>8, RunLine
    <2>10. Keeps(b, c) /\ n \in ToSet(c.up) BY <2>6, <2>9 DEF Keeps
    <2>11. L <= K /\ n <= K + win BY <1>1, <1>8, <2>9
    <2> QED BY <2>6, <2>9, <2>10, <2>11 DEF c
  <1>9. CASE n <= L
    <2>1. c = b
      <3>1. n # L + 1 BY <1>1, <1>9
      <3> QED BY <1>4, <1>5, <1>7, <1>9, <3>1
    <2>2. Keeps(b, b) BY DEF Keeps
    <2>3. L <= L /\ n <= L + win BY <1>1, <1>9
    <2> QED BY <1>1, <1>9, <2>1, <2>2, <2>3 DEF c
  <1>10. CASE L + 1 < n /\ n <= L + win
    <2>1. c = ba_enqueue_reordering_packet(b, n, eap)
      <3>1. n # L + 1 /\ ~(n <= L) /\ L < n BY <1>1, <1>10
      <3> QED BY <1>4, <1>5, <1>6, <1>7, <1>10, <3>1
    <2>2. b.LastIndSeq # RESET_RCV_SEQ BY <1>2, <1>3
    <2>3. c.clean BY DEF c
    <2>4. b.free > 0 /\ c = ba_reordering_mpdu_insertsorted(b, n)
      BY <2>1, <2>2, <2>3, EnqueueFields
    <2>5. \A m \in ToSet(b.up) : m < n BY <1>1, <1>2, <1>10
    <2>6. \A m \in ToSet(b.list) : m - n < H /\ n - m <= H BY <1>1, <1>2, <1>10
    <2>7. InLine(c) /\ ToSet(c.list) = ToSet(b.list) \cup {n}
      BY <1>2, <2>4, <2>5, <2>6, InsertOrder
    <2>8. c.LastIndSeq = SeqNo(L) /\ c.up = b.up BY <1>2, <2>4, InsertFields
    <2>9. \A m \in ToSet(c.list) : L + 1 < m /\ m <= L + win
      BY <1>2, <1>10, <2>7
    <2>10. Line(c, L) BY <1>1, <1>2, <2>7, <2>8, <2>9 DEF Line
    <2>11. Keeps(b, c) BY <2>7, <2>8 DEF Keeps
    <2>12. L <= L BY <1>1
    <2> QED BY <1>1, <1>10, <2>7, <2>10, <2>11, <2>12 DEF c
  <1>11. CASE L + win < n
    <2>1. c = BeyondWindow(b, n, eap)
      <3>1. n # L + 1 /\ ~(n <= L) /\ L < n /\ ~(n <= L + win) BY <1>1, <1>11
      <3> QED BY <1>4, <1>5, <1>6, <1>7, <3>1
    <2>2. c.clean BY DEF c
    <2>3. n > L + win BY <1>1, <1>11
    <2>4. PICK K \in Int :
          /\ n - win <= K /\ Line(c, K) /\ Keeps(b, c)
          /\ n \in ToSet(c.up) \cup ToSet(c.list)
          /\ ToSet(c.list) \subseteq ToSet(b.list) \cup {n}
          /\ K # n - win => K \in ToSet(b.list) \cup {n} /\ K \in ToSet(c.up)
      BY <2>1, <2>2, <2>3, BeyondLine
    <2>5. L <= K /\ n <= K + win BY <1>1, <1>11, <2>4
    <2> QED BY <2>4, <2>5 DEF c
  <1>12. n = L + 1 \/ n <= L \/ (L + 1 < n /\ n <= L + win) \/ L + win < n
    BY <1>1
  <1> QED BY <1>8, <1>9, <1>10, <1>11, <1>12

-----------------------------------------------------------------------------
(* The types, and every block of the pool accounted for *)
Places ==
  /\ win \in {0} \cup WinSizes
  /\ idx \in BOOLEAN /\ age \in 0..2
  /\ pc \in {"idle", "fill", "reset", "down"}
  /\ base \in FirstFrame..LastFrame + 1
  /\ got \subseteq Frames
  /\ top \in Int

TypeInv == Buffer(ba) /\ Places

LEMMA TypeInit == Init => TypeInv
  <1> SUFFICES ASSUME Init PROVE TypeInv OBVIOUS
  <1>1. /\ FirstFrame \in Nat /\ LastFrame \in Nat /\ FirstFrame <= LastFrame
        /\ NumBlk \in Nat
    BY ReorderAssumption DEF ReorderAssumption
  <1>2. Places
    <2>1. FirstFrame \in FirstFrame..LastFrame + 1 /\ FirstFrame - 1 \in Int
      BY <1>1
    <2>2. base \in FirstFrame..LastFrame + 1 /\ top \in Int BY <2>1 DEF Init
    <2>3. got \subseteq Frames /\ win = 0 /\ age = 0 /\ idx = FALSE /\ pc = "idle"
      BY DEF Init
    <2>4. 0 \in 0..2 /\ win \in {0} \cup WinSizes BY <2>3
    <2> QED BY <2>2, <2>3, <2>4 DEF Places
  <1>3. <<>> \in Seq(Frames) /\ Len(<<>>) = 0 OBVIOUS
  <1>4. ba \in Buffers BY <1>1, <1>3 DEF Init, Buffers
  <1>5. Pool(ba)
    <2>1. /\ ba.free = NumBlk /\ ba.list = <<>> /\ ba.leaked = 0 BY DEF Init
    <2>2. NumBlk + 0 + 0 = NumBlk BY <1>1
    <2> QED BY <1>3, <2>1, <2>2 DEF Pool
  <1> QED BY <1>2, <1>4, <1>5 DEF TypeInv, Buffer

LEMMA WinIsNat == ASSUME Places PROVE win \in Nat
  BY WinType DEF Places

(* What a frame received does to the buffer, for any state of it *)
LEMMA ArriveFields ==
  ASSUME TypeInv, NEW n \in Frames, NEW eap \in BOOLEAN
  PROVE  LET c == InSession(ba_flush_reordering_timeout_mpdus(ba, age), n, eap) IN
         Buffer(c) /\ (Ready(ba) => Ready(c)) /\ (c.clean => ba.clean)
  <1> DEFINE b == ba_flush_reordering_timeout_mpdus(ba, age)
             c == InSession(b, n, eap)
  <1>1. Buffer(ba) /\ age \in 0..2 /\ win \in Nat
    BY WinIsNat DEF TypeInv, Places
  <1>2. Buffer(b) /\ (Ready(ba) => Ready(b)) /\ (b.clean => ba.clean)
    BY <1>1, FlushFields
  <1> HIDE DEF b
  <1>3. Buffer(c) /\ (Ready(b) => Ready(c)) /\ (c.clean => b.clean)
    BY <1>1, <1>2, InSessionFields
  <1> HIDE DEF c
  <1>4. Buffer(c) /\ (Ready(ba) => Ready(c)) /\ (c.clean => ba.clean)
    BY <1>2, <1>3
  <1> QED BY <1>4 DEF c, b

(* What a block ack request does to it *)
LEMMA RequestFields ==
  ASSUME TypeInv, CntlEnqueueForRecv
  PROVE  Buffer(ba') /\ (Ready(ba) => Ready(ba')) /\ (ba'.clean => ba.clean)
  <1> DEFINE S == SeqNo(base)
             x == (S - 1) % SEQS
             b == ba_indicate_reordering_mpdus_le_seq(ba, S)
             y == b.clean /\ base \notin ToSet(ba.list)
  <1>1. Buffer(ba) /\ base \in Int
    BY ReorderAssumption DEF TypeInv, Places, ReorderAssumption
  <1>2. Buffer(b) /\ b.clean = ba.clean BY <1>1, LeSeqFields
  <1>3. x \in SeqNos /\ x # RESET_RCV_SEQ
    <2>1. S - 1 \in Int BY <1>1, SeqNoType, SeqsType
    <2>2. x = SeqNo(S - 1) BY DEF SeqNo
    <2> QED BY <2>1, <2>2, SeqNoIsNo
  <1>4. ba' = ba \/ ba' = [b EXCEPT !.LastIndSeq = x, !.clean = y]
    BY DEF CntlEnqueueForRecv
  <1>5. y \in BOOLEAN /\ (y => b.clean) OBVIOUS
  <1> HIDE DEF S, x, b, y
  <1>6. CASE ba' = [b EXCEPT !.LastIndSeq = x, !.clean = y]
    <2>1. Buffer(ba') /\ ba'.LastIndSeq = x /\ ba'.clean = y
      BY <1>2, <1>3, <1>5, <1>6 DEF Buffer, Buffers, Pool, SeqNos
    <2> QED BY <1>2, <1>3, <1>5, <2>1 DEF Ready
  <1>7. CASE ba' = ba
    <2>1. Buffer(ba') BY <1>1, <1>7
    <2> QED BY <1>7, <2>1
  <1> QED BY <1>4, <1>6, <1>7

LEMMA TypeNext == TypeInv /\ [Next]_vars => TypeInv'
  <1> SUFFICES ASSUME TypeInv, [Next]_vars PROVE TypeInv' OBVIOUS
  <1>1. Buffer(ba) /\ Places BY DEF TypeInv
  <1>2. /\ FirstFrame \in Nat /\ LastFrame \in Nat /\ Frames \subseteq Int
    BY ReorderAssumption, FramesType DEF ReorderAssumption
  <1>3. ASSUME NEW n \in Frames, NEW eap \in BOOLEAN, Indicate_AMPDU_Packet(n, eap)
        PROVE  TypeInv'
    <2>1. Places' BY <1>1, <1>2, <1>3 DEF Places, Indicate_AMPDU_Packet
    <2>2. CASE ba' = InSession(ba_flush_reordering_timeout_mpdus(ba, age), n, eap)
      <3>1. Buffer(ba') BY <1>3, <2>2, ArriveFields
      <3> QED BY <2>1, <3>1 DEF TypeInv, Buffer, Buffers, Pool
    <2>3. CASE ba' = Indicate(ba, n)
      <3>1. Buffer(ba') BY <1>1, <1>3, <2>3, Indicated
      <3> QED BY <2>1, <3>1 DEF TypeInv, Buffer, Buffers, Pool
    <2> QED BY <1>3, <2>2, <2>3 DEF Indicate_AMPDU_Packet
  <1>4. CASE CntlEnqueueForRecv
    <2>1. Buffer(ba') BY <1>4, RequestFields
    <2>2. Places' BY <1>1, <1>4 DEF Places, CntlEnqueueForRecv, peerVars
    <2> QED BY <2>1, <2>2 DEF TypeInv, Buffer, Buffers, Pool
  <1>5. CASE PeerAdvance
    <2>1. Places' BY <1>1, <1>2, <1>5 DEF Places, PeerAdvance, Frames
    <2> QED BY <1>1, <1>5, <2>1 DEF TypeInv, Buffer, Buffers, Pool, PeerAdvance
  <1>6. CASE Tick
    <2>1. Places' BY <1>1, <1>6 DEF Places, Tick, peerVars
    <2> QED BY <1>1, <1>6, <2>1 DEF TypeInv, Buffer, Buffers, Pool, Tick
  <1>7. CASE BARecSessionAdd
    <2>1. Places' BY <1>1, <1>7 DEF Places, BARecSessionAdd, peerVars
    <2>2. ba' = ba_refresh_reordering_mpdus(ba) \/ ba' = ba
      BY <1>7 DEF BARecSessionAdd
    <2>3. Buffer(ba') BY <1>1, <2>2, RefreshIs
    <2> QED BY <2>1, <2>3 DEF TypeInv, Buffer, Buffers, Pool
  <1>8. CASE RecAddFill
    <2>1. Places' BY <1>1, <1>8 DEF Places, RecAddFill, peerVars
    <2> QED BY <1>1, <1>8, <2>1 DEF TypeInv, Buffer, Buffers, Pool, RecAddFill
  <1>9. CASE RecAddReset
    <2>1. Places' BY <1>1, <1>9 DEF Places, RecAddReset
    <2>2. <<>> \in Seq(Frames) OBVIOUS
    <2>3. Buffer(ba') BY <1>1, <1>9, <2>2 DEF RecAddReset, Buffer, Buffers, Pool
    <2> QED BY <2>1, <2>3 DEF TypeInv, Buffer, Buffers, Pool
  <1>10. CASE BARecSessionTearDown
    <2>1. Places' BY <1>1, <1>10 DEF Places, BARecSessionTearDown, peerVars
    <2>2. Buffer(ba') BY <1>1, <1>10, RefreshIs DEF BARecSessionTearDown
    <2> QED BY <2>1, <2>2 DEF TypeInv, Buffer, Buffers, Pool
  <1>11. CASE RecDownReset
    <2>1. Places' BY <1>1, <1>11 DEF Places, RecDownReset, peerVars
    <2>2. RESET_RCV_SEQ \in SeqNos BY DEF SeqNos
    <2>3. Buffer(ba') BY <1>1, <1>11, <2>2, Labelled DEF RecDownReset
    <2> QED BY <2>1, <2>3 DEF TypeInv, Buffer, Buffers, Pool
  <1>12. CASE UNCHANGED vars
    <2>1. Places' BY <1>1, <1>12 DEF Places, vars
    <2> QED BY <1>1, <1>12, <2>1 DEF TypeInv, Buffer, Buffers, Pool, vars
  <1> QED
    BY <1>3, <1>4, <1>5, <1>6, <1>7, <1>8, <1>9, <1>10, <1>11, <1>12 DEF Next

(* The fields and places keep their types, and no path through the driver    *)
(* (a drop, a duplicate, a flush, a bypass, a set up or a tear down of the   *)
(* session, a tasklet in between) loses a block of the pool: for every       *)
(* window, pool and range of sequence numbers, with or without preemption.   *)
THEOREM TypeCorrect == Spec => [](TypeOK /\ PoolAccounted)
  <1>1. TypeInv => TypeOK /\ PoolAccounted
    BY DEF TypeInv, Buffer, Buffers, Pool, Places, TypeOK, PoolAccounted
  <1> QED BY <1>1, TypeInit, TypeNext, PTL DEF Spec

-----------------------------------------------------------------------------
(* The peer is never a window ahead of what it may still send. *)
PeerInv ==
  /\ \E w \in WinSizes : top < base + w
  /\ base <= top + 1 + Gap

(* The list is empty outside a session, when one begins, and while the       *)
(* thread changes it.                                                        *)
ThreadInv ==
  /\ Ready(ba)
  /\ idx \/ pc = "reset" => win \in WinSizes
  /\ pc = "down" => idx
  /\ pc # "idle" \/ ~idx => ba.list = <<>>

(* A frame that arrived was passed up, waits, or came too late. *)
Accounted(b, n) ==
  n \in ToSet(b.up) \cup ToSet(b.list) \/ \E m \in ToSet(b.up) : m > n

(* A session in order of which L was the last frame passed up or over: L is  *)
(* near the window of the peer.  Without a timeout, L is one of the frames   *)
(* passed up, or the peer does not send it any more.                         *)
Session(L) ==
  /\ Line(ba, L)
  /\ \A n \in ToSet(ba.list) : n < base + win
  /\ \E w \in WinSizes : top <= L + w
  /\ \E w \in WinSizes : L < base + w
  /\ ~ba.late => /\ base <= L => L \in ToSet(ba.up)
                 /\ \A n \in got : Accounted(ba, n)

(* A session that has not received its first frame *)
Fresh == ba.LastIndSeq = RESET_RCV_SEQ /\ ba.up = <<>> /\ got = {}

InInv == ba.clean /\ idx => pc = "idle" /\ (Fresh \/ \E L \in Int : Session(L))

(* Outside a session the peer sends one frame at a time. *)
OutInv ==
  ba.clean /\ ~idx =>
    /\ Sorted(ba.up)
    /\ \A m \in ToSet(ba.up) : m < base \/ (m = base /\ base \in got)

OrderInv == TypeInv /\ PeerInv /\ ThreadInv /\ InInv /\ OutInv

LEMMA EmptySets ==
  ToSet(<<>>) = {} /\ Sorted(<<>>) /\ Len(<<>>) = 0
  BY DEF ToSet, Sorted

LEMMA OrderInit == Init => OrderInv
  <1> SUFFICES ASSUME Init PROVE OrderInv OBVIOUS
  <1>1. TypeInv BY TypeInit
  <1>2. PeerInv
    <2>1. PICK w \in WinSizes : TRUE BY ReorderAssumption DEF ReorderAssumption
    <2>2. w \in Nat /\ Gap \in Nat /\ FirstFrame \in Nat
      BY <2>1, WinType, ReorderAssumption DEF ReorderAssumption
    <2>3. /\ FirstFrame - 1 < FirstFrame + w
          /\ FirstFrame <= (FirstFrame - 1) + 1 + Gap
      BY <2>2
    <2> QED BY <2>1, <2>3 DEF PeerInv, Init
  <1>3. ThreadInv BY DEF ThreadInv, Ready, Init
  <1>4. InInv BY DEF InInv, Init
  <1>5. OutInv BY EmptySets DEF OutInv, Init
  <1> QED BY <1>1, <1>2, <1>3, <1>4, <1>5 DEF OrderInv

(* What every frame of the peer does to the window it may send *)
LEMMA PeerArrive ==
  ASSUME TypeInv, PeerInv, NEW n \in Frames, NEW eap \in BOOLEAN,
         Indicate_AMPDU_Packet(n, eap), idx => win \in WinSizes
  PROVE  PeerInv'
  <1>1. /\ n \in Int /\ top \in Int /\ base \in Int /\ Gap \in Nat
        /\ top' = (IF n > top THEN n ELSE top) /\ base' = base /\ n >= base
    BY FramesType, ReorderAssumption
    DEF TypeInv, Places, ReorderAssumption, Indicate_AMPDU_Packet
  <1>2. PICK w \in WinSizes : top < base + w BY DEF PeerInv
  <1>3. w \in Nat /\ w >= 1 BY <1>2, WinType
  <1>4. base <= top + 1 + Gap BY DEF PeerInv
  <1>5. \E v \in WinSizes : n < base + v
    <2>1. CASE idx /\ n < base + win BY <2>1
    <2>2. CASE n = base
      <3>1. n < base + w BY <1>1, <1>3, <2>2
      <3> QED BY <1>2, <3>1
    <2> QED BY <2>1, <2>2 DEF Indicate_AMPDU_Packet
  <1>6. \E v \in WinSizes : top' < base' + v
    <2>1. CASE n > top BY <1>1, <1>5, <2>1
    <2>2. CASE ~(n > top) BY <1>1, <1>2, <2>2
    <2> QED BY <2>1, <2>2
  <1>7. base' <= top' + 1 + Gap
    <2>1. top' \in Int /\ top <= top' BY <1>1
    <2> QED BY <1>1, <1>4, <2>1
  <1> QED BY <1>6, <1>7 DEF PeerInv

LEMMA StillAccounted ==
  ASSUME NEW b, NEW c, Keeps(b, c), NEW n, Accounted(b, n)
  PROVE  Accounted(c, n)
  BY DEF Keeps, Accounted

(* A frame received by a session in order *)
LEMMA SessionArrive ==
  ASSUME TypeInv, PeerInv, win \in WinSizes, NEW L \in Int, Session(L),
         NEW n \in Frames, NEW eap \in BOOLEAN, base <= n, n < base + win,
         win' = win, base' = base, got' = got \cup {n},
         top' = (IF n > top THEN n ELSE top), ba'.clean,
         ba' = InSession(ba_flush_reordering_timeout_mpdus(ba, age), n, eap)
  PROVE  \E K \in Int : Session(K)'
  <1> DEFINE b == ba_flush_reordering_timeout_mpdus(ba, age)
             c == InSession(b, n, eap)
  <1>1. /\ n \in Int /\ base \in Int /\ top \in Int /\ age \in 0..2 /\ Buffer(ba)
        /\ H \in Nat /\ win \in Nat /\ Gap \in Nat /\ 2 * win + Gap < H
        /\ ToSet(ba.list) \subseteq Int
    BY FramesType, HalfType, WinType, BufferSets, ReorderAssumption
    DEF TypeInv, Places, ReorderAssumption
  <1>2. /\ Line(ba, L) /\ \A m \in ToSet(ba.list) : m < base + win
        /\ ~ba.late => /\ base <= L => L \in ToSet(ba.up)
                       /\ \A m \in got : Accounted(ba, m)
    BY DEF Session
  <1>3. PICK w \in WinSizes : top <= L + w BY DEF Session
  <1>4. PICK v \in WinSizes : L < base + v BY DEF Session
  <1>5. w \in Nat /\ v \in Nat /\ 2 * w + Gap < H /\ 2 * v + Gap < H
    BY <1>3, <1>4, WinType
  <1>6. base <= top + 1 + Gap BY DEF PeerInv
  <1>7. n - L < H
    <2>1. w + win + Gap < H BY <1>1, <1>5
    <2>2. n < L + w + 1 + Gap + win BY <1>1, <1>3, <1>5, <1>6
    <2> QED BY <1>1, <1>5, <2>1, <2>2
  <1>8. ba' = c OBVIOUS
  <1>9. Buffer(b) BY <1>1, FlushFields
  <1>10. c.clean BY <1>8
  <1> HIDE DEF b
  <1>11. Buffer(c) /\ b.clean /\ c.late = b.late
    BY <1>1, <1>9, <1>10, InSessionFields
  <1>12. PICK M \in Int :
         /\ L <= M /\ Line(b, M) /\ Keeps(ba, b)
         /\ ToSet(b.list) \subseteq ToSet(ba.list)
         /\ \/ M = L /\ b = ba
            \/ b.late /\ \E m \in ToSet(ba.list) : M <= m
    BY <1>1, <1>2, <1>11, FlushLine DEF b
  <1>13. PICK x \in WinSizes : M < base + x
    <2>1. CASE M = L BY <1>4, <2>1
    <2>2. CASE \E m \in ToSet(ba.list) : M <= m
      <3>1. PICK m \in ToSet(ba.list) : M <= m BY <2>2
      <3>2. m \in Int /\ m < base + win BY <1>1, <1>2, <3>1
      <3>3. M < base + win BY <1>1, <1>12, <3>1, <3>2
      <3> QED BY <3>3
    <2> QED BY <1>12, <2>1, <2>2
  <1>14. x \in Nat /\ 2 * x + Gap < H BY <1>13, WinType
  <1>15. n - M < H /\ M - n < H BY <1>1, <1>7, <1>12, <1>13, <1>14
  <1>16. PICK K \in Int :
         /\ M <= K /\ n <= K + win /\ Line(c, K) /\ Keeps(b, c)
         /\ ToSet(c.list) \subseteq ToSet(b.list) \cup {n}
         /\ \/ K = M
            \/ K = n - win
            \/ K \in ToSet(b.list) \cup {n} /\ K \in ToSet(c.up)
         /\ n \in ToSet(c.up) \cup ToSet(c.list) \/ (n <= M /\ K = M)
    BY <1>9, <1>10, <1>12, <1>15, InSessionLine
  <1> HIDE DEF c
  <1>17. Line(ba, K)'
    <2>1. Line(c, K) BY <1>16
    <2> QED BY <1>8, <2>1 DEF Line
  <1>18. \A m \in ToSet(b.list) \cup {n} : m \in Int /\ m < base + win
    BY <1>1, <1>2, <1>12
  <1>19. \A m \in ToSet(ba'.list) : m < base' + win' BY <1>8, <1>16, <1>18
  <1>20. \E y \in WinSizes : top' <= K + y
    <2>1. CASE n > top
      <3>1. top' <= K + win BY <1>16, <2>1
      <3> QED BY <3>1
    <2>2. CASE ~(n > top)
      <3>1. top' = top BY <2>2
      <3>2. top <= K + w BY <1>1, <1>3, <1>5, <1>12, <1>16
      <3> QED BY <1>3, <3>1, <3>2
    <2> QED BY <2>1, <2>2
  <1>21. \E y \in WinSizes : K < base' + y
    <2>1. CASE K = M BY <1>13, <2>1
    <2>2. CASE K = n - win
      <3>1. K < base + win BY <1>1, <2>2
      <3> QED BY <3>1
    <2>3. CASE K \in ToSet(b.list) \cup {n} BY <1>18, <2>3
    <2> QED BY <1>16, <2>1, <2>2, <2>3
  <1>22. ASSUME ~ba'.late
         PROVE  /\ base' <= K => K \in ToSet(ba'.up)
                /\ \A m \in got' : Accounted(ba', m)
    <2>1. M = L /\ b = ba /\ ~ba.late BY <1>8, <1>11, <1>12, <1>22
    <2>2. /\ base <= L => L \in ToSet(ba.up)
          /\ \A m \in got : Accounted(ba, m)
      BY <1>2, <2>1
    <2>3. Keeps(ba, c) BY <1>16, <2>1
    <2>4. base <= L => L \in ToSet(c.up) BY <2>2, <2>3 DEF Keeps
    <2>5. base <= K => K \in ToSet(c.up)
      <3>1. CASE K = M BY <2>1, <2>4, <3>1
      <3>2. CASE K = n - win
        <4>1. ~(base <= K) BY <1>1, <3>2
        <4> QED BY <4>1
      <3>3. CASE K \in ToSet(c.up) BY <3>3
      <3> QED BY <1>16, <3>1, <3>2, <3>3
    <2>6. ASSUME NEW m \in got PROVE Accounted(c, m)
      BY <2>2, <2>3, StillAccounted
    <2>7. Accounted(c, n)
      <3>1. CASE n \in ToSet(c.up) \cup ToSet(c.list) BY <3>1 DEF Accounted
      <3>2. CASE n <= M /\ K = M
        <4>1. base <= L /\ (n = L \/ L > n) BY <1>1, <2>1, <3>2
        <4> QED BY <2>4, <4>1 DEF Accounted
      <3> QED BY <1>16, <3>1, <3>2
    <2> QED BY <1>8, <2>5, <2>6, <2>7
  <1> QED BY <1>17, <1>19, <1>20, <1>21, <1>22 DEF Session, Accounted

(* The first frame of a session *)
LEMMA FreshArrive ==
  ASSUME TypeInv, PeerInv, win \in WinSizes, Fresh, ba.list = <<>>,
         NEW n \in Frames, NEW eap \in BOOLEAN, base <= n, n < base + win,
         win' = win, base' = base, got' = got \cup {n},
         top' = (IF n > top THEN n ELSE top),
         ba' = InSession(ba_flush_reordering_timeout_mpdus(ba, age), n, eap)
  PROVE  \E K \in Int : Session(K)'
  <1> DEFINE a == [ba EXCEPT !.LastIndSeq = SeqNo(n)]
             c == Indicate(a, n)
  <1>1. /\ n \in Int /\ base \in Int /\ top \in Int /\ Buffer(ba)
        /\ win \in Nat /\ win >= 1
    BY FramesType, WinType, ReorderAssumption DEF TypeInv, Places,
         ReorderAssumption
  <1>2. ba_flush_reordering_timeout_mpdus(ba, age) = ba
    <2>1. ~(Len(ba.list) > 1) /\ ~(ba.list # <<>>) BY EmptySets
    <2> QED BY <2>1 DEF ba_flush_reordering_timeout_mpdus
  <1>3. ba' = c BY <1>2 DEF InSession, Fresh
  <1>4. Buffer(a) /\ a.LastIndSeq = SeqNo(n) /\ a.list = ba.list /\ a.up = ba.up
    BY <1>1, SeqNoIsNo, Labelled
  <1> HIDE DEF a
  <1>5. /\ a.list = <<>> /\ a.up = <<>> /\ ToSet(a.list) = {} /\ ToSet(a.up) = {}
        /\ InLine(a)
    BY <1>4, EmptySets DEF Fresh, InLine
  <1>6. /\ c.LastIndSeq = SeqNo(n) /\ c.list = <<>> /\ ToSet(c.up) = {n} /\ InLine(c)
    <2>1. /\ \A m \in ToSet(a.up) : m < n
          /\ \A m \in ToSet(a.list) : n < m
      BY <1>5
    <2>2. /\ c.LastIndSeq = a.LastIndSeq /\ c.list = a.list
          /\ ToSet(c.up) = ToSet(a.up) \cup {n} /\ InLine(c)
      BY <1>4, <1>5, <2>1, Indicated
    <2> HIDE DEF c
    <2>3. ToSet(c.up) = {n} BY <1>5, <2>2
    <2> QED BY <1>4, <1>5, <2>2, <2>3
  <1> HIDE DEF c
  <1>7. ToSet(c.list) = {} BY <1>6, EmptySets
  <1>8. Line(ba, n)'
    <2>1. \A m \in ToSet(c.up) : m <= n BY <1>1, <1>6
    <2> QED BY <1>1, <1>3, <1>6, <1>7, <2>1 DEF Line
  <1>9. PICK w \in WinSizes : top < base + w BY DEF PeerInv
  <1>10. \E y \in WinSizes : top' <= n + y
    <2>1. w \in Nat BY <1>9, WinType
    <2>2. top' <= n + w BY <1>1, <1>9, <2>1
    <2> QED BY <1>9, <2>2
  <1>11. \E y \in WinSizes : n < base' + y OBVIOUS
  <1>12. \A m \in got' : Accounted(ba', m)
    <2>1. got' = {n} BY DEF Fresh
    <2> QED BY <1>3, <1>6, <2>1 DEF Accounted
  <1>13. n \in ToSet(ba'.up) BY <1>3, <1>6
  <1>14. \A m \in ToSet(ba'.list) : m < base' + win' BY <1>3, <1>7
  <1>15. Session(n)'
    BY <1>8, <1>10, <1>11, <1>12, <1>13, <1>14 DEF Session, Accounted
  <1> QED BY <1>1, <1>15

(* A block ack request that moves the window *)
LEMMA RequestMoves ==
  ASSUME TypeInv, CntlEnqueueForRecv, SEQ_SMALLER(ba.LastIndSeq, SeqNo(base)),
         InLine(ba), ba'.clean,
         \A n \in ToSet(ba.list) : n - base < H /\ base - n <= H
  PROVE  /\ base - 1 \in Int /\ ba'.LastIndSeq = SeqNo(base - 1) /\ InLine(ba')
         /\ ToSet(ba'.list) = {n \in ToSet(ba.list) : base < n}
         /\ ToSet(ba'.up) = ToSet(ba.up) \cup {n \in ToSet(ba.list) : n <= base}
         /\ base \notin ToSet(ba.list) /\ ba'.late = ba.late
  <1> DEFINE S == SeqNo(base)
             x == (S - 1) % SEQS
             b == ba_indicate_reordering_mpdus_le_seq(ba, S)
             y == b.clean /\ base \notin ToSet(ba.list)
  <1>1. Buffer(ba) /\ base \in Int
    BY ReorderAssumption DEF TypeInv, Places, ReorderAssumption
  <1>2. Buffer(b) /\ b.late = ba.late BY <1>1, LeSeqFields
  <1>3. /\ InLine(b)
        /\ ToSet(b.list) = {n \in ToSet(ba.list) : base < n}
        /\ ToSet(b.up) = ToSet(ba.up) \cup {n \in ToSet(ba.list) : n <= base}
    BY <1>1, LeSeqOrder
  <1>4. base - 1 \in Int /\ x = SeqNo(base - 1)
    <2>1. -1 \in Int OBVIOUS
    <2>2. ((base % SEQS) + (-1)) % SEQS = (base + (-1)) % SEQS
      BY <1>1, <2>1, ModSum
    <2>3. base % SEQS \in Int BY <1>1, SeqsType
    <2>4. (base % SEQS) + (-1) = (base % SEQS) - 1 /\ base + (-1) = base - 1
      BY <1>1, <2>3
    <2> QED BY <1>1, <2>2, <2>4 DEF SeqNo
  <1>5. ba' = [b EXCEPT !.LastIndSeq = x, !.clean = y] BY DEF CntlEnqueueForRecv
  <1>6. y => base \notin ToSet(ba.list) OBVIOUS
  <1> HIDE DEF x, b, y
  <1>7. /\ ba'.LastIndSeq = x /\ ba'.list = b.list /\ ba'.up = b.up
        /\ ba'.clean = y /\ ba'.late = b.late
    BY <1>2, <1>5 DEF Buffer, Buffers
  <1>8. InLine(ba') BY <1>3, <1>7 DEF InLine
  <1>9. y BY <1>7
  <1> QED BY <1>2, <1>3, <1>4, <1>6, <1>7, <1>8, <1>9

LEMMA SessionRequest ==
  ASSUME TypeInv, PeerInv, win \in WinSizes, NEW L \in Int, Session(L),
         CntlEnqueueForRecv, ba'.clean
  PROVE  \E K \in Int : Session(K)'
  <1>1. /\ base \in Int /\ top \in Int /\ Buffer(ba)
        /\ H \in Nat /\ win \in Nat /\ Gap \in Nat /\ 2 * win + Gap < H
        /\ ToSet(ba.list) \subseteq Int /\ ToSet(ba.up) \subseteq Int
    BY HalfType, WinType, BufferSets, ReorderAssumption
    DEF TypeInv, Places, ReorderAssumption
  <1>2. /\ InLine(ba) /\ ba.LastIndSeq = SeqNo(L)
        /\ \A m \in ToSet(ba.up) : m <= L
        /\ \A m \in ToSet(ba.list) : /\ L + 1 < m /\ m <= L + win /\ m < base + win
        /\ ~ba.late => \A m \in got : Accounted(ba, m)
    BY DEF Session, Line
  <1>3. PICK w \in WinSizes : top <= L + w BY DEF Session
  <1>4. PICK v \in WinSizes : L < base + v BY DEF Session
  <1>5. w \in Nat /\ v \in Nat /\ v >= 1 /\ 2 * w + Gap < H /\ 2 * v + Gap < H
    BY <1>3, <1>4, WinType
  <1>6. base <= top + 1 + Gap BY DEF PeerInv
  <1>7. w >= 1 BY <1>3, WinType
  <1>8. L - base < H /\ base - L <= H
    <2>1. L - base < H BY <1>1, <1>4, <1>5
    <2>2. base <= L + w + 1 + Gap BY <1>1, <1>3, <1>5, <1>6
    <2>3. w + 1 + Gap <= H BY <1>1, <1>5, <1>7
    <2> QED BY <1>1, <1>5, <2>1, <2>2, <2>3
  <1>9. SEQ_SMALLER(ba.LastIndSeq, SeqNo(base)) <=> L < base
    BY <1>1, <1>2, <1>8, SmallerIs
  <1>10. win' = win /\ base' = base /\ got' = got /\ top' = top
    BY DEF CntlEnqueueForRecv, peerVars
  <1>11. CASE L < base
    <2>0. PICK K \in Int : K = base - 1 BY <1>1
    <2>1. \A m \in ToSet(ba.list) : m - base < H /\ base - m <= H
      <3> SUFFICES ASSUME NEW m \in ToSet(ba.list)
                   PROVE  m - base < H /\ base - m <= H
        OBVIOUS
      <3>1. m \in Int /\ L + 1 < m /\ m < base + win BY <1>1, <1>2
      <3> QED BY <1>1, <1>8, <3>1
    <2>2. /\ K \in Int /\ ba'.LastIndSeq = SeqNo(K) /\ InLine(ba')
          /\ ToSet(ba'.list) = {n \in ToSet(ba.list) : base < n}
          /\ ToSet(ba'.up) = ToSet(ba.up) \cup {n \in ToSet(ba.list) : n <= base}
          /\ base \notin ToSet(ba.list) /\ ba'.late = ba.late
      BY <1>2, <1>9, <1>11, <2>0, <2>1, RequestMoves
    <2>3. \A m \in ToSet(ba'.up) : m <= K
      <3> SUFFICES ASSUME NEW m \in ToSet(ba'.up) PROVE m <= K OBVIOUS
      <3>1. CASE m \in ToSet(ba.up) BY <1>1, <1>2, <1>11, <2>0, <3>1
      <3>2. CASE m \in ToSet(ba.list) /\ m <= base
        <4>1. m \in Int /\ m # base BY <1>1, <2>2, <3>2
        <4> QED BY <1>1, <2>0, <3>2, <4>1
      <3> QED BY <2>2, <3>1, <3>2
    <2>4. \A m \in ToSet(ba'.list) : K + 1 < m /\ m <= K + win /\ m < base + win
      <3> SUFFICES ASSUME NEW m \in ToSet(ba'.list)
                   PROVE  K + 1 < m /\ m <= K + win /\ m < base + win
        OBVIOUS
      <3>1. m \in Int /\ base < m /\ m <= L + win /\ m < base + win
        BY <1>1, <1>2, <2>2
      <3> QED BY <1>1, <1>11, <2>0, <3>1
    <2>5. L <= K /\ ~(base <= K) /\ K < base + v BY <1>1, <1>5, <1>11, <2>0
    <2>6. top <= K + w BY <1>1, <1>3, <1>5, <2>2, <2>5
    <2>7. ASSUME ~ba'.late PROVE \A m \in got : Accounted(ba', m)
      <3>1. ASSUME NEW n \in ToSet(ba.list) PROVE n \in ToSet(ba'.list) \cup ToSet(ba'.up)
        BY <1>1, <2>2
      <3>2. Keeps(ba, ba') BY <2>2, <3>1 DEF Keeps
      <3>3. \A m \in got : Accounted(ba, m) BY <1>2, <2>2, <2>7
      <3> QED BY <3>2, <3>3, StillAccounted
    <2>8. Line(ba, K)' BY <1>10, <2>2, <2>3, <2>4 DEF Line
    <2>9. Session(K)'
      BY <1>3, <1>4, <1>10, <2>4, <2>5, <2>6, <2>7, <2>8 DEF Session, Accounted
    <2> QED BY <2>2, <2>9
  <1>12. CASE ~(L < base)
    <2>1. ba' = ba BY <1>9, <1>12 DEF CntlEnqueueForRecv
    <2>2. Session(L)' BY <1>10, <2>1 DEF Session, Line, Accounted
    <2> QED BY <2>2
  <1> QED BY <1>11, <1>12

LEMMA FreshRequest ==
  ASSUME TypeInv, PeerInv, win \in WinSizes, Fresh, ba.list = <<>>,
         CntlEnqueueForRecv, ba'.clean
  PROVE  Fresh' \/ \E K \in Int : Session(K)'
  <1>1. /\ base \in Int /\ top \in Int /\ win \in Nat
    BY WinType, ReorderAssumption DEF TypeInv, Places, ReorderAssumption
  <1>2. win' = win /\ base' = base /\ got' = got /\ top' = top
    BY DEF CntlEnqueueForRecv, peerVars
  <1>3. ToSet(ba.list) = {} /\ ToSet(ba.up) = {} /\ InLine(ba)
    BY EmptySets DEF Fresh, InLine
  <1>4. CASE SEQ_SMALLER(ba.LastIndSeq, SeqNo(base))
    <2>0. PICK K \in Int : K = base - 1 BY <1>1
    <2>1. /\ K \in Int /\ ba'.LastIndSeq = SeqNo(K) /\ InLine(ba')
          /\ ToSet(ba'.list) = {} /\ ToSet(ba'.up) = {}
      <3>1. /\ K \in Int /\ ba'.LastIndSeq = SeqNo(K) /\ InLine(ba')
            /\ ToSet(ba'.list) = {n \in ToSet(ba.list) : base < n}
            /\ ToSet(ba'.up) = ToSet(ba.up) \cup {n \in ToSet(ba.list) : n <= base}
        BY <1>3, <1>4, <2>0, RequestMoves
      <3> QED BY <1>3, <3>1
    <2>2. PICK w \in WinSizes : top < base + w BY DEF PeerInv
    <2>3. w \in Nat /\ w >= 1 BY <2>2, WinType
    <2>4. top <= K + w /\ K < base + w /\ ~(base <= K) BY <1>1, <2>0, <2>2, <2>3
    <2>5. got' = {} BY <1>2 DEF Fresh
    <2>6. Line(ba, K)' BY <2>1 DEF Line
    <2>7. Session(K)' BY <1>2, <2>1, <2>2, <2>4, <2>5, <2>6 DEF Session
    <2> QED BY <2>1, <2>7
  <1>5. CASE ~SEQ_SMALLER(ba.LastIndSeq, SeqNo(base))
    <2>1. ba' = ba BY <1>5 DEF CntlEnqueueForRecv
    <2>2. Fresh' BY <1>2, <2>1 DEF Fresh
    <2> QED BY <2>2
  <1> QED BY <1>4, <1>5

(* The peer moves on: nothing it still sends comes nearer. *)
LEMMA SessionAdvance ==
  ASSUME TypeInv, win \in WinSizes, NEW L \in Int, Session(L), PeerAdvance
  PROVE  Session(L)'
  <1>1. /\ base \in Int /\ Buffer(ba) /\ win \in Nat /\ ToSet(ba.list) \subseteq Int
        /\ ba' = ba /\ win' = win /\ top' = top /\ base' = base + 1
        /\ got' \subseteq got
    BY WinType, BufferSets, ReorderAssumption
    DEF TypeInv, Places, ReorderAssumption, PeerAdvance
  <1>2. Line(ba, L)' BY <1>1 DEF Session, Line
  <1>3. \A m \in ToSet(ba.list) : m < base + win BY DEF Session
  <1>4. \A m \in ToSet(ba'.list) : m < base' + win' BY <1>1, <1>3
  <1>5. PICK v \in WinSizes : L < base + v BY DEF Session
  <1>6. L < base' + v
    <2>1. v \in Nat BY <1>5, WinType
    <2> QED BY <1>1, <1>5, <2>1
  <1>7. base' <= L => base <= L BY <1>1
  <1>8. \E w \in WinSizes : top' <= L + w BY <1>1 DEF Session
  <1>9. ~ba'.late => /\ base' <= L => L \in ToSet(ba'.up)
                     /\ \A n \in got' : Accounted(ba', n)
    BY <1>1, <1>7 DEF Session
  <1> QED BY <1>2, <1>4, <1>5, <1>6, <1>8, <1>9 DEF Session, Accounted

(* A frame received outside a session *)
LEMMA OutArrive ==
  ASSUME TypeInv, OutInv, ThreadInv, NEW n \in Frames, ~idx, n = base, n \notin got,
         idx' = idx, pc' = pc, win' = win, base' = base, got' = got \cup {n},
         ba' = Indicate(ba, n)
  PROVE  ThreadInv' /\ OutInv'
  <1>1. Buffer(ba) /\ n \in Int /\ ToSet(ba.up) \subseteq Int
    BY FramesType, BufferSets DEF TypeInv
  <1>2. /\ ba'.list = ba.list /\ ba'.clean = ba.clean
        /\ ba'.LastIndSeq = ba.LastIndSeq
        /\ ToSet(ba'.up) = ToSet(ba.up) \cup {n}
        /\ (/\ InLine(ba) /\ \A m \in ToSet(ba.up) : m < n
            /\ \A m \in ToSet(ba.list) : n < m) => InLine(ba')
    BY <1>1, Indicated
  <1>3. ba.list = <<>> /\ ToSet(ba.list) = {} /\ Sorted(ba.list)
    BY EmptySets DEF ThreadInv
  <1>4. ThreadInv' BY <1>2, <1>3 DEF ThreadInv, Ready
  <1>5. ASSUME ba'.clean
        PROVE  /\ Sorted(ba'.up)
               /\ \A m \in ToSet(ba'.up) : m < base' \/ (m = base' /\ base' \in got')
    <2>1. /\ Sorted(ba.up)
          /\ \A m \in ToSet(ba.up) : m < base \/ (m = base /\ base \in got)
      BY <1>2, <1>5 DEF OutInv
    <2>2. \A m \in ToSet(ba.up) : m < n BY <2>1
    <2>3. InLine(ba) BY <1>3, <2>1 DEF InLine
    <2>4. InLine(ba') BY <1>2, <1>3, <2>2, <2>3
    <2>5. Sorted(ba'.up) BY <2>4 DEF InLine
    <2>6. \A m \in ToSet(ba'.up) : m < base' \/ (m = base' /\ base' \in got')
      BY <1>2, <2>2
    <2> QED BY <2>5, <2>6
  <1>6. OutInv' BY <1>5 DEF OutInv, Sorted
  <1> QED BY <1>4, <1>6

LEMMA OrderNext ==
  ASSUME ~Preempt
  PROVE  OrderInv /\ [Next]_vars => OrderInv'
  <1> SUFFICES ASSUME OrderInv, [Next]_vars PROVE OrderInv' OBVIOUS
  <1>1. TypeInv /\ PeerInv /\ ThreadInv /\ InInv /\ OutInv BY DEF OrderInv
  <1>2. TypeInv' BY <1>1, TypeNext
  <1>3. Buffer(ba) /\ base \in Int /\ top \in Int /\ Gap \in Nat
    BY <1>1, ReorderAssumption DEF TypeInv, Places, ReorderAssumption
  <1>4. /\ Ready(ba) /\ (idx \/ pc = "reset" => win \in WinSizes)
        /\ (pc = "down" => idx) /\ (pc # "idle" \/ ~idx => ba.list = <<>>)
    BY <1>1 DEF ThreadInv
  <1>5. ASSUME NEW n \in Frames, NEW eap \in BOOLEAN, Indicate_AMPDU_Packet(n, eap)
        PROVE  OrderInv'
    <2>1. PeerInv' BY <1>1, <1>4, <1>5, PeerArrive
    <2>2. /\ pc = "idle" /\ pc' = pc /\ idx' = idx /\ win' = win /\ base' = base
          /\ base <= n /\ got' = got \cup {n}
          /\ top' = (IF n > top THEN n ELSE top)
      <3>1. n \in Int BY FramesType
      <3>2. base <= n BY <1>3, <1>5, <3>1 DEF Indicate_AMPDU_Packet
      <3> QED BY <1>5, <3>2 DEF Indicate_AMPDU_Packet, TaskletRuns
    <2>3. CASE /\ idx /\ n < base + win
               /\ ba' = InSession(ba_flush_reordering_timeout_mpdus(ba, age), n, eap)
      <3>1. win \in WinSizes BY <1>4, <2>3
      <3>2. Ready(ba') /\ (ba'.clean => ba.clean)
        BY <1>1, <1>4, <2>3, ArriveFields
      <3>3. ThreadInv' BY <2>2, <2>3, <3>1, <3>2 DEF ThreadInv, Ready
      <3>4. ASSUME ba'.clean PROVE \E K \in Int : Session(K)'
        <4>1. Fresh \/ \E L \in Int : Session(L)
          BY <1>1, <2>3, <3>2, <3>4 DEF InInv
        <4>2. CASE Fresh
          <5>1. ba.list = <<>> BY <1>4, <4>2 DEF Fresh, Ready
          <5> QED BY <1>1, <2>2, <2>3, <3>1, <4>2, <5>1, FreshArrive
        <4>3. CASE \E L \in Int : Session(L)
          <5>1. PICK L \in Int : Session(L) BY <4>3
          <5> QED BY <1>1, <2>2, <2>3, <3>1, <3>4, <5>1, SessionArrive
        <4> QED BY <4>1, <4>2, <4>3
      <3>5. InInv' BY <2>2, <3>4 DEF InInv
      <3>6. OutInv' BY <2>2, <2>3 DEF OutInv
      <3> QED BY <1>2, <2>1, <3>3, <3>5, <3>6 DEF OrderInv
    <2>4. CASE ~idx /\ n = base /\ n \notin got /\ ba' = Indicate(ba, n)
      <3>1. ThreadInv' /\ OutInv' BY <1>1, <2>2, <2>4, OutArrive
      <3>2. InInv' BY <2>2, <2>4 DEF InInv
      <3> QED BY <1>2, <2>1, <3>1, <3>2 DEF OrderInv
    <2> QED BY <1>5, <2>3, <2>4 DEF Indicate_AMPDU_Packet
  <1>6. CASE CntlEnqueueForRecv
    <2>1. /\ pc = "idle" /\ idx /\ pc' = pc /\ idx' = idx /\ win' = win
          /\ base' = base /\ top' = top
      BY <1>6 DEF CntlEnqueueForRecv, TaskletRuns, peerVars
    <2>2. win \in WinSizes BY <1>4, <2>1
    <2>3. Ready(ba') /\ (ba'.clean => ba.clean)
      BY <1>1, <1>4, <1>6, RequestFields
    <2>4. ThreadInv' BY <2>1, <2>2, <2>3 DEF ThreadInv, Ready
    <2>5. ASSUME ba'.clean PROVE Fresh' \/ \E K \in Int : Session(K)'
      <3>1. Fresh \/ \E L \in Int : Session(L)
        BY <1>1, <2>1, <2>3, <2>5 DEF InInv
      <3>2. CASE Fresh
        <4>1. ba.list = <<>> BY <1>4, <3>2 DEF Fresh, Ready
        <4> QED BY <1>1, <1>6, <2>2, <2>5, <3>2, <4>1, FreshRequest
      <3>3. CASE \E L \in Int : Session(L)
        <4>1. PICK L \in Int : Session(L) BY <3>3
        <4> QED BY <1>1, <1>6, <2>2, <2>5, <4>1, SessionRequest
      <3> QED BY <3>1, <3>2, <3>3
    <2>6. InInv' BY <2>1, <2>5 DEF InInv
    <2>7. OutInv' BY <2>1 DEF OutInv
    <2>8. PeerInv' BY <1>1, <2>1 DEF PeerInv
    <2> QED BY <1>2, <2>4, <2>6, <2>7, <2>8 DEF OrderInv
  <1>7. CASE PeerAdvance
    <2>1. /\ ba' = ba /\ pc' = pc /\ idx' = idx /\ win' = win /\ top' = top
          /\ base' = base + 1 /\ base < top + 1 + Gap /\ got' = got \ {base}
      BY <1>7 DEF PeerAdvance
    <2>2. PeerInv'
      <3>1. PICK w \in WinSizes : top < base + w BY <1>1 DEF PeerInv
      <3>2. w \in Nat BY <3>1, WinType
      <3>3. top < (base + 1) + w /\ base + 1 <= top + 1 + Gap
        BY <1>3, <2>1, <3>1, <3>2
      <3> QED BY <2>1, <3>1, <3>3 DEF PeerInv
    <2>3. ThreadInv' BY <1>1, <2>1 DEF ThreadInv, Ready
    <2>4. ASSUME ba.clean, idx
          PROVE  pc' = "idle" /\ (Fresh' \/ \E L \in Int : Session(L)')
      <3>1. pc = "idle" /\ (Fresh \/ \E L \in Int : Session(L))
        BY <1>1, <2>4 DEF InInv
      <3>2. win \in WinSizes BY <1>4, <2>4
      <3>3. CASE Fresh
        <4>1. Fresh' BY <2>1, <3>3 DEF Fresh
        <4> QED BY <2>1, <3>1, <4>1
      <3>4. CASE \E L \in Int : Session(L)
        <4>1. PICK L \in Int : Session(L) BY <3>4
        <4>2. Session(L)' BY <1>1, <1>7, <3>2, <4>1, SessionAdvance
        <4> QED BY <2>1, <3>1, <4>2
      <3> QED BY <3>1, <3>3, <3>4
    <2>5. InInv' BY <2>1, <2>4 DEF InInv
    <2>6. ASSUME ba.clean, ~idx
          PROVE  /\ Sorted(ba.up)
                 /\ \A m \in ToSet(ba.up) : m < base'
      <3>1. ToSet(ba.up) \subseteq Int BY <1>3, BufferSets
      <3> QED BY <1>1, <1>3, <2>1, <2>6, <3>1 DEF OutInv
    <2>7. OutInv' BY <2>1, <2>6 DEF OutInv, Sorted
    <2> QED BY <1>2, <2>2, <2>3, <2>5, <2>7 DEF OrderInv
  <1>8. CASE Tick \/ UNCHANGED vars
    <2>1. /\ ba' = ba /\ pc' = pc /\ idx' = idx /\ win' = win /\ top' = top
          /\ base' = base /\ got' = got
      BY <1>8 DEF Tick, vars, peerVars
    <2>2. PeerInv' BY <1>1, <2>1 DEF PeerInv
    <2>3. ThreadInv' BY <1>1, <2>1 DEF ThreadInv, Ready
    <2>4. \A L \in Int : Session(L) => Session(L)'
      BY <2>1 DEF Session, Line, Accounted
    <2>5. InInv' BY <1>1, <2>1, <2>4 DEF InInv, Fresh
    <2>6. OutInv' BY <1>1, <2>1 DEF OutInv, Sorted
    <2> QED BY <1>2, <2>2, <2>3, <2>5, <2>6 DEF OrderInv
  <1>9. CASE BARecSessionAdd \/ BARecSessionTearDown
    <2>1. /\ pc = "idle" /\ idx' = idx /\ win' = win /\ top' = top
          /\ base' = base /\ got' = got
          /\ pc' = "fill" \/ (pc' = "down" /\ idx)
      BY <1>9 DEF BARecSessionAdd, BARecSessionTearDown, peerVars
    <2>2. PeerInv' BY <1>1, <2>1 DEF PeerInv
    <2>3. CASE idx
      <3>1. ba' = ba_refresh_reordering_mpdus(ba)
        BY <1>9, <2>3 DEF BARecSessionAdd, BARecSessionTearDown
      <3>2. ba'.list = <<>> /\ ~ba'.clean BY <1>3, <3>1, RefreshIs
      <3>3. ThreadInv' BY <1>4, <2>1, <2>3, <3>2 DEF ThreadInv, Ready
      <3>4. InInv' /\ OutInv' BY <3>2 DEF InInv, OutInv
      <3> QED BY <1>2, <2>2, <3>3, <3>4 DEF OrderInv
    <2>4. CASE ~idx
      <3>1. ba' = ba /\ pc' = "fill"
        BY <1>9, <2>4 DEF BARecSessionAdd, BARecSessionTearDown
      <3>2. ThreadInv' BY <1>4, <2>1, <2>4, <3>1 DEF ThreadInv, Ready
      <3>3. InInv' BY <2>1, <2>4 DEF InInv
      <3>4. OutInv' BY <1>1, <2>1, <3>1 DEF OutInv, Sorted
      <3> QED BY <1>2, <2>2, <3>2, <3>3, <3>4 DEF OrderInv
    <2> QED BY <2>3, <2>4
  <1>10. CASE RecAddFill
    <2>1. /\ pc = "fill" /\ pc' = "reset" /\ win' \in WinSizes /\ ba' = ba
          /\ idx' = idx /\ top' = top /\ base' = base /\ got' = got
      BY <1>10 DEF RecAddFill, peerVars
    <2>2. PeerInv' BY <1>1, <2>1 DEF PeerInv
    <2>3. ThreadInv' BY <1>4, <2>1 DEF ThreadInv, Ready
    <2>4. ~(ba.clean /\ idx) BY <1>1, <2>1 DEF InInv
    <2>5. InInv' BY <2>1, <2>4 DEF InInv
    <2>6. OutInv' BY <1>1, <2>1 DEF OutInv, Sorted
    <2> QED BY <1>2, <2>2, <2>3, <2>5, <2>6 DEF OrderInv
  <1>11. CASE RecAddReset
    <2>1. /\ pc = "reset" /\ pc' = "idle" /\ win' = win /\ idx' /\ got' = {}
          /\ top' = top /\ base' = base
      BY <1>11 DEF RecAddReset
    <2>2. ba'.LastIndSeq = RESET_RCV_SEQ /\ ba'.up = <<>> /\ ba'.list = ba.list
      BY <1>3, <1>11 DEF RecAddReset, Buffer, Buffers
    <2>3. PeerInv' BY <1>1, <2>1 DEF PeerInv
    <2>4. ThreadInv' BY <1>4, <2>1, <2>2 DEF ThreadInv, Ready
    <2>5. InInv' BY <2>1, <2>2 DEF InInv, Fresh
    <2>6. OutInv' BY <2>1 DEF OutInv
    <2> QED BY <1>2, <2>3, <2>4, <2>5, <2>6 DEF OrderInv
  <1>12. CASE RecDownReset
    <2>1. /\ pc = "down" /\ pc' = "idle" /\ ~idx'
          /\ top' = top /\ base' = base
      BY <1>12 DEF RecDownReset, peerVars
    <2>2. ba'.list = ba.list /\ ba'.clean = ba.clean
      BY <1>3, <1>12 DEF RecDownReset, Buffer, Buffers
    <2>3. PeerInv' BY <1>1, <2>1 DEF PeerInv
    <2>4. ThreadInv' BY <1>4, <2>1, <2>2 DEF ThreadInv, Ready
    <2>5. ~ba.clean BY <1>1, <1>4, <2>1 DEF InInv
    <2>6. InInv' /\ OutInv' BY <2>2, <2>5 DEF InInv, OutInv
    <2> QED BY <1>2, <2>3, <2>4, <2>6 DEF OrderInv
  <1> QED
    BY <1>5, <1>6, <1>7, <1>8, <1>9, <1>10, <1>11, <1>12 DEF Next

-----------------------------------------------------------------------------
LEMMA OrderAlways == ASSUME ~Preempt PROVE Spec => []OrderInv
  BY OrderInit, OrderNext, PTL DEF Spec

(* In a session in order the list is empty, or L is known. *)
LEMMA WaitsInSession ==
  ASSUME OrderInv, ba.clean, idx, ba.list # <<>>
  PROVE  \E L \in Int : Line(ba, L)
  <1>1. ~Fresh BY DEF Fresh, OrderInv, ThreadInv, Ready
  <1> QED BY <1>1 DEF OrderInv, InInv, Session

LEMMA InWindow == OrderInv => ListInWindow
  <1> SUFFICES ASSUME OrderInv, ba.clean, idx
               PROVE  /\ \A i \in 1..Len(ba.list) :
                           (SeqNo(ba.list[i]) - ba.LastIndSeq) % SEQS \in 1..win
                      /\ \A i, j \in 1..Len(ba.list) :
                           i < j => SEQ_SMALLER(SeqNo(ba.list[i]), SeqNo(ba.list[j]))
    BY DEF ListInWindow
  <1>1. /\ Buffer(ba) /\ win \in WinSizes
    BY DEF OrderInv, TypeInv, ThreadInv
  <1>2. win \in Nat /\ win < H /\ H \in Nat /\ SEQS = 2 * H
    BY <1>1, WinType, HalfType
  <1>3. CASE ba.list = <<>>
    <2>1. 1..Len(ba.list) = {} BY <1>3, EmptySets
    <2> QED BY <2>1
  <1>4. CASE ba.list # <<>>
    <2>1. PICK L \in Int : Line(ba, L) BY <1>4, WaitsInSession
    <2>2. /\ ba.LastIndSeq = SeqNo(L)
          /\ \A i, j \in 1..Len(ba.list) : i < j => ba.list[i] < ba.list[j]
          /\ \A m \in ToSet(ba.list) : L + 1 < m /\ m <= L + win
      BY <2>1 DEF Line, InLine, Sorted
    <2>3. \A i \in 1..Len(ba.list) :
            ba.list[i] \in Int /\ ba.list[i] \in ToSet(ba.list)
      <3>1. ToSet(ba.list) = {ba.list[i] : i \in 1..Len(ba.list)}
        BY <1>1, BufferSets
      <3>2. \A i \in 1..Len(ba.list) : ba.list[i] \in Int BY <1>1, BufferFields
      <3> QED BY <3>1, <3>2
    <2>4. \A i \in 1..Len(ba.list) :
            ba.list[i] \in Int /\ L + 1 < ba.list[i] /\ ba.list[i] <= L + win
      BY <2>2, <2>3
    <2>5. ASSUME NEW i \in 1..Len(ba.list)
          PROVE  (SeqNo(ba.list[i]) - ba.LastIndSeq) % SEQS \in 1..win
      <3> DEFINE n == ba.list[i]
      <3>1. n \in Int /\ L + 1 < n /\ n <= L + win BY <2>4
      <3> HIDE DEF n
      <3>2. n - L \in Int /\ n - L \in 0..SEQS - 1 /\ n - L \in 1..win
        BY <1>2, <2>1, <3>1
      <3>3. (n - L) % SEQS = n - L BY <3>2, ModSmall
      <3>4. (SeqNo(n) - SeqNo(L)) % SEQS = (n - L) % SEQS
        BY <2>1, <3>1, ModDifference
      <3> QED BY <2>2, <3>2, <3>3, <3>4 DEF n
    <2>6. ASSUME NEW i \in 1..Len(ba.list), NEW j \in 1..Len(ba.list), i < j
          PROVE  SEQ_SMALLER(SeqNo(ba.list[i]), SeqNo(ba.list[j]))
      <3> DEFINE n == ba.list[i]
                 m == ba.list[j]
      <3>1. /\ n \in Int /\ L + 1 < n /\ n <= L + win
            /\ m \in Int /\ L + 1 < m /\ m <= L + win /\ n < m
        BY <2>2, <2>4, <2>6
      <3> HIDE DEF n, m
      <3>2. n - m < H /\ m - n <= H BY <1>2, <2>1, <3>1
      <3>3. SEQ_SMALLER(SeqNo(n), SeqNo(m)) BY <3>1, <3>2, SmallerIs
      <3> QED BY <3>3 DEF n, m
    <2> QED BY <2>5, <2>6
  <1> QED BY <1>3, <1>4

(* When the tasklet does not run while the thread changes the session, the   *)
(* frames that wait are of the window after LastIndSeq and sorted the way    *)
(* SEQ_SMALLER sees it, over every wrap of the sequence numbers, and a       *)
(* session that expects its first frame has an empty list: the two ASSERTs   *)
(* of Indicate_AMPDU_Packet and ba_enqueue_reordering_packet.                *)
THEOREM ListSafe == ASSUME ~Preempt PROVE Spec => []ListInv
  <1>1. OrderInv => ListInv
    <2>1. OrderInv => TypeOK /\ PoolAccounted
      BY DEF OrderInv, TypeInv, Buffer, Buffers, Pool, Places, TypeOK,
           PoolAccounted
    <2>2. OrderInv => ResetMeansEmpty
      BY DEF OrderInv, ThreadInv, Ready, ResetMeansEmpty
    <2> QED BY <2>1, <2>2, InWindow DEF ListInv
  <1> QED BY <1>1, OrderAlways, PTL

(* Frames are passed up in order and once, whatever is lost, repeated, or    *)
(* passed over by a timeout, in every session no shortcut was taken in and   *)
(* outside one.                                                              *)
THEOREM OrderSafe == ASSUME ~Preempt PROVE Spec => []InOrder
  <1>1. OrderInv => InOrder
    <2> SUFFICES ASSUME OrderInv, ba.clean PROVE Sorted(ba.up)
      BY DEF InOrder, Sorted
    <2>1. CASE idx
      <3>1. Fresh => Sorted(ba.up) BY EmptySets DEF Fresh
      <3>2. (\E L \in Int : Session(L)) => Sorted(ba.up)
        BY DEF Session, Line, InLine
      <3> QED BY <2>1, <3>1, <3>2 DEF OrderInv, InInv
    <2>2. CASE ~idx BY <2>2 DEF OrderInv, OutInv
    <2> QED BY <2>1, <2>2
  <1> QED BY <1>1, OrderAlways, PTL

(* A frame whose turn it is does not wait in the list, where only the next   *)
(* frame received would find it.                                             *)
THEOREM ReadySafe == ASSUME ~Preempt PROVE Spec => []NoReadyFrameWaits
  <1>1. OrderInv => NoReadyFrameWaits
    <2> SUFFICES ASSUME OrderInv, ba.clean, idx, ba.list # <<>>
                 PROVE  ~SEQ_STEPONE(SeqNo(ba.list[1]), ba.LastIndSeq)
      BY DEF NoReadyFrameWaits
    <2>1. Buffer(ba) /\ win \in WinSizes BY DEF OrderInv, TypeInv, ThreadInv
    <2>2. win \in Nat /\ win < H /\ H \in Nat /\ SEQS = 2 * H
      BY <2>1, WinType, HalfType
    <2>3. PICK L \in Int : Line(ba, L) BY WaitsInSession
    <2> DEFINE n == ba.list[1]
    <2>4. n \in Int /\ n \in ToSet(ba.list)
      <3>1. ba.list \in Seq(Frames) /\ Len(ba.list) \in Nat
        BY <2>1, BufferFields
      <3>2. 1 \in 1..Len(ba.list) BY <3>1
      <3>3. ToSet(ba.list) = {ba.list[i] : i \in 1..Len(ba.list)}
        BY <2>1, BufferSets
      <3> QED BY <2>1, <3>2, <3>3, BufferFields
    <2> HIDE DEF n
    <2>5. ba.LastIndSeq = SeqNo(L) /\ L + 1 < n /\ n <= L + win
      BY <2>3, <2>4 DEF Line
    <2>6. n - (L + 0 + 1) < SEQS /\ (L + 0 + 1) - n < SEQS /\ n # L + 0 + 1
      BY <2>2, <2>3, <2>4, <2>5
    <2>7. ~SEQ_STEPONE(SeqNo(n), SeqNo(L) + 0) BY <2>3, <2>4, <2>6, StepIs
    <2>8. SeqNo(L) + 0 = SeqNo(L)
      <3>1. SeqNo(L) \in Int BY <2>3, SeqsType DEF SeqNo
      <3> QED BY <3>1
    <2> QED BY <2>5, <2>7, <2>8 DEF n
  <1> QED BY <1>1, OrderAlways, PTL

(* A frame that arrived was passed up, waits, or came after a later frame    *)
(* had been passed up: none is dropped as old by mistake, or on the way from *)
(* the list, unless a timeout passed over it.                                *)
THEOREM LossSafe == ASSUME ~Preempt PROVE Spec => []NothingLost
  <1>1. OrderInv => NothingLost
    <2> SUFFICES ASSUME OrderInv, ba.clean, ~ba.late, idx, NEW n \in got
                 PROVE  Accounted(ba, n)
      BY DEF NothingLost, Accounted
    <2>1. Fresh => Accounted(ba, n) BY DEF Fresh
    <2>2. (\E L \in Int : Session(L)) => Accounted(ba, n) BY DEF Session
    <2> QED BY <2>1, <2>2 DEF OrderInv, InInv
  <1> QED BY <1>1, OrderAlways, PTL
=============================================================================
