----------------------------- MODULE BaReorder -----------------------------
(***************************************************************************)
(* The receive reordering of one block ack session of the rt3370 driver    *)
(* (common/ba_action.c): frames that overtake a missing one wait in a      *)
(* sorted list until it comes, a timeout passes over it, or the window     *)
(* moves on.  Frames and block ack requests are handled by the receive     *)
(* tasklet, atomically on the one CPU; the MLME thread sets up and tears   *)
(* down the session and can be preempted by the tasklet at every step that *)
(* holds no spin lock.                                                     *)
(*                                                                         *)
(* A frame is its number n; it carries the sequence number n % SEQS.       *)
(***************************************************************************)
EXTENDS Integers, Sequences, SequencesExt

CONSTANTS
  SEQS,       \* MAXSEQ + 1, 4096 in the build
  WinSizes,   \* the window sizes a session can be set up with
  NumBlk,     \* MAX_REORDERING_MPDU_NUM
  Gap,        \* how many frames in a row the peer may give up
  FirstFrame, LastFrame,   \* the frames the peer sends
  Preempt     \* the tasklet runs while the thread changes the session

ReorderAssumption ==
  /\ SEQS \in Nat /\ SEQS > 1 /\ SEQS % 2 = 0
  /\ WinSizes \subseteq Nat \ {0} /\ WinSizes # {}
  /\ \A w \in WinSizes : 2 * w + Gap < SEQS \div 2
  /\ NumBlk \in Nat /\ Gap \in Nat
  /\ FirstFrame \in Nat /\ LastFrame \in Nat /\ FirstFrame <= LastFrame
  /\ Preempt \in BOOLEAN

ASSUME ReorderAssumption

VARIABLES
  ba,     \* the session's buffer: LastIndSeq, list, free blocks of the pool,
          \* and the history: leaked (blocks never given back), up (frames
          \* passed up in this session), clean (no shortcut was taken),
          \* late (a timeout passed over a frame)
  win,    \* BAWinSize
  idx,    \* BARecWcidArray[TID] # 0
  age,    \* time since LastIndSeqAtTimer: 0, 1 (> 100 ms), 2 (> 500 ms)
  pc,     \* the place of the thread
  base,   \* the oldest frame the peer still sends
  got,    \* those of them that have arrived since the session began
  top     \* the newest that has arrived

vars == <<ba, win, idx, age, pc, base, got, top>>
peerVars == <<base, got, top>>

RESET_RCV_SEQ == -1

Frames == FirstFrame..LastFrame

SeqNo(n) == n % SEQS

Init ==
  /\ ba = [LastIndSeq |-> RESET_RCV_SEQ, list |-> <<>>, free |-> NumBlk,
           leaked |-> 0, up |-> <<>>, clean |-> TRUE, late |-> FALSE]
  /\ win = 0 /\ idx = FALSE /\ age = 0 /\ pc = "idle"
  /\ base = FirstFrame /\ got = {} /\ top = FirstFrame - 1

-----------------------------------------------------------------------------
(* SEQ_SMALLER and SEQ_STEPONE.  0xFFFF, the value of RESET_RCV_SEQ, has the *)
(* low bits of MAXSEQ, as has -1.                                            *)
SEQ_SMALLER(a, b) == (a - b) % SEQS >= SEQS \div 2

SEQ_STEPONE(a, b) == a = (b + 1) % SEQS

(* ANNOUNCE_REORDERING_PACKET for the first k frames of the list, and        *)
(* ba_mpdu_blk_free for their blocks                                         *)
Announce(b, k) ==
  [b EXCEPT !.list = SubSeq(@, k + 1, Len(@)), !.free = @ + k,
            !.up = @ \o SubSeq(b.list, 1, k)]

(* How many frames ba_indicate_reordering_mpdus_le_seq passes up *)
LeCount(list, S) ==
  CHOOSE k \in 0..Len(list) :
    /\ \A i \in 1..k : SeqNo(list[i]) = S \/ SEQ_SMALLER(SeqNo(list[i]), S)
    /\ k < Len(list) =>
         ~(SeqNo(list[k + 1]) = S \/ SEQ_SMALLER(SeqNo(list[k + 1]), S))

ba_indicate_reordering_mpdus_le_seq(b, S) == Announce(b, LeCount(b.list, S))

(* How many frames follow StartSeq without a gap *)
RunCount(list, S) ==
  CHOOSE k \in 0..Len(list) :
    /\ \A i \in 1..k : SEQ_STEPONE(SeqNo(list[i]), S + i - 1)
    /\ k < Len(list) => ~SEQ_STEPONE(SeqNo(list[k + 1]), S + k)

(* ba_indicate_reordering_mpdus_in_order from LastIndSeq, and the update of  *)
(* LastIndSeq each of its callers makes                                      *)
ba_indicate_reordering_mpdus_in_order(b) ==
  LET k == RunCount(b.list, b.LastIndSeq)
      c == Announce(b, k)
  IN  IF k = 0 THEN c ELSE [c EXCEPT !.LastIndSeq = SeqNo(b.list[k])]

ba_refresh_reordering_mpdus(b) ==
  [Announce(b, Len(b.list)) EXCEPT !.LastIndSeq = RESET_RCV_SEQ, !.clean = FALSE]

(* A wrong variant: the flush does not wrap the sequence number and does not *)
(* go on with the frames that follow                                         *)
BugFlush(b, t) ==
  LET S == b.LastIndSeq + 1 IN
  CASE t = 2 /\ Len(b.list) > 1 -> ba_refresh_reordering_mpdus(b)
    [] t > 0 /\ b.list # <<>> /\ ~(t = 2 /\ Len(b.list) > 1) ->
         [ba_indicate_reordering_mpdus_le_seq(b, S)
            EXCEPT !.LastIndSeq = S, !.late = TRUE]
    [] OTHER -> b

(* ba_flush_reordering_timeout_mpdus at the time since the last frame *)
ba_flush_reordering_timeout_mpdus(b, t) ==
  LET S == (b.LastIndSeq + 1) % SEQS IN
  CASE t = 2 /\ Len(b.list) > 1 -> ba_refresh_reordering_mpdus(b)
    [] t > 0 /\ b.list # <<>> /\ ~(t = 2 /\ Len(b.list) > 1) ->
         ba_indicate_reordering_mpdus_in_order(
           [ba_indicate_reordering_mpdus_le_seq(b, S)
              EXCEPT !.LastIndSeq = S, !.late = TRUE])
    [] OTHER -> b

(* INDICATE_LEGACY_OR_AMSDU: frame n is passed up at once *)
Indicate(b, n) == [b EXCEPT !.up = Append(@, n)]

(* A block is taken and ba_reordering_mpdu_insertsorted puts the frame       *)
(* before the first one that is not smaller; a duplicate is dropped and its  *)
(* block given back.                                                         *)
ba_reordering_mpdu_insertsorted(b, n) ==
  LET p == CHOOSE q \in 1..Len(b.list) + 1 :
             /\ \A i \in 1..q - 1 : SEQ_SMALLER(SeqNo(b.list[i]), SeqNo(n))
             /\ q <= Len(b.list) => ~SEQ_SMALLER(SeqNo(b.list[q]), SeqNo(n))
  IN  IF p <= Len(b.list) /\ SeqNo(b.list[p]) = SeqNo(n) THEN b
      ELSE [b EXCEPT !.list = InsertAt(@, p, n), !.free = @ - 1]

(* ba_enqueue_reordering_packet.  An EAPOL frame, or one no block is left    *)
(* for, is passed up ahead of its turn; the block taken for an EAPOL frame   *)
(* is never given back.                                                      *)
ba_enqueue_reordering_packet(b, n, eap) ==
  IF b.free > 0 /\ ~eap THEN ba_reordering_mpdu_insertsorted(b, n)
  ELSE Indicate([ba_indicate_reordering_mpdus_le_seq(b, SeqNo(n))
                   EXCEPT !.LastIndSeq = SeqNo(n), !.clean = FALSE,
                          !.free = @ - (IF b.free > 0 THEN 1 ELSE 0),
                          !.leaked = @ + (IF b.free > 0 THEN 1 ELSE 0)], n)

(* A wrong variant: a frame beyond the window does not move it *)
BugBeyondWindow(b, n, eap) == ba_enqueue_reordering_packet(b, n, eap)

(* A wrong variant: the window is moved one too far *)
BugWindowStart(b, n, eap) ==
  LET start == (SeqNo(n) - win + 1) % SEQS
      moved == [ba_indicate_reordering_mpdus_le_seq(b, start) EXCEPT !.LastIndSeq = start]
  IN  ba_indicate_reordering_mpdus_in_order(ba_enqueue_reordering_packet(moved, n, eap))

(* Case V of Indicate_AMPDU_Packet: the frame surpasses the window *)
BeyondWindow(b, n, eap) ==
  LET start == (SeqNo(n) - win) % SEQS
      moved == [ba_indicate_reordering_mpdus_le_seq(b, start) EXCEPT !.LastIndSeq = start]
  IN  ba_indicate_reordering_mpdus_in_order(ba_enqueue_reordering_packet(moved, n, eap))

(* A wrong variant: old frames are not recognized *)
BugInSession(b, n, eap) ==
  LET S == SeqNo(n) IN
  IF b.LastIndSeq = RESET_RCV_SEQ THEN Indicate([b EXCEPT !.LastIndSeq = S], n)
  ELSE IF SEQ_STEPONE(S, b.LastIndSeq)
    THEN ba_indicate_reordering_mpdus_in_order(Indicate([b EXCEPT !.LastIndSeq = S], n))
  ELSE IF S = b.LastIndSeq THEN b
  ELSE IF SEQ_SMALLER(S, (b.LastIndSeq + win + 1) % SEQS)
    THEN ba_enqueue_reordering_packet(b, n, eap)
  ELSE BeyondWindow(b, n, eap)

(* Indicate_AMPDU_Packet after the flush: the first frame of a session, the  *)
(* next in order, a duplicate, an old frame, one in the window, one beyond   *)
InSession(b, n, eap) ==
  LET S == SeqNo(n) IN
  IF b.LastIndSeq = RESET_RCV_SEQ THEN Indicate([b EXCEPT !.LastIndSeq = S], n)
  ELSE IF SEQ_STEPONE(S, b.LastIndSeq)
    THEN ba_indicate_reordering_mpdus_in_order(Indicate([b EXCEPT !.LastIndSeq = S], n))
  ELSE IF S = b.LastIndSeq \/ SEQ_SMALLER(S, b.LastIndSeq) THEN b
  ELSE IF SEQ_SMALLER(S, (b.LastIndSeq + win + 1) % SEQS)
    THEN ba_enqueue_reordering_packet(b, n, eap)
  ELSE BeyondWindow(b, n, eap)

-----------------------------------------------------------------------------
TaskletRuns == Preempt \/ pc = "idle"

(* The peer sends a frame of its window and it arrives.  A frame may arrive  *)
(* again as long as the peer has not seen the acknowledgement.  Outside a    *)
(* session the peer sends one frame at a time.                               *)
Indicate_AMPDU_Packet(n, eap) ==
  /\ TaskletRuns
  /\ n >= base
  /\ got' = got \cup {n}
  /\ top' = IF n > top THEN n ELSE top
  /\ \/ /\ idx /\ n < base + win
        /\ ba' = InSession(ba_flush_reordering_timeout_mpdus(ba, age), n, eap)
        /\ age' = 0
     \/ /\ ~idx /\ n = base /\ n \notin got
        /\ ba' = Indicate(ba, n)
        /\ UNCHANGED age
  /\ UNCHANGED <<win, idx, pc, base>>

(* CntlEnqueueForRecv: a block ack request for the oldest frame the peer     *)
(* still sends.  The frame itself is passed up too if it waits in the list,  *)
(* but LastIndSeq is set to the one before.                                  *)
CntlEnqueueForRecv ==
  /\ TaskletRuns
  /\ idx
  /\ LET S == SeqNo(base)
         b == ba_indicate_reordering_mpdus_le_seq(ba, S)
     IN  ba' = IF SEQ_SMALLER(ba.LastIndSeq, S)
                 THEN [b EXCEPT !.LastIndSeq = (S - 1) % SEQS,
                                !.clean = @ /\ base \notin ToSet(ba.list)]
                 ELSE ba
  /\ UNCHANGED <<win, idx, age, pc, peerVars>>

(* The peer is done with its oldest frame: it has been acknowledged, or the  *)
(* retries are used up                                                       *)
PeerAdvance ==
  /\ base \in Frames
  /\ base < top + 1 + Gap
  /\ base' = base + 1
  /\ got' = got \ {base}
  /\ UNCHANGED <<ba, win, idx, age, pc, top>>

(* Time passes with no frame received *)
Tick ==
  /\ age < 2
  /\ age' = age + 1
  /\ UNCHANGED <<ba, win, idx, pc, peerVars>>

-----------------------------------------------------------------------------
(* BARecSessionAdd: the list of an existing session is flushed, the entry is *)
(* filled in, and last the session gets its index.                           *)
BARecSessionAdd ==
  /\ pc = "idle"
  /\ ba' = IF idx THEN ba_refresh_reordering_mpdus(ba) ELSE ba
  /\ pc' = "fill"
  /\ UNCHANGED <<win, idx, age, peerVars>>

RecAddFill ==
  /\ pc = "fill"
  /\ win' \in WinSizes
  /\ pc' = "reset"
  /\ UNCHANGED <<ba, idx, age, peerVars>>

RecAddReset ==
  /\ pc = "reset"
  /\ ba' = [ba EXCEPT !.LastIndSeq = RESET_RCV_SEQ, !.up = <<>>,
                      !.clean = TRUE, !.late = FALSE]
  /\ idx' = TRUE
  /\ got' = {}
  /\ pc' = "idle"
  /\ UNCHANGED <<win, age, base, top>>

(* BARecSessionTearDown: the list is flushed, then under BATabLock the       *)
(* session loses its index.                                                  *)
BARecSessionTearDown ==
  /\ pc = "idle"
  /\ idx
  /\ ba' = ba_refresh_reordering_mpdus(ba)
  /\ pc' = "down"
  /\ UNCHANGED <<win, idx, age, peerVars>>

RecDownReset ==
  /\ pc = "down"
  /\ ba' = [ba EXCEPT !.LastIndSeq = RESET_RCV_SEQ]
  /\ win' = 0
  /\ idx' = FALSE
  /\ pc' = "idle"
  /\ UNCHANGED <<age, peerVars>>

Next ==
  \/ \E n \in Frames, eap \in BOOLEAN : Indicate_AMPDU_Packet(n, eap)
  \/ CntlEnqueueForRecv
  \/ PeerAdvance
  \/ Tick
  \/ BARecSessionAdd \/ RecAddFill \/ RecAddReset
  \/ BARecSessionTearDown \/ RecDownReset

Spec == Init /\ [][Next]_vars

-----------------------------------------------------------------------------
(* The fields and places, the frames of the list and of those passed up *)
TypeOK ==
  /\ ba \in [LastIndSeq : {RESET_RCV_SEQ} \cup 0..SEQS - 1, list : Seq(Frames),
             free : 0..NumBlk, leaked : 0..NumBlk, up : Seq(Frames),
             clean : BOOLEAN, late : BOOLEAN]
  /\ win \in {0} \cup WinSizes
  /\ idx \in BOOLEAN /\ age \in 0..2
  /\ pc \in {"idle", "fill", "reset", "down"}
  /\ base \in FirstFrame..LastFrame + 1
  /\ got \subseteq Frames
  /\ top \in Int

(* Frames are passed up in order and once, whatever is lost, repeated or     *)
(* sent again after a timeout, and across the wrap of the sequence numbers,  *)
(* as long as no shortcut was taken: a flush of the whole list, a frame that *)
(* bypassed it, a block ack request for a frame that waits in it.            *)
InOrder ==
  ba.clean => \A i, j \in 1..Len(ba.up) : i < j => ba.up[i] < ba.up[j]

(* The frames in the list are of the window after LastIndSeq, and sorted the *)
(* way SEQ_SMALLER sees it (the ASSERT of ba_enqueue_reordering_packet)      *)
ListInWindow ==
  ba.clean /\ idx =>
    /\ \A i \in 1..Len(ba.list) : (SeqNo(ba.list[i]) - ba.LastIndSeq) % SEQS \in 1..win
    /\ \A i, j \in 1..Len(ba.list) :
         i < j => SEQ_SMALLER(SeqNo(ba.list[i]), SeqNo(ba.list[j]))

(* A frame whose turn it is does not wait in the list: there is no timer     *)
(* that would find it there, only the next frame received.                   *)
NoReadyFrameWaits ==
  ba.clean /\ idx /\ ba.list # <<>> =>
    ~SEQ_STEPONE(SeqNo(ba.list[1]), ba.LastIndSeq)

(* A frame that arrived was passed up, waits, or came after a later frame    *)
(* had been passed up: none is dropped as old by mistake, unless a timeout   *)
(* passed over it.                                                           *)
NothingLost ==
  ba.clean /\ ~ba.late /\ idx =>
    \A n \in got : n \in ToSet(ba.up) \cup ToSet(ba.list)
                   \/ \E m \in ToSet(ba.up) : m > n

(* Every block of the pool is free, holds a frame that waits, or was lost to *)
(* an EAPOL frame: drops, duplicates, flushes and bypasses all keep account. *)
PoolAccounted == ba.free + Len(ba.list) + ba.leaked = NumBlk

(* The ASSERT of Indicate_AMPDU_Packet: a session that expects its first     *)
(* frame has an empty list                                                   *)
ResetMeansEmpty == ba.LastIndSeq = RESET_RCV_SEQ => ba.list = <<>>

(* The list and its pool: sorted and within the window, every block of the   *)
(* pool accounted for, and empty when a session begins.                      *)
ListInv == TypeOK /\ ListInWindow /\ PoolAccounted /\ ResetMeansEmpty
=============================================================================
