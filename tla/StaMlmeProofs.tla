--------------------------- MODULE StaMlmeProofs ----------------------------
(*****************************************************************************)
(* Proofs about StaMlme, for every set of BSSs, every number of channels,    *)
(* every length of the MLME queue and all kinds of trouble: the types of the *)
(* machines' state, and that a scan which listens on a channel is always     *)
(* ended by its timer or by the timer's message.  While there is no trouble  *)
(* and the queue has room, the same for every wait for a frame.              *)
(*                                                                           *)
(* The invariant of the first two is StaInv.  Handlers store the fields of a *)
(* message in the adapter, and take an index from a message into the table   *)
(* of BSSs, so the types of all messages in the queue belong to it.  The     *)
(* handlers are compositions of a few operators on the adapter (LinkDown,    *)
(* NextBss, IterateOnBssTab, MlmeEnqueue...); a lemma says of each that it   *)
(* turns a Good adapter into a Good one.  Only the message SCAN_TIMEOUT      *)
(* matters to the scan: taking it leaves an adapter that is Typed, and       *)
(* ScanNextChannel makes that Good again.                                    *)
(*                                                                           *)
(* The invariant of the third, WaitInv, adds a count: the messages in the    *)
(* queue and the timers that run are at most Bound together, so no timer's   *)
(* message finds the queue full.  Again a lemma says of each operator and    *)
(* handler what it does to that count.                                       *)
(*****************************************************************************)
EXTENDS StaMlme, FiniteSetTheorems, SequenceTheorems, TLAPS

Kinds == DOMAIN Table

(* The messages of the queue and the frames to the access points *)
Address == Bss \cup {None}
Plain == {"SCAN_REQ", "RESET_CONF", "OID_SSID", "OID_LIST_SCAN", "OID_DISASSOCIATE",
          "BEACON_TIMEOUT", "SCAN_TIMEOUT", "AUTH_TIMEOUT", "ASSOC_TIMEOUT",
          "DISASSOC_TIMEOUT"}
Messages ==
  [k : Plain]
  \cup [k : {"BEACON", "OID_BSSID", "DEAUTH", "DISASSOC"}, b : Bss]
  \cup [k : {"AUTH_REQ", "ASSOC_REQ", "DISASSOC_REQ"}, b : Address]
  \cup [k : {"SCAN_CONF", "JOIN_CONF", "AUTH_CONF", "ASSOC_CONF", "DISASSOC_CONF"},
        ok : BOOLEAN]
  \cup [k : {"AUTH_RSP", "ASSOC_RSP"}, b : Bss, ok : BOOLEAN]
  \cup [k : {"JOIN_REQ"}, i : Nat]
  \cup [k : {"ROAMING_REQ"}, tab : SUBSET Bss]
Frames == [k : {"AUTH", "ASSOC", "LEAVE"}, b : Address]

LEMMA KindsAre ==
  Kinds = {"SCAN_REQ", "JOIN_REQ", "BEACON", "BEACON_TIMEOUT", "SCAN_TIMEOUT",
           "AUTH_REQ", "AUTH_RSP", "AUTH_TIMEOUT", "DEAUTH", "ASSOC_REQ",
           "ASSOC_RSP", "ASSOC_TIMEOUT", "DISASSOC_REQ", "DISASSOC",
           "DISASSOC_TIMEOUT", "JOIN_CONF", "AUTH_CONF", "ASSOC_CONF",
           "DISASSOC_CONF", "SCAN_CONF", "OID_SSID", "OID_BSSID",
           "OID_LIST_SCAN", "OID_DISASSOCIATE", "ROAMING_REQ", "RESET_CONF"}
  BY DEF Kinds, Table

LEMMA ScanTaken ==
  ASSUME NEW m, m.k = "SCAN_TIMEOUT"
  PROVE  Taken(m) <=> pAd.sync = "SCAN_LISTEN"
  <1>1. Table["SCAN_TIMEOUT"] = <<"sync", {"SCAN_LISTEN"}>> BY DEF Table
  <1> QED BY <1>1 DEF Taken

LEMMA MessageFields ==
  ASSUME NEW m \in Messages
  PROVE  /\ m.k \in Kinds
         /\ m.k \in {"BEACON", "OID_BSSID"} => m.b \in Bss
         /\ m.k \in {"AUTH_REQ", "ASSOC_REQ", "DISASSOC_REQ"} => m.b \in Address
         /\ m.k = "JOIN_REQ" => m.i \in Nat
         /\ m.k = "ROAMING_REQ" => m.tab \subseteq Bss
         /\ m.k \in {"AUTH_RSP", "ASSOC_RSP"} => m.ok \in BOOLEAN
  BY KindsAre DEF Messages, Plain

LEMMA MessagesMade ==
  /\ \A k \in Plain : Msg(k) \in Messages
  /\ \A k \in {"BEACON", "OID_BSSID", "DEAUTH", "DISASSOC"}, b \in Bss :
       To(k, b) \in Messages
  /\ \A k \in {"AUTH_REQ", "ASSOC_REQ", "DISASSOC_REQ"}, b \in Address :
       To(k, b) \in Messages
  /\ \A k \in {"SCAN_CONF", "JOIN_CONF", "AUTH_CONF", "ASSOC_CONF", "DISASSOC_CONF"},
        ok \in BOOLEAN : Conf(k, ok) \in Messages
  /\ \A i \in Nat : JoinReq(i) \in Messages
  /\ \A S \in SUBSET Bss : RoamingReq(S) \in Messages
  /\ \A k \in {"AUTH_RSP", "ASSOC_RSP"}, b \in Bss, ok \in BOOLEAN :
       [k |-> k, b |-> b, ok |-> ok] \in Messages
  BY DEF Messages, Msg, To, Conf, JoinReq, RoamingReq

-----------------------------------------------------------------------------
Adapters ==
  [cntl : CntlStates, sync : SyncStates, assoc : AssocStates, auth : AuthStates,
   q : Seq(Messages), tm : SUBSET Timers, aux : Address, tab : Seq(Bss),
   nr : Nat, idx : 0..Cardinality(Bss), scan : SUBSET Bss, infra : BOOLEAN,
   cur : Address, secured : BOOLEAN, improved : BOOLEAN, susp : BOOLEAN,
   chan : 0..NumChannels, cnt : 0..Burst, auto : BOOLEAN, changed : BOOLEAN,
   ndis : BOOLEAN]

Networks == [air : Seq(Frames), granted : SUBSET Bss, cut : BOOLEAN]

(* A scan that listens has its timer or the timer's message. *)
Listens(s) ==
  s.sync = "SCAN_LISTEN" => "Scan" \in s.tm \/ Queued(s.q, "SCAN_TIMEOUT")

Typed(s) ==
  s \in Adapters /\ s.nr <= Len(s.tab) /\ Len(s.q) <= MAX_LEN_OF_MLME_QUEUE

Good(s) == Typed(s) /\ Listens(s)

LEMMA Constants ==
  /\ None \notin Bss /\ IsFiniteSet(Bss) /\ Cardinality(Bss) \in Nat
  /\ NumChannels \in Nat /\ NumChannels >= 1 /\ Burst \in Nat /\ Burst >= 1
  /\ MAX_LEN_OF_MLME_QUEUE \in Nat
  BY StaAssumption, FS_CardinalityType DEF StaAssumption

LEMMA FirstIndex == 0 \in 0..Cardinality(Bss)
  BY Constants

(* Updates that do not matter to the scan *)
LEMMA StaysGood ==
  ASSUME NEW s, Good(s), NEW t, t \in Adapters, t.nr <= Len(t.tab), t.q = s.q,
         t.sync = s.sync \/ t.sync # "SCAN_LISTEN",
         "Scan" \in s.tm => "Scan" \in t.tm
  PROVE  Good(t)
  BY DEF Good, Typed, Listens

LEMMA QueueGrows ==
  ASSUME NEW q \in Seq(Messages), NEW m \in Messages
  PROVE  /\ Append(q, m) \in Seq(Messages) /\ Len(Append(q, m)) = Len(q) + 1
         /\ Queued(Append(q, m), m.k)
         /\ \A k : Queued(q, k) => Queued(Append(q, m), k)
  <1>1. /\ Append(q, m) \in Seq(Messages) /\ Len(Append(q, m)) = Len(q) + 1
        /\ Append(q, m)[Len(q) + 1] = m
        /\ \A i \in 1..Len(q) : Append(q, m)[i] = q[i]
    BY AppendProperties
  <1>2. /\ DOMAIN q = 1..Len(q) /\ DOMAIN Append(q, m) = 1..Len(q) + 1
        /\ Len(q) \in Nat
    BY <1>1
  <1>3. Len(q) + 1 \in 1..Len(q) + 1 /\ 1..Len(q) \subseteq 1..Len(q) + 1
    BY <1>2
  <1> QED BY <1>1, <1>2, <1>3 DEF Queued

LEMMA EnqueueGood ==
  ASSUME NEW s, Good(s), NEW m \in Messages
  PROVE  Good(MlmeEnqueue(s, m))
  <1> DEFINE t == [s EXCEPT !.q = Append(s.q, m)]
  <1>1. s.q \in Seq(Messages) /\ Len(s.q) \in Nat /\ MAX_LEN_OF_MLME_QUEUE \in Nat
    BY Constants DEF Good, Typed, Adapters
  <1>2. /\ Append(s.q, m) \in Seq(Messages) /\ Len(Append(s.q, m)) = Len(s.q) + 1
        /\ Queued(s.q, "SCAN_TIMEOUT") => Queued(Append(s.q, m), "SCAN_TIMEOUT")
    BY <1>1, QueueGrows
  <1>3. CASE Len(s.q) < MAX_LEN_OF_MLME_QUEUE
    <2>1. MlmeEnqueue(s, m) = t BY <1>3 DEF MlmeEnqueue
    <2>2. /\ t \in Adapters /\ t.q = Append(s.q, m) /\ t.sync = s.sync /\ t.tm = s.tm
          /\ t.nr = s.nr /\ t.tab = s.tab
      BY <1>2 DEF Good, Typed, Adapters
    <2> HIDE DEF t
    <2>3. Len(t.q) <= MAX_LEN_OF_MLME_QUEUE BY <1>1, <1>2, <1>3, <2>2
    <2>4. Typed(t) BY <2>2, <2>3 DEF Good, Typed
    <2>5. Listens(t) BY <1>2, <2>2 DEF Good, Listens
    <2> QED BY <2>1, <2>4, <2>5 DEF Good
  <1>4. CASE ~(Len(s.q) < MAX_LEN_OF_MLME_QUEUE) BY <1>4 DEF MlmeEnqueue
  <1> QED BY <1>3, <1>4

(* MlmeEnqueue for an adapter that is only typed *)
LEMMA EnqueueTyped ==
  ASSUME NEW s, Typed(s), s.sync # "SCAN_LISTEN", NEW m \in Messages
  PROVE  Good(MlmeEnqueue(s, m))
  BY EnqueueGood DEF Good, Listens

(* MlmeDequeue *)
LEMMA RestTyped ==
  ASSUME Good(pAd), pAd.q # <<>>
  PROVE  /\ Typed(Rest) /\ Elem \in Messages
         /\ Elem.k # "SCAN_TIMEOUT" \/ pAd.sync # "SCAN_LISTEN" => Good(Rest)
         /\ Rest.q = Tail(pAd.q)
         /\ Rest = [pAd EXCEPT !.q = Tail(pAd.q)]
  <1>1. /\ pAd \in Adapters /\ pAd.q \in Seq(Messages) /\ Len(pAd.q) \in Nat
        /\ Len(pAd.q) # 0 /\ DOMAIN pAd.q = 1..Len(pAd.q)
    BY DEF Good, Typed, Adapters
  <1>2. /\ Tail(pAd.q) \in Seq(Messages) /\ Len(Tail(pAd.q)) = Len(pAd.q) - 1
        /\ Head(pAd.q) = pAd.q[1] /\ Head(pAd.q) \in Messages
        /\ \A i \in 1..Len(pAd.q) - 1 : Tail(pAd.q)[i] = pAd.q[i + 1]
    BY <1>1, HeadTailProperties
  <1>3. Rest = [pAd EXCEPT !.q = Tail(pAd.q)] BY DEF Rest
  <1>4. /\ Rest \in Adapters /\ Rest.q = Tail(pAd.q) /\ Rest.sync = pAd.sync
        /\ Rest.tm = pAd.tm /\ Rest.nr = pAd.nr /\ Rest.tab = pAd.tab
    BY <1>1, <1>2, <1>3 DEF Adapters
  <1>5. Typed(Rest)
    <2>1. Len(Rest.q) <= MAX_LEN_OF_MLME_QUEUE
      BY <1>1, <1>2, <1>4, Constants DEF Good, Typed
    <2> QED BY <1>4, <2>1 DEF Good, Typed
  <1>6. ASSUME Queued(pAd.q, "SCAN_TIMEOUT"), Elem.k # "SCAN_TIMEOUT"
        PROVE  Queued(Tail(pAd.q), "SCAN_TIMEOUT")
    <2>1. PICK i \in 1..Len(pAd.q) : pAd.q[i].k = "SCAN_TIMEOUT"
      BY <1>1, <1>6 DEF Queued
    <2>2. i # 1 BY <1>2, <1>6, <2>1 DEF Elem
    <2>3. i - 1 \in 1..Len(pAd.q) - 1 /\ (i - 1) + 1 = i BY <1>1, <2>1, <2>2
    <2>4. Tail(pAd.q)[i - 1].k = "SCAN_TIMEOUT" BY <1>2, <2>1, <2>3
    <2>5. DOMAIN Tail(pAd.q) = 1..Len(pAd.q) - 1 BY <1>2
    <2> QED BY <2>3, <2>4, <2>5 DEF Queued
  <1>7. Elem.k # "SCAN_TIMEOUT" \/ pAd.sync # "SCAN_LISTEN" => Listens(Rest)
    BY <1>4, <1>6 DEF Good, Listens
  <1> QED BY <1>2, <1>3, <1>4, <1>5, <1>7 DEF Good, Elem

-----------------------------------------------------------------------------
(* The operators the handlers are built from *)
LEMMA LinkUpGood ==
  ASSUME NEW s, Good(s)
  PROVE  Good(LinkUp(s))
  <1> DEFINE tm == (s.tm \ {"Disassoc"}) \cup (IF Psk THEN {"LinkDown"} ELSE {})
             open == ~Psk
             t == [s EXCEPT !.improved = FALSE, !.cur = s.aux, !.infra = TRUE,
                            !.secured = open, !.tm = tm, !.changed = FALSE,
                            !.susp = FALSE]
  <1>1. /\ s \in Adapters /\ s.nr <= Len(s.tab) /\ s.tm \subseteq Timers
        /\ s.aux \in Address
    BY DEF Good, Typed, Adapters
  <1>2. tm \subseteq Timers /\ ("Scan" \in s.tm => "Scan" \in tm)
    BY <1>1 DEF Timers
  <1>3. LinkUp(s) = t BY DEF LinkUp
  <1>4. open \in BOOLEAN OBVIOUS
  <1> HIDE DEF tm, open
  <1>5. /\ t \in Adapters /\ t.nr = s.nr /\ t.tab = s.tab /\ t.q = s.q
        /\ t.sync = s.sync /\ t.tm = tm
    BY ZenonT(60), <1>1, <1>2, <1>4 DEF Adapters
  <1> HIDE DEF t
  <1>6. Good(t) BY <1>1, <1>2, <1>5, StaysGood
  <1> QED BY <1>3, <1>6

LEMMA LinkDownGood ==
  ASSUME NEW s, Good(s)
  PROVE  Good(LinkDown(s)) /\ LinkDown(s).sync = s.sync
  <1> DEFINE t == LinkDown(s)
  <1>1. s \in Adapters /\ s.nr <= Len(s.tab) BY DEF Good, Typed
  <1>2. /\ t \in Adapters /\ t.nr = s.nr /\ t.tab = s.tab /\ t.q = s.q
        /\ t.sync = s.sync /\ t.tm = s.tm
    BY ZenonT(60), <1>1 DEF LinkDown, Adapters
  <1> HIDE DEF t
  <1>3. Good(t) BY <1>1, <1>2, StaysGood
  <1> QED BY <1>2, <1>3 DEF t

LEMMA CntlGood ==
  ASSUME NEW s, Good(s), NEW c \in CntlStates
  PROVE  Good([s EXCEPT !.cntl = c])
  <1> DEFINE t == [s EXCEPT !.cntl = c]
  <1>1. s \in Adapters /\ s.nr <= Len(s.tab) BY DEF Good, Typed
  <1>2. /\ t \in Adapters /\ t.nr = s.nr /\ t.tab = s.tab /\ t.q = s.q
        /\ t.sync = s.sync /\ t.tm = s.tm
    BY <1>1 DEF Adapters
  <1> HIDE DEF t
  <1>3. Good(t) BY <1>1, <1>2, StaysGood
  <1> QED BY <1>3 DEF t

LEMMA NextBssGood ==
  ASSUME NEW s, Good(s)
  PROVE  Good(NextBss(s))
  <1> DEFINE t == NextBss(s)
  <1>1. s \in Adapters /\ s.nr <= Len(s.tab) BY DEF Good, Typed
  <1>2. (IF s.idx < Cardinality(Bss) THEN s.idx + 1 ELSE s.idx) \in 0..Cardinality(Bss)
    BY <1>1, Constants DEF Adapters
  <1>3. /\ t \in Adapters /\ t.nr = s.nr /\ t.tab = s.tab /\ t.q = s.q
        /\ t.sync = s.sync /\ t.tm = s.tm
    BY <1>1, <1>2 DEF NextBss, Adapters
  <1> HIDE DEF t
  <1>4. Good(t) BY <1>1, <1>3, StaysGood
  <1> QED BY <1>4 DEF t

LEMMA IterateGood ==
  ASSUME NEW s, Good(s)
  PROVE  Good(IterateOnBssTab(s))
  <1>1. /\ s \in Adapters /\ s.nr <= Len(s.tab) /\ s.idx \in Nat
        /\ s.tab \in Seq(Bss) /\ Len(s.tab) \in Nat
    BY Constants DEF Good, Typed, Adapters
  <1>2. CASE s.idx < s.nr
    <2>1. Good([s EXCEPT !.cntl = "CNTL_WAIT_JOIN"]) BY CntlGood DEF CntlStates
    <2>2. JoinReq(s.idx) \in Messages BY <1>1, MessagesMade
    <2>3. Good(MlmeEnqueue([s EXCEPT !.cntl = "CNTL_WAIT_JOIN"], JoinReq(s.idx)))
      BY <2>1, <2>2, EnqueueGood
    <2> QED BY <1>2, <2>3 DEF IterateOnBssTab
  <1>3. CASE ~(s.idx < s.nr)
    <2> DEFINE t == IterateOnBssTab(s)
    <2>1. /\ t \in Adapters /\ t.nr = 0 /\ t.tab = s.tab /\ t.q = s.q
          /\ t.sync = s.sync /\ t.tm = s.tm
      BY <1>1, <1>3 DEF IterateOnBssTab, Adapters, CntlStates
    <2> HIDE DEF t
    <2>2. t.nr <= Len(t.tab) BY <1>1, <2>1
    <2>3. Good(t) BY <2>1, <2>2, StaysGood
    <2> QED BY <2>3 DEF t
  <1> QED BY <1>2, <1>3

LEMMA DisassocGood ==
  ASSUME NEW s, Good(s), NEW c \in CntlStates
  PROVE  Good(RequestDisassoc(s, c))
  <1>1. s.cur \in Address BY DEF Good, Typed, Adapters
  <1>2. To("DISASSOC_REQ", s.cur) \in Messages BY <1>1, MessagesMade
  <1>3. Good([s EXCEPT !.cntl = c]) BY CntlGood
  <1> QED BY <1>2, <1>3, EnqueueGood DEF RequestDisassoc

LEMMA AssocGood ==
  ASSUME NEW s, Good(s)
  PROVE  Good(RequestAssoc(s))
  <1>1. s.aux \in Address BY DEF Good, Typed, Adapters
  <1>2. To("ASSOC_REQ", s.aux) \in Messages BY <1>1, MessagesMade
  <1>3. Good([s EXCEPT !.cntl = "CNTL_WAIT_ASSOC"]) BY CntlGood DEF CntlStates
  <1> QED BY <1>2, <1>3, EnqueueGood DEF RequestAssoc

LEMMA ScanGood ==
  ASSUME NEW s, Good(s)
  PROVE  Good(RequestScan(s))
  <1>1. Msg("SCAN_REQ") \in Messages BY MessagesMade DEF Plain
  <1>2. Good([s EXCEPT !.cntl = "CNTL_WAIT_OID_LIST_SCAN"])
    BY CntlGood DEF CntlStates
  <1> QED BY <1>1, <1>2, EnqueueGood DEF RequestScan

LEMMA AssocFailsGood ==
  ASSUME NEW s, Good(s), NEW k \in {"ASSOC_CONF", "DISASSOC_CONF"}
  PROVE  Good(AssocFails(s, k))
  <1> DEFINE t == [s EXCEPT !.assoc = "ASSOC_IDLE"]
  <1>1. s \in Adapters /\ s.nr <= Len(s.tab) BY DEF Good, Typed
  <1>2. /\ t \in Adapters /\ t.nr = s.nr /\ t.tab = s.tab /\ t.q = s.q
        /\ t.sync = s.sync /\ t.tm = s.tm
    BY <1>1 DEF Adapters, AssocStates
  <1> HIDE DEF t
  <1>3. Good(t) BY <1>1, <1>2, StaysGood
  <1>4. Conf(k, FALSE) \in Messages BY MessagesMade
  <1>5. Good(MlmeEnqueue(t, Conf(k, FALSE))) BY <1>3, <1>4, EnqueueGood
  <1> QED BY <1>5 DEF t, AssocFails

LEMMA ResetGood ==
  ASSUME NEW s, Good(s)
  PROVE  Good(Reset(s)) /\ Good(AutoReconnect(s))
  <1>1. Msg("RESET_CONF") \in Messages /\ Msg("OID_SSID") \in Messages
    BY MessagesMade DEF Plain
  <1>2. Good(MlmeEnqueue(s, Msg("RESET_CONF"))) BY <1>1, EnqueueGood
  <1>3. Good(MlmeEnqueue(s, Msg("OID_SSID"))) BY <1>1, EnqueueGood
  <1> QED BY <1>2, <1>3 DEF Reset, AutoReconnect

(* The entries of the scan's results and of the table *)
LEMMA HeardGood ==
  ASSUME NEW s, Good(s), NEW b \in Bss
  PROVE  Good([s EXCEPT !.scan = @ \cup {b}])
  <1> DEFINE t == [s EXCEPT !.scan = @ \cup {b}]
  <1>1. s \in Adapters /\ s.nr <= Len(s.tab) BY DEF Good, Typed
  <1>2. /\ t \in Adapters /\ t.nr = s.nr /\ t.tab = s.tab /\ t.q = s.q
        /\ t.sync = s.sync /\ t.tm = s.tm
    BY <1>1 DEF Adapters
  <1> HIDE DEF t
  <1>3. Good(t) BY <1>1, <1>2, StaysGood
  <1> QED BY <1>3 DEF t

LEMMA SetEntryGood ==
  ASSUME NEW s, Good(s), NEW b \in Bss
  PROVE  Good(BssTableSetEntry(s, b)) /\ BssTableSetEntry(s, b).sync = s.sync
  <1> DEFINE old == SubSeq(s.tab, 1, s.nr)
             new == Append(old, b)
             t == [s EXCEPT !.tab = new, !.nr = s.nr + 1]
  <1>1. /\ s \in Adapters /\ s.nr <= Len(s.tab) /\ s.nr \in Nat
        /\ s.tab \in Seq(Bss) /\ Len(s.tab) \in Nat
    BY DEF Good, Typed, Adapters
  <1>2. old \in Seq(Bss) /\ Len(old) = s.nr
    <2>1. \A i \in 1..s.nr : s.tab[i] \in Bss BY <1>1
    <2> QED BY <1>1, <2>1, SubSeqProperties
  <1> HIDE DEF old
  <1>3. new \in Seq(Bss) /\ Len(new) = s.nr + 1 /\ s.nr + 1 \in Nat
    BY <1>1, <1>2, AppendProperties
  <1>4. BssTableSetEntry(s, b) \in {s, t} BY DEF BssTableSetEntry, old
  <1> HIDE DEF new
  <1>5. /\ t \in Adapters /\ t.nr = s.nr + 1 /\ t.tab = new /\ t.q = s.q
        /\ t.sync = s.sync /\ t.tm = s.tm
    BY <1>1, <1>3 DEF Adapters
  <1> HIDE DEF t
  <1>6. Good(t) BY <1>1, <1>3, <1>5, StaysGood
  <1> QED BY <1>5, <1>4, <1>6

(* ScanNextChannel sets the timer where it starts to listen, so that it      *)
(* needs no timer or message to be there.                                    *)
LEMMA NextChannelGood ==
  ASSUME NEW s, Typed(s), NEW memory \in BOOLEAN
  PROVE  Good(ScanNextChannel(s, memory))
  <1>1. s \in Adapters /\ s.nr <= Len(s.tab) /\ Len(s.q) <= MAX_LEN_OF_MLME_QUEUE
    BY DEF Typed
  <1>2. Conf("SCAN_CONF", TRUE) \in Messages /\ Conf("SCAN_CONF", FALSE) \in Messages
    BY MessagesMade
  <1> DEFINE pending == [s EXCEPT !.sync = "SCAN_PENDING", !.susp = FALSE, !.cnt = 0]
             done == [s EXCEPT !.sync = "SYNC_IDLE", !.improved = FALSE, !.cnt = 0]
             t == [s EXCEPT !.tm = @ \cup {"Scan"},
                            !.cnt = IF @ < Burst THEN @ + 1 ELSE @]
             listen == [t EXCEPT !.sync = "SCAN_LISTEN"]
             fail == [t EXCEPT !.sync = "SYNC_IDLE"]
  <1>3. 0 \in 0..Burst /\ (IF s.cnt < Burst THEN s.cnt + 1 ELSE s.cnt) \in 0..Burst
    BY <1>1, Constants DEF Adapters
  <1>4. /\ pending \in Adapters /\ pending.nr = s.nr /\ pending.tab = s.tab
        /\ pending.q = s.q /\ pending.sync = "SCAN_PENDING"
    BY <1>1, <1>3 DEF Adapters, SyncStates
  <1>5. /\ done \in Adapters /\ done.nr = s.nr /\ done.tab = s.tab
        /\ done.q = s.q /\ done.sync = "SYNC_IDLE"
    BY <1>1, <1>3 DEF Adapters, SyncStates
  <1>6. /\ t \in Adapters /\ t.nr = s.nr /\ t.tab = s.tab /\ t.q = s.q
        /\ t.tm = s.tm \cup {"Scan"}
    BY <1>1, <1>3 DEF Adapters, Timers
  <1>7. ScanNextChannel(s, memory) \in
          {pending, MlmeEnqueue(done, Conf("SCAN_CONF", TRUE)), listen,
           MlmeEnqueue(fail, Conf("SCAN_CONF", FALSE))}
    BY DEF ScanNextChannel
  <1> HIDE DEF t
  <1>8. /\ listen \in Adapters /\ listen.nr = s.nr /\ listen.tab = s.tab
        /\ listen.q = s.q /\ "Scan" \in listen.tm
    BY <1>6 DEF Adapters, SyncStates
  <1>9. /\ fail \in Adapters /\ fail.nr = s.nr /\ fail.tab = s.tab
        /\ fail.q = s.q /\ fail.sync = "SYNC_IDLE"
    BY <1>6 DEF Adapters, SyncStates
  <1> HIDE DEF pending, done, listen, fail
  <1>10. Good(pending) BY <1>1, <1>4 DEF Good, Typed, Listens
  <1>11. Good(MlmeEnqueue(done, Conf("SCAN_CONF", TRUE)))
    <2>1. Typed(done) BY <1>1, <1>5 DEF Typed
    <2> QED BY <1>2, <1>5, <2>1, EnqueueTyped
  <1>12. Good(listen) BY <1>1, <1>8 DEF Good, Typed, Listens
  <1>13. Good(MlmeEnqueue(fail, Conf("SCAN_CONF", FALSE)))
    <2>1. Typed(fail) BY <1>1, <1>9 DEF Typed
    <2> QED BY <1>2, <1>9, <2>1, EnqueueTyped
  <1> QED BY <1>7, <1>10, <1>11, <1>12, <1>13

-----------------------------------------------------------------------------
(* The inductive invariant.  What WaitIsTimed says of a scan is inductive    *)
(* with the types of all fields; the messages' types are needed because a    *)
(* handler stores their fields in the adapter.                               *)
StaInv == Good(pAd) /\ net \in Networks

LEMMA SeenTyped ==
  ASSUME StaInv, NEW s
  PROVE  Seen(s) \in Networks
  <1> DEFINE S == IF pAd.infra /\ ~s.infra THEN {pAd.cur} ELSE {}
             c == /\ s.cntl # "CNTL_IDLE"
                  /\ net.cut \/ ((pAd.infra /\ ~s.infra) /\ Cuts(s))
             g == net.granted \ S
  <1>1. c \in BOOLEAN OBVIOUS
  <1>2. net \in Networks /\ g \subseteq Bss BY DEF StaInv, Networks
  <1>3. Seen(s) = [[net EXCEPT !.granted = g] EXCEPT !.cut = c]
    BY <1>2 DEF Seen, Forget, Networks
  <1> HIDE DEF c, g, S
  <1> QED BY <1>1, <1>2, <1>3 DEF Networks

LEMMA DoKeeps ==
  ASSUME StaInv, NEW s, Good(s), Do(s)
  PROVE  StaInv'
  <1>1. pAd' = s /\ net' \in Networks BY SeenTyped DEF Do
  <1> QED BY <1>1 DEF StaInv, Good, Typed, Listens

LEMMA SendKeeps ==
  ASSUME StaInv, NEW s, Good(s), NEW f \in Frames, Send(s, f)
  PROVE  StaInv'
  <1> DEFINE g == net.granted \ {f.b}
  <1>1. net \in Networks /\ g \subseteq Bss /\ net.air \in Seq(Frames)
    BY DEF StaInv, Networks
  <1>2. Append(net.air, f) \in Seq(Frames) BY <1>1
  <1>3. Forget(net, {f.b}) = [net EXCEPT !.granted = g] BY DEF Forget
  <1> HIDE DEF g
  <1>4. Forget(net, {f.b}) \in Networks /\ Forget(net, {f.b}).air = net.air
    BY <1>1, <1>3 DEF Networks
  <1>5. [Forget(net, {f.b}) EXCEPT !.air = Append(net.air, f)] \in Networks
    BY <1>2, <1>4 DEF Networks
  <1>6. pAd' = s /\ net' \in Networks BY <1>4, <1>5 DEF Send
  <1> QED BY <1>6 DEF StaInv, Good, Typed, Listens

LEMMA GetsGood ==
  ASSUME StaInv, NEW k, Gets(k), k # "SCAN_TIMEOUT"
  PROVE  /\ Good(Rest) /\ Elem \in Messages /\ Elem.k = k
         /\ Rest \in Adapters /\ Rest.nr <= Len(Rest.tab)
         /\ Rest.sync = pAd.sync /\ Rest.aux = pAd.aux /\ Rest.tab = pAd.tab
  <1>1. pAd.q # <<>> /\ Elem.k = k /\ Good(pAd) BY DEF Gets, StaInv
  <1>2. Good(Rest) /\ Elem \in Messages BY <1>1, RestTyped
  <1>3. pAd \in Adapters /\ Rest = [pAd EXCEPT !.q = Tail(pAd.q)]
    BY <1>1, RestTyped DEF Good, Typed
  <1>4. Rest.sync = pAd.sync /\ Rest.aux = pAd.aux /\ Rest.tab = pAd.tab
    BY <1>3 DEF Adapters
  <1> QED BY <1>1, <1>2, <1>4 DEF Good, Typed

LEMMA OrdersTyped ==
  ASSUME NEW S \in SUBSET Bss, NEW t \in Orders(S)
  PROVE  t \in Seq(Bss) /\ Len(t) \in Nat
  <1>1. IsFiniteSet(S) BY Constants, FS_Subset
  <1>2. Cardinality(S) \in Nat BY <1>1, FS_CardinalityType
  <1>3. t \in [1..Cardinality(S) -> S] BY DEF Orders
  <1>4. t \in Seq(S) BY <1>2, <1>3
  <1> QED BY <1>4

LEMMA SsidDoes ==
  ASSUME CntlOidSsidProc
  PROVE  \E t \in Orders(pAd.scan) :
           LET s == [Rest EXCEPT !.aux = None, !.auto = TRUE, !.tab = t, !.nr = Len(t)]
           IN  \/ Do(s)
               \/ Do(RequestDisassoc(s, "CNTL_WAIT_DISASSOC"))
               \/ Do(RequestScan(s))
               \/ Do(IterateOnBssTab([s EXCEPT !.idx = 0]))
  <1> DEFINE s(t) == [Rest EXCEPT !.aux = None, !.auto = TRUE, !.tab = t, !.nr = Len(t)]
             first(t) == [s(t) EXCEPT !.idx = 0]
  <1>1. PICK t \in Orders(pAd.scan) :
          Do(CASE s(t).infra /\ t # <<>> /\ s(t).cur = t[1] ->
                    IF (Psk /\ ~s(t).secured) \/ s(t).changed
                    THEN RequestDisassoc(s(t), "CNTL_WAIT_DISASSOC") ELSE s(t)
               [] s(t).infra /\ ~(t # <<>> /\ s(t).cur = t[1]) ->
                    RequestDisassoc(s(t), "CNTL_WAIT_DISASSOC")
               [] ~s(t).infra /\ t = <<>> -> RequestScan(s(t))
               [] ~s(t).infra /\ t # <<>> -> IterateOnBssTab(first(t)))
    BY DEF CntlOidSsidProc
  <1> DEFINE u == s(t)
             v == first(t)
  <1> HIDE DEF u, v
  <1>2. Do(CASE u.infra /\ t # <<>> /\ u.cur = t[1] ->
                    IF (Psk /\ ~u.secured) \/ u.changed
                    THEN RequestDisassoc(u, "CNTL_WAIT_DISASSOC") ELSE u
               [] u.infra /\ ~(t # <<>> /\ u.cur = t[1]) ->
                    RequestDisassoc(u, "CNTL_WAIT_DISASSOC")
               [] ~u.infra /\ t = <<>> -> RequestScan(u)
               [] ~u.infra /\ t # <<>> -> IterateOnBssTab(v))
    BY <1>1 DEF u, v
  <1>3. \/ Do(u) \/ Do(RequestDisassoc(u, "CNTL_WAIT_DISASSOC"))
        \/ Do(RequestScan(u)) \/ Do(IterateOnBssTab(v))
    BY <1>2
  <1> QED BY <1>3 DEF u, v

LEMMA SsidKept ==
  ASSUME StaInv, CntlOidSsidProc
  PROVE  StaInv'
  <1>1. Good(Rest) /\ Rest \in Adapters
    <2>1. Gets("OID_SSID") BY DEF CntlOidSsidProc
    <2> QED BY <2>1, GetsGood
  <1>2. pAd.scan \subseteq Bss BY DEF StaInv, Good, Typed, Adapters
  <1> DEFINE s(t) == [Rest EXCEPT !.aux = None, !.auto = TRUE, !.tab = t, !.nr = Len(t)]
             first(t) == [s(t) EXCEPT !.idx = 0]
  <1>3. PICK t \in Orders(pAd.scan) :
          \/ Do(s(t))
          \/ Do(RequestDisassoc(s(t), "CNTL_WAIT_DISASSOC"))
          \/ Do(RequestScan(s(t)))
          \/ Do(IterateOnBssTab(first(t)))
    BY SsidDoes
  <1>4. t \in Seq(Bss) /\ Len(t) \in Nat BY <1>2, OrdersTyped
  <1> DEFINE u == s(t)
             v == first(t)
  <1>5. /\ u \in Adapters /\ u.nr = Len(t) /\ u.tab = t /\ u.q = Rest.q
        /\ u.sync = Rest.sync /\ u.tm = Rest.tm
    BY <1>1, <1>4 DEF Adapters, Address
  <1>6. v = [u EXCEPT !.idx = 0] OBVIOUS
  <1>7. \/ Do(u) \/ Do(RequestDisassoc(u, "CNTL_WAIT_DISASSOC"))
        \/ Do(RequestScan(u)) \/ Do(IterateOnBssTab(v))
    BY <1>3
  <1> HIDE DEF u, v
  <1>8. Good(u) BY <1>1, <1>4, <1>5, StaysGood
  <1>9. /\ v \in Adapters /\ v.nr = Len(t) /\ v.tab = t /\ v.q = Rest.q
        /\ v.sync = Rest.sync /\ v.tm = Rest.tm
    BY <1>5, <1>6, FirstIndex DEF Adapters
  <1>10. Good(v) BY <1>1, <1>4, <1>9, StaysGood
  <1>11. /\ Good(RequestDisassoc(u, "CNTL_WAIT_DISASSOC")) /\ Good(RequestScan(u))
         /\ Good(IterateOnBssTab(v))
    BY <1>8, <1>10, DisassocGood, ScanGood, IterateGood DEF CntlStates
  <1> QED BY <1>7, <1>8, <1>11, DoKeeps

LEMMA BssidKept ==
  ASSUME StaInv, CntlOidRTBssidProc
  PROVE  StaInv'
  <1> DEFINE b == Elem.b
             s == [Rest EXCEPT !.aux = b]
             tab == IF s.tab = <<>> THEN <<b>> ELSE [s.tab EXCEPT ![1] = b]
             f == [s EXCEPT !.auto = TRUE, !.idx = 0, !.nr = 1, !.tab = tab]
  <1>1. /\ Good(Rest) /\ Rest \in Adapters /\ b \in Bss
        /\ Rest.nr <= Len(Rest.tab)
    <2>1. Gets("OID_BSSID") BY DEF CntlOidRTBssidProc
    <2> QED BY <2>1, GetsGood, MessageFields
  <1>2. Do(RequestScan(s)) \/ Do(RequestDisassoc(f, "CNTL_WAIT_DISASSOC"))
        \/ Do(IterateOnBssTab(f))
    <2>1. Do(CASE b \notin s.scan -> RequestScan(s)
               [] b \in s.scan /\ s.infra -> RequestDisassoc(f, "CNTL_WAIT_DISASSOC")
               [] OTHER -> IterateOnBssTab(f))
      BY DEF CntlOidRTBssidProc
    <2> HIDE DEF s, f, b
    <2> QED BY <2>1
  <1>3. /\ s \in Adapters /\ s.nr = Rest.nr /\ s.tab = Rest.tab /\ s.q = Rest.q
        /\ s.sync = Rest.sync /\ s.tm = Rest.tm
    BY <1>1 DEF Adapters, Address
  <1> HIDE DEF b, s
  <1>4. Good(s) BY <1>1, <1>3, StaysGood
  <1>5. tab \in Seq(Bss) /\ Len(tab) >= 1
    <2>1. s.tab \in Seq(Bss) BY <1>3 DEF Adapters
    <2>2. CASE s.tab = <<>> BY <1>1, <2>2
    <2>3. CASE s.tab # <<>>
      <3>1. [s.tab EXCEPT ![1] = b] \in Seq(Bss)
            /\ Len([s.tab EXCEPT ![1] = b]) = Len(s.tab)
        BY <1>1, <2>1, <2>3, ExceptSeq
      <3> QED BY <2>1, <2>3, <3>1
    <2> QED BY <2>2, <2>3
  <1> HIDE DEF tab
  <1>6. /\ f \in Adapters /\ f.nr = 1 /\ f.tab = tab /\ f.q = s.q
        /\ f.sync = s.sync /\ f.tm = s.tm
    BY <1>3, <1>5, FirstIndex DEF Adapters
  <1> HIDE DEF f
  <1>7. Good(f) BY <1>4, <1>5, <1>6, StaysGood
  <1>8. /\ Good(RequestDisassoc(f, "CNTL_WAIT_DISASSOC")) /\ Good(RequestScan(s))
        /\ Good(IterateOnBssTab(f))
    BY <1>4, <1>7, DisassocGood, ScanGood, IterateGood DEF CntlStates
  <1> QED BY <1>2, <1>8, DoKeeps

(* The rest of the control machine *)
LEMMA ControlKept ==
  ASSUME StaInv,
         \/ CntlOidSsidProc \/ CntlOidRTBssidProc \/ CntlOidScanProc
         \/ CntlOidDisassociate \/ CntlMlmeRoamingProc \/ CntlWaitDisassocProc
         \/ CntlWaitOidDisassoc \/ CntlWaitOidListScan \/ CntlWaitJoinProc
         \/ CntlWaitAuthProc \/ CntlWaitAuthProc2 \/ CntlWaitAssocProc
  PROVE  StaInv'
  <1>1. CASE CntlOidSsidProc BY <1>1, SsidKept
  <1>2. CASE CntlOidRTBssidProc BY <1>2, BssidKept
  <1>3. CASE CntlOidScanProc
    <2>1. Good(Rest) BY <1>3, GetsGood DEF CntlOidScanProc
    <2>2. Good(RequestScan(Rest)) BY <2>1, ScanGood
    <2>3. Do(RequestScan(Rest)) \/ Do(Rest) BY <1>3 DEF CntlOidScanProc
    <2> QED BY <2>1, <2>2, <2>3, DoKeeps
  <1>4. CASE CntlOidDisassociate
    <2> DEFINE s == [Rest EXCEPT !.auto = FALSE]
    <2>1. Good(Rest) /\ Rest \in Adapters /\ Rest.nr <= Len(Rest.tab)
      BY <1>4, GetsGood DEF CntlOidDisassociate
    <2>2. /\ s \in Adapters /\ s.nr = Rest.nr /\ s.tab = Rest.tab /\ s.q = Rest.q
          /\ s.sync = Rest.sync /\ s.tm = Rest.tm
      BY <2>1 DEF Adapters
    <2>3. Do(RequestDisassoc(s, "CNTL_WAIT_OID_DISASSOC"))
      BY <1>4 DEF CntlOidDisassociate
    <2> HIDE DEF s
    <2>4. Good(s) BY <2>1, <2>2, StaysGood
    <2>5. Good(RequestDisassoc(s, "CNTL_WAIT_OID_DISASSOC"))
      BY <2>4, DisassocGood DEF CntlStates
    <2> QED BY <2>3, <2>5, DoKeeps
  <1>5. CASE CntlMlmeRoamingProc
    <2>1. Good(Rest) /\ Rest \in Adapters /\ Elem.tab \subseteq Bss
      BY <1>5, GetsGood, MessageFields DEF CntlMlmeRoamingProc
    <2>2. PICK t \in Orders(Elem.tab) :
            Do(IterateOnBssTab([Rest EXCEPT !.tab = t, !.nr = Len(t), !.idx = 0]))
      BY <1>5 DEF CntlMlmeRoamingProc
    <2>3. t \in Seq(Bss) /\ Len(t) \in Nat BY <2>1, OrdersTyped
    <2> DEFINE s == [Rest EXCEPT !.tab = t, !.nr = Len(t), !.idx = 0]
    <2>4. /\ s \in Adapters /\ s.nr = Len(t) /\ s.tab = t /\ s.q = Rest.q
          /\ s.sync = Rest.sync /\ s.tm = Rest.tm
      BY <2>1, <2>3, FirstIndex DEF Adapters
    <2>5. Do(IterateOnBssTab(s)) BY <2>2
    <2> HIDE DEF s
    <2>6. Good(s) BY <2>1, <2>3, <2>4, StaysGood
    <2>7. Good(IterateOnBssTab(s)) BY <2>6, IterateGood
    <2> QED BY <2>5, <2>7, DoKeeps
  <1>6. CASE CntlWaitDisassocProc
    <2>1. Good(Rest) BY <1>6, GetsGood DEF CntlWaitDisassocProc
    <2>2. Good(LinkDown(Rest)) BY <2>1, LinkDownGood
    <2>3. Good(NextBss(LinkDown(Rest))) BY <2>2, NextBssGood
    <2>4. Good(IterateOnBssTab(NextBss(LinkDown(Rest)))) BY <2>3, IterateGood
    <2> QED BY <1>6, <2>4, DoKeeps DEF CntlWaitDisassocProc
  <1>7. CASE CntlWaitOidDisassoc
    <2>1. Good(Rest) BY <1>7, GetsGood DEF CntlWaitOidDisassoc
    <2>2. Good(LinkDown(Rest)) BY <2>1, LinkDownGood
    <2>3. Good([LinkDown(Rest) EXCEPT !.cntl = "CNTL_IDLE"])
      BY <2>2, CntlGood DEF CntlStates
    <2> QED BY <1>7, <2>3, DoKeeps DEF CntlWaitOidDisassoc
  <1>8. CASE CntlWaitOidListScan
    <2> DEFINE s == [Rest EXCEPT !.susp = FALSE, !.cntl = "CNTL_IDLE", !.improved = FALSE]
    <2>1. Good(Rest) /\ Rest \in Adapters /\ Rest.nr <= Len(Rest.tab)
      BY <1>8, GetsGood DEF CntlWaitOidListScan
    <2>2. /\ s \in Adapters /\ s.nr = Rest.nr /\ s.tab = Rest.tab /\ s.q = Rest.q
          /\ s.sync = Rest.sync /\ s.tm = Rest.tm
      BY <2>1 DEF Adapters, CntlStates
    <2>3. Do(s) BY <1>8 DEF CntlWaitOidListScan
    <2> HIDE DEF s
    <2>4. Good(s) BY <2>1, <2>2, StaysGood
    <2> QED BY <2>3, <2>4, DoKeeps
  <1>9. CASE CntlWaitJoinProc
    <2>1. Good(Rest) BY <1>9, GetsGood DEF CntlWaitJoinProc
    <2>2. To("AUTH_REQ", pAd.aux) \in Messages
      <3>1. pAd.aux \in Address BY DEF StaInv, Good, Typed, Adapters
      <3> QED BY <3>1, MessagesMade
    <2>3. Good([Rest EXCEPT !.cntl = "CNTL_WAIT_AUTH"])
      BY <2>1, CntlGood DEF CntlStates
    <2>4. Good(MlmeEnqueue([Rest EXCEPT !.cntl = "CNTL_WAIT_AUTH"],
                           To("AUTH_REQ", pAd.aux)))
      BY <2>2, <2>3, EnqueueGood
    <2>5. Good(IterateOnBssTab(NextBss(Rest))) BY <2>1, NextBssGood, IterateGood
    <2> QED BY <1>9, <2>4, <2>5, DoKeeps DEF CntlWaitJoinProc
  <1>10. CASE CntlWaitAuthProc
    <2>1. Good(Rest) BY <1>10, GetsGood DEF CntlWaitAuthProc
    <2>2. To("AUTH_REQ", pAd.aux) \in Messages
      <3>1. pAd.aux \in Address BY DEF StaInv, Good, Typed, Adapters
      <3> QED BY <3>1, MessagesMade
    <2>3. Good([Rest EXCEPT !.cntl = "CNTL_WAIT_AUTH2"])
      BY <2>1, CntlGood DEF CntlStates
    <2>4. Good(MlmeEnqueue([Rest EXCEPT !.cntl = "CNTL_WAIT_AUTH2"],
                           To("AUTH_REQ", pAd.aux)))
      BY <2>2, <2>3, EnqueueGood
    <2>5. Good(RequestAssoc(Rest)) BY <2>1, AssocGood
    <2> QED BY <1>10, <2>4, <2>5, DoKeeps DEF CntlWaitAuthProc
  <1>11. CASE CntlWaitAuthProc2
    <2>1. Good(Rest) BY <1>11, GetsGood DEF CntlWaitAuthProc2
    <2>2. Good(RequestAssoc(Rest)) BY <2>1, AssocGood
    <2>3. Good(IterateOnBssTab(NextBss(Rest))) BY <2>1, NextBssGood, IterateGood
    <2> QED BY <1>11, <2>2, <2>3, DoKeeps DEF CntlWaitAuthProc2
  <1>12. CASE CntlWaitAssocProc
    <2>1. Good(Rest) BY <1>12, GetsGood DEF CntlWaitAssocProc
    <2>2. Good([LinkUp(Rest) EXCEPT !.cntl = "CNTL_IDLE"])
      BY <2>1, LinkUpGood, CntlGood DEF CntlStates
    <2>3. Good(IterateOnBssTab(NextBss(Rest))) BY <2>1, NextBssGood, IterateGood
    <2> QED BY <1>12, <2>2, <2>3, DoKeeps DEF CntlWaitAssocProc
  <1> QED
    BY <1>1, <1>2, <1>3, <1>4, <1>5, <1>6, <1>7, <1>8, <1>9, <1>10, <1>11, <1>12

-----------------------------------------------------------------------------
(* The sync machine *)
LEMMA SyncKept ==
  ASSUME StaInv,
         \/ MlmeScanReqAction \/ ScanTimeoutAction \/ InvalidStateWhenScan
         \/ MlmeJoinReqAction \/ InvalidStateWhenJoin \/ BeaconTimeoutAtJoinAction
         \/ PeerBeaconAtScanAction \/ PeerBeaconAtJoinAction \/ PeerBeacon
  PROVE  StaInv'
  <1>1. CASE MlmeScanReqAction
    <2> DEFINE c == IF pAd.improved /\ pAd.sync = "SCAN_PENDING" THEN Rest.chan ELSE 1
               s == [Rest EXCEPT !.susp = TRUE, !.tm = Rest.tm \ {"Beacon", "Scan"},
                                 !.chan = c]
    <2>1. Good(Rest) /\ Rest \in Adapters /\ Rest.nr <= Len(Rest.tab)
          /\ Len(Rest.q) <= MAX_LEN_OF_MLME_QUEUE
      BY <1>1, GetsGood DEF MlmeScanReqAction, Good, Typed
    <2>2. c \in 0..NumChannels BY <2>1, Constants DEF Adapters
    <2>3. PICK memory \in BOOLEAN :
            Do([ScanNextChannel(s, memory) EXCEPT !.cntl = "CNTL_WAIT_OID_LIST_SCAN"])
      <3>1. Memory \subseteq BOOLEAN BY DEF Memory
      <3> QED BY <1>1, <3>1 DEF MlmeScanReqAction
    <2> HIDE DEF c
    <2>4. s \in Adapters /\ s.nr = Rest.nr /\ s.tab = Rest.tab /\ s.q = Rest.q
      BY <2>1, <2>2 DEF Adapters
    <2> HIDE DEF s
    <2>5. Typed(s) BY <2>1, <2>4 DEF Typed
    <2>6. Good(ScanNextChannel(s, memory)) BY <2>5, NextChannelGood
    <2>7. Good([ScanNextChannel(s, memory) EXCEPT !.cntl = "CNTL_WAIT_OID_LIST_SCAN"])
      BY <2>6, CntlGood DEF CntlStates
    <2> QED BY <2>3, <2>7, DoKeeps
  <1>2. CASE ScanTimeoutAction
    <2> DEFINE c == NextChannel(Rest.chan)
               s == [Rest EXCEPT !.chan = c]
    <2>1. Typed(Rest) /\ Rest \in Adapters
      BY <1>2, RestTyped DEF ScanTimeoutAction, StaInv, Gets, Typed
    <2>2. c \in 0..NumChannels BY <2>1, Constants DEF Adapters, NextChannel
    <2>3. PICK memory \in BOOLEAN : Do(ScanNextChannel(s, memory))
      <3>1. Memory \subseteq BOOLEAN BY DEF Memory
      <3> QED BY <1>2, <3>1 DEF ScanTimeoutAction
    <2> HIDE DEF c
    <2>4. s \in Adapters /\ s.nr = Rest.nr /\ s.tab = Rest.tab /\ s.q = Rest.q
      BY <2>1, <2>2 DEF Adapters
    <2> HIDE DEF s
    <2>5. Typed(s) BY <2>1, <2>4 DEF Typed
    <2>6. Good(ScanNextChannel(s, memory)) BY <2>5, NextChannelGood
    <2> QED BY <2>3, <2>6, DoKeeps
  <1>3. CASE InvalidStateWhenScan
    <2> DEFINE s == [Rest EXCEPT !.sync = "SYNC_IDLE"]
    <2>1. Good(Rest) /\ Rest \in Adapters /\ Rest.nr <= Len(Rest.tab)
          /\ Elem \in Messages /\ Elem.k = "SCAN_REQ" /\ Rest.sync = pAd.sync
      BY <1>3, GetsGood DEF InvalidStateWhenScan
    <2>2. /\ s \in Adapters /\ s.nr = Rest.nr /\ s.tab = Rest.tab /\ s.q = Rest.q
          /\ s.sync = "SYNC_IDLE" /\ s.tm = Rest.tm
      BY <2>1 DEF Adapters, SyncStates
    <2>3. Do(MlmeEnqueue(s, Conf("SCAN_CONF", FALSE)))
      BY <1>3 DEF InvalidStateWhenScan
    <2> HIDE DEF s
    <2>4. Good(s) BY <2>1, <2>2, StaysGood
    <2>5. Conf("SCAN_CONF", FALSE) \in Messages BY MessagesMade
    <2>6. Good(MlmeEnqueue(s, Conf("SCAN_CONF", FALSE)))
      BY <2>4, <2>5, EnqueueGood
    <2> QED BY <2>3, <2>6, DoKeeps
  <1>4. CASE MlmeJoinReqAction
    <2> DEFINE a == IF Elem.i < Len(pAd.tab) THEN pAd.tab[Elem.i + 1] ELSE None
               m == (Rest.tm \ {"Scan"}) \cup {"Beacon"}
               s == [Rest EXCEPT !.sync = "JOIN_WAIT_BEACON", !.tm = m, !.aux = a]
    <2>1. /\ Good(Rest) /\ Rest \in Adapters /\ Rest.nr <= Len(Rest.tab)
          /\ Elem.i \in Nat /\ Rest.tab = pAd.tab
      BY <1>4, GetsGood, MessageFields DEF MlmeJoinReqAction
    <2>2. a \in Address /\ m \subseteq Timers
      <3>1. pAd.tab \in Seq(Bss) /\ Rest.tm \subseteq Timers
        BY <2>1 DEF Adapters
      <3>2. CASE Elem.i < Len(pAd.tab)
        <4>1. Elem.i + 1 \in 1..Len(pAd.tab) BY <2>1, <3>1, <3>2
        <4>2. pAd.tab[Elem.i + 1] \in Bss BY <3>1, <4>1
        <4> QED BY <3>1, <3>2, <4>2 DEF Address, Timers
      <3>3. CASE ~(Elem.i < Len(pAd.tab)) BY <3>1, <3>3 DEF Address, Timers
      <3> QED BY <3>2, <3>3
    <2>3. Do(s) BY <1>4 DEF MlmeJoinReqAction
    <2> HIDE DEF a, m
    <2>4. /\ s \in Adapters /\ s.nr = Rest.nr /\ s.tab = Rest.tab /\ s.q = Rest.q
          /\ s.sync = "JOIN_WAIT_BEACON"
      BY <2>1, <2>2 DEF Adapters, SyncStates
    <2> HIDE DEF s
    <2>5. Good(s) BY <2>1, <2>4 DEF Good, Typed, Listens
    <2> QED BY <2>3, <2>5, DoKeeps
  <1>5. CASE InvalidStateWhenJoin
    <2> DEFINE s == [Rest EXCEPT !.sync = "SYNC_IDLE", !.susp = FALSE]
    <2>1. Good(Rest) /\ Rest \in Adapters /\ Rest.nr <= Len(Rest.tab)
          /\ Elem \in Messages /\ Elem.k = "JOIN_REQ" /\ Rest.sync = pAd.sync
      BY <1>5, GetsGood DEF InvalidStateWhenJoin
    <2>2. /\ s \in Adapters /\ s.nr = Rest.nr /\ s.tab = Rest.tab /\ s.q = Rest.q
          /\ s.sync = "SYNC_IDLE" /\ s.tm = Rest.tm
      BY <2>1 DEF Adapters, SyncStates
    <2>3. Do(MlmeEnqueue(s, Conf("JOIN_CONF", FALSE)))
      BY <1>5 DEF InvalidStateWhenJoin
    <2> HIDE DEF s
    <2>4. Good(s) BY <2>1, <2>2, StaysGood
    <2>5. Conf("JOIN_CONF", FALSE) \in Messages BY MessagesMade
    <2>6. Good(MlmeEnqueue(s, Conf("JOIN_CONF", FALSE)))
      BY <2>4, <2>5, EnqueueGood
    <2> QED BY <2>3, <2>6, DoKeeps
  <1>6. CASE BeaconTimeoutAtJoinAction
    <2> DEFINE s == [Rest EXCEPT !.sync = "SYNC_IDLE"]
    <2>1. Good(Rest) /\ Rest \in Adapters /\ Rest.nr <= Len(Rest.tab)
          /\ Elem \in Messages /\ Elem.k = "BEACON_TIMEOUT" /\ Rest.sync = pAd.sync
      BY <1>6, GetsGood DEF BeaconTimeoutAtJoinAction
    <2>2. /\ s \in Adapters /\ s.nr = Rest.nr /\ s.tab = Rest.tab /\ s.q = Rest.q
          /\ s.sync = "SYNC_IDLE" /\ s.tm = Rest.tm
      BY <2>1 DEF Adapters, SyncStates
    <2>3. Do(MlmeEnqueue(s, Conf("JOIN_CONF", FALSE)))
      BY <1>6 DEF BeaconTimeoutAtJoinAction
    <2> HIDE DEF s
    <2>4. Good(s) BY <2>1, <2>2, StaysGood
    <2>5. Conf("JOIN_CONF", FALSE) \in Messages BY MessagesMade
    <2>6. Good(MlmeEnqueue(s, Conf("JOIN_CONF", FALSE)))
      BY <2>4, <2>5, EnqueueGood
    <2> QED BY <2>3, <2>6, DoKeeps
  <1>7. CASE PeerBeaconAtScanAction
    <2>1. Good(Rest) /\ Elem.b \in Bss
      BY <1>7, GetsGood, MessageFields DEF PeerBeaconAtScanAction
    <2>2. Good([Rest EXCEPT !.scan = @ \cup {Elem.b}]) BY <2>1, HeardGood
    <2> QED BY <1>7, <2>2, DoKeeps DEF PeerBeaconAtScanAction
  <1>8. CASE PeerBeaconAtJoinAction
    <2> DEFINE m == Rest.tm \ {"Beacon"}
               h == Rest.scan \cup {Elem.b}
               s == [Rest EXCEPT !.tm = m, !.scan = h]
               u == [s EXCEPT !.sync = "SYNC_IDLE"]
    <2>1. /\ Good(Rest) /\ Rest \in Adapters /\ Rest.nr <= Len(Rest.tab)
          /\ Elem.b \in Bss
      BY <1>8, GetsGood, MessageFields DEF PeerBeaconAtJoinAction
    <2>2. m \subseteq Timers /\ h \subseteq Bss /\ ("Scan" \in Rest.tm => "Scan" \in m)
      BY <2>1 DEF Adapters
    <2>3. \/ Do(Rest) \/ Do(MlmeEnqueue(u, Conf("JOIN_CONF", TRUE)))
          \/ Do(RequestScan(s))
      BY <1>8 DEF PeerBeaconAtJoinAction
    <2> HIDE DEF m, h
    <2>4. /\ s \in Adapters /\ s.nr = Rest.nr /\ s.tab = Rest.tab /\ s.q = Rest.q
          /\ s.sync = Rest.sync /\ s.tm = m
      BY <2>1, <2>2 DEF Adapters
    <2> HIDE DEF s
    <2>5. Good(s) BY <2>1, <2>2, <2>4, StaysGood
    <2>6. /\ u \in Adapters /\ u.nr = s.nr /\ u.tab = s.tab /\ u.q = s.q
          /\ u.sync = "SYNC_IDLE" /\ u.tm = s.tm
      BY <2>4 DEF Adapters, SyncStates
    <2> HIDE DEF u
    <2>7. Good(u) BY <2>1, <2>4, <2>5, <2>6, StaysGood
    <2>8. Conf("JOIN_CONF", TRUE) \in Messages BY MessagesMade
    <2>9. Good(MlmeEnqueue(u, Conf("JOIN_CONF", TRUE)))
      BY <2>7, <2>8, EnqueueGood
    <2>10. Good(RequestScan(s)) BY <2>5, ScanGood
    <2> QED BY <2>1, <2>3, <2>9, <2>10, DoKeeps
  <1>9. CASE PeerBeacon
    <2> DEFINE r == [Rest EXCEPT !.scan = @ \cup {Elem.b}]
               s == BssTableSetEntry(r, Elem.b)
               d == LinkDown(s)
               down == [d EXCEPT !.scan = {}]
               none == <<>>
               empty == [down EXCEPT !.q = none]
    <2>1. Good(Rest) /\ Elem.b \in Bss /\ Rest.sync = "SYNC_IDLE" /\ Rest \in Adapters
      BY <1>9, GetsGood, MessageFields DEF PeerBeacon
    <2>2. Good(r) BY <2>1, HeardGood
    <2>3. r.sync = "SYNC_IDLE" BY <2>1 DEF Adapters
    <2>4. \/ Do(Rest) \/ Do(s) \/ Do(down) \/ Do(empty) BY <1>9 DEF PeerBeacon
    <2> HIDE DEF r
    <2>5. Good(s) /\ s.sync = "SYNC_IDLE" BY <2>1, <2>2, <2>3, SetEntryGood
    <2> HIDE DEF s
    <2>6. Good(d) /\ d.sync = "SYNC_IDLE" /\ d \in Adapters /\ d.nr <= Len(d.tab)
      BY <2>5, LinkDownGood DEF Good, Typed
    <2> HIDE DEF d
    <2>7. /\ down \in Adapters /\ down.nr = d.nr /\ down.tab = d.tab /\ down.q = d.q
          /\ down.sync = "SYNC_IDLE" /\ down.tm = d.tm
      BY <2>6 DEF Adapters
    <2> HIDE DEF down
    <2>8. Good(down) BY <2>6, <2>7, StaysGood
    <2>9. Good(empty)
      <3>1. none \in Seq(Messages) /\ Len(none) = 0 /\ 0 <= MAX_LEN_OF_MLME_QUEUE
        <4>1. none \in Seq(Messages) /\ Len(none) = 0 OBVIOUS
        <4>2. 0 <= MAX_LEN_OF_MLME_QUEUE BY Constants
        <4> QED BY <4>1, <4>2
      <3> HIDE DEF none
      <3>2. /\ empty \in Adapters /\ empty.nr = d.nr /\ empty.tab = d.tab
            /\ empty.q = none /\ empty.sync = "SYNC_IDLE"
        <4>1. empty = [down EXCEPT !.q = none] OBVIOUS
        <4> HIDE DEF empty
        <4>2. empty \in Adapters BY <2>7, <3>1, <4>1 DEF Adapters
        <4>3. /\ empty.nr = down.nr /\ empty.tab = down.tab
              /\ empty.q = none /\ empty.sync = down.sync
          BY <2>7, <4>1 DEF Adapters
        <4> QED BY <2>7, <4>2, <4>3
      <3> HIDE DEF empty
      <3> QED BY <2>6, <3>1, <3>2 DEF Good, Typed, Listens
    <2> QED BY <2>1, <2>4, <2>5, <2>8, <2>9, DoKeeps
  <1> QED BY <1>1, <1>2, <1>3, <1>4, <1>5, <1>6, <1>7, <1>8, <1>9

-----------------------------------------------------------------------------
(* The authentication and the association machine *)
LEMMA FramesMade ==
  \A k \in {"AUTH", "ASSOC", "LEAVE"}, b \in Address : To(k, b) \in Frames
  BY DEF To, Frames

LEMMA AuthFailsKept ==
  ASSUME StaInv, Good(Rest), AuthFails
  PROVE  StaInv'
  <1> DEFINE s == [Rest EXCEPT !.auth = "AUTH_REQ_IDLE"]
  <1>1. Rest \in Adapters /\ Rest.nr <= Len(Rest.tab) BY DEF Good, Typed
  <1>2. /\ s \in Adapters /\ s.nr = Rest.nr /\ s.tab = Rest.tab /\ s.q = Rest.q
        /\ s.sync = Rest.sync /\ s.tm = Rest.tm
    BY <1>1 DEF Adapters, AuthStates
  <1>3. Do(MlmeEnqueue(s, Conf("AUTH_CONF", FALSE))) BY DEF AuthFails
  <1> HIDE DEF s
  <1>4. Good(s) BY <1>1, <1>2, StaysGood
  <1>5. Conf("AUTH_CONF", FALSE) \in Messages BY MessagesMade
  <1>6. Good(MlmeEnqueue(s, Conf("AUTH_CONF", FALSE)))
    BY <1>4, <1>5, EnqueueGood
  <1> QED BY <1>3, <1>6, DoKeeps

LEMMA AuthKept ==
  ASSUME StaInv,
         \/ MlmeAuthReqAction \/ PeerAuthRspAtSeq2Action \/ AuthTimeoutAction
         \/ InvalidStateWhenAuth \/ PeerDeauthAction
  PROVE  StaInv'
  <1>1. CASE MlmeAuthReqAction
    <2> DEFINE fail(x) == MlmeEnqueue(x, Conf("AUTH_CONF", FALSE))
               a == Elem.b
               m == Rest.tm \ {"Auth"}
               n == m \cup {"Auth"}
               s == [Rest EXCEPT !.aux = a, !.tm = m]
               r == [Rest EXCEPT !.auth = "AUTH_WAIT_SEQ2"]
               w == [s EXCEPT !.auth = "AUTH_WAIT_SEQ2", !.tm = n]
    <2>1. /\ Good(Rest) /\ Rest \in Adapters /\ Rest.nr <= Len(Rest.tab)
          /\ a \in Address
      BY <1>1, GetsGood, MessageFields DEF MlmeAuthReqAction
    <2>2. /\ m \subseteq Timers /\ n \subseteq Timers
          /\ "Scan" \in Rest.tm => "Scan" \in m
          /\ "Scan" \in m => "Scan" \in n
      BY <2>1 DEF Adapters, Timers
    <2>3. s.tm = m BY <2>1 DEF Adapters
    <2>4. Do(fail(r)) \/ Do(fail(fail(s))) \/ Send(w, To("AUTH", a))
      <3>1. \/ Do(fail(r)) \/ Do(fail(fail(s)))
            \/ Send([s EXCEPT !.auth = "AUTH_WAIT_SEQ2", !.tm = s.tm \cup {"Auth"}],
                    To("AUTH", a))
        BY <1>1 DEF MlmeAuthReqAction
      <3> QED BY <2>3, <3>1
    <2> HIDE DEF a, m, n
    <2>5. /\ s \in Adapters /\ s.nr = Rest.nr /\ s.tab = Rest.tab /\ s.q = Rest.q
          /\ s.sync = Rest.sync /\ s.tm = m
      BY <2>1, <2>2 DEF Adapters
    <2>6. /\ r \in Adapters /\ r.nr = Rest.nr /\ r.tab = Rest.tab /\ r.q = Rest.q
          /\ r.sync = Rest.sync /\ r.tm = Rest.tm
      BY <2>1 DEF Adapters, AuthStates
    <2> HIDE DEF s, r
    <2>7. Good(s) /\ Good(r) BY <2>1, <2>2, <2>5, <2>6, StaysGood
    <2>8. /\ w \in Adapters /\ w.nr = s.nr /\ w.tab = s.tab /\ w.q = s.q
          /\ w.sync = s.sync /\ w.tm = n
      BY <2>2, <2>5 DEF Adapters, AuthStates
    <2> HIDE DEF w
    <2>9. Good(w) BY <2>1, <2>2, <2>5, <2>7, <2>8, StaysGood
    <2>10. Conf("AUTH_CONF", FALSE) \in Messages /\ To("AUTH", a) \in Frames
      BY <2>1, MessagesMade, FramesMade
    <2>11. Good(fail(r)) BY <2>7, <2>10, EnqueueGood
    <2>12. Good(fail(fail(s)))
      <3>1. Good(fail(s)) BY <2>7, <2>10, EnqueueGood
      <3> QED BY <2>10, <3>1, EnqueueGood
    <2> HIDE DEF fail
    <2> QED BY <2>4, <2>9, <2>10, <2>11, <2>12, DoKeeps, SendKeeps
  <1>2. CASE PeerAuthRspAtSeq2Action
    <2> DEFINE m == Rest.tm \ {"Auth"}
               s == [Rest EXCEPT !.auth = "AUTH_REQ_IDLE", !.tm = m]
    <2>1. /\ Good(Rest) /\ Rest \in Adapters /\ Rest.nr <= Len(Rest.tab)
          /\ Conf("AUTH_CONF", Elem.ok) \in Messages
      BY <1>2, GetsGood, MessageFields, MessagesMade DEF PeerAuthRspAtSeq2Action
    <2>2. /\ m \subseteq Timers
          /\ "Scan" \in Rest.tm => "Scan" \in m
      BY <2>1 DEF Adapters
    <2>3. Do(MlmeEnqueue(s, Conf("AUTH_CONF", Elem.ok))) \/ Do(Rest)
      BY <1>2 DEF PeerAuthRspAtSeq2Action
    <2> HIDE DEF m
    <2>4. /\ s \in Adapters /\ s.nr = Rest.nr /\ s.tab = Rest.tab /\ s.q = Rest.q
          /\ s.sync = Rest.sync /\ s.tm = m
      BY <2>1, <2>2 DEF Adapters, AuthStates
    <2> HIDE DEF s
    <2>5. Good(s) BY <2>1, <2>2, <2>4, StaysGood
    <2>6. Good(MlmeEnqueue(s, Conf("AUTH_CONF", Elem.ok)))
      BY <2>1, <2>5, EnqueueGood
    <2> QED BY <2>1, <2>3, <2>6, DoKeeps
  <1>3. CASE AuthTimeoutAction
    <2>1. Good(Rest) BY <1>3, GetsGood DEF AuthTimeoutAction
    <2> QED BY <1>3, <2>1, AuthFailsKept DEF AuthTimeoutAction
  <1>4. CASE InvalidStateWhenAuth
    <2>1. Good(Rest) BY <1>4, GetsGood DEF InvalidStateWhenAuth
    <2> QED BY <1>4, <2>1, AuthFailsKept DEF InvalidStateWhenAuth
  <1>5. CASE PeerDeauthAction
    <2>1. Good(Rest) BY <1>5, GetsGood DEF PeerDeauthAction
    <2>2. Good(LinkDown(Rest)) BY <2>1, LinkDownGood
    <2>3. Good(IterateOnBssTab(NextBss(LinkDown(Rest))))
      BY <2>2, NextBssGood, IterateGood
    <2> QED BY <1>5, <2>1, <2>2, <2>3, DoKeeps DEF PeerDeauthAction
  <1> QED BY <1>1, <1>2, <1>3, <1>4, <1>5

LEMMA AssocKept ==
  ASSUME StaInv,
         \/ MlmeAssocReqAction \/ PeerAssocRspAction \/ AssocTimeoutAction
         \/ InvalidStateWhenAssoc \/ MlmeDisassocReqAction \/ DisassocTimeoutAction
         \/ InvalidStateWhenDisassociate \/ PeerDisassocAction
  PROVE  StaInv'
  <1>1. CASE MlmeAssocReqAction
    <2> DEFINE a == Elem.b
               m == Rest.tm \ {"Assoc"}
               n == m \cup {"Assoc"}
               s == [Rest EXCEPT !.aux = a, !.tm = m]
               w == [s EXCEPT !.assoc = "ASSOC_WAIT_RSP", !.tm = n]
    <2>1. /\ Good(Rest) /\ Rest \in Adapters /\ Rest.nr <= Len(Rest.tab)
          /\ a \in Address
      BY <1>1, GetsGood, MessageFields DEF MlmeAssocReqAction
    <2>2. /\ m \subseteq Timers /\ n \subseteq Timers
          /\ "Scan" \in Rest.tm => "Scan" \in m
          /\ "Scan" \in m => "Scan" \in n
      BY <2>1 DEF Adapters, Timers
    <2>3. s.tm = m BY <2>1 DEF Adapters
    <2>4. \/ Do(AssocFails(Rest, "ASSOC_CONF")) \/ Do(AssocFails(s, "ASSOC_CONF"))
          \/ Send(w, To("ASSOC", a))
      <3>1. \/ Do(AssocFails(Rest, "ASSOC_CONF")) \/ Do(AssocFails(s, "ASSOC_CONF"))
            \/ Send([s EXCEPT !.assoc = "ASSOC_WAIT_RSP", !.tm = s.tm \cup {"Assoc"}],
                    To("ASSOC", a))
        BY <1>1 DEF MlmeAssocReqAction
      <3> QED BY <2>3, <3>1
    <2> HIDE DEF a, m, n
    <2>5. /\ s \in Adapters /\ s.nr = Rest.nr /\ s.tab = Rest.tab /\ s.q = Rest.q
          /\ s.sync = Rest.sync /\ s.tm = m
      BY <2>1, <2>2 DEF Adapters
    <2> HIDE DEF s
    <2>6. Good(s) BY <2>1, <2>2, <2>5, StaysGood
    <2>7. /\ w \in Adapters /\ w.nr = s.nr /\ w.tab = s.tab /\ w.q = s.q
          /\ w.sync = s.sync /\ w.tm = n
      BY <2>2, <2>5 DEF Adapters, AssocStates
    <2> HIDE DEF w
    <2>8. Good(w) BY <2>1, <2>2, <2>5, <2>6, <2>7, StaysGood
    <2>9. To("ASSOC", a) \in Frames BY <2>1, FramesMade
    <2>10. Good(AssocFails(Rest, "ASSOC_CONF")) /\ Good(AssocFails(s, "ASSOC_CONF"))
      BY <2>1, <2>6, AssocFailsGood
    <2> QED BY <2>4, <2>8, <2>9, <2>10, DoKeeps, SendKeeps
  <1>2. CASE PeerAssocRspAction
    <2> DEFINE m == Rest.tm \ {"Assoc"}
               s == [Rest EXCEPT !.assoc = "ASSOC_IDLE", !.tm = m]
    <2>1. /\ Good(Rest) /\ Rest \in Adapters /\ Rest.nr <= Len(Rest.tab)
          /\ Conf("ASSOC_CONF", Elem.ok) \in Messages
      BY <1>2, GetsGood, MessageFields, MessagesMade DEF PeerAssocRspAction
    <2>2. /\ m \subseteq Timers
          /\ "Scan" \in Rest.tm => "Scan" \in m
      BY <2>1 DEF Adapters
    <2>3. Do(MlmeEnqueue(s, Conf("ASSOC_CONF", Elem.ok))) \/ Do(Rest)
      BY <1>2 DEF PeerAssocRspAction
    <2> HIDE DEF m
    <2>4. /\ s \in Adapters /\ s.nr = Rest.nr /\ s.tab = Rest.tab /\ s.q = Rest.q
          /\ s.sync = Rest.sync /\ s.tm = m
      BY <2>1, <2>2 DEF Adapters, AssocStates
    <2> HIDE DEF s
    <2>5. Good(s) BY <2>1, <2>2, <2>4, StaysGood
    <2>6. Good(MlmeEnqueue(s, Conf("ASSOC_CONF", Elem.ok)))
      BY <2>1, <2>5, EnqueueGood
    <2> QED BY <2>1, <2>3, <2>6, DoKeeps
  <1>3. CASE AssocTimeoutAction
    <2>1. Good(Rest) BY <1>3, GetsGood DEF AssocTimeoutAction
    <2>2. Good(AssocFails(Rest, "ASSOC_CONF")) BY <2>1, AssocFailsGood
    <2> QED BY <1>3, <2>2, DoKeeps DEF AssocTimeoutAction
  <1>4. CASE InvalidStateWhenAssoc
    <2>1. Good(Rest) BY <1>4, GetsGood DEF InvalidStateWhenAssoc
    <2>2. Good(AssocFails(Rest, "ASSOC_CONF")) BY <2>1, AssocFailsGood
    <2> QED BY <1>4, <2>2, DoKeeps DEF InvalidStateWhenAssoc
  <1>5. CASE MlmeDisassocReqAction
    <2> DEFINE n == Rest.tm \cup {"Disassoc"}
               s == [Rest EXCEPT !.assoc = "DISASSOC_WAIT_RSP", !.tm = n]
    <2>1. /\ Good(Rest) /\ Rest \in Adapters /\ Rest.nr <= Len(Rest.tab)
          /\ Elem.b \in Address
      BY <1>5, GetsGood, MessageFields DEF MlmeDisassocReqAction
    <2>2. n \subseteq Timers /\ ("Scan" \in Rest.tm => "Scan" \in n)
      BY <2>1 DEF Adapters, Timers
    <2>3. Do(AssocFails(Rest, "DISASSOC_CONF")) \/ Send(s, To("LEAVE", Elem.b))
      BY <1>5 DEF MlmeDisassocReqAction
    <2> HIDE DEF n
    <2>4. /\ s \in Adapters /\ s.nr = Rest.nr /\ s.tab = Rest.tab /\ s.q = Rest.q
          /\ s.sync = Rest.sync /\ s.tm = n
      BY <2>1, <2>2 DEF Adapters, AssocStates
    <2> HIDE DEF s
    <2>5. Good(s) BY <2>1, <2>2, <2>4, StaysGood
    <2>6. Good(AssocFails(Rest, "DISASSOC_CONF")) BY <2>1, AssocFailsGood
    <2>7. To("LEAVE", Elem.b) \in Frames BY <2>1, FramesMade
    <2> QED BY <2>3, <2>5, <2>6, <2>7, DoKeeps, SendKeeps
  <1>6. CASE DisassocTimeoutAction
    <2> DEFINE s == [Rest EXCEPT !.assoc = "ASSOC_IDLE"]
    <2>1. Good(Rest) /\ Rest \in Adapters /\ Rest.nr <= Len(Rest.tab)
          /\ Elem \in Messages /\ Elem.k = "DISASSOC_TIMEOUT" /\ Rest.sync = pAd.sync
      BY <1>6, GetsGood DEF DisassocTimeoutAction
    <2>2. /\ s \in Adapters /\ s.nr = Rest.nr /\ s.tab = Rest.tab /\ s.q = Rest.q
          /\ s.sync = Rest.sync /\ s.tm = Rest.tm
      BY <2>1 DEF Adapters, AssocStates
    <2>3. Do(MlmeEnqueue(s, Conf("DISASSOC_CONF", TRUE)))
      BY <1>6 DEF DisassocTimeoutAction
    <2> HIDE DEF s
    <2>4. Good(s) BY <2>1, <2>2, StaysGood
    <2>5. Conf("DISASSOC_CONF", TRUE) \in Messages BY MessagesMade
    <2>6. Good(MlmeEnqueue(s, Conf("DISASSOC_CONF", TRUE)))
      BY <2>4, <2>5, EnqueueGood
    <2> QED BY <2>3, <2>6, DoKeeps
  <1>7. CASE InvalidStateWhenDisassociate
    <2>1. Good(Rest) BY <1>7, GetsGood DEF InvalidStateWhenDisassociate
    <2>2. Good(AssocFails(Rest, "DISASSOC_CONF")) BY <2>1, AssocFailsGood
    <2> QED BY <1>7, <2>2, DoKeeps DEF InvalidStateWhenDisassociate
  <1>8. CASE PeerDisassocAction
    <2> DEFINE s == [Rest EXCEPT !.assoc = "ASSOC_IDLE"]
    <2>1. Good(Rest) /\ Rest \in Adapters /\ Rest.nr <= Len(Rest.tab)
          /\ Elem \in Messages /\ Elem.k = "DISASSOC" /\ Rest.sync = pAd.sync
      BY <1>8, GetsGood DEF PeerDisassocAction
    <2>2. /\ s \in Adapters /\ s.nr = Rest.nr /\ s.tab = Rest.tab /\ s.q = Rest.q
          /\ s.sync = Rest.sync /\ s.tm = Rest.tm
      BY <2>1 DEF Adapters, AssocStates
    <2>3. \/ Do(MlmeEnqueue(s, Conf("DISASSOC_CONF", TRUE))) \/ Do(LinkDown(s))
          \/ Do(Rest)
      BY <1>8 DEF PeerDisassocAction
    <2> HIDE DEF s
    <2>4. Good(s) BY <2>1, <2>2, StaysGood
    <2>5. Conf("DISASSOC_CONF", TRUE) \in Messages BY MessagesMade
    <2>6. Good(MlmeEnqueue(s, Conf("DISASSOC_CONF", TRUE)))
      BY <2>4, <2>5, EnqueueGood
    <2>7. Good(LinkDown(s)) BY <2>4, LinkDownGood
    <2> QED BY <2>1, <2>3, <2>6, <2>7, DoKeeps
  <1> QED BY <1>1, <1>2, <1>3, <1>4, <1>5, <1>6, <1>7, <1>8

-----------------------------------------------------------------------------
(* What does not belong to one machine: dropped messages, the reset, timers, *)
(* the periodic work, users, access points.                                  *)
LEMMA MachinesKept ==
  ASSUME StaInv, StateMachineDrop \/ MlmeRestartStateMachine
  PROVE  StaInv'
  <1>1. CASE StateMachineDrop
    <2>1. pAd.q # <<>> /\ ~Taken(Elem) /\ Do(Rest) /\ Good(pAd)
      BY <1>1 DEF StateMachineDrop, StaInv
    <2>2. Elem.k # "SCAN_TIMEOUT" \/ pAd.sync # "SCAN_LISTEN" BY <2>1, ScanTaken
    <2>3. Good(Rest) BY <2>1, <2>2, RestTyped
    <2> QED BY <2>1, <2>3, DoKeeps
  <1>2. CASE MlmeRestartStateMachine
    <2> DEFINE m == Rest.tm \cap {"LinkDown"}
               s == [Rest EXCEPT !.cntl = "CNTL_IDLE", !.sync = "SYNC_IDLE",
                                 !.assoc = "ASSOC_IDLE", !.auth = "AUTH_REQ_IDLE",
                                 !.susp = FALSE, !.tm = m]
    <2>1. Good(Rest) /\ Rest \in Adapters
      BY <1>2, GetsGood DEF MlmeRestartStateMachine
    <2>2. m \subseteq Timers BY <2>1 DEF Adapters
    <2>3. Do(s) BY <1>2 DEF MlmeRestartStateMachine
    <2> HIDE DEF m
    <2>4. /\ s \in Adapters /\ s.nr = Rest.nr /\ s.tab = Rest.tab /\ s.q = Rest.q
          /\ s.sync = "SYNC_IDLE"
      BY ZenonT(60), <2>1, <2>2 DEF Adapters, CntlStates, SyncStates,
           AssocStates,
           AuthStates
    <2> HIDE DEF s
    <2>5. Good(s) BY <2>1, <2>4 DEF Good, Typed, Listens
    <2> QED BY <2>3, <2>5, DoKeeps
  <1> QED BY <1>1, <1>2

LEMMA TimerDoes ==
  ASSUME NEW t \in Timers, TimerFires(t)
  PROVE  LET s == [pAd EXCEPT !.tm = pAd.tm \ {t}] IN
         \/ /\ t = "Auth"
            /\ IF pAd.auth = "AUTH_WAIT_SEQ2"
               THEN Send(MlmeEnqueue(s, Msg("AUTH_TIMEOUT")), To("LEAVE", pAd.aux))
               ELSE Do(MlmeEnqueue(s, Msg("AUTH_TIMEOUT")))
         \/ t = "Scan" /\ ScanTimeout(s)
         \/ /\ t = "LinkDown"
            /\ Do(IF ~s.secured /\ s.infra THEN RequestDisassoc(s, "CNTL_WAIT_DISASSOC")
                  ELSE s)
         \/ t = "Beacon" /\ Do(MlmeEnqueue(s, Msg("BEACON_TIMEOUT")))
         \/ t = "Assoc" /\ Do(MlmeEnqueue(s, Msg("ASSOC_TIMEOUT")))
         \/ t = "Disassoc" /\ Do(MlmeEnqueue(s, Msg("DISASSOC_TIMEOUT")))
  BY Zenon DEF TimerFires, Timers

LEMMA TimerKept ==
  ASSUME StaInv, NEW t \in Timers, TimerFires(t)
  PROVE  StaInv'
  <1> DEFINE m == pAd.tm \ {t}
             s == [pAd EXCEPT !.tm = m]
  <1>1. /\ Good(pAd) /\ pAd \in Adapters /\ pAd.nr <= Len(pAd.tab)
        /\ Len(pAd.q) <= MAX_LEN_OF_MLME_QUEUE /\ m \subseteq Timers
    BY DEF StaInv, Good, Typed, Adapters
  <1>2. \/ /\ t = "Auth"
           /\ IF pAd.auth = "AUTH_WAIT_SEQ2"
              THEN Send(MlmeEnqueue(s, Msg("AUTH_TIMEOUT")), To("LEAVE", pAd.aux))
              ELSE Do(MlmeEnqueue(s, Msg("AUTH_TIMEOUT")))
        \/ t = "Scan" /\ ScanTimeout(s)
        \/ /\ t = "LinkDown"
           /\ Do(IF ~s.secured /\ s.infra THEN RequestDisassoc(s, "CNTL_WAIT_DISASSOC")
                 ELSE s)
        \/ t = "Beacon" /\ Do(MlmeEnqueue(s, Msg("BEACON_TIMEOUT")))
        \/ t = "Assoc" /\ Do(MlmeEnqueue(s, Msg("ASSOC_TIMEOUT")))
        \/ t = "Disassoc" /\ Do(MlmeEnqueue(s, Msg("DISASSOC_TIMEOUT")))
    BY Zenon, TimerDoes
  <1>3. t # "Scan" => ("Scan" \in pAd.tm => "Scan" \in m) OBVIOUS
  <1> HIDE DEF m
  <1>4. /\ s \in Adapters /\ s.nr = pAd.nr /\ s.tab = pAd.tab /\ s.q = pAd.q
        /\ s.sync = pAd.sync /\ s.tm = m
    BY <1>1 DEF Adapters
  <1> HIDE DEF s
  <1>5. Typed(s) BY <1>1, <1>4 DEF Typed
  <1>6. \A k \in Plain : Msg(k) \in Messages BY MessagesMade
  <1>7. CASE t = "Scan"
    <2>1. ScanTimeout(s) BY <1>2, <1>7
    <2>2. CASE Len(s.q) < MAX_LEN_OF_MLME_QUEUE /\ Do(MlmeEnqueue(s, Msg("SCAN_TIMEOUT")))
      <3> DEFINE q == Append(s.q, Msg("SCAN_TIMEOUT"))
                 e == [s EXCEPT !.q = q]
      <3>1. Msg("SCAN_TIMEOUT") \in Messages /\ Msg("SCAN_TIMEOUT").k = "SCAN_TIMEOUT"
        BY <1>6 DEF Plain, Msg
      <3>2. s.q \in Seq(Messages) /\ Len(s.q) \in Nat BY <1>4 DEF Adapters
      <3>3. q \in Seq(Messages) /\ Len(q) = Len(s.q) + 1 /\ Queued(q, "SCAN_TIMEOUT")
        BY <3>1, <3>2, QueueGrows
      <3>4. MlmeEnqueue(s, Msg("SCAN_TIMEOUT")) = e BY <2>2 DEF MlmeEnqueue
      <3> HIDE DEF q
      <3>5. e \in Adapters /\ e.nr = s.nr /\ e.tab = s.tab /\ e.q = q
        BY <1>4, <3>3 DEF Adapters
      <3> HIDE DEF e
      <3>6. Len(e.q) <= MAX_LEN_OF_MLME_QUEUE
        BY <2>2, <3>2, <3>3, <3>5, Constants
      <3>7. Good(e) BY <1>5, <3>3, <3>5, <3>6 DEF Good, Typed, Listens
      <3> QED BY <2>2, <3>4, <3>7, DoKeeps
    <2>3. CASE Do(ScanNextChannel([s EXCEPT !.chan = 0], TRUE))
      <3> DEFINE e == [s EXCEPT !.chan = 0]
      <3>1. 0 \in 0..NumChannels BY Constants
      <3>2. e \in Adapters /\ e.nr = s.nr /\ e.tab = s.tab /\ e.q = s.q
        BY <1>4, <3>1 DEF Adapters
      <3>3. Do(ScanNextChannel(e, TRUE)) BY <2>3
      <3> HIDE DEF e
      <3>4. Typed(e) BY <1>5, <3>2 DEF Typed
      <3>5. Good(ScanNextChannel(e, TRUE)) BY <3>4, NextChannelGood
      <3> QED BY <3>3, <3>5, DoKeeps
    <2> QED BY <2>1, <2>2, <2>3 DEF ScanTimeout
  <1>8. CASE t # "Scan"
    <2>1. Good(s) BY <1>1, <1>3, <1>4, <1>8, StaysGood
    <2>2. \A k \in Plain : Good(MlmeEnqueue(s, Msg(k)))
      BY <1>6, <2>1, EnqueueGood
    <2>3. /\ Good(MlmeEnqueue(s, Msg("AUTH_TIMEOUT")))
          /\ Good(MlmeEnqueue(s, Msg("BEACON_TIMEOUT")))
          /\ Good(MlmeEnqueue(s, Msg("ASSOC_TIMEOUT")))
          /\ Good(MlmeEnqueue(s, Msg("DISASSOC_TIMEOUT")))
      BY <2>2 DEF Plain
    <2>4. Good(RequestDisassoc(s, "CNTL_WAIT_DISASSOC"))
      BY <2>1, DisassocGood DEF CntlStates
    <2>5. To("LEAVE", pAd.aux) \in Frames
      <3>1. pAd.aux \in Address BY <1>1 DEF Adapters
      <3> QED BY <3>1, FramesMade
    <2> QED BY <1>2, <1>8, <2>1, <2>3, <2>4, <2>5, DoKeeps, SendKeeps
  <1> QED BY <1>7, <1>8

LEMMA PeriodicDoes ==
  ASSUME NEW quality \in {"good", "dead", "bad", "weak"}, PeriodicInfra(quality)
  PROVE  LET s == IF pAd.improved /\ pAd.sync = "SCAN_PENDING"
                  THEN MlmeEnqueue(pAd, Msg("SCAN_REQ")) ELSE pAd
             n == [s EXCEPT !.ndis = FALSE]
         IN  \/ Do(s) \/ Do(AutoReconnect(LinkDown(n))) \/ Do(AutoReconnect(s))
             \/ Do(MlmeEnqueue(s, Msg("OID_LIST_SCAN")))
             \/ \E S \in SUBSET (pAd.scan \ {pAd.cur}) \ {{}} :
                  Do(MlmeEnqueue(s, RoamingReq(S)))
  <1>1. CASE quality = "good" BY <1>1, Zenon DEF PeriodicInfra
  <1>2. CASE quality = "dead" BY <1>2, Zenon DEF PeriodicInfra
  <1>3. CASE quality = "bad" BY <1>3, Zenon DEF PeriodicInfra
  <1>4. CASE quality = "weak" BY <1>4, Zenon DEF PeriodicInfra
  <1> QED BY <1>1, <1>2, <1>3, <1>4

LEMMA PeriodicKept ==
  ASSUME StaInv,
         \/ \E quality \in {"good", "dead", "bad", "weak"} : PeriodicInfra(quality)
         \/ PeriodicReconnect
  PROVE  StaInv'
  <1>1. Good(pAd) BY DEF StaInv
  <1>2. CASE \E quality \in {"good", "dead", "bad", "weak"} : PeriodicInfra(quality)
    <2> DEFINE s == IF pAd.improved /\ pAd.sync = "SCAN_PENDING"
                    THEN MlmeEnqueue(pAd, Msg("SCAN_REQ")) ELSE pAd
               n == [s EXCEPT !.ndis = FALSE]
    <2>1. \A k \in Plain : Msg(k) \in Messages BY MessagesMade
    <2>2. Good(s)
      <3>1. Good(MlmeEnqueue(pAd, Msg("SCAN_REQ")))
        BY <1>1, <2>1, EnqueueGood DEF Plain
      <3> QED BY <1>1, <3>1
    <2>3. \/ Do(s) \/ Do(AutoReconnect(LinkDown(n))) \/ Do(AutoReconnect(s))
          \/ Do(MlmeEnqueue(s, Msg("OID_LIST_SCAN")))
          \/ \E S \in SUBSET (pAd.scan \ {pAd.cur}) \ {{}} :
               Do(MlmeEnqueue(s, RoamingReq(S)))
      BY <1>2, Zenon, PeriodicDoes
    <2>4. pAd.scan \subseteq Bss BY <1>1 DEF Good, Typed, Adapters
    <2> HIDE DEF s
    <2>5. /\ n \in Adapters /\ n.nr = s.nr /\ n.tab = s.tab /\ n.q = s.q
          /\ n.sync = s.sync /\ n.tm = s.tm
      BY <2>2 DEF Good, Typed, Adapters
    <2>6. s.nr <= Len(s.tab) BY <2>2 DEF Good, Typed
    <2> HIDE DEF n
    <2>7. Good(n) BY <2>2, <2>5, <2>6, StaysGood
    <2>8. Good(LinkDown(n)) BY <2>7, LinkDownGood
    <2>9. Good(AutoReconnect(LinkDown(n))) /\ Good(AutoReconnect(s))
      BY <2>2, <2>8, ResetGood
    <2>10. Good(MlmeEnqueue(s, Msg("OID_LIST_SCAN")))
      BY <2>1, <2>2, EnqueueGood DEF Plain
    <2>11. ASSUME NEW S \in SUBSET (pAd.scan \ {pAd.cur}) \ {{}}
           PROVE  Good(MlmeEnqueue(s, RoamingReq(S)))
      <3>1. RoamingReq(S) \in Messages BY <2>4, MessagesMade
      <3> QED BY <2>2, <3>1, EnqueueGood
    <2> QED BY <2>2, <2>3, <2>9, <2>10, <2>11, DoKeeps
  <1>3. CASE PeriodicReconnect
    <2>1. Good(RequestScan(pAd)) /\ Good(AutoReconnect(pAd))
      BY <1>1, ScanGood, ResetGood
    <2> QED BY <1>3, <2>1, DoKeeps DEF PeriodicReconnect
  <1> QED BY <1>2, <1>3

LEMMA BeginsDoes ==
  ASSUME NEW r, UserBegins(r)
  PROVE  LET a == [pAd EXCEPT !.auto = FALSE]
             c == [pAd EXCEPT !.improved = TRUE, !.cnt = 0]
             d == [pAd EXCEPT !.ndis = TRUE]
         IN  pAd' \in {Reset(a), Reset(c), Reset(d), Reset(pAd)}
  <1> DEFINE a == [pAd EXCEPT !.auto = FALSE]
             c == [pAd EXCEPT !.improved = TRUE, !.cnt = 0]
             d == [pAd EXCEPT !.ndis = TRUE]
  <1>1. pAd' = Reset(CASE r = "ssid" -> a
                       [] r = "survey" /\ pAd.infra -> c
                       [] r = "disassociate" -> d
                       [] OTHER -> pAd)
    BY DEF UserBegins
  <1> HIDE DEF a, c, d
  <1>2. (CASE r = "ssid" -> a
           [] r = "survey" /\ pAd.infra -> c
           [] r = "disassociate" -> d
           [] OTHER -> pAd) \in {a, c, d, pAd}
    OBVIOUS
  <1>3. pAd' \in {Reset(a), Reset(c), Reset(d), Reset(pAd)} BY <1>1, <1>2
  <1> QED BY <1>3 DEF a, c, d

LEMMA BeginsKept ==
  ASSUME StaInv, NEW r, UserBegins(r)
  PROVE  StaInv'
  <1> DEFINE a == [pAd EXCEPT !.auto = FALSE]
             c == [pAd EXCEPT !.improved = TRUE, !.cnt = 0]
             d == [pAd EXCEPT !.ndis = TRUE]
  <1>1. Good(pAd) /\ pAd \in Adapters /\ pAd.nr <= Len(pAd.tab)
    BY DEF StaInv, Good, Typed
  <1>2. net' = net /\ net \in Networks BY DEF UserBegins, StaInv
  <1>3. pAd' \in {Reset(a), Reset(c), Reset(d), Reset(pAd)}
    BY BeginsDoes
  <1>4. /\ a \in Adapters /\ a.nr = pAd.nr /\ a.tab = pAd.tab /\ a.q = pAd.q
        /\ a.sync = pAd.sync /\ a.tm = pAd.tm
    BY <1>1 DEF Adapters
  <1>5. 0 \in 0..Burst BY Constants
  <1>6. /\ c \in Adapters /\ c.nr = pAd.nr /\ c.tab = pAd.tab /\ c.q = pAd.q
        /\ c.sync = pAd.sync /\ c.tm = pAd.tm
    BY <1>1, <1>5 DEF Adapters
  <1>7. /\ d \in Adapters /\ d.nr = pAd.nr /\ d.tab = pAd.tab /\ d.q = pAd.q
        /\ d.sync = pAd.sync /\ d.tm = pAd.tm
    BY <1>1 DEF Adapters
  <1> HIDE DEF a, c, d
  <1>8. Good(a) /\ Good(c) /\ Good(d) BY <1>1, <1>4, <1>6, <1>7, StaysGood
  <1>9. Good(Reset(a)) /\ Good(Reset(c)) /\ Good(Reset(d)) /\ Good(Reset(pAd))
    BY <1>1, <1>8, ResetGood
  <1>10. PICK v : v = pAd' /\ Good(v) BY <1>3, <1>9
  <1> QED BY <1>2, <1>10 DEF StaInv, Good, Typed, Listens

LEMMA EndsKept ==
  ASSUME StaInv, UserEnds
  PROVE  StaInv'
  <1> DEFINE a == [pAd EXCEPT !.auto = TRUE, !.ndis = TRUE, !.changed = TRUE]
             o == [pAd EXCEPT !.auto = FALSE, !.ndis = FALSE]
             s == CASE req = "ssid" -> MlmeEnqueue(a, Msg("OID_SSID"))
                    [] req = "survey" -> MlmeEnqueue(pAd, Msg("OID_LIST_SCAN"))
                    [] req = "disassociate" -> MlmeEnqueue(pAd, Msg("OID_DISASSOCIATE"))
                    [] OTHER -> o
             t == IF req = "down" /\ s.infra THEN LinkDown(s) ELSE s
  <1>1. Good(pAd) /\ pAd \in Adapters /\ pAd.nr <= Len(pAd.tab)
    BY DEF StaInv, Good, Typed
  <1>2. /\ IF req = "bssid" THEN \E b \in Bss : pAd' = MlmeEnqueue(s, To("OID_BSSID", b))
           ELSE pAd' = t
        /\ net' = Seen(t)
    BY DEF UserEnds
  <1>3. net' \in Networks BY <1>2, SeenTyped
  <1>4. /\ a \in Adapters /\ a.nr = pAd.nr /\ a.tab = pAd.tab /\ a.q = pAd.q
        /\ a.sync = pAd.sync /\ a.tm = pAd.tm
    BY <1>1 DEF Adapters
  <1>5. /\ o \in Adapters /\ o.nr = pAd.nr /\ o.tab = pAd.tab /\ o.q = pAd.q
        /\ o.sync = pAd.sync /\ o.tm = pAd.tm
    BY <1>1 DEF Adapters
  <1> HIDE DEF a, o
  <1>6. Good(a) /\ Good(o) BY <1>1, <1>4, <1>5, StaysGood
  <1>7. /\ Msg("OID_SSID") \in Messages /\ Msg("OID_LIST_SCAN") \in Messages
        /\ Msg("OID_DISASSOCIATE") \in Messages
    BY MessagesMade DEF Plain
  <1>8. /\ Good(MlmeEnqueue(a, Msg("OID_SSID")))
        /\ Good(MlmeEnqueue(pAd, Msg("OID_LIST_SCAN")))
        /\ Good(MlmeEnqueue(pAd, Msg("OID_DISASSOCIATE")))
    BY <1>1, <1>6, <1>7, EnqueueGood
  <1>9. Good(s) BY <1>6, <1>8
  <1> HIDE DEF s
  <1>10. Good(t) BY <1>9, LinkDownGood
  <1>11. ASSUME NEW b \in Bss
         PROVE  Good(MlmeEnqueue(s, To("OID_BSSID", b)))
    <2>1. To("OID_BSSID", b) \in Messages BY MessagesMade
    <2> QED BY <1>9, <2>1, EnqueueGood
  <1> HIDE DEF t
  <1>12. PICK v : v = pAd' /\ Good(v) BY <1>2, <1>10, <1>11
  <1> QED BY <1>3, <1>12 DEF StaInv, Good, Typed, Listens

LEMMA RecvGood ==
  ASSUME StaInv, NEW m \in Messages, MlmeEnqueueForRecv(m)
  PROVE  Good(pAd)'
  <1>1. Good(MlmeEnqueue(pAd, m)) /\ Good(pAd) BY EnqueueGood DEF StaInv
  <1>2. PICK v : v = pAd' /\ Good(v) BY <1>1 DEF MlmeEnqueueForRecv
  <1> QED BY <1>2 DEF Good, Typed, Listens

LEMMA PeersKept ==
  ASSUME StaInv,
         \/ \E b \in Bss : PeerBeacons(b) \/ PeerLeaves(b)
         \/ PeerAnswers
         \/ WpaCompletes
  PROVE  StaInv'
  <1>1. net \in Networks /\ Good(pAd) BY DEF StaInv
  <1>2. ASSUME NEW b \in Bss, PeerBeacons(b) \/ PeerLeaves(b)
        PROVE  StaInv'
    <2>1. \A k \in {"BEACON", "DEAUTH", "DISASSOC"} : To(k, b) \in Messages
      BY MessagesMade
    <2>2. net' = net /\ \E k \in {"BEACON", "DEAUTH", "DISASSOC"} :
            MlmeEnqueueForRecv(To(k, b))
      BY <1>2 DEF PeerBeacons, PeerLeaves
    <2>3. Good(pAd)' BY <2>1, <2>2, RecvGood
    <2> QED BY <1>1, <2>2, <2>3 DEF StaInv
  <1>3. CASE PeerAnswers
    <2> DEFINE f == Head(net.air)
               rest == Tail(net.air)
               n == [net EXCEPT !.air = rest]
    <2>1. f \in Frames /\ rest \in Seq(Frames)
      <3>1. net.air \in Seq(Frames) /\ net.air # <<>>
        BY <1>1, <1>3 DEF Networks, PeerAnswers
      <3> QED BY <3>1, HeadTailProperties
    <2>2. \/ net' = n /\ pAd' = pAd
          \/ /\ f.b \in Bss
             /\ net' \in {n, [n EXCEPT !.granted = n.granted \cup {f.b}]}
             /\ \/ pAd' = pAd
                \/ \E k \in {"AUTH_RSP", "ASSOC_RSP"}, ok \in BOOLEAN :
                     MlmeEnqueueForRecv([k |-> k, b |-> f.b, ok |-> ok])
      BY <1>3 DEF PeerAnswers
    <2> HIDE DEF f, rest
    <2>3. n \in Networks BY <1>1, <2>1 DEF Networks
    <2> HIDE DEF n
    <2>4. f.b \in Bss => [n EXCEPT !.granted = n.granted \cup {f.b}] \in Networks
      BY <2>3 DEF Networks
    <2>5. f.b \in Bss => \A k \in {"AUTH_RSP", "ASSOC_RSP"}, ok \in BOOLEAN :
            [k |-> k, b |-> f.b, ok |-> ok] \in Messages
      BY MessagesMade
    <2>6. net' \in Networks BY <2>2, <2>3, <2>4
    <2>7. CASE pAd' = pAd BY <1>1, <2>6, <2>7 DEF StaInv, Good, Typed, Listens
    <2>8. CASE f.b \in Bss /\ \E k \in {"AUTH_RSP", "ASSOC_RSP"}, ok \in BOOLEAN :
                 MlmeEnqueueForRecv([k |-> k, b |-> f.b, ok |-> ok])
      <3>1. Good(pAd)' BY <2>5, <2>8, RecvGood
      <3> QED BY <2>6, <3>1 DEF StaInv
    <2> QED BY <2>2, <2>7, <2>8
  <1>4. CASE WpaCompletes
    <2> DEFINE s == [pAd EXCEPT !.secured = TRUE]
    <2>1. pAd' = s /\ net' = net BY <1>4 DEF WpaCompletes
    <2>2. pAd \in Adapters /\ pAd.nr <= Len(pAd.tab) BY <1>1 DEF Good, Typed
    <2>3. /\ s \in Adapters /\ s.nr = pAd.nr /\ s.tab = pAd.tab /\ s.q = pAd.q
        /\ s.sync = pAd.sync /\ s.tm = pAd.tm
      BY <2>2 DEF Adapters
    <2> HIDE DEF s
    <2>4. Good(s) BY <1>1, <2>2, <2>3, StaysGood
    <2> QED BY <1>1, <2>1, <2>4 DEF StaInv, Good, Typed, Listens
  <1> QED BY <1>2, <1>3, <1>4

-----------------------------------------------------------------------------
LEMMA InitGood ==
  ASSUME Init
  PROVE  StaInv
  <1>1. /\ <<>> \in Seq(Messages) /\ <<>> \in Seq(Bss) /\ <<>> \in Seq(Frames)
        /\ Len(<<>>) = 0
    OBVIOUS
  <1>2. /\ 0 \in 0..Cardinality(Bss) /\ 0 \in 0..NumChannels /\ 0 \in 0..Burst
        /\ 0 <= MAX_LEN_OF_MLME_QUEUE
    BY Constants
  <1>3. net \in Networks BY <1>1 DEF Init, Networks
  <1>4. pAd \in Adapters
    BY <1>1, <1>2 DEF Init, Adapters, CntlStates, SyncStates, AssocStates,
         AuthStates,
                      Timers, Address
  <1>5. pAd.nr = 0 /\ pAd.tab = <<>> /\ pAd.q = <<>> /\ pAd.sync = "SYNC_IDLE"
    BY DEF Init
  <1> QED BY <1>1, <1>2, <1>3, <1>4, <1>5 DEF StaInv, Good, Typed, Listens

LEMMA NextKeeps ==
  ASSUME StaInv, [Next]_vars
  PROVE  StaInv'
  <1>1. CASE MlmeHandler
    BY <1>1, MachinesKept, ControlKept, SyncKept, AuthKept, AssocKept DEF
         MlmeHandler
  <1>2. CASE \E t \in Timers : TimerFires(t) BY <1>2, TimerKept
  <1>3. CASE \/ \E quality \in {"good", "dead", "bad", "weak"} : PeriodicInfra(quality)
             \/ PeriodicReconnect
    BY <1>3, PeriodicKept
  <1>4. CASE \E r \in Requests : UserBegins(r) BY <1>4, BeginsKept
  <1>5. CASE UserEnds BY <1>5, EndsKept
  <1>6. CASE \/ \E b \in Bss : PeerBeacons(b) \/ PeerLeaves(b)
             \/ PeerAnswers
             \/ WpaCompletes
    BY <1>6, PeersKept
  <1>7. CASE UNCHANGED vars
    BY <1>7 DEF vars, StaInv, Good, Typed, Listens
  <1> QED BY <1>1, <1>2, <1>3, <1>4, <1>5, <1>6, <1>7 DEF Next

LEMMA Inductive == SafeSpec => []StaInv
  <1>1. Init => StaInv BY InitGood
  <1>2. StaInv /\ [Next]_vars => StaInv' BY NextKeeps
  <1> QED BY <1>1, <1>2, PTL DEF SafeSpec

(* The states of all machines, the queue within its length whatever is put   *)
(* into it, the indices within their tables: for every number of BSSs and    *)
(* channels, every length of the queue and all kinds of trouble.             *)
THEOREM TypeCorrect == SafeSpec => []TypeOK
  <1>1. StaInv => TypeOK
    <2> SUFFICES ASSUME StaInv PROVE TypeOK OBVIOUS
    <2>1. /\ pAd \in Adapters /\ pAd.nr <= Len(pAd.tab)
          /\ Len(pAd.q) <= MAX_LEN_OF_MLME_QUEUE
      BY DEF StaInv, Good, Typed
    <2>2. pAd.q \in Seq(Messages) /\ pAd.tab \in Seq(Bss) /\ pAd.nr \in Nat
      BY <2>1 DEF Adapters
    <2>3. \A i \in DOMAIN pAd.q : pAd.q[i].k \in DOMAIN Table
      <3>1. \A i \in DOMAIN pAd.q : pAd.q[i] \in Messages BY <2>2
      <3> QED BY <3>1, MessageFields DEF Kinds
    <2>4. ToSet(pAd.tab) \subseteq Bss BY <2>2 DEF ToSet
    <2>5. pAd.nr \in 0..Len(pAd.tab) BY <2>1, <2>2
    <2>6. net.granted \subseteq Bss BY DEF StaInv, Networks
    <2>7. /\ pAd.cntl \in CntlStates /\ pAd.sync \in SyncStates
          /\ pAd.assoc \in AssocStates /\ pAd.auth \in AuthStates
          /\ pAd.tm \subseteq Timers
          /\ pAd.aux \in Bss \cup {None} /\ pAd.cur \in Bss \cup {None}
          /\ pAd.idx \in 0..Cardinality(Bss)
          /\ pAd.scan \subseteq Bss
          /\ pAd.chan \in 0..NumChannels /\ pAd.cnt \in 0..Burst
      BY <2>1 DEF Adapters, Address
    <2> QED BY <2>1, <2>3, <2>4, <2>5, <2>6, <2>7 DEF TypeOK
  <1> QED BY <1>1, Inductive, PTL

(* The promise of sync.c:159, that the station never listens for ever: a     *)
(* scan that listens has its timer or the timer's message, though the queue  *)
(* may lose any message, a frame may find no memory, and joins, resets and   *)
(* other scans cancel timers.                                                *)
THEOREM ScanSafe == SafeSpec => []ScanGoesOn
  <1>1. StaInv => ScanGoesOn
    BY DEF StaInv, Good, Listens, ScanGoesOn, Timed, Queued
  <1> QED BY <1>1, Inductive, PTL

-----------------------------------------------------------------------------
(* A machine that waits is timed, while the queue never overflows.  Messages *)
(* and timers together are few: a handler takes a message and adds one       *)
(* message or one timer at most, an expired timer adds one message, and      *)
(* only what comes from outside, while few messages wait, adds to them.      *)
Runs(tm, t) == IF t \in tm THEN 1 ELSE 0
Running(tm) == Runs(tm, "Beacon") + Runs(tm, "Scan") + Runs(tm, "Auth")
               + Runs(tm, "Assoc") + Runs(tm, "Disassoc") + Runs(tm, "LinkDown")
Load(s) == Len(s.q) + Running(s.tm)

(* An association request follows every disassociation request. *)
Overtaken(q) ==
  \A i \in DOMAIN q : q[i].k = "DISASSOC_REQ" =>
    \E j \in DOMAIN q : j > i /\ q[j].k = "ASSOC_REQ"

(* LinkUp cancels the timer of leaving, and only a control machine that      *)
(* waits for its association comes to it: then it has sent a request that    *)
(* overtakes the leaving.                                                    *)
WaitsTimed(s) ==
  /\ s.sync = "JOIN_WAIT_BEACON" =>
       "Beacon" \in s.tm \/ Queued(s.q, "BEACON_TIMEOUT")
  /\ s.auth = "AUTH_WAIT_SEQ2" => "Auth" \in s.tm \/ Queued(s.q, "AUTH_TIMEOUT")
  /\ s.assoc = "ASSOC_WAIT_RSP" =>
       "Assoc" \in s.tm \/ Queued(s.q, "ASSOC_TIMEOUT")
  /\ s.assoc = "DISASSOC_WAIT_RSP" =>
       \/ "Disassoc" \in s.tm \/ Queued(s.q, "DISASSOC_TIMEOUT")
       \/ Queued(s.q, "ASSOC_REQ")
  /\ s.cntl = "CNTL_WAIT_ASSOC" =>
       /\ Overtaken(s.q)
       /\ s.assoc = "DISASSOC_WAIT_RSP" => Queued(s.q, "ASSOC_REQ")

Fits(s, n) == Typed(s) /\ WaitsTimed(s) /\ Load(s) <= n

LEMMA RunningIs ==
  ASSUME NEW a, NEW b
  PROVE  /\ Running(a) \in 0..6
         /\ a \subseteq b => Running(a) <= Running(b)
         /\ \A t : a \subseteq b \cup {t} => Running(a) <= Running(b) + 1
         /\ \A t \in Timers : t \in b /\ a = b \ {t} => Running(a) = Running(b) - 1
  <1>1. Running(a) \in 0..6 BY DEF Running, Runs
  <1>2. ASSUME a \subseteq b PROVE Running(a) <= Running(b)
    <2>1. \A t : Runs(a, t) <= Runs(b, t) /\ Runs(a, t) \in Nat /\ Runs(b, t) \in Nat
      BY <1>2 DEF Runs
    <2> QED BY <2>1 DEF Running
  <1>3. ASSUME NEW t, a \subseteq b \cup {t} PROVE Running(a) <= Running(b) + 1
    <2>1. \A u : /\ Runs(a, u) \in {0, 1} /\ Runs(b, u) \in {0, 1}
                 /\ u # t => Runs(a, u) <= Runs(b, u)
      BY <1>3 DEF Runs
    <2> QED BY <2>1 DEF Running
  <1>4. ASSUME NEW t \in Timers, t \in b, a = b \ {t}
        PROVE  Running(a) = Running(b) - 1
    <2>1. \A u : /\ Runs(a, u) \in {0, 1} /\ Runs(b, u) \in {0, 1}
                 /\ Runs(a, u) = IF u = t THEN Runs(b, u) - 1 ELSE Runs(b, u)
      BY <1>4 DEF Runs
    <2> QED BY <2>1 DEF Running, Timers
  <1> QED BY <1>1, <1>2, <1>3, <1>4

LEMMA TypedIs ==
  ASSUME NEW s, Typed(s)
  PROVE  /\ s \in Adapters /\ s.q \in Seq(Messages) /\ Len(s.q) \in Nat
         /\ s.tm \subseteq Timers /\ Load(s) \in Nat /\ Len(s.q) <= Load(s)
         /\ s.nr <= Len(s.tab) /\ Len(s.q) <= MAX_LEN_OF_MLME_QUEUE
         /\ Load(s) <= Len(s.q) + 6
  <1>1. s \in Adapters BY DEF Typed
  <1>2. s.q \in Seq(Messages) /\ s.tm \subseteq Timers BY <1>1 DEF Adapters
  <1>3. Len(s.q) \in Nat BY <1>2
  <1>4. Running(s.tm) \in 0..6 BY RunningIs
  <1>5. Load(s) \in Nat /\ Len(s.q) <= Load(s) /\ Load(s) <= Len(s.q) + 6
    BY <1>3, <1>4 DEF Load
  <1> QED BY <1>1, <1>2, <1>3, <1>5 DEF Typed

(* The order of requests in a queue that grows or shrinks *)
LEMMA OvertakenGrows ==
  ASSUME NEW q \in Seq(Messages), NEW m \in Messages,
         \/ m.k = "ASSOC_REQ"
         \/ Overtaken(q) /\ m.k # "DISASSOC_REQ"
  PROVE  Overtaken(Append(q, m))
  <1> DEFINE p == Append(q, m)
             n == Len(q)
  <1>1. /\ p \in Seq(Messages) /\ Len(p) = n + 1 /\ p[n + 1] = m /\ n \in Nat
        /\ \A i \in 1..n : p[i] = q[i]
    BY AppendProperties
  <1>2. DOMAIN q = 1..n /\ DOMAIN p = 1..n + 1 BY <1>1
  <1> HIDE DEF p, n
  <1> SUFFICES ASSUME NEW i \in 1..n + 1, p[i].k = "DISASSOC_REQ"
               PROVE  \E j \in 1..n + 1 : j > i /\ p[j].k = "ASSOC_REQ"
    BY <1>2 DEF Overtaken, p
  <1>3. CASE m.k = "ASSOC_REQ"
    <2>1. i # n + 1 BY <1>1, <1>3
    <2>2. n + 1 > i /\ n + 1 \in 1..n + 1 BY <1>1, <2>1
    <2> QED BY <1>1, <1>3, <2>2
  <1>4. CASE Overtaken(q) /\ m.k # "DISASSOC_REQ"
    <2>1. i # n + 1 BY <1>1, <1>4
    <2>2. i \in 1..n BY <1>1, <2>1
    <2>3. PICK j \in 1..n : j > i /\ q[j].k = "ASSOC_REQ"
      BY <1>1, <1>2, <1>4, <2>2 DEF Overtaken
    <2>4. j \in 1..n + 1 BY <1>1
    <2> QED BY <1>1, <2>3, <2>4
  <1> QED BY <1>3, <1>4

LEMMA QueueShrinks ==
  ASSUME NEW q \in Seq(Messages), q # <<>>
  PROVE  /\ Len(Tail(q)) = Len(q) - 1 /\ Len(q) \in Nat \ {0}
         /\ \A k : Queued(q, k) /\ Head(q).k # k => Queued(Tail(q), k)
         /\ Overtaken(q) => Overtaken(Tail(q))
         /\ Overtaken(q) /\ Head(q).k = "DISASSOC_REQ" => Queued(Tail(q), "ASSOC_REQ")
  <1> DEFINE p == Tail(q)
             n == Len(q)
  <1>1. /\ n \in Nat \ {0} /\ p \in Seq(Messages) /\ Len(p) = n - 1
        /\ Head(q) = q[1] /\ \A i \in 1..n - 1 : p[i] = q[i + 1]
    BY HeadTailProperties
  <1>2. DOMAIN q = 1..n /\ DOMAIN p = 1..n - 1 BY <1>1
  <1> HIDE DEF p, n
  <1>3. ASSUME NEW j \in 1..n, j # 1
        PROVE  j - 1 \in 1..n - 1 /\ p[j - 1] = q[j]
    <2>1. j - 1 \in 1..n - 1 /\ (j - 1) + 1 = j BY <1>1, <1>3
    <2> QED BY <1>1, <2>1
  <1>4. ASSUME NEW k, Queued(q, k), Head(q).k # k PROVE Queued(p, k)
    <2>1. PICK i \in 1..n : q[i].k = k BY <1>2, <1>4 DEF Queued
    <2>2. i # 1 BY <1>1, <1>4, <2>1
    <2>3. i - 1 \in 1..n - 1 /\ p[i - 1].k = k BY <1>3, <2>1, <2>2
    <2> QED BY <1>2, <2>3 DEF Queued
  <1>5. ASSUME Overtaken(q) PROVE Overtaken(p)
    <2> SUFFICES ASSUME NEW i \in 1..n - 1, p[i].k = "DISASSOC_REQ"
                 PROVE  \E j \in 1..n - 1 : j > i /\ p[j].k = "ASSOC_REQ"
      BY <1>2 DEF Overtaken
    <2>1. i + 1 \in 1..n /\ q[i + 1].k = "DISASSOC_REQ" BY <1>1
    <2>2. PICK j \in 1..n : j > i + 1 /\ q[j].k = "ASSOC_REQ"
      BY <1>2, <1>5, <2>1 DEF Overtaken
    <2>3. j # 1 /\ j - 1 > i BY <1>1, <2>2
    <2>4. j - 1 \in 1..n - 1 /\ p[j - 1].k = "ASSOC_REQ" BY <1>3, <2>2, <2>3
    <2> QED BY <2>3, <2>4
  <1>6. ASSUME Overtaken(q), Head(q).k = "DISASSOC_REQ"
        PROVE  Queued(p, "ASSOC_REQ")
    <2>1. 1 \in 1..n /\ q[1].k = "DISASSOC_REQ" BY <1>1, <1>6
    <2>2. PICK j \in 1..n : j > 1 /\ q[j].k = "ASSOC_REQ"
      BY <1>2, <1>6, <2>1 DEF Overtaken
    <2>3. j - 1 \in 1..n - 1 /\ p[j - 1].k = "ASSOC_REQ" BY <1>3, <2>2
    <2> QED BY <1>2, <2>3 DEF Queued
  <1> QED BY <1>1, <1>4, <1>5, <1>6 DEF p, n

-----------------------------------------------------------------------------
(* The operators the handlers are built from: a message or a timer more at   *)
(* most, and whoever waits stays timed                                       *)
Same(s, t) ==
  /\ t.cntl = s.cntl /\ t.sync = s.sync /\ t.assoc = s.assoc /\ t.auth = s.auth
  /\ t.q = s.q /\ t.tm = s.tm

LEMMA SameFits ==
  ASSUME NEW s, NEW t, NEW n, Fits(s, n), Typed(t), Same(s, t)
  PROVE  Fits(t, n)
  BY DEF Fits, Same, WaitsTimed, Load

LEMMA FitsMore ==
  ASSUME NEW s, NEW m \in Int, NEW n \in Int, Fits(s, m), m <= n
  PROVE  Fits(s, n)
  <1>1. Load(s) \in Nat /\ Load(s) <= m BY TypedIs DEF Fits
  <1>2. Load(s) <= n BY <1>1
  <1> QED BY <1>2 DEF Fits

LEMMA EnqueueIs ==
  ASSUME NEW s, Typed(s), Len(s.q) < MAX_LEN_OF_MLME_QUEUE, NEW m \in Messages
  PROVE  LET t == MlmeEnqueue(s, m) IN
         /\ Typed(t) /\ t.q = Append(s.q, m) /\ Load(t) = Load(s) + 1
         /\ t.cntl = s.cntl /\ t.sync = s.sync /\ t.assoc = s.assoc
         /\ t.auth = s.auth /\ t.tm = s.tm
         /\ t.infra = s.infra /\ t.secured = s.secured
         /\ Queued(t.q, m.k) /\ \A k : Queued(s.q, k) => Queued(t.q, k)
         /\ m.k = "ASSOC_REQ" => Overtaken(t.q)
         /\ Overtaken(s.q) /\ m.k # "DISASSOC_REQ" => Overtaken(t.q)
  <1> DEFINE q == Append(s.q, m)
             t == [s EXCEPT !.q = q]
  <1>1. /\ s \in Adapters /\ s.q \in Seq(Messages) /\ Len(s.q) \in Nat
        /\ s.nr <= Len(s.tab)
    BY TypedIs
  <1>2. MlmeEnqueue(s, m) = t BY DEF MlmeEnqueue
  <1>3. /\ q \in Seq(Messages) /\ Len(q) = Len(s.q) + 1 /\ Queued(q, m.k)
        /\ \A k : Queued(s.q, k) => Queued(q, k)
    BY <1>1, QueueGrows
  <1>4. /\ m.k = "ASSOC_REQ" => Overtaken(q)
        /\ Overtaken(s.q) /\ m.k # "DISASSOC_REQ" => Overtaken(q)
    BY <1>1, OvertakenGrows
  <1> HIDE DEF q
  <1>5. /\ t \in Adapters /\ t.q = q /\ t.nr = s.nr /\ t.tab = s.tab
        /\ t.cntl = s.cntl /\ t.sync = s.sync /\ t.assoc = s.assoc
        /\ t.auth = s.auth /\ t.tm = s.tm
        /\ t.infra = s.infra /\ t.secured = s.secured
    BY <1>1, <1>3 DEF Adapters
  <1> HIDE DEF t
  <1>6. Len(t.q) <= MAX_LEN_OF_MLME_QUEUE BY <1>1, <1>3, <1>5, Constants
  <1>7. Typed(t) BY <1>1, <1>5, <1>6 DEF Typed
  <1>8. Load(t) = Load(s) + 1
    <2>1. Running(s.tm) \in 0..6 BY RunningIs
    <2> QED BY <1>1, <1>3, <1>5, <2>1 DEF Load
  <1> QED BY <1>2, <1>3, <1>4, <1>5, <1>7, <1>8 DEF q

LEMMA RoomLeft ==
  ASSUME NEW s, NEW n \in Int, Fits(s, n), n < MAX_LEN_OF_MLME_QUEUE
  PROVE  Typed(s) /\ Len(s.q) < MAX_LEN_OF_MLME_QUEUE /\ WaitsTimed(s)
  <1>1. Len(s.q) \in Nat /\ Load(s) \in Nat /\ Len(s.q) <= Load(s) /\ Load(s) <= n
    BY TypedIs DEF Fits
  <1> QED BY <1>1, Constants DEF Fits

LEMMA EnqueueFits ==
  ASSUME NEW s, NEW n \in Int, Fits(s, n), n < MAX_LEN_OF_MLME_QUEUE,
         NEW m \in Messages,
         m.k = "DISASSOC_REQ" => s.cntl # "CNTL_WAIT_ASSOC"
  PROVE  Fits(MlmeEnqueue(s, m), n + 1)
  <1> DEFINE t == MlmeEnqueue(s, m)
  <1>1. Typed(s) /\ Len(s.q) < MAX_LEN_OF_MLME_QUEUE /\ WaitsTimed(s)
    BY RoomLeft
  <1>2. /\ Typed(t) /\ Load(t) = Load(s) + 1
        /\ t.cntl = s.cntl /\ t.sync = s.sync /\ t.assoc = s.assoc
        /\ t.auth = s.auth /\ t.tm = s.tm
        /\ \A k : Queued(s.q, k) => Queued(t.q, k)
        /\ Overtaken(s.q) /\ m.k # "DISASSOC_REQ" => Overtaken(t.q)
    BY <1>1, EnqueueIs
  <1> HIDE DEF t
  <1>3. WaitsTimed(t) BY <1>1, <1>2 DEF WaitsTimed
  <1>4. Load(t) <= n + 1
    <2>1. Load(s) \in Nat /\ Load(s) <= n BY <1>1, TypedIs DEF Fits
    <2> QED BY <1>2, <2>1
  <1> QED BY <1>2, <1>3, <1>4 DEF Fits, t

LEMMA CntlFits ==
  ASSUME NEW s, NEW n, Fits(s, n), NEW c \in CntlStates, c # "CNTL_WAIT_ASSOC"
  PROVE  Fits([s EXCEPT !.cntl = c], n) /\ [s EXCEPT !.cntl = c].cntl = c
  <1> DEFINE t == [s EXCEPT !.cntl = c]
  <1>1. /\ s \in Adapters /\ s.nr <= Len(s.tab) /\ Len(s.q) <= MAX_LEN_OF_MLME_QUEUE
        /\ WaitsTimed(s) /\ Load(s) <= n
    BY DEF Fits, Typed
  <1>2. /\ t \in Adapters /\ t.nr = s.nr /\ t.tab = s.tab /\ t.q = s.q
        /\ t.cntl = c /\ t.sync = s.sync /\ t.assoc = s.assoc
        /\ t.auth = s.auth /\ t.tm = s.tm
    BY <1>1 DEF Adapters
  <1> HIDE DEF t
  <1>3. Typed(t) BY <1>1, <1>2 DEF Typed
  <1>4. WaitsTimed(t) BY <1>1, <1>2 DEF WaitsTimed
  <1>5. Load(t) <= n BY <1>1, <1>2 DEF Load
  <1> QED BY <1>2, <1>3, <1>4, <1>5 DEF Fits, t

LEMMA DisassocFits ==
  ASSUME NEW s, NEW n \in Int, Fits(s, n), n < MAX_LEN_OF_MLME_QUEUE,
         NEW c \in CntlStates, c # "CNTL_WAIT_ASSOC"
  PROVE  Fits(RequestDisassoc(s, c), n + 1)
  <1>1. s.cur \in Address BY DEF Fits, Typed, Adapters
  <1>2. To("DISASSOC_REQ", s.cur) \in Messages BY <1>1, MessagesMade
  <1>3. Fits([s EXCEPT !.cntl = c], n) /\ [s EXCEPT !.cntl = c].cntl = c
    BY CntlFits
  <1> QED BY <1>2, <1>3, EnqueueFits DEF RequestDisassoc

LEMMA ScanFits ==
  ASSUME NEW s, NEW n \in Int, Fits(s, n), n < MAX_LEN_OF_MLME_QUEUE
  PROVE  Fits(RequestScan(s), n + 1)
  <1>1. Msg("SCAN_REQ") \in Messages /\ Msg("SCAN_REQ").k # "DISASSOC_REQ"
    BY MessagesMade DEF Plain, Msg
  <1>2. Fits([s EXCEPT !.cntl = "CNTL_WAIT_OID_LIST_SCAN"], n)
    BY CntlFits DEF CntlStates
  <1> QED BY <1>1, <1>2, EnqueueFits DEF RequestScan

(* The request goes behind all others. *)
LEMMA AssocFits ==
  ASSUME NEW s, NEW n \in Int, Fits(s, n), n < MAX_LEN_OF_MLME_QUEUE
  PROVE  Fits(RequestAssoc(s), n + 1)
  <1> DEFINE m == To("ASSOC_REQ", s.aux)
             e == [s EXCEPT !.cntl = "CNTL_WAIT_ASSOC"]
             t == MlmeEnqueue(e, m)
  <1>1. Typed(s) /\ Len(s.q) < MAX_LEN_OF_MLME_QUEUE /\ WaitsTimed(s)
    BY RoomLeft
  <1>2. /\ s \in Adapters /\ s.nr <= Len(s.tab) /\ s.aux \in Address
        /\ Load(s) \in Nat /\ Load(s) <= n
    BY <1>1, TypedIs DEF Adapters, Fits
  <1>3. m \in Messages BY <1>2, MessagesMade
  <1>4. m.k = "ASSOC_REQ" BY DEF To
  <1> HIDE DEF m
  <1>5. /\ e \in Adapters /\ e.nr = s.nr /\ e.tab = s.tab /\ e.q = s.q
        /\ e.cntl = "CNTL_WAIT_ASSOC" /\ e.sync = s.sync /\ e.assoc = s.assoc
        /\ e.auth = s.auth /\ e.tm = s.tm
    BY <1>2 DEF Adapters, CntlStates
  <1> HIDE DEF e
  <1>6. Typed(e) /\ Load(e) = Load(s) BY <1>1, <1>2, <1>5 DEF Typed, Load
  <1>7. /\ Typed(t) /\ Load(t) = Load(e) + 1
        /\ t.cntl = e.cntl /\ t.sync = e.sync /\ t.assoc = e.assoc
        /\ t.auth = e.auth /\ t.tm = e.tm
        /\ Queued(t.q, "ASSOC_REQ") /\ \A k : Queued(e.q, k) => Queued(t.q, k)
        /\ Overtaken(t.q)
    BY <1>1, <1>3, <1>4, <1>5, <1>6, EnqueueIs
  <1>8. RequestAssoc(s) = t BY DEF RequestAssoc, e, m
  <1> HIDE DEF t
  <1>9. WaitsTimed(t) BY <1>1, <1>5, <1>7 DEF WaitsTimed
  <1>10. Load(t) <= n + 1 BY <1>2, <1>6, <1>7
  <1> QED BY <1>7, <1>8, <1>9, <1>10 DEF Fits

LEMMA LinkDownFits ==
  ASSUME NEW s, NEW n, Good(s), Fits(s, n)
  PROVE  Good(LinkDown(s)) /\ Fits(LinkDown(s), n)
  <1>1. s \in Adapters BY DEF Good, Typed
  <1>2. Same(s, LinkDown(s)) BY ZenonT(60), <1>1 DEF LinkDown, Adapters, Same
  <1>3. Good(LinkDown(s)) BY LinkDownGood
  <1>4. Fits(LinkDown(s), n) BY <1>2, <1>3, SameFits DEF Good
  <1> QED BY <1>3, <1>4

LEMMA NextBssFits ==
  ASSUME NEW s, NEW n, Good(s), Fits(s, n)
  PROVE  Good(NextBss(s)) /\ Fits(NextBss(s), n)
  <1>1. s \in Adapters BY DEF Good, Typed
  <1>2. Same(s, NextBss(s)) BY <1>1 DEF NextBss, Adapters, Same
  <1>3. Good(NextBss(s)) BY NextBssGood
  <1> QED BY <1>2, <1>3, SameFits DEF Good

LEMMA IterateFits ==
  ASSUME NEW s, NEW n \in Int, Good(s), Fits(s, n), n < MAX_LEN_OF_MLME_QUEUE
  PROVE  Fits(IterateOnBssTab(s), n + 1)
  <1>1. s \in Adapters /\ s.idx \in Nat BY Constants DEF Good, Typed, Adapters
  <1>2. CASE s.idx < s.nr
    <2>1. Fits([s EXCEPT !.cntl = "CNTL_WAIT_JOIN"], n)
      BY CntlFits DEF CntlStates
    <2>2. JoinReq(s.idx) \in Messages /\ JoinReq(s.idx).k # "DISASSOC_REQ"
      BY <1>1, MessagesMade DEF JoinReq
    <2>3. Fits(MlmeEnqueue([s EXCEPT !.cntl = "CNTL_WAIT_JOIN"], JoinReq(s.idx)),
               n + 1)
      BY <2>1, <2>2, EnqueueFits
    <2> QED BY <1>2, <2>3 DEF IterateOnBssTab
  <1>3. CASE ~(s.idx < s.nr)
    <2> DEFINE e == [s EXCEPT !.cntl = "CNTL_IDLE"]
               t == IterateOnBssTab(s)
    <2>1. Fits(e, n) BY CntlFits DEF CntlStates
    <2>2. Fits(e, n + 1)
      <3>1. n + 1 \in Int /\ n <= n + 1 OBVIOUS
      <3> QED BY <2>1, <3>1, FitsMore
    <2>3. Same(e, t) BY <1>1, <1>3 DEF IterateOnBssTab, Adapters, Same
    <2> HIDE DEF e
    <2>4. Typed(t) BY IterateGood DEF Good
    <2> HIDE DEF t
    <2>5. Fits(t, n + 1) BY <2>2, <2>3, <2>4, SameFits
    <2> QED BY <2>5 DEF t
  <1> QED BY <1>2, <1>3

LEMMA NextFits ==
  ASSUME NEW s, NEW n \in Int, Good(s), Fits(s, n), n < MAX_LEN_OF_MLME_QUEUE
  PROVE  Fits(IterateOnBssTab(NextBss(s)), n + 1)
  BY NextBssFits, IterateFits

LEMMA HeardFits ==
  ASSUME NEW s, NEW n, Good(s), Fits(s, n), NEW b \in Bss
  PROVE  LET t == [s EXCEPT !.scan = @ \cup {b}] IN
         /\ Good(t) /\ Fits(t, n)
         /\ Good(BssTableSetEntry(t, b)) /\ Fits(BssTableSetEntry(t, b), n)
  <1> DEFINE t == [s EXCEPT !.scan = @ \cup {b}]
             u == BssTableSetEntry(t, b)
  <1>1. s \in Adapters BY DEF Good, Typed
  <1>2. Same(s, t) BY <1>1 DEF Adapters, Same
  <1>3. Good(t) BY HeardGood
  <1> HIDE DEF t
  <1>4. Fits(t, n) BY <1>2, <1>3, SameFits DEF Good
  <1>5. t \in Adapters BY <1>3 DEF Good, Typed
  <1>6. Same(t, u) BY <1>5 DEF BssTableSetEntry, Adapters, Same
  <1>7. Good(u) BY <1>3, SetEntryGood
  <1> HIDE DEF u
  <1>8. Fits(u, n) BY <1>4, <1>6, <1>7, SameFits DEF Good
  <1> QED BY <1>3, <1>4, <1>7, <1>8 DEF t, u

LEMMA PlainFits ==
  ASSUME NEW s, NEW n \in Int, Fits(s, n), n < MAX_LEN_OF_MLME_QUEUE, NEW k \in Plain
  PROVE  Fits(MlmeEnqueue(s, Msg(k)), n + 1)
  <1>1. Msg(k) \in Messages /\ Msg(k).k # "DISASSOC_REQ"
    BY MessagesMade DEF Plain, Msg
  <1> QED BY <1>1, EnqueueFits

LEMMA ConfFits ==
  ASSUME NEW s, NEW n \in Int, Fits(s, n), n < MAX_LEN_OF_MLME_QUEUE,
         NEW k \in {"SCAN_CONF", "JOIN_CONF", "AUTH_CONF", "ASSOC_CONF", "DISASSOC_CONF"},
         NEW ok \in BOOLEAN
  PROVE  Fits(MlmeEnqueue(s, Conf(k, ok)), n + 1)
  <1>1. Conf(k, ok) \in Messages /\ Conf(k, ok).k # "DISASSOC_REQ"
    BY MessagesMade DEF Conf
  <1> QED BY <1>1, EnqueueFits

LEMMA ResetFits ==
  ASSUME NEW s, NEW n \in Int, Fits(s, n), n < MAX_LEN_OF_MLME_QUEUE
  PROVE  Fits(Reset(s), n + 1) /\ Fits(AutoReconnect(s), n + 1)
  <1>1. n + 1 \in Int /\ n <= n + 1 OBVIOUS
  <1>2. Fits(s, n + 1) BY <1>1, FitsMore
  <1>3. /\ Fits(MlmeEnqueue(s, Msg("RESET_CONF")), n + 1)
        /\ Fits(MlmeEnqueue(s, Msg("OID_SSID")), n + 1)
    BY PlainFits DEF Plain
  <1> QED BY <1>2, <1>3 DEF Reset, AutoReconnect

-----------------------------------------------------------------------------
(* A handler takes its message, and changes states and timers: t.  A machine *)
(* that waits afterwards waited before, and neither its timer was cancelled  *)
(* nor the timer's message taken, or its timer is set.                       *)
Stays(w, t, x, k) ==
  \/ x \in t.tm
  \/ w /\ Elem.k # k /\ (x \in pAd.tm => x \in t.tm)

(* Sums of messages and timers after a message is taken or a timer started. *)
LEMMA LoadMoves ==
  ASSUME NEW l \in Int, NEW a \in Int, NEW b \in Int, NEW n \in Int, l + b <= n
  PROVE  /\ a <= b => l - 1 + a <= n - 1
         /\ a <= b + 1 => l - 1 + a <= n /\ l + a <= n + 1
  OBVIOUS

LEMMA Handled ==
  ASSUME NEW n \in Int, Fits(pAd, n), pAd.q # <<>>, Elem.k \in Kinds,
         NEW t, Typed(t), t.q = Tail(pAd.q), NEW x, t.tm \subseteq pAd.tm \cup {x},
         t.sync = "JOIN_WAIT_BEACON" =>
           Stays(pAd.sync = "JOIN_WAIT_BEACON", t, "Beacon", "BEACON_TIMEOUT"),
         t.auth = "AUTH_WAIT_SEQ2" =>
           Stays(pAd.auth = "AUTH_WAIT_SEQ2", t, "Auth", "AUTH_TIMEOUT"),
         t.assoc = "ASSOC_WAIT_RSP" =>
           Stays(pAd.assoc = "ASSOC_WAIT_RSP", t, "Assoc", "ASSOC_TIMEOUT"),
         t.assoc = "DISASSOC_WAIT_RSP" =>
           \/ /\ Stays(pAd.assoc = "DISASSOC_WAIT_RSP", t, "Disassoc", "DISASSOC_TIMEOUT")
              /\ Elem.k # "ASSOC_REQ"
           \/ Queued(t.q, "ASSOC_REQ"),
         t.cntl = "CNTL_WAIT_ASSOC" =>
           /\ pAd.cntl = "CNTL_WAIT_ASSOC"
           /\ t.assoc = "DISASSOC_WAIT_RSP" =>
                \/ pAd.assoc = "DISASSOC_WAIT_RSP" /\ Elem.k # "ASSOC_REQ"
                \/ Elem.k = "DISASSOC_REQ"
  PROVE  Fits(t, n) /\ (t.tm \subseteq pAd.tm => Fits(t, n - 1))
  <1>1. Typed(pAd) /\ WaitsTimed(pAd) /\ Load(pAd) <= n /\ Load(pAd) \in Nat
    BY TypedIs DEF Fits
  <1>2. pAd.q \in Seq(Messages) BY <1>1, TypedIs
  <1>3. /\ Len(t.q) = Len(pAd.q) - 1 /\ Len(pAd.q) \in Nat
        /\ \A k : Queued(pAd.q, k) /\ Elem.k # k => Queued(t.q, k)
        /\ Overtaken(pAd.q) => Overtaken(t.q)
        /\ Overtaken(pAd.q) /\ Elem.k = "DISASSOC_REQ" => Queued(t.q, "ASSOC_REQ")
    BY <1>2, QueueShrinks DEF Elem
  <1>4. WaitsTimed(t)
    <2>1. t.sync = "JOIN_WAIT_BEACON" => "Beacon" \in t.tm \/ Queued(t.q, "BEACON_TIMEOUT")
      BY <1>1, <1>3 DEF WaitsTimed, Stays
    <2>2. t.auth = "AUTH_WAIT_SEQ2" => "Auth" \in t.tm \/ Queued(t.q, "AUTH_TIMEOUT")
      BY <1>1, <1>3 DEF WaitsTimed, Stays
    <2>3. t.assoc = "ASSOC_WAIT_RSP" => "Assoc" \in t.tm \/ Queued(t.q, "ASSOC_TIMEOUT")
      BY <1>1, <1>3 DEF WaitsTimed, Stays
    <2>4. t.assoc = "DISASSOC_WAIT_RSP" =>
            \/ "Disassoc" \in t.tm \/ Queued(t.q, "DISASSOC_TIMEOUT")
            \/ Queued(t.q, "ASSOC_REQ")
      BY <1>1, <1>3 DEF WaitsTimed, Stays
    <2>5. t.cntl = "CNTL_WAIT_ASSOC" =>
            /\ Overtaken(t.q)
            /\ t.assoc = "DISASSOC_WAIT_RSP" => Queued(t.q, "ASSOC_REQ")
      BY <1>1, <1>3 DEF WaitsTimed
    <2> QED BY <2>1, <2>2, <2>3, <2>4, <2>5 DEF WaitsTimed
  <1>5. Running(t.tm) <= Running(pAd.tm) + 1 BY RunningIs
  <1>6. t.tm \subseteq pAd.tm => Running(t.tm) <= Running(pAd.tm) BY RunningIs
  <1>7. Running(t.tm) \in 0..6 /\ Running(pAd.tm) \in 0..6 BY RunningIs
  <1>8. /\ Load(t) = Len(pAd.q) - 1 + Running(t.tm)
        /\ Load(pAd) = Len(pAd.q) + Running(pAd.tm)
    BY <1>3 DEF Load
  <1>9. Len(pAd.q) + Running(pAd.tm) <= n BY <1>1, <1>8
  <1>10. Running(t.tm) \in Int /\ Running(pAd.tm) \in Int /\ Len(pAd.q) \in Int
    BY <1>3, <1>7
  <1>11. Load(t) <= n
    <2>1. Len(pAd.q) - 1 + Running(t.tm) <= n BY <1>5, <1>9, <1>10, LoadMoves
    <2> QED BY <1>8, <2>1
  <1>12. ASSUME t.tm \subseteq pAd.tm PROVE Load(t) <= n - 1
    <2>1. Running(t.tm) <= Running(pAd.tm) BY <1>6, <1>12
    <2>2. Len(pAd.q) - 1 + Running(t.tm) <= n - 1 BY <1>9, <1>10, <2>1, LoadMoves
    <2> QED BY <1>8, <2>2
  <1> QED BY <1>4, <1>11, <1>12 DEF Fits

-----------------------------------------------------------------------------
(* The invariant: a user who has reset the machines has a message still to   *)
(* come.                                                                     *)
Calm == Trouble = {} /\ MaxQ + 8 <= MAX_LEN_OF_MLME_QUEUE

Bound == MaxQ + 8 - (IF req = "none" THEN 0 ELSE 1)

WaitInv == StaInv /\ Fits(pAd, Bound)

LEMMA BoundIs ==
  ASSUME Calm
  PROVE  /\ Bound \in Int /\ Bound - 1 \in Int /\ Bound <= MaxQ + 8
         /\ (Bound - 1) + 1 = Bound /\ Bound - 1 <= Bound
         /\ Bound - 1 < MAX_LEN_OF_MLME_QUEUE /\ MaxQ \in Nat
         /\ req = "none" => Bound = MaxQ + 8
         /\ req # "none" => Bound = MaxQ + 7
  BY Constants, StaAssumption DEF Calm, Bound, StaAssumption

LEMMA CalmMemory ==
  ASSUME Calm
  PROVE  Memory = {TRUE} /\ Blocked = {FALSE}
  BY DEF Calm, Memory, Blocked

LEMMA Lands ==
  ASSUME Calm, NEW s, Fits(s, Bound) \/ Fits(s, Bound - 1), pAd' = s, req' = req
  PROVE  Fits(pAd, Bound)'
  <1>1. Fits(s, Bound) BY BoundIs, FitsMore
  <1>2. Bound' = Bound BY DEF Bound
  <1> QED BY <1>1, <1>2 DEF Fits, Typed, WaitsTimed, Load

LEMMA UpdateFits ==
  ASSUME NEW s, NEW n, Fits(s, n), NEW t \in Adapters, t.nr <= Len(t.tab), Same(s, t)
  PROVE  Fits(t, n)
  <1>1. Len(t.q) <= MAX_LEN_OF_MLME_QUEUE BY DEF Same, Fits, Typed
  <1>2. Typed(t) BY <1>1 DEF Typed
  <1> QED BY <1>2, SameFits

(* The messages whose handlers change machines that wait *)
Special == {"BEACON_TIMEOUT", "AUTH_TIMEOUT", "ASSOC_TIMEOUT", "DISASSOC_TIMEOUT",
            "ASSOC_REQ"}

LEMMA RestIs ==
  ASSUME StaInv, pAd.q # <<>>
  PROVE  /\ Typed(Rest) /\ Rest \in Adapters /\ Rest.nr <= Len(Rest.tab)
         /\ Rest.q = Tail(pAd.q) /\ Rest.tm = pAd.tm
         /\ Rest.cntl = pAd.cntl /\ Rest.sync = pAd.sync
         /\ Rest.assoc = pAd.assoc /\ Rest.auth = pAd.auth
         /\ Elem \in Messages /\ Elem.k \in Kinds
  <1>1. /\ Typed(Rest) /\ Rest = [pAd EXCEPT !.q = Tail(pAd.q)] /\ pAd \in Adapters
        /\ Elem \in Messages
    BY RestTyped DEF StaInv, Good, Typed
  <1>2. Elem.k \in Kinds BY <1>1, MessageFields
  <1> QED BY <1>1, <1>2 DEF Typed, Adapters

LEMMA RestFits ==
  ASSUME Calm, WaitInv, NEW k, Gets(k), k \notin Special
  PROVE  Fits(Rest, Bound - 1)
  <1>1. StaInv /\ pAd.q # <<>> /\ Elem.k = k /\ Fits(pAd, Bound) /\ Bound \in Int
    BY BoundIs DEF WaitInv, Gets
  <1>2. /\ Typed(Rest) /\ Rest.q = Tail(pAd.q) /\ Rest.tm = pAd.tm
        /\ Rest.cntl = pAd.cntl /\ Rest.sync = pAd.sync
        /\ Rest.assoc = pAd.assoc /\ Rest.auth = pAd.auth /\ Elem.k \in Kinds
    BY <1>1, RestIs
  <1> DEFINE t == Rest
  <1> HIDE DEF t
  <1>3. /\ Typed(t) /\ t.q = Tail(pAd.q) /\ t.tm = pAd.tm
        /\ t.cntl = pAd.cntl /\ t.sync = pAd.sync
        /\ t.assoc = pAd.assoc /\ t.auth = pAd.auth
    BY <1>2 DEF t
  <1>4. t.tm \subseteq pAd.tm /\ t.tm \subseteq pAd.tm \cup {"Scan"} BY <1>3
  <1>5. /\ t.sync = "JOIN_WAIT_BEACON" =>
             Stays(pAd.sync = "JOIN_WAIT_BEACON", t, "Beacon", "BEACON_TIMEOUT")
        /\ t.auth = "AUTH_WAIT_SEQ2" =>
             Stays(pAd.auth = "AUTH_WAIT_SEQ2", t, "Auth", "AUTH_TIMEOUT")
        /\ t.assoc = "ASSOC_WAIT_RSP" =>
             Stays(pAd.assoc = "ASSOC_WAIT_RSP", t, "Assoc", "ASSOC_TIMEOUT")
        /\ t.assoc = "DISASSOC_WAIT_RSP" =>
             /\ Stays(pAd.assoc = "DISASSOC_WAIT_RSP", t, "Disassoc", "DISASSOC_TIMEOUT")
             /\ Elem.k # "ASSOC_REQ"
    BY <1>1, <1>3 DEF Stays, Special
  <1>6. t.cntl = "CNTL_WAIT_ASSOC" =>
          /\ pAd.cntl = "CNTL_WAIT_ASSOC"
          /\ t.assoc = "DISASSOC_WAIT_RSP" =>
               pAd.assoc = "DISASSOC_WAIT_RSP" /\ Elem.k # "ASSOC_REQ"
    BY <1>1, <1>3 DEF Special
  <1>7. t.tm \subseteq pAd.tm => Fits(t, Bound - 1)
    BY <1>1, <1>2, <1>3, <1>4, <1>5, <1>6, Handled
  <1> QED BY <1>4, <1>7 DEF t

-----------------------------------------------------------------------------
(* The control machine keeps who waits timed.  Its handlers take messages    *)
(* that are not Special and end in an operator of above.                     *)
LEMMA SsidFits ==
  ASSUME Calm, WaitInv, CntlOidSsidProc
  PROVE  Fits(pAd, Bound)'
  <1>1. Good(Rest) /\ Rest \in Adapters /\ Fits(Rest, Bound - 1)
    <2>1. Gets("OID_SSID") BY DEF CntlOidSsidProc
    <2> QED BY <2>1, GetsGood, RestFits DEF WaitInv, Special
  <1>2. pAd.scan \subseteq Bss BY DEF WaitInv, StaInv, Good, Typed, Adapters
  <1> DEFINE s(t) == [Rest EXCEPT !.aux = None, !.auto = TRUE, !.tab = t, !.nr = Len(t)]
             first(t) == [s(t) EXCEPT !.idx = 0]
  <1>3. PICK t \in Orders(pAd.scan) :
          \/ Do(s(t))
          \/ Do(RequestDisassoc(s(t), "CNTL_WAIT_DISASSOC"))
          \/ Do(RequestScan(s(t)))
          \/ Do(IterateOnBssTab(first(t)))
    BY SsidDoes
  <1>4. t \in Seq(Bss) /\ Len(t) \in Nat BY <1>2, OrdersTyped
  <1> DEFINE u == s(t)
             v == first(t)
  <1>5. u \in Adapters /\ u.nr = Len(t) /\ u.tab = t /\ Same(Rest, u)
    BY <1>1, <1>4 DEF Adapters, Address, Same
  <1>6. v = [u EXCEPT !.idx = 0] OBVIOUS
  <1>7. \/ Do(u) \/ Do(RequestDisassoc(u, "CNTL_WAIT_DISASSOC"))
        \/ Do(RequestScan(u)) \/ Do(IterateOnBssTab(v))
    BY <1>3
  <1> HIDE DEF u, v
  <1>8. Fits(u, Bound - 1) BY <1>1, <1>4, <1>5, UpdateFits
  <1>9. v \in Adapters /\ v.nr = Len(t) /\ v.tab = t /\ Same(u, v) /\ v.sync = u.sync
    BY <1>5, <1>6, FirstIndex DEF Adapters, Same
  <1>10. Fits(v, Bound - 1) BY <1>4, <1>8, <1>9, UpdateFits
  <1>11. Good(v)
    <2>1. /\ v.q = Rest.q /\ v.sync = Rest.sync /\ v.tm = Rest.tm
      BY <1>5, <1>9 DEF Same
    <2> QED BY <1>1, <1>4, <1>9, <2>1, StaysGood
  <1>12. /\ Fits(RequestDisassoc(u, "CNTL_WAIT_DISASSOC"), Bound)
         /\ Fits(RequestScan(u), Bound) /\ Fits(IterateOnBssTab(v), Bound)
    BY <1>8, <1>10, <1>11, BoundIs, DisassocFits, ScanFits, IterateFits DEF
         CntlStates
  <1> QED BY <1>7, <1>8, <1>12, Lands DEF Do

LEMMA BssidFits ==
  ASSUME Calm, WaitInv, CntlOidRTBssidProc
  PROVE  Fits(pAd, Bound)'
  <1> DEFINE b == Elem.b
             s == [Rest EXCEPT !.aux = b]
             tab == IF s.tab = <<>> THEN <<b>> ELSE [s.tab EXCEPT ![1] = b]
             f == [s EXCEPT !.auto = TRUE, !.idx = 0, !.nr = 1, !.tab = tab]
  <1>1. /\ Good(Rest) /\ Rest \in Adapters /\ b \in Bss
        /\ Rest.nr <= Len(Rest.tab) /\ Fits(Rest, Bound - 1)
    <2>1. Gets("OID_BSSID") BY DEF CntlOidRTBssidProc
    <2> QED BY <2>1, GetsGood, MessageFields, RestFits DEF WaitInv, Special
  <1>2. Do(RequestScan(s)) \/ Do(RequestDisassoc(f, "CNTL_WAIT_DISASSOC"))
        \/ Do(IterateOnBssTab(f))
    <2>1. Do(CASE b \notin s.scan -> RequestScan(s)
               [] b \in s.scan /\ s.infra -> RequestDisassoc(f, "CNTL_WAIT_DISASSOC")
               [] OTHER -> IterateOnBssTab(f))
      BY DEF CntlOidRTBssidProc
    <2> HIDE DEF s, f, b
    <2> QED BY <2>1
  <1>3. s \in Adapters /\ s.nr = Rest.nr /\ s.tab = Rest.tab /\ Same(Rest, s)
    BY <1>1 DEF Adapters, Address, Same
  <1> HIDE DEF b, s
  <1>4. Fits(s, Bound - 1) BY <1>1, <1>3, UpdateFits
  <1>5. tab \in Seq(Bss) /\ Len(tab) >= 1
    <2>1. s.tab \in Seq(Bss) BY <1>3 DEF Adapters
    <2>2. CASE s.tab = <<>> BY <1>1, <2>2
    <2>3. CASE s.tab # <<>>
      <3>1. [s.tab EXCEPT ![1] = b] \in Seq(Bss)
            /\ Len([s.tab EXCEPT ![1] = b]) = Len(s.tab)
        BY <1>1, <2>1, <2>3, ExceptSeq
      <3> QED BY <2>1, <2>3, <3>1
    <2> QED BY <2>2, <2>3
  <1> HIDE DEF tab
  <1>6. /\ f \in Adapters /\ f.nr = 1 /\ f.tab = tab /\ Same(s, f)
        /\ f.q = Rest.q /\ f.sync = Rest.sync /\ f.tm = Rest.tm
    BY <1>3, <1>5, FirstIndex DEF Adapters, Same
  <1> HIDE DEF f
  <1>7. Fits(f, Bound - 1) /\ Good(f)
    BY <1>1, <1>4, <1>5, <1>6, UpdateFits, StaysGood
  <1>8. /\ Fits(RequestDisassoc(f, "CNTL_WAIT_DISASSOC"), Bound)
        /\ Fits(RequestScan(s), Bound) /\ Fits(IterateOnBssTab(f), Bound)
    BY <1>4, <1>7, BoundIs, DisassocFits, ScanFits, IterateFits DEF CntlStates
  <1> QED BY <1>2, <1>8, Lands DEF Do

(* The confirmation that brings the link up *)
LEMMA LinkUpFits ==
  ASSUME Calm, WaitInv, CntlWaitAssocProc
  PROVE  Fits([LinkUp(Rest) EXCEPT !.cntl = "CNTL_IDLE"], Bound)
  <1> DEFINE l == LinkUp(Rest)
             t == [l EXCEPT !.cntl = "CNTL_IDLE"]
  <1>1. /\ pAd.q # <<>> /\ Elem.k = "ASSOC_CONF" /\ Taken(Elem)
        /\ StaInv /\ Fits(pAd, Bound) /\ Bound \in Int
    BY BoundIs DEF CntlWaitAssocProc, Gets, WaitInv
  <1>2. pAd.cntl = "CNTL_WAIT_ASSOC"
    <2>1. Table["ASSOC_CONF"] = <<"cntl", {"CNTL_WAIT_ASSOC"}>> BY DEF Table
    <2> QED BY <1>1, <2>1 DEF Taken
  <1>3. /\ Rest \in Adapters /\ Rest.q = Tail(pAd.q) /\ Rest.tm = pAd.tm
        /\ Rest.sync = pAd.sync /\ Rest.assoc = pAd.assoc /\ Rest.auth = pAd.auth
        /\ Elem.k \in Kinds
    BY <1>1, RestIs
  <1>4. Good(Rest)
    <2>1. Gets("ASSOC_CONF") BY DEF CntlWaitAssocProc
    <2> QED BY <1>1, <2>1, GetsGood
  <1>5. l \in Adapters BY <1>4, LinkUpGood DEF Good, Typed
  <1>6. Typed(t) BY <1>4, LinkUpGood, CntlGood DEF Good, CntlStates
  <1>7. /\ l.q = Rest.q /\ l.sync = Rest.sync /\ l.assoc = Rest.assoc
        /\ l.auth = Rest.auth
        /\ l.tm = (Rest.tm \ {"Disassoc"}) \cup (IF Psk THEN {"LinkDown"} ELSE {})
    BY <1>3 DEF LinkUp, Adapters
  <1> HIDE DEF l
  <1>8. /\ t.q = l.q /\ t.sync = l.sync /\ t.assoc = l.assoc /\ t.auth = l.auth
        /\ t.tm = l.tm /\ t.cntl = "CNTL_IDLE"
    BY <1>5 DEF Adapters
  <1> HIDE DEF t
  <1>9. /\ t.q = Tail(pAd.q) /\ t.tm \subseteq pAd.tm \cup {"LinkDown"}
        /\ pAd.tm \subseteq t.tm \cup {"Disassoc"}
        /\ t.sync = pAd.sync /\ t.assoc = pAd.assoc /\ t.auth = pAd.auth
    BY <1>3, <1>7, <1>8
  <1>10. t.assoc = "DISASSOC_WAIT_RSP" => Queued(t.q, "ASSOC_REQ")
    <2>1. pAd.assoc = "DISASSOC_WAIT_RSP" => Queued(pAd.q, "ASSOC_REQ")
      BY <1>1, <1>2 DEF Fits, WaitsTimed
    <2>2. pAd.q \in Seq(Messages) /\ Head(pAd.q).k # "ASSOC_REQ"
      BY <1>1 DEF StaInv, Good, Typed, Adapters, Elem
    <2>3. Queued(pAd.q, "ASSOC_REQ") => Queued(Tail(pAd.q), "ASSOC_REQ")
      BY <1>1, <2>2, QueueShrinks
    <2> QED BY <1>9, <2>1, <2>3
  <1>11. /\ t.sync = "JOIN_WAIT_BEACON" =>
              Stays(pAd.sync = "JOIN_WAIT_BEACON", t, "Beacon", "BEACON_TIMEOUT")
         /\ t.auth = "AUTH_WAIT_SEQ2" =>
              Stays(pAd.auth = "AUTH_WAIT_SEQ2", t, "Auth", "AUTH_TIMEOUT")
         /\ t.assoc = "ASSOC_WAIT_RSP" =>
              Stays(pAd.assoc = "ASSOC_WAIT_RSP", t, "Assoc", "ASSOC_TIMEOUT")
    BY <1>1, <1>9 DEF Stays
  <1>12. t.cntl # "CNTL_WAIT_ASSOC" BY <1>8
  <1>13. Fits(t, Bound)
    BY <1>1, <1>3, <1>6, <1>9, <1>10, <1>11, <1>12, Handled
  <1> QED BY <1>13 DEF t, l

LEMMA ControlFits ==
  ASSUME Calm, WaitInv,
         \/ CntlOidSsidProc \/ CntlOidRTBssidProc \/ CntlOidScanProc
         \/ CntlOidDisassociate \/ CntlMlmeRoamingProc \/ CntlWaitDisassocProc
         \/ CntlWaitOidDisassoc \/ CntlWaitOidListScan \/ CntlWaitJoinProc
         \/ CntlWaitAuthProc \/ CntlWaitAuthProc2 \/ CntlWaitAssocProc
  PROVE  Fits(pAd, Bound)'
  <1> DEFINE r == Rest
             n == Bound - 1
  <1>1. /\ n \in Int /\ n < MAX_LEN_OF_MLME_QUEUE /\ n + 1 = Bound
        /\ pAd.aux \in Address
    BY BoundIs DEF WaitInv, StaInv, Good, Typed, Adapters
  <1>2. ASSUME NEW k, Gets(k), k \notin Special, k # "SCAN_TIMEOUT"
        PROVE  /\ Good(r) /\ Fits(r, n) /\ r \in Adapters /\ r.nr <= Len(r.tab)
               /\ Elem \in Messages /\ Elem.k = k
    BY <1>2, RestFits, GetsGood DEF WaitInv
  <1>3. \A t : Fits(t, n) \/ Fits(t, Bound) => (Do(t) => Fits(pAd, Bound)')
    BY Lands DEF Do
  <1> HIDE DEF n
  <1>4. CASE CntlOidSsidProc BY <1>4, SsidFits
  <1>5. CASE CntlOidRTBssidProc BY <1>5, BssidFits
  <1>6. CASE CntlOidScanProc
    <2>1. Gets("OID_LIST_SCAN") BY <1>6 DEF CntlOidScanProc
    <2>2. Do(RequestScan(r)) BY <1>6, CalmMemory DEF CntlOidScanProc
    <2>3. Fits(r, n) BY <1>2, <2>1 DEF Special
    <2>4. Fits(RequestScan(r), Bound) BY <1>1, <2>3, ScanFits
    <2> QED BY <1>3, <2>2, <2>4
  <1>7. CASE CntlOidDisassociate
    <2> DEFINE s == [Rest EXCEPT !.auto = FALSE]
    <2>1. Fits(r, n) /\ r \in Adapters /\ r.nr <= Len(r.tab)
      BY <1>2, <1>7 DEF CntlOidDisassociate, Special
    <2>2. s \in Adapters /\ s.nr = r.nr /\ s.tab = r.tab /\ Same(r, s)
      BY <2>1 DEF Adapters, Same
    <2>3. Do(RequestDisassoc(s, "CNTL_WAIT_OID_DISASSOC"))
      BY <1>7 DEF CntlOidDisassociate
    <2> HIDE DEF s, r
    <2>4. Fits(s, n) BY <2>1, <2>2, UpdateFits
    <2>5. Fits(RequestDisassoc(s, "CNTL_WAIT_OID_DISASSOC"), Bound)
      BY <1>1, <2>4, DisassocFits DEF CntlStates
    <2> QED BY <1>3, <2>3, <2>5
  <1>8. CASE CntlMlmeRoamingProc
    <2>1. Good(r) /\ Fits(r, n) /\ r \in Adapters /\ Elem.tab \subseteq Bss
      BY <1>2, <1>8, MessageFields DEF CntlMlmeRoamingProc, Special
    <2>2. PICK t \in Orders(Elem.tab) :
            Do(IterateOnBssTab([Rest EXCEPT !.tab = t, !.nr = Len(t), !.idx = 0]))
      BY <1>8 DEF CntlMlmeRoamingProc
    <2>3. t \in Seq(Bss) /\ Len(t) \in Nat BY <2>1, OrdersTyped
    <2> DEFINE s == [Rest EXCEPT !.tab = t, !.nr = Len(t), !.idx = 0]
    <2>4. /\ s \in Adapters /\ s.nr = Len(t) /\ s.tab = t /\ Same(r, s)
          /\ s.q = r.q /\ s.sync = r.sync /\ s.tm = r.tm
      BY <2>1, <2>3, FirstIndex DEF Adapters, Same
    <2>5. Do(IterateOnBssTab(s)) BY <2>2
    <2> HIDE DEF s, r
    <2>6. Fits(s, n) /\ Good(s) BY <2>1, <2>3, <2>4, UpdateFits, StaysGood
    <2>7. Fits(IterateOnBssTab(s), Bound) BY <1>1, <2>6, IterateFits
    <2> QED BY <1>3, <2>5, <2>7
  <1>9. CASE CntlWaitDisassocProc
    <2>1. Good(r) /\ Fits(r, n) /\ Do(IterateOnBssTab(NextBss(LinkDown(r))))
      BY <1>2, <1>9 DEF CntlWaitDisassocProc, Special
    <2>2. Good(LinkDown(r)) /\ Fits(LinkDown(r), n) BY <2>1, LinkDownFits
    <2>3. Fits(IterateOnBssTab(NextBss(LinkDown(r))), Bound)
      BY <1>1, <2>2, NextFits
    <2> QED BY <1>3, <2>1, <2>3
  <1>10. CASE CntlWaitOidDisassoc
    <2>1. Good(r) /\ Fits(r, n) /\ Do([LinkDown(r) EXCEPT !.cntl = "CNTL_IDLE"])
      BY <1>2, <1>10 DEF CntlWaitOidDisassoc, Special
    <2>2. Fits(LinkDown(r), n) BY <2>1, LinkDownFits
    <2>3. Fits([LinkDown(r) EXCEPT !.cntl = "CNTL_IDLE"], n)
      BY <2>2, CntlFits DEF CntlStates
    <2> QED BY <1>3, <2>1, <2>3
  <1>11. CASE CntlWaitOidListScan
    <2> DEFINE e == [Rest EXCEPT !.susp = FALSE, !.improved = FALSE]
    <2>1. Fits(r, n) /\ r \in Adapters /\ r.nr <= Len(r.tab)
      BY <1>2, <1>11 DEF CntlWaitOidListScan, Special
    <2>2. e \in Adapters /\ e.nr = r.nr /\ e.tab = r.tab /\ Same(r, e)
      BY <2>1 DEF Adapters, Same
    <2>3. [Rest EXCEPT !.susp = FALSE, !.cntl = "CNTL_IDLE", !.improved = FALSE]
            = [e EXCEPT !.cntl = "CNTL_IDLE"]
      BY <2>1 DEF Adapters
    <2>4. Do([e EXCEPT !.cntl = "CNTL_IDLE"])
      BY <1>11, <2>3 DEF CntlWaitOidListScan
    <2> HIDE DEF e, r
    <2>5. Fits(e, n) BY <2>1, <2>2, UpdateFits
    <2>6. Fits([e EXCEPT !.cntl = "CNTL_IDLE"], n)
      BY <2>5, CntlFits DEF CntlStates
    <2> QED BY <1>3, <2>4, <2>6
  <1>12. ASSUME NEW c \in {"CNTL_WAIT_AUTH", "CNTL_WAIT_AUTH2"}, Fits(r, n)
         PROVE  Fits(MlmeEnqueue([r EXCEPT !.cntl = c], To("AUTH_REQ", pAd.aux)), Bound)
    <2>1. To("AUTH_REQ", pAd.aux) \in Messages BY <1>1, MessagesMade
    <2>2. To("AUTH_REQ", pAd.aux).k # "DISASSOC_REQ" BY DEF To
    <2>3. Fits([r EXCEPT !.cntl = c], n) BY <1>12, CntlFits DEF CntlStates
    <2> QED BY <1>1, <2>1, <2>2, <2>3, EnqueueFits
  <1>13. CASE CntlWaitJoinProc
    <2>1. Good(r) /\ Fits(r, n) BY <1>2, <1>13 DEF CntlWaitJoinProc, Special
    <2>2. Fits(IterateOnBssTab(NextBss(r)), Bound) BY <1>1, <2>1, NextFits
    <2>3. \/ Do(MlmeEnqueue([r EXCEPT !.cntl = "CNTL_WAIT_AUTH"], To("AUTH_REQ", pAd.aux)))
          \/ Do(IterateOnBssTab(NextBss(r)))
      BY <1>13 DEF CntlWaitJoinProc
    <2> QED BY <1>3, <1>12, <2>1, <2>2, <2>3
  <1>14. CASE CntlWaitAuthProc
    <2>1. Good(r) /\ Fits(r, n) BY <1>2, <1>14 DEF CntlWaitAuthProc, Special
    <2>2. Fits(RequestAssoc(r), Bound) BY <1>1, <2>1, AssocFits
    <2>3. \/ Do(RequestAssoc(r))
          \/ Do(MlmeEnqueue([r EXCEPT !.cntl = "CNTL_WAIT_AUTH2"], To("AUTH_REQ", pAd.aux)))
      BY <1>14 DEF CntlWaitAuthProc
    <2> QED BY <1>3, <1>12, <2>1, <2>2, <2>3
  <1>15. CASE CntlWaitAuthProc2
    <2>1. Good(r) /\ Fits(r, n) BY <1>2, <1>15 DEF CntlWaitAuthProc2, Special
    <2>2. Fits(RequestAssoc(r), Bound) BY <1>1, <2>1, AssocFits
    <2>3. Fits(IterateOnBssTab(NextBss(r)), Bound) BY <1>1, <2>1, NextFits
    <2> QED BY <1>3, <1>15, <2>2, <2>3 DEF CntlWaitAuthProc2
  <1>16. CASE CntlWaitAssocProc
    <2>1. Good(r) /\ Fits(r, n) BY <1>2, <1>16 DEF CntlWaitAssocProc, Special
    <2>2. Fits(IterateOnBssTab(NextBss(r)), Bound) BY <1>1, <2>1, NextFits
    <2>3. Fits([LinkUp(r) EXCEPT !.cntl = "CNTL_IDLE"], Bound)
      BY <1>16, LinkUpFits
    <2> QED BY <1>3, <1>16, <2>2, <2>3 DEF CntlWaitAssocProc
  <1> QED
    BY <1>4, <1>5, <1>6, <1>7, <1>8, <1>9, <1>10, <1>11, <1>13, <1>14, <1>15,
         <1>16

-----------------------------------------------------------------------------
(* The sync machine *)
LEMMA Moves ==
  ASSUME Calm, WaitInv, pAd.q # <<>>, NEW t \in Adapters, t.nr <= Len(t.tab),
         t.q = Rest.q, NEW x, t.tm \subseteq pAd.tm \cup {x},
         t.sync = "JOIN_WAIT_BEACON" =>
           Stays(pAd.sync = "JOIN_WAIT_BEACON", t, "Beacon", "BEACON_TIMEOUT"),
         t.auth = "AUTH_WAIT_SEQ2" =>
           Stays(pAd.auth = "AUTH_WAIT_SEQ2", t, "Auth", "AUTH_TIMEOUT"),
         t.assoc = "ASSOC_WAIT_RSP" =>
           Stays(pAd.assoc = "ASSOC_WAIT_RSP", t, "Assoc", "ASSOC_TIMEOUT"),
         t.assoc = "DISASSOC_WAIT_RSP" =>
           /\ Stays(pAd.assoc = "DISASSOC_WAIT_RSP", t, "Disassoc", "DISASSOC_TIMEOUT")
           /\ Elem.k # "ASSOC_REQ",
         t.cntl = "CNTL_WAIT_ASSOC" => pAd.cntl = "CNTL_WAIT_ASSOC",
         t.assoc = "DISASSOC_WAIT_RSP" =>
           pAd.assoc = "DISASSOC_WAIT_RSP" \/ Elem.k = "DISASSOC_REQ"
  PROVE  Fits(t, Bound) /\ (t.tm \subseteq pAd.tm => Fits(t, Bound - 1))
  <1>1. StaInv /\ Fits(pAd, Bound) /\ Bound \in Int BY BoundIs DEF WaitInv
  <1>2. Typed(Rest) /\ Rest.q = Tail(pAd.q) /\ Elem.k \in Kinds BY <1>1, RestIs
  <1>3. Typed(t) BY <1>2 DEF Typed
  <1>4. t.q = Tail(pAd.q) BY <1>2
  <1>5. t.assoc = "DISASSOC_WAIT_RSP" =>
          \/ /\ Stays(pAd.assoc = "DISASSOC_WAIT_RSP", t, "Disassoc", "DISASSOC_TIMEOUT")
             /\ Elem.k # "ASSOC_REQ"
          \/ Queued(t.q, "ASSOC_REQ")
    OBVIOUS
  <1>6. t.cntl = "CNTL_WAIT_ASSOC" =>
          /\ pAd.cntl = "CNTL_WAIT_ASSOC"
          /\ t.assoc = "DISASSOC_WAIT_RSP" =>
               \/ pAd.assoc = "DISASSOC_WAIT_RSP" /\ Elem.k # "ASSOC_REQ"
               \/ Elem.k = "DISASSOC_REQ"
    OBVIOUS
  <1> QED BY <1>1, <1>2, <1>3, <1>4, <1>5, <1>6, Handled

(* A machine that becomes idle *)
LEMMA IdleFits ==
  ASSUME NEW s, NEW n, Fits(s, n), NEW t \in Adapters, t.nr <= Len(t.tab),
         t.q = s.q, t.tm = s.tm, t.cntl = s.cntl,
         t.sync \in {s.sync, "SYNC_IDLE"}, t.assoc \in {s.assoc, "ASSOC_IDLE"},
         t.auth \in {s.auth, "AUTH_REQ_IDLE"}
  PROVE  Fits(t, n)
  <1>1. WaitsTimed(t) BY DEF Fits, WaitsTimed
  <1>2. Typed(t) /\ Load(t) <= n BY DEF Fits, Typed, Load
  <1> QED BY <1>1, <1>2 DEF Fits

(* Whatever ScanNextChannel does, the station does not wait for a beacon.    *)
LEMMA NextChannelFits ==
  ASSUME NEW s, Typed(s), NEW n \in Int, n < MAX_LEN_OF_MLME_QUEUE,
         Fits([s EXCEPT !.sync = "SYNC_IDLE"], n)
  PROVE  Fits(ScanNextChannel(s, TRUE), n + 1)
  <1> DEFINE i == [s EXCEPT !.sync = "SYNC_IDLE"]
             pending == [s EXCEPT !.sync = "SCAN_PENDING", !.susp = FALSE, !.cnt = 0]
             done == [s EXCEPT !.sync = "SYNC_IDLE", !.improved = FALSE, !.cnt = 0]
             m == s.tm \cup {"Scan"}
             c == IF s.cnt < Burst THEN s.cnt + 1 ELSE s.cnt
             t == [s EXCEPT !.tm = m, !.cnt = c]
             listen == [t EXCEPT !.sync = "SCAN_LISTEN"]
  <1>1. s \in Adapters /\ s.nr <= Len(s.tab) /\ Len(s.q) <= MAX_LEN_OF_MLME_QUEUE
    BY DEF Typed
  <1>2. 0 \in 0..Burst /\ c \in 0..Burst /\ m \subseteq Timers
    <2>1. s.cnt \in 0..Burst /\ s.tm \subseteq Timers BY <1>1 DEF Adapters
    <2>2. Burst \in Nat BY Constants
    <2>3. 0 \in 0..Burst /\ c \in 0..Burst BY <2>1, <2>2
    <2>4. m \subseteq Timers BY <2>1 DEF Timers
    <2> QED BY <2>3, <2>4
  <1>3. ScanNextChannel(s, TRUE) \in
          {pending, MlmeEnqueue(done, Conf("SCAN_CONF", TRUE)), listen}
    <2>1. ~TRUE => FALSE OBVIOUS
    <2> QED BY <2>1 DEF ScanNextChannel
  <1>4. /\ i \in Adapters /\ i.nr = s.nr /\ i.tab = s.tab /\ i.q = s.q
        /\ i.cntl = s.cntl /\ i.assoc = s.assoc /\ i.auth = s.auth /\ i.tm = s.tm
        /\ Fits(i, n)
    BY <1>1 DEF Adapters, SyncStates
  <1>5. /\ pending \in Adapters /\ pending.nr = s.nr /\ pending.tab = s.tab
        /\ pending.q = s.q /\ pending.sync = "SCAN_PENDING" /\ pending.tm = s.tm
        /\ pending.cntl = s.cntl /\ pending.assoc = s.assoc /\ pending.auth = s.auth
    BY <1>1, <1>2 DEF Adapters, SyncStates
  <1>6. /\ done \in Adapters /\ done.nr = s.nr /\ done.tab = s.tab
        /\ done.q = s.q /\ done.sync = "SYNC_IDLE" /\ done.tm = s.tm
        /\ done.cntl = s.cntl /\ done.assoc = s.assoc /\ done.auth = s.auth
    BY <1>1, <1>2 DEF Adapters, SyncStates
  <1> HIDE DEF m, c
  <1>7. /\ t \in Adapters /\ t.nr = s.nr /\ t.tab = s.tab /\ t.q = s.q
        /\ t.cntl = s.cntl /\ t.assoc = s.assoc /\ t.auth = s.auth /\ t.tm = m
    BY <1>1, <1>2 DEF Adapters
  <1> HIDE DEF t
  <1>8. /\ listen \in Adapters /\ listen.nr = s.nr /\ listen.tab = s.tab
        /\ listen.q = s.q /\ listen.sync = "SCAN_LISTEN" /\ listen.tm = m
        /\ listen.cntl = s.cntl /\ listen.assoc = s.assoc /\ listen.auth = s.auth
    BY <1>7 DEF Adapters, SyncStates
  <1> HIDE DEF i, pending, done, listen
  <1>9. n + 1 \in Int /\ n <= n + 1 OBVIOUS
  <1>10. Fits(pending, n + 1)
    <2>1. Typed(pending) BY <1>1, <1>5 DEF Typed
    <2>2. WaitsTimed(pending) /\ Load(pending) <= n
      BY <1>4, <1>5 DEF Fits, WaitsTimed, Load
    <2>3. Fits(pending, n) BY <2>1, <2>2 DEF Fits
    <2> QED BY <1>9, <2>3, FitsMore
  <1>11. Fits(MlmeEnqueue(done, Conf("SCAN_CONF", TRUE)), n + 1)
    <2>1. Typed(done) BY <1>1, <1>6 DEF Typed
    <2>2. WaitsTimed(done) /\ Load(done) <= n
      BY <1>4, <1>6 DEF Fits, WaitsTimed, Load
    <2>3. Fits(done, n) BY <2>1, <2>2 DEF Fits
    <2> QED BY <2>3, ConfFits
  <1>12. Fits(listen, n + 1)
    <2>1. Typed(listen) BY <1>1, <1>8 DEF Typed
    <2>2. WaitsTimed(listen) BY <1>4, <1>8 DEF Fits, WaitsTimed, m
    <2>3. Load(listen) <= n + 1
      <3>1. Running(listen.tm) <= Running(i.tm) + 1
        BY <1>4, <1>8, RunningIs DEF m
      <3>2. Running(listen.tm) \in 0..6 /\ Running(i.tm) \in 0..6 BY RunningIs
      <3>3. i.q \in Seq(Messages) BY <1>4 DEF Adapters
      <3>4. Len(i.q) \in Nat BY <3>3
      <3>5. Len(listen.q) = Len(i.q) BY <1>4, <1>8
      <3>6. Len(i.q) + Running(i.tm) <= n BY <1>4 DEF Fits, Load
      <3>7. Len(listen.q) + Running(listen.tm) <= n + 1
        <4>1. /\ Running(listen.tm) \in Int /\ Running(i.tm) \in Int
              /\ Len(i.q) \in Int
          BY <3>2, <3>4
        <4>2. Len(i.q) + Running(listen.tm) <= n + 1 BY <3>1, <3>6, <4>1, LoadMoves
        <4> QED BY <3>5, <4>2
      <3> QED BY <3>7 DEF Load
    <2> QED BY <2>1, <2>2, <2>3 DEF Fits
  <1> QED BY <1>3, <1>10, <1>11, <1>12

LEMMA ScanReqFits ==
  ASSUME Calm, WaitInv, MlmeScanReqAction
  PROVE  Fits(pAd, Bound)'
  <1> DEFINE c == IF pAd.improved /\ pAd.sync = "SCAN_PENDING" THEN Rest.chan ELSE 1
             m == Rest.tm \ {"Beacon", "Scan"}
             s == [Rest EXCEPT !.susp = TRUE, !.tm = m, !.chan = c]
             i == [s EXCEPT !.sync = "SYNC_IDLE"]
             e == ScanNextChannel(s, TRUE)
  <1>1. StaInv /\ Gets("SCAN_REQ") /\ pAd.q # <<>> /\ Elem.k = "SCAN_REQ"
    BY DEF WaitInv, MlmeScanReqAction, Gets
  <1>2. /\ Rest \in Adapters /\ Rest.nr <= Len(Rest.tab) /\ Typed(Rest)
        /\ Rest.tm = pAd.tm /\ Rest.assoc = pAd.assoc
        /\ Rest.auth = pAd.auth /\ Rest.cntl = pAd.cntl
    BY <1>1, RestIs
  <1>3. c \in 0..NumChannels /\ m \subseteq Timers
    BY <1>2, Constants DEF Adapters
  <1>4. Do([e EXCEPT !.cntl = "CNTL_WAIT_OID_LIST_SCAN"])
    BY CalmMemory DEF MlmeScanReqAction
  <1>5. /\ m \subseteq pAd.tm
        /\ "Auth" \in pAd.tm => "Auth" \in m
        /\ "Assoc" \in pAd.tm => "Assoc" \in m
        /\ "Disassoc" \in pAd.tm => "Disassoc" \in m
    BY <1>2
  <1> HIDE DEF c, m
  <1>6. /\ s \in Adapters /\ s.nr = Rest.nr /\ s.tab = Rest.tab /\ s.q = Rest.q
        /\ s.tm = m /\ s.assoc = Rest.assoc /\ s.auth = Rest.auth /\ s.cntl = Rest.cntl
    BY <1>2, <1>3 DEF Adapters
  <1> HIDE DEF s
  <1>7. /\ i \in Adapters /\ i.nr = s.nr /\ i.tab = s.tab /\ i.q = s.q
        /\ i.tm = s.tm /\ i.assoc = s.assoc /\ i.auth = s.auth /\ i.cntl = s.cntl
        /\ i.sync = "SYNC_IDLE"
    BY <1>6 DEF Adapters, SyncStates
  <1> HIDE DEF i
  <1>8. Typed(s) BY <1>2, <1>6 DEF Typed
  <1>9. Fits(i, Bound - 1)
    <2>1. i.nr <= Len(i.tab) /\ i.q = Rest.q BY <1>2, <1>6, <1>7
    <2>2. i.tm \subseteq pAd.tm /\ i.tm \subseteq pAd.tm \cup {"Scan"}
      BY <1>5, <1>6, <1>7
    <2>3. /\ i.auth = "AUTH_WAIT_SEQ2" =>
               Stays(pAd.auth = "AUTH_WAIT_SEQ2", i, "Auth", "AUTH_TIMEOUT")
          /\ i.assoc = "ASSOC_WAIT_RSP" =>
               Stays(pAd.assoc = "ASSOC_WAIT_RSP", i, "Assoc", "ASSOC_TIMEOUT")
          /\ i.assoc = "DISASSOC_WAIT_RSP" =>
               /\ Stays(pAd.assoc = "DISASSOC_WAIT_RSP", i, "Disassoc",
                        "DISASSOC_TIMEOUT")
               /\ Elem.k # "ASSOC_REQ"
      BY <1>1, <1>2, <1>5, <1>6, <1>7 DEF Stays
    <2>4. /\ i.sync # "JOIN_WAIT_BEACON"
          /\ i.cntl = "CNTL_WAIT_ASSOC" => pAd.cntl = "CNTL_WAIT_ASSOC"
          /\ i.assoc = "DISASSOC_WAIT_RSP" => pAd.assoc = "DISASSOC_WAIT_RSP"
      BY <1>2, <1>6, <1>7
    <2> QED BY <1>1, <1>7, <2>1, <2>2, <2>3, <2>4, Moves
  <1>10. Fits(e, Bound) BY <1>8, <1>9, BoundIs, NextChannelFits DEF i
  <1>11. Fits([e EXCEPT !.cntl = "CNTL_WAIT_OID_LIST_SCAN"], Bound)
    BY <1>10, CntlFits DEF CntlStates
  <1> QED BY <1>4, <1>11, Lands DEF Do

LEMMA ScanTimeoutFits ==
  ASSUME Calm, WaitInv, ScanTimeoutAction
  PROVE  Fits(pAd, Bound)'
  <1> DEFINE c == NextChannel(Rest.chan)
             s == [Rest EXCEPT !.chan = c]
             i == [s EXCEPT !.sync = "SYNC_IDLE"]
  <1>1. StaInv /\ Gets("SCAN_TIMEOUT") /\ Fits(Rest, Bound - 1) /\ pAd.q # <<>>
    BY RestFits DEF WaitInv, ScanTimeoutAction, Gets, Special
  <1>2. /\ Rest \in Adapters /\ Rest.nr <= Len(Rest.tab) /\ Typed(Rest)
    BY <1>1, RestIs
  <1>3. c \in 0..NumChannels BY <1>2, Constants DEF Adapters, NextChannel
  <1>4. Do(ScanNextChannel(s, TRUE)) BY CalmMemory DEF ScanTimeoutAction
  <1> HIDE DEF c
  <1>5. s \in Adapters /\ s.nr = Rest.nr /\ s.tab = Rest.tab /\ Same(Rest, s)
    BY <1>2, <1>3 DEF Adapters, Same
  <1> HIDE DEF s
  <1>6. /\ i \in Adapters /\ i.nr = s.nr /\ i.tab = s.tab /\ i.q = s.q
        /\ i.tm = s.tm /\ i.assoc = s.assoc /\ i.auth = s.auth /\ i.cntl = s.cntl
        /\ i.sync = "SYNC_IDLE"
    BY <1>5 DEF Adapters, SyncStates
  <1> HIDE DEF i
  <1>7. Fits(s, Bound - 1) BY <1>1, <1>2, <1>5, UpdateFits
  <1>8. s.nr <= Len(s.tab) BY <1>2, <1>5
  <1>9. Fits(i, Bound - 1) BY <1>6, <1>7, <1>8, IdleFits
  <1>10. Typed(s) BY <1>7 DEF Fits
  <1>11. Fits(ScanNextChannel(s, TRUE), Bound)
    BY <1>9, <1>10, BoundIs, NextChannelFits DEF i
  <1> QED BY <1>4, <1>11, Lands DEF Do

(* A machine takes its message and is idle, its timer cancelled or not. *)
LEMMA BecomesIdle ==
  ASSUME Calm, WaitInv, pAd.q # <<>>, NEW t \in Adapters, t.nr <= Len(t.tab),
         t.q = Rest.q, t.cntl = pAd.cntl,
         \/ /\ t.sync = "SYNC_IDLE" /\ t.auth = pAd.auth /\ t.assoc = pAd.assoc
            /\ t.tm \in {pAd.tm, pAd.tm \ {"Beacon"}}
            /\ Elem.k \notin Special \ {"BEACON_TIMEOUT"}
         \/ /\ t.auth = "AUTH_REQ_IDLE" /\ t.sync = pAd.sync /\ t.assoc = pAd.assoc
            /\ t.tm \in {pAd.tm, pAd.tm \ {"Auth"}}
            /\ Elem.k \notin Special \ {"AUTH_TIMEOUT"}
         \/ /\ t.assoc = "ASSOC_IDLE" /\ t.sync = pAd.sync /\ t.auth = pAd.auth
            /\ t.tm \in {pAd.tm, pAd.tm \ {"Assoc"}}
            /\ Elem.k \notin {"BEACON_TIMEOUT", "AUTH_TIMEOUT"}
  PROVE  Fits(t, Bound - 1)
  <1>1. t.tm \subseteq pAd.tm /\ t.tm \subseteq pAd.tm \cup {"Scan"} OBVIOUS
  <1>2. t.sync = "JOIN_WAIT_BEACON" =>
          Stays(pAd.sync = "JOIN_WAIT_BEACON", t, "Beacon", "BEACON_TIMEOUT")
    BY DEF Stays, Special
  <1>3. t.auth = "AUTH_WAIT_SEQ2" =>
          Stays(pAd.auth = "AUTH_WAIT_SEQ2", t, "Auth", "AUTH_TIMEOUT")
    BY DEF Stays, Special
  <1>4. t.assoc = "ASSOC_WAIT_RSP" =>
          Stays(pAd.assoc = "ASSOC_WAIT_RSP", t, "Assoc", "ASSOC_TIMEOUT")
    BY DEF Stays, Special
  <1>5. t.assoc = "DISASSOC_WAIT_RSP" =>
          /\ Stays(pAd.assoc = "DISASSOC_WAIT_RSP", t, "Disassoc", "DISASSOC_TIMEOUT")
          /\ Elem.k # "ASSOC_REQ"
    BY DEF Stays, Special
  <1>6. /\ t.cntl = "CNTL_WAIT_ASSOC" => pAd.cntl = "CNTL_WAIT_ASSOC"
        /\ t.assoc = "DISASSOC_WAIT_RSP" => pAd.assoc = "DISASSOC_WAIT_RSP"
    OBVIOUS
  <1> QED BY <1>1, <1>2, <1>3, <1>4, <1>5, <1>6, Moves

LEMMA SyncFits ==
  ASSUME Calm, WaitInv,
         \/ MlmeScanReqAction \/ ScanTimeoutAction \/ InvalidStateWhenScan
         \/ MlmeJoinReqAction \/ InvalidStateWhenJoin \/ BeaconTimeoutAtJoinAction
         \/ PeerBeaconAtScanAction \/ PeerBeaconAtJoinAction \/ PeerBeacon
  PROVE  Fits(pAd, Bound)'
  <1> DEFINE n == Bound - 1
  <1>1. /\ n \in Int /\ n < MAX_LEN_OF_MLME_QUEUE /\ n + 1 = Bound /\ StaInv
    BY BoundIs DEF WaitInv
  <1>2. \A t : Fits(t, n) \/ Fits(t, Bound) => (Do(t) => Fits(pAd, Bound)')
    BY Lands DEF Do
  <1>3. \A t, k, ok : Fits(t, n) /\ k \in {"SCAN_CONF", "JOIN_CONF"} /\ ok \in BOOLEAN =>
          Fits(MlmeEnqueue(t, Conf(k, ok)), Bound)
    BY <1>1, ConfFits
  <1>4. pAd.q # <<>> =>
          /\ Rest \in Adapters /\ Rest.nr <= Len(Rest.tab) /\ Rest.q = Tail(pAd.q)
          /\ Rest.cntl = pAd.cntl /\ Rest.sync = pAd.sync /\ Rest.tm = pAd.tm
          /\ Rest.assoc = pAd.assoc /\ Rest.auth = pAd.auth
    BY <1>1, RestIs
  <1> HIDE DEF n
  <1>5. CASE MlmeScanReqAction BY <1>5, ScanReqFits
  <1>6. CASE ScanTimeoutAction BY <1>6, ScanTimeoutFits
  <1>7. CASE InvalidStateWhenScan
    <2> DEFINE s == [Rest EXCEPT !.sync = "SYNC_IDLE"]
    <2>1. pAd.q # <<>> /\ Elem.k = "SCAN_REQ"
      BY <1>7 DEF InvalidStateWhenScan, Gets
    <2>2. /\ s \in Adapters /\ s.nr = Rest.nr /\ s.tab = Rest.tab /\ s.q = Rest.q
          /\ s.sync = "SYNC_IDLE" /\ s.tm = Rest.tm /\ s.cntl = Rest.cntl
          /\ s.auth = Rest.auth /\ s.assoc = Rest.assoc
      BY <1>4, <2>1 DEF Adapters, SyncStates
    <2>3. Do(MlmeEnqueue(s, Conf("SCAN_CONF", FALSE)))
      BY <1>7 DEF InvalidStateWhenScan
    <2> HIDE DEF s
    <2>4. Fits(s, n) BY <1>4, <2>1, <2>2, BecomesIdle DEF n, Special
    <2> QED BY <1>2, <1>3, <2>3, <2>4
  <1>8. CASE MlmeJoinReqAction
    <2> DEFINE a == IF Elem.i < Len(pAd.tab) THEN pAd.tab[Elem.i + 1] ELSE None
               m == (Rest.tm \ {"Scan"}) \cup {"Beacon"}
               s == [Rest EXCEPT !.sync = "JOIN_WAIT_BEACON", !.tm = m, !.aux = a]
    <2>1. /\ pAd.q # <<>> /\ Elem.k = "JOIN_REQ" /\ Elem.i \in Nat
      BY <1>1, <1>8, GetsGood, MessageFields DEF MlmeJoinReqAction, Gets
    <2>2. a \in Address /\ m \subseteq Timers
      <3>1. pAd.tab \in Seq(Bss) /\ Rest.tm \subseteq Timers
        BY <1>1, <1>4, <2>1 DEF Adapters, StaInv, Good, Typed
      <3>2. CASE Elem.i < Len(pAd.tab)
        <4>1. Elem.i + 1 \in 1..Len(pAd.tab) BY <2>1, <3>1, <3>2
        <4>2. pAd.tab[Elem.i + 1] \in Bss BY <3>1, <4>1
        <4> QED BY <3>1, <3>2, <4>2 DEF Address, Timers
      <3>3. CASE ~(Elem.i < Len(pAd.tab)) BY <3>1, <3>3 DEF Address, Timers
      <3> QED BY <3>2, <3>3
    <2>3. Do(s) BY <1>8 DEF MlmeJoinReqAction
    <2>4. /\ m \subseteq pAd.tm \cup {"Beacon"} /\ "Beacon" \in m
          /\ \A x \in pAd.tm : x # "Scan" => x \in m
      BY <1>4, <2>1
    <2> HIDE DEF a, m
    <2>5. /\ s \in Adapters /\ s.nr = Rest.nr /\ s.tab = Rest.tab /\ s.q = Rest.q
          /\ s.sync = "JOIN_WAIT_BEACON" /\ s.tm = m /\ s.cntl = Rest.cntl
          /\ s.auth = Rest.auth /\ s.assoc = Rest.assoc
      BY <1>4, <2>1, <2>2 DEF Adapters, SyncStates
    <2> HIDE DEF s
    <2>6. /\ s.nr <= Len(s.tab) /\ s.tm \subseteq pAd.tm \cup {"Beacon"}
          /\ s.cntl = pAd.cntl /\ s.auth = pAd.auth /\ s.assoc = pAd.assoc
      BY <1>4, <2>1, <2>4, <2>5
    <2>7. /\ Stays(pAd.sync = "JOIN_WAIT_BEACON", s, "Beacon", "BEACON_TIMEOUT")
          /\ s.auth = "AUTH_WAIT_SEQ2" =>
               Stays(pAd.auth = "AUTH_WAIT_SEQ2", s, "Auth", "AUTH_TIMEOUT")
          /\ s.assoc = "ASSOC_WAIT_RSP" =>
               Stays(pAd.assoc = "ASSOC_WAIT_RSP", s, "Assoc", "ASSOC_TIMEOUT")
          /\ s.assoc = "DISASSOC_WAIT_RSP" =>
               Stays(pAd.assoc = "DISASSOC_WAIT_RSP", s, "Disassoc", "DISASSOC_TIMEOUT")
      BY <2>1, <2>4, <2>5, <2>6 DEF Stays
    <2>8. Fits(s, Bound) BY <2>1, <2>5, <2>6, <2>7, Moves
    <2> QED BY <1>2, <2>3, <2>8
  <1>9. CASE InvalidStateWhenJoin
    <2> DEFINE s == [Rest EXCEPT !.sync = "SYNC_IDLE", !.susp = FALSE]
    <2>1. pAd.q # <<>> /\ Elem.k = "JOIN_REQ"
      BY <1>9 DEF InvalidStateWhenJoin, Gets
    <2>2. /\ s \in Adapters /\ s.nr = Rest.nr /\ s.tab = Rest.tab /\ s.q = Rest.q
          /\ s.sync = "SYNC_IDLE" /\ s.tm = Rest.tm /\ s.cntl = Rest.cntl
          /\ s.auth = Rest.auth /\ s.assoc = Rest.assoc
      BY <1>4, <2>1 DEF Adapters, SyncStates
    <2>3. Do(MlmeEnqueue(s, Conf("JOIN_CONF", FALSE)))
      BY <1>9 DEF InvalidStateWhenJoin
    <2> HIDE DEF s
    <2>4. Fits(s, n) BY <1>4, <2>1, <2>2, BecomesIdle DEF n, Special
    <2> QED BY <1>2, <1>3, <2>3, <2>4
  <1>10. CASE BeaconTimeoutAtJoinAction
    <2> DEFINE s == [Rest EXCEPT !.sync = "SYNC_IDLE"]
    <2>1. pAd.q # <<>> /\ Elem.k = "BEACON_TIMEOUT"
      BY <1>10 DEF BeaconTimeoutAtJoinAction, Gets
    <2>2. /\ s \in Adapters /\ s.nr = Rest.nr /\ s.tab = Rest.tab /\ s.q = Rest.q
          /\ s.sync = "SYNC_IDLE" /\ s.tm = Rest.tm /\ s.cntl = Rest.cntl
          /\ s.auth = Rest.auth /\ s.assoc = Rest.assoc
      BY <1>4, <2>1 DEF Adapters, SyncStates
    <2>3. Do(MlmeEnqueue(s, Conf("JOIN_CONF", FALSE)))
      BY <1>10 DEF BeaconTimeoutAtJoinAction
    <2> HIDE DEF s
    <2>4. Fits(s, n) BY <1>4, <2>1, <2>2, BecomesIdle DEF n, Special
    <2> QED BY <1>2, <1>3, <2>3, <2>4
  <1>11. ASSUME Gets("BEACON")
         PROVE  Good(Rest) /\ Fits(Rest, n) /\ Elem.b \in Bss
    BY <1>1, <1>11, GetsGood, MessageFields, RestFits DEF Special, n
  <1>12. CASE PeerBeaconAtScanAction
    <2>1. Good(Rest) /\ Fits(Rest, n) /\ Elem.b \in Bss
      BY <1>11, <1>12 DEF PeerBeaconAtScanAction
    <2>2. Fits([Rest EXCEPT !.scan = @ \cup {Elem.b}], n) BY <2>1, HeardFits
    <2> QED BY <1>2, <1>12, <2>2 DEF PeerBeaconAtScanAction
  <1>13. CASE PeerBeaconAtJoinAction
    <2> DEFINE m == Rest.tm \ {"Beacon"}
               h == Rest.scan \cup {Elem.b}
               s == [Rest EXCEPT !.tm = m, !.scan = h]
               u == [s EXCEPT !.sync = "SYNC_IDLE"]
    <2>1. Fits(Rest, n) /\ Elem.b \in Bss /\ pAd.q # <<>> /\ Elem.k = "BEACON"
      BY <1>11, <1>13 DEF PeerBeaconAtJoinAction, Gets
    <2>2. m \subseteq Timers /\ h \subseteq Bss BY <1>4, <2>1 DEF Adapters
    <2>3. \/ Do(Rest) \/ Do(MlmeEnqueue(u, Conf("JOIN_CONF", TRUE)))
      BY <1>13 DEF PeerBeaconAtJoinAction, Calm
    <2>4. m \in {pAd.tm, pAd.tm \ {"Beacon"}} BY <1>4, <2>1
    <2> HIDE DEF m, h
    <2>5. /\ s \in Adapters /\ s.nr = Rest.nr /\ s.tab = Rest.tab /\ s.q = Rest.q
          /\ s.tm = m /\ s.cntl = Rest.cntl /\ s.auth = Rest.auth
          /\ s.assoc = Rest.assoc
      BY <1>4, <2>1, <2>2 DEF Adapters
    <2> HIDE DEF s
    <2>6. /\ u \in Adapters /\ u.nr = s.nr /\ u.tab = s.tab /\ u.q = s.q
          /\ u.sync = "SYNC_IDLE" /\ u.tm = s.tm /\ u.cntl = s.cntl
          /\ u.auth = s.auth /\ u.assoc = s.assoc
      BY <2>5 DEF Adapters, SyncStates
    <2> HIDE DEF u
    <2>7. Fits(u, n) BY <1>4, <2>1, <2>4, <2>5, <2>6, BecomesIdle DEF n, Special
    <2> QED BY <1>2, <1>3, <2>1, <2>3, <2>7
  <1>14. CASE PeerBeacon
    <2>1. Good(Rest) /\ Fits(Rest, n) /\ Elem.b \in Bss
      BY <1>11, <1>14 DEF PeerBeacon
    <2>2. Fits(BssTableSetEntry([Rest EXCEPT !.scan = @ \cup {Elem.b}], Elem.b), n)
      BY <2>1, HeardFits
    <2>3. \/ Do(Rest)
          \/ Do(BssTableSetEntry([Rest EXCEPT !.scan = @ \cup {Elem.b}], Elem.b))
      BY <1>14 DEF PeerBeacon, Calm
    <2> QED BY <1>2, <2>1, <2>2, <2>3
  <1> QED BY <1>5, <1>6, <1>7, <1>8, <1>9, <1>10, <1>12, <1>13, <1>14

-----------------------------------------------------------------------------
(* The authentication and the association machine, dropped messages and the  *)
(* reset.  What is shared: taking a message that is not Special, a machine   *)
(* that becomes idle and confirms.                                           *)
LEMMA AuthIdle ==
  ASSUME Calm, WaitInv, pAd.q # <<>>, Elem.k \notin Special \ {"AUTH_TIMEOUT"},
         NEW m \in {Rest.tm, Rest.tm \ {"Auth"}}, NEW ok \in BOOLEAN
  PROVE  Fits(MlmeEnqueue([Rest EXCEPT !.auth = "AUTH_REQ_IDLE", !.tm = m],
                          Conf("AUTH_CONF", ok)), Bound)
  <1> DEFINE s == [Rest EXCEPT !.auth = "AUTH_REQ_IDLE", !.tm = m]
  <1>1. /\ Rest \in Adapters /\ Rest.nr <= Len(Rest.tab)
        /\ Rest.cntl = pAd.cntl /\ Rest.sync = pAd.sync /\ Rest.tm = pAd.tm
        /\ Rest.assoc = pAd.assoc
    BY RestIs DEF WaitInv
  <1>2. m \subseteq Timers /\ m \in {pAd.tm, pAd.tm \ {"Auth"}}
    BY <1>1 DEF Adapters
  <1>3. /\ s \in Adapters /\ s.nr = Rest.nr /\ s.tab = Rest.tab /\ s.q = Rest.q
        /\ s.sync = Rest.sync /\ s.tm = m /\ s.cntl = Rest.cntl
        /\ s.auth = "AUTH_REQ_IDLE" /\ s.assoc = Rest.assoc
    BY <1>1, <1>2 DEF Adapters, AuthStates
  <1> HIDE DEF s
  <1>4. Fits(s, Bound - 1) BY <1>1, <1>2, <1>3, BecomesIdle
  <1>5. Fits(MlmeEnqueue(s, Conf("AUTH_CONF", ok)), Bound)
    BY <1>4, BoundIs, ConfFits
  <1> QED BY <1>5 DEF s

LEMMA AssocIdle ==
  ASSUME Calm, WaitInv, pAd.q # <<>>, Elem.k \notin {"BEACON_TIMEOUT", "AUTH_TIMEOUT"},
         NEW m \in {Rest.tm, Rest.tm \ {"Assoc"}}
  PROVE  Fits([Rest EXCEPT !.assoc = "ASSOC_IDLE", !.tm = m], Bound - 1)
  <1> DEFINE s == [Rest EXCEPT !.assoc = "ASSOC_IDLE", !.tm = m]
  <1>1. /\ Rest \in Adapters /\ Rest.nr <= Len(Rest.tab)
        /\ Rest.cntl = pAd.cntl /\ Rest.sync = pAd.sync /\ Rest.tm = pAd.tm
        /\ Rest.auth = pAd.auth
    BY RestIs DEF WaitInv
  <1>2. m \subseteq Timers /\ m \in {pAd.tm, pAd.tm \ {"Assoc"}}
    BY <1>1 DEF Adapters
  <1>3. /\ s \in Adapters /\ s.nr = Rest.nr /\ s.tab = Rest.tab /\ s.q = Rest.q
        /\ s.sync = Rest.sync /\ s.tm = m /\ s.cntl = Rest.cntl
        /\ s.assoc = "ASSOC_IDLE" /\ s.auth = Rest.auth
    BY <1>1, <1>2 DEF Adapters, AssocStates
  <1> HIDE DEF s
  <1>4. Fits(s, Bound - 1) BY <1>1, <1>2, <1>3, BecomesIdle
  <1> QED BY <1>4 DEF s

(* The timer is left as it is *)
LEMMA SameTimers ==
  ASSUME StaInv, pAd.q # <<>>
  PROVE  /\ [Rest EXCEPT !.auth = "AUTH_REQ_IDLE"]
              = [Rest EXCEPT !.auth = "AUTH_REQ_IDLE", !.tm = Rest.tm]
         /\ [Rest EXCEPT !.assoc = "ASSOC_IDLE"]
              = [Rest EXCEPT !.assoc = "ASSOC_IDLE", !.tm = Rest.tm]
  <1>1. Rest \in Adapters BY RestIs
  <1> QED BY <1>1 DEF Adapters

LEMMA AuthWaits ==
  ASSUME Calm, WaitInv,
         \/ MlmeAuthReqAction \/ PeerAuthRspAtSeq2Action \/ AuthTimeoutAction
         \/ InvalidStateWhenAuth \/ PeerDeauthAction
  PROVE  Fits(pAd, Bound)'
  <1> DEFINE n == Bound - 1
  <1>1. /\ n \in Int /\ n < MAX_LEN_OF_MLME_QUEUE /\ n + 1 = Bound /\ StaInv
    BY BoundIs DEF WaitInv
  <1>2. \A t : Fits(t, n) \/ Fits(t, Bound) => (Do(t) => Fits(pAd, Bound)')
    BY Lands DEF Do
  <1>3. pAd.q # <<>> =>
          /\ Rest \in Adapters /\ Rest.nr <= Len(Rest.tab) /\ Rest.q = Tail(pAd.q)
          /\ Rest.cntl = pAd.cntl /\ Rest.sync = pAd.sync /\ Rest.tm = pAd.tm
          /\ Rest.assoc = pAd.assoc /\ Rest.auth = pAd.auth
    BY <1>1, RestIs
  <1> HIDE DEF n
  <1>4. CASE MlmeAuthReqAction
    <2> DEFINE a == Elem.b
               m == Rest.tm \ {"Auth"}
               p == m \cup {"Auth"}
               s == [Rest EXCEPT !.aux = a, !.tm = m]
               w == [s EXCEPT !.auth = "AUTH_WAIT_SEQ2", !.tm = p]
    <2>1. pAd.q # <<>> /\ Elem.k = "AUTH_REQ" /\ a \in Address
      BY <1>1, <1>4, GetsGood, MessageFields DEF MlmeAuthReqAction, Gets
    <2>2. /\ m \subseteq Timers /\ p \subseteq Timers /\ p \subseteq pAd.tm \cup {"Auth"}
          /\ "Auth" \in p /\ pAd.tm \subseteq p
      BY <1>3, <2>1 DEF Adapters, Timers
    <2>3. s.tm = m BY <1>3, <2>1 DEF Adapters
    <2>4. pAd' = w /\ req' = req
      <3>1. Send([s EXCEPT !.auth = "AUTH_WAIT_SEQ2", !.tm = s.tm \cup {"Auth"}],
                 To("AUTH", a))
        BY <1>4, CalmMemory DEF MlmeAuthReqAction
      <3> QED BY <2>3, <3>1 DEF Send
    <2> HIDE DEF a, m, p
    <2>5. /\ s \in Adapters /\ s.nr = Rest.nr /\ s.tab = Rest.tab /\ s.q = Rest.q
          /\ s.sync = Rest.sync /\ s.tm = m /\ s.cntl = Rest.cntl
          /\ s.assoc = Rest.assoc
      BY <1>3, <2>1, <2>2 DEF Adapters
    <2> HIDE DEF s
    <2>6. /\ w \in Adapters /\ w.nr = s.nr /\ w.tab = s.tab /\ w.q = s.q
          /\ w.sync = s.sync /\ w.tm = p /\ w.cntl = s.cntl
          /\ w.assoc = s.assoc
      BY <2>2, <2>5 DEF Adapters, AuthStates
    <2> HIDE DEF w
    <2>7. /\ w.nr <= Len(w.tab) /\ w.q = Rest.q /\ w.tm \subseteq pAd.tm \cup {"Auth"}
          /\ w.sync = pAd.sync /\ w.cntl = pAd.cntl /\ w.assoc = pAd.assoc
          /\ "Auth" \in w.tm /\ pAd.tm \subseteq w.tm
      BY <1>3, <2>1, <2>2, <2>5, <2>6
    <2>8. /\ w.sync = "JOIN_WAIT_BEACON" =>
               Stays(pAd.sync = "JOIN_WAIT_BEACON", w, "Beacon", "BEACON_TIMEOUT")
          /\ Stays(pAd.auth = "AUTH_WAIT_SEQ2", w, "Auth", "AUTH_TIMEOUT")
          /\ w.assoc = "ASSOC_WAIT_RSP" =>
               Stays(pAd.assoc = "ASSOC_WAIT_RSP", w, "Assoc", "ASSOC_TIMEOUT")
          /\ w.assoc = "DISASSOC_WAIT_RSP" =>
               Stays(pAd.assoc = "DISASSOC_WAIT_RSP", w, "Disassoc", "DISASSOC_TIMEOUT")
      BY <2>1, <2>7 DEF Stays
    <2>9. Fits(w, Bound) BY <2>1, <2>6, <2>7, <2>8, Moves
    <2> QED BY <2>4, <2>9, Lands
  <1>5. CASE PeerAuthRspAtSeq2Action
    <2>1. /\ pAd.q # <<>> /\ Elem.k = "AUTH_RSP" /\ Elem.ok \in BOOLEAN
          /\ Fits(Rest, n)
      BY <1>1, <1>5, GetsGood, MessageFields, RestFits
         DEF PeerAuthRspAtSeq2Action, Gets, Special, n
    <2>2. \/ Do(MlmeEnqueue([Rest EXCEPT !.auth = "AUTH_REQ_IDLE",
                                         !.tm = Rest.tm \ {"Auth"}],
                            Conf("AUTH_CONF", Elem.ok)))
          \/ Do(Rest)
      BY <1>5 DEF PeerAuthRspAtSeq2Action
    <2>3. Fits(MlmeEnqueue([Rest EXCEPT !.auth = "AUTH_REQ_IDLE",
                                        !.tm = Rest.tm \ {"Auth"}],
                           Conf("AUTH_CONF", Elem.ok)), Bound)
      BY <2>1, AuthIdle DEF Special
    <2> QED BY <1>2, <2>1, <2>2, <2>3
  <1>6. ASSUME pAd.q # <<>>, Elem.k \in {"AUTH_TIMEOUT", "AUTH_REQ"}, AuthFails
        PROVE  Fits(pAd, Bound)'
    <2>1. Fits(MlmeEnqueue([Rest EXCEPT !.auth = "AUTH_REQ_IDLE", !.tm = Rest.tm],
                           Conf("AUTH_CONF", FALSE)), Bound)
      BY <1>6, AuthIdle DEF Special
    <2>2. Fits(MlmeEnqueue([Rest EXCEPT !.auth = "AUTH_REQ_IDLE"],
                           Conf("AUTH_CONF", FALSE)), Bound)
      BY <1>1, <1>6, <2>1, SameTimers
    <2> QED BY <1>2, <1>6, <2>2 DEF AuthFails
  <1>7. CASE AuthTimeoutAction BY <1>6, <1>7 DEF AuthTimeoutAction, Gets
  <1>8. CASE InvalidStateWhenAuth BY <1>6, <1>8 DEF InvalidStateWhenAuth, Gets
  <1>9. CASE PeerDeauthAction
    <2>1. Good(Rest) /\ Fits(Rest, n)
      BY <1>1, <1>9, GetsGood, RestFits DEF PeerDeauthAction, Special, n
    <2>2. Good(LinkDown(Rest)) /\ Fits(LinkDown(Rest), n) BY <2>1, LinkDownFits
    <2>3. Fits(IterateOnBssTab(NextBss(LinkDown(Rest))), Bound)
      BY <1>1, <2>2, NextFits
    <2> QED BY <1>2, <1>9, <2>1, <2>2, <2>3 DEF PeerDeauthAction
  <1> QED BY <1>4, <1>5, <1>7, <1>8, <1>9

LEMMA AssocWaits ==
  ASSUME Calm, WaitInv,
         \/ MlmeAssocReqAction \/ PeerAssocRspAction \/ AssocTimeoutAction
         \/ InvalidStateWhenAssoc \/ MlmeDisassocReqAction \/ DisassocTimeoutAction
         \/ InvalidStateWhenDisassociate \/ PeerDisassocAction
  PROVE  Fits(pAd, Bound)'
  <1> DEFINE n == Bound - 1
             idle == [Rest EXCEPT !.assoc = "ASSOC_IDLE"]
             quiet == [Rest EXCEPT !.assoc = "ASSOC_IDLE", !.tm = Rest.tm \ {"Assoc"}]
  <1>1. /\ n \in Int /\ n < MAX_LEN_OF_MLME_QUEUE /\ n + 1 = Bound /\ StaInv
    BY BoundIs DEF WaitInv
  <1>2. \A t : Fits(t, n) \/ Fits(t, Bound) => (Do(t) => Fits(pAd, Bound)')
    BY Lands DEF Do
  <1>3. pAd.q # <<>> =>
          /\ Rest \in Adapters /\ Rest.nr <= Len(Rest.tab) /\ Rest.q = Tail(pAd.q)
          /\ Rest.cntl = pAd.cntl /\ Rest.sync = pAd.sync /\ Rest.tm = pAd.tm
          /\ Rest.assoc = pAd.assoc /\ Rest.auth = pAd.auth
    BY <1>1, RestIs
  <1>4. ASSUME pAd.q # <<>>, Elem.k \notin {"BEACON_TIMEOUT", "AUTH_TIMEOUT"}
        PROVE  Fits(idle, n) /\ Fits(quiet, n)
    BY <1>1, <1>4, AssocIdle, SameTimers
  <1>5. \A t, k, ok : /\ Fits(t, n) /\ k \in {"ASSOC_CONF", "DISASSOC_CONF"}
                      /\ ok \in BOOLEAN
                      => Fits(MlmeEnqueue(t, Conf(k, ok)), Bound)
    BY <1>1, ConfFits
  <1>6. ASSUME NEW k \in {"ASSOC_CONF", "DISASSOC_CONF"}, Do(AssocFails(Rest, k)),
               pAd.q # <<>>, Elem.k \notin {"BEACON_TIMEOUT", "AUTH_TIMEOUT"}
        PROVE  Fits(pAd, Bound)'
    <2>1. AssocFails(Rest, k) = MlmeEnqueue(idle, Conf(k, FALSE))
      BY DEF AssocFails
    <2>2. Fits(idle, n) BY <1>4, <1>6
    <2> HIDE DEF idle, quiet, n
    <2> QED BY <1>2, <1>5, <1>6, <2>1, <2>2
  <1> HIDE DEF n, idle, quiet
  <1>7. CASE MlmeAssocReqAction
    <2> DEFINE a == Elem.b
               m == Rest.tm \ {"Assoc"}
               p == m \cup {"Assoc"}
               s == [Rest EXCEPT !.aux = a, !.tm = m]
               w == [s EXCEPT !.assoc = "ASSOC_WAIT_RSP", !.tm = p]
    <2>1. pAd.q # <<>> /\ Elem.k = "ASSOC_REQ" /\ a \in Address
      BY <1>1, <1>7, GetsGood, MessageFields DEF MlmeAssocReqAction, Gets
    <2>2. /\ m \subseteq Timers /\ p \subseteq Timers
          /\ p \subseteq pAd.tm \cup {"Assoc"} /\ "Assoc" \in p /\ pAd.tm \subseteq p
      BY <1>3, <2>1 DEF Adapters, Timers
    <2>3. s.tm = m BY <1>3, <2>1 DEF Adapters
    <2>4. pAd' = w /\ req' = req
      <3>1. Send([s EXCEPT !.assoc = "ASSOC_WAIT_RSP", !.tm = s.tm \cup {"Assoc"}],
                 To("ASSOC", a))
        BY <1>7, CalmMemory DEF MlmeAssocReqAction
      <3> QED BY <2>3, <3>1 DEF Send
    <2> HIDE DEF a, m, p
    <2>5. /\ s \in Adapters /\ s.nr = Rest.nr /\ s.tab = Rest.tab /\ s.q = Rest.q
          /\ s.sync = Rest.sync /\ s.tm = m /\ s.cntl = Rest.cntl
          /\ s.auth = Rest.auth
      BY <1>3, <2>1, <2>2 DEF Adapters
    <2> HIDE DEF s
    <2>6. /\ w \in Adapters /\ w.nr = s.nr /\ w.tab = s.tab /\ w.q = s.q
          /\ w.sync = s.sync /\ w.tm = p /\ w.cntl = s.cntl
          /\ w.auth = s.auth /\ w.assoc = "ASSOC_WAIT_RSP"
      BY <2>2, <2>5 DEF Adapters, AssocStates
    <2> HIDE DEF w
    <2>7. /\ w.nr <= Len(w.tab) /\ w.q = Rest.q /\ w.tm \subseteq pAd.tm \cup {"Assoc"}
          /\ w.sync = pAd.sync /\ w.cntl = pAd.cntl /\ w.auth = pAd.auth
          /\ "Assoc" \in w.tm /\ pAd.tm \subseteq w.tm
      BY <1>3, <2>1, <2>2, <2>5, <2>6
    <2>8. /\ w.sync = "JOIN_WAIT_BEACON" =>
               Stays(pAd.sync = "JOIN_WAIT_BEACON", w, "Beacon", "BEACON_TIMEOUT")
          /\ w.auth = "AUTH_WAIT_SEQ2" =>
               Stays(pAd.auth = "AUTH_WAIT_SEQ2", w, "Auth", "AUTH_TIMEOUT")
          /\ Stays(pAd.assoc = "ASSOC_WAIT_RSP", w, "Assoc", "ASSOC_TIMEOUT")
      BY <2>1, <2>7 DEF Stays
    <2>9. w.assoc # "DISASSOC_WAIT_RSP" BY <2>6
    <2>10. Fits(w, Bound) BY <2>1, <2>6, <2>7, <2>8, <2>9, Moves
    <2> QED BY <2>4, <2>10, Lands
  <1>8. CASE PeerAssocRspAction
    <2>1. /\ pAd.q # <<>> /\ Elem.k = "ASSOC_RSP" /\ Elem.ok \in BOOLEAN
          /\ Fits(Rest, n)
      BY <1>1, <1>8, GetsGood, MessageFields, RestFits
         DEF PeerAssocRspAction, Gets, Special, n
    <2>2. Do(MlmeEnqueue(quiet, Conf("ASSOC_CONF", Elem.ok))) \/ Do(Rest)
      BY <1>8 DEF PeerAssocRspAction, quiet
    <2>3. Fits(MlmeEnqueue(quiet, Conf("ASSOC_CONF", Elem.ok)), Bound)
      <3>1. Fits(quiet, n) BY <1>4, <2>1
      <3> QED BY <1>5, <2>1, <3>1
    <2> QED BY <1>2, <2>1, <2>2, <2>3
  <1>9. CASE AssocTimeoutAction BY <1>6, <1>9 DEF AssocTimeoutAction, Gets
  <1>10. CASE InvalidStateWhenAssoc
    BY <1>6, <1>10 DEF InvalidStateWhenAssoc, Gets
  <1>11. CASE MlmeDisassocReqAction
    <2> DEFINE p == Rest.tm \cup {"Disassoc"}
               s == [Rest EXCEPT !.assoc = "DISASSOC_WAIT_RSP", !.tm = p]
    <2>1. pAd.q # <<>> /\ Elem.k = "DISASSOC_REQ"
      BY <1>11 DEF MlmeDisassocReqAction, Gets
    <2>2. /\ p \subseteq Timers /\ p = pAd.tm \cup {"Disassoc"}
      BY <1>3, <2>1 DEF Adapters, Timers
    <2>3. pAd' = s /\ req' = req
      BY <1>11, CalmMemory DEF MlmeDisassocReqAction, Send
    <2> HIDE DEF p
    <2>4. /\ s \in Adapters /\ s.nr = Rest.nr /\ s.tab = Rest.tab /\ s.q = Rest.q
          /\ s.sync = Rest.sync /\ s.tm = p /\ s.cntl = Rest.cntl
          /\ s.auth = Rest.auth /\ s.assoc = "DISASSOC_WAIT_RSP"
      BY <1>3, <2>1, <2>2 DEF Adapters, AssocStates
    <2> HIDE DEF s
    <2>5. /\ s.nr <= Len(s.tab) /\ s.tm = pAd.tm \cup {"Disassoc"}
          /\ s.sync = pAd.sync /\ s.cntl = pAd.cntl /\ s.auth = pAd.auth
          /\ s.tm \subseteq pAd.tm \cup {"Disassoc"}
      BY <1>3, <2>1, <2>2, <2>4
    <2>6. /\ s.sync = "JOIN_WAIT_BEACON" =>
               Stays(pAd.sync = "JOIN_WAIT_BEACON", s, "Beacon", "BEACON_TIMEOUT")
          /\ s.auth = "AUTH_WAIT_SEQ2" =>
               Stays(pAd.auth = "AUTH_WAIT_SEQ2", s, "Auth", "AUTH_TIMEOUT")
          /\ Stays(pAd.assoc = "DISASSOC_WAIT_RSP", s, "Disassoc", "DISASSOC_TIMEOUT")
      BY <2>1, <2>5 DEF Stays
    <2>7. s.assoc # "ASSOC_WAIT_RSP" BY <2>4
    <2>8. Fits(s, Bound) BY <2>1, <2>4, <2>5, <2>6, <2>7, Moves
    <2> QED BY <2>3, <2>8, Lands
  <1>12. CASE DisassocTimeoutAction
    <2>1. Fits(idle, n) /\ Do(MlmeEnqueue(idle, Conf("DISASSOC_CONF", TRUE)))
      BY <1>4, <1>12 DEF DisassocTimeoutAction, Gets, idle
    <2> QED BY <1>2, <1>5, <2>1
  <1>13. CASE InvalidStateWhenDisassociate
    BY <1>6, <1>13 DEF InvalidStateWhenDisassociate, Gets
  <1>14. CASE PeerDisassocAction
    <2>1. /\ Good(Rest) /\ Fits(Rest, n) /\ pAd.q # <<>> /\ Elem.k = "DISASSOC"
      BY <1>1, <1>14, GetsGood, RestFits DEF PeerDisassocAction, Gets, Special,
           n
    <2>2. \/ Do(MlmeEnqueue(idle, Conf("DISASSOC_CONF", TRUE))) \/ Do(LinkDown(idle))
          \/ Do(Rest)
      BY <1>14 DEF PeerDisassocAction, idle
    <2>3. Fits(idle, n) BY <1>4, <2>1
    <2>4. Good(idle)
      <3>1. /\ idle \in Adapters /\ idle.nr = Rest.nr /\ idle.tab = Rest.tab
            /\ idle.q = Rest.q /\ idle.sync = Rest.sync /\ idle.tm = Rest.tm
            /\ Rest.nr <= Len(Rest.tab)
        BY <1>3, <2>1 DEF idle, Adapters, AssocStates
      <3> QED BY <2>1, <3>1, StaysGood
    <2>5. Fits(LinkDown(idle), n) BY <2>3, <2>4, LinkDownFits
    <2> QED BY <1>2, <1>5, <2>1, <2>2, <2>3, <2>5
  <1> QED BY <1>7, <1>8, <1>9, <1>10, <1>11, <1>12, <1>13, <1>14

(* A timer's message is dropped only while its machine does not wait. *)
LEMMA MachinesFits ==
  ASSUME Calm, WaitInv, StateMachineDrop \/ MlmeRestartStateMachine
  PROVE  Fits(pAd, Bound)'
  <1>1. StaInv BY DEF WaitInv
  <1>2. pAd.q # <<>> =>
          /\ Rest \in Adapters /\ Rest.nr <= Len(Rest.tab) /\ Rest.q = Tail(pAd.q)
          /\ Rest.cntl = pAd.cntl /\ Rest.sync = pAd.sync /\ Rest.tm = pAd.tm
          /\ Rest.assoc = pAd.assoc /\ Rest.auth = pAd.auth
    BY <1>1, RestIs
  <1>3. CASE StateMachineDrop
    <2>1. pAd.q # <<>> /\ ~Taken(Elem) /\ Do(Rest) BY <1>3 DEF StateMachineDrop
    <2>2. /\ Table["BEACON_TIMEOUT"] = <<"sync", {"JOIN_WAIT_BEACON"}>>
          /\ Table["AUTH_TIMEOUT"] = <<"auth", {"AUTH_WAIT_SEQ2"}>>
          /\ Table["ASSOC_TIMEOUT"] = <<"assoc", {"ASSOC_WAIT_RSP"}>>
          /\ Table["DISASSOC_TIMEOUT"] = <<"assoc", {"DISASSOC_WAIT_RSP"}>>
          /\ Table["ASSOC_REQ"] = <<"assoc", AssocStates>>
      BY DEF Table
    <2>3. pAd.assoc \in AssocStates BY <1>1 DEF StaInv, Good, Typed, Adapters
    <2>4. /\ Elem.k = "BEACON_TIMEOUT" => pAd.sync # "JOIN_WAIT_BEACON"
          /\ Elem.k = "AUTH_TIMEOUT" => pAd.auth # "AUTH_WAIT_SEQ2"
          /\ Elem.k = "ASSOC_TIMEOUT" => pAd.assoc # "ASSOC_WAIT_RSP"
          /\ Elem.k = "DISASSOC_TIMEOUT" => pAd.assoc # "DISASSOC_WAIT_RSP"
          /\ Elem.k # "ASSOC_REQ"
      BY <2>1, <2>2, <2>3 DEF Taken
    <2> DEFINE t == Rest
    <2>5. /\ t \in Adapters /\ t.nr <= Len(t.tab) /\ t.q = Rest.q /\ t.tm = pAd.tm
          /\ t.cntl = pAd.cntl /\ t.sync = pAd.sync
          /\ t.assoc = pAd.assoc /\ t.auth = pAd.auth
          /\ t.tm \subseteq pAd.tm \cup {"Scan"}
      BY <1>2, <2>1
    <2> HIDE DEF t
    <2>6. /\ t.sync = "JOIN_WAIT_BEACON" =>
               Stays(pAd.sync = "JOIN_WAIT_BEACON", t, "Beacon", "BEACON_TIMEOUT")
          /\ t.auth = "AUTH_WAIT_SEQ2" =>
               Stays(pAd.auth = "AUTH_WAIT_SEQ2", t, "Auth", "AUTH_TIMEOUT")
          /\ t.assoc = "ASSOC_WAIT_RSP" =>
               Stays(pAd.assoc = "ASSOC_WAIT_RSP", t, "Assoc", "ASSOC_TIMEOUT")
          /\ t.assoc = "DISASSOC_WAIT_RSP" =>
               Stays(pAd.assoc = "DISASSOC_WAIT_RSP", t, "Disassoc", "DISASSOC_TIMEOUT")
      BY <2>4, <2>5 DEF Stays
    <2>7. Fits(t, Bound) BY <2>1, <2>4, <2>5, <2>6, Moves
    <2> QED BY <2>1, <2>7, Lands DEF Do, t
  <1>4. CASE MlmeRestartStateMachine
    <2> DEFINE m == Rest.tm \cap {"LinkDown"}
               s == [Rest EXCEPT !.cntl = "CNTL_IDLE", !.sync = "SYNC_IDLE",
                                 !.assoc = "ASSOC_IDLE", !.auth = "AUTH_REQ_IDLE",
                                 !.susp = FALSE, !.tm = m]
    <2>1. pAd.q # <<>> BY <1>4 DEF MlmeRestartStateMachine, Gets
    <2>2. m \subseteq Timers /\ m \subseteq pAd.tm \cup {"Scan"}
      BY <1>2, <2>1 DEF Adapters
    <2>3. Do(s) BY <1>4 DEF MlmeRestartStateMachine
    <2> HIDE DEF m
    <2>4. s \in Adapters
      BY ZenonT(60), <1>2, <2>1, <2>2 DEF Adapters, CntlStates, SyncStates,
           AssocStates, AuthStates
    <2>5. /\ s.nr = Rest.nr /\ s.tab = Rest.tab /\ s.q = Rest.q /\ s.tm = m
          /\ s.cntl = "CNTL_IDLE" /\ s.sync = "SYNC_IDLE"
          /\ s.assoc = "ASSOC_IDLE" /\ s.auth = "AUTH_REQ_IDLE"
      BY <1>2, <2>1 DEF Adapters
    <2> HIDE DEF s
    <2>6. s.nr <= Len(s.tab) /\ s.tm \subseteq pAd.tm \cup {"Scan"}
      BY <1>2, <2>1, <2>2, <2>5
    <2>7. Fits(s, Bound) BY <2>1, <2>4, <2>5, <2>6, Moves
    <2> QED BY <2>3, <2>7, Lands DEF Do
  <1> QED BY <1>3, <1>4

-----------------------------------------------------------------------------
(* Timers, the periodic work, users and access points.  An expired timer     *)
(* leaves its message.                                                       *)
LEMMA Expires ==
  ASSUME Calm, WaitInv, NEW t \in Timers, t \in pAd.tm, NEW m \in Messages,
         t = "Beacon" => m.k = "BEACON_TIMEOUT",
         t = "Auth" => m.k = "AUTH_TIMEOUT",
         t = "Assoc" => m.k = "ASSOC_TIMEOUT",
         t = "Disassoc" => m.k = "DISASSOC_TIMEOUT",
         m.k # "DISASSOC_REQ"
  PROVE  LET s == [pAd EXCEPT !.tm = pAd.tm \ {t}] IN
         /\ Typed(s) /\ Len(s.q) < MAX_LEN_OF_MLME_QUEUE
         /\ t \in {"Scan", "LinkDown"} => Fits(s, Bound - 1)
         /\ Fits(MlmeEnqueue(s, m), Bound)
  <1> DEFINE p == pAd.tm \ {t}
             s == [pAd EXCEPT !.tm = p]
             e == MlmeEnqueue(s, m)
  <1>1. /\ pAd \in Adapters /\ pAd.nr <= Len(pAd.tab) /\ Typed(pAd) /\ WaitsTimed(pAd)
        /\ Load(pAd) <= Bound /\ Load(pAd) \in Nat /\ p \subseteq Timers
    BY TypedIs DEF WaitInv, Fits, Typed, Adapters
  <1>2. Running(p) = Running(pAd.tm) - 1 /\ Running(p) \in 0..6 BY RunningIs
  <1>3. \A x \in pAd.tm : x # t => x \in p OBVIOUS
  <1> HIDE DEF p
  <1>4. /\ s \in Adapters /\ s.nr = pAd.nr /\ s.tab = pAd.tab /\ s.q = pAd.q
        /\ s.sync = pAd.sync /\ s.tm = p /\ s.cntl = pAd.cntl
        /\ s.auth = pAd.auth /\ s.assoc = pAd.assoc
    BY <1>1 DEF Adapters
  <1> HIDE DEF s
  <1>5. Typed(s) BY <1>1, <1>4 DEF Typed
  <1>6. Load(s) = Load(pAd) - 1
    <2>1. Running(pAd.tm) \in 0..6 /\ Len(pAd.q) \in Nat
      BY <1>1, RunningIs, TypedIs
    <2> QED BY <1>2, <1>4, <2>1 DEF Load
  <1>7. Load(s) \in Nat /\ Load(s) <= Bound - 1
    BY <1>1, <1>5, <1>6, BoundIs, TypedIs
  <1>8. Len(s.q) < MAX_LEN_OF_MLME_QUEUE
    BY <1>5, <1>7, BoundIs, TypedIs, Constants
  <1>9. t \in {"Scan", "LinkDown"} => Fits(s, Bound - 1)
    <2>1. t \in {"Scan", "LinkDown"} => WaitsTimed(s)
      BY <1>1, <1>3, <1>4 DEF WaitsTimed
    <2> QED BY <1>5, <1>7, <2>1 DEF Fits
  <1>10. /\ Typed(e) /\ Load(e) = Load(s) + 1
         /\ e.cntl = s.cntl /\ e.sync = s.sync /\ e.assoc = s.assoc
         /\ e.auth = s.auth /\ e.tm = s.tm
         /\ Queued(e.q, m.k) /\ \A k : Queued(s.q, k) => Queued(e.q, k)
         /\ Overtaken(s.q) => Overtaken(e.q)
    BY <1>5, <1>8, EnqueueIs
  <1> HIDE DEF e
  <1>11. WaitsTimed(e)
    <2>1. e.sync = "JOIN_WAIT_BEACON" => "Beacon" \in e.tm \/ Queued(e.q, "BEACON_TIMEOUT")
      BY <1>1, <1>3, <1>4, <1>10 DEF WaitsTimed
    <2>2. e.auth = "AUTH_WAIT_SEQ2" => "Auth" \in e.tm \/ Queued(e.q, "AUTH_TIMEOUT")
      BY <1>1, <1>3, <1>4, <1>10 DEF WaitsTimed
    <2>3. e.assoc = "ASSOC_WAIT_RSP" => "Assoc" \in e.tm \/ Queued(e.q, "ASSOC_TIMEOUT")
      BY <1>1, <1>3, <1>4, <1>10 DEF WaitsTimed
    <2>4. e.assoc = "DISASSOC_WAIT_RSP" =>
            \/ "Disassoc" \in e.tm \/ Queued(e.q, "DISASSOC_TIMEOUT")
            \/ Queued(e.q, "ASSOC_REQ")
      BY <1>1, <1>3, <1>4, <1>10 DEF WaitsTimed
    <2>5. e.cntl = "CNTL_WAIT_ASSOC" =>
            /\ Overtaken(e.q)
            /\ e.assoc = "DISASSOC_WAIT_RSP" => Queued(e.q, "ASSOC_REQ")
      BY <1>1, <1>4, <1>10 DEF WaitsTimed
    <2> QED BY <2>1, <2>2, <2>3, <2>4, <2>5 DEF WaitsTimed
  <1>12. Load(e) <= Bound BY <1>1, <1>6, <1>10
  <1> QED BY <1>5, <1>8, <1>9, <1>10, <1>11, <1>12 DEF Fits, e, s, p

LEMMA TimerFits ==
  ASSUME Calm, WaitInv, NEW t \in Timers, TimerFires(t)
  PROVE  Fits(pAd, Bound)'
  <1> DEFINE s == [pAd EXCEPT !.tm = pAd.tm \ {t}]
  <1>1. t \in pAd.tm BY DEF TimerFires
  <1>2. \A k \in Plain : Msg(k) \in Messages /\ Msg(k).k = k
    BY MessagesMade DEF Msg
  <1>3. \A k \in {"BEACON_TIMEOUT", "AUTH_TIMEOUT", "ASSOC_TIMEOUT",
                  "DISASSOC_TIMEOUT", "SCAN_TIMEOUT"} :
          Msg(k) \in Messages /\ Msg(k).k = k
    BY <1>2 DEF Plain
  <1>4. \/ /\ t = "Auth"
           /\ IF pAd.auth = "AUTH_WAIT_SEQ2"
              THEN Send(MlmeEnqueue(s, Msg("AUTH_TIMEOUT")), To("LEAVE", pAd.aux))
              ELSE Do(MlmeEnqueue(s, Msg("AUTH_TIMEOUT")))
        \/ t = "Scan" /\ ScanTimeout(s)
        \/ /\ t = "LinkDown"
           /\ Do(IF ~s.secured /\ s.infra THEN RequestDisassoc(s, "CNTL_WAIT_DISASSOC")
                 ELSE s)
        \/ t = "Beacon" /\ Do(MlmeEnqueue(s, Msg("BEACON_TIMEOUT")))
        \/ t = "Assoc" /\ Do(MlmeEnqueue(s, Msg("ASSOC_TIMEOUT")))
        \/ t = "Disassoc" /\ Do(MlmeEnqueue(s, Msg("DISASSOC_TIMEOUT")))
    BY Zenon, TimerDoes
  <1>5. CASE t = "Auth"
    <2>1. pAd' = MlmeEnqueue(s, Msg("AUTH_TIMEOUT")) /\ req' = req
      BY <1>4, <1>5 DEF Do, Send
    <2>2. Fits(MlmeEnqueue(s, Msg("AUTH_TIMEOUT")), Bound)
      BY <1>1, <1>3, <1>5, Expires
    <2> HIDE DEF s
    <2> QED BY <2>1, <2>2, Lands
  <1>6. CASE t = "Beacon"
    <2>1. Do(MlmeEnqueue(s, Msg("BEACON_TIMEOUT"))) BY <1>4, <1>6
    <2>2. Fits(MlmeEnqueue(s, Msg("BEACON_TIMEOUT")), Bound)
      BY <1>1, <1>3, <1>6, Expires
    <2> HIDE DEF s
    <2> QED BY <2>1, <2>2, Lands DEF Do
  <1>7. CASE t = "Assoc"
    <2>1. Do(MlmeEnqueue(s, Msg("ASSOC_TIMEOUT"))) BY <1>4, <1>7
    <2>2. Fits(MlmeEnqueue(s, Msg("ASSOC_TIMEOUT")), Bound)
      BY <1>1, <1>3, <1>7, Expires
    <2> HIDE DEF s
    <2> QED BY <2>1, <2>2, Lands DEF Do
  <1>8. CASE t = "Disassoc"
    <2>1. Do(MlmeEnqueue(s, Msg("DISASSOC_TIMEOUT"))) BY <1>4, <1>8
    <2>2. Fits(MlmeEnqueue(s, Msg("DISASSOC_TIMEOUT")), Bound)
      BY <1>1, <1>3, <1>8, Expires
    <2> HIDE DEF s
    <2> QED BY <2>1, <2>2, Lands DEF Do
  <1>9. CASE t = "Scan"
    <2>1. /\ Fits(MlmeEnqueue(s, Msg("SCAN_TIMEOUT")), Bound)
          /\ Typed(s) /\ Len(s.q) < MAX_LEN_OF_MLME_QUEUE
      BY <1>1, <1>3, <1>9, Expires
    <2>2. ScanTimeout(s) BY <1>4, <1>9
    <2> HIDE DEF s
    <2>3. Len(s.q) \in Nat BY <2>1, TypedIs
    <2>4. ~(Len(s.q) >= MAX_LEN_OF_MLME_QUEUE) BY <2>1, <2>3, Constants
    <2>5. Do(MlmeEnqueue(s, Msg("SCAN_TIMEOUT"))) BY <2>2, <2>4 DEF ScanTimeout
    <2> QED BY <2>1, <2>5, Lands DEF Do
  <1>10. CASE t = "LinkDown"
    <2>1. Fits(s, Bound - 1) BY <1>1, <1>3, <1>10, Expires
    <2>2. Do(RequestDisassoc(s, "CNTL_WAIT_DISASSOC")) \/ Do(s) BY <1>4, <1>10
    <2> HIDE DEF s
    <2>3. Fits(RequestDisassoc(s, "CNTL_WAIT_DISASSOC"), Bound)
      BY <2>1, BoundIs, DisassocFits DEF CntlStates
    <2> QED BY <2>1, <2>2, <2>3, Lands DEF Do
  <1> QED BY <1>5, <1>6, <1>7, <1>8, <1>9, <1>10 DEF Timers

(* Whatever comes from outside finds little and adds two messages at most. *)
LEMMA RoomFits ==
  ASSUME Calm, WaitInv, Room
  PROVE  /\ Fits(pAd, MaxQ + 5) /\ MaxQ \in Nat
         /\ MaxQ + 5 < MAX_LEN_OF_MLME_QUEUE /\ MaxQ + 6 < MAX_LEN_OF_MLME_QUEUE
         /\ \A s : Fits(s, MaxQ + 5) => Fits(s, MaxQ + 6) /\ Fits(s, MaxQ + 7)
         /\ \A s : Fits(s, MaxQ + 6) => Fits(s, MaxQ + 7)
  <1>1. /\ Typed(pAd) /\ WaitsTimed(pAd) /\ MaxQ \in Nat /\ Len(pAd.q) < MaxQ
        /\ MAX_LEN_OF_MLME_QUEUE \in Nat /\ MaxQ + 8 <= MAX_LEN_OF_MLME_QUEUE
    BY BoundIs, Constants DEF WaitInv, Fits, Room, Calm
  <1>2. Load(pAd) \in Nat /\ Len(pAd.q) \in Nat /\ Load(pAd) <= Len(pAd.q) + 6
    BY <1>1, TypedIs
  <1>3. Load(pAd) <= MaxQ + 5 BY <1>1, <1>2
  <1>4. /\ MaxQ + 5 \in Int /\ MaxQ + 6 \in Int /\ MaxQ + 7 \in Int
        /\ MaxQ + 5 <= MaxQ + 6 /\ MaxQ + 5 <= MaxQ + 7 /\ MaxQ + 6 <= MaxQ + 7
    BY <1>1
  <1>5. ASSUME NEW s, Fits(s, MaxQ + 5)
        PROVE  Fits(s, MaxQ + 6) /\ Fits(s, MaxQ + 7)
    BY <1>4, <1>5, FitsMore
  <1>6. ASSUME NEW s, Fits(s, MaxQ + 6) PROVE Fits(s, MaxQ + 7)
    BY <1>4, <1>6, FitsMore
  <1>7. MaxQ + 5 < MAX_LEN_OF_MLME_QUEUE /\ MaxQ + 6 < MAX_LEN_OF_MLME_QUEUE
    BY <1>1
  <1> QED BY <1>1, <1>3, <1>5, <1>6, <1>7 DEF Fits

LEMMA ComesIn ==
  ASSUME Calm, NEW s, Fits(s, MaxQ + 7), pAd' = s
  PROVE  Fits(pAd, Bound)'
  <1>1. /\ Bound' \in Int /\ MaxQ + 7 \in Int /\ MaxQ + 7 <= Bound'
    BY StaAssumption DEF Bound, StaAssumption
  <1>2. Fits(s, Bound') BY <1>1, FitsMore
  <1> QED BY <1>2 DEF Fits, Typed, WaitsTimed, Load

LEMMA PeriodicFits ==
  ASSUME Calm, WaitInv,
         \/ \E quality \in {"good", "dead", "bad", "weak"} : PeriodicInfra(quality)
         \/ PeriodicReconnect
  PROVE  Fits(pAd, Bound)'
  <1> DEFINE a == MaxQ + 5
             b == MaxQ + 6
             c == MaxQ + 7
  <1>1. Good(pAd) /\ Room
    BY DEF WaitInv, StaInv, PeriodicInfra, PeriodicReconnect
  <1>2. /\ Fits(pAd, a) /\ a \in Int /\ b \in Int
        /\ a < MAX_LEN_OF_MLME_QUEUE /\ b < MAX_LEN_OF_MLME_QUEUE
        /\ a + 1 = b /\ b + 1 = c
        /\ \A s : Fits(s, a) => Fits(s, b) /\ Fits(s, c)
        /\ \A s : Fits(s, b) => Fits(s, c)
    BY <1>1, RoomFits
  <1>3. \A s : Fits(s, c) /\ Do(s) => Fits(pAd, Bound)' BY ComesIn DEF Do
  <1>4. \A k \in Plain : Msg(k) \in Messages BY MessagesMade
  <1> HIDE DEF a, b, c
  <1>5. CASE \E quality \in {"good", "dead", "bad", "weak"} : PeriodicInfra(quality)
    <2> DEFINE s == IF pAd.improved /\ pAd.sync = "SCAN_PENDING"
                    THEN MlmeEnqueue(pAd, Msg("SCAN_REQ")) ELSE pAd
               n == [s EXCEPT !.ndis = FALSE]
    <2>1. Good(s) /\ Fits(s, b)
      <3>1. Good(MlmeEnqueue(pAd, Msg("SCAN_REQ")))
            /\ Fits(MlmeEnqueue(pAd, Msg("SCAN_REQ")), b)
        BY <1>1, <1>2, <1>4, EnqueueGood, PlainFits DEF Plain
      <3> QED BY <1>1, <1>2, <3>1
    <2>2. \/ Do(s) \/ Do(AutoReconnect(LinkDown(n))) \/ Do(AutoReconnect(s))
          \/ Do(MlmeEnqueue(s, Msg("OID_LIST_SCAN")))
          \/ \E S \in SUBSET (pAd.scan \ {pAd.cur}) \ {{}} :
               Do(MlmeEnqueue(s, RoamingReq(S)))
      BY <1>5, Zenon, PeriodicDoes
    <2>3. pAd.scan \subseteq Bss BY <1>1 DEF Good, Typed, Adapters
    <2> HIDE DEF s
    <2>4. /\ n \in Adapters /\ n.nr = s.nr /\ n.tab = s.tab /\ n.q = s.q
          /\ n.sync = s.sync /\ n.tm = s.tm /\ Same(s, n) /\ s.nr <= Len(s.tab)
      BY <2>1 DEF Good, Typed, Adapters, Same
    <2> HIDE DEF n
    <2>5. Good(n) /\ Fits(n, b) BY <2>1, <2>4, StaysGood, UpdateFits
    <2>6. Fits(LinkDown(n), b) BY <2>5, LinkDownFits
    <2>7. Fits(AutoReconnect(LinkDown(n)), c) /\ Fits(AutoReconnect(s), c)
      BY <1>2, <2>1, <2>6, ResetFits
    <2>8. Fits(MlmeEnqueue(s, Msg("OID_LIST_SCAN")), c)
      BY <1>2, <2>1, PlainFits DEF Plain
    <2>9. ASSUME NEW S \in SUBSET (pAd.scan \ {pAd.cur}) \ {{}}
          PROVE  Fits(MlmeEnqueue(s, RoamingReq(S)), c)
      <3>1. RoamingReq(S) \in Messages BY <2>3, MessagesMade
      <3>2. RoamingReq(S).k # "DISASSOC_REQ" BY DEF RoamingReq
      <3> QED BY <1>2, <2>1, <3>1, <3>2, EnqueueFits
    <2> QED BY <1>2, <1>3, <2>1, <2>2, <2>7, <2>8, <2>9
  <1>6. CASE PeriodicReconnect
    <2>1. Fits(RequestScan(pAd), c) /\ Fits(AutoReconnect(pAd), c)
      BY <1>2, ScanFits, ResetFits
    <2> QED BY <1>3, <1>6, <2>1 DEF PeriodicReconnect
  <1> QED BY <1>5, <1>6

LEMMA BeginsFits ==
  ASSUME Calm, WaitInv, NEW r, UserBegins(r)
  PROVE  Fits(pAd, Bound)'
  <1> DEFINE a == [pAd EXCEPT !.auto = FALSE]
             c == [pAd EXCEPT !.improved = TRUE, !.cnt = 0]
             d == [pAd EXCEPT !.ndis = TRUE]
             n == MaxQ + 6
  <1>1. pAd \in Adapters /\ pAd.nr <= Len(pAd.tab) /\ Room
    BY DEF WaitInv, StaInv, Good, Typed, UserBegins
  <1>2. Fits(pAd, n) /\ n \in Int /\ n < MAX_LEN_OF_MLME_QUEUE /\ n + 1 = MaxQ + 7
    BY <1>1, RoomFits
  <1>3. pAd' \in {Reset(a), Reset(c), Reset(d), Reset(pAd)} BY BeginsDoes
  <1>4. a \in Adapters /\ a.nr = pAd.nr /\ a.tab = pAd.tab /\ Same(pAd, a)
    BY <1>1 DEF Adapters, Same
  <1>5. 0 \in 0..Burst BY Constants
  <1>6. c \in Adapters /\ c.nr = pAd.nr /\ c.tab = pAd.tab /\ Same(pAd, c)
    BY <1>1, <1>5 DEF Adapters, Same
  <1>7. d \in Adapters /\ d.nr = pAd.nr /\ d.tab = pAd.tab /\ Same(pAd, d)
    BY <1>1 DEF Adapters, Same
  <1> HIDE DEF a, c, d, n
  <1>8. Fits(a, n) /\ Fits(c, n) /\ Fits(d, n)
    BY <1>1, <1>2, <1>4, <1>6, <1>7, UpdateFits
  <1>9. /\ Fits(Reset(a), MaxQ + 7) /\ Fits(Reset(c), MaxQ + 7)
        /\ Fits(Reset(d), MaxQ + 7) /\ Fits(Reset(pAd), MaxQ + 7)
    BY <1>2, <1>8, ResetFits
  <1> QED BY <1>3, <1>9, ComesIn

(* The last message of a request takes the place that was kept for it. *)
LEMMA EndsFits ==
  ASSUME Calm, WaitInv, UserEnds
  PROVE  Fits(pAd, Bound)'
  <1> DEFINE a == [pAd EXCEPT !.auto = TRUE, !.ndis = TRUE, !.changed = TRUE]
             o == [pAd EXCEPT !.auto = FALSE, !.ndis = FALSE]
             s == CASE req = "ssid" -> MlmeEnqueue(a, Msg("OID_SSID"))
                    [] req = "survey" -> MlmeEnqueue(pAd, Msg("OID_LIST_SCAN"))
                    [] req = "disassociate" -> MlmeEnqueue(pAd, Msg("OID_DISASSOCIATE"))
                    [] OTHER -> o
             t == IF req = "down" /\ s.infra THEN LinkDown(s) ELSE s
             n == MaxQ + 7
  <1>1. Good(pAd) /\ pAd \in Adapters /\ pAd.nr <= Len(pAd.tab)
    BY DEF WaitInv, StaInv, Good, Typed
  <1>2. /\ Fits(pAd, n) /\ n \in Int /\ n < MAX_LEN_OF_MLME_QUEUE /\ n + 1 = MaxQ + 8
        /\ n <= MaxQ + 8 /\ MaxQ + 8 \in Int
    <2>1. req # "none" BY DEF UserEnds
    <2>2. Bound = n /\ MaxQ \in Nat BY <2>1, BoundIs
    <2>3. MaxQ + 8 <= MAX_LEN_OF_MLME_QUEUE /\ MAX_LEN_OF_MLME_QUEUE \in Nat
      BY Constants DEF Calm
    <2> QED BY <2>2, <2>3 DEF WaitInv
  <1>3. IF req = "bssid" THEN \E b \in Bss : pAd' = MlmeEnqueue(s, To("OID_BSSID", b))
        ELSE pAd' = t
    BY DEF UserEnds
  <1>4. req' = "none" BY DEF UserEnds
  <1>5. /\ a \in Adapters /\ a.nr = pAd.nr /\ a.tab = pAd.tab /\ Same(pAd, a)
    BY <1>1 DEF Adapters, Same
  <1>6. /\ o \in Adapters /\ o.nr = pAd.nr /\ o.tab = pAd.tab /\ Same(pAd, o)
        /\ o.q = pAd.q /\ o.sync = pAd.sync /\ o.tm = pAd.tm
    BY <1>1 DEF Adapters, Same
  <1> HIDE DEF a, o, n
  <1>7. Fits(a, n) /\ Fits(o, n) /\ Good(o)
    BY <1>1, <1>2, <1>5, <1>6, UpdateFits, StaysGood
  <1>8. /\ Fits(MlmeEnqueue(a, Msg("OID_SSID")), MaxQ + 8)
        /\ Fits(MlmeEnqueue(pAd, Msg("OID_LIST_SCAN")), MaxQ + 8)
        /\ Fits(MlmeEnqueue(pAd, Msg("OID_DISASSOCIATE")), MaxQ + 8)
        /\ Fits(o, MaxQ + 8)
    BY <1>2, <1>7, PlainFits, FitsMore DEF Plain
  <1>9. Fits(s, MaxQ + 8) BY <1>8
  <1>10. req \in {"bssid", "down"} => s = o OBVIOUS
  <1> HIDE DEF s
  <1>11. Fits(t, MaxQ + 8)
    <2>1. CASE req = "down"
      <3>1. Fits(LinkDown(o), n) BY <1>7, LinkDownFits
      <3>2. Fits(LinkDown(o), MaxQ + 8) BY <1>2, <3>1, FitsMore
      <3> QED BY <1>9, <1>10, <2>1, <3>2
    <2>2. CASE req # "down" BY <1>9, <2>2
    <2> QED BY <2>1, <2>2
  <1>12. ASSUME req = "bssid", NEW b \in Bss
         PROVE  Fits(MlmeEnqueue(s, To("OID_BSSID", b)), MaxQ + 8)
    <2>1. To("OID_BSSID", b) \in Messages BY MessagesMade
    <2>2. To("OID_BSSID", b).k # "DISASSOC_REQ" BY DEF To
    <2> QED BY <1>2, <1>7, <1>10, <1>12, <2>1, <2>2, EnqueueFits
  <1> HIDE DEF t
  <1>13. PICK v : v = pAd' /\ Fits(v, MaxQ + 8) BY <1>3, <1>11, <1>12
  <1>14. Bound' = MaxQ + 8 BY <1>2, <1>4, BoundIs DEF Bound
  <1> QED BY <1>13, <1>14 DEF Fits, Typed, WaitsTimed, Load

LEMMA PeersFit ==
  ASSUME Calm, WaitInv,
         \/ \E b \in Bss : PeerBeacons(b) \/ PeerLeaves(b)
         \/ PeerAnswers
         \/ WpaCompletes
  PROVE  Fits(pAd, Bound)'
  <1>1. ASSUME NEW m \in Messages, m.k # "DISASSOC_REQ", MlmeEnqueueForRecv(m)
        PROVE  Fits(pAd, Bound)'
    <2>1. Room /\ (pAd' = MlmeEnqueue(pAd, m) \/ pAd' = pAd)
      BY <1>1 DEF MlmeEnqueueForRecv
    <2> DEFINE n == MaxQ + 6
    <2>2. Fits(pAd, n) /\ n \in Int /\ n < MAX_LEN_OF_MLME_QUEUE /\ n + 1 = MaxQ + 7
      BY <2>1, RoomFits
    <2> HIDE DEF n
    <2>3. Fits(MlmeEnqueue(pAd, m), MaxQ + 7) BY <1>1, <2>2, EnqueueFits
    <2>4. Fits(pAd, MaxQ + 7) BY <2>1, RoomFits
    <2> QED BY <2>1, <2>3, <2>4, ComesIn
  <1>2. CASE req' = req /\ pAd' = pAd BY <1>2, Lands DEF WaitInv
  <1>3. ASSUME NEW b \in Bss, PeerBeacons(b) \/ PeerLeaves(b)
        PROVE  Fits(pAd, Bound)'
    <2>1. \A k \in {"BEACON", "DEAUTH", "DISASSOC"} :
            To(k, b) \in Messages /\ To(k, b).k # "DISASSOC_REQ"
      BY MessagesMade DEF To
    <2>2. \E k \in {"BEACON", "DEAUTH", "DISASSOC"} : MlmeEnqueueForRecv(To(k, b))
      BY <1>3 DEF PeerBeacons, PeerLeaves
    <2> QED BY <1>1, <2>1, <2>2
  <1>4. CASE PeerAnswers
    <2> DEFINE f == Head(net.air)
    <2>1. \/ pAd' = pAd /\ req' = req
          \/ /\ f.b \in Bss
             /\ \E k \in {"AUTH_RSP", "ASSOC_RSP"}, ok \in BOOLEAN :
                  MlmeEnqueueForRecv([k |-> k, b |-> f.b, ok |-> ok])
      BY <1>4 DEF PeerAnswers
    <2> HIDE DEF f
    <2>2. f.b \in Bss => \A k \in {"AUTH_RSP", "ASSOC_RSP"}, ok \in BOOLEAN :
            /\ [k |-> k, b |-> f.b, ok |-> ok] \in Messages
            /\ [k |-> k, b |-> f.b, ok |-> ok].k # "DISASSOC_REQ"
      BY MessagesMade
    <2> QED BY <1>1, <1>2, <2>1, <2>2
  <1>5. CASE WpaCompletes
    <2> DEFINE s == [pAd EXCEPT !.secured = TRUE]
    <2>1. pAd' = s /\ req' = req BY <1>5 DEF WpaCompletes
    <2>2. pAd \in Adapters /\ pAd.nr <= Len(pAd.tab) /\ Fits(pAd, Bound)
      BY DEF WaitInv, StaInv, Good, Typed
    <2>3. s \in Adapters /\ s.nr = pAd.nr /\ s.tab = pAd.tab /\ Same(pAd, s)
      BY <2>2 DEF Adapters, Same
    <2> HIDE DEF s
    <2>4. Fits(s, Bound) BY <2>2, <2>3, UpdateFits
    <2> QED BY <2>1, <2>4, Lands
  <1> QED BY <1>3, <1>4, <1>5

-----------------------------------------------------------------------------
LEMMA InitWaits ==
  ASSUME Calm, Init
  PROVE  WaitInv
  <1>1. /\ pAd.q = <<>> /\ pAd.tm = {} /\ pAd.cntl = "CNTL_IDLE"
        /\ pAd.sync = "SYNC_IDLE" /\ pAd.assoc = "ASSOC_IDLE"
        /\ pAd.auth = "AUTH_REQ_IDLE" /\ req = "none"
    BY DEF Init
  <1>2. StaInv /\ Typed(pAd) BY InitGood DEF StaInv, Good
  <1>3. WaitsTimed(pAd) BY <1>1 DEF WaitsTimed
  <1>4. Load(pAd) <= Bound
    <2>1. Running(pAd.tm) = 0 BY <1>1 DEF Running, Runs
    <2>2. Load(pAd) = 0 BY <1>1, <2>1 DEF Load
    <2> QED BY <1>1, <2>2, BoundIs
  <1> QED BY <1>2, <1>3, <1>4 DEF WaitInv, Fits

LEMMA NextWaits ==
  ASSUME Calm, WaitInv, [Next]_vars
  PROVE  WaitInv'
  <1>1. StaInv' BY NextKeeps DEF WaitInv
  <1> SUFFICES Fits(pAd, Bound)' BY <1>1 DEF WaitInv
  <1>2. CASE MlmeHandler
    BY <1>2, MachinesFits, ControlFits, SyncFits, AuthWaits, AssocWaits DEF
         MlmeHandler
  <1>3. CASE \E t \in Timers : TimerFires(t) BY <1>3, TimerFits
  <1>4. CASE \/ \E quality \in {"good", "dead", "bad", "weak"} : PeriodicInfra(quality)
             \/ PeriodicReconnect
    BY <1>4, PeriodicFits
  <1>5. CASE \E r \in Requests : UserBegins(r) BY <1>5, BeginsFits
  <1>6. CASE UserEnds BY <1>6, EndsFits
  <1>7. CASE \/ \E b \in Bss : PeerBeacons(b) \/ PeerLeaves(b)
             \/ PeerAnswers
             \/ WpaCompletes
    BY <1>7, PeersFit
  <1>8. CASE UNCHANGED vars
    <2>1. pAd' = pAd /\ req' = req BY <1>8 DEF vars
    <2> QED BY <2>1, Lands DEF WaitInv
  <1> QED BY <1>2, <1>3, <1>4, <1>5, <1>6, <1>7, <1>8 DEF Next

(* No machine waits for ever for a frame that was lost: while the queue has  *)
(* room for MaxQ messages from outside and eight more, the timer of whoever  *)
(* waits runs, or its message is queued.  The code's queue has room for 40.  *)
(* A refused association request (bBlockAssoc), a changed privacy and a      *)
(* channel switch, which empties the queue, do leave a wait without a timer, *)
(* so none of that trouble is assumed.                                       *)
THEOREM WaitIsTimedHolds ==
  ASSUME Trouble = {}, MaxQ + 8 <= MAX_LEN_OF_MLME_QUEUE
  PROVE  SafeSpec => []WaitIsTimed
  <1>1. Calm BY DEF Calm
  <1>2. Init => WaitInv BY <1>1, InitWaits
  <1>3. WaitInv /\ [Next]_vars => WaitInv' BY <1>1, NextWaits
  <1>4. WaitInv => WaitIsTimed
    BY DEF WaitInv, Fits, WaitsTimed, StaInv, Good, Listens, WaitIsTimed, Timed
  <1> QED BY <1>2, <1>3, <1>4, PTL DEF SafeSpec
=============================================================================
