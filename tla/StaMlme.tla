------------------------------ MODULE StaMlme ------------------------------
(***************************************************************************)
(* How the rt3370 driver, as a station, scans, joins, authenticates and    *)
(* associates with an access point and leaves it again: the control, sync, *)
(* authentication and association machines (sta/connect.c, sta/sync.c,     *)
(* sta/auth.c, sta/assoc.c, common/cmm_sync.c), which exchange messages    *)
(* through the one MLME queue (common/mlme.c).                             *)
(*                                                                         *)
(* The MLME thread handles one message at a time.  Timers, the periodic    *)
(* work of every second, received frames and the requests of users put     *)
(* messages into the queue, and some write the machines' state themselves. *)
(* One network of several BSSs, open or WPA-PSK, no ad hoc mode.           *)
(***************************************************************************)
EXTENDS Integers, Sequences, FiniteSets, SequencesExt

CONSTANTS
  Bss,          \* the BSSs of the network
  None,         \* no BSS: a zero address
  NumChannels,  \* the channels a scan visits
  Burst,        \* a connected station scans so many at a time; 7 in the code
  MAX_LEN_OF_MLME_QUEUE,
  MaxQ,         \* from outside a message comes in only while fewer wait
  MaxAir,       \* frames on their way to an access point
  Psk,          \* whether the network is WPA-PSK
  Requests,     \* what users ask for
  Trouble       \* "mem": there may be no memory for a frame; "block":
                \* bBlockAssoc may be set; "switch": the access point may
                \* change its channel; "privacy": it may change its privacy

StaAssumption ==
  /\ None \notin Bss /\ IsFiniteSet(Bss)
  /\ NumChannels \in Nat \ {0} /\ Burst \in Nat \ {0}
  /\ MAX_LEN_OF_MLME_QUEUE \in Nat /\ MaxQ \in Nat /\ MaxAir \in Nat
  /\ Psk \in BOOLEAN
  /\ Requests \subseteq {"ssid", "bssid", "survey", "disassociate", "down"}
  /\ Trouble \subseteq {"mem", "block", "switch", "privacy"}

ASSUME StaAssumption

VARIABLES
  pAd,   \* the adapter; see Init
  req,   \* the request a user is making, after the test of the CNTL machine
  net    \* external: air, frames on their way to access points; granted, the
         \* BSSs that have accepted the station's latest request; and a history
         \* bit, cut: the link was cut under a control machine that waits on

vars == <<pAd, req, net>>

CntlStates == {"CNTL_IDLE", "CNTL_WAIT_JOIN", "CNTL_WAIT_AUTH", "CNTL_WAIT_AUTH2",
               "CNTL_WAIT_ASSOC", "CNTL_WAIT_DISASSOC", "CNTL_WAIT_OID_DISASSOC",
               "CNTL_WAIT_OID_LIST_SCAN"}
SyncStates == {"SYNC_IDLE", "JOIN_WAIT_BEACON", "SCAN_LISTEN", "SCAN_PENDING"}
AssocStates == {"ASSOC_IDLE", "ASSOC_WAIT_RSP", "DISASSOC_WAIT_RSP"}
AuthStates == {"AUTH_REQ_IDLE", "AUTH_WAIT_SEQ2"}
Timers == {"Beacon", "Scan", "Auth", "Assoc", "Disassoc", "LinkDown"}

Init ==
  /\ pAd = [cntl |-> "CNTL_IDLE", sync |-> "SYNC_IDLE",
            assoc |-> "ASSOC_IDLE", auth |-> "AUTH_REQ_IDLE",
            q |-> <<>>,          \* the MLME queue
            tm |-> {},           \* the timers that run
            aux |-> None,        \* MlmeAux.Bssid
            tab |-> <<>>,        \* the entries of MlmeAux.SsidBssTab
            nr |-> 0,            \* its BssNr
            idx |-> 0,           \* MlmeAux.BssIdx
            scan |-> {},         \* ScanTab
            infra |-> FALSE,     \* INFRA_ON
            cur |-> None,        \* CommonCfg.Bssid
            secured |-> FALSE,   \* PortSecured
            improved |-> FALSE,  \* bImprovedScan
            susp |-> FALSE,      \* BSS_SCAN_IN_PROGRESS: no data is sent
            chan |-> 0,          \* MlmeAux.Channel; 0: all channels done
            cnt |-> 0,           \* ScanChannelCnt
            auto |-> FALSE,      \* AutoReconnectSsid is valid
            changed |-> FALSE,   \* bConfigChanged
            ndis |-> FALSE]      \* CurrReqIsFromNdis
  /\ req = "none"
  /\ net = [air |-> <<>>, granted |-> {}, cut |-> FALSE]

-----------------------------------------------------------------------------
(* Messages, and which machine takes them in which states: the tables of the *)
(* state machines.  Other states drop them.                                  *)
Msg(k) == [k |-> k]
To(k, b) == [k |-> k, b |-> b]
Conf(k, ok) == [k |-> k, ok |-> ok]
JoinReq(i) == [k |-> "JOIN_REQ", i |-> i]
RoamingReq(S) == [k |-> "ROAMING_REQ", tab |-> S]

Table ==
  [SCAN_REQ |-> <<"sync", SyncStates>>,
   JOIN_REQ |-> <<"sync", SyncStates \ {"SCAN_PENDING"}>>,
   BEACON |-> <<"sync", SyncStates \ {"SCAN_PENDING"}>>,
   BEACON_TIMEOUT |-> <<"sync", {"JOIN_WAIT_BEACON"}>>,
   SCAN_TIMEOUT |-> <<"sync", {"SCAN_LISTEN"}>>,
   AUTH_REQ |-> <<"auth", AuthStates>>,
   AUTH_RSP |-> <<"auth", {"AUTH_WAIT_SEQ2"}>>,
   AUTH_TIMEOUT |-> <<"auth", {"AUTH_WAIT_SEQ2"}>>,
   DEAUTH |-> <<"auth", AuthStates>>,
   ASSOC_REQ |-> <<"assoc", AssocStates>>,
   ASSOC_RSP |-> <<"assoc", {"ASSOC_WAIT_RSP"}>>,
   ASSOC_TIMEOUT |-> <<"assoc", {"ASSOC_WAIT_RSP"}>>,
   DISASSOC_REQ |-> <<"assoc", AssocStates>>,
   DISASSOC |-> <<"assoc", AssocStates>>,
   DISASSOC_TIMEOUT |-> <<"assoc", {"DISASSOC_WAIT_RSP"}>>,
   JOIN_CONF |-> <<"cntl", {"CNTL_WAIT_JOIN"}>>,
   AUTH_CONF |-> <<"cntl", {"CNTL_WAIT_AUTH", "CNTL_WAIT_AUTH2"}>>,
   ASSOC_CONF |-> <<"cntl", {"CNTL_WAIT_ASSOC"}>>,
   DISASSOC_CONF |-> <<"cntl", {"CNTL_WAIT_DISASSOC", "CNTL_WAIT_OID_DISASSOC"}>>,
   SCAN_CONF |-> <<"cntl", {"CNTL_WAIT_OID_LIST_SCAN"}>>,
   OID_SSID |-> <<"cntl", {"CNTL_IDLE"}>>,
   OID_BSSID |-> <<"cntl", {"CNTL_IDLE"}>>,
   OID_LIST_SCAN |-> <<"cntl", {"CNTL_IDLE"}>>,
   OID_DISASSOCIATE |-> <<"cntl", {"CNTL_IDLE"}>>,
   ROAMING_REQ |-> <<"cntl", {"CNTL_IDLE"}>>,
   RESET_CONF |-> <<"cntl", CntlStates>>]

(* MlmeEnqueue: a message that finds the queue full is lost *)
MlmeEnqueue(s, m) ==
  IF Len(s.q) < MAX_LEN_OF_MLME_QUEUE THEN [s EXCEPT !.q = Append(@, m)] ELSE s

(* MlmeDequeue, and the machine's function for a message of kind k *)
Elem == Head(pAd.q)
Rest == [pAd EXCEPT !.q = Tail(@)]
Taken(m) == pAd[Table[m.k][1]] \in Table[m.k][2]
Gets(k) == pAd.q # <<>> /\ Elem.k = k /\ Taken(Elem)

(* What the network sees of a step from pAd to s.  The link is cut when it   *)
(* goes down in the middle of a scan or of an exchange with the access point *)
(* that nobody will end, or with the messages in the queue.                  *)
Forget(n, S) == [n EXCEPT !.granted = @ \ S]

Cuts(s) ==
  \/ s.sync = "SCAN_PENDING"
  \/ pAd.assoc # s.assoc
  \/ Len(s.q) + 1 < Len(pAd.q)

Seen(s) ==
  LET down == pAd.infra /\ ~s.infra IN
  [Forget(net, IF down THEN {pAd.cur} ELSE {}) EXCEPT
     !.cut = s.cntl # "CNTL_IDLE" /\ (@ \/ (down /\ Cuts(s)))]

Do(s) == pAd' = s /\ net' = Seen(s) /\ UNCHANGED req

(* A step that sends f, which may be lost *)
Send(s, f) ==
  /\ pAd' = s
  /\ \/ net' = Forget(net, {f.b})
     \/ /\ Len(net.air) < MaxAir
        /\ net' = [Forget(net, {f.b}) EXCEPT !.air = Append(@, f)]
  /\ UNCHANGED req

Memory == IF "mem" \in Trouble THEN BOOLEAN ELSE {TRUE}
Blocked == IF "block" \in Trouble THEN BOOLEAN ELSE {FALSE}

StateMachineDrop ==
  /\ pAd.q # <<>>
  /\ ~Taken(Elem)
  /\ Do(Rest)

(* MlmeRestartStateMachine *)
BugMlmeRestartStateMachine ==
  /\ Gets("RESET_CONF")
  /\ Do([Rest EXCEPT !.cntl = "CNTL_IDLE", !.sync = "SYNC_IDLE", !.assoc = "ASSOC_IDLE",
                     !.auth = "AUTH_REQ_IDLE", !.tm = @ \cap {"LinkDown"}])

MlmeRestartStateMachine ==
  /\ Gets("RESET_CONF")
  /\ Do([Rest EXCEPT !.cntl = "CNTL_IDLE", !.sync = "SYNC_IDLE", !.assoc = "ASSOC_IDLE",
                     !.auth = "AUTH_REQ_IDLE", !.susp = FALSE, !.tm = @ \cap {"LinkDown"}])

-----------------------------------------------------------------------------
(* The link: LinkUp for an infrastructure BSS, LinkDown *)
LinkUp(s) ==
  [s EXCEPT !.improved = FALSE, !.cur = s.aux, !.infra = TRUE, !.secured = ~Psk,
            !.tm = (@ \ {"Disassoc"}) \cup (IF Psk THEN {"LinkDown"} ELSE {}),
            !.changed = FALSE, !.susp = FALSE]

LinkDown(s) ==
  [s EXCEPT !.improved = FALSE, !.infra = FALSE, !.secured = FALSE, !.susp = FALSE,
            !.scan = IF ~s.ndis /\ (s.secured \/ ~Psk) THEN @ \ {s.cur} ELSE @,
            !.ndis = FALSE]

(* IterateOnBssTab tries the next BSS of the table, or gives up and drops    *)
(* its first one from the scan results.                                      *)
IterateOnBssTab(s) ==
  IF s.idx < s.nr
  THEN MlmeEnqueue([s EXCEPT !.cntl = "CNTL_WAIT_JOIN"], JoinReq(s.idx))
  ELSE [s EXCEPT !.nr = 0, !.cntl = "CNTL_IDLE",
                 !.scan = IF s.tab = <<>> THEN @ ELSE @ \ {s.tab[1]}]

(* BssIdx++; beyond the table all values are alike *)
NextBss(s) == [s EXCEPT !.idx = IF @ < Cardinality(Bss) THEN @ + 1 ELSE @]

RequestDisassoc(s, wait) ==
  MlmeEnqueue([s EXCEPT !.cntl = wait], To("DISASSOC_REQ", s.cur))

RequestScan(s) ==
  MlmeEnqueue([s EXCEPT !.cntl = "CNTL_WAIT_OID_LIST_SCAN"], Msg("SCAN_REQ"))

-----------------------------------------------------------------------------
(* The control machine.  BssTableSsidSort orders by signal strength. *)
Orders(S) == {t \in [1..Cardinality(S) -> S] : \A i, j \in DOMAIN t : t[i] = t[j] => i = j}

CntlOidSsidProc ==
  /\ Gets("OID_SSID")
  /\ \E t \in Orders(pAd.scan) :
       LET s == [Rest EXCEPT !.aux = None, !.auto = TRUE, !.tab = t, !.nr = Len(t)] IN
       Do(CASE s.infra /\ t # <<>> /\ s.cur = t[1] ->
                 IF (Psk /\ ~s.secured) \/ s.changed
                 THEN RequestDisassoc(s, "CNTL_WAIT_DISASSOC") ELSE s
            [] s.infra /\ ~(t # <<>> /\ s.cur = t[1]) ->
                 RequestDisassoc(s, "CNTL_WAIT_DISASSOC")
            [] ~s.infra /\ t = <<>> -> RequestScan(s)
            [] ~s.infra /\ t # <<>> -> IterateOnBssTab([s EXCEPT !.idx = 0]))

(* The BSS the user has chosen is put first in the table *)
CntlOidRTBssidProc ==
  /\ Gets("OID_BSSID")
  /\ LET b == Elem.b
         s == [Rest EXCEPT !.aux = b]
         f == [s EXCEPT !.auto = TRUE, !.idx = 0, !.nr = 1,
                        !.tab = IF @ = <<>> THEN <<b>> ELSE [@ EXCEPT ![1] = b]]
     IN  Do(CASE b \notin s.scan -> RequestScan(s)
              [] b \in s.scan /\ s.infra -> RequestDisassoc(f, "CNTL_WAIT_DISASSOC")
              [] OTHER -> IterateOnBssTab(f))

(* A request of a user to scan; without memory for the copy of the current   *)
(* BSS it is passed over.                                                    *)
CntlOidScanProc ==
  /\ Gets("OID_LIST_SCAN")
  /\ \/ Do(RequestScan(Rest))
     \/ FALSE \in Memory /\ Do(Rest)

(* CntlIdleProc: OID_802_11_DISASSOCIATE *)
CntlOidDisassociate ==
  /\ Gets("OID_DISASSOCIATE")
  /\ Do(RequestDisassoc([Rest EXCEPT !.auto = FALSE], "CNTL_WAIT_OID_DISASSOC"))

CntlMlmeRoamingProc ==
  /\ Gets("ROAMING_REQ")
  /\ \E t \in Orders(Elem.tab) :
       Do(IterateOnBssTab([Rest EXCEPT !.tab = t, !.nr = Len(t), !.idx = 0]))

BugCntlWaitDisassocProc ==
  /\ Gets("DISASSOC_CONF")
  /\ pAd.cntl = "CNTL_WAIT_DISASSOC"
  /\ Do(IterateOnBssTab(NextBss(Rest)))

CntlWaitDisassocProc ==
  /\ Gets("DISASSOC_CONF")
  /\ pAd.cntl = "CNTL_WAIT_DISASSOC"
  /\ Do(IterateOnBssTab(NextBss(LinkDown(Rest))))

CntlWaitOidDisassoc ==
  /\ Gets("DISASSOC_CONF")
  /\ pAd.cntl = "CNTL_WAIT_OID_DISASSOC"
  /\ Do([LinkDown(Rest) EXCEPT !.cntl = "CNTL_IDLE"])

CntlWaitOidListScan ==
  /\ Gets("SCAN_CONF")
  /\ Do([Rest EXCEPT !.susp = FALSE, !.cntl = "CNTL_IDLE", !.improved = FALSE])

CntlWaitJoinProc ==
  /\ Gets("JOIN_CONF")
  /\ Do(IF Elem.ok
        THEN MlmeEnqueue([Rest EXCEPT !.cntl = "CNTL_WAIT_AUTH"], To("AUTH_REQ", pAd.aux))
        ELSE IterateOnBssTab(NextBss(Rest)))

RequestAssoc(s) ==
  MlmeEnqueue([s EXCEPT !.cntl = "CNTL_WAIT_ASSOC"], To("ASSOC_REQ", s.aux))

(* CntlWaitAuthProc tries once more, CntlWaitAuthProc2 goes on *)
CntlWaitAuthProc ==
  /\ Gets("AUTH_CONF")
  /\ pAd.cntl = "CNTL_WAIT_AUTH"
  /\ Do(IF Elem.ok THEN RequestAssoc(Rest)
        ELSE MlmeEnqueue([Rest EXCEPT !.cntl = "CNTL_WAIT_AUTH2"],
                         To("AUTH_REQ", pAd.aux)))

CntlWaitAuthProc2 ==
  /\ Gets("AUTH_CONF")
  /\ pAd.cntl = "CNTL_WAIT_AUTH2"
  /\ Do(IF Elem.ok THEN RequestAssoc(Rest) ELSE IterateOnBssTab(NextBss(Rest)))

CntlWaitAssocProc ==
  /\ Gets("ASSOC_CONF")
  /\ Do(IF Elem.ok THEN [LinkUp(Rest) EXCEPT !.cntl = "CNTL_IDLE"]
        ELSE IterateOnBssTab(NextBss(Rest)))

-----------------------------------------------------------------------------
(* The sync machine.  ScanNextChannel listens on the next channel; after the *)
(* last one the scan is confirmed, and a connected station goes back to its  *)
(* channel after each burst.                                                 *)
ScanNextChannel(s, memory) ==
  IF s.chan = 0 \/ (s.improved /\ s.cnt >= Burst)
  THEN IF s.chan # 0 /\ s.improved
       THEN [s EXCEPT !.sync = "SCAN_PENDING", !.susp = FALSE, !.cnt = 0]
       ELSE MlmeEnqueue([s EXCEPT !.sync = "SYNC_IDLE", !.improved = FALSE, !.cnt = 0],
                        Conf("SCAN_CONF", TRUE))
  ELSE LET t == [s EXCEPT !.tm = @ \cup {"Scan"},
                          !.cnt = IF @ < Burst THEN @ + 1 ELSE @]
       IN  IF memory THEN [t EXCEPT !.sync = "SCAN_LISTEN"]
           ELSE MlmeEnqueue([t EXCEPT !.sync = "SYNC_IDLE"], Conf("SCAN_CONF", FALSE))

NextChannel(c) == IF c = NumChannels THEN 0 ELSE c + 1

MlmeScanReqAction ==
  /\ Gets("SCAN_REQ")
  /\ pAd.sync \in {"SYNC_IDLE", "SCAN_PENDING"}
  /\ \E memory \in Memory :
       LET resume == pAd.improved /\ pAd.sync = "SCAN_PENDING"
           s == [Rest EXCEPT !.susp = TRUE, !.tm = @ \ {"Beacon", "Scan"},
                             !.chan = IF resume THEN @ ELSE 1]
       IN  Do([ScanNextChannel(s, memory) EXCEPT !.cntl = "CNTL_WAIT_OID_LIST_SCAN"])

ScanTimeoutAction ==
  /\ Gets("SCAN_TIMEOUT")
  /\ \E memory \in Memory :
       Do(ScanNextChannel([Rest EXCEPT !.chan = NextChannel(@)], memory))

InvalidStateWhenScan ==
  /\ Gets("SCAN_REQ")
  /\ pAd.sync \in {"JOIN_WAIT_BEACON", "SCAN_LISTEN"}
  /\ Do(MlmeEnqueue([Rest EXCEPT !.sync = "SYNC_IDLE"], Conf("SCAN_CONF", FALSE)))

BugMlmeJoinReqAction ==
  /\ Gets("JOIN_REQ")
  /\ pAd.sync = "SYNC_IDLE"
  /\ Do([Rest EXCEPT !.sync = "JOIN_WAIT_BEACON", !.tm = @ \ {"Scan", "Beacon"},
                     !.aux = IF Elem.i < Len(pAd.tab) THEN pAd.tab[Elem.i + 1] ELSE None])

MlmeJoinReqAction ==
  /\ Gets("JOIN_REQ")
  /\ pAd.sync = "SYNC_IDLE"
  /\ Do([Rest EXCEPT !.sync = "JOIN_WAIT_BEACON",
                     !.tm = (@ \ {"Scan"}) \cup {"Beacon"},
                     !.aux = IF Elem.i < Len(pAd.tab) THEN pAd.tab[Elem.i + 1] ELSE None])

InvalidStateWhenJoin ==
  /\ Gets("JOIN_REQ")
  /\ pAd.sync \in {"JOIN_WAIT_BEACON", "SCAN_LISTEN"}
  /\ Do(MlmeEnqueue([Rest EXCEPT !.sync = "SYNC_IDLE", !.susp = FALSE],
                    Conf("JOIN_CONF", FALSE)))

BeaconTimeoutAtJoinAction ==
  /\ Gets("BEACON_TIMEOUT")
  /\ Do(MlmeEnqueue([Rest EXCEPT !.sync = "SYNC_IDLE"], Conf("JOIN_CONF", FALSE)))

PeerBeaconAtScanAction ==
  /\ Gets("BEACON")
  /\ pAd.sync = "SCAN_LISTEN"
  /\ Do([Rest EXCEPT !.scan = @ \cup {Elem.b}])

(* A known BSS whose privacy has changed is looked for again *)
PeerBeaconAtJoinAction ==
  /\ Gets("BEACON")
  /\ pAd.sync = "JOIN_WAIT_BEACON"
  /\ LET s == [Rest EXCEPT !.tm = @ \ {"Beacon"}, !.scan = @ \cup {Elem.b}] IN
     \/ Elem.b # pAd.aux /\ Do(Rest)
     \/ /\ Elem.b = pAd.aux
        /\ Do(MlmeEnqueue([s EXCEPT !.sync = "SYNC_IDLE"], Conf("JOIN_CONF", TRUE)))
     \/ /\ Elem.b = pAd.aux /\ Elem.b \in pAd.scan /\ "privacy" \in Trouble
        /\ Do(RequestScan(s))

(* BssTableSetEntry updates the BSS's entry, or appends one *)
BugBssTableSetEntry(s, b) == [s EXCEPT !.tab = SubSeq(@, 1, s.nr), !.nr = @ + 1]

BssTableSetEntry(s, b) ==
  LET old == SubSeq(s.tab, 1, s.nr) IN
  IF b \in ToSet(old) THEN s ELSE [s EXCEPT !.tab = Append(old, b), !.nr = @ + 1]

(* PeerBeacon, of a connected station, notes the BSS in both tables.  If the *)
(* station's own BSS has changed its privacy, or its channel, the link goes  *)
(* down; in the latter case the queue is emptied as well.                    *)
PeerBeacon ==
  /\ Gets("BEACON")
  /\ pAd.sync = "SYNC_IDLE"
  /\ LET b == Elem.b
         s == BssTableSetEntry([Rest EXCEPT !.scan = @ \cup {b}], b)
         down == [LinkDown(s) EXCEPT !.scan = {}]
         passed == ~pAd.infra \/ pAd.cntl = "CNTL_WAIT_DISASSOC"
     IN  \/ passed /\ Do(Rest)
         \/ ~passed /\ Do(s)
         \/ /\ ~passed /\ b = pAd.cur
            /\ \/ "privacy" \in Trouble /\ Do(down)
               \/ "switch" \in Trouble /\ Do([down EXCEPT !.q = <<>>])

-----------------------------------------------------------------------------
(* The authentication machine.  AUTH_ReqSend returns TRUE when association   *)
(* is blocked, so the machine waits for a response to nothing.               *)
MlmeAuthReqAction ==
  /\ Gets("AUTH_REQ")
  /\ pAd.auth = "AUTH_REQ_IDLE"
  /\ LET s == [Rest EXCEPT !.aux = Elem.b, !.tm = @ \ {"Auth"}]
         fail(x) == MlmeEnqueue(x, Conf("AUTH_CONF", FALSE))
     IN  \/ /\ TRUE \in Blocked
            /\ Do(fail([Rest EXCEPT !.auth = "AUTH_WAIT_SEQ2"]))
         \/ FALSE \in Memory /\ Do(fail(fail(s)))
         \/ Send([s EXCEPT !.auth = "AUTH_WAIT_SEQ2", !.tm = @ \cup {"Auth"}],
                 To("AUTH", Elem.b))

PeerAuthRspAtSeq2Action ==
  /\ Gets("AUTH_RSP")
  /\ \/ /\ Elem.b = pAd.aux
        /\ Do(MlmeEnqueue([Rest EXCEPT !.auth = "AUTH_REQ_IDLE", !.tm = @ \ {"Auth"}],
                          Conf("AUTH_CONF", Elem.ok)))
     \/ Elem.b # pAd.aux /\ Do(Rest)

AuthFails ==
  Do(MlmeEnqueue([Rest EXCEPT !.auth = "AUTH_REQ_IDLE"], Conf("AUTH_CONF", FALSE)))

AuthTimeoutAction == Gets("AUTH_TIMEOUT") /\ AuthFails

InvalidStateWhenAuth == Gets("AUTH_REQ") /\ pAd.auth = "AUTH_WAIT_SEQ2" /\ AuthFails

(* PeerDeauthAction.  With WPA-PSK a wrong key is taken for the reason, and  *)
(* the next BSS is tried, whatever the control machine is doing.             *)
PeerDeauthAction ==
  /\ Gets("DEAUTH")
  /\ \/ /\ pAd.infra /\ Elem.b = pAd.cur
        /\ Do(IF Psk /\ ~pAd.secured THEN IterateOnBssTab(NextBss(LinkDown(Rest)))
              ELSE LinkDown(Rest))
     \/ ~(pAd.infra /\ Elem.b = pAd.cur) /\ Do(Rest)

-----------------------------------------------------------------------------
(* The association machine *)
BugAssocFails(s, k) == MlmeEnqueue([s EXCEPT !.assoc = "ASSOC_IDLE"], Conf(k, TRUE))

AssocFails(s, k) == MlmeEnqueue([s EXCEPT !.assoc = "ASSOC_IDLE"], Conf(k, FALSE))

MlmeAssocReqAction ==
  /\ Gets("ASSOC_REQ")
  /\ pAd.assoc = "ASSOC_IDLE"
  /\ LET s == [Rest EXCEPT !.aux = Elem.b, !.tm = @ \ {"Assoc"}] IN
     \/ TRUE \in Blocked /\ Do(AssocFails(Rest, "ASSOC_CONF"))
     \/ FALSE \in Memory /\ Do(AssocFails(s, "ASSOC_CONF"))
     \/ Send([s EXCEPT !.assoc = "ASSOC_WAIT_RSP", !.tm = @ \cup {"Assoc"}],
             To("ASSOC", Elem.b))

PeerAssocRspAction ==
  /\ Gets("ASSOC_RSP")
  /\ \/ /\ Elem.b = pAd.aux
        /\ Do(MlmeEnqueue([Rest EXCEPT !.assoc = "ASSOC_IDLE", !.tm = @ \ {"Assoc"}],
                          Conf("ASSOC_CONF", Elem.ok)))
     \/ Elem.b # pAd.aux /\ Do(Rest)

AssocTimeoutAction == Gets("ASSOC_TIMEOUT") /\ Do(AssocFails(Rest, "ASSOC_CONF"))

InvalidStateWhenAssoc ==
  /\ Gets("ASSOC_REQ")
  /\ pAd.assoc # "ASSOC_IDLE"
  /\ Do(AssocFails(Rest, "ASSOC_CONF"))

MlmeDisassocReqAction ==
  /\ Gets("DISASSOC_REQ")
  /\ pAd.assoc = "ASSOC_IDLE"
  /\ \/ FALSE \in Memory /\ Do(AssocFails(Rest, "DISASSOC_CONF"))
     \/ Send([Rest EXCEPT !.assoc = "DISASSOC_WAIT_RSP", !.tm = @ \cup {"Disassoc"}],
             To("LEAVE", Elem.b))

DisassocTimeoutAction ==
  /\ Gets("DISASSOC_TIMEOUT")
  /\ Do(MlmeEnqueue([Rest EXCEPT !.assoc = "ASSOC_IDLE"], Conf("DISASSOC_CONF", TRUE)))

InvalidStateWhenDisassociate ==
  /\ Gets("DISASSOC_REQ")
  /\ pAd.assoc # "ASSOC_IDLE"
  /\ Do(AssocFails(Rest, "DISASSOC_CONF"))

PeerDisassocAction ==
  /\ Gets("DISASSOC")
  /\ LET s == [Rest EXCEPT !.assoc = "ASSOC_IDLE"] IN
     \/ /\ pAd.infra /\ Elem.b = pAd.cur
        /\ Do(IF pAd.cntl = "CNTL_WAIT_DISASSOC"
              THEN MlmeEnqueue(s, Conf("DISASSOC_CONF", TRUE)) ELSE LinkDown(s))
     \/ ~(pAd.infra /\ Elem.b = pAd.cur) /\ Do(Rest)

-----------------------------------------------------------------------------
(* A scan that cannot go on through the queue is ended at once *)
BugScanTimeout(s) == Do(MlmeEnqueue(s, Msg("SCAN_TIMEOUT")))

ScanTimeout(s) ==
  \/ /\ Len(s.q) < MAX_LEN_OF_MLME_QUEUE
     /\ Do(MlmeEnqueue(s, Msg("SCAN_TIMEOUT")))
  \/ /\ Len(s.q) >= MAX_LEN_OF_MLME_QUEUE
     /\ Do(ScanNextChannel([s EXCEPT !.chan = 0], TRUE))

(* Timers: BeaconTimeout, ScanTimeout, AuthTimeout, AssocTimeout,            *)
(* DisassocTimeout and LinkDownExec.  Their messages are not taken back when *)
(* the timer is cancelled later.                                             *)
TimerFires(t) ==
  LET s == [pAd EXCEPT !.tm = @ \ {t}] IN
  /\ t \in pAd.tm
  /\ CASE t = "Auth" ->
            LET e == MlmeEnqueue(s, Msg("AUTH_TIMEOUT")) IN
            IF pAd.auth = "AUTH_WAIT_SEQ2" THEN Send(e, To("LEAVE", pAd.aux)) ELSE Do(e)
       [] t = "Scan" -> ScanTimeout(s)
       [] t = "LinkDown" ->
            Do(IF ~s.secured /\ s.infra THEN RequestDisassoc(s, "CNTL_WAIT_DISASSOC")
               ELSE s)
       [] t = "Beacon" -> Do(MlmeEnqueue(s, Msg("BEACON_TIMEOUT")))
       [] t = "Assoc" -> Do(MlmeEnqueue(s, Msg("ASSOC_TIMEOUT")))
       [] t = "Disassoc" -> Do(MlmeEnqueue(s, Msg("DISASSOC_TIMEOUT")))

(* MlmeAutoReconnectLastSSID *)
AutoReconnect(s) ==
  IF s.cntl = "CNTL_IDLE" /\ s.auto THEN MlmeEnqueue(s, Msg("OID_SSID")) ELSE s

(* STAMlmePeriodicExec, every second: a connected station goes on with its   *)
(* scan and looks at the quality of the channel, the others reconnect.       *)
Room == Len(pAd.q) < MaxQ

PeriodicInfra(quality) ==
  LET s == IF pAd.improved /\ pAd.sync = "SCAN_PENDING"
           THEN MlmeEnqueue(pAd, Msg("SCAN_REQ")) ELSE pAd
      seen == ~pAd.susp /\ ~pAd.improved
  IN  /\ Room /\ pAd.infra
      /\ CASE quality = "good" -> Do(s)
           [] quality = "dead" ->
                seen /\ Do(AutoReconnect(LinkDown([s EXCEPT !.ndis = FALSE])))
           [] quality = "bad" -> seen /\ Do(AutoReconnect(s))
           [] quality = "weak" ->
                /\ ~pAd.susp /\ pAd.sync = "SYNC_IDLE" /\ pAd.cntl = "CNTL_IDLE"
                /\ \/ Do(MlmeEnqueue(s, Msg("OID_LIST_SCAN")))
                   \/ \E S \in SUBSET (pAd.scan \ {pAd.cur}) \ {{}} :
                        Do(MlmeEnqueue(s, RoamingReq(S)))

PeriodicReconnect ==
  /\ Room /\ ~pAd.infra /\ pAd.auto
  /\ pAd.cntl = "CNTL_IDLE"
  /\ \/ pAd.scan = {} /\ Do(RequestScan(pAd))
     \/ Do(AutoReconnect(pAd))

-----------------------------------------------------------------------------
(* Users.  A request first resets the machines if the control machine is     *)
(* busy: Set_SSID_Proc, RtmpIoctl_rt_ioctl_siwap, StaSiteSurvey and          *)
(* OID_802_11_DISASSOCIATE.                                                  *)
Reset(s) == IF s.cntl = "CNTL_IDLE" THEN s ELSE MlmeEnqueue(s, Msg("RESET_CONF"))

UserBegins(r) ==
  /\ Room /\ req = "none"
  /\ r = "survey" => ~pAd.susp
  /\ r = "disassociate" => pAd.infra
  /\ pAd' = Reset(CASE r = "ssid" -> [pAd EXCEPT !.auto = FALSE]
                    [] r = "survey" /\ pAd.infra ->
                         [pAd EXCEPT !.improved = TRUE, !.cnt = 0]
                    [] r = "disassociate" -> [pAd EXCEPT !.ndis = TRUE]
                    [] OTHER -> pAd)
  /\ req' = r
  /\ UNCHANGED net

UserEnds ==
  LET s == CASE req = "ssid" ->
                  MlmeEnqueue([pAd EXCEPT !.auto = TRUE, !.ndis = TRUE, !.changed = TRUE],
                              Msg("OID_SSID"))
             [] req = "survey" -> MlmeEnqueue(pAd, Msg("OID_LIST_SCAN"))
             [] req = "disassociate" -> MlmeEnqueue(pAd, Msg("OID_DISASSOCIATE"))
             [] OTHER -> [pAd EXCEPT !.auto = FALSE, !.ndis = FALSE]
      t == IF req = "down" /\ s.infra THEN LinkDown(s) ELSE s
  IN  /\ req # "none" /\ req' = "none"
      /\ IF req = "bssid" THEN \E b \in Bss : pAd' = MlmeEnqueue(s, To("OID_BSSID", b))
         ELSE pAd' = t
      /\ net' = Seen(t)

-----------------------------------------------------------------------------
(* The access points and the WPA handshake, external.  Frames arrive in      *)
(* order or are lost; MlmeEnqueueForRecv takes them in while less than half  *)
(* the queue is used.                                                        *)
MlmeEnqueueForRecv(m) ==
  /\ Room
  /\ pAd' = IF Len(pAd.q) < MAX_LEN_OF_MLME_QUEUE \div 2 THEN MlmeEnqueue(pAd, m)
                                                         ELSE pAd

PeerBeacons(b) == MlmeEnqueueForRecv(To("BEACON", b)) /\ UNCHANGED <<req, net>>

PeerAnswers ==
  /\ net.air # <<>>
  /\ LET f == Head(net.air)
         n == [net EXCEPT !.air = Tail(@)]
     IN  \/ net' = n /\ UNCHANGED pAd
         \/ /\ f.k = "AUTH" /\ f.b \in Bss
            /\ \E ok \in BOOLEAN :
                 MlmeEnqueueForRecv([k |-> "AUTH_RSP", b |-> f.b, ok |-> ok])
            /\ net' = n
         \/ /\ f.k = "ASSOC" /\ f.b \in Bss
            /\ MlmeEnqueueForRecv([k |-> "ASSOC_RSP", b |-> f.b, ok |-> FALSE])
            /\ net' = n
         \/ /\ f.k = "ASSOC" /\ f.b \in Bss
            /\ \/ MlmeEnqueueForRecv([k |-> "ASSOC_RSP", b |-> f.b, ok |-> TRUE])
               \/ UNCHANGED pAd
            /\ net' = [n EXCEPT !.granted = @ \cup {f.b}]
  /\ UNCHANGED req

PeerLeaves(b) ==
  /\ \E k \in {"DEAUTH", "DISASSOC"} : MlmeEnqueueForRecv(To(k, b))
  /\ UNCHANGED <<req, net>>

WpaCompletes ==
  /\ Psk /\ pAd.infra /\ ~pAd.secured
  /\ pAd' = [pAd EXCEPT !.secured = TRUE]
  /\ UNCHANGED <<req, net>>

-----------------------------------------------------------------------------
MlmeHandler ==
  \/ StateMachineDrop \/ MlmeRestartStateMachine
  \/ CntlOidSsidProc \/ CntlOidRTBssidProc \/ CntlOidScanProc \/ CntlOidDisassociate
  \/ CntlMlmeRoamingProc \/ CntlWaitDisassocProc \/ CntlWaitOidDisassoc
  \/ CntlWaitOidListScan \/ CntlWaitJoinProc \/ CntlWaitAuthProc
  \/ CntlWaitAuthProc2 \/ CntlWaitAssocProc
  \/ MlmeScanReqAction \/ ScanTimeoutAction \/ InvalidStateWhenScan
  \/ MlmeJoinReqAction \/ InvalidStateWhenJoin \/ BeaconTimeoutAtJoinAction
  \/ PeerBeaconAtScanAction \/ PeerBeaconAtJoinAction \/ PeerBeacon
  \/ MlmeAuthReqAction \/ PeerAuthRspAtSeq2Action \/ AuthTimeoutAction
  \/ InvalidStateWhenAuth \/ PeerDeauthAction
  \/ MlmeAssocReqAction \/ PeerAssocRspAction \/ AssocTimeoutAction
  \/ InvalidStateWhenAssoc \/ MlmeDisassocReqAction \/ DisassocTimeoutAction
  \/ InvalidStateWhenDisassociate \/ PeerDisassocAction

Next ==
  \/ MlmeHandler
  \/ \E t \in Timers : TimerFires(t)
  \/ \E quality \in {"good", "dead", "bad", "weak"} : PeriodicInfra(quality)
  \/ PeriodicReconnect
  \/ \E r \in Requests : UserBegins(r)
  \/ UserEnds
  \/ \E b \in Bss : PeerBeacons(b) \/ PeerLeaves(b)
  \/ PeerAnswers
  \/ WpaCompletes

(* The MLME thread and the timers run, and so does the periodic work, if not *)
(* while the queue is long.                                                  *)
Fairness ==
  /\ WF_vars(MlmeHandler)
  /\ \A t \in Timers : WF_vars(TimerFires(t))
  /\ SF_vars(PeriodicInfra("good"))

SafeSpec == Init /\ [][Next]_vars
Spec == SafeSpec /\ Fairness

-----------------------------------------------------------------------------
(* The states of the machines, the queue within its length, the indices of   *)
(* the tables.  Only BSSs grant an association, so that LinkUpGranted gives  *)
(* a link that is up an address.                                             *)
TypeOK ==
  /\ pAd.cntl \in CntlStates /\ pAd.sync \in SyncStates
  /\ pAd.assoc \in AssocStates /\ pAd.auth \in AuthStates
  /\ Len(pAd.q) <= MAX_LEN_OF_MLME_QUEUE
  /\ \A i \in DOMAIN pAd.q : pAd.q[i].k \in DOMAIN Table
  /\ pAd.tm \subseteq Timers
  /\ pAd.aux \in Bss \cup {None} /\ pAd.cur \in Bss \cup {None}
  /\ ToSet(pAd.tab) \subseteq Bss /\ pAd.nr \in 0..Len(pAd.tab)
  /\ pAd.idx \in 0..Cardinality(Bss)
  /\ pAd.scan \subseteq Bss /\ net.granted \subseteq Bss
  /\ pAd.chan \in 0..NumChannels /\ pAd.cnt \in 0..Burst

(* A machine that waits for a frame has its timer running or the timer's     *)
(* message on the way, so that it cannot wait for ever, whatever cancels     *)
(* timers meanwhile: joins, scans, resets, LinkUp.  LinkUp may come, on an   *)
(* acceptance left over from earlier, in the middle of leaving and cancel    *)
(* that timer; then an association request is queued that ends the wait.     *)
Queued(q, k) == \E i \in DOMAIN q : q[i].k = k

Timed(t, k) == t \in pAd.tm \/ Queued(pAd.q, k)

WaitIsTimed ==
  /\ pAd.sync = "JOIN_WAIT_BEACON" => Timed("Beacon", "BEACON_TIMEOUT")
  /\ pAd.sync = "SCAN_LISTEN" => Timed("Scan", "SCAN_TIMEOUT")
  /\ pAd.auth = "AUTH_WAIT_SEQ2" => Timed("Auth", "AUTH_TIMEOUT")
  /\ pAd.assoc = "ASSOC_WAIT_RSP" => Timed("Assoc", "ASSOC_TIMEOUT")
  /\ pAd.assoc = "DISASSOC_WAIT_RSP" =>
       Timed("Disassoc", "DISASSOC_TIMEOUT") \/ Queued(pAd.q, "ASSOC_REQ")

(* "To prevent SyncMachine.CurrState is SCAN_LISTEN forever" (sync.c:159):   *)
(* even if a full queue loses the messages of the timers, a scan that        *)
(* listens on a channel has a timer, or its message, that ends it.           *)
ScanGoesOn == pAd.sync = "SCAN_LISTEN" => Timed("Scan", "SCAN_TIMEOUT")

(* The link goes up only with a BSS that has accepted the station's latest   *)
(* request, and not by a confirmation left over from an attempt that was     *)
(* reset or given up.                                                        *)
LinkUpGranted ==
  [][pAd'.infra /\ (~pAd.infra \/ pAd'.cur # pAd.cur) => pAd'.cur \in net.granted]_vars

(* A station that takes itself for connected, and is not leaving, has not    *)
(* told the access point otherwise; only a user's reset in the middle of     *)
(* leaving, which drops the confirmation, can bring it there.                *)
Phantom ==
  /\ pAd.infra /\ pAd.cur \notin net.granted
  /\ pAd.cntl \notin {"CNTL_WAIT_DISASSOC", "CNTL_WAIT_OID_DISASSOC"}

HeldLinkIsGranted == [][Phantom' => Phantom \/ Gets("RESET_CONF")]_vars

(* Whatever the control machine waits for comes, and it is idle again, so    *)
(* that further requests and the automatic reconnection get through, unless  *)
(* the link is cut under it.                                                 *)
WaitEnds == pAd.cntl # "CNTL_IDLE" ~> (pAd.cntl = "CNTL_IDLE" \/ net.cut)

(* Data, held back while the station scans, is sent again (RTMPSuspend- and  *)
(* RTMPResumeMsduTransmission), even if the scan is refused, reset or        *)
(* overtaken by the loss of the link.                                        *)
TrafficResumes == pAd.susp ~> ~pAd.susp
=============================================================================
