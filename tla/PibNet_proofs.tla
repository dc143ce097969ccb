---------------------------- MODULE PibNet_proofs ----------------------------
(***************************************************************************)
(* The safety properties of PibNet, proved for every number of devices,    *)
(* ports, queue pairs and messages, every script of the subnet manager,    *)
(* any number of restarts and any number of lost datagrams.                *)
(*                                                                         *)
(* The state of the network is the record Now, and every handler takes one *)
(* such record to another.  Fabric is the set of the records that can be   *)
(* reached as far as each field is concerned by itself: which datagrams    *)
(* may be where and what a table or a device may hold.  What relates two   *)
(* fields comes on top of it, in PibFabric_proofs.                         *)
(***************************************************************************)
EXTENDS PibNet, PibLists_proofs

-----------------------------------------------------------------------------
(* Datagrams *)

PortNums == 0..NetdPorts

(* The P_Keys there are, and what can become of dev->lock: only a script   *)
(* that changes a P_Key table brings a second key, and with it the receipt *)
(* that keeps the lock.                                                    *)
PKeys == IF Rekeyed THEN {0, 1} ELSE {0}
LockStates == IF Rekeyed THEN {"free", "held", "hung"} ELSE {"free"}

AnyLid == {0, PIB_LID_PERMISSIVE} \cup Lids

(* What the subnet manager sets at the switch, and what at a port *)
SwitchOps ==
  [attr : {"PortInfo"}, lid : {SwLid}, sm_lid : {Lid[SmPort]}, state : {0}]
    \cup [attr : {"LinearForwardTable"}, table : {f \in [Lids -> PortNums] : f[SwLid] = 0}]
    \cup [attr : {"McastForwardTable"}, ports : SUBSET SwPorts]
PortOps ==
  [attr : {"PortInfo"}, lid : {Lid[g] : g \in Guids}, sm_lid : {Lid[SmPort]}, state : 0..4]
    \cup [attr : {"PKeyTable"}, pkey : PKeys \ {0}]
TrapOp == [attr |-> "Trap"]
RepressOp == [attr |-> "TrapRepress"]

SmpRec ==
  [t : {"smp"}, cls : {"dr", "lid"}, dir : {0, 1}, hop : 0..2, cnt : 0..2,
   out : PortNums, ret : PortNums, slid : AnyLid, dlid : AnyLid,
   op : SwitchOps \cup PortOps \cup {TrapOp, RepressOp}, tid : Nat,
   guid : Guids \cup {0}, in0 : PortNums, via : PortNums]

(* The SMPs there are, by where they are on their way: a request to the    *)
(* switch, one to a port before and after the switch, its answer before    *)
(* the switch, any answer behind it, a notice and its repression.          *)
ForSwitch(d) == /\ d.cls = "dr" /\ d.dir = 0 /\ d.hop = 1 /\ d.cnt = 1
                /\ d.op \in SwitchOps /\ d.guid = SmPort
ForPort(d) == /\ d.cls = "dr" /\ d.dir = 0 /\ d.hop = 1 /\ d.cnt = 2
              /\ d.guid = SmPort /\ d.op \in PortOps /\ d.out \in SwPorts
AtPort(d) == /\ d.cls = "dr" /\ d.dir = 0 /\ d.hop = 2 /\ d.cnt = 2
             /\ d.op \in PortOps /\ d.ret \in SwPorts /\ d.in0 = d.ret
Returns(d) == /\ d.cls = "dr" /\ d.dir = 1 /\ d.hop = 2 /\ d.cnt = 2
              /\ d.op \in PortOps /\ d.ret \in SwPorts /\ d.in0 = d.ret
Returned(d) == d.cls = "dr" /\ d.dir = 1 /\ d.via = d.in0 /\ d.hop <= d.cnt
Notice(d) == /\ d.cls = "lid" /\ d.dir = 0 /\ d.op = TrapOp /\ d.slid = SwLid
             /\ d.hop <= d.cnt
Repress(d) == /\ d.cls = "lid" /\ d.dir = 0 /\ d.op = RepressOp /\ d.dlid = SwLid
              /\ d.hop <= d.cnt

SmpSent == {d \in SmpRec : ForSwitch(d) \/ ForPort(d) \/ Returns(d) \/ Repress(d)}
SmpKept == {d \in SmpRec : Returns(d) \/ Repress(d)}
SmpCame == {d \in SmpRec : AtPort(d) \/ Returned(d) \/ Notice(d)}
Notices == {d \in SmpCame : Notice(d)}

(* Commands of a port and answers of pibnetd, in multi-host-mode only *)
RawRec(cmds) ==
  [t : {"raw"}, cmd : cmds, guid : Guids, addr : 1..mode.loads,
   boot : 0..mode.netd, via : PortNums]
RawSent == {d \in RawRec({"CONNECT", "DISCONNECT"}) : mode.multi}
RawCame == {d \in RawRec({"CONNECT_ACK", "DISCONNECT_ACK"}) : mode.multi}

(* Packets of a UD message *)
DataRec ==
  [t : {"data"}, m : Msgs, guid : Guids, slid : {0} \cup Lids,
   dlid : {0, Mlid} \cup Lids, dqpn : {MsgQpn[m] : m \in Msgs},
   sqpn : {QpNum[q] : q \in QPs}, pkey : PKeys, via : PortNums]
Data == {d \in DataRec : /\ d.guid = QpPort[MsgFrom[d.m]]
                         /\ d.dlid = MsgDlid[d.m] /\ d.dqpn = MsgQpn[d.m]
                         /\ d.sqpn = QpNum[MsgFrom[d.m]]}

(* On the wire a UD packet has both its LIDs. *)
Wire == {d \in Data : d.slid # 0 /\ d.dlid # 0}
Group == {d \in Wire : d.dlid = Mlid}

Sent == RawSent \cup SmpSent \cup Wire
Came == RawCame \cup SmpCame \cup Wire

-----------------------------------------------------------------------------
(* Devices, ports, the switch and the history *)

(* A packet that waits in the send buffer, the copies of a multicast       *)
(* packet that are to be made, an SMP that waits for the agent             *)
Waiting ==
  {pk \in [src : {"QP0"}, port : Guids, d : SmpKept]
            \cup [src : {"UD"}, port : Guids, d : Data] : pk.d.guid = pk.port}
Copying == [src : {"mc"}, port : Guids, d : Group, qpns : SUBSET {QpNum[q] : q \in QPs}]
MadRec == [port : Guids, d : SmpCame]

HcaRec ==
  {r \in [up : BOOLEAN, boot : 0..mode.loads, lock : LockStates,
          ready : {None} \cup Waiting, mad : Seq(MadRec), mc : {None} \cup Copying,
          mcast : SUBSET QPs, qps : SUBSET QPs] :
     /\ r.mcast \subseteq r.qps /\ Len(r.mad) <= mode.room
     /\ r.up => r.boot > 0}

(* What a device holds is of its own ports. *)
OfDevice(r, h) ==
  /\ r.ready # None => DevOf[r.ready.port] = h
  /\ r.mc # None => DevOf[r.mc.port] = h
  /\ \A i \in 1..Len(r.mad) : DevOf[r.mad[i].port] = h
  /\ \A q \in r.qps : DevOf[QpPort[q]] = h
HcaS == {f \in [Hosts -> HcaRec] : \A h \in Hosts : OfDevice(f[h], h)}

PortT ==
  {r \in [state : 1..4, connected : BOOLEAN, lid : {0} \cup Lids, work : BOOLEAN,
          pkey : PKeys, bad_pkey_cntr : {0, 1}, ack : 0..mode.netd] :
     (r.work => mode.multi) /\ (r.state > 2 => r.lid # 0)}
PortS == [Guids -> PortT]

SwPort == {r \in [guid : {0} \cup Guids, addr : 0..mode.loads] : r.guid = 0 <=> r.addr = 0}
SwS ==
  {s \in [run : {"running", "stopped", "exited"}, easy : BOOLEAN, boot : Nat,
          lid : {0, SwLid}, sm_lid : {0, Lid[SmPort]}, port : [SwPorts -> SwPort],
          fwd : {f \in [Lids -> PortNums] : f[SwLid] = 0}, mfwd : SUBSET SwPorts] :
     /\ s.easy <=> ~mode.multi
     /\ \A q, k \in SwPorts : s.port[q].guid = s.port[k].guid /\ q # k
                                => s.port[q].guid = 0
     /\ s.easy => \A q \in SwPorts : s.port[q].guid \in {0, q}
     /\ mode.multi => s.boot <= mode.netd}

UpS == {f \in [Guids -> Seq(Sent)] :
          \A p \in Guids : /\ Len(f[p]) <= mode.room
                           /\ \A i \in 1..Len(f[p]) : f[p][i].guid = p}
DownS == {f \in [Guids -> Seq(Came)] : \A p \in Guids : Len(f[p]) <= mode.room}
LidS == [Lids -> {0} \cup Guids]
LogS == [posted : SUBSET Msgs, sent : [Msgs -> Nat], faults : Nat, freed : BOOLEAN,
         misled : BOOLEAN, got : [Msgs -> [QPs -> Nat]]]

Fabric == [hca : HcaS, port : PortS, sw : SwS, up : UpS, down : DownS,
           lids : LidS, log : LogS]

(* The subnet manager (external) waits for the answer to a step there is. *)
SmOK ==
  /\ sm \in [wait : BOOLEAN, next : Nat, sweeps : 0..mode.sweeps]
  /\ sm.next \in 1..(Len(mode.script) + 1)
  /\ sm.wait => sm.next <= Len(mode.script)

FabricInv == mode \in Cases /\ Now \in Fabric /\ SmOK

-----------------------------------------------------------------------------
(* The parameters *)

LEMMA ModeFacts ==
  ASSUME mode \in Cases
  PROVE  /\ mode.multi \in BOOLEAN /\ mode.loads \in Nat /\ mode.netd \in Nat
         /\ mode.faults \in Nat /\ mode.sweeps \in Nat /\ mode.room \in Nat
         /\ mode.members \subseteq QPs /\ mode.script \in Seq(ScriptSteps)
BY NetAssumption

LEMMA NetFacts ==
  /\ DevOf \in [Guids -> Hosts] /\ SmPort \in Guids /\ QpPort \in [QPs -> Guids]
  /\ MsgFrom \in [Msgs -> QPs] /\ MsgDlid \in [Msgs -> {0, Mlid} \cup Lids]
  /\ MadClass \in [Msgs -> {"perf", "other"}]
  /\ \A m \in Msgs : MsgQpn[m] = PIB_MULTICAST_QPN => MsgDlid[m] = Mlid
  /\ \A q, k \in QPs : QpNum[q] = QpNum[k] /\ DevOf[QpPort[q]] = DevOf[QpPort[k]]
                         => q = k
BY NetAssumption

LEMMA LidFacts ==
  /\ Guids \subseteq Nat \ {0} /\ NetdPorts \in Nat \ {0}
  /\ Lid \in [Guids -> Nat \ {0, PIB_LID_PERMISSIVE}] /\ SwLid \in Nat \ {0, PIB_LID_PERMISSIVE} /\ Mlid \in Nat \ {0, PIB_LID_PERMISSIVE}
  /\ \A g \in Guids : Lid[g] \in Lids /\ Lid[g] # SwLid /\ Lid[g] # Mlid
  /\ \A g, k \in Guids : Lid[g] = Lid[k] => g = k
  /\ SwLid \in Lids /\ SwLid # Mlid /\ Mlid \notin Lids
  /\ \A l \in Lids : l \in Nat \ {0, PIB_LID_PERMISSIVE}
<1>1. /\ Guids \subseteq Nat \ {0} /\ NetdPorts \in Nat \ {0}
      /\ Lid \in [Guids -> Nat \ {0, PIB_LID_PERMISSIVE}] /\ SwLid \in Nat \ {0, PIB_LID_PERMISSIVE} /\ Mlid \in Nat \ {0, PIB_LID_PERMISSIVE}
      /\ \A g, k \in Guids : Lid[g] = Lid[k] => g = k
      /\ SwLid # Mlid /\ \A g \in Guids : Lid[g] \notin {SwLid, Mlid}
  BY SwitchAssumption
<1>2. \A g \in Guids : Lid[g] \in Lids /\ Lid[g] # SwLid /\ Lid[g] # Mlid
  BY <1>1 DEF Lids
<1>3. SwLid \in Lids
  BY DEF Lids
<1>4. ASSUME NEW l \in Lids PROVE l \in Nat \ {0, PIB_LID_PERMISSIVE} /\ l # Mlid
  <2>1. CASE l = SwLid
    BY <1>1, <2>1
  <2>2. CASE l # SwLid
    <3>1. PICK g \in Guids : l = Lid[g]
      BY <2>2 DEF Lids
    <3>2. Lid[g] \in Nat \ {0, PIB_LID_PERMISSIVE} /\ Lid[g] # Mlid
      BY <1>1, <1>2
    <3> QED BY <3>1, <3>2
  <2> QED BY <2>1, <2>2
<1> QED
  BY <1>1, <1>2, <1>3, <1>4

-----------------------------------------------------------------------------
(* Queues *)

LEMMA EnqueueSeq ==
  ASSUME mode \in Cases, NEW S, NEW s \in Seq(S), NEW d \in S
  PROVE  /\ Enqueue(s, d) \in Seq(S)
         /\ Len(s) <= mode.room => Len(Enqueue(s, d)) <= mode.room
         /\ \A i \in 1..Len(Enqueue(s, d)) :
              Enqueue(s, d)[i] = d \/ (i \in 1..Len(s) /\ Enqueue(s, d)[i] = s[i])
<1>1. mode.room \in Nat
  BY ModeFacts
<1>2. CASE Len(s) < mode.room
  <2>1. Enqueue(s, d) = Append(s, d)
    BY <1>2 DEF Enqueue
  <2>2. /\ Append(s, d) \in Seq(S) /\ Len(Append(s, d)) = Len(s) + 1
        /\ \A i \in 1..Len(s) : Append(s, d)[i] = s[i]
        /\ Append(s, d)[Len(s) + 1] = d
    BY AppendProperties
  <2>3. Len(s) \in Nat
    OBVIOUS
  <2> QED BY <1>1, <1>2, <2>1, <2>2, <2>3
<1>3. CASE ~(Len(s) < mode.room)
  BY <1>3 DEF Enqueue
<1> QED
  BY <1>2, <1>3

LEMMA TailSeq ==
  ASSUME NEW S, NEW s \in Seq(S), s # <<>>
  PROVE  /\ Tail(s) \in Seq(S) /\ Len(s) \in Nat \ {0} /\ Len(Tail(s)) = Len(s) - 1
         /\ \A i \in 1..Len(Tail(s)) : i + 1 \in 1..Len(s) /\ Tail(s)[i] = s[i + 1]
         /\ Head(s) \in S /\ 1 \in 1..Len(s) /\ Head(s) = s[1]
<1>1. Len(s) \in Nat \ {0}
  BY EmptySeq
<1>2. Tail(s) \in Seq(S) /\ Len(Tail(s)) = Len(s) - 1
      /\ Head(s) = s[1]
      /\ \A i \in 1..Len(Tail(s)) : Tail(s)[i] = s[i + 1]
  BY <1>1, HeadTailProperties
<1>3. \A i \in 1..Len(Tail(s)) : i + 1 \in 1..Len(s)
  BY <1>1, <1>2
<1>4. 1 \in 1..Len(s) /\ s[1] \in S
  BY <1>1
<1> QED
  BY <1>1, <1>2, <1>3, <1>4

LEMMA UpPut ==
  ASSUME mode \in Cases, NEW f \in UpS, NEW p \in Guids, NEW d \in Sent, d.guid = p
  PROVE  [f EXCEPT ![p] = Enqueue(f[p], d)] \in UpS
<1> DEFINE s == f[p]
           e == Enqueue(s, d)
<1>1. /\ f \in [Guids -> Seq(Sent)] /\ s \in Seq(Sent) /\ Len(s) <= mode.room
      /\ \A i \in 1..Len(s) : s[i].guid = p
  BY DEF UpS
<1> HIDE DEF s
<1>2. /\ e \in Seq(Sent) /\ Len(e) <= mode.room
      /\ \A i \in 1..Len(e) : e[i].guid = p
  <2>1. s \in Seq(Sent) /\ d \in Sent
    BY <1>1
  <2>2. /\ e \in Seq(Sent) /\ (Len(s) <= mode.room => Len(e) <= mode.room)
        /\ \A i \in 1..Len(e) : e[i] = d \/ (i \in 1..Len(s) /\ e[i] = s[i])
    BY <2>1, EnqueueSeq
  <2> HIDE DEF e
  <2> QED BY <1>1, <2>2
<1> HIDE DEF e
<1>3. [f EXCEPT ![p] = e] \in UpS
  BY <1>1, <1>2 DEF UpS
<1> QED
  BY <1>3 DEF e, s

LEMMA UpPop ==
  ASSUME mode \in Cases, NEW f \in UpS, NEW p \in Guids, f[p] # <<>>
  PROVE  /\ [f EXCEPT ![p] = Tail(f[p])] \in UpS
         /\ Head(f[p]) \in Sent /\ Head(f[p]).guid = p
<1> DEFINE e == Tail(f[p])
<1>1. f \in [Guids -> Seq(Sent)] /\ Len(f[p]) <= mode.room
      /\ \A i \in 1..Len(f[p]) : f[p][i].guid = p
  BY DEF UpS
<1>2. /\ e \in Seq(Sent) /\ Len(f[p]) \in Nat \ {0} /\ Len(e) = Len(f[p]) - 1
      /\ \A i \in 1..Len(e) : i + 1 \in 1..Len(f[p]) /\ e[i] = f[p][i + 1]
      /\ Head(f[p]) \in Sent /\ Head(f[p]).guid = p
  <2>1. f[p] \in Seq(Sent)
    BY <1>1
  <2>2. Head(f[p]) = f[p][1] /\ 1 \in 1..Len(f[p])
    BY <2>1, TailSeq
  <2> QED BY <1>1, <2>1, <2>2, TailSeq
<1> HIDE DEF e
<1>3. \A i \in 1..Len(e) : e[i].guid = p
  BY <1>1, <1>2
<1>4. Len(e) <= mode.room
  <2>1. mode.room \in Nat
    BY ModeFacts
  <2> QED BY <1>1, <1>2, <2>1
<1>5. [f EXCEPT ![p] = e] \in UpS
  BY <1>1, <1>2, <1>3, <1>4 DEF UpS
<1> QED
  BY <1>2, <1>5 DEF e

LEMMA UpNone ==
  ASSUME mode \in Cases
  PROVE  [p \in Guids |-> <<>>] \in UpS
BY ModeFacts DEF UpS

LEMMA DownPut ==
  ASSUME mode \in Cases, NEW f \in DownS, NEW p \in Guids, NEW d \in Came
  PROVE  [f EXCEPT ![p] = Enqueue(f[p], d)] \in DownS
<1> DEFINE s == f[p]
           e == Enqueue(s, d)
<1>1. f \in [Guids -> Seq(Came)] /\ s \in Seq(Came) /\ Len(s) <= mode.room
  BY DEF DownS
<1> HIDE DEF s
<1>2. s \in Seq(Came) /\ d \in Came
  BY <1>1
<1>3. e \in Seq(Came) /\ (Len(s) <= mode.room => Len(e) <= mode.room)
  BY <1>2, EnqueueSeq
<1> HIDE DEF e
<1>4. [f EXCEPT ![p] = e] \in DownS
  BY <1>1, <1>3 DEF DownS
<1> QED
  BY <1>4 DEF e, s

LEMMA DownPop ==
  ASSUME mode \in Cases, NEW f \in DownS, NEW p \in Guids, f[p] # <<>>
  PROVE  [f EXCEPT ![p] = Tail(f[p])] \in DownS /\ Head(f[p]) \in Came
<1> DEFINE s == f[p]
           e == Tail(s)
<1>1. f \in [Guids -> Seq(Came)] /\ s \in Seq(Came) /\ Len(s) <= mode.room
  BY DEF DownS
<1> HIDE DEF s
<1>2. s \in Seq(Came) /\ s # <<>>
  BY <1>1 DEF s
<1>3. e \in Seq(Came) /\ Len(s) \in Nat \ {0} /\ Len(e) = Len(s) - 1 /\ Head(s) \in Came
  BY <1>2, TailSeq
<1> HIDE DEF e
<1>4. Len(e) <= mode.room
  <2>1. mode.room \in Nat
    BY ModeFacts
  <2> QED BY <1>1, <1>3, <2>1
<1>5. [f EXCEPT ![p] = e] \in DownS
  BY <1>1, <1>3, <1>4 DEF DownS
<1> QED
  BY <1>3, <1>5 DEF e, s

LEMMA DownNone ==
  ASSUME mode \in Cases, NEW f \in DownS, NEW h
  PROVE  /\ [p \in Guids |-> IF DevOf[p] = h THEN <<>> ELSE f[p]] \in DownS
         /\ [p \in Guids |-> <<>>] \in DownS
<1>1. /\ f \in [Guids -> Seq(Came)] /\ \A p \in Guids : Len(f[p]) <= mode.room
      /\ <<>> \in Seq(Came) /\ Len(<<>>) <= mode.room
  BY ModeFacts DEF DownS
<1> QED
  BY <1>1 DEF DownS

-----------------------------------------------------------------------------
(* One device at a time *)

LEMMA HcaFacts ==
  ASSUME NEW f \in HcaS, NEW h \in Hosts
  PROVE  f[h] \in HcaRec /\ OfDevice(f[h], h) /\ f \in [Hosts -> HcaRec]
BY DEF HcaS

LEMMA HcaPut ==
  ASSUME NEW f \in HcaS, NEW h \in Hosts, NEW r \in HcaRec, OfDevice(r, h)
  PROVE  [f EXCEPT ![h] = r] \in HcaS
<1>1. f \in [Hosts -> HcaRec] /\ \A k \in Hosts : OfDevice(f[k], k)
  BY DEF HcaS
<1>2. \A k \in Hosts : OfDevice([f EXCEPT ![h] = r][k], k)
  BY <1>1
<1> QED
  BY <1>1, <1>2 DEF HcaS

(* The fields of a device that a handler assigns one by one                *)
LEMMA SetReady ==
  ASSUME NEW r \in HcaRec, NEW h, OfDevice(r, h), NEW x \in {None} \cup Waiting,
         x # None => DevOf[x.port] = h
  PROVE  /\ [r EXCEPT !.ready = x] \in HcaRec /\ OfDevice([r EXCEPT !.ready = x], h)
BY DEF HcaRec, OfDevice

LEMMA SetLock ==
  ASSUME NEW r \in HcaRec, NEW h, OfDevice(r, h), NEW x \in LockStates
  PROVE  /\ [r EXCEPT !.lock = x] \in HcaRec /\ OfDevice([r EXCEPT !.lock = x], h)
BY DEF HcaRec, OfDevice

LEMMA SetMc ==
  ASSUME NEW r \in HcaRec, NEW h, OfDevice(r, h), NEW x \in {None} \cup Copying,
         x # None => DevOf[x.port] = h
  PROVE  /\ [r EXCEPT !.mc = x] \in HcaRec /\ OfDevice([r EXCEPT !.mc = x], h)
BY DEF HcaRec, OfDevice

LEMMA SetMad ==
  ASSUME NEW r \in HcaRec, NEW h, OfDevice(r, h), NEW x \in Seq(MadRec),
         Len(x) <= mode.room, \A i \in 1..Len(x) : DevOf[x[i].port] = h
  PROVE  /\ [r EXCEPT !.mad = x] \in HcaRec /\ OfDevice([r EXCEPT !.mad = x], h)
BY DEF HcaRec, OfDevice

LEMMA SetMembers ==
  ASSUME NEW r \in HcaRec, NEW h, OfDevice(r, h), NEW x \in SUBSET QPs,
         NEW y \in SUBSET r.qps, x \subseteq y
  PROVE  /\ [r EXCEPT !.mcast = x, !.qps = y] \in HcaRec
         /\ OfDevice([r EXCEPT !.mcast = x, !.qps = y], h)
BY DEF HcaRec, OfDevice

LEMMA LockFacts ==
  /\ "free" \in LockStates /\ 0 \in PKeys
  /\ Rekeyed => {"held", "hung"} \subseteq LockStates /\ 1 \in PKeys
  /\ ~Rekeyed => LockStates = {"free"} /\ PKeys = {0}
  /\ LockStates \subseteq {"free", "held", "hung"} /\ PKeys \subseteq {0, 1}
BY DEF LockStates, PKeys

LEMMA FreshDevice ==
  ASSUME mode \in Cases, NEW boot \in 0..mode.loads, NEW u \in BOOLEAN,
         u => boot > 0, NEW h, NEW x \in SUBSET QPs, NEW y \in SUBSET QPs, x \subseteq y,
         \A q \in y : DevOf[QpPort[q]] = h
  PROVE  LET r == [up |-> u, boot |-> boot, lock |-> "free", ready |-> None,
                   mad |-> <<>>, mc |-> None, mcast |-> x, qps |-> y]
         IN r \in HcaRec /\ OfDevice(r, h)
BY ModeFacts, LockFacts DEF HcaRec, OfDevice

LEMMA FreshPortType ==
  ASSUME mode \in Cases
  PROVE  FreshPort \in PortT
BY ModeFacts, LockFacts DEF FreshPort, PortT, IB_PORT_DOWN, IB_PORT_INIT

-----------------------------------------------------------------------------
(* Sending *)

LEMMA FabricFields ==
  ASSUME NEW n \in Fabric
  PROVE  /\ n.hca \in HcaS /\ n.port \in PortS /\ n.sw \in SwS /\ n.up \in UpS
         /\ n.down \in DownS /\ n.lids \in LidS /\ n.log \in LogS
BY DEF Fabric

LEMMA ToSwitchType ==
  ASSUME mode \in Cases, NEW n \in Fabric, NEW p \in Guids, NEW d \in Sent, d.guid = p
  PROVE  ToSwitch(n, p, d) \in Fabric
<1> DEFINE u == [n.up EXCEPT ![p] = Enqueue(n.up[p], d)]
<1>1. n.up \in UpS
  BY FabricFields
<1>2. u \in UpS
  BY <1>1, UpPut
<1>3. [n EXCEPT !.up[p] = Enqueue(@, d)] = [n EXCEPT !.up = u]
  BY DEF Fabric
<1> HIDE DEF u
<1>4. [n EXCEPT !.up = u] \in Fabric
  BY <1>2 DEF Fabric
<1> QED
  BY <1>3, <1>4 DEF ToSwitch

LEMMA ToPortType ==
  ASSUME mode \in Cases, NEW n \in Fabric, NEW p \in Guids, NEW d \in Came
  PROVE  ToPort(n, p, d) \in Fabric
<1> DEFINE u == [n.down EXCEPT ![p] = Enqueue(n.down[p], d)]
<1>1. n.down \in DownS
  BY FabricFields
<1>2. u \in DownS
  BY <1>1, DownPut
<1>3. [n EXCEPT !.down[p] = Enqueue(@, d)] = [n EXCEPT !.down = u]
  BY DEF Fabric
<1> HIDE DEF u
<1>4. [n EXCEPT !.down = u] \in Fabric
  BY <1>2 DEF Fabric
<1> QED
  BY <1>3, <1>4 DEF ToPort

LEMMA SetHca ==
  ASSUME NEW n \in Fabric, NEW h \in Hosts, NEW r \in HcaRec, OfDevice(r, h)
  PROVE  [n EXCEPT !.hca[h] = r] \in Fabric
<1> DEFINE u == [n.hca EXCEPT ![h] = r]
<1>1. n.hca \in HcaS
  BY FabricFields
<1>2. u \in HcaS
  BY <1>1, HcaPut
<1>3. [n EXCEPT !.hca[h] = r] = [n EXCEPT !.hca = u]
  BY DEF Fabric
<1> HIDE DEF u
<1>4. [n EXCEPT !.hca = u] \in Fabric
  BY <1>2 DEF Fabric
<1> QED
  BY <1>3, <1>4

(* A packet that process_sendmsg puts on the wire *)
Packet ==
  {pk \in [src : {"LINK", "QP0", "UD"}, port : Guids, d : Sent] :
     /\ pk.d.guid = pk.port
     /\ pk.src = "UD" => pk.d \in Wire
     /\ pk.src = "QP0" => pk.d \in SmpSent
     /\ pk.src = "LINK" => pk.d \in RawSent}

LEMMA PacketFacts ==
  ASSUME NEW pk \in Packet
  PROVE  /\ pk.port \in Guids /\ pk.d \in Sent /\ pk.d.guid = pk.port
         /\ pk.src \in {"LINK", "QP0", "UD"}
         /\ pk.src = "UD" => /\ pk.d \in Wire /\ pk.d \in Came /\ pk.d.m \in Msgs
                             /\ pk.d.dlid \in {Mlid} \cup Lids
         /\ pk.src = "QP0" => pk.d \in SmpSent
         /\ pk.src = "LINK" => pk.d \in RawSent
<1>1. /\ pk.port \in Guids /\ pk.d \in Sent /\ pk.d.guid = pk.port
      /\ pk.src \in {"LINK", "QP0", "UD"}
      /\ pk.src = "UD" => pk.d \in Wire
      /\ pk.src = "QP0" => pk.d \in SmpSent
      /\ pk.src = "LINK" => pk.d \in RawSent
  BY DEF Packet
<1>2. ASSUME pk.d \in Wire
      PROVE  pk.d.m \in Msgs /\ pk.d.dlid \in {Mlid} \cup Lids
  BY <1>2 DEF Wire, Data, DataRec
<1> QED
  BY <1>1, <1>2 DEF Came

LEMMA SendToType ==
  ASSUME mode \in Cases, NEW n \in Fabric, NEW pk \in Packet
  PROVE  SendTo(n, pk) \in Fabric
<1> DEFINE p == pk.port
           d == pk.d
           near == pk.src = "UD" /\ pib_is_unicast_lid(d.dlid)
<1>1. ToSwitch(n, p, d) \in Fabric
  <2>1. p \in Guids /\ d \in Sent /\ d.guid = p
    BY PacketFacts
  <2> QED BY <2>1, ToSwitchType
<1>2. ASSUME near, NEW k \in Guids PROVE ToPort(n, k, d) \in Fabric
  <2>1. d \in Came
    BY <1>2, PacketFacts
  <2> QED BY <2>1, ToPortType
<1>3. ASSUME near, n.lids[d.dlid] # 0 PROVE n.lids[d.dlid] \in Guids
  <2>1. d.dlid \in Lids
    BY <1>3, PacketFacts DEF pib_is_unicast_lid
  <2>2. n.lids \in [Lids -> {0} \cup Guids]
    BY FabricFields DEF LidS
  <2> QED BY <1>3, <2>1, <2>2
<1>4. p \in Guids
  BY PacketFacts
<1>5. SendTo(n, pk) = IF mode.multi THEN ToSwitch(n, p, d)
                      ELSE IF near /\ d.dlid = n.port[p].lid THEN ToPort(n, p, d)
                      ELSE IF near /\ n.lids[d.dlid] # 0
                      THEN ToPort(n, n.lids[d.dlid], d)
                      ELSE ToSwitch(n, p, d)
  BY Zenon DEF SendTo
<1> HIDE DEF p, d, near
<1>6. CASE near /\ n.lids[d.dlid] # 0
  <2>1. ToPort(n, n.lids[d.dlid], d) \in Fabric /\ ToPort(n, p, d) \in Fabric
    BY <1>2, <1>3, <1>4, <1>6
  <2> QED BY <1>1, <1>5, <2>1
<1>7. CASE ~(near /\ n.lids[d.dlid] # 0)
  <2>1. near => ToPort(n, p, d) \in Fabric
    BY <1>2, <1>4
  <2> QED BY <1>1, <1>5, <1>7, <2>1
<1> QED
  BY <1>6, <1>7

LEMMA TransmitType ==
  ASSUME mode \in Cases, NEW n \in Fabric, NEW pk \in Packet
  PROVE  Transmit(n, pk) \in Fabric
<1> DEFINE s == SendTo(n, pk)
           loops == pk.src = "UD" /\ ~pib_is_unicast_lid(pk.d.dlid)
           l == IF loops THEN ToPort(s, pk.port, pk.d) ELSE s
<1>1. s \in Fabric
  BY SendToType
<1> HIDE DEF s
<1>2. l \in Fabric
  <2>1. CASE loops
    <3>1. pk.port \in Guids /\ pk.d \in Came
      BY <2>1, PacketFacts
    <3>2. ToPort(s, pk.port, pk.d) \in Fabric
      BY <1>1, <3>1, ToPortType
    <3> QED BY <2>1, <3>2
  <2>2. CASE ~loops
    BY <1>1, <2>2
  <2> QED BY <2>1, <2>2
<1>3. Transmit(n, pk) = IF pk.src # "UD" THEN l ELSE [l EXCEPT !.log.sent[pk.d.m] = @ + 1]
  BY DEF Transmit, s
<1> HIDE DEF l
<1>4. ASSUME pk.src = "UD" PROVE [l EXCEPT !.log.sent[pk.d.m] = @ + 1] \in Fabric
  <2>1. pk.d.m \in Msgs
    BY <1>4, PacketFacts
  <2>2. l.log \in LogS
    BY <1>2, FabricFields
  <2> DEFINE g == [l.log EXCEPT !.sent[pk.d.m] = @ + 1]
  <2>3. g \in LogS
    <3> DEFINE v == [l.log.sent EXCEPT ![pk.d.m] = @ + 1]
    <3>1. l.log.sent \in [Msgs -> Nat]
      BY <2>2 DEF LogS
    <3>2. v \in [Msgs -> Nat]
      BY <2>1, <3>1
    <3>3. g = [l.log EXCEPT !.sent = v]
      OBVIOUS
    <3> HIDE DEF v, g
    <3> QED BY <2>2, <3>2, <3>3 DEF LogS
  <2>4. [l EXCEPT !.log.sent[pk.d.m] = @ + 1] = [l EXCEPT !.log = g]
    BY <1>2 DEF Fabric
  <2> HIDE DEF g
  <2>5. [l EXCEPT !.log = g] \in Fabric
    BY <1>2, <2>3 DEF Fabric
  <2> QED BY <2>4, <2>5
<1> QED
  BY <1>2, <1>3, <1>4

(* The buffer of the thread of h, emptied or filled                        *)
Buffer(n, h, x) == [n EXCEPT !.hca[h].ready = x]

LEMMA BufferType ==
  ASSUME NEW n \in Fabric, NEW h \in Hosts, NEW x \in {None} \cup Waiting,
         x # None => DevOf[x.port] = h
  PROVE  Buffer(n, h, x) \in Fabric
<1> DEFINE r == [n.hca[h] EXCEPT !.ready = x]
<1>1. n.hca[h] \in HcaRec /\ OfDevice(n.hca[h], h)
  BY FabricFields, HcaFacts
<1>2. r \in HcaRec /\ OfDevice(r, h)
  BY <1>1, SetReady
<1>3. Buffer(n, h, x) = [n EXCEPT !.hca[h] = r]
  BY DEF Buffer
<1> HIDE DEF r
<1> QED
  BY <1>2, <1>3, SetHca

Undeliverable(pk) == pk.src = "UD" /\ (pk.d.slid = 0 \/ pk.d.dlid = 0)

LEMMA WaitingFacts ==
  ASSUME NEW pk \in Waiting
  PROVE  /\ pk.src \in {"QP0", "UD"} /\ pk.port \in Guids /\ pk # None
         /\ pk.src # "none" /\ pk.d.guid = pk.port
         /\ pk.src = "UD" => pk.d \in Data
         /\ pk.src = "QP0" => pk.d \in SmpKept
         /\ ~Undeliverable(pk) => pk \in Packet
<1>1. SmpKept \subseteq SmpSent /\ SmpSent \subseteq Sent /\ Wire \subseteq Sent
  BY DEF SmpKept, SmpSent, Sent
<1>2. CASE pk \in [src : {"QP0"}, port : Guids, d : SmpKept]
  <2>1. pk.d.guid = pk.port
    BY DEF Waiting
  <2>2. pk # None
    BY <1>2 DEF None
  <2>3. pk \in Packet
    BY <1>1, <1>2, <2>1 DEF Packet
  <2> QED BY <1>1, <1>2, <2>1, <2>2, <2>3
<1>3. CASE pk \in [src : {"UD"}, port : Guids, d : Data]
  <2>1. pk.d.guid = pk.port
    BY DEF Waiting
  <2>2. pk # None
    BY <1>3 DEF None
  <2>3. ASSUME ~Undeliverable(pk) PROVE pk \in Packet
    <3>1. pk.d \in Wire
      BY <1>3, <2>3 DEF Wire, Undeliverable
    <3> QED BY <1>1, <1>3, <2>1, <3>1 DEF Packet
  <2> QED BY <1>1, <1>3, <2>1, <2>2, <2>3
<1> QED
  BY <1>2, <1>3 DEF Waiting

(* process_sendmsg drops the packet, leaves it or transmits it.            *)
LEMMA SendmsgCases ==
  ASSUME NEW n, NEW h
  PROVE  LET pk == n.hca[h].ready
         IN process_sendmsg(n, h)
              = IF Undeliverable(pk) THEN Buffer(n, h, None)
                ELSE IF ~LinkTakes(n.port[pk.port].state, pk.src) THEN n
                ELSE Transmit(Buffer(n, h, None), pk)
BY Zenon DEF process_sendmsg, Undeliverable, Buffer

LEMMA SendmsgType ==
  ASSUME mode \in Cases, NEW n \in Fabric, NEW h \in Hosts, n.hca[h].ready # None
  PROVE  process_sendmsg(n, h) \in Fabric
<1> DEFINE pk == n.hca[h].ready
           m == Buffer(n, h, None)
<1>1. pk \in Waiting
  <2>1. n.hca[h] \in HcaRec
    BY FabricFields, HcaFacts
  <2> QED BY <2>1 DEF HcaRec
<1>2. m \in Fabric
  BY BufferType
<1>3. process_sendmsg(n, h) = IF Undeliverable(pk) THEN m
                ELSE IF ~LinkTakes(n.port[pk.port].state, pk.src) THEN n
                ELSE Transmit(m, pk)
  BY SendmsgCases
<1> HIDE DEF m, pk
<1>4. ASSUME ~Undeliverable(pk) PROVE Transmit(m, pk) \in Fabric
  <2>1. pk \in Packet
    BY <1>1, <1>4, WaitingFacts
  <2> QED BY <1>2, <2>1, TransmitType
<1> QED
  BY <1>2, <1>3, <1>4

(* The same for a packet that was just built: the buffer is overwritten.   *)
LEMMA BuildCases ==
  ASSUME NEW n \in Fabric, NEW h \in Hosts, NEW p \in Guids, NEW src, NEW d
  PROVE  LET pk == [src |-> src, port |-> p, d |-> d]
         IN BuildAndSend(n, h, p, src, d)
              = IF Undeliverable(pk) THEN Buffer(n, h, None)
                ELSE IF ~LinkTakes(n.port[p].state, src) THEN Buffer(n, h, pk)
                ELSE Transmit(Buffer(n, h, None), pk)
<1> DEFINE pk == [src |-> src, port |-> p, d |-> d]
           m == Buffer(n, h, pk)
<1>1. BuildAndSend(n, h, p, src, d) = process_sendmsg(m, h)
  BY DEF BuildAndSend, Buffer
<1>2. n.hca \in [Hosts -> HcaRec] /\ n.hca[h] \in HcaRec
  BY FabricFields, HcaFacts
<1>3. m.hca[h].ready = pk
  <2>1. DOMAIN n.hca[h] = {"up", "boot", "lock", "ready", "mad", "mc", "mcast", "qps"}
    BY <1>2 DEF HcaRec
  <2> HIDE DEF pk
  <2> QED BY <1>2, <2>1 DEF Buffer, Fabric
<1>4. m.port = n.port
  BY DEF Buffer, Fabric
<1>5. Buffer(m, h, None) = Buffer(n, h, None)
  <2>1. m.hca = [n.hca EXCEPT ![h].ready = pk]
    <3> HIDE DEF pk
    <3> QED BY DEF Buffer, Fabric
  <2>2. [m.hca EXCEPT ![h].ready = None] = [n.hca EXCEPT ![h].ready = None]
    <3> HIDE DEF pk, m
    <3> QED BY <1>2, <2>1, ZenonT(30) DEF HcaRec
  <2>3. Buffer(m, h, None) = [m EXCEPT !.hca = [m.hca EXCEPT ![h].ready = None]]
    BY DEF Buffer
  <2>4. Buffer(n, h, None) = [n EXCEPT !.hca = [n.hca EXCEPT ![h].ready = None]]
    BY DEF Buffer
  <2>5. \A x : [m EXCEPT !.hca = x] = [n EXCEPT !.hca = x]
    <3> HIDE DEF pk
    <3> QED BY DEF Buffer, Fabric
  <2> QED BY <2>2, <2>3, <2>4, <2>5
<1>6. pk.src = src /\ pk.port = p
  OBVIOUS
<1> HIDE DEF pk
<1>7. process_sendmsg(m, h)
        = IF Undeliverable(pk) THEN Buffer(m, h, None)
          ELSE IF ~LinkTakes(m.port[pk.port].state, pk.src) THEN m
          ELSE Transmit(Buffer(m, h, None), pk)
  <2> HIDE DEF m
  <2> QED BY <1>3, SendmsgCases
<1>8. BuildAndSend(n, h, p, src, d)
        = IF Undeliverable(pk) THEN Buffer(n, h, None)
          ELSE IF ~LinkTakes(n.port[p].state, src) THEN Buffer(n, h, pk)
          ELSE Transmit(Buffer(n, h, None), pk)
  BY <1>1, <1>4, <1>5, <1>6, <1>7, Zenon
<1> QED
  BY <1>8 DEF pk

LEMMA BuildType ==
  ASSUME mode \in Cases, NEW n \in Fabric, NEW h \in Hosts, NEW p \in Guids, DevOf[p] = h,
         NEW src, NEW d, d.guid = p,
         \/ src = "UD" /\ d \in Data
         \/ src = "QP0" /\ d \in SmpKept
         \/ src = "QP0" /\ d \in SmpSent /\ n.port[p].state # IB_PORT_DOWN
         \/ src = "LINK" /\ d \in RawSent
  PROVE  BuildAndSend(n, h, p, src, d) \in Fabric
<1> DEFINE pk == [src |-> src, port |-> p, d |-> d]
           m == Buffer(n, h, None)
<1>1. m \in Fabric
  BY BufferType
<1>2. BuildAndSend(n, h, p, src, d)
        = IF Undeliverable(pk) THEN m
          ELSE IF ~LinkTakes(n.port[p].state, src) THEN Buffer(n, h, pk)
          ELSE Transmit(m, pk)
  BY BuildCases
<1>3. SmpKept \subseteq SmpSent
  BY DEF SmpKept, SmpSent
<1>4. ASSUME ~Undeliverable(pk) PROVE Transmit(m, pk) \in Fabric
  <2>2. pk.src = src /\ pk.d = d /\ pk.port = p
    OBVIOUS
  <2>3. src = "UD" => d.dlid # 0 /\ d.slid # 0
    BY <1>4, <2>2 DEF Undeliverable
  <2>1. /\ src \in {"LINK", "QP0", "UD"} /\ (src = "UD" => d \in Wire)
        /\ (src = "QP0" => d \in SmpSent) /\ (src = "LINK" => d \in RawSent)
    BY <1>3, <2>3 DEF Wire
  <2>5. d \in Sent
    BY <2>1 DEF Sent
  <2>4. pk \in Packet
    BY <2>1, <2>5 DEF Packet
  <2> HIDE DEF m, pk
  <2> QED BY <1>1, <2>4, TransmitType
<1>5. ASSUME ~LinkTakes(n.port[p].state, src) PROVE Buffer(n, h, pk) \in Fabric
  <2>1. (src = "UD" /\ d \in Data) \/ (src = "QP0" /\ d \in SmpKept)
    BY <1>5 DEF LinkTakes
  <2>2. pk \in Waiting
    BY <2>1 DEF Waiting
  <2>3. DevOf[pk.port] = h
    OBVIOUS
  <2> HIDE DEF pk
  <2> QED BY <2>2, <2>3, BufferType
<1> HIDE DEF m, pk
<1> QED
  BY <1>1, <1>2, <1>4, <1>5

-----------------------------------------------------------------------------
(* Links *)

RawOf(n, p, cmd) ==
  [t |-> "raw", cmd |-> cmd, guid |-> p, addr |-> n.hca[DevOf[p]].boot,
   boot |-> 0, via |-> 0]

LEMMA RawOfType ==
  ASSUME mode \in Cases, mode.multi, NEW n \in Fabric, NEW p \in Guids,
         NEW cmd \in {"CONNECT", "DISCONNECT"}, n.hca[DevOf[p]].boot > 0
  PROVE  RawOf(n, p, cmd) \in RawSent /\ RawOf(n, p, cmd).guid = p
<1>1. DevOf[p] \in Hosts
  BY NetFacts
<1>2. n.hca[DevOf[p]].boot \in 0..mode.loads
  BY <1>1, FabricFields, HcaFacts DEF HcaRec
<1>3. n.hca[DevOf[p]].boot \in 1..mode.loads
  BY <1>2, ModeFacts
<1>4. 0 \in 0..mode.netd /\ 0 \in PortNums
  BY ModeFacts, LidFacts DEF PortNums
<1> QED
  BY <1>3, <1>4 DEF RawOf, RawSent, RawRec

(* A link command is sent at once, whatever state the port is in.          *)
LEMMA SendRaw ==
  ASSUME mode.multi, NEW n \in Fabric, NEW p \in Guids, NEW cmd
  PROVE  send_raw_packet_to_pibnetd(n, p, cmd)
           = ToSwitch(Buffer(n, DevOf[p], None), p, RawOf(n, p, cmd))
<1> DEFINE d == RawOf(n, p, cmd)
           pk == [src |-> "LINK", port |-> p, d |-> d]
           m == Buffer(n, DevOf[p], None)
<1>1. send_raw_packet_to_pibnetd(n, p, cmd) = BuildAndSend(n, DevOf[p], p, "LINK", d)
  BY DEF send_raw_packet_to_pibnetd, RawOf
<1>2. DevOf[p] \in Hosts
  BY NetFacts
<1> HIDE DEF d
<1>3. BuildAndSend(n, DevOf[p], p, "LINK", d)
        = IF Undeliverable(pk) THEN m
          ELSE IF ~LinkTakes(n.port[p].state, "LINK") THEN Buffer(n, DevOf[p], pk)
          ELSE Transmit(m, pk)
  BY <1>2, BuildCases
<1>4. ~Undeliverable(pk) /\ LinkTakes(n.port[p].state, "LINK")
  BY DEF Undeliverable, LinkTakes
<1> HIDE DEF m
<1>5. Transmit(m, pk) = SendTo(m, pk)
  BY DEF Transmit
<1>6. SendTo(m, pk) = ToSwitch(m, p, d)
  BY DEF SendTo
<1> HIDE DEF pk
<1> QED
  BY <1>1, <1>3, <1>4, <1>5, <1>6 DEF m, d

(* The commands of all ports of h, each behind what the port sent before   *)
Commands(n, h, cmd) ==
  [p \in Guids |-> IF DevOf[p] = h /\ n.sw.run = "running"
                   THEN Enqueue(n.up[p], RawOf(n, p, cmd)) ELSE n.up[p]]

LEMMA RawUp ==
  ASSUME mode.multi, NEW n \in Fabric, NEW p \in Guids, NEW cmd
  PROVE  LET r == send_raw_packet_to_pibnetd(n, p, cmd)
         IN /\ r.port = n.port /\ r.sw = n.sw
            /\ r.up[p] = IF n.sw.run = "running"
                         THEN Enqueue(n.up[p], RawOf(n, p, cmd)) ELSE n.up[p]
            /\ DOMAIN r = {"hca", "port", "sw", "up", "down", "lids", "log"}
<1> DEFINE m == Buffer(n, DevOf[p], None)
           d == RawOf(n, p, cmd)
           r == ToSwitch(m, p, d)
<1>1. send_raw_packet_to_pibnetd(n, p, cmd) = r
  BY SendRaw
<1>2. /\ m.up = n.up /\ m.sw = n.sw /\ m.port = n.port
      /\ DOMAIN m = {"hca", "port", "sw", "up", "down", "lids", "log"}
  BY DEF Buffer, Fabric
<1>3. n.up \in [Guids -> Seq(Sent)]
  BY FabricFields DEF UpS
<1> HIDE DEF m, d
<1>4. /\ r.port = m.port /\ r.sw = m.sw /\ DOMAIN r = DOMAIN m
      /\ r.up[p] = IF m.sw.run = "running" THEN Enqueue(m.up[p], d) ELSE m.up[p]
  <2>1. CASE m.sw.run = "running"
    BY <1>2, <1>3, <2>1 DEF ToSwitch
  <2>2. CASE m.sw.run # "running"
    BY <1>2, <2>2 DEF ToSwitch
  <2> QED BY <2>1, <2>2
<1> QED
  BY <1>1, <1>2, <1>4 DEF d

(* kthread_routine before its loop, in multi-host-mode and in the other    *)
LEMMA PortsUpMulti ==
  ASSUME mode.multi, NEW n \in Fabric, NEW h \in Hosts
  PROVE  PortsUp(n, h)
           = [n EXCEPT !.port = [p \in Guids |-> IF DevOf[p] = h
                                                THEN [n.port[p] EXCEPT !.work = TRUE]
                                                ELSE n.port[p]],
                       !.up = Commands(n, h, "CONNECT")]
<1> DEFINE c(p) == connect_pibnetd(n, p)
           np == [p \in Guids |-> IF DevOf[p] = h THEN c(p).port[p] ELSE n.port[p]]
           nu == [p \in Guids |-> IF DevOf[p] = h THEN c(p).up[p] ELSE n.up[p]]
           ns == [q \in SwPorts |-> IF q \in PortsOf(h)
                                    THEN c(q).sw.port[q] ELSE n.sw.port[q]]
<1>1. PortsUp(n, h) = [n EXCEPT !.port = np, !.up = nu, !.sw.port = ns]
  <2> DEFINE at == [p \in PortsOf(h) |->
                      IF mode.multi THEN connect_pibnetd(n, p) ELSE to_udp_port(n, p)]
  <2>1. PortsUp(n, h) = EachPort(n, h, at)
    BY DEF PortsUp
  <2>2. \A p \in PortsOf(h) : at[p] = c(p)
    OBVIOUS
  <2>3. \A p \in Guids : DevOf[p] = h => p \in PortsOf(h)
    BY DEF PortsOf
  <2> HIDE DEF at, c
  <2>4. /\ np = [p \in Guids |-> IF DevOf[p] = h THEN at[p].port[p] ELSE n.port[p]]
        /\ nu = [p \in Guids |-> IF DevOf[p] = h THEN at[p].up[p] ELSE n.up[p]]
        /\ ns = [q \in SwPorts |-> IF q \in PortsOf(h) THEN at[q].sw.port[q] ELSE n.sw.port[q]]
    BY <2>2, <2>3
  <2> HIDE DEF np, nu, ns
  <2> QED BY <2>1, <2>4 DEF EachPort
<1>2. ASSUME NEW p \in Guids
      PROVE  /\ c(p).port[p] = [n.port[p] EXCEPT !.work = TRUE] /\ c(p).sw = n.sw
             /\ c(p).up[p] = IF n.sw.run = "running"
                             THEN Enqueue(n.up[p], RawOf(n, p, "CONNECT")) ELSE n.up[p]
  <2> DEFINE r == send_raw_packet_to_pibnetd(n, p, "CONNECT")
  <2>1. /\ r.port = n.port /\ r.sw = n.sw
        /\ r.up[p] = IF n.sw.run = "running"
                     THEN Enqueue(n.up[p], RawOf(n, p, "CONNECT")) ELSE n.up[p]
        /\ DOMAIN r = {"hca", "port", "sw", "up", "down", "lids", "log"}
    BY RawUp
  <2>2. n.port \in [Guids -> PortT]
    BY FabricFields DEF PortS
  <2>3. c(p) = [r EXCEPT !.port[p].work = TRUE]
    BY DEF connect_pibnetd
  <2> HIDE DEF r, c
  <2>4. c(p).sw = r.sw /\ c(p).up = r.up /\ c(p).port = [r.port EXCEPT ![p].work = TRUE]
    BY <2>1, <2>3
  <2>5. [r.port EXCEPT ![p].work = TRUE][p] = [r.port[p] EXCEPT !.work = TRUE]
    BY <2>1, <2>2
  <2> QED BY <2>1, <2>4, <2>5
<1> HIDE DEF c
<1>3. np = [p \in Guids |-> IF DevOf[p] = h THEN [n.port[p] EXCEPT !.work = TRUE]
                            ELSE n.port[p]]
  BY <1>2
<1>4. nu = Commands(n, h, "CONNECT")
  <2>1. ASSUME NEW p \in Guids
        PROVE  (IF DevOf[p] = h THEN c(p).up[p] ELSE n.up[p])
                 = IF DevOf[p] = h /\ n.sw.run = "running"
                   THEN Enqueue(n.up[p], RawOf(n, p, "CONNECT")) ELSE n.up[p]
    BY <1>2
  <2> QED BY <2>1 DEF Commands
<1>5. n.sw.port \in [SwPorts -> SwPort] /\ n.sw \in SwS
  BY FabricFields DEF SwS
<1>6. ns = n.sw.port
  <2>1. ASSUME NEW q \in SwPorts
        PROVE  (IF q \in PortsOf(h) THEN c(q).sw.port[q] ELSE n.sw.port[q]) = n.sw.port[q]
    BY <1>2 DEF PortsOf
  <2> QED BY <1>5, <2>1
<1>7. [n.sw EXCEPT !.port = ns] = n.sw
  <2> HIDE DEF ns
  <2> QED BY <1>5, <1>6 DEF SwS
<1>8. PortsUp(n, h) = [n EXCEPT !.port = np, !.up = nu, !.sw = [n.sw EXCEPT !.port = ns]]
  <2> HIDE DEF np, nu, ns
  <2> QED BY <1>1 DEF Fabric
<1> HIDE DEF np, nu, ns
<1>9. PortsUp(n, h) = [n EXCEPT !.port = np, !.up = nu]
  BY <1>7, <1>8 DEF Fabric
<1> QED
  BY <1>3, <1>4, <1>9

LEMMA PortsUpSingle ==
  ASSUME ~mode.multi, NEW n \in Fabric, NEW h \in Hosts
  PROVE  PortsUp(n, h)
           = [n EXCEPT !.sw.port = [q \in SwPorts |->
                IF q \in PortsOf(h) THEN [guid |-> q, addr |-> n.hca[h].boot]
                ELSE n.sw.port[q]]]
<1> DEFINE c(p) == to_udp_port(n, p)
           np == [p \in Guids |-> IF DevOf[p] = h THEN c(p).port[p] ELSE n.port[p]]
           nu == [p \in Guids |-> IF DevOf[p] = h THEN c(p).up[p] ELSE n.up[p]]
           ns == [q \in SwPorts |-> IF q \in PortsOf(h)
                                    THEN c(q).sw.port[q] ELSE n.sw.port[q]]
<1>1. PortsUp(n, h) = [n EXCEPT !.port = np, !.up = nu, !.sw.port = ns]
  <2> DEFINE at == [p \in PortsOf(h) |->
                      IF mode.multi THEN connect_pibnetd(n, p) ELSE to_udp_port(n, p)]
  <2>1. PortsUp(n, h) = EachPort(n, h, at)
    BY DEF PortsUp
  <2>2. \A p \in PortsOf(h) : at[p] = c(p)
    OBVIOUS
  <2>3. \A p \in Guids : DevOf[p] = h => p \in PortsOf(h)
    BY DEF PortsOf
  <2> HIDE DEF at, c
  <2>4. /\ np = [p \in Guids |-> IF DevOf[p] = h THEN at[p].port[p] ELSE n.port[p]]
        /\ nu = [p \in Guids |-> IF DevOf[p] = h THEN at[p].up[p] ELSE n.up[p]]
        /\ ns = [q \in SwPorts |-> IF q \in PortsOf(h) THEN at[q].sw.port[q] ELSE n.sw.port[q]]
    BY <2>2, <2>3
  <2> HIDE DEF np, nu, ns
  <2> QED BY <2>1, <2>4 DEF EachPort
<1>2. /\ n.sw.port \in [SwPorts -> SwPort] /\ n.sw \in SwS
      /\ n.port \in [Guids -> PortT] /\ n.up \in [Guids -> Seq(Sent)]
  BY FabricFields DEF SwS, PortS, UpS
<1>3. ASSUME NEW p
      PROVE  /\ c(p).port = n.port /\ c(p).up = n.up
             /\ p \in SwPorts => c(p).sw.port[p] = [guid |-> p, addr |-> n.hca[DevOf[p]].boot]
  <2> DEFINE e == [guid |-> p, addr |-> n.hca[DevOf[p]].boot]
  <2>1. c(p) = [n EXCEPT !.sw.port[p] = e]
    BY DEF to_udp_port
  <2> HIDE DEF e, c
  <2>2. c(p).port = n.port /\ c(p).up = n.up /\ c(p).sw = [n.sw EXCEPT !.port[p] = e]
    BY <2>1 DEF Fabric
  <2>3. c(p).sw.port = [n.sw.port EXCEPT ![p] = e]
    BY <1>2, <2>2 DEF SwS
  <2>4. p \in SwPorts => c(p).sw.port[p] = e
    BY <1>2, <2>3
  <2> QED BY <2>2, <2>4 DEF e
<1> HIDE DEF c
<1>4. np = n.port /\ nu = n.up
  BY <1>2, <1>3
<1>5. ns = [q \in SwPorts |-> IF q \in PortsOf(h) THEN [guid |-> q, addr |-> n.hca[h].boot]
                              ELSE n.sw.port[q]]
  BY <1>3 DEF PortsOf
<1> HIDE DEF np, nu, ns
<1>6. PortsUp(n, h) = [n EXCEPT !.sw.port = ns]
  BY <1>1, <1>4 DEF Fabric
<1> QED
  BY <1>5, <1>6

(* kthread_routine after its loop                                          *)
LEMMA LinkChange ==
  ASSUME NEW r \in PortT, NEW c \in BOOLEAN, NEW st \in 1..2, NEW a \in 0..mode.netd
  PROVE  /\ [r EXCEPT !.connected = c, !.state = st, !.ack = a] \in PortT
         /\ [r EXCEPT !.connected = c, !.state = st] \in PortT
<1>1. st \in 1..4 /\ ~(st > 2)
  OBVIOUS
<1>2. [r EXCEPT !.connected = c, !.state = st, !.ack = a] \in PortT
  BY <1>1 DEF PortT
<1>3. [r EXCEPT !.connected = c, !.state = st] \in PortT
  BY <1>1 DEF PortT
<1> QED
  BY <1>2, <1>3

LEMMA PortsDownMulti ==
  ASSUME mode.multi, NEW n \in Fabric, NEW h \in Hosts
  PROVE  \E f : /\ PortsDown(n, h)
                  = [n EXCEPT !.port = f, !.up = Commands(n, h, "DISCONNECT")]
                /\ f \in PortS /\ \A p \in Guids : DevOf[p] # h => f[p] = n.port[p]
<1> DEFINE c(p) == disconnect_pibnetd(n, p)
           np == [p \in Guids |-> IF DevOf[p] = h THEN c(p).port[p] ELSE n.port[p]]
           nu == [p \in Guids |-> IF DevOf[p] = h THEN c(p).up[p] ELSE n.up[p]]
           ns == [q \in SwPorts |-> IF q \in PortsOf(h)
                                    THEN c(q).sw.port[q] ELSE n.sw.port[q]]
<1>1. PortsDown(n, h) = [n EXCEPT !.port = np, !.up = nu, !.sw.port = ns]
  <2> DEFINE at == [p \in PortsOf(h) |->
                      IF mode.multi THEN disconnect_pibnetd(n, p) ELSE no_udp_port(n, p)]
  <2>1. PortsDown(n, h) = EachPort(n, h, at)
    BY DEF PortsDown
  <2>2. \A p \in PortsOf(h) : at[p] = c(p)
    OBVIOUS
  <2>3. \A p \in Guids : DevOf[p] = h => p \in PortsOf(h)
    BY DEF PortsOf
  <2> HIDE DEF at, c
  <2>4. /\ np = [p \in Guids |-> IF DevOf[p] = h THEN at[p].port[p] ELSE n.port[p]]
        /\ nu = [p \in Guids |-> IF DevOf[p] = h THEN at[p].up[p] ELSE n.up[p]]
        /\ ns = [q \in SwPorts |-> IF q \in PortsOf(h) THEN at[q].sw.port[q] ELSE n.sw.port[q]]
    BY <2>2, <2>3
  <2> HIDE DEF np, nu, ns
  <2> QED BY <2>1, <2>4 DEF EachPort
<1>2. ASSUME NEW p \in Guids
      PROVE  /\ c(p).sw = n.sw /\ c(p).port[p] \in PortT
             /\ c(p).up[p] = IF n.sw.run = "running"
                             THEN Enqueue(n.up[p], RawOf(n, p, "DISCONNECT")) ELSE n.up[p]
  <2> DEFINE r == send_raw_packet_to_pibnetd(n, p, "DISCONNECT")
  <2>1. /\ r.sw = n.sw /\ r.port = n.port
        /\ r.up[p] = IF n.sw.run = "running"
                     THEN Enqueue(n.up[p], RawOf(n, p, "DISCONNECT")) ELSE n.up[p]
        /\ DOMAIN r = {"hca", "port", "sw", "up", "down", "lids", "log"}
    BY RawUp
  <2>2. c(p) = [r EXCEPT !.port[p].connected = FALSE, !.port[p].state = IB_PORT_DOWN]
    BY DEF disconnect_pibnetd
  <2> HIDE DEF r, c
  <2>3. c(p).sw = r.sw /\ c(p).up = r.up
    BY <2>1, <2>2
  <2> DEFINE f == n.port
             x == f[p]
  <2>4. f \in [Guids -> PortT] /\ x \in PortT
    BY FabricFields DEF PortS
  <2>5. IB_PORT_DOWN \in 1..2 /\ FALSE \in BOOLEAN /\ x.ack \in 0..mode.netd
    BY <2>4 DEF IB_PORT_DOWN, PortT
  <2>6. c(p).port = [f EXCEPT ![p].connected = FALSE, ![p].state = IB_PORT_DOWN]
    BY <2>1, <2>2
  <2>7. c(p).port[p] = [x EXCEPT !.connected = FALSE, !.state = IB_PORT_DOWN]
    <3> HIDE DEF f
    <3> QED BY <2>4, <2>6
  <2> HIDE DEF f, x
  <2>8. c(p).port[p] \in PortT
    BY <2>4, <2>5, <2>7, LinkChange, Zenon
  <2> QED BY <2>1, <2>3, <2>8
<1> HIDE DEF c
<1>3. np \in PortS /\ \A p \in Guids : DevOf[p] # h => np[p] = n.port[p]
  <2>1. n.port \in [Guids -> PortT]
    BY FabricFields DEF PortS
  <2> QED BY <1>2, <2>1 DEF PortS
<1>4. nu = Commands(n, h, "DISCONNECT")
  <2>1. ASSUME NEW p \in Guids
        PROVE  (IF DevOf[p] = h THEN c(p).up[p] ELSE n.up[p])
                 = IF DevOf[p] = h /\ n.sw.run = "running"
                   THEN Enqueue(n.up[p], RawOf(n, p, "DISCONNECT")) ELSE n.up[p]
    BY <1>2
  <2> QED BY <2>1 DEF Commands
<1>5. n.sw.port \in [SwPorts -> SwPort] /\ n.sw \in SwS
  BY FabricFields DEF SwS
<1>6. ns = n.sw.port
  <2>1. ASSUME NEW q \in SwPorts
        PROVE  (IF q \in PortsOf(h) THEN c(q).sw.port[q] ELSE n.sw.port[q]) = n.sw.port[q]
    BY <1>2 DEF PortsOf
  <2> QED BY <1>5, <2>1
<1>7. [n.sw EXCEPT !.port = ns] = n.sw
  <2> HIDE DEF ns
  <2> QED BY <1>5, <1>6 DEF SwS
<1>8. PortsDown(n, h) = [n EXCEPT !.port = np, !.up = nu, !.sw = [n.sw EXCEPT !.port = ns]]
  <2> HIDE DEF np, nu, ns
  <2> QED BY <1>1 DEF Fabric
<1> HIDE DEF np, nu, ns
<1>9. PortsDown(n, h) = [n EXCEPT !.port = np, !.up = nu]
  BY <1>7, <1>8 DEF Fabric
<1> QED
  BY <1>3, <1>4, <1>9

LEMMA PortsDownSingle ==
  ASSUME ~mode.multi, NEW n \in Fabric, NEW h \in Hosts
  PROVE  PortsDown(n, h)
           = [n EXCEPT !.sw.port = [q \in SwPorts |->
                IF q \in PortsOf(h) THEN FreePort ELSE n.sw.port[q]]]
<1> DEFINE c(p) == no_udp_port(n, p)
           np == [p \in Guids |-> IF DevOf[p] = h THEN c(p).port[p] ELSE n.port[p]]
           nu == [p \in Guids |-> IF DevOf[p] = h THEN c(p).up[p] ELSE n.up[p]]
           ns == [q \in SwPorts |-> IF q \in PortsOf(h)
                                    THEN c(q).sw.port[q] ELSE n.sw.port[q]]
<1>1. PortsDown(n, h) = [n EXCEPT !.port = np, !.up = nu, !.sw.port = ns]
  <2> DEFINE at == [p \in PortsOf(h) |->
                      IF mode.multi THEN disconnect_pibnetd(n, p) ELSE no_udp_port(n, p)]
  <2>1. PortsDown(n, h) = EachPort(n, h, at)
    BY DEF PortsDown
  <2>2. \A p \in PortsOf(h) : at[p] = c(p)
    OBVIOUS
  <2>3. \A p \in Guids : DevOf[p] = h => p \in PortsOf(h)
    BY DEF PortsOf
  <2> HIDE DEF at, c
  <2>4. /\ np = [p \in Guids |-> IF DevOf[p] = h THEN at[p].port[p] ELSE n.port[p]]
        /\ nu = [p \in Guids |-> IF DevOf[p] = h THEN at[p].up[p] ELSE n.up[p]]
        /\ ns = [q \in SwPorts |-> IF q \in PortsOf(h) THEN at[q].sw.port[q] ELSE n.sw.port[q]]
    BY <2>2, <2>3
  <2> HIDE DEF np, nu, ns
  <2> QED BY <2>1, <2>4 DEF EachPort
<1>2. /\ n.sw.port \in [SwPorts -> SwPort] /\ n.sw \in SwS
      /\ n.port \in [Guids -> PortT] /\ n.up \in [Guids -> Seq(Sent)]
  BY FabricFields DEF SwS, PortS, UpS
<1>3. ASSUME NEW p
      PROVE  /\ c(p).port = n.port /\ c(p).up = n.up
             /\ p \in SwPorts => c(p).sw.port[p] = FreePort
  <2>1. c(p) = [n EXCEPT !.sw.port[p] = FreePort]
    BY DEF no_udp_port
  <2> HIDE DEF c
  <2>2. c(p).port = n.port /\ c(p).up = n.up /\ c(p).sw = [n.sw EXCEPT !.port[p] = FreePort]
    BY <2>1 DEF Fabric
  <2>3. c(p).sw.port = [n.sw.port EXCEPT ![p] = FreePort]
    BY <1>2, <2>2 DEF SwS
  <2>4. p \in SwPorts => c(p).sw.port[p] = FreePort
    BY <1>2, <2>3
  <2> QED BY <2>2, <2>4
<1> HIDE DEF c
<1>4. np = n.port /\ nu = n.up
  BY <1>2, <1>3
<1>5. ns = [q \in SwPorts |-> IF q \in PortsOf(h) THEN FreePort ELSE n.sw.port[q]]
  BY <1>3 DEF PortsOf
<1> HIDE DEF np, nu, ns
<1>6. PortsDown(n, h) = [n EXCEPT !.sw.port = ns]
  BY <1>1, <1>4 DEF Fabric
<1> QED
  BY <1>5, <1>6

LEMMA CommandsType ==
  ASSUME mode \in Cases, mode.multi, NEW n \in Fabric, NEW h \in Hosts,
         n.hca[h].boot > 0, NEW cmd \in {"CONNECT", "DISCONNECT"}
  PROVE  Commands(n, h, cmd) \in UpS
<1>1. n.up \in UpS /\ n.up \in [Guids -> Seq(Sent)]
  BY FabricFields DEF UpS
<1>2. ASSUME NEW p \in Guids
      PROVE  /\ Commands(n, h, cmd)[p] \in Seq(Sent)
             /\ Len(Commands(n, h, cmd)[p]) <= mode.room
             /\ \A i \in 1..Len(Commands(n, h, cmd)[p]) : Commands(n, h, cmd)[p][i].guid = p
  <2>1. CASE DevOf[p] = h /\ n.sw.run = "running"
    <3> DEFINE d == RawOf(n, p, cmd)
               f == [n.up EXCEPT ![p] = Enqueue(n.up[p], d)]
    <3>1. d \in Sent /\ d.guid = p
      BY <2>1, RawOfType DEF Sent
    <3> HIDE DEF d
    <3>2. f \in UpS
      BY <1>1, <3>1, UpPut
    <3>3. f[p] = Enqueue(n.up[p], d)
      BY <1>1
    <3>4. Commands(n, h, cmd)[p] = f[p]
      BY <2>1, <3>3 DEF Commands, d
    <3> HIDE DEF f
    <3> QED BY <3>2, <3>4 DEF UpS
  <2>2. CASE ~(DevOf[p] = h /\ n.sw.run = "running")
    <3>1. Commands(n, h, cmd)[p] = n.up[p]
      BY <2>2 DEF Commands
    <3> QED BY <1>1, <3>1 DEF UpS
  <2> QED BY <2>1, <2>2
<1>3. Commands(n, h, cmd) \in [Guids -> Seq(Sent)]
  <2>1. Commands(n, h, cmd) = [p \in Guids |-> Commands(n, h, cmd)[p]]
    BY DEF Commands
  <2> QED BY <1>2, <2>1
<1> QED
  BY <1>2, <1>3 DEF UpS

-----------------------------------------------------------------------------
(* The switch *)

LEMMA DetectIn ==
  ASSUME NEW s, NEW g
  PROVE  /\ detect_in_port(s, g) \in PortNums
         /\ detect_in_port(s, g) # 0
              => detect_in_port(s, g) \in SwPorts /\ s.port[detect_in_port(s, g)].guid = g
         /\ detect_in_port(s, g) = 0 => \A q \in SwPorts : s.port[q].guid # g
<1> DEFINE hits == {q \in SwPorts : s.port[q].guid = g}
<1>1. SwPorts \subseteq Nat /\ 0 \notin SwPorts /\ SwPorts \subseteq PortNums /\ 0 \in PortNums
  BY LidFacts DEF SwPorts, PortNums
<1>2. CASE hits = {}
  BY <1>1, <1>2 DEF detect_in_port
<1>3. CASE hits # {}
  <2>1. Min(hits) \in hits
    BY <1>1, <1>3, MinIsElement
  <2>2. detect_in_port(s, g) = Min(hits)
    BY <1>3 DEF detect_in_port
  <2> QED BY <1>1, <2>1, <2>2
<1> QED
  BY <1>2, <1>3

(* The ranks of a set of n numbers are 1 to n.                             *)
LEMMA Ranks ==
  ASSUME NEW N \in Nat, NEW S \in SUBSET (1..N)
  PROVE  /\ IsFiniteSet(S) /\ Cardinality(S) \in Nat
         /\ \A i \in 1..Cardinality(S) :
              \E q \in S : Cardinality({k \in S : k <= q}) = i
<1> DEFINE Ranked(T) == \A i \in 1..Cardinality(T) :
                          \E q \in T : Cardinality({k \in T : k <= q}) = i
           G == {b \in Nat : \A T \in SUBSET (1..b) : IsFiniteSet(T) /\ Ranked(T)}
<1>1. 0 \in G
  <2>1. ASSUME NEW T \in SUBSET (1..0) PROVE IsFiniteSet(T) /\ Ranked(T)
    <3>1. T = {}
      OBVIOUS
    <3>2. IsFiniteSet(T) /\ Cardinality(T) = 0
      BY <3>1, FS_EmptySet
    <3> QED BY <3>2
  <2> QED BY <2>1
<1>2. ASSUME NEW b \in G PROVE b + 1 \in G
  <2>0. b \in Nat /\ \A T \in SUBSET (1..b) : IsFiniteSet(T) /\ Ranked(T)
    OBVIOUS
  <2> SUFFICES ASSUME NEW T \in SUBSET (1..(b + 1)) PROVE IsFiniteSet(T) /\ Ranked(T)
    BY <2>0
  <2> DEFINE x == b + 1
             U == T \ {x}
             Below(V, q) == {k \in V : k <= q}
  <2>1. U \in SUBSET (1..b)
    BY <2>0
  <2>2. IsFiniteSet(U) /\ Ranked(U)
    BY <2>0, <2>1
  <2>3. CASE x \notin T
    <3>1. U = T
      BY <2>3
    <3> QED BY <2>2, <3>1
  <2>4. CASE x \in T
    <3>1. T = U \cup {x} /\ x \notin U
      BY <2>4
    <3>2. IsFiniteSet(T) /\ Cardinality(T) = Cardinality(U) + 1 /\ Cardinality(U) \in Nat
      <4> HIDE DEF U, x
      <4> QED BY <2>2, <3>1, FS_AddElement, FS_CardinalityType
    <3>3. ASSUME NEW i \in 1..Cardinality(T)
          PROVE  \E q \in T : Cardinality(Below(T, q)) = i
      <4>1. CASE i = Cardinality(T)
        <5>1. Below(T, x) = T
          <6>1. \A k \in T : k <= x
            BY <2>0
          <6> HIDE DEF x
          <6> QED BY <6>1
        <5>2. Cardinality(Below(T, x)) = i
          BY <4>1, <5>1
        <5> HIDE DEF x, Below
        <5> QED BY <2>4, <5>2
      <4>2. CASE i # Cardinality(T)
        <5>1. i \in 1..Cardinality(U)
          <6> HIDE DEF U
          <6> QED BY <3>2, <4>2
        <5>2. PICK q \in U : Cardinality(Below(U, q)) = i
          <6> HIDE DEF U
          <6> QED BY <2>2, <5>1
        <5>3. Below(T, q) = Below(U, q)
          <6>1. q \in 1..b /\ ~(x <= q)
            BY <2>0, <2>1
          <6> QED BY <6>1
        <5> QED BY <5>2, <5>3
      <4> QED BY <4>1, <4>2
    <3> QED BY <3>2, <3>3
  <2> QED BY <2>3, <2>4
<1>3. N \in G
  <2>1. G \subseteq Nat
    OBVIOUS
  <2> HIDE DEF G
  <2> QED BY <1>1, <1>2, <2>1, SetInduction
<1>4. IsFiniteSet(S) /\ Ranked(S)
  BY <1>3
<1> QED
  BY <1>4, FS_CardinalityType

LEMMA NthFacts ==
  ASSUME NEW N \in Nat, NEW S \in SUBSET (1..N)
  PROVE  /\ IsFiniteSet(S) /\ Cardinality(S) \in Nat
         /\ \A i \in 1..Cardinality(S) : Nth(S, i) \in S
         /\ \A i, j \in 1..Cardinality(S) : Nth(S, i) = Nth(S, j) => i = j
<1> DEFINE Rank(q) == Cardinality({k \in S : k <= q})
<1>1. /\ IsFiniteSet(S) /\ Cardinality(S) \in Nat
      /\ \A i \in 1..Cardinality(S) : \E q \in S : Rank(q) = i
  BY Ranks
<1>2. \A i : Nth(S, i) = CHOOSE q \in S : Rank(q) = i
  BY DEF Nth
<1> HIDE DEF Rank
<1>3. ASSUME NEW i \in 1..Cardinality(S)
      PROVE  Nth(S, i) \in S /\ Rank(Nth(S, i)) = i
  BY <1>1, <1>2
<1> QED
  BY <1>1, <1>3

(* What the switch sends *)
OutRec == [to : {0} \cup Guids, addr : 0..mode.loads, d : Came]

LEMMA SwFacts ==
  ASSUME NEW s \in SwS
  PROVE  /\ s.run \in {"running", "stopped", "exited"} /\ s.boot \in Nat
         /\ s.lid \in {0, SwLid} /\ s.sm_lid \in {0, Lid[SmPort]}
         /\ s.port \in [SwPorts -> SwPort] /\ s.fwd \in [Lids -> PortNums]
         /\ s.fwd[SwLid] = 0 /\ s.mfwd \in SUBSET SwPorts
         /\ s.easy <=> ~mode.multi
         /\ \A q, k \in SwPorts : s.port[q].guid = s.port[k].guid /\ q # k
                                    => s.port[q].guid = 0
         /\ s.easy => \A q \in SwPorts : s.port[q].guid \in {0, q}
         /\ mode.multi => s.boot <= mode.netd
BY DEF SwS

LEMMA SwPortFacts ==
  ASSUME NEW s \in SwS, NEW q \in SwPorts
  PROVE  /\ s.port[q] \in SwPort /\ s.port[q].guid \in {0} \cup Guids
         /\ s.port[q].addr \in 0..mode.loads /\ (s.port[q].guid = 0 <=> s.port[q].addr = 0)
         /\ s.port[q] = [guid |-> s.port[q].guid, addr |-> s.port[q].addr]
<1>1. s.port[q] \in SwPort
  BY SwFacts
<1> QED
  BY <1>1 DEF SwPort

LEMMA ExitsType ==
  ASSUME NEW s \in SwS
  PROVE  Exits(s).sw \in SwS /\ Exits(s).out = <<>>
BY DEF Exits, SwS

(* [d EXCEPT !.via = q] is a datagram like d.                              *)
LEMMA SetVia ==
  ASSUME NEW d, NEW q \in PortNums
  PROVE  /\ d \in Wire => [d EXCEPT !.via = q] \in Wire
         /\ d \in RawCame => [d EXCEPT !.via = q] \in RawCame
         /\ d \in SmpRec => [d EXCEPT !.via = q] \in SmpRec
<1>1. ASSUME d \in Wire PROVE [d EXCEPT !.via = q] \in Wire
  BY <1>1 DEF Wire, Data, DataRec
<1>2. ASSUME d \in RawCame PROVE [d EXCEPT !.via = q] \in RawCame
  BY <1>2 DEF RawCame, RawRec
<1>3. ASSUME d \in SmpRec PROVE [d EXCEPT !.via = q] \in SmpRec
  BY <1>3 DEF SmpRec
<1> QED
  BY <1>1, <1>2, <1>3

LEMMA SendType ==
  ASSUME NEW s \in SwS, NEW q \in SwPorts, NEW d, [d EXCEPT !.via = q] \in Came
  PROVE  /\ Send(s, q, d) \in OutRec /\ Send(s, q, d).to = s.port[q].guid
         /\ Send(s, q, d).addr = s.port[q].addr /\ Send(s, q, d).d = [d EXCEPT !.via = q]
<1>1. s.port[q].guid \in {0} \cup Guids /\ s.port[q].addr \in 0..mode.loads
  BY SwPortFacts
<1> QED
  BY <1>1 DEF Send, OutRec

(* A node of which no other port has the GUID takes a port.                *)
LEMMA PutPort ==
  ASSUME NEW s \in SwS, NEW q \in SwPorts, NEW e \in SwPort,
         \A k \in SwPorts : k # q /\ s.port[k].guid = e.guid => e.guid = 0,
         s.easy => e.guid \in {0, q}
  PROVE  [s EXCEPT !.port[q] = e] \in SwS
<1> DEFINE f == [s.port EXCEPT ![q] = e]
<1>1. s.port \in [SwPorts -> SwPort]
  BY SwFacts
<1>2. f \in [SwPorts -> SwPort] /\ f[q] = e /\ \A k \in SwPorts : k # q => f[k] = s.port[k]
  BY <1>1
<1>3. [s EXCEPT !.port[q] = e] = [s EXCEPT !.port = f]
  BY DEF SwS
<1> HIDE DEF f
<1>4. \A i, k \in SwPorts : f[i].guid = f[k].guid /\ i # k => f[i].guid = 0
  <2> SUFFICES ASSUME NEW i \in SwPorts, NEW k \in SwPorts, f[i].guid = f[k].guid, i # k
               PROVE  f[i].guid = 0
    OBVIOUS
  <2>1. CASE i = q
    BY <1>2, <2>1
  <2>2. CASE k = q
    BY <1>2, <2>2
  <2>3. CASE i # q /\ k # q
    <3>1. f[i] = s.port[i] /\ f[k] = s.port[k]
      BY <1>2, <2>3
    <3> QED BY <3>1, SwFacts
  <2> QED BY <2>1, <2>2, <2>3
<1>5. s.easy => \A k \in SwPorts : f[k].guid \in {0, k}
  BY <1>2, SwFacts
<1>6. [s EXCEPT !.port = f] \in SwS
  BY <1>2, <1>4, <1>5 DEF SwS
<1> QED
  BY <1>3, <1>6

(* A datagram is what its tag says.                                        *)
LEMMA SentTags ==
  ASSUME NEW d \in Sent
  PROVE  /\ d.t \in {"raw", "smp", "data"} /\ (d.t = "raw" => d \in RawSent)
         /\ d.t = "smp" => d \in SmpSent
         /\ d.t = "data" => d \in Wire
<1>1. ASSUME d \in RawSent PROVE d.t = "raw"
  BY <1>1 DEF RawSent, RawRec
<1>2. ASSUME d \in SmpSent PROVE d.t = "smp"
  BY <1>2 DEF SmpSent, SmpRec
<1>3. ASSUME d \in Wire PROVE d.t = "data"
  BY <1>3 DEF Wire, Data, DataRec
<1> QED
  BY <1>1, <1>2, <1>3 DEF Sent

LEMMA CameTags ==
  ASSUME NEW d \in Came
  PROVE  /\ d.t \in {"raw", "smp", "data"} /\ (d.t = "raw" => d \in RawCame)
         /\ d.t = "smp" => d \in SmpCame
         /\ d.t = "data" => d \in Wire
<1>1. ASSUME d \in RawCame PROVE d.t = "raw"
  BY <1>1 DEF RawCame, RawRec
<1>2. ASSUME d \in SmpCame PROVE d.t = "smp"
  BY <1>2 DEF SmpCame, SmpRec
<1>3. ASSUME d \in Wire PROVE d.t = "data"
  BY <1>3 DEF Wire, Data, DataRec
<1> QED
  BY <1>1, <1>2, <1>3 DEF Came

(* The trap of send_trap_ntc128 is a notice, or there is none.             *)
LEMMA TrapDoes ==
  ASSUME mode \in Cases, NEW s \in SwS
  PROVE  /\ send_trap_ntc128(s) \in Seq(OutRec)
         /\ \A i \in 1..Len(send_trap_ntc128(s)) : send_trap_ntc128(s)[i].d \in Notices
<1> DEFINE q == IF s.sm_lid = 0 THEN 0 ELSE s.fwd[s.sm_lid]
           d == [t |-> "smp", cls |-> "lid", dir |-> 0, hop |-> 0,
                 cnt |-> 0, out |-> 0, ret |-> 0, slid |-> s.lid,
                 dlid |-> s.sm_lid, op |-> TrapOp,
                 tid |-> 0, guid |-> 0, in0 |-> 0, via |-> 0]
           x == Send(s, q, d)
<1>1. CASE s.lid = 0 \/ q \notin SwPorts \/ s.port[q].addr = 0
  <2>1. send_trap_ntc128(s) = <<>>
    <3> HIDE DEF d
    <3> QED BY <1>1 DEF send_trap_ntc128
  <2> QED BY <2>1
<1>2. CASE s.lid # 0 /\ q \in SwPorts /\ s.port[q].addr # 0
  <2>1. send_trap_ntc128(s) = <<x>>
    BY <1>2 DEF send_trap_ntc128, TrapOp
  <2>2. s.lid = SwLid /\ SwLid \in AnyLid /\ s.sm_lid \in AnyLid /\ 0 \in PortNums
        /\ SmPort \in Guids /\ q \in PortNums
    <3>1. SmPort \in Guids /\ Lid[SmPort] \in Lids
      BY NetFacts, LidFacts
    <3>2. s.lid = SwLid /\ s.sm_lid \in {0, Lid[SmPort]}
      BY <1>2, SwFacts
    <3>3. SwPorts \subseteq PortNums /\ 0 \in PortNums
      BY LidFacts DEF SwPorts, PortNums
    <3> QED BY <1>2, <3>1, <3>2, <3>3, LidFacts DEF AnyLid
  <2>3. d \in SmpRec /\ Notice(d)
    BY <2>2 DEF SmpRec, Notice
  <2>4. q \in SwPorts
    BY <1>2
  <2> DEFINE e == [d EXCEPT !.via = q]
  <2> HIDE DEF d, q
  <2>5. e \in SmpRec
    BY <2>2, <2>3, SetVia
  <2>6. Notice(e)
    BY <2>3 DEF SmpRec, Notice
  <2>7. e \in Notices /\ e \in Came
    BY <2>5, <2>6 DEF Notices, SmpCame, Came
  <2>8. x \in OutRec /\ x.d = e
    BY <2>4, <2>7, SendType
  <2> HIDE DEF x, e
  <2>9. <<x>> \in Seq(OutRec) /\ Len(<<x>>) = 1 /\ <<x>>[1] = x
    BY <2>8
  <2> QED BY <2>1, <2>7, <2>8, <2>9
<1> QED
  BY <1>1, <1>2

(* The acknowledgement of resend_ack and a trap behind it                  *)
LEMMA AckAndTrap ==
  ASSUME NEW x \in OutRec, NEW u \in Seq(OutRec),
         \A i \in 1..Len(u) : u[i].d \in Notices
  PROVE  /\ <<x>> \o u \in Seq(OutRec)
         /\ \A i \in 1..Len(<<x>> \o u) :
              (<<x>> \o u)[i] = x \/ (<<x>> \o u)[i].d \in Notices
<1> DEFINE v == <<x>>
           w == v \o u
<1>1. v \in Seq(OutRec) /\ Len(v) = 1 /\ v[1] = x
  OBVIOUS
<1> HIDE DEF v
<1>2. /\ w \in Seq(OutRec) /\ Len(w) = Len(v) + Len(u)
      /\ \A i \in 1..(Len(v) + Len(u)) : w[i] = IF i <= Len(v) THEN v[i] ELSE u[i - Len(v)]
  BY <1>1, ConcatProperties
<1> HIDE DEF w
<1>3. ASSUME NEW i \in 1..Len(w) PROVE w[i] = x \/ w[i].d \in Notices
  <2>1. Len(u) \in Nat
    OBVIOUS
  <2>2. CASE i = 1
    BY <1>1, <1>2, <2>1, <2>2
  <2>3. CASE i # 1
    <3>1. w[i] = u[i - 1] /\ i - 1 \in 1..Len(u)
      BY <1>1, <1>2, <2>1, <2>3
    <3> QED BY <3>1
  <2> QED BY <2>2, <2>3
<1> QED
  BY <1>2, <1>3 DEF w, v

(* process_raw_packet finds the port a node has, or the first free one.    *)
LEMMA FoundNew ==
  ASSUME NEW s \in SwS, NEW g \in Guids
  PROVE  LET q == found_new_port(s, g)
         IN /\ q = 0 => \A k \in SwPorts : s.port[k].guid \notin {0, g}
            /\ q # 0 => /\ q \in SwPorts /\ s.port[q].guid \in {0, g}
                        /\ \A k \in SwPorts : k # q => s.port[k].guid # g
<1> DEFINE a == detect_in_port(s, g)
           b == detect_in_port(s, 0)
<1>1. g # 0
  BY LidFacts
<1>2. /\ a # 0 => a \in SwPorts /\ s.port[a].guid = g
      /\ a = 0 => \A k \in SwPorts : s.port[k].guid # g
      /\ b # 0 => b \in SwPorts /\ s.port[b].guid = 0
      /\ b = 0 => \A k \in SwPorts : s.port[k].guid # 0
  BY DetectIn
<1>3. found_new_port(s, g) = IF a # 0 THEN a ELSE b
  BY DEF found_new_port
<1> HIDE DEF a, b
<1>4. CASE a # 0
  <2>1. \A k \in SwPorts : k # a => s.port[k].guid # g
    BY <1>1, <1>2, <1>4, SwFacts
  <2> QED BY <1>2, <1>3, <1>4, <2>1
<1>5. CASE a = 0
  BY <1>2, <1>3, <1>5
<1> QED
  BY <1>4, <1>5

(* The answer to a link command, as it arrives by port q of the switch     *)
LEMMA AckDoes ==
  ASSUME mode \in Cases, mode.multi, NEW s \in SwS, NEW q \in SwPorts,
         s.port[q].guid # 0, NEW cmd \in {"CONNECT_ACK", "DISCONNECT_ACK"}
  PROVE  \E x \in OutRec :
           /\ resend_ack(s, q, cmd) = <<x>>
           /\ x.to = s.port[q].guid /\ x.addr = s.port[q].addr
           /\ x.d \in RawCame /\ x.d.cmd = cmd /\ x.d.boot = s.boot
<1> DEFINE d == [t |-> "raw", cmd |-> cmd, guid |-> s.port[q].guid,
                 addr |-> s.port[q].addr, boot |-> s.boot, via |-> 0]
           e == [d EXCEPT !.via = q]
           x == Send(s, q, d)
<1>1. resend_ack(s, q, cmd) = <<x>>
  BY DEF resend_ack
<1>2. s.port[q].guid \in Guids /\ s.port[q].addr \in 1..mode.loads
  <2>1. /\ s.port[q].guid \in {0} \cup Guids /\ s.port[q].addr \in 0..mode.loads
        /\ s.port[q].guid = 0 <=> s.port[q].addr = 0
    BY SwPortFacts
  <2> QED BY <2>1, ModeFacts
<1>3. s.boot \in 0..mode.netd
  BY SwFacts, ModeFacts
<1>4. q \in PortNums /\ 0 \in PortNums
  BY LidFacts DEF SwPorts, PortNums
<1>5. d \in RawCame
  BY <1>2, <1>3, <1>4 DEF RawCame, RawRec
<1>6. e.cmd = cmd /\ e.boot = s.boot
  OBVIOUS
<1> HIDE DEF d
<1>7. e \in RawCame
  BY <1>4, <1>5, SetVia
<1>8. e \in Came
  BY <1>7 DEF Came
<1>9. /\ x \in OutRec /\ x.d = e
      /\ x.to = s.port[q].guid /\ x.addr = s.port[q].addr
  BY <1>8, SendType
<1> HIDE DEF x, e
<1> QED
  BY <1>1, <1>6, <1>7, <1>9

(* PIB_LINK_CMD_CONNECT                                                    *)
IsAck(x, s, d, cmd) ==
  /\ x.to = d.guid /\ x.d \in RawCame /\ x.d.cmd = cmd /\ x.d.boot = s.boot

ConnectDone(s, d, r) ==
  \E q \in SwPorts :
    /\ s.port[q].guid \in {0, d.guid}
    /\ \A k \in SwPorts : k # q => s.port[k].guid # d.guid
    /\ r.sw = [s EXCEPT !.port[q] = [guid |-> d.guid, addr |-> d.addr]] /\ r.sw \in SwS
    /\ r.out \in Seq(OutRec)
    /\ \A i \in 1..Len(r.out) :
         r.out[i].d \in Notices \/ (/\ IsAck(r.out[i], s, d, "CONNECT_ACK")
                                    /\ r.out[i].addr = d.addr)

LEMMA ConnectDoes ==
  ASSUME mode \in Cases, NEW s \in SwS, NEW d \in RawSent, d.cmd = "CONNECT"
  PROVE  LET r == receive_packet(s, d)
         IN \/ r = Exits(s) /\ \A k \in SwPorts : s.port[k].guid \notin {0, d.guid}
            \/ ConnectDone(s, d, r)
<1> DEFINE r == receive_packet(s, d)
           q == found_new_port(s, d.guid)
           e == [guid |-> d.guid, addr |-> d.addr]
           n == [s EXCEPT !.port[q] = e]
<1>1. /\ d.t = "raw" /\ d.guid \in Guids /\ d.addr \in 1..mode.loads /\ mode.multi
  BY DEF RawSent, RawRec
<1>2. r = IF q = 0 THEN Exits(s)
          ELSE [sw |-> n, out |-> resend_ack(n, q, "CONNECT_ACK") \o send_trap_ntc128(n)]
  BY <1>1 DEF receive_packet, process_raw_packet, link_connect
<1>3. /\ q = 0 => \A k \in SwPorts : s.port[k].guid \notin {0, d.guid}
      /\ q # 0 => /\ q \in SwPorts /\ s.port[q].guid \in {0, d.guid}
                  /\ \A k \in SwPorts : k # q => s.port[k].guid # d.guid
  BY <1>1, FoundNew
<1> HIDE DEF q
<1>4. CASE q = 0
  BY <1>2, <1>3, <1>4
<1>5. CASE q # 0
  <2>1. q \in SwPorts /\ s.port[q].guid \in {0, d.guid}
        /\ \A k \in SwPorts : k # q => s.port[k].guid # d.guid
    BY <1>3, <1>5
  <2>2. e \in SwPort /\ e.guid = d.guid /\ e.addr = d.addr /\ d.guid # 0
    BY <1>1, LidFacts, ModeFacts DEF SwPort
  <2>3. s.easy <=> FALSE
    BY <1>1, SwFacts
  <2> HIDE DEF e
  <2>4. n \in SwS
    BY <2>1, <2>2, <2>3, PutPort
  <2>5. n.port[q] = e /\ n.boot = s.boot
    BY <2>1 DEF SwS
  <2> HIDE DEF n
  <2>6. PICK x \in OutRec :
          /\ resend_ack(n, q, "CONNECT_ACK") = <<x>>
          /\ x.to = n.port[q].guid /\ x.addr = n.port[q].addr
          /\ x.d \in RawCame /\ x.d.cmd = "CONNECT_ACK" /\ x.d.boot = n.boot
    BY <1>1, <2>1, <2>2, <2>4, <2>5, AckDoes
  <2> DEFINE u == send_trap_ntc128(n)
             w == <<x>> \o u
  <2>7. u \in Seq(OutRec) /\ \A i \in 1..Len(u) : u[i].d \in Notices
    BY <2>4, TrapDoes
  <2> HIDE DEF u
  <2>8. w \in Seq(OutRec) /\ \A i \in 1..Len(w) : w[i] = x \/ w[i].d \in Notices
    BY <2>7, AckAndTrap
  <2>9. r = [sw |-> n, out |-> w]
    BY <1>2, <1>5, <2>6 DEF u
  <2> HIDE DEF w, r
  <2>10. r.sw = n /\ r.out = w
    BY <2>9
  <2>11. IsAck(x, s, d, "CONNECT_ACK") /\ x.addr = d.addr
    BY <2>2, <2>5, <2>6 DEF IsAck
  <2>12. \A i \in 1..Len(r.out) :
           r.out[i].d \in Notices \/ (/\ IsAck(r.out[i], s, d, "CONNECT_ACK")
                                      /\ r.out[i].addr = d.addr)
    BY <2>8, <2>10, <2>11
  <2>13. n = [s EXCEPT !.port[q] = [guid |-> d.guid, addr |-> d.addr]]
    BY DEF n, e
  <2>14. ConnectDone(s, d, r)
    BY <2>1, <2>4, <2>8, <2>10, <2>12, <2>13 DEF ConnectDone
  <2> QED BY <2>14 DEF r
<1> QED
  BY <1>4, <1>5

(* PIB_LINK_CMD_DISCONNECT                                                 *)
DisconnectDone(s, d, r) ==
  \E q \in SwPorts :
    /\ s.port[q].guid = d.guid
    /\ r.sw = [s EXCEPT !.port[q] = FreePort] /\ r.sw \in SwS
    /\ r.out \in Seq(OutRec)
    /\ \A i \in 1..Len(r.out) :
         r.out[i].d \in Notices \/ IsAck(r.out[i], s, d, "DISCONNECT_ACK")

LEMMA DisconnectDoes ==
  ASSUME mode \in Cases, NEW s \in SwS, NEW d \in RawSent, d.cmd = "DISCONNECT"
  PROVE  LET r == receive_packet(s, d)
         IN \/ r = Drops(s) /\ \A k \in SwPorts : s.port[k].guid # d.guid
            \/ DisconnectDone(s, d, r)
<1> DEFINE r == receive_packet(s, d)
           q == detect_in_port(s, d.guid)
           n == [s EXCEPT !.port[q] = FreePort]
<1>1. /\ d.t = "raw" /\ d.guid \in Guids /\ d.guid # 0 /\ mode.multi
  BY LidFacts DEF RawSent, RawRec
<1>2. r = IF q = 0 THEN Drops(s)
          ELSE [sw |-> n, out |-> resend_ack(s, q, "DISCONNECT_ACK") \o send_trap_ntc128(s)]
  BY <1>1 DEF receive_packet, process_raw_packet, link_disconnect
<1>3. /\ q = 0 => \A k \in SwPorts : s.port[k].guid # d.guid
      /\ q # 0 => q \in SwPorts /\ s.port[q].guid = d.guid
  BY DetectIn
<1> HIDE DEF q
<1>4. CASE q = 0
  BY <1>2, <1>3, <1>4
<1>5. CASE q # 0
  <2>1. q \in SwPorts /\ s.port[q].guid = d.guid
    BY <1>3, <1>5
  <2>2. FreePort \in SwPort /\ FreePort.guid = 0
    BY ModeFacts DEF SwPort, FreePort
  <2>3. n \in SwS
    BY <2>1, <2>2, PutPort
  <2> HIDE DEF n
  <2>6. PICK x \in OutRec :
          /\ resend_ack(s, q, "DISCONNECT_ACK") = <<x>>
          /\ x.to = s.port[q].guid /\ x.addr = s.port[q].addr
          /\ x.d \in RawCame /\ x.d.cmd = "DISCONNECT_ACK" /\ x.d.boot = s.boot
    BY <1>1, <2>1, AckDoes
  <2> DEFINE u == send_trap_ntc128(s)
             w == <<x>> \o u
  <2>7. u \in Seq(OutRec) /\ \A i \in 1..Len(u) : u[i].d \in Notices
    BY TrapDoes
  <2> HIDE DEF u
  <2>8. w \in Seq(OutRec) /\ \A i \in 1..Len(w) : w[i] = x \/ w[i].d \in Notices
    BY <2>7, AckAndTrap
  <2>9. r = [sw |-> n, out |-> w]
    BY <1>2, <1>5, <2>6 DEF u
  <2> HIDE DEF w, r
  <2>10. r.sw = n /\ r.out = w
    BY <2>9
  <2>11. IsAck(x, s, d, "DISCONNECT_ACK")
    BY <2>1, <2>6 DEF IsAck
  <2>12. \A i \in 1..Len(r.out) :
           r.out[i].d \in Notices \/ IsAck(r.out[i], s, d, "DISCONNECT_ACK")
    BY <2>8, <2>10, <2>11
  <2>13. n = [s EXCEPT !.port[q] = FreePort]
    BY DEF n
  <2>14. DisconnectDone(s, d, r)
    BY <2>1, <2>3, <2>8, <2>10, <2>12, <2>13 DEF DisconnectDone
  <2> QED BY <2>14 DEF r
<1> QED
  BY <1>4, <1>5

(* What the subnet manager sets at the switch is not its ports.            *)
LEMMA SetSwitch ==
  ASSUME NEW s \in SwS, NEW op \in SwitchOps
  PROVE  LET t == pib_process_smp(s, op)
         IN /\ t \in SwS /\ t.port = s.port /\ t.boot = s.boot /\ t.run = s.run
            /\ t.easy <=> s.easy
            /\ t.fwd = IF op.attr = "LinearForwardTable" THEN op.table ELSE s.fwd
            /\ t.mfwd = IF op.attr = "McastForwardTable" THEN op.ports ELSE s.mfwd
<1> DEFINE t == pib_process_smp(s, op)
<1>1. CASE op \in [attr : {"PortInfo"}, lid : {SwLid}, sm_lid : {Lid[SmPort]}, state : {0}]
  <2>1. op.attr = "PortInfo" /\ op.lid = SwLid /\ op.sm_lid = Lid[SmPort]
    BY <1>1
  <2>2. t = [s EXCEPT !.lid = SwLid, !.sm_lid = Lid[SmPort]]
    BY <2>1 DEF pib_process_smp, subn_set_switch_portinfo
  <2> HIDE DEF t
  <2>3. /\ t \in SwS /\ t.port = s.port /\ t.boot = s.boot /\ t.run = s.run
        /\ t.easy <=> s.easy
        /\ t.fwd = s.fwd /\ t.mfwd = s.mfwd
    BY <2>2 DEF SwS
  <2> QED BY <2>1, <2>3 DEF t
<1>2. CASE op \in [attr : {"LinearForwardTable"},
                   table : {f \in [Lids -> PortNums] : f[SwLid] = 0}]
  <2>1. op.attr = "LinearForwardTable" /\ op.table \in {f \in [Lids -> PortNums] : f[SwLid] = 0}
    BY <1>2
  <2>2. t = [s EXCEPT !.fwd = op.table]
    BY <2>1 DEF pib_process_smp, subn_set_linear_forward_table
  <2> HIDE DEF t
  <2>3. /\ t \in SwS /\ t.port = s.port /\ t.boot = s.boot /\ t.run = s.run
        /\ t.easy <=> s.easy
        /\ t.fwd = op.table /\ t.mfwd = s.mfwd
    BY <2>1, <2>2 DEF SwS
  <2> QED BY <2>1, <2>3 DEF t
<1>3. CASE op \in [attr : {"McastForwardTable"}, ports : SUBSET SwPorts]
  <2>1. op.attr = "McastForwardTable" /\ op.ports \in SUBSET SwPorts
    BY <1>3
  <2>2. t = [s EXCEPT !.mfwd = op.ports]
    BY <2>1 DEF pib_process_smp, subn_set_mcast_forward_table
  <2> HIDE DEF t
  <2>3. /\ t \in SwS /\ t.port = s.port /\ t.boot = s.boot /\ t.run = s.run
        /\ t.easy <=> s.easy
        /\ t.fwd = s.fwd /\ t.mfwd = op.ports
    BY <2>1, <2>2 DEF SwS
  <2> QED BY <2>1, <2>3 DEF t
<1> QED
  BY <1>1, <1>2, <1>3 DEF SwitchOps

(* Where an SMP that came in by port "in" leaves, and as what              *)
Route(s, in, d, t, q, e) ==
  \/ /\ ForSwitch(d) /\ t = pib_process_smp(s, d.op) /\ q = in
     /\ e = [d EXCEPT !.ret = in, !.in0 = in, !.hop = @ - 1, !.dir = 1]
  \/ /\ ForPort(d) /\ t = s /\ q = d.out
     /\ e = [d EXCEPT !.ret = in, !.in0 = in, !.hop = @ + 1]
  \/ /\ Returns(d) /\ t = s /\ q = d.ret
     /\ e = [d EXCEPT !.hop = @ - 1]

LEMMA RouteType ==
  ASSUME NEW s \in SwS, NEW d \in SmpRec, NEW in \in SwPorts, NEW t, NEW q, NEW e,
         Route(s, in, d, t, q, e)
  PROVE  /\ t \in SwS /\ t.port = s.port /\ t.boot = s.boot /\ t.run = s.run
         /\ t.easy <=> s.easy
         /\ q \in SwPorts /\ [e EXCEPT !.via = q] \in SmpCame
<1>0. SwPorts \subseteq PortNums
  BY LidFacts DEF SwPorts, PortNums
<1> DEFINE v == [e EXCEPT !.via = q]
<1>1. CASE /\ ForSwitch(d) /\ t = pib_process_smp(s, d.op) /\ q = in
           /\ e = [d EXCEPT !.ret = in, !.in0 = in, !.hop = @ - 1, !.dir = 1]
  <2>1. d.op \in SwitchOps
    BY <1>1 DEF ForSwitch
  <2>2. /\ t \in SwS /\ t.port = s.port /\ t.boot = s.boot /\ t.run = s.run
        /\ t.easy <=> s.easy
    BY <1>1, <2>1, SetSwitch
  <2>3. d.hop = 1 /\ d.cls = "dr" /\ d.cnt = 1
    BY <1>1 DEF ForSwitch
  <2>4. v = [d EXCEPT !.ret = in, !.in0 = in, !.hop = 0, !.dir = 1, !.via = in]
    BY <1>1, <2>3 DEF SmpRec
  <2> HIDE DEF v
  <2>5. v \in SmpRec /\ Returned(v)
    <3>0. in \in PortNums /\ 0 \in 0..2 /\ 1 \in {0, 1}
      BY <1>0
    <3>1. v \in SmpRec
      BY <2>4, <3>0 DEF SmpRec
    <3>2. v.cls = "dr" /\ v.dir = 1 /\ v.via = in /\ v.in0 = in /\ v.hop = 0 /\ v.cnt = 1
      BY <2>3, <2>4 DEF SmpRec
    <3> QED BY <3>1, <3>2 DEF Returned
  <2>6. v \in SmpCame
    BY <2>5 DEF SmpCame
  <2> QED BY <1>1, <2>2, <2>6 DEF v
<1>2. CASE /\ ForPort(d) /\ t = s /\ q = d.out
           /\ e = [d EXCEPT !.ret = in, !.in0 = in, !.hop = @ + 1]
  <2>1. d.hop = 1 /\ d.cls = "dr" /\ d.dir = 0 /\ d.cnt = 2 /\ d.op \in PortOps /\ q \in SwPorts
    BY <1>2 DEF ForPort
  <2>2. v = [d EXCEPT !.ret = in, !.in0 = in, !.hop = 2, !.via = q]
    BY <1>2, <2>1 DEF SmpRec
  <2> HIDE DEF v
  <2>3. v \in SmpRec /\ AtPort(v)
    BY <1>0, <2>1, <2>2 DEF SmpRec, AtPort
  <2>4. v \in SmpCame
    BY <2>3 DEF SmpCame
  <2> QED BY <1>2, <2>1, <2>4 DEF v
<1>3. CASE /\ Returns(d) /\ t = s /\ q = d.ret /\ e = [d EXCEPT !.hop = @ - 1]
  <2>1. /\ d.hop = 2 /\ d.cls = "dr" /\ d.dir = 1 /\ d.ret = d.in0 /\ q \in SwPorts
        /\ d.cnt = 2
    BY <1>3 DEF Returns
  <2>2. v = [d EXCEPT !.hop = 1, !.via = q]
    BY <1>3, <2>1 DEF SmpRec
  <2> HIDE DEF v
  <2>3. v \in SmpRec /\ Returned(v)
    <3>0. q \in PortNums /\ 1 \in 0..2
      BY <1>0, <2>1
    <3>1. v \in SmpRec
      BY <2>2, <3>0 DEF SmpRec
    <3>2. v.cls = "dr" /\ v.dir = 1 /\ v.via = q /\ v.in0 = q /\ v.hop = 1 /\ v.cnt = 2
      BY <1>3, <2>1, <2>2 DEF SmpRec
    <3> QED BY <3>1, <3>2 DEF Returned
  <2>4. v \in SmpCame
    BY <2>3 DEF SmpCame
  <2> QED BY <1>3, <2>1, <2>4 DEF v
<1> QED
  BY <1>1, <1>2, <1>3 DEF Route

(* receive_packet with an SMP *)
LEMMA SmpDoes ==
  ASSUME NEW s \in SwS, NEW d \in SmpSent
  PROVE  LET in == detect_in_port(s, d.guid)
             r == receive_packet(s, d)
         IN \/ r = Drops(s)
            \/ /\ in \in SwPorts /\ s.port[in].guid = d.guid
               /\ \E t, q, e : Route(s, in, d, t, q, e)
                                 /\ r = send_packet([sw |-> t, q |-> q, d |-> e])
<1> DEFINE in == detect_in_port(s, d.guid)
           r == receive_packet(s, d)
<1>1. d \in SmpRec /\ d.t = "smp" /\ d.cls \in {"dr", "lid"}
      /\ (ForSwitch(d) \/ ForPort(d) \/ Returns(d) \/ Repress(d))
  BY DEF SmpSent, SmpRec
<1>2. in # 0 => in \in SwPorts /\ s.port[in].guid = d.guid
  BY DetectIn
<1> HIDE DEF in
<1>3. r = IF in = 0 THEN Drops(s)
          ELSE IF d.cls = "lid" /\ d.dlid # s.lid THEN relay_unicast_packet(s, in, d)
          ELSE process_mad_packet(s, in, d)
  BY <1>1 DEF receive_packet, in
<1>4. CASE in = 0
  BY <1>3, <1>4
<1>5. CASE in # 0 /\ Repress(d)
  <2>1. d.cls = "lid" /\ d.op = RepressOp /\ d.dlid = SwLid
    BY <1>5 DEF Repress
  <2>2. relay_unicast_packet(s, in, d) = Drops(s)
    <3>1. s.fwd[d.dlid] = 0 /\ 0 \notin SwPorts
      BY <2>1, SwFacts, LidFacts DEF SwPorts
    <3> QED BY <3>1 DEF relay_unicast_packet
  <2>3. process_mad_packet(s, in, d) = Drops(s)
    <3>1. Class(d) = "lid" /\ d.op.attr = "TrapRepress"
      BY <1>1, <2>1 DEF Class, RepressOp
    <3> QED BY <3>1 DEF process_mad_packet
  <2> QED BY <1>3, <1>5, <2>2, <2>3
<1>6. CASE in # 0 /\ ~Repress(d)
  <2>1. d.cls = "dr" /\ (ForSwitch(d) \/ ForPort(d) \/ Returns(d))
    BY <1>1, <1>6 DEF ForSwitch, ForPort, Returns
  <2>2. ~WrongRoute(d) /\ ~PastRoute(d) /\ Class(d) = "dr"
    BY <1>1, <2>1 DEF WrongRoute, PastRoute, Class, ForSwitch, ForPort, Returns
  <2>3. r = send_packet(IF d.dir = 1 THEN returning_smp(s, in, d) ELSE outgoing_smp(s, in, d))
    BY <1>3, <1>6, <2>1, <2>2 DEF process_mad_packet
  <2>4. CASE ForSwitch(d)
    <3> DEFINE t == pib_process_smp(s, d.op)
               e == [d EXCEPT !.ret = in, !.in0 = in, !.hop = @ - 1, !.dir = 1]
    <3>1. Route(s, in, d, t, in, e)
      BY <2>4 DEF Route
    <3>2. d.dir = 0 /\ ~(d.hop < d.cnt)
      BY <2>4 DEF ForSwitch
    <3>3. outgoing_smp(s, in, d) = [sw |-> t, q |-> in, d |-> e]
      BY <3>2 DEF outgoing_smp
    <3> HIDE DEF t, e
    <3>4. r = send_packet([sw |-> t, q |-> in, d |-> e])
      BY <2>3, <3>2, <3>3
    <3>5. \E t1, q1, e1 : Route(s, in, d, t1, q1, e1)
                            /\ r = send_packet([sw |-> t1, q |-> q1, d |-> e1])
      BY <3>1, <3>4, Zenon
    <3> QED BY <1>2, <1>6, <3>5 DEF in
  <2>5. CASE ForPort(d)
    <3> DEFINE e == [d EXCEPT !.ret = in, !.in0 = in, !.hop = @ + 1]
    <3>1. Route(s, in, d, s, d.out, e)
      BY <2>5 DEF Route
    <3>2. d.dir = 0 /\ d.hop < d.cnt
      BY <2>5 DEF ForPort
    <3>3. outgoing_smp(s, in, d) = [sw |-> s, q |-> d.out, d |-> e]
      BY <3>2 DEF outgoing_smp
    <3> HIDE DEF e
    <3>4. r = send_packet([sw |-> s, q |-> d.out, d |-> e])
      BY <2>3, <3>2, <3>3
    <3>5. \E t1, q1, e1 : Route(s, in, d, t1, q1, e1)
                            /\ r = send_packet([sw |-> t1, q |-> q1, d |-> e1])
      BY <3>1, <3>4, Zenon
    <3> QED BY <1>2, <1>6, <3>5 DEF in
  <2>6. CASE Returns(d)
    <3> DEFINE e == [d EXCEPT !.hop = @ - 1]
    <3>1. Route(s, in, d, s, d.ret, e)
      BY <2>6 DEF Route
    <3>2. d.dir = 1 /\ d.hop - 1 = 1
      BY <2>6 DEF Returns
    <3>3. returning_smp(s, in, d) = [sw |-> s, q |-> d.ret, d |-> e]
      BY <3>2 DEF returning_smp
    <3> HIDE DEF e
    <3>4. r = send_packet([sw |-> s, q |-> d.ret, d |-> e])
      BY <2>3, <3>2, <3>3
    <3>5. \E t1, q1, e1 : Route(s, in, d, t1, q1, e1)
                            /\ r = send_packet([sw |-> t1, q |-> q1, d |-> e1])
      BY <3>1, <3>4, Zenon
    <3> QED BY <1>2, <1>6, <3>5 DEF in
  <2> QED BY <2>1, <2>4, <2>5, <2>6
<1> QED
  BY <1>4, <1>5, <1>6 DEF in

LEMMA SendPacketDoes ==
  ASSUME NEW t \in SwS, NEW q \in SwPorts, NEW e, [e EXCEPT !.via = q] \in SmpCame
  PROVE  LET r == send_packet([sw |-> t, q |-> q, d |-> e])
         IN \/ /\ t.port[q].addr # 0 /\ r.sw = t /\ r.out = <<Send(t, q, e)>>
               /\ Send(t, q, e) \in OutRec /\ Send(t, q, e).to = t.port[q].guid
               /\ Send(t, q, e).addr = t.port[q].addr
               /\ Send(t, q, e).d = [e EXCEPT !.via = q]
            \/ t.port[q].addr = 0 /\ t.easy /\ r = Exits(t)
            \/ t.port[q].addr = 0 /\ ~t.easy /\ r = Drops(t)
<1> DEFINE x == [sw |-> t, q |-> q, d |-> e]
<1>1. x.sw = t /\ x.q = q /\ x.d = e
  OBVIOUS
<1> HIDE DEF x
<1>2. send_packet(x) = IF t.port[q].addr # 0 THEN [sw |-> t, out |-> <<Send(t, q, e)>>]
                       ELSE IF t.easy THEN Exits(t) ELSE Drops(t)
  BY <1>1 DEF send_packet
<1>3. [e EXCEPT !.via = q] \in Came
  BY DEF Came
<1>4. /\ Send(t, q, e) \in OutRec /\ Send(t, q, e).to = t.port[q].guid
      /\ Send(t, q, e).addr = t.port[q].addr
      /\ Send(t, q, e).d = [e EXCEPT !.via = q]
  BY <1>3, SendType
<1> QED
  BY <1>2, <1>4 DEF x

(* x is the packet d on its way out of the switch. *)
Copy(x, d) ==
  /\ x \in OutRec /\ x.to \in Guids /\ x.d \in Wire
  /\ \E q \in SwPorts : x.d = [d EXCEPT !.via = q]

LEMMA CopyOf ==
  ASSUME NEW s \in SwS, NEW q \in SwPorts, s.port[q].addr # 0, NEW d \in Wire
  PROVE  Copy(Send(s, q, d), d) /\ Send(s, q, d).to = s.port[q].guid
<1>1. q \in PortNums
  BY LidFacts DEF SwPorts, PortNums
<1>2. [d EXCEPT !.via = q] \in Wire
  BY <1>1, SetVia
<1>3. [d EXCEPT !.via = q] \in Came
  BY <1>2 DEF Came
<1>4. /\ Send(s, q, d) \in OutRec /\ Send(s, q, d).to = s.port[q].guid
      /\ Send(s, q, d).d = [d EXCEPT !.via = q]
  BY <1>3, SendType
<1>5. s.port[q].guid \in Guids
  BY SwPortFacts
<1> QED
  BY <1>2, <1>4, <1>5 DEF Copy

(* relay_multicast_packet sends one copy to each of different nodes.       *)
LEMMA ReplicateDoes ==
  ASSUME NEW s \in SwS, NEW ports \in SUBSET SwPorts, NEW d \in Wire
  PROVE  LET r == Replicate(s, ports, d)
         IN /\ \/ r.sw = s
               \/ r.sw = Exits(s).sw /\ \E q \in ports : s.port[q].addr = 0
            /\ r.out \in Seq(OutRec)
            /\ \A i \in 1..Len(r.out) :
                 /\ Copy(r.out[i], d)
                 /\ \E q \in ports : s.port[q].guid = r.out[i].to
            /\ \A i, j \in 1..Len(r.out) : r.out[i].to = r.out[j].to => i = j
<1> DEFINE dead == {q \in ports : s.port[q].addr = 0}
           live == {q \in ports : \A k \in dead : q < k}
           o == [i \in 1..Cardinality(live) |-> Send(s, Nth(live, i), d)]
           r == Replicate(s, ports, d)
<1>1. r = [sw |-> IF dead = {} THEN s ELSE Exits(s).sw, out |-> o]
  BY DEF Replicate
<1>2. NetdPorts \in Nat /\ live \in SUBSET (1..NetdPorts)
  BY LidFacts DEF SwPorts
<1>3. ASSUME NEW q \in live PROVE q \in ports /\ q \in SwPorts /\ s.port[q].addr # 0
  <2>1. q \in Nat
    BY <1>2
  <2> QED BY <2>1
<1> HIDE DEF live
<1>4. /\ Cardinality(live) \in Nat
      /\ \A i \in 1..Cardinality(live) : Nth(live, i) \in live
      /\ \A i, j \in 1..Cardinality(live) : Nth(live, i) = Nth(live, j) => i = j
  BY <1>2, NthFacts
<1>5. ASSUME NEW i \in 1..Cardinality(live)
      PROVE  /\ Nth(live, i) \in ports /\ Nth(live, i) \in SwPorts
             /\ s.port[Nth(live, i)].addr # 0
             /\ Copy(o[i], d) /\ o[i].to = s.port[Nth(live, i)].guid
  <2>1. /\ Nth(live, i) \in ports /\ Nth(live, i) \in SwPorts
        /\ s.port[Nth(live, i)].addr # 0
    BY <1>3, <1>4
  <2>2. o[i] = Send(s, Nth(live, i), d)
    OBVIOUS
  <2> QED BY <2>1, <2>2, CopyOf
<1>6. o \in [1..Cardinality(live) -> OutRec]
  <2>1. \A i \in 1..Cardinality(live) : o[i] \in OutRec
    BY <1>5 DEF Copy
  <2> QED BY <2>1
<1>7. o \in Seq(OutRec) /\ Len(o) = Cardinality(live)
  <2> HIDE DEF o
  <2> QED BY <1>4, <1>6, FunctionIsSeq
<1>8. ASSUME NEW i \in 1..Cardinality(live), NEW j \in 1..Cardinality(live), o[i].to = o[j].to
      PROVE  i = j
  <2> DEFINE a == Nth(live, i)
             b == Nth(live, j)
  <2>1. /\ a \in SwPorts /\ b \in SwPorts /\ s.port[a].addr # 0
        /\ s.port[a].guid = s.port[b].guid
    BY <1>5, <1>8
  <2>2. s.port[a].guid # 0
    BY <2>1, SwPortFacts
  <2> HIDE DEF a, b
  <2>3. a = b
    BY <2>1, <2>2, SwFacts
  <2> QED BY <1>4, <2>3 DEF a, b
<1>9. /\ \A i \in 1..Len(o) : Copy(o[i], d) /\ \E q \in ports : s.port[q].guid = o[i].to
      /\ \A i, j \in 1..Len(o) : o[i].to = o[j].to => i = j
  BY <1>5, <1>7, <1>8
<1>10. r.out = o /\ (r.sw = s \/ (r.sw = Exits(s).sw /\ \E q \in ports : s.port[q].addr = 0))
  <2> HIDE DEF o
  <2> QED BY <1>1
<1> HIDE DEF o, r
<1> QED
  BY <1>7, <1>9, <1>10 DEF r

(* receive_packet with a UD packet                                         *)
DataDone(s, d, r) ==
  /\ r.sw = s \/ r.sw = Exits(s).sw
  /\ r.out \in Seq(OutRec)
  /\ \A i \in 1..Len(r.out) : Copy(r.out[i], d)
  /\ \A i, j \in 1..Len(r.out) : r.out[i].to = r.out[j].to => i = j
  /\ d.dlid = Mlid => \A i \in 1..Len(r.out) : r.out[i].to # d.guid
  /\ d.dlid # Mlid => Len(r.out) <= 1

LEMMA DataDoes ==
  ASSUME NEW s \in SwS, NEW d \in Wire
  PROVE  DataDone(s, d, receive_packet(s, d))
<1> DEFINE in == detect_in_port(s, d.guid)
           r == receive_packet(s, d)
           q == s.fwd[d.dlid]
<1>1. d.t = "data" /\ d.guid \in Guids /\ d.dlid \in {0, Mlid} \cup Lids
  BY DEF Wire, Data, DataRec
<1>2. in # 0 => in \in SwPorts /\ s.port[in].guid = d.guid
  BY DetectIn
<1> HIDE DEF in
<1>3. \/ r = Drops(s) \/ r = Exits(s)
      \/ d.dlid # Mlid /\ ~pib_is_permissive_lid(d.dlid) /\ r = relay_unicast_packet(s, in, d)
      \/ d.dlid = Mlid /\ in # 0 /\ r = relay_multicast_packet(s, in, d)
  <2> DEFINE mad == d.dqpn = PIB_QP1 /\ (s.easy \/ DestinedHere(s, d.dlid))
             group == d.dqpn = PIB_MULTICAST_QPN \/ ~pib_is_unicast_lid(d.dlid)
  <2>1. r = IF in = 0 THEN Drops(s)
            ELSE IF mad THEN process_mad_packet(s, in, d)
            ELSE IF DestinedHere(s, d.dlid) THEN Drops(s)
            ELSE IF group THEN relay_multicast_packet(s, in, d)
            ELSE relay_unicast_packet(s, in, d)
    BY <1>1 DEF receive_packet, in
  <2>2. d.m \in Msgs /\ d.dlid = MsgDlid[d.m] /\ d.dqpn = MsgQpn[d.m]
    BY DEF Wire, Data, DataRec
  <2>3. group <=> d.dlid = Mlid
    BY <2>2, NetFacts DEF pib_is_unicast_lid
  <2>4. process_mad_packet(s, in, d) = Drops(s) \/ process_mad_packet(s, in, d) = Exits(s)
    <3>1. Class(d) \in {"perf", "other"}
      BY <1>1, <2>2, NetFacts DEF Class
    <3> QED BY <3>1 DEF process_mad_packet
  <2>5. pib_is_permissive_lid(d.dlid) => DestinedHere(s, d.dlid)
    BY DEF DestinedHere
  <2> HIDE DEF mad, group, r
  <2> QED BY <2>1, <2>3, <2>4, <2>5
<1>4. DataDone(s, d, Drops(s)) /\ DataDone(s, d, Exits(s))
  <2>1. Drops(s).sw = s /\ Drops(s).out = <<>> /\ Exits(s).out = <<>>
    BY DEF Drops, Exits
  <2> QED BY <2>1 DEF DataDone
<1>5. ASSUME d.dlid # Mlid, ~pib_is_permissive_lid(d.dlid)
      PROVE  DataDone(s, d, relay_unicast_packet(s, in, d))
  <2> DEFINE u == relay_unicast_packet(s, in, d)
             x == Send(s, q, d)
  <2>2. u = IF q \notin SwPorts THEN Drops(s)
            ELSE IF s.port[q].addr = 0 THEN Exits(s) ELSE [sw |-> s, out |-> <<x>>]
    BY DEF relay_unicast_packet
  <2> HIDE DEF x, u
  <2>3. CASE q \notin SwPorts
    BY <1>4, <2>2, <2>3 DEF u
  <2>4. CASE q \in SwPorts /\ s.port[q].addr = 0
    BY <1>4, <2>2, <2>4 DEF u
  <2>5. CASE q \in SwPorts /\ s.port[q].addr # 0
    <3>1. Copy(x, d)
      BY <2>5, CopyOf DEF x
    <3>2. u.sw = s /\ u.out = <<x>>
      BY <2>2, <2>5
    <3>3. <<x>> \in Seq(OutRec) /\ Len(<<x>>) = 1 /\ <<x>>[1] = x
      BY <3>1 DEF Copy
    <3>4. \A i, j \in 1..Len(u.out) : i = j
      BY <3>2, <3>3
    <3>5. \A i \in 1..Len(u.out) : Copy(u.out[i], d)
      BY <3>1, <3>2, <3>3
    <3>6. DataDone(s, d, u)
      BY <1>5, <3>2, <3>3, <3>4, <3>5 DEF DataDone
    <3> QED BY <3>6 DEF u
  <2> QED BY <2>3, <2>4, <2>5
<1>6. ASSUME d.dlid = Mlid, in # 0 PROVE DataDone(s, d, relay_multicast_packet(s, in, d))
  <2> DEFINE ports == s.mfwd \ {in}
             u == Replicate(s, ports, d)
  <2>1. ports \in SUBSET SwPorts
    BY SwFacts
  <2>2. relay_multicast_packet(s, in, d) = u
    BY DEF relay_multicast_packet
  <2>3. /\ u.sw = s \/ (u.sw = Exits(s).sw /\ \E k \in ports : s.port[k].addr = 0)
        /\ u.out \in Seq(OutRec)
        /\ \A i \in 1..Len(u.out) :
             Copy(u.out[i], d) /\ \E k \in ports : s.port[k].guid = u.out[i].to
        /\ \A i, j \in 1..Len(u.out) : u.out[i].to = u.out[j].to => i = j
    BY <2>1, ReplicateDoes
  <2> HIDE DEF u
  <2>4. ASSUME NEW i \in 1..Len(u.out) PROVE u.out[i].to # d.guid
    <3>1. PICK k \in ports : s.port[k].guid = u.out[i].to
      BY <2>3
    <3>2. k # in /\ k \in SwPorts /\ in \in SwPorts /\ s.port[in].guid = d.guid /\ d.guid # 0
      BY <1>1, <1>2, <1>6, <2>1, LidFacts
    <3> QED BY <3>1, <3>2, SwFacts
  <2> HIDE DEF ports
  <2>6. DataDone(s, d, u)
    BY <1>6, <2>3, <2>4 DEF DataDone
  <2> QED BY <2>2, <2>6
<1> QED
  BY <1>3, <1>4, <1>5, <1>6

(* What receive_packet leaves and sends, for any datagram                  *)
LEMMA ReceiveType ==
  ASSUME mode \in Cases, NEW s \in SwS, NEW d \in Sent
  PROVE  receive_packet(s, d).sw \in SwS /\ receive_packet(s, d).out \in Seq(OutRec)
<1> DEFINE r == receive_packet(s, d)
<1>1. /\ Drops(s).sw \in SwS /\ Drops(s).out \in Seq(OutRec)
      /\ Exits(s).sw \in SwS /\ Exits(s).out \in Seq(OutRec)
  <2>1. <<>> \in Seq(OutRec)
    BY EmptySeq
  <2>2. Drops(s).sw = s /\ Drops(s).out = <<>>
    BY DEF Drops
  <2> QED BY <2>1, <2>2, ExitsType
<1>2. CASE d \in RawSent /\ d.cmd = "CONNECT"
  <2>1. r = Exits(s) \/ ConnectDone(s, d, r)
    BY <1>2, ConnectDoes
  <2> HIDE DEF r
  <2>2. r.sw \in SwS /\ r.out \in Seq(OutRec)
    BY <1>1, <2>1 DEF ConnectDone
  <2> QED BY <2>2 DEF r
<1>3. CASE d \in RawSent /\ d.cmd = "DISCONNECT"
  <2>1. r = Drops(s) \/ DisconnectDone(s, d, r)
    BY <1>3, DisconnectDoes
  <2> HIDE DEF r
  <2>2. r.sw \in SwS /\ r.out \in Seq(OutRec)
    BY <1>1, <2>1 DEF DisconnectDone
  <2> QED BY <2>2 DEF r
<1>4. CASE d \in SmpSent
  <2> DEFINE in == detect_in_port(s, d.guid)
  <2>1. \/ r = Drops(s)
        \/ /\ in \in SwPorts /\ s.port[in].guid = d.guid
           /\ \E t, q, e : Route(s, in, d, t, q, e)
                             /\ r = send_packet([sw |-> t, q |-> q, d |-> e])
    BY <1>4, SmpDoes
  <2>2. CASE r = Drops(s)
    BY <1>1, <2>2
  <2>3. CASE r # Drops(s)
    <3> HIDE DEF in, r
    <3>1. PICK t, q, e : Route(s, in, d, t, q, e)
                           /\ r = send_packet([sw |-> t, q |-> q, d |-> e])
      BY <2>1, <2>3
    <3>2. in \in SwPorts /\ d \in SmpRec
      BY <1>4, <2>1, <2>3 DEF SmpSent
    <3>3. t \in SwS /\ q \in SwPorts /\ [e EXCEPT !.via = q] \in SmpCame
      BY <3>1, <3>2, RouteType
    <3> DEFINE v == send_packet([sw |-> t, q |-> q, d |-> e])
               x == Send(t, q, e)
    <3>4. \/ v.sw = t /\ v.out = <<x>> /\ x \in OutRec
          \/ v = Exits(t)
          \/ v = Drops(t)
      BY <3>3, SendPacketDoes
    <3> HIDE DEF v, x
    <3>5. v.sw \in SwS /\ v.out \in Seq(OutRec)
      <4>1. /\ Drops(t).sw = t /\ Drops(t).out = <<>> /\ <<>> \in Seq(OutRec)
            /\ Exits(t).sw \in SwS /\ Exits(t).out = <<>>
        BY <3>3, ExitsType, EmptySeq DEF Drops
      <4>2. x \in OutRec => <<x>> \in Seq(OutRec)
        OBVIOUS
      <4> QED BY <3>3, <3>4, <4>1, <4>2
    <3> QED BY <3>1, <3>5 DEF v, r
  <2> QED BY <2>2, <2>3
<1>5. CASE d \in Wire
  <2>1. DataDone(s, d, r)
    BY <1>5, DataDoes
  <2> HIDE DEF r
  <2>2. r.sw \in SwS /\ r.out \in Seq(OutRec)
    BY <1>1, <2>1 DEF DataDone
  <2> QED BY <2>2 DEF r
<1>6. d \in RawSent => d.cmd \in {"CONNECT", "DISCONNECT"}
  BY DEF RawSent, RawRec
<1> QED
  BY <1>2, <1>3, <1>4, <1>5, <1>6 DEF Sent

-----------------------------------------------------------------------------
(* From the switch to the ports *)

(* x reaches the socket that port k has now. *)
Lands(n, x, k) ==
  x.to = k /\ n.hca[DevOf[k]].up /\ x.addr = n.hca[DevOf[k]].boot

(* The receive buffer of k grows by some of what the switch sent to it.    *)
Grows(n, r, k, new) ==
  \E c \in Nat : \E g \in [1..c -> 1..Len(r.out)] :
    /\ \A i, j \in 1..c : g[i] = g[j] => i = j
    /\ \A j \in 1..c : Lands(n, r.out[g[j]], k)
    /\ new = n.down[k] \o [j \in 1..c |-> r.out[g[j]].d]
    /\ Len(n.down[k]) + c <= mode.room

LEMMA FromSwitchDoes ==
  ASSUME mode \in Cases, NEW n \in Fabric, NEW r, r.sw \in SwS, r.out \in Seq(OutRec)
  PROVE  LET f == FromSwitch(n, r)
         IN /\ f = [n EXCEPT !.sw = r.sw, !.down = f.down, !.up = f.up]
            /\ f.up = IF r.sw.run = "running" THEN n.up ELSE [k \in Guids |-> <<>>]
            /\ f.down = [k \in Guids |-> f.down[k]]
            /\ \A k \in Guids : Grows(n, r, k, f.down[k])
<1> DEFINE Reaches(x) == n.hca[DevOf[x.to]].up /\ x.addr = n.hca[DevOf[x.to]].boot
           Room(k) == mode.room - Len(n.down[k])
           Mine(k) == {i \in DOMAIN r.out : r.out[i].to = k /\ Reaches(r.out[i])}
           Kept(k) == Min({Room(k), Cardinality(Mine(k))})
           nd == [k \in Guids |-> n.down[k] \o [i \in 1..Kept(k) |-> r.out[Nth(Mine(k), i)].d]]
           nu == IF r.sw.run = "running" THEN n.up ELSE [k \in Guids |-> <<>>]
           f == FromSwitch(n, r)
<1>1. f = [n EXCEPT !.sw = r.sw, !.down = nd, !.up = nu]
  BY DEF FromSwitch
<1>2. ASSUME NEW k \in Guids PROVE Grows(n, r, k, nd[k])
  <2> DEFINE M == Mine(k)
             c == Kept(k)
             g == [j \in 1..c |-> Nth(M, j)]
             N == Len(r.out)
  <2>1. N \in Nat /\ DOMAIN r.out = 1..N /\ M \in SUBSET (1..N)
    BY LenProperties
  <2>2. \A i \in M : Lands(n, r.out[i], k)
    BY SMTT(30) DEF Lands
  <2>3. nd[k] = n.down[k] \o [i \in 1..c |-> r.out[Nth(M, i)].d]
    OBVIOUS
  <2>4. Room(k) \in Nat /\ mode.room \in Nat /\ Len(n.down[k]) \in Nat
    <3>1. n.down \in [Guids -> Seq(Came)] /\ Len(n.down[k]) <= mode.room
      BY FabricFields DEF DownS
    <3>2. Len(n.down[k]) \in Nat
      BY <3>1
    <3> QED BY <3>1, <3>2, ModeFacts
  <2> HIDE DEF Mine, Room, N, M
  <2>5. /\ Cardinality(M) \in Nat
        /\ \A i \in 1..Cardinality(M) : Nth(M, i) \in M
        /\ \A i, j \in 1..Cardinality(M) : Nth(M, i) = Nth(M, j) => i = j
    BY <2>1, NthFacts
  <2>6. c \in Nat /\ c <= Room(k) /\ c <= Cardinality(M)
    <3> DEFINE T == {Room(k), Cardinality(M)}
    <3>1. T \subseteq Nat /\ T # {}
      BY <2>4, <2>5
    <3>2. c = Min(T)
      BY DEF M
    <3> HIDE DEF c
    <3>3. Min(T) \in T /\ \A y \in T : Min(T) <= y
      <4> HIDE DEF T
      <4> QED BY <3>1, MinIsElement
    <3> QED BY <3>1, <3>2, <3>3
  <2> HIDE DEF c
  <2>7. \A j \in 1..c : j \in 1..Cardinality(M)
    BY <2>5, <2>6
  <2>8. g \in [1..c -> 1..N] /\ \A j \in 1..c : g[j] = Nth(M, j) /\ g[j] \in M
    BY <2>1, <2>5, <2>7
  <2>9. [i \in 1..c |-> r.out[Nth(M, i)].d] = [j \in 1..c |-> r.out[g[j]].d]
    BY <2>8
  <2>10. \A i, j \in 1..c : g[i] = g[j] => i = j
    <3> HIDE DEF g
    <3> QED BY <2>5, <2>7, <2>8
  <2>11. Len(n.down[k]) + c <= mode.room
    <3>1. c <= mode.room - Len(n.down[k])
      BY <2>6 DEF Room
    <3> QED BY <2>4, <2>6, <3>1, SMTT(30)
  <2> HIDE DEF g, nd
  <2> QED BY <2>2, <2>3, <2>6, <2>8, <2>9, <2>10, <2>11 DEF Grows, N
<1>3. nd = [k \in Guids |-> nd[k]]
  OBVIOUS
<1> HIDE DEF nd, nu, f
<1>4. f.down = nd /\ f.up = nu
  BY <1>1 DEF Fabric
<1> QED
  BY <1>1, <1>2, <1>3, <1>4 DEF f, nu

(* The same, place by place                                                *)
LEMMA GrowsPlaces ==
  ASSUME mode \in Cases, NEW n \in Fabric, NEW r, r.out \in Seq(OutRec), NEW k \in Guids,
         NEW new, Grows(n, r, k, new)
  PROVE  /\ new \in Seq(Came) /\ Len(new) <= mode.room
         /\ Len(n.down[k]) \in Nat /\ Len(n.down[k]) <= Len(new)
         /\ \A i \in 1..Len(n.down[k]) : new[i] = n.down[k][i]
         /\ \E g \in [1..(Len(new) - Len(n.down[k])) -> 1..Len(r.out)] :
              /\ \A i, j \in DOMAIN g : g[i] = g[j] => i = j
              /\ \A i \in 1..Len(new) : i > Len(n.down[k]) =>
                   /\ i - Len(n.down[k]) \in DOMAIN g
                   /\ new[i] = r.out[g[i - Len(n.down[k])]].d
                   /\ Lands(n, r.out[g[i - Len(n.down[k])]], k)
<1>0. PICK c \in Nat : \E g \in [1..c -> 1..Len(r.out)] :
        /\ \A i, j \in 1..c : g[i] = g[j] => i = j
        /\ \A j \in 1..c : Lands(n, r.out[g[j]], k)
        /\ new = n.down[k] \o [j \in 1..c |-> r.out[g[j]].d]
        /\ Len(n.down[k]) + c <= mode.room
  BY Zenon DEF Grows
<1>1. PICK g \in [1..c -> 1..Len(r.out)] :
        /\ \A i, j \in 1..c : g[i] = g[j] => i = j
        /\ \A j \in 1..c : Lands(n, r.out[g[j]], k)
        /\ new = n.down[k] \o [j \in 1..c |-> r.out[g[j]].d]
        /\ Len(n.down[k]) + c <= mode.room
  BY <1>0
<1> DEFINE old == n.down[k]
           e == [j \in 1..c |-> r.out[g[j]].d]
           L == Len(old)
<1>2. old \in Seq(Came) /\ L \in Nat
  BY FabricFields DEF DownS
<1>3. e \in [1..c -> Came]
  <2>1. \A x \in 1..Len(r.out) : r.out[x].d \in Came
    <3>1. \A x \in 1..Len(r.out) : r.out[x] \in OutRec
      OBVIOUS
    <3> QED BY <3>1 DEF OutRec
  <2> QED BY <2>1
<1>4. \A j \in 1..c : e[j] = r.out[g[j]].d
  OBVIOUS
<1> HIDE DEF e
<1>5. e \in Seq(Came) /\ Len(e) = c
  BY <1>3, FunctionIsSeq
<1>6. new = old \o e
  BY <1>1 DEF e
<1> HIDE DEF old
<1>7. /\ new \in Seq(Came) /\ Len(new) = L + c
      /\ \A i \in 1..(L + c) : new[i] = IF i <= L THEN old[i] ELSE e[i - L]
  BY <1>2, <1>5, <1>6, ConcatProperties
<1>8. L + c <= mode.room
  BY <1>1 DEF old
<1> HIDE DEF L
<1>9. Len(new) - L = c
  BY <1>2, <1>7
<1>10. \A i \in 1..L : new[i] = old[i]
  BY <1>2, <1>7
<1>11. ASSUME NEW i \in 1..Len(new), i > L
       PROVE  i - L \in 1..c /\ new[i] = r.out[g[i - L]].d /\ Lands(n, r.out[g[i - L]], k)
  <2>1. i - L \in 1..c
    BY <1>2, <1>7, <1>11
  <2>2. new[i] = e[i - L]
    BY <1>2, <1>7, <1>11
  <2> QED BY <1>1, <1>4, <2>1, <2>2
<1>12. DOMAIN g = 1..c
  OBVIOUS
<1>13. \E h \in [1..(Len(new) - L) -> 1..Len(r.out)] :
         /\ \A i, j \in DOMAIN h : h[i] = h[j] => i = j
         /\ \A i \in 1..Len(new) : i > L =>
              /\ i - L \in DOMAIN h
              /\ new[i] = r.out[h[i - L]].d /\ Lands(n, r.out[h[i - L]], k)
  <2>1. \E h \in [1..c -> 1..Len(r.out)] :
          /\ \A i, j \in DOMAIN h : h[i] = h[j] => i = j
          /\ \A i \in 1..Len(new) : i > L =>
               /\ i - L \in DOMAIN h
               /\ new[i] = r.out[h[i - L]].d /\ Lands(n, r.out[h[i - L]], k)
    <3>1. /\ \A i, j \in DOMAIN g : g[i] = g[j] => i = j
          /\ \A i \in 1..Len(new) : i > L =>
               /\ i - L \in DOMAIN g
               /\ new[i] = r.out[g[i - L]].d /\ Lands(n, r.out[g[i - L]], k)
      BY <1>1, <1>11, <1>12, SMTT(30)
    <3> QED BY <3>1, Zenon
  <2> QED BY <1>9, <2>1, Zenon
<1>14. L <= Len(new)
  BY <1>2, <1>7
<1> QED
  BY <1>2, <1>7, <1>8, <1>10, <1>13, <1>14 DEF L, old

LEMMA FromSwitchType ==
  ASSUME mode \in Cases, NEW n \in Fabric, NEW r, r.sw \in SwS, r.out \in Seq(OutRec)
  PROVE  FromSwitch(n, r) \in Fabric
<1> DEFINE f == FromSwitch(n, r)
<1>1. /\ f = [n EXCEPT !.sw = r.sw, !.down = f.down, !.up = f.up]
      /\ f.up = IF r.sw.run = "running" THEN n.up ELSE [k \in Guids |-> <<>>]
      /\ f.down = [k \in Guids |-> f.down[k]]
      /\ \A k \in Guids : Grows(n, r, k, f.down[k])
  BY FromSwitchDoes
<1> HIDE DEF f
<1>3. \A k \in Guids : f.down[k] \in Seq(Came) /\ Len(f.down[k]) <= mode.room
  BY <1>1, GrowsPlaces, ZenonT(30)
<1>4. f.down \in DownS
  <2> DEFINE nd == f.down
  <2>1. nd = [k \in Guids |-> nd[k]] /\ \A k \in Guids : nd[k] \in Seq(Came) /\ Len(nd[k]) <= mode.room
    BY <1>1, <1>3
  <2> HIDE DEF nd
  <2>2. nd \in [Guids -> Seq(Came)]
    BY <2>1
  <2>3. nd \in DownS
    BY <2>1, <2>2, SMTT(30) DEF DownS
  <2> QED BY <2>3 DEF nd
<1>5. f.up \in UpS
  BY <1>1, UpNone, FabricFields
<1>6. f \in Fabric
  <2> DEFINE nd == f.down
             nu == f.up
  <2>1. f = [n EXCEPT !.sw = r.sw, !.down = nd, !.up = nu] /\ nd \in DownS /\ nu \in UpS
    BY <1>1, <1>4, <1>5
  <2> HIDE DEF nd, nu
  <2> QED BY <2>1 DEF Fabric
<1> QED
  BY <1>6 DEF f

-----------------------------------------------------------------------------
(* What a port receives *)

LEMMA SetFields ==
  ASSUME NEW n \in Fabric
  PROVE  /\ \A x \in PortS : [n EXCEPT !.port = x] \in Fabric
         /\ \A x \in SwS : [n EXCEPT !.sw = x] \in Fabric
         /\ \A x \in UpS : [n EXCEPT !.up = x] \in Fabric
         /\ \A x \in DownS : [n EXCEPT !.down = x] \in Fabric
         /\ \A x \in LidS : [n EXCEPT !.lids = x] \in Fabric
         /\ \A x \in LogS : [n EXCEPT !.log = x] \in Fabric
         /\ \A x \in HcaS : [n EXCEPT !.hca = x] \in Fabric
BY DEF Fabric

LEMMA SetPort ==
  ASSUME NEW n \in Fabric, NEW p \in Guids, NEW r \in PortT
  PROVE  [n EXCEPT !.port[p] = r] \in Fabric
<1> DEFINE u == [n.port EXCEPT ![p] = r]
<1>1. u \in PortS
  BY FabricFields DEF PortS
<1>2. [n EXCEPT !.port[p] = r] = [n EXCEPT !.port = u]
  BY DEF Fabric
<1> HIDE DEF u
<1> QED
  BY <1>1, <1>2, SetFields

(* The port after a command of pibnetd *)
RawTaken(r, d) ==
  IF d.cmd = "CONNECT_ACK"
  THEN [r EXCEPT !.connected = TRUE, !.state = IB_PORT_INIT, !.ack = d.boot]
  ELSE [r EXCEPT !.connected = FALSE, !.state = IB_PORT_DOWN]

LEMMA RawHcaDoes ==
  ASSUME NEW n \in Fabric, NEW p \in Guids, NEW d \in RawCame
  PROVE  /\ process_raw_packet_hca(n, p, d) = [n EXCEPT !.port[p] = RawTaken(n.port[p], d)]
         /\ RawTaken(n.port[p], d) \in PortT
<1>1. n.port \in [Guids -> PortT] /\ n.port[p] \in PortT
  BY FabricFields DEF PortS
<1>2. d.boot \in 0..mode.netd
  BY DEF RawCame, RawRec
<1>3. RawTaken(n.port[p], d) \in PortT
  <2> DEFINE r == n.port[p]
             b == d.boot
  <2>1. r \in PortT /\ b \in 0..mode.netd
    BY <1>1, <1>2
  <2> HIDE DEF r, b
  <2>2. /\ [r EXCEPT !.connected = TRUE, !.state = IB_PORT_INIT, !.ack = b] \in PortT
        /\ [r EXCEPT !.connected = FALSE, !.state = IB_PORT_DOWN] \in PortT
    <3>1. IB_PORT_INIT \in 1..2 /\ IB_PORT_DOWN \in 1..2
      BY DEF IB_PORT_INIT, IB_PORT_DOWN
    <3>2. TRUE \in BOOLEAN /\ FALSE \in BOOLEAN
      OBVIOUS
    <3> QED BY <2>1, <3>1, <3>2, LinkChange, Zenon
  <2> QED BY <2>2 DEF RawTaken, r, b
<1>4. process_raw_packet_hca(n, p, d) = [n EXCEPT !.port[p] = RawTaken(n.port[p], d)]
  <2> DEFINE f == n.port
  <2>1. f \in [Guids -> PortT]
    BY <1>1
  <2>2. CASE d.cmd = "CONNECT_ACK"
    <3>1. process_raw_packet_hca(n, p, d)
            = [n EXCEPT !.port[p].connected = TRUE, !.port[p].state = IB_PORT_INIT,
                        !.port[p].ack = d.boot]
      BY <2>2 DEF process_raw_packet_hca
    <3>2. RawTaken(n.port[p], d) = [n.port[p] EXCEPT !.connected = TRUE, !.state = IB_PORT_INIT, !.ack = d.boot]
      BY <2>2 DEF RawTaken
    <3>3. [n EXCEPT !.port[p].connected = TRUE, !.port[p].state = IB_PORT_INIT,
                    !.port[p].ack = d.boot]
           = [n EXCEPT !.port[p] = [n.port[p] EXCEPT !.connected = TRUE, !.state = IB_PORT_INIT, !.ack = d.boot]]
      BY <1>1 DEF Fabric
    <3> QED BY <3>1, <3>2, <3>3
  <2>3. CASE d.cmd # "CONNECT_ACK"
    <3>1. process_raw_packet_hca(n, p, d)
            = [n EXCEPT !.port[p].connected = FALSE, !.port[p].state = IB_PORT_DOWN]
      BY <2>3 DEF process_raw_packet_hca
    <3>2. RawTaken(n.port[p], d) = [n.port[p] EXCEPT !.connected = FALSE, !.state = IB_PORT_DOWN]
      BY <2>3 DEF RawTaken
    <3>3. [n EXCEPT !.port[p].connected = FALSE, !.port[p].state = IB_PORT_DOWN]
           = [n EXCEPT !.port[p] = [n.port[p] EXCEPT !.connected = FALSE, !.state = IB_PORT_DOWN]]
      BY <1>1 DEF Fabric
    <3> QED BY <3>1, <3>2, <3>3
  <2> QED BY <2>2, <2>3
<1> QED
  BY <1>3, <1>4

(* One delivery more of a message to a queue pair                          *)
GotOne(n, m, q) == [n EXCEPT !.log.got[m][q] = @ + 1]

LEMMA GotOneDoes ==
  ASSUME NEW n \in Fabric, NEW m \in Msgs, NEW q \in QPs
  PROVE  LET g == [n.log.got EXCEPT ![m] = [n.log.got[m] EXCEPT ![q] = n.log.got[m][q] + 1]]
         IN /\ GotOne(n, m, q) = [n EXCEPT !.log = [n.log EXCEPT !.got = g]]
            /\ GotOne(n, m, q) \in Fabric
            /\ g \in [Msgs -> [QPs -> Nat]]
            /\ [n.log EXCEPT !.got = g] \in LogS
<1> DEFINE l == n.log
           g == [l.got EXCEPT ![m] = [l.got[m] EXCEPT ![q] = l.got[m][q] + 1]]
           v == [l EXCEPT !.got = g]
<1>1. l \in LogS /\ l.got \in [Msgs -> [QPs -> Nat]]
  BY FabricFields DEF LogS
<1>2. GotOne(n, m, q) = [n EXCEPT !.log = v]
  BY <1>1 DEF GotOne, Fabric, LogS
<1>3. g \in [Msgs -> [QPs -> Nat]]
  <2> DEFINE w == l.got
             y == w[m]
             z == [y EXCEPT ![q] = y[q] + 1]
  <2>1. w \in [Msgs -> [QPs -> Nat]] /\ y \in [QPs -> Nat]
    BY <1>1
  <2> HIDE DEF w, y
  <2>2. z \in [QPs -> Nat]
    BY <2>1
  <2> HIDE DEF z
  <2>3. [w EXCEPT ![m] = z] \in [Msgs -> [QPs -> Nat]]
    BY <2>1, <2>2
  <2> QED BY <2>3 DEF w, y, z
<1> HIDE DEF g, l
<1>4. v \in LogS
  BY <1>1, <1>3 DEF LogS
<1> HIDE DEF v
<1>5. [n EXCEPT !.log = v] \in Fabric
  BY <1>4, SetFields
<1> QED
  BY <1>2, <1>3, <1>4, <1>5 DEF l, g, v

LEMMA RetryType ==
  ASSUME mode \in Cases, NEW n \in Fabric, NEW h \in Hosts
  PROVE  Retry(n, h) \in Fabric
BY SendmsgType DEF Retry

(* A critical section gives dev->lock back as it was taken.                *)
LEMMA LockUnlock ==
  ASSUME NEW n \in Fabric, NEW h \in Hosts, n.hca[h].lock = "free"
  PROVE  /\ Unlock(Lock(n, h), h) = n
         /\ Lock(n, h).port = n.port
         /\ Lock(n, h).hca[h] = [n.hca[h] EXCEPT !.lock = "held"]
         /\ Lock(n, h).hca[h].qps = n.hca[h].qps /\ Lock(n, h).hca[h].mcast = n.hca[h].mcast
<1> DEFINE f == n.hca
           r == f[h]
           a == [r EXCEPT !.lock = "held"]
           u == [f EXCEPT ![h] = a]
           l == Lock(n, h)
<1>1. n.hca \in HcaS
  BY FabricFields
<1>2. f \in [Hosts -> HcaRec] /\ r \in HcaRec /\ r.lock = "free"
  BY <1>1, HcaFacts
<1>3. l = [n EXCEPT !.hca = u]
  BY DEF Lock, Fabric
<1>4. l.hca = u /\ l.port = n.port
  BY <1>3 DEF Fabric
<1>5. [a EXCEPT !.lock = "free"] = r /\ a.qps = r.qps /\ a.mcast = r.mcast
  <2> HIDE DEF r
  <2> QED BY <1>2 DEF HcaRec
<1>6. u[h] = a /\ [u EXCEPT ![h] = r] = f
  <2> HIDE DEF a
  <2>1. u[h] = a
    BY <1>2
  <2>2. [u EXCEPT ![h] = r] = f
    <3> HIDE DEF f
    <3> QED BY <1>2 DEF r
  <2> QED BY <2>1, <2>2
<1>7. Unlock(l, h) = [l EXCEPT !.hca = [u EXCEPT ![h] = [a EXCEPT !.lock = "free"]]]
  BY <1>3, <1>4, <1>6 DEF Unlock, Fabric
<1>8. [l EXCEPT !.hca = f] = n
  <2> HIDE DEF u
  <2> QED BY <1>3 DEF Fabric
<1>9. Unlock(l, h) = n
  BY <1>5, <1>6, <1>7, <1>8
<1> QED
  BY <1>4, <1>5, <1>6, <1>9 DEF l

(* The packet with a wrong P_Key                                           *)
Leaks(n, h, p) == [Lock(n, h) EXCEPT !.port[p].bad_pkey_cntr = 1]

LEMMA LeaksDoes ==
  ASSUME NEW n \in Fabric, NEW h \in Hosts, NEW p \in Guids, Rekeyed
  PROVE  /\ Leaks(n, h, p) = [n EXCEPT !.hca = [n.hca EXCEPT ![h] = [n.hca[h] EXCEPT !.lock = "held"]],
                                       !.port = [n.port EXCEPT ![p] = [n.port[p] EXCEPT !.bad_pkey_cntr = 1]]]
         /\ Leaks(n, h, p) \in Fabric
<1> DEFINE a == [n.hca[h] EXCEPT !.lock = "held"]
           b == [n.port[p] EXCEPT !.bad_pkey_cntr = 1]
           u == [n.hca EXCEPT ![h] = a]
           v == [n.port EXCEPT ![p] = b]
<1>1. Leaks(n, h, p) = [n EXCEPT !.hca = u, !.port = v]
  BY DEF Leaks, Lock, Fabric
<1>2. a \in HcaRec /\ OfDevice(a, h)
  <2>1. n.hca \in HcaS
    BY FabricFields
  <2>2. n.hca[h] \in HcaRec /\ OfDevice(n.hca[h], h) /\ "held" \in LockStates
    BY <2>1, HcaFacts, LockFacts
  <2> QED BY <2>2, SetLock
<1>3. u \in HcaS
  <2> HIDE DEF a
  <2> QED BY <1>2, FabricFields, HcaPut
<1>4. b \in PortT
  <2> DEFINE r == n.port[p]
  <2>1. r \in PortT
    BY FabricFields DEF PortS
  <2> HIDE DEF r
  <2>2. [r EXCEPT !.bad_pkey_cntr = 1] \in PortT
    BY <2>1 DEF PortT
  <2> QED BY <2>2 DEF r
<1>5. v \in PortS
  <2> HIDE DEF b
  <2> QED BY <1>4, FabricFields DEF PortS
<1>6. [n EXCEPT !.hca = u, !.port = v] \in Fabric
  <2> HIDE DEF u, v
  <2> QED BY <1>3, <1>5 DEF Fabric
<1> QED
  BY <1>1, <1>6

(* process_incoming_message_per_qp: nothing, the lost lock, or a delivery. *)
Offered(n, h, p, qpn, d, s) ==
  \E q \in n.hca[h].qps :
    /\ QpNum[q] = qpn /\ DlidMatches(n, p, d)
    /\ s = IF QpPort[q] # p THEN n ELSE GotOne(n, d.m, q)

LEMMA PerQpDoes ==
  ASSUME mode \in Cases, NEW n \in Fabric, NEW h \in Hosts, NEW p \in Guids,
         NEW d \in Wire, NEW qpn, n.hca[h].lock = "free"
  PROVE  LET r == process_incoming_message_per_qp(n, h, p, qpn, d)
         IN /\ \/ r = n
               \/ Rekeyed /\ r = Leaks(n, h, p)
               \/ \E s \in Fabric : Offered(n, h, p, qpn, d, s) /\ r = Retry(s, h)
            /\ r \in Fabric
<1> DEFINE r == process_incoming_message_per_qp(n, h, p, qpn, d)
           qs == pib_util_find_qp(n, h, qpn)
           Pick(S) == CHOOSE x \in S : TRUE
           q == Pick(qs)
           s == pib_receive_ud_qp(n, p, q, d)
<1>1. r = IF qs = {} \/ ~DlidMatches(n, p, d) THEN n
          ELSE IF n.port[p].pkey # d.pkey THEN Leaks(n, h, p)
          ELSE Retry(s, h)
  <2> DEFINE l == Lock(n, h)
             ql == pib_util_find_qp(l, h, qpn)
  <2>1. Unlock(l, h) = n /\ l.port = n.port /\ l.hca[h].qps = n.hca[h].qps
    BY LockUnlock
  <2>2. Leaks(n, h, p) = [l EXCEPT !.port[p].bad_pkey_cntr = 1]
    BY DEF Leaks
  <2> HIDE DEF l
  <2>3. ql = qs /\ (DlidMatches(l, p, d) <=> DlidMatches(n, p, d))
    BY <2>1 DEF pib_util_find_qp, DlidMatches
  <2>4. r = IF ql = {} THEN Unlock(l, h)
            ELSE IF ~DlidMatches(l, p, d) THEN Unlock(l, h)
            ELSE IF l.port[p].pkey # d.pkey THEN [l EXCEPT !.port[p].bad_pkey_cntr = 1]
            ELSE Retry(pib_receive_ud_qp(Unlock(l, h), p, Pick(ql), d), h)
    BY Zenon DEF process_incoming_message_per_qp, l
  <2> HIDE DEF r, ql, qs, Pick
  <2>6. ql # {} => Retry(pib_receive_ud_qp(Unlock(l, h), p, Pick(ql), d), h) = Retry(s, h)
    BY <2>1, <2>3
  <2>5. r = IF qs = {} THEN n
            ELSE IF ~DlidMatches(n, p, d) THEN n
            ELSE IF n.port[p].pkey # d.pkey THEN Leaks(n, h, p)
            ELSE Retry(s, h)
    BY <2>1, <2>2, <2>3, <2>4, <2>6
  <2> QED BY <2>5
<1>2. CASE qs = {} \/ ~DlidMatches(n, p, d)
  BY <1>1, <1>2
<1>3. CASE ~(qs = {} \/ ~DlidMatches(n, p, d)) /\ n.port[p].pkey # d.pkey
  <2>1. r = Leaks(n, h, p)
    BY <1>1, <1>3
  <2>2. Rekeyed
    <3>1. n.port[p] \in PortT
      BY FabricFields DEF PortS
    <3>2. n.port[p].pkey \in PKeys /\ d.pkey \in PKeys
      BY <3>1 DEF PortT, Wire, Data, DataRec
    <3> QED BY <1>3, <3>2, LockFacts
  <2>3. Leaks(n, h, p) \in Fabric
    BY <2>2, LeaksDoes
  <2> QED BY <2>1, <2>2, <2>3
<1>4. CASE ~(qs = {} \/ ~DlidMatches(n, p, d)) /\ n.port[p].pkey = d.pkey
  <2>1. q \in qs
    BY <1>4
  <2>2. q \in n.hca[h].qps /\ QpNum[q] = qpn
    BY <2>1 DEF pib_util_find_qp
  <2>3. s = IF QpPort[q] # p THEN n ELSE GotOne(n, d.m, q)
    BY DEF pib_receive_ud_qp, GotOne
  <2>4. q \in QPs
    <3>1. n.hca[h] \in HcaRec
      BY FabricFields, HcaFacts
    <3>2. n.hca[h].qps \in SUBSET QPs
      BY <3>1 DEF HcaRec
    <3> QED BY <2>2, <3>2
  <2>5. d.m \in Msgs
    BY DEF Wire, Data, DataRec
  <2>6. r = Retry(s, h)
    BY <1>1, <1>4
  <2> HIDE DEF r, s, q, qs
  <2>7. s \in Fabric
    BY <2>3, <2>4, <2>5, GotOneDoes
  <2>8. Offered(n, h, p, qpn, d, s)
    BY <1>4, <2>2, <2>3 DEF Offered
  <2>9. Retry(s, h) \in Fabric
    BY <2>7, RetryType
  <2>10. r \in Fabric /\ \E y \in Fabric : Offered(n, h, p, qpn, d, y) /\ r = Retry(y, h)
    BY <2>6, <2>7, <2>8, <2>9
  <2> QED BY <2>10 DEF r
<1> QED
  BY <1>2, <1>3, <1>4

(* An SMP is queued for the agent.                                         *)
Queued(n, h, x) == [n EXCEPT !.hca[h].mad = Enqueue(@, x)]

LEMMA QueuedDoes ==
  ASSUME mode \in Cases, NEW n \in Fabric, NEW h \in Hosts, NEW x \in MadRec, DevOf[x.port] = h
  PROVE  /\ Queued(n, h, x) = [n EXCEPT !.hca = [n.hca EXCEPT ![h] =
                                 [n.hca[h] EXCEPT !.mad = Enqueue(n.hca[h].mad, x)]]]
         /\ Queued(n, h, x) \in Fabric
<1> DEFINE r == n.hca[h]
           e == Enqueue(r.mad, x)
           a == [r EXCEPT !.mad = e]
           u == [n.hca EXCEPT ![h] = a]
<1>1. r \in HcaRec /\ OfDevice(r, h) /\ r.mad \in Seq(MadRec) /\ Len(r.mad) <= mode.room
      /\ \A i \in 1..Len(r.mad) : DevOf[r.mad[i].port] = h
  BY FabricFields, HcaFacts DEF HcaRec, OfDevice
<1>2. Queued(n, h, x) = [n EXCEPT !.hca = u]
  BY DEF Queued, Fabric
<1>3. /\ e \in Seq(MadRec) /\ Len(e) <= mode.room
      /\ \A i \in 1..Len(e) : DevOf[e[i].port] = h
  <2> DEFINE m == r.mad
  <2>1. m \in Seq(MadRec) /\ Len(m) <= mode.room /\ \A i \in 1..Len(m) : DevOf[m[i].port] = h
    BY <1>1
  <2> HIDE DEF m
  <2>2. /\ Enqueue(m, x) \in Seq(MadRec)
        /\ Len(m) <= mode.room => Len(Enqueue(m, x)) <= mode.room
        /\ \A i \in 1..Len(Enqueue(m, x)) :
             Enqueue(m, x)[i] = x \/ (i \in 1..Len(m) /\ Enqueue(m, x)[i] = m[i])
    BY <2>1, EnqueueSeq
  <2>3. e = Enqueue(m, x)
    BY DEF m
  <2> HIDE DEF e
  <2> QED BY <2>1, <2>2, <2>3
<1> HIDE DEF r, e
<1>4. a \in HcaRec /\ OfDevice(a, h)
  BY <1>1, <1>3, SetMad
<1>5. u \in HcaS
  <2> HIDE DEF a
  <2> QED BY <1>4, FabricFields, HcaPut
<1>6. [n EXCEPT !.hca = u] \in Fabric
  <2> HIDE DEF u
  <2> QED BY <1>5, SetFields
<1> QED
  BY <1>2, <1>6 DEF u, a, e, r

LEMMA ReceiveSmpDoes ==
  ASSUME mode \in Cases, NEW n \in Fabric, NEW h \in Hosts, NEW p \in Guids, DevOf[p] = h,
         NEW d \in SmpCame, n.hca[h].lock = "free"
  PROVE  LET r == ReceiveSmp(n, h, p, d)
             s == Queued(n, h, [port |-> p, d |-> d])
         IN /\ r = n \/ r = Retry(s, h)
            /\ s \in Fabric /\ r \in Fabric
<1> DEFINE r == ReceiveSmp(n, h, p, d)
           x == [port |-> p, d |-> d]
           s == Queued(n, h, x)
<1>1. r = n \/ r = Retry(s, h)
  <2> DEFINE l == Lock(n, h)
  <2>1. Unlock(l, h) = n
    BY LockUnlock
  <2>2. s = [Unlock(l, h) EXCEPT !.hca[h].mad = Enqueue(@, [port |-> p, d |-> d])]
    BY <2>1 DEF Queued
  <2>3. \/ r = Unlock(l, h)
        \/ r = Retry([Unlock(l, h) EXCEPT !.hca[h].mad = Enqueue(@, [port |-> p, d |-> d])], h)
    BY Zenon DEF ReceiveSmp
  <2> HIDE DEF l, r, s
  <2> QED BY <2>1, <2>2, <2>3
<1>2. x \in MadRec /\ DevOf[x.port] = h
  BY DEF MadRec
<1> HIDE DEF x
<1>3. s \in Fabric
  BY <1>2, QueuedDoes
<1> HIDE DEF s
<1>4. Retry(s, h) \in Fabric
  BY <1>3, RetryType
<1> QED
  BY <1>1, <1>3, <1>4 DEF s, x

(* The members a multicast packet is copied for                            *)
CopiesOf(n, h, p, d) ==
  [src |-> "mc", port |-> p, d |-> d,
   qpns |-> {QpNum[q] : q \in n.hca[h].mcast}
              \ IF n.port[p].lid = d.slid THEN {d.sqpn} ELSE {}]

SetCopies(n, h, x) == [n EXCEPT !.hca[h].mc = x]

LEMMA SetCopiesDoes ==
  ASSUME NEW n \in Fabric, NEW h \in Hosts, NEW x \in {None} \cup Copying,
         x # None => DevOf[x.port] = h
  PROVE  /\ SetCopies(n, h, x) = [n EXCEPT !.hca = [n.hca EXCEPT ![h] = [n.hca[h] EXCEPT !.mc = x]]]
         /\ SetCopies(n, h, x) \in Fabric
<1> DEFINE a == [n.hca[h] EXCEPT !.mc = x]
           u == [n.hca EXCEPT ![h] = a]
<1>1. SetCopies(n, h, x) = [n EXCEPT !.hca = u]
  BY DEF SetCopies, Fabric
<1>2. a \in HcaRec /\ OfDevice(a, h)
  BY FabricFields, HcaFacts, SetMc
<1>3. u \in HcaS
  <2> HIDE DEF a
  <2> QED BY <1>2, FabricFields, HcaPut
<1>4. [n EXCEPT !.hca = u] \in Fabric
  <2> HIDE DEF u
  <2> QED BY <1>3, SetFields
<1> QED
  BY <1>1, <1>4

LEMMA SnapshotDoes ==
  ASSUME NEW n \in Fabric, NEW h \in Hosts, NEW p \in Guids, DevOf[p] = h, NEW d \in Group,
         n.hca[h].lock = "free"
  PROVE  /\ Snapshot(n, h, p, d) = SetCopies(n, h, CopiesOf(n, h, p, d))
         /\ CopiesOf(n, h, p, d) \in Copying
         /\ Snapshot(n, h, p, d) \in Fabric
<1> DEFINE x == CopiesOf(n, h, p, d)
<1>1. Snapshot(n, h, p, d) = SetCopies(n, h, x)
  <2> DEFINE l == Lock(n, h)
             c == [src |-> "mc", port |-> p, d |-> d,
                   qpns |-> {QpNum[q] : q \in l.hca[h].mcast}
                              \ IF l.port[p].lid = d.slid THEN {d.sqpn} ELSE {}]
  <2>1. l.port = n.port /\ l.hca[h].mcast = n.hca[h].mcast
    BY LockUnlock
  <2>2. c = x
    <3> HIDE DEF l
    <3> QED BY <2>1 DEF CopiesOf
  <2>3. Snapshot(n, h, p, d) = Unlock([l EXCEPT !.hca[h].mc = c], h)
    BY Zenon DEF Snapshot
  <2> HIDE DEF c, x
  <2>4. Unlock([l EXCEPT !.hca[h].mc = x], h) = SetCopies(n, h, x)
    <3> DEFINE f == n.hca
               r == f[h]
               y == [r EXCEPT !.mc = x]
    <3>1. f \in HcaS
      BY FabricFields
    <3>2. f \in [Hosts -> HcaRec] /\ r \in HcaRec /\ r.lock = "free"
      BY <3>1, HcaFacts
    <3>3. [[[r EXCEPT !.lock = "held"] EXCEPT !.mc = x] EXCEPT !.lock = "free"] = y
      <4> HIDE DEF r
      <4> QED BY <3>2 DEF HcaRec
    <3>4. Unlock([l EXCEPT !.hca[h].mc = x], h)
            = [n EXCEPT !.hca = [f EXCEPT ![h] = [[[r EXCEPT !.lock = "held"] EXCEPT !.mc = x] EXCEPT !.lock = "free"]]]
      BY <3>2 DEF Unlock, Lock, Fabric
    <3>5. SetCopies(n, h, x) = [n EXCEPT !.hca = [f EXCEPT ![h] = y]]
      BY <3>2 DEF SetCopies, Fabric
    <3> HIDE DEF f, r, y
    <3> QED BY <3>3, <3>4, <3>5
  <2> QED BY <2>2, <2>3, <2>4
<1>2. n.hca[h].mcast \in SUBSET QPs
  <2>1. n.hca[h] \in HcaRec
    BY FabricFields, HcaFacts
  <2> QED BY <2>1 DEF HcaRec
<1>3. x \in Copying /\ x.port = p
  <2> DEFINE qn == {QpNum[q] : q \in n.hca[h].mcast}
                     \ IF n.port[p].lid = d.slid THEN {d.sqpn} ELSE {}
  <2>1. qn \in SUBSET {QpNum[q] : q \in QPs}
    BY <1>2
  <2>2. x = [src |-> "mc", port |-> p, d |-> d, qpns |-> qn]
    BY DEF CopiesOf
  <2> HIDE DEF qn, x
  <2> QED BY <2>1, <2>2 DEF Copying
<1> HIDE DEF x
<1>4. SetCopies(n, h, x) \in Fabric
  BY <1>3, SetCopiesDoes
<1> QED
  BY <1>1, <1>3, <1>4 DEF x

(* process_incoming_message, by what the port does with the packet         *)
LEMMA IncomingDoes ==
  ASSUME mode \in Cases, NEW n \in Fabric, NEW p \in Guids, NEW h \in Hosts, DevOf[p] = h,
         NEW d \in Came, d.t # "raw" => n.hca[h].lock = "free"
  PROVE  LET r == process_incoming_message(n, h, p, d)
         IN /\ \/ r = n
               \/ d \in RawCame /\ r = process_raw_packet_hca(n, p, d)
               \/ d \in SmpCame /\ r = ReceiveSmp(n, h, p, d)
               \/ /\ d \in Wire /\ n.port[p].state = IB_PORT_ACTIVE /\ d.dlid # Mlid
                  /\ r = process_incoming_message_per_qp(n, h, p, d.dqpn, d)
               \/ /\ d \in Wire /\ n.port[p].state = IB_PORT_ACTIVE /\ d.dlid = Mlid
                  /\ r = Snapshot(n, h, p, d)
            /\ r \in Fabric
<1> DEFINE r == process_incoming_message(n, h, p, d)
<1>1. /\ d.t \in {"raw", "smp", "data"} /\ (d.t = "raw" => d \in RawCame)
      /\ d.t = "smp" => d \in SmpCame
      /\ d.t = "data" => d \in Wire
  BY CameTags
<1>2. CASE d.t = "raw"
  <2>1. r = process_raw_packet_hca(n, p, d)
    BY <1>2 DEF process_incoming_message
  <2>2. process_raw_packet_hca(n, p, d) \in Fabric
    BY <1>1, <1>2, RawHcaDoes, SetPort
  <2> HIDE DEF r
  <2> QED BY <1>1, <1>2, <2>1, <2>2 DEF r
<1>3. CASE d.t = "smp"
  <2>1. r = n \/ r = ReceiveSmp(n, h, p, d)
    BY <1>3 DEF process_incoming_message
  <2>2. ReceiveSmp(n, h, p, d) \in Fabric
    BY <1>1, <1>3, ReceiveSmpDoes
  <2> HIDE DEF r
  <2> QED BY <1>1, <1>3, <2>1, <2>2 DEF r
<1>4. CASE d.t = "data"
  <2>1. \/ r = n
        \/ /\ n.port[p].state = IB_PORT_ACTIVE /\ d.dlid # Mlid
           /\ r = process_incoming_message_per_qp(n, h, p, d.dqpn, d)
        \/ /\ n.port[p].state = IB_PORT_ACTIVE /\ d.dlid = Mlid
           /\ r = Snapshot(n, h, p, d)
    BY <1>4, Zenon DEF process_incoming_message, pib_is_unicast_lid
  <2>2. process_incoming_message_per_qp(n, h, p, d.dqpn, d) \in Fabric
    BY <1>1, <1>4, PerQpDoes
  <2>3. d.dlid = Mlid => Snapshot(n, h, p, d) \in Fabric
    BY <1>1, <1>4, SnapshotDoes DEF Group
  <2> HIDE DEF r
  <2> QED BY <1>1, <1>4, <2>1, <2>2, <2>3 DEF r
<1> QED
  BY <1>1, <1>2, <1>3, <1>4

-----------------------------------------------------------------------------
(* The subnet management agent of a port *)

LEMMA MaxOfPair ==
  ASSUME NEW a \in Nat, NEW b \in Nat
  PROVE  Max({a, b}) \in {a, b}
<1>1. \E x \in {a, b} : \A y \in {a, b} : x >= y
  BY DEF Nat
<1> QED
  BY <1>1, Zenon DEF Max

(* What a Set may change of a port, of the table of LIDs and of the log    *)
SubnDone(n, p, r) ==
  /\ r \in Fabric /\ r.hca = n.hca /\ r.sw = n.sw /\ r.up = n.up /\ r.down = n.down
  /\ r.port = [n.port EXCEPT ![p] = r.port[p]]
  /\ r.port[p].connected = n.port[p].connected /\ r.port[p].ack = n.port[p].ack
  /\ r.port[p].bad_pkey_cntr = n.port[p].bad_pkey_cntr
  /\ r.log = [n.log EXCEPT !.misled = r.log.misled]
  /\ n.log.misled => r.log.misled
  /\ ~r.log.misled => r.port[p].lid \in {n.port[p].lid, Lid[p]}

LEMMA SetInfoType ==
  ASSUME NEW r \in PortT, NEW op \in PortOps, op.attr = "PortInfo"
  PROVE  LET s == pib_subn_set_portinfo(r, op)
             t == IF s.connected THEN [s EXCEPT !.state = Max({s.state, IB_PORT_INIT})] ELSE s
         IN /\ t \in PortT /\ t.lid = op.lid /\ t.connected = r.connected /\ t.ack = r.ack
            /\ t.bad_pkey_cntr = r.bad_pkey_cntr
<1> DEFINE l == op.lid
           e == IF op.state = 0 THEN r.state ELSE op.state
           s == [r EXCEPT !.lid = l, !.state = e]
           m == Max({e, IB_PORT_INIT})
           t == IF s.connected THEN [s EXCEPT !.state = Max({s.state, IB_PORT_INIT})] ELSE s
<1>1. l \in Lids /\ l # 0 /\ op.state \in 0..4
  BY LidFacts DEF PortOps
<1>2. e \in 1..4
  <2>1. r.state \in 1..4
    BY DEF PortT
  <2> QED BY <1>1, <2>1
<1>3. s = pib_subn_set_portinfo(r, op)
  BY DEF pib_subn_set_portinfo
<1> HIDE DEF l, e
<1>4. /\ s \in PortT /\ s.lid = l /\ s.connected = r.connected /\ s.ack = r.ack
      /\ s.bad_pkey_cntr = r.bad_pkey_cntr /\ s.state = e
  BY <1>1, <1>2 DEF PortT
<1>5. m \in 1..4
  <2>1. e \in Nat /\ IB_PORT_INIT \in Nat /\ IB_PORT_INIT \in 1..4
    BY <1>2 DEF IB_PORT_INIT
  <2> HIDE DEF m
  <2>2. m \in {e, IB_PORT_INIT}
    BY <2>1, MaxOfPair DEF m
  <2> QED BY <1>2, <2>1, <2>2
<1>6. t = IF s.connected THEN [s EXCEPT !.state = m] ELSE s
  <2> HIDE DEF s
  <2> QED BY <1>4
<1> HIDE DEF s, m
<1>7. /\ [s EXCEPT !.state = m] \in PortT /\ [s EXCEPT !.state = m].lid = s.lid
      /\ [s EXCEPT !.state = m].connected = s.connected /\ [s EXCEPT !.state = m].ack = s.ack
      /\ [s EXCEPT !.state = m].bad_pkey_cntr = s.bad_pkey_cntr
  BY <1>1, <1>4, <1>5 DEF PortT
<1> HIDE DEF t
<1>8. /\ t \in PortT /\ t.lid = l /\ t.connected = r.connected /\ t.ack = r.ack
      /\ t.bad_pkey_cntr = r.bad_pkey_cntr
  BY <1>4, <1>6, <1>7
<1> QED
  BY <1>3, <1>8 DEF t, l

LEMMA SetInfoDoes ==
  ASSUME mode \in Cases, NEW n \in Fabric, NEW p \in Guids, NEW op \in PortOps,
         op.attr = "PortInfo"
  PROVE  SubnDone(n, p, subn_set_portinfo(n, p, op))
<1> DEFINE old == n.port[p].lid
           s == pib_subn_set_portinfo(n.port[p], op)
           t == IF s.connected THEN [s EXCEPT !.state = Max({s.state, IB_PORT_INIT})] ELSE s
           table == [l \in DOMAIN n.lids |->
                       IF old = op.lid THEN n.lids[l]
                       ELSE IF l = op.lid THEN p ELSE IF l = old THEN 0 ELSE n.lids[l]]
           f == [n.port EXCEPT ![p] = t]
           tb == IF mode.multi THEN n.lids ELSE table
           x == n.log.misled \/ op.lid # Lid[p]
           g == [n.log EXCEPT !.misled = x]
           r == subn_set_portinfo(n, p, op)
<1>1. n.port \in [Guids -> PortT] /\ n.lids \in LidS /\ n.log \in LogS
  BY FabricFields DEF PortS
<1>2. r = [n EXCEPT !.port = f, !.lids = tb, !.log = g]
  BY DEF subn_set_portinfo, Fabric
<1>3. /\ t \in PortT /\ t.lid = op.lid /\ t.connected = n.port[p].connected
      /\ t.ack = n.port[p].ack /\ t.bad_pkey_cntr = n.port[p].bad_pkey_cntr
  BY <1>1, SetInfoType
<1>4. tb \in LidS
  BY <1>1 DEF LidS
<1> HIDE DEF t, tb
<1>5. f \in PortS /\ f[p] = t
  BY <1>1, <1>3 DEF PortS
<1>6. x \in BOOLEAN
  OBVIOUS
<1>7. (n.log.misled => x) /\ (~x => op.lid = Lid[p])
  OBVIOUS
<1> HIDE DEF x
<1>8. g \in LogS /\ g.misled = x
  BY <1>1, <1>6 DEF LogS
<1> HIDE DEF f, r
<1>9. r \in Fabric /\ r.hca = n.hca /\ r.sw = n.sw /\ r.up = n.up /\ r.down = n.down
      /\ r.port = f /\ r.log = g
  <2> HIDE DEF g
  <2> QED BY <1>2, <1>4, <1>5, <1>8 DEF Fabric
<1>10. r.port[p] = t /\ r.log.misled = x
  BY <1>5, <1>8, <1>9
<1>11. r.port = [n.port EXCEPT ![p] = r.port[p]] /\ r.log = [n.log EXCEPT !.misled = r.log.misled]
  BY <1>9, <1>10 DEF f
<1>12. SubnDone(n, p, r)
  <2> HIDE DEF g
  <2> QED BY <1>3, <1>7, <1>9, <1>10, <1>11 DEF SubnDone
<1> QED
  BY <1>12 DEF r

LEMMA SetPkeyDoes ==
  ASSUME NEW n \in Fabric, NEW p \in Guids, NEW op \in PortOps, op.attr = "PKeyTable"
  PROVE  SubnDone(n, p, subn_set_pkey_table(n, p, op))
<1> DEFINE k == op.pkey
           t == [n.port[p] EXCEPT !.pkey = k]
           f == [n.port EXCEPT ![p] = t]
           r == subn_set_pkey_table(n, p, op)
<1>1. n.port \in [Guids -> PortT] /\ n.log \in LogS
  BY FabricFields DEF PortS
<1>2. k \in PKeys
  BY DEF PortOps
<1>3. r = [n EXCEPT !.port = f]
  BY DEF subn_set_pkey_table, Fabric
<1> HIDE DEF k
<1>4. /\ t \in PortT /\ t.lid = n.port[p].lid /\ t.connected = n.port[p].connected
      /\ t.ack = n.port[p].ack /\ t.bad_pkey_cntr = n.port[p].bad_pkey_cntr
  <2> DEFINE z == n.port[p]
  <2>1. z \in PortT
    BY <1>1
  <2> HIDE DEF z
  <2>2. LET y == [z EXCEPT !.pkey = k]
        IN /\ y \in PortT /\ y.lid = z.lid /\ y.connected = z.connected
           /\ y.ack = z.ack /\ y.bad_pkey_cntr = z.bad_pkey_cntr
    BY <1>2, <2>1 DEF PortT
  <2> QED BY <2>2 DEF z
<1> HIDE DEF t
<1>5. f \in PortS /\ f[p] = t
  BY <1>1, <1>4 DEF PortS
<1> HIDE DEF f, r
<1>6. r \in Fabric /\ r.hca = n.hca /\ r.sw = n.sw /\ r.up = n.up /\ r.down = n.down
      /\ r.port = f /\ r.log = n.log
  BY <1>3, <1>5 DEF Fabric
<1>7. r.port = [n.port EXCEPT ![p] = r.port[p]]
  BY <1>5, <1>6 DEF f
<1>8. r.log = [n.log EXCEPT !.misled = r.log.misled]
  BY <1>1, <1>6 DEF LogS
<1>9. SubnDone(n, p, r)
  BY <1>4, <1>5, <1>6, <1>7, <1>8 DEF SubnDone
<1> QED
  BY <1>9 DEF r

LEMMA SubnDoes ==
  ASSUME mode \in Cases, NEW n \in Fabric, NEW p \in Guids, NEW op \in PortOps
  PROVE  SubnDone(n, p, process_subn(n, p, op))
<1>1. op.attr \in {"PortInfo", "PKeyTable"}
  BY DEF PortOps
<1>2. CASE op.attr = "PortInfo"
  BY <1>2, SetInfoDoes DEF process_subn
<1>3. CASE op.attr = "PKeyTable"
  BY <1>3, SetPkeyDoes DEF process_subn
<1> QED
  BY <1>1, <1>2, <1>3

-----------------------------------------------------------------------------
(* Steps *)

(* The types depend on the case only, which no step changes.               *)
LEMMA SameTypes ==
  ASSUME mode' = mode
  PROVE  Fabric' = Fabric
<1>1. RawSent' = RawSent /\ RawCame' = RawCame
  BY DEF RawSent, RawCame, RawRec
<1>8. PKeys' = PKeys /\ LockStates' = LockStates
  BY DEF PKeys, LockStates, Rekeyed
<1>9. PortOps' = PortOps /\ DataRec' = DataRec
  BY <1>8 DEF PortOps, DataRec
<1>10. SmpRec' = SmpRec /\ Wire' = Wire /\ Group' = Group /\ Data' = Data
  BY <1>9 DEF SmpRec, Wire, Data, Group
<1>11. SmpSent' = SmpSent /\ SmpKept' = SmpKept /\ SmpCame' = SmpCame
  BY <1>9, <1>10 DEF SmpSent, SmpKept, SmpCame, ForPort, AtPort, Returns
<1>2. Sent' = Sent /\ Came' = Came
  BY <1>1, <1>10, <1>11 DEF Sent, Came
<1>12. Waiting' = Waiting /\ Copying' = Copying /\ MadRec' = MadRec
  BY <1>10, <1>11 DEF Waiting, Copying, MadRec
<1>3. HcaRec' = HcaRec
  BY <1>8, <1>12 DEF HcaRec
<1>4. HcaS' = HcaS
  BY <1>3 DEF HcaS
<1>5. PortS' = PortS
  BY <1>8 DEF PortS, PortT
<1>6. SwS' = SwS
  BY DEF SwS, SwPort
<1>7. UpS' = UpS /\ DownS' = DownS
  BY <1>2 DEF UpS, DownS
<1> QED
  BY <1>4, <1>5, <1>6, <1>7 DEF Fabric

LEMMA BecomesDoes ==
  ASSUME NEW n \in Fabric, Becomes(n)
  PROVE  /\ Now' = n
         /\ hca' = n.hca /\ port' = n.port /\ sw' = n.sw /\ up' = n.up
         /\ down' = n.down /\ lid_table' = n.lids /\ log' = n.log
<1>1. /\ hca' = n.hca /\ port' = n.port /\ sw' = n.sw /\ up' = n.up
      /\ down' = n.down /\ lid_table' = n.lids /\ log' = n.log
  BY DEF Becomes
<1>2. n = [hca |-> n.hca, port |-> n.port, sw |-> n.sw, up |-> n.up, down |-> n.down,
           lids |-> n.lids, log |-> n.log]
  BY DEF Fabric
<1> QED
  BY <1>1, <1>2 DEF Now

LEMMA NowFields ==
  ASSUME FabricInv
  PROVE  /\ mode \in Cases /\ Now \in Fabric /\ SmOK
         /\ Now.hca = hca /\ Now.port = port /\ Now.sw = sw /\ Now.up = up
         /\ Now.down = down /\ Now.lids = lid_table /\ Now.log = log
         /\ hca \in HcaS /\ port \in PortS /\ sw \in SwS /\ up \in UpS
         /\ down \in DownS /\ lid_table \in LidS /\ log \in LogS
<1>1. mode \in Cases /\ Now \in Fabric /\ SmOK
  BY DEF FabricInv
<1>2. /\ Now.hca = hca /\ Now.port = port /\ Now.sw = sw /\ Now.up = up
      /\ Now.down = down /\ Now.lids = lid_table /\ Now.log = log
  BY DEF Now
<1>3. /\ Now.hca \in HcaS /\ Now.port \in PortS /\ Now.sw \in SwS /\ Now.up \in UpS
      /\ Now.down \in DownS /\ Now.lids \in LidS /\ Now.log \in LogS
  BY <1>1, FabricFields
<1> QED
  BY <1>1, <1>2, <1>3

(* A device that is loaded, and one that is gone                           *)
LoadedDev(h, b) ==
  [FreshHca(b) EXCEPT !.qps = {q \in QPs : DevOf[QpPort[q]] = h},
                      !.mcast = {q \in mode.members : DevOf[QpPort[q]] = h}]
GoneDev(b) == [FreshHca(0) EXCEPT !.boot = b]
FreshPorts(f, h) == [p \in Guids |-> IF DevOf[p] = h THEN FreshPort ELSE f[p]]

LEMMA FreshHcaType ==
  ASSUME mode \in Cases, NEW h, NEW b \in 0..mode.loads
  PROVE  LET r == FreshHca(b)
         IN /\ r \in HcaRec /\ OfDevice(r, h) /\ (r.up <=> b > 0) /\ r.boot = b
            /\ r.lock = "free" /\ r.ready = None /\ r.mad = <<>> /\ r.mc = None
            /\ r.qps = {} /\ r.mcast = {}
<1> DEFINE u == b > 0
           r == [up |-> u, boot |-> b, lock |-> "free", ready |-> None,
                 mad |-> <<>>, mc |-> None, mcast |-> {}, qps |-> {}]
<1>1. FreshHca(b) = r
  BY Zenon DEF FreshHca
<1>2. u \in BOOLEAN /\ (u <=> b > 0)
  OBVIOUS
<1> HIDE DEF u
<1>3. {} \in SUBSET QPs /\ {} \subseteq {} /\ \A q \in {} : DevOf[QpPort[q]] = h
  OBVIOUS
<1>4. r \in HcaRec /\ OfDevice(r, h)
  BY <1>2, <1>3, FreshDevice
<1>5. r.up = u /\ r.boot = b /\ r.lock = "free" /\ r.ready = None /\ r.mad = <<>>
      /\ r.mc = None /\ r.qps = {} /\ r.mcast = {}
  OBVIOUS
<1> HIDE DEF r
<1> QED
  BY <1>1, <1>2, <1>4, <1>5

LEMMA LoadedDevType ==
  ASSUME mode \in Cases, NEW h, NEW b \in 1..mode.loads
  PROVE  LET r == LoadedDev(h, b)
         IN /\ r \in HcaRec /\ OfDevice(r, h) /\ r.up /\ r.boot = b /\ r.lock = "free"
            /\ r.ready = None /\ r.mad = <<>> /\ r.mc = None
<1> DEFINE y == {q \in QPs : DevOf[QpPort[q]] = h}
           x == {q \in mode.members : DevOf[QpPort[q]] = h}
           z == FreshHca(b)
           r == [z EXCEPT !.qps = y, !.mcast = x]
<1>1. LoadedDev(h, b) = r
  BY Zenon DEF LoadedDev
<1>2. b > 0 /\ b \in 0..mode.loads
  BY ModeFacts
<1>3. x \in SUBSET QPs /\ y \in SUBSET QPs /\ x \subseteq y /\ \A q \in y : DevOf[QpPort[q]] = h
  BY ModeFacts
<1>4. /\ z \in HcaRec /\ OfDevice(z, h) /\ (z.up <=> b > 0) /\ z.boot = b
      /\ z.lock = "free" /\ z.ready = None /\ z.mad = <<>> /\ z.mc = None
  BY <1>2, FreshHcaType
<1> HIDE DEF x, y, z
<1>5. /\ r \in HcaRec /\ OfDevice(r, h) /\ r.up = z.up /\ r.boot = z.boot
      /\ r.lock = z.lock /\ r.ready = z.ready /\ r.mad = z.mad /\ r.mc = z.mc
  <2>1. z \in HcaRec /\ OfDevice(z, h)
    BY <1>4
  <2>2. x \in SUBSET QPs /\ y \in SUBSET QPs /\ x \subseteq y
    BY <1>3
  <2>3. \A q \in y : DevOf[QpPort[q]] = h
    BY <1>3
  <2> QED BY <2>1, <2>2, <2>3 DEF HcaRec, OfDevice
<1> HIDE DEF r
<1> QED
  BY <1>1, <1>2, <1>4, <1>5

LEMMA SetBoot ==
  ASSUME NEW r \in HcaRec, NEW h, OfDevice(r, h), NEW b \in 0..mode.loads, ~r.up
  PROVE  LET s == [r EXCEPT !.boot = b]
         IN /\ s \in HcaRec /\ OfDevice(s, h) /\ s.up = r.up /\ s.boot = b
            /\ s.lock = r.lock /\ s.ready = r.ready /\ s.mad = r.mad /\ s.mc = r.mc
            /\ s.qps = r.qps /\ s.mcast = r.mcast
BY DEF HcaRec, OfDevice

LEMMA GoneDevType ==
  ASSUME mode \in Cases, NEW h, NEW b \in 0..mode.loads
  PROVE  LET r == GoneDev(b)
         IN /\ r \in HcaRec /\ OfDevice(r, h) /\ ~r.up /\ r.boot = b /\ r.lock = "free"
            /\ r.ready = None /\ r.mad = <<>> /\ r.mc = None /\ r.qps = {} /\ r.mcast = {}
<1> DEFINE z == FreshHca(0)
           r == [z EXCEPT !.boot = b]
<1>1. GoneDev(b) = r
  BY Zenon DEF GoneDev
<1>2. 0 \in 0..mode.loads
  BY ModeFacts
<1>3. /\ z \in HcaRec /\ OfDevice(z, h) /\ (z.up <=> 0 > 0)
      /\ z.lock = "free" /\ z.ready = None /\ z.mad = <<>> /\ z.mc = None
      /\ z.qps = {} /\ z.mcast = {}
  BY <1>2, FreshHcaType
<1> HIDE DEF z
<1>4. ~z.up
  BY <1>3
<1>5. /\ r \in HcaRec /\ OfDevice(r, h) /\ r.up = z.up /\ r.boot = b
      /\ r.lock = z.lock /\ r.ready = z.ready /\ r.mad = z.mad /\ r.mc = z.mc
      /\ r.qps = z.qps /\ r.mcast = z.mcast
  BY <1>3, <1>4, SetBoot
<1> HIDE DEF r
<1> QED
  BY <1>1, <1>3, <1>4, <1>5

LEMMA FreshPortsType ==
  ASSUME mode \in Cases, NEW f \in PortS, NEW h
  PROVE  FreshPorts(f, h) \in PortS
<1>1. f \in [Guids -> PortT] /\ FreshPort \in PortT
  BY FreshPortType DEF PortS
<1> QED
  BY <1>1 DEF FreshPorts, PortS

(* The port table of the easy switch when a device comes or goes           *)
EasyPorts(h, b) ==
  [q \in SwPorts |-> IF q \in PortsOf(h) THEN [guid |-> q, addr |-> b] ELSE sw.port[q]]
EasyFree(h) ==
  [q \in SwPorts |-> IF q \in PortsOf(h) THEN FreePort ELSE sw.port[q]]

LEMMA EasyPortsType ==
  ASSUME mode \in Cases, sw \in SwS, ~mode.multi, NEW h, NEW b \in 1..mode.loads
  PROVE  /\ [sw EXCEPT !.port = EasyPorts(h, b)] \in SwS
         /\ [sw EXCEPT !.port = EasyFree(h)] \in SwS
<1> DEFINE P(f) == /\ f \in [SwPorts -> SwPort]
                   /\ \A q \in SwPorts : f[q].guid \in {0, q}
<1>1. /\ sw.port \in [SwPorts -> SwPort] /\ \A q \in SwPorts : sw.port[q].guid \in {0, q}
  BY SwFacts
<1>2. ASSUME NEW f, P(f) PROVE [sw EXCEPT !.port = f] \in SwS
  <2>1. \A q, k \in SwPorts : f[q].guid = f[k].guid /\ q # k => f[q].guid = 0
    BY <1>2
  <2>2. f \in [SwPorts -> SwPort] /\ \A q \in SwPorts : f[q].guid \in {0, q}
    BY <1>2
  <2> HIDE DEF P
  <2>3. sw.easy <=> ~mode.multi
    BY SwFacts
  <2> QED BY <2>1, <2>2 DEF SwS
<1>3. P(EasyPorts(h, b))
  <2>1. \A q \in PortsOf(h) : [guid |-> q, addr |-> b] \in SwPort
    <3>1. \A q \in PortsOf(h) : q \in Guids /\ q # 0
      BY LidFacts DEF PortsOf
    <3>2. b # 0 /\ b \in 0..mode.loads
      BY ModeFacts
    <3> QED BY <3>1, <3>2 DEF SwPort
  <2> QED BY <1>1, <2>1 DEF EasyPorts
<1>4. P(EasyFree(h))
  <2>1. FreePort \in SwPort /\ FreePort.guid = 0
    BY ModeFacts DEF SwPort, FreePort
  <2> QED BY <1>1, <2>1 DEF EasyFree
<1> HIDE DEF P
<1> QED
  BY <1>2, <1>3, <1>4

(* pib_dev_add in multi-host-mode: the device, its ports with their timers *)
(* and a CONNECT for each.                                                 *)
Connects(h, b) ==
  [p \in Guids |-> IF DevOf[p] = h /\ sw.run = "running"
                   THEN Enqueue(up[p], [t |-> "raw", cmd |-> "CONNECT", guid |-> p,
                                        addr |-> b, boot |-> 0, via |-> 0])
                   ELSE up[p]]
AddDone(h) ==
  LET b == hca[h].boot + 1
  IN /\ ~hca[h].up /\ b \in 1..mode.loads
     /\ hca' = [hca EXCEPT ![h] = LoadedDev(h, b)]
     /\ down' = down /\ lid_table' = lid_table /\ log' = log
     /\ \/ /\ mode.multi /\ sw' = sw /\ up' = Connects(h, b)
           /\ port' = [p \in Guids |-> IF DevOf[p] = h
                                       THEN [FreshPort EXCEPT !.work = TRUE] ELSE port[p]]
        \/ /\ ~mode.multi /\ up' = up /\ port' = FreshPorts(port, h)
           /\ sw' = [sw EXCEPT !.port = EasyPorts(h, b)]

LEMMA AddDoes ==
  ASSUME FabricInv, NEW h \in Hosts, pib_dev_add(h)
  PROVE  Now' \in Fabric /\ AddDone(h) /\ mode' = mode /\ sm' = sm
<1> DEFINE b == hca[h].boot + 1
           x == LoadedDev(h, b)
           f == FreshPorts(port, h)
           n == [Now EXCEPT !.hca[h] = x, !.port = f]
<1>1. /\ mode' = mode /\ sm' = sm /\ ~hca[h].up /\ hca[h].boot < mode.loads
      /\ Becomes(PortsUp(n, h))
  BY DEF pib_dev_add, LoadedDev, FreshPorts, Now
<1>2. /\ mode \in Cases /\ Now \in Fabric
      /\ Now.hca = hca /\ Now.port = port /\ Now.sw = sw /\ Now.up = up
      /\ Now.down = down /\ Now.lids = lid_table /\ Now.log = log
      /\ hca \in HcaS /\ port \in PortS /\ sw \in SwS /\ up \in UpS
  BY NowFields
<1>3. hca[h] \in HcaRec /\ hca[h].boot \in 0..mode.loads
  BY <1>2, HcaFacts DEF HcaRec
<1>4. b \in 1..mode.loads /\ b > 0
  BY <1>1, <1>2, <1>3, ModeFacts
<1>5. x \in HcaRec /\ OfDevice(x, h) /\ x.boot = b
  BY <1>2, <1>4, LoadedDevType
<1>6. f \in PortS
  BY <1>2, FreshPortsType
<1>7. hca \in [Hosts -> HcaRec]
  BY <1>2, HcaFacts
<1> DEFINE u == [hca EXCEPT ![h] = x]
<1>8. u \in HcaS /\ u[h] = x
  <2> HIDE DEF x
  <2> QED BY <1>2, <1>5, <1>7, HcaPut
<1> HIDE DEF x, f, b
<1>9. n = [Now EXCEPT !.hca = u, !.port = f]
  BY <1>2 DEF Fabric
<1> HIDE DEF u
<1>10. /\ n \in Fabric /\ n.hca = u /\ n.port = f /\ n.sw = sw /\ n.up = up
       /\ n.down = down /\ n.lids = lid_table /\ n.log = log
  <2> HIDE DEF n
  <2>1. n \in Fabric
    BY <1>2, <1>6, <1>8, <1>9 DEF Fabric
  <2> QED BY <1>2, <1>9, <2>1 DEF Fabric
<1> HIDE DEF n
<1>11. CASE mode.multi
  <2> DEFINE g == [p \in Guids |-> IF DevOf[p] = h THEN [f[p] EXCEPT !.work = TRUE] ELSE f[p]]
             c == Commands(n, h, "CONNECT")
             v == [n EXCEPT !.port = g, !.up = c]
  <2>1. PortsUp(n, h) = v
    BY <1>10, <1>11, PortsUpMulti
  <2>2. c \in UpS
    <3>1. n.hca[h].boot > 0
      BY <1>4, <1>5, <1>8, <1>10
    <3> QED BY <1>2, <1>10, <1>11, <3>1, CommandsType
  <2>3. c = Connects(h, b)
    <3>1. \A p \in Guids : DevOf[p] = h => n.hca[DevOf[p]].boot = b
      BY <1>5, <1>8, <1>10
    <3>2. \A p \in Guids : DevOf[p] = h =>
            RawOf(n, p, "CONNECT") = [t |-> "raw", cmd |-> "CONNECT", guid |-> p,
                                      addr |-> b, boot |-> 0, via |-> 0]
      BY <3>1 DEF RawOf
    <3> QED BY <1>10, <3>2 DEF Commands, Connects
  <2>4. g = [p \in Guids |-> IF DevOf[p] = h THEN [FreshPort EXCEPT !.work = TRUE] ELSE port[p]]
    <3>1. \A p \in Guids : f[p] = IF DevOf[p] = h THEN FreshPort ELSE port[p]
      BY DEF f, FreshPorts
    <3> QED BY <3>1
  <2>5. g \in PortS
    <3>1. ASSUME NEW r \in PortT PROVE [r EXCEPT !.work = TRUE] \in PortT
      BY <1>11 DEF PortT
    <3>2. f \in [Guids -> PortT]
      BY <1>6 DEF PortS
    <3> QED BY <3>1, <3>2 DEF PortS
  <2> HIDE DEF g, c
  <2>6. /\ v \in Fabric /\ v.hca = u /\ v.port = g /\ v.sw = sw /\ v.up = c
        /\ v.down = down /\ v.lids = lid_table /\ v.log = log
    BY <1>10, <2>2, <2>5 DEF Fabric
  <2> HIDE DEF v
  <2>7. /\ Now' = v
        /\ hca' = v.hca /\ port' = v.port /\ sw' = v.sw /\ up' = v.up
        /\ down' = v.down /\ lid_table' = v.lids /\ log' = v.log
    BY <1>1, <2>1, <2>6, BecomesDoes
  <2> QED BY <1>1, <1>4, <1>11, <2>3, <2>4, <2>6, <2>7 DEF AddDone, b, u, x
<1>12. CASE ~mode.multi
  <2> DEFINE e == EasyPorts(h, b)
             s == [sw EXCEPT !.port = e]
             v == [n EXCEPT !.sw = s]
  <2>1. PortsUp(n, h) = v
    <3>1. PortsUp(n, h) = [n EXCEPT !.sw.port = [q \in SwPorts |->
            IF q \in PortsOf(h) THEN [guid |-> q, addr |-> n.hca[h].boot] ELSE n.sw.port[q]]]
      BY <1>10, <1>12, PortsUpSingle
    <3>2. n.hca[h].boot = b
      BY <1>5, <1>8, <1>10
    <3> DEFINE y == [q \in SwPorts |->
            IF q \in PortsOf(h) THEN [guid |-> q, addr |-> n.hca[h].boot] ELSE n.sw.port[q]]
    <3>3. y = e
      BY <1>10, <3>2 DEF EasyPorts
    <3> HIDE DEF y, e
    <3>4. [n EXCEPT !.sw.port = e] = v
      BY <1>10 DEF Fabric
    <3> QED BY <3>1, <3>3, <3>4 DEF y
  <2>2. s \in SwS
    BY <1>2, <1>4, <1>12, EasyPortsType
  <2> HIDE DEF s
  <2>3. /\ v \in Fabric /\ v.hca = u /\ v.port = f /\ v.sw = s /\ v.up = up
        /\ v.down = down /\ v.lids = lid_table /\ v.log = log
    BY <1>10, <2>2 DEF Fabric
  <2> HIDE DEF v
  <2>4. /\ Now' = v
        /\ hca' = v.hca /\ port' = v.port /\ sw' = v.sw /\ up' = v.up
        /\ down' = v.down /\ lid_table' = v.lids /\ log' = v.log
    BY <1>1, <2>1, <2>3, BecomesDoes
  <2> QED BY <1>1, <1>4, <1>12, <2>3, <2>4 DEF AddDone, b, u, x, s, f
<1> QED
  BY <1>11, <1>12

(* pib_dev_remove, and Crash, which frees nothing                          *)
Cleared(h) == [p \in Guids |-> IF DevOf[p] = h THEN <<>> ELSE down[p]]
Disconnects(h) ==
  [p \in Guids |-> IF DevOf[p] = h /\ sw.run = "running"
                   THEN Enqueue(up[p], [t |-> "raw", cmd |-> "DISCONNECT", guid |-> p,
                                        addr |-> hca[h].boot, boot |-> 0, via |-> 0])
                   ELSE up[p]]
GoneDone(h) ==
  /\ hca[h].up
  /\ hca' = [hca EXCEPT ![h] = GoneDev(hca[h].boot)]
  /\ port' = FreshPorts(port, h) /\ down' = Cleared(h) /\ lid_table' = lid_table
RemoveDone(h) ==
  /\ GoneDone(h) /\ log' = [log EXCEPT !.freed = TRUE]
  /\ \/ mode.multi /\ sw' = sw /\ up' = Disconnects(h)
     \/ ~mode.multi /\ up' = up /\ sw' = [sw EXCEPT !.port = EasyFree(h)]
CrashDone(h) ==
  /\ GoneDone(h) /\ mode.multi /\ log' = log /\ sw' = sw /\ up' = up

(* What is left when the sockets of h are closed, ports and log included   *)
GoneNet(n, h, g) ==
  [n EXCEPT !.hca = [n.hca EXCEPT ![h] = GoneDev(n.hca[h].boot)],
            !.port = FreshPorts(n.port, h),
            !.down = [p \in Guids |-> IF DevOf[p] = h THEN <<>> ELSE n.down[p]],
            !.log = g]

LEMMA GoneNetDoes ==
  ASSUME mode \in Cases, NEW n \in Fabric, NEW h \in Hosts, NEW g \in LogS
  PROVE  LET r == GoneNet(n, h, g)
         IN /\ r \in Fabric /\ r.hca = [n.hca EXCEPT ![h] = GoneDev(n.hca[h].boot)]
            /\ r.port = FreshPorts(n.port, h) /\ r.sw = n.sw /\ r.up = n.up
            /\ r.down = [p \in Guids |-> IF DevOf[p] = h THEN <<>> ELSE n.down[p]]
            /\ r.lids = n.lids /\ r.log = g
<1> DEFINE f == FreshPorts(n.port, h)
           b == n.hca[h].boot
           u == [n.hca EXCEPT ![h] = GoneDev(b)]
           c == [p \in Guids |-> IF DevOf[p] = h THEN <<>> ELSE n.down[p]]
           w == [n EXCEPT !.hca = u, !.port = f, !.down = c, !.log = g]
<1>1. f \in PortS /\ c \in DownS
  BY FabricFields, FreshPortsType, DownNone
<1>2. b \in 0..mode.loads /\ n.hca \in HcaS
  BY FabricFields, HcaFacts DEF HcaRec
<1>3. u \in HcaS
  <2>1. GoneDev(b) \in HcaRec /\ OfDevice(GoneDev(b), h)
    BY <1>2, GoneDevType
  <2> QED BY <1>2, <2>1, HcaPut
<1>4. GoneNet(n, h, g) = w
  BY DEF GoneNet
<1> HIDE DEF f, c, u
<1>5. /\ w \in Fabric /\ w.hca = u /\ w.port = f /\ w.sw = n.sw /\ w.up = n.up
      /\ w.down = c /\ w.lids = n.lids /\ w.log = g
  BY <1>1, <1>3 DEF Fabric
<1> HIDE DEF w
<1> QED
  BY <1>4, <1>5 DEF f, c, u, b

LEMMA ClosedIs ==
  ASSUME NEW n \in Fabric, NEW h \in Hosts
  PROVE  /\ [Closed(n, h) EXCEPT !.port = [p \in Guids |-> IF DevOf[p] = h THEN FreshPort ELSE @[p]]]
              = GoneNet(n, h, n.log)
         /\ [Closed(n, h) EXCEPT !.log.freed = TRUE,
                                 !.port = [p \in Guids |-> IF DevOf[p] = h THEN FreshPort ELSE @[p]]]
              = GoneNet(n, h, [n.log EXCEPT !.freed = TRUE])
<1> DEFINE f == FreshPorts(n.port, h)
           u == [n.hca EXCEPT ![h] = GoneDev(n.hca[h].boot)]
           c == [p \in Guids |-> IF DevOf[p] = h THEN <<>> ELSE n.down[p]]
           g == [n.log EXCEPT !.freed = TRUE]
           m == [n EXCEPT !.down = c, !.hca = u]
<1>1. Closed(n, h) = m
  BY DEF Closed, GoneDev, Fabric
<1>2. GoneNet(n, h, n.log) = [n EXCEPT !.hca = u, !.port = f, !.down = c, !.log = n.log]
  BY DEF GoneNet
<1>3. GoneNet(n, h, g) = [n EXCEPT !.hca = u, !.port = f, !.down = c, !.log = g]
  BY DEF GoneNet
<1>4. m.port = n.port /\ m.log = n.log
  <2> HIDE DEF c, u
  <2> QED BY DEF Fabric
<1>5. [m EXCEPT !.port = [p \in Guids |-> IF DevOf[p] = h THEN FreshPort ELSE @[p]]]
        = [m EXCEPT !.port = f]
  <2> HIDE DEF m
  <2> QED BY <1>4 DEF FreshPorts
<1>6. [m EXCEPT !.log.freed = TRUE,
                !.port = [p \in Guids |-> IF DevOf[p] = h THEN FreshPort ELSE @[p]]]
        = [m EXCEPT !.log = g, !.port = f]
  <2> DEFINE k == [m EXCEPT !.log = g]
  <2>1. [m EXCEPT !.log.freed = TRUE] = k
    <3> HIDE DEF m
    <3> QED BY <1>4
  <2>2. k.port = n.port
    <3> HIDE DEF c, u, g
    <3> QED BY DEF Fabric
  <2>3. [k EXCEPT !.port = [p \in Guids |-> IF DevOf[p] = h THEN FreshPort ELSE k.port[p]]]
          = [k EXCEPT !.port = f]
    <3> HIDE DEF k
    <3> QED BY <2>2 DEF FreshPorts
  <2> HIDE DEF m, f, g
  <2> QED BY <2>1, <2>3 DEF g
<1> HIDE DEF f, u, c
<1>7. [m EXCEPT !.port = f] = [n EXCEPT !.hca = u, !.port = f, !.down = c, !.log = n.log]
  BY DEF Fabric
<1>8. [m EXCEPT !.log = g, !.port = f] = [n EXCEPT !.hca = u, !.port = f, !.down = c, !.log = g]
  <2> HIDE DEF g
  <2> QED BY DEF Fabric
<1> HIDE DEF m, g
<1> QED
  BY <1>1, <1>2, <1>3, <1>5, <1>6, <1>7, <1>8 DEF g

LEMMA CrashDoes ==
  ASSUME FabricInv, NEW h \in Hosts, Crash(h)
  PROVE  Now' \in Fabric /\ CrashDone(h) /\ mode' = mode /\ sm' = sm
<1> DEFINE r == GoneNet(Now, h, Now.log)
<1>1. /\ mode \in Cases /\ Now \in Fabric
      /\ Now.hca = hca /\ Now.port = port /\ Now.sw = sw /\ Now.up = up
      /\ Now.down = down /\ Now.lids = lid_table /\ Now.log = log /\ log \in LogS
  BY NowFields
<1>2. /\ r \in Fabric /\ r.hca = [Now.hca EXCEPT ![h] = GoneDev(Now.hca[h].boot)]
      /\ r.port = FreshPorts(Now.port, h) /\ r.sw = Now.sw /\ r.up = Now.up
      /\ r.down = [p \in Guids |-> IF DevOf[p] = h THEN <<>> ELSE Now.down[p]]
      /\ r.lids = Now.lids /\ r.log = Now.log
  BY <1>1, GoneNetDoes
<1>3. /\ mode' = mode /\ sm' = sm /\ hca[h].up /\ mode.multi
      /\ Becomes([Closed(Now, h) EXCEPT !.port =
                    [p \in Guids |-> IF DevOf[p] = h THEN FreshPort ELSE @[p]]])
  BY DEF Crash
<1>4. Becomes(r)
  BY <1>1, <1>3, ClosedIs
<1> HIDE DEF r
<1>5. /\ Now' = r
      /\ hca' = r.hca /\ port' = r.port /\ sw' = r.sw /\ up' = r.up
      /\ down' = r.down /\ lid_table' = r.lids /\ log' = r.log
  BY <1>2, <1>4, BecomesDoes
<1> QED
  BY <1>1, <1>2, <1>3, <1>5 DEF CrashDone, GoneDone, Cleared

LEMMA RemoveDoes ==
  ASSUME FabricInv, NEW h \in Hosts, pib_dev_remove(h)
  PROVE  Now' \in Fabric /\ RemoveDone(h) /\ mode' = mode /\ sm' = sm
<1> DEFINE n == PortsDown(Now, h)
           g == [n.log EXCEPT !.freed = TRUE]
           r == GoneNet(n, h, g)
<1>1. /\ mode \in Cases /\ Now \in Fabric
      /\ Now.hca = hca /\ Now.port = port /\ Now.sw = sw /\ Now.up = up
      /\ Now.down = down /\ Now.lids = lid_table /\ Now.log = log
      /\ log \in LogS /\ sw \in SwS /\ hca \in HcaS /\ port \in PortS
  BY NowFields
<1>2. /\ mode' = mode /\ sm' = sm /\ hca[h].up
      /\ Becomes([Closed(n, h) EXCEPT !.log.freed = TRUE, !.port =
                    [p \in Guids |-> IF DevOf[p] = h THEN FreshPort ELSE @[p]]])
  BY DEF pib_dev_remove, Idle
<1>3. hca[h].boot \in 1..mode.loads
  <2>1. hca[h] \in HcaRec
    BY <1>1, HcaFacts
  <2>2. hca[h].boot \in 0..mode.loads /\ hca[h].boot > 0
    BY <1>2, <2>1 DEF HcaRec
  <2> QED BY <1>1, <2>2, ModeFacts
<1> DEFINE Good(m) == /\ m \in Fabric /\ m.hca = hca /\ m.down = down /\ m.lids = lid_table
                      /\ m.log = log /\ FreshPorts(m.port, h) = FreshPorts(port, h)
                      /\ \/ mode.multi /\ m.sw = sw /\ m.up = Disconnects(h)
                         \/ ~mode.multi /\ m.up = up /\ m.sw = [sw EXCEPT !.port = EasyFree(h)]
<1>4. ASSUME mode.multi PROVE Good(n)
  <2> DEFINE c == Commands(Now, h, "DISCONNECT")
  <2>1. PICK f : /\ PortsDown(Now, h) = [Now EXCEPT !.port = f, !.up = c]
                 /\ f \in PortS /\ \A p \in Guids : DevOf[p] # h => f[p] = Now.port[p]
    BY <1>1, <1>4, PortsDownMulti, Zenon
  <2>2. c \in UpS
    BY <1>1, <1>3, <1>4, CommandsType
  <2>3. c = Disconnects(h)
    <3>1. \A p \in Guids : DevOf[p] = h =>
            RawOf(Now, p, "DISCONNECT") = [t |-> "raw", cmd |-> "DISCONNECT", guid |-> p,
                                      addr |-> hca[h].boot, boot |-> 0, via |-> 0]
      BY <1>1 DEF RawOf
    <3> QED BY <1>1, <3>1 DEF Commands, Disconnects
  <2>4. FreshPorts(f, h) = FreshPorts(port, h)
    BY <1>1, <2>1 DEF FreshPorts
  <2> HIDE DEF c
  <2> DEFINE k == [Now EXCEPT !.port = f, !.up = c]
  <2>5. /\ k \in Fabric /\ k.hca = hca /\ k.down = down /\ k.lids = lid_table
        /\ k.log = log /\ k.port = f /\ k.sw = sw /\ k.up = c
    BY <1>1, <2>1, <2>2 DEF Fabric
  <2> HIDE DEF k
  <2>6. Good(k)
    BY <1>4, <2>3, <2>4, <2>5
  <2> HIDE DEF Good
  <2> QED BY <2>1, <2>6 DEF k, n
<1>5. ASSUME ~mode.multi PROVE Good(n)
  <2> DEFINE s == [sw EXCEPT !.port = EasyFree(h)]
             k == [Now EXCEPT !.sw = s]
  <2>1. PortsDown(Now, h) = k
    <3>1. PortsDown(Now, h) = [Now EXCEPT !.sw.port = [q \in SwPorts |->
             IF q \in PortsOf(h) THEN FreePort ELSE Now.sw.port[q]]]
      BY <1>1, <1>5, PortsDownSingle
    <3>2. [q \in SwPorts |-> IF q \in PortsOf(h) THEN FreePort ELSE Now.sw.port[q]]
            = EasyFree(h)
      BY <1>1 DEF EasyFree
    <3>3. [Now EXCEPT !.sw.port = EasyFree(h)] = k
      BY <1>1
    <3> QED BY <3>1, <3>2, <3>3
  <2>2. s \in SwS
    BY <1>1, <1>3, <1>5, EasyPortsType
  <2> HIDE DEF s
  <2>3. /\ k \in Fabric /\ k.hca = hca /\ k.down = down /\ k.lids = lid_table
        /\ k.log = log /\ k.port = port /\ k.sw = s /\ k.up = up
    BY <1>1, <2>2 DEF Fabric
  <2> HIDE DEF k
  <2>4. Good(k)
    BY <1>5, <2>3 DEF s
  <2> HIDE DEF Good
  <2> QED BY <2>1, <2>4 DEF n
<1>6. Good(n)
  BY <1>4, <1>5
<1> HIDE DEF n
<1>7. g \in LogS
  <2> DEFINE l == n.log
  <2>1. l \in LogS
    BY <1>1, <1>6
  <2> HIDE DEF l
  <2>2. [l EXCEPT !.freed = TRUE] \in LogS
    BY <2>1 DEF LogS
  <2> QED BY <2>2 DEF l
<1>8. Becomes(r)
  BY <1>2, <1>6, ClosedIs
<1>9. g = [log EXCEPT !.freed = TRUE]
  BY <1>6
<1> HIDE DEF g
<1>10. /\ r \in Fabric /\ r.hca = [n.hca EXCEPT ![h] = GoneDev(n.hca[h].boot)]
       /\ r.port = FreshPorts(n.port, h) /\ r.sw = n.sw /\ r.up = n.up
       /\ r.down = [p \in Guids |-> IF DevOf[p] = h THEN <<>> ELSE n.down[p]]
       /\ r.lids = n.lids /\ r.log = g
  BY <1>1, <1>6, <1>7, GoneNetDoes
<1> HIDE DEF r
<1>11. /\ Now' = r
       /\ hca' = r.hca /\ port' = r.port /\ sw' = r.sw /\ up' = r.up
       /\ down' = r.down /\ lid_table' = r.lids /\ log' = r.log
  BY <1>8, <1>10, BecomesDoes
<1>12. GoneDone(h)
  BY <1>2, <1>6, <1>10, <1>11 DEF GoneDone, Cleared
<1> QED
  BY <1>2, <1>6, <1>9, <1>10, <1>11, <1>12 DEF RemoveDone

(* A datagram is taken from the receive buffer of a port.                  *)
Popped(p) == [Now EXCEPT !.down[p] = Tail(@)]

LEMMA PoppedType ==
  ASSUME FabricInv, NEW p \in Guids, down[p] # <<>>
  PROVE  LET n == Popped(p)
         IN /\ n \in Fabric /\ n.hca = hca /\ n.port = port /\ n.sw = sw /\ n.up = up
            /\ n.down = [down EXCEPT ![p] = Tail(down[p])] /\ n.lids = lid_table /\ n.log = log
            /\ Head(down[p]) \in Came
<1> DEFINE u == [down EXCEPT ![p] = Tail(down[p])]
<1>1. /\ mode \in Cases /\ Now \in Fabric
      /\ Now.hca = hca /\ Now.port = port /\ Now.sw = sw /\ Now.up = up
      /\ Now.down = down /\ Now.lids = lid_table /\ Now.log = log /\ down \in DownS
  BY NowFields
<1>2. u \in DownS /\ Head(down[p]) \in Came
  BY <1>1, DownPop
<1>3. Popped(p) = [Now EXCEPT !.down = u]
  BY <1>1 DEF Popped
<1> HIDE DEF u
<1>4. LET n == [Now EXCEPT !.down = u]
      IN /\ n \in Fabric /\ n.hca = Now.hca /\ n.port = Now.port /\ n.sw = Now.sw
         /\ n.up = Now.up /\ n.down = u /\ n.lids = Now.lids /\ n.log = Now.log
  BY <1>1, <1>2 DEF Fabric
<1> QED
  BY <1>1, <1>2, <1>3, <1>4 DEF u

LEMMA HcaReceiveDoes ==
  ASSUME FabricInv, NEW p \in Guids, HcaReceive(p)
  PROVE  /\ down[p] # <<>> /\ hca[DevOf[p]].up /\ hca[DevOf[p]].mc = None
         /\ Head(down[p]).t # "raw" => Popped(p).hca[DevOf[p]].lock = "free"
         /\ Now' = process_incoming_message(Popped(p), DevOf[p], p, Head(down[p]))
         /\ Now' \in Fabric /\ mode' = mode /\ sm' = sm
<1> DEFINE h == DevOf[p]
           d == Head(down[p])
           r == process_incoming_message(Popped(p), h, p, d)
<1>1. /\ down[p] # <<>> /\ mode' = mode /\ sm' = sm /\ Becomes(r)
      /\ hca[DevOf[p]].up /\ hca[DevOf[p]].mc = None
  BY DEF HcaReceive, Popped
<1>5. d.t # "raw" => Popped(p).hca[h].lock = "free"
  BY DEF HcaReceive, Popped, Now
<1>2. Popped(p) \in Fabric /\ d \in Came
  BY <1>1, PoppedType
<1>3. h \in Hosts /\ mode \in Cases
  BY NetFacts, NowFields
<1>4. r \in Fabric
  <2> HIDE DEF h, d
  <2> QED BY <1>2, <1>3, <1>5, IncomingDoes DEF h
<1> HIDE DEF r
<1> QED
  BY <1>1, <1>4, <1>5, BecomesDoes DEF r

LEMMA MulticastDoes ==
  ASSUME FabricInv, NEW h \in Hosts, DeliverMulticast(h)
  PROVE  LET mc == hca[h].mc
         IN /\ mc \in Copying /\ DevOf[mc.port] = h /\ hca[h].lock = "free"
            /\ \/ mc.qpns = {} /\ Now' = SetCopies(Now, h, None)
               \/ \E qpn \in mc.qpns :
                    Now' = process_incoming_message_per_qp(
                             SetCopies(Now, h, [mc EXCEPT !.qpns = @ \ {qpn}]),
                             h, mc.port, qpn, mc.d)
            /\ \A qpn : /\ [mc EXCEPT !.qpns = @ \ {qpn}] \in Copying
                        /\ SetCopies(Now, h, [mc EXCEPT !.qpns = @ \ {qpn}]) \in Fabric
                        /\ SetCopies(Now, h, [mc EXCEPT !.qpns = @ \ {qpn}]).hca[h].lock = "free"
            /\ Now' \in Fabric /\ mode' = mode /\ sm' = sm
<1> DEFINE mc == hca[h].mc
           M(qpn) == [mc EXCEPT !.qpns = @ \ {qpn}]
<1>1. mc # None /\ hca[h].lock = "free" /\ mode' = mode /\ sm' = sm
  BY DEF DeliverMulticast
<1>2. /\ mode \in Cases /\ Now \in Fabric /\ Now.hca = hca /\ hca \in HcaS
  BY NowFields
<1>3. hca[h] \in HcaRec /\ OfDevice(hca[h], h) /\ hca \in [Hosts -> HcaRec]
  BY <1>2, HcaFacts
<1>4. mc \in Copying /\ DevOf[mc.port] = h
  BY <1>1, <1>3 DEF HcaRec, OfDevice
<1>5. mc.port \in Guids /\ mc.d \in Wire
  BY <1>4 DEF Copying, Group
<1>6. ASSUME NEW qpn
      PROVE  M(qpn) \in Copying /\ M(qpn) # None /\ M(qpn).port = mc.port
  <2> HIDE DEF mc
  <2> QED BY <1>4 DEF Copying, None
<1> HIDE DEF mc
<1>7. ASSUME NEW qpn
      PROVE  /\ SetCopies(Now, h, M(qpn)) \in Fabric
             /\ SetCopies(Now, h, M(qpn)).hca[h].lock = "free"
  <2> DEFINE x == M(qpn)
  <2>1. x \in {None} \cup Copying /\ (x # None => DevOf[x.port] = h)
    BY <1>4, <1>6
  <2> HIDE DEF x
  <2>2. /\ SetCopies(Now, h, x) \in Fabric
        /\ SetCopies(Now, h, x) = [Now EXCEPT !.hca = [hca EXCEPT ![h] = [hca[h] EXCEPT !.mc = x]]]
    BY <1>2, <2>1, SetCopiesDoes
  <2>3. [hca[h] EXCEPT !.mc = x].lock = "free"
    BY <1>1, <1>3 DEF HcaRec
  <2>4. SetCopies(Now, h, x).hca[h] = [hca[h] EXCEPT !.mc = x]
    BY <1>2, <1>3, <2>2 DEF Fabric
  <2> QED BY <2>2, <2>3, <2>4 DEF x
<1>8. SetCopies(Now, h, None) \in Fabric
  BY <1>2, SetCopiesDoes
<1>9. \A qpn : process_incoming_message_per_qp(SetCopies(Now, h, M(qpn)), h, mc.port, qpn, mc.d) \in Fabric
  <2> HIDE DEF M
  <2> QED BY <1>2, <1>5, <1>7, PerQpDoes
<1>10. \/ mc.qpns = {} /\ Becomes(SetCopies(Now, h, None))
       \/ \E qpn \in mc.qpns :
            Becomes(process_incoming_message_per_qp(
                      SetCopies(Now, h, M(qpn)), h, mc.port, qpn, mc.d))
  <2>1. \A qpn : [Now EXCEPT !.hca[h].mc.qpns = @ \ {qpn}] = SetCopies(Now, h, M(qpn))
    BY <1>2, <1>3 DEF SetCopies, mc
  <2>2. [Now EXCEPT !.hca[h].mc = None] = SetCopies(Now, h, None)
    BY DEF SetCopies
  <2>3. CASE mc.qpns = {}
    <3>1. Becomes([Now EXCEPT !.hca[h].mc = None])
      BY <2>3 DEF DeliverMulticast, mc
    <3> QED BY <2>2, <2>3, <3>1
  <2>4. CASE mc.qpns # {}
    <3>1. PICK qpn \in mc.qpns :
             Becomes(process_incoming_message_per_qp(
               [Now EXCEPT !.hca[h].mc.qpns = @ \ {qpn}], h, mc.port, qpn, mc.d))
      BY <2>4 DEF DeliverMulticast, mc
    <3>2. [Now EXCEPT !.hca[h].mc.qpns = @ \ {qpn}] = SetCopies(Now, h, M(qpn))
      BY <2>1
    <3> HIDE DEF M
    <3> QED BY <3>1, <3>2
  <2> QED BY <2>3, <2>4
<1>11. \/ mc.qpns = {} /\ Now' = SetCopies(Now, h, None) /\ Now' \in Fabric
       \/ \E qpn \in mc.qpns :
            /\ Now' = process_incoming_message_per_qp(
                        SetCopies(Now, h, M(qpn)), h, mc.port, qpn, mc.d)
            /\ Now' \in Fabric
  <2> HIDE DEF M
  <2>1. CASE mc.qpns = {} /\ Becomes(SetCopies(Now, h, None))
    BY <1>8, <2>1, BecomesDoes
  <2>2. CASE \E qpn \in mc.qpns :
            Becomes(process_incoming_message_per_qp(
                      SetCopies(Now, h, M(qpn)), h, mc.port, qpn, mc.d))
    <3>1. PICK qpn \in mc.qpns :
            Becomes(process_incoming_message_per_qp(
                      SetCopies(Now, h, M(qpn)), h, mc.port, qpn, mc.d))
      BY <2>2
    <3> DEFINE r == process_incoming_message_per_qp(
                      SetCopies(Now, h, M(qpn)), h, mc.port, qpn, mc.d)
    <3>2. r \in Fabric
      BY <1>9
    <3> HIDE DEF r
    <3>3. Now' = r
      BY <3>1, <3>2, BecomesDoes DEF r
    <3> QED BY <3>2, <3>3 DEF r
  <2> QED BY <1>10, <2>1, <2>2
<1> QED
  BY <1>1, <1>4, <1>6, <1>7, <1>11 DEF mc

(* The timer of a port, in multi-host-mode only                            *)
Rearmed(p) ==
  LET early == up[p] \o down[p] # <<>>
  IN [Now EXCEPT !.port[p].work = FALSE, !.log.faults = IF early THEN @ + 1 ELSE @]

LEMMA RearmedType ==
  ASSUME FabricInv, NEW p \in Guids
  PROVE  LET n == Rearmed(p)
         IN /\ n \in Fabric /\ n.hca = hca /\ n.sw = sw /\ n.up = up /\ n.down = down
            /\ n.lids = lid_table /\ n.log = [log EXCEPT !.faults = n.log.faults]
            /\ n.port = [port EXCEPT ![p] = [port[p] EXCEPT !.work = FALSE]]
<1> DEFINE a == IF up[p] \o down[p] # <<>> THEN log.faults + 1 ELSE log.faults
           g == [log EXCEPT !.faults = a]
           f == [port EXCEPT ![p] = [port[p] EXCEPT !.work = FALSE]]
           n == Rearmed(p)
<1>1. /\ mode \in Cases /\ Now \in Fabric
      /\ Now.hca = hca /\ Now.port = port /\ Now.sw = sw /\ Now.up = up
      /\ Now.down = down /\ Now.lids = lid_table /\ Now.log = log /\ log \in LogS /\ port \in PortS
  BY NowFields
<1>2. n = [Now EXCEPT !.port = f, !.log = g]
  BY <1>1 DEF Rearmed, Fabric
<1>3. a \in Nat
  BY <1>1 DEF LogS
<1> HIDE DEF a
<1>4. g \in LogS /\ g.faults = a
  BY <1>1, <1>3 DEF LogS
<1>5. f \in PortS
  <2>1. ASSUME NEW r \in PortT PROVE [r EXCEPT !.work = FALSE] \in PortT
    BY DEF PortT
  <2> QED BY <1>1, <2>1 DEF PortS
<1> HIDE DEF f, n
<1>6. /\ n \in Fabric /\ n.hca = hca /\ n.sw = sw /\ n.up = up /\ n.down = down
      /\ n.lids = lid_table /\ n.log = g /\ n.port = f
  <2> HIDE DEF g
  <2> QED BY <1>1, <1>2, <1>4, <1>5 DEF Fabric
<1>7. n.log = [log EXCEPT !.faults = n.log.faults]
  BY <1>4, <1>6
<1> QED
  BY <1>6, <1>7 DEF n, f

LEMMA ConnectIs ==
  ASSUME mode \in Cases, mode.multi, NEW n \in Fabric, NEW p \in Guids, n.hca[DevOf[p]].boot > 0
  PROVE  LET s == ToSwitch(Buffer(n, DevOf[p], None), p, RawOf(n, p, "CONNECT"))
             r == connect_pibnetd(n, p)
         IN /\ s \in Fabric /\ r \in Fabric
            /\ r = [s EXCEPT !.port[p] = [s.port[p] EXCEPT !.work = TRUE]]
<1> DEFINE b == Buffer(n, DevOf[p], None)
           d == RawOf(n, p, "CONNECT")
           s == ToSwitch(b, p, d)
           e == [s.port[p] EXCEPT !.work = TRUE]
           r == connect_pibnetd(n, p)
<1>1. b \in Fabric
  BY NetFacts, BufferType
<1>2. d \in Sent /\ d.guid = p
  BY RawOfType DEF Sent
<1>3. send_raw_packet_to_pibnetd(n, p, "CONNECT") = s
  BY SendRaw
<1> HIDE DEF b, d
<1>4. s \in Fabric
  BY <1>1, <1>2, ToSwitchType
<1>5. r = [s EXCEPT !.port[p].work = TRUE]
  BY <1>3 DEF connect_pibnetd
<1> HIDE DEF s
<1>6. r = [s EXCEPT !.port[p] = e]
  BY <1>5
<1>7. e \in PortT
  <2> DEFINE x == s.port[p]
  <2>1. x \in PortT
    BY <1>4, FabricFields DEF PortS
  <2> HIDE DEF x
  <2>2. [x EXCEPT !.work = TRUE] \in PortT
    BY <2>1 DEF PortT
  <2> QED BY <2>2 DEF x
<1> HIDE DEF e
<1>8. [s EXCEPT !.port[p] = e] \in Fabric
  BY <1>4, <1>7, SetPort
<1> QED
  BY <1>4, <1>6, <1>8 DEF s, e, b, d

LEMMA TimerDoes ==
  ASSUME FabricInv, NEW p \in Guids, pib_netd_comm_handler(p)
  PROVE  /\ mode.multi /\ hca[DevOf[p]].up
         /\ \/ port[p].state # IB_PORT_DOWN /\ Now' = Rearmed(p)
            \/ port[p].state = IB_PORT_DOWN /\ Now' = connect_pibnetd(Rearmed(p), p)
         /\ Now' \in Fabric /\ mode' = mode /\ sm' = sm
<1> DEFINE n == Rearmed(p)
<1>1. /\ hca[DevOf[p]].up /\ port[p].work /\ mode' = mode /\ sm' = sm
      /\ Becomes(IF port[p].state = IB_PORT_DOWN THEN connect_pibnetd(n, p) ELSE n)
  BY DEF pib_netd_comm_handler, Idle, Rearmed
<1>2. n \in Fabric /\ n.hca = hca
  BY RearmedType
<1>3. mode \in Cases /\ port \in PortS /\ hca \in HcaS
  BY NowFields
<1>4. mode.multi
  <2>1. port[p] \in PortT
    BY <1>3 DEF PortS
  <2> QED BY <1>1, <2>1 DEF PortT
<1>5. hca[DevOf[p]].boot > 0
  <2>1. hca[DevOf[p]] \in HcaRec
    BY <1>3, NetFacts, HcaFacts
  <2> QED BY <1>1, <2>1 DEF HcaRec
<1> HIDE DEF n
<1>6. connect_pibnetd(n, p) \in Fabric
  BY <1>2, <1>3, <1>4, <1>5, ConnectIs
<1>7. CASE port[p].state = IB_PORT_DOWN
  <2>1. Becomes(connect_pibnetd(n, p))
    BY <1>1, <1>7
  <2>2. Now' = connect_pibnetd(n, p)
    BY <1>6, <2>1, BecomesDoes
  <2> QED BY <1>1, <1>4, <1>6, <1>7, <2>2 DEF n
<1>8. CASE port[p].state # IB_PORT_DOWN
  <2>1. Becomes(n)
    BY <1>1, <1>8
  <2>2. Now' = n
    BY <1>2, <2>1, BecomesDoes
  <2> QED BY <1>1, <1>2, <1>4, <1>8, <2>2 DEF n
<1> QED
  BY <1>7, <1>8

LEMMA HangDoes ==
  ASSUME FabricInv, NEW h \in Hosts, ThreadHangs(h)
  PROVE  /\ hca[h].lock = "held" /\ Rekeyed
         /\ Now' = [Now EXCEPT !.hca = [hca EXCEPT ![h] = [hca[h] EXCEPT !.lock = "hung"]]]
         /\ Now' \in Fabric /\ mode' = mode /\ sm' = sm
<1> DEFINE a == [hca[h] EXCEPT !.lock = "hung"]
           r == [Now EXCEPT !.hca[h] = a]
<1>1. /\ hca[h].lock = "held" /\ mode' = mode /\ sm' = sm
      /\ Becomes([Now EXCEPT !.hca[h].lock = "hung"])
  BY DEF ThreadHangs
<1>2. Now \in Fabric /\ Now.hca = hca /\ hca \in HcaS
  BY NowFields
<1>8. hca[h] \in HcaRec /\ OfDevice(hca[h], h)
  BY <1>2, HcaFacts
<1>9. Rekeyed /\ "hung" \in LockStates
  <2>1. hca[h].lock \in LockStates
    BY <1>8 DEF HcaRec
  <2> QED BY <1>1, <2>1, LockFacts
<1>3. a \in HcaRec /\ OfDevice(a, h)
  BY <1>8, <1>9, SetLock
<1>4. [Now EXCEPT !.hca[h].lock = "hung"] = r
  BY <1>2
<1>5. r = [Now EXCEPT !.hca = [hca EXCEPT ![h] = a]]
  BY <1>2
<1> HIDE DEF a
<1>6. r \in Fabric
  BY <1>2, <1>3, SetHca
<1> HIDE DEF r
<1>7. Now' = r
  BY <1>1, <1>4, <1>6, BecomesDoes
<1> QED
  BY <1>1, <1>5, <1>6, <1>7, <1>9 DEF a

LEMMA PassDoes ==
  ASSUME FabricInv, NEW h \in Hosts, SchedulerPass(h)
  PROVE  /\ hca[h].up /\ hca[h].ready # None /\ Now' = process_sendmsg(Now, h)
         /\ Now' \in Fabric /\ mode' = mode /\ sm' = sm
<1>1. hca[h].up /\ hca[h].ready # None /\ Becomes(process_sendmsg(Now, h)) /\ mode' = mode /\ sm' = sm
  BY DEF SchedulerPass, Idle
<1>2. mode \in Cases /\ Now \in Fabric /\ Now.hca = hca
  BY NowFields
<1>3. process_sendmsg(Now, h) \in Fabric
  BY <1>1, <1>2, SendmsgType
<1> QED
  BY <1>1, <1>3, BecomesDoes

(* The queue pairs and the members of a device                             *)
Regroup(h, x, y) == [Now EXCEPT !.hca = [hca EXCEPT ![h] = [hca[h] EXCEPT !.mcast = x, !.qps = y]]]

LEMMA RegroupType ==
  ASSUME FabricInv, NEW h \in Hosts, NEW y \in SUBSET hca[h].qps, NEW x \in SUBSET y
  PROVE  Regroup(h, x, y) \in Fabric
<1> DEFINE r == hca[h]
           a == [r EXCEPT !.mcast = x, !.qps = y]
           u == [hca EXCEPT ![h] = a]
<1>1. Now \in Fabric /\ hca \in HcaS /\ r \in HcaRec /\ OfDevice(r, h)
  BY NowFields, HcaFacts
<1>2. x \in SUBSET QPs /\ y \in SUBSET r.qps /\ x \subseteq y
  BY <1>1 DEF HcaRec
<1> HIDE DEF r
<1>3. a \in HcaRec /\ OfDevice(a, h)
  BY <1>1, <1>2, SetMembers
<1> HIDE DEF a
<1>4. u \in HcaS
  BY <1>1, <1>3, HcaPut
<1>5. Regroup(h, x, y) = [Now EXCEPT !.hca = u]
  BY DEF Regroup, u, a, r
<1> HIDE DEF u
<1> QED
  BY <1>1, <1>4, <1>5, SetFields

LEMMA GroupDoes ==
  ASSUME FabricInv, NEW q \in QPs,
         pib_attach_mcast(q) \/ pib_detach_mcast(q) \/ pib_destroy_qp(q)
  PROVE  LET h == DevOf[QpPort[q]]
         IN /\ h \in Hosts
            /\ \E y \in SUBSET hca[h].qps : \E x \in SUBSET y : Now' = Regroup(h, x, y)
            /\ Now' \in Fabric /\ mode' = mode /\ sm' = sm
<1> DEFINE h == DevOf[QpPort[q]]
           r == hca[h]
<1>1. h \in Hosts
  BY NetFacts
<1>2. Now \in Fabric /\ Now.hca = hca /\ hca \in HcaS /\ hca \in [Hosts -> HcaRec]
      /\ r \in HcaRec
  BY <1>1, NowFields, HcaFacts
<1>3. r.mcast \subseteq r.qps
  BY <1>2 DEF HcaRec
<1>4. \E y \in SUBSET r.qps : \E x \in SUBSET y : Becomes(Regroup(h, x, y)) /\ mode' = mode /\ sm' = sm
  <2>1. CASE pib_attach_mcast(q)
    <3> DEFINE x == r.mcast \cup {q}
               y == r.qps
    <3>1. Becomes([Now EXCEPT !.hca[h].mcast = @ \cup {q}]) /\ q \in r.qps /\ mode' = mode /\ sm' = sm
      BY <2>1 DEF pib_attach_mcast
    <3>2. [Now EXCEPT !.hca[h].mcast = @ \cup {q}] = Regroup(h, x, y)
      <4>1. [r EXCEPT !.mcast = x] = [r EXCEPT !.mcast = x, !.qps = y]
        <5> HIDE DEF x
        <5> QED BY <1>2 DEF HcaRec
      <4>2. [Now EXCEPT !.hca[h].mcast = @ \cup {q}] = [Now EXCEPT !.hca = [hca EXCEPT ![h] = [r EXCEPT !.mcast = x]]]
        BY <1>2
      <4> QED BY <4>1, <4>2 DEF Regroup
    <3>3. y \in SUBSET r.qps /\ x \in SUBSET y
      BY <1>3, <3>1
    <3> HIDE DEF x, y, r, h
    <3> QED BY <3>1, <3>2, <3>3
  <2>2. CASE pib_detach_mcast(q)
    <3> DEFINE x == r.mcast \ {q}
               y == r.qps
    <3>1. Becomes([Now EXCEPT !.hca[h].mcast = @ \ {q}]) /\ mode' = mode /\ sm' = sm
      BY <2>2 DEF pib_detach_mcast
    <3>2. [Now EXCEPT !.hca[h].mcast = @ \ {q}] = Regroup(h, x, y)
      <4>1. [r EXCEPT !.mcast = x] = [r EXCEPT !.mcast = x, !.qps = y]
        <5> HIDE DEF x
        <5> QED BY <1>2 DEF HcaRec
      <4>2. [Now EXCEPT !.hca[h].mcast = @ \ {q}] = [Now EXCEPT !.hca = [hca EXCEPT ![h] = [r EXCEPT !.mcast = x]]]
        BY <1>2
      <4> QED BY <4>1, <4>2 DEF Regroup
    <3>3. y \in SUBSET r.qps /\ x \in SUBSET y
      BY <1>3
    <3> HIDE DEF x, y, r, h
    <3> QED BY <3>1, <3>2, <3>3
  <2>3. CASE pib_destroy_qp(q)
    <3> DEFINE x == r.mcast
               y == r.qps \ {q}
    <3>1. /\ Becomes([Now EXCEPT !.hca[h].qps = @ \ {q}]) /\ q \notin r.mcast
          /\ mode' = mode /\ sm' = sm
      BY <2>3 DEF pib_destroy_qp
    <3>2. [Now EXCEPT !.hca[h].qps = @ \ {q}] = Regroup(h, x, y)
      <4>1. [r EXCEPT !.qps = y] = [r EXCEPT !.mcast = x, !.qps = y]
        <5> HIDE DEF y
        <5> QED BY <1>2 DEF HcaRec
      <4>2. [Now EXCEPT !.hca[h].qps = @ \ {q}] = [Now EXCEPT !.hca = [hca EXCEPT ![h] = [r EXCEPT !.qps = y]]]
        BY <1>2
      <4> QED BY <4>1, <4>2 DEF Regroup
    <3>3. y \in SUBSET r.qps /\ x \in SUBSET y
      BY <1>3, <3>1
    <3> HIDE DEF x, y, r, h
    <3> QED BY <3>1, <3>2, <3>3
  <2> QED BY <2>1, <2>2, <2>3
<1> HIDE DEF h
<1>5. PICK y \in SUBSET hca[h].qps : \E x \in SUBSET y : Becomes(Regroup(h, x, y)) /\ mode' = mode /\ sm' = sm
  BY <1>4
<1>8. PICK x \in SUBSET y : Becomes(Regroup(h, x, y)) /\ mode' = mode /\ sm' = sm
  BY <1>5
<1>6. Regroup(h, x, y) \in Fabric
  BY <1>1, RegroupType
<1>7. Now' = Regroup(h, x, y)
  BY <1>8, <1>6, BecomesDoes
<1> QED
  BY <1>1, <1>8, <1>6, <1>7 DEF h

(* A UD message is posted.                                                 *)
Posted(m) == [Now EXCEPT !.log.posted = @ \cup {m}]
PacketOf(m) ==
  LET q == MsgFrom[m]
      p == QpPort[q]
  IN [t |-> "data", m |-> m, guid |-> p, slid |-> port[p].lid, dlid |-> MsgDlid[m],
      dqpn |-> MsgQpn[m], sqpn |-> QpNum[q], pkey |-> port[p].pkey, via |-> 0]

LEMMA PostedType ==
  ASSUME FabricInv, NEW m \in Msgs
  PROVE  LET n == Posted(m)
         IN /\ n \in Fabric /\ n.hca = hca /\ n.port = port /\ n.sw = sw /\ n.up = up
            /\ n.down = down /\ n.lids = lid_table
            /\ n.log = [log EXCEPT !.posted = log.posted \cup {m}]
<1> DEFINE x == log.posted \cup {m}
           g == [log EXCEPT !.posted = x]
           n == Posted(m)
<1>1. /\ mode \in Cases /\ Now \in Fabric
      /\ Now.hca = hca /\ Now.port = port /\ Now.sw = sw /\ Now.up = up
      /\ Now.down = down /\ Now.lids = lid_table /\ Now.log = log /\ log \in LogS
  BY NowFields
<1>2. n = [Now EXCEPT !.log = g]
  BY <1>1 DEF Posted, Fabric
<1>3. x \in SUBSET Msgs
  BY <1>1 DEF LogS
<1> HIDE DEF x, n
<1>4. g \in LogS
  BY <1>1, <1>3 DEF LogS
<1>5. /\ n \in Fabric /\ n.hca = hca /\ n.port = port /\ n.sw = sw /\ n.up = up
      /\ n.down = down /\ n.lids = lid_table /\ n.log = g
  <2> HIDE DEF g
  <2> QED BY <1>1, <1>2, <1>4 DEF Fabric
<1> QED
  BY <1>5 DEF n, x

LEMMA PacketOfType ==
  ASSUME FabricInv, NEW m \in Msgs
  PROVE  LET d == PacketOf(m)
         IN /\ d \in Data /\ d.guid = QpPort[MsgFrom[m]] /\ d.m = m
            /\ d.slid = port[QpPort[MsgFrom[m]]].lid /\ d.dlid = MsgDlid[m]
<1> DEFINE q == MsgFrom[m]
           p == QpPort[q]
           a == port[p].lid
           b == port[p].pkey
           c == MsgDlid[m]
<1>1. q \in QPs /\ p \in Guids /\ c \in {0, Mlid} \cup Lids
  BY NetFacts
<1>2. a \in {0} \cup Lids /\ b \in PKeys
  <2>1. port[p] \in PortT
    BY <1>1, NowFields DEF PortS
  <2> QED BY <2>1 DEF PortT
<1>3. MsgQpn[m] \in {MsgQpn[k] : k \in Msgs} /\ QpNum[q] \in {QpNum[k] : k \in QPs}
  BY <1>1
<1> DEFINE e == QpNum[q]
           f == MsgQpn[m]
           d == [t |-> "data", m |-> m, guid |-> p, slid |-> a, dlid |-> c, dqpn |-> f,
                 sqpn |-> e, pkey |-> b, via |-> 0]
<1>4. PacketOf(m) = d
  BY DEF PacketOf
<1>5. 0 \in PortNums
  BY LidFacts DEF PortNums
<1>6. d \in DataRec
  <2> HIDE DEF a, b, c, e, f, p, q
  <2> QED BY <1>1, <1>2, <1>3, <1>5 DEF DataRec, e, f
<1>7. d.guid = p /\ d.m = m /\ d.slid = a /\ d.dlid = c /\ d.dqpn = f /\ d.sqpn = e
  OBVIOUS
<1> HIDE DEF d
<1>8. d \in Data
  BY <1>6, <1>7 DEF Data
<1> QED
  BY <1>4, <1>7, <1>8

LEMMA PostDoes ==
  ASSUME FabricInv, NEW m \in Msgs, pib_process_ud_qp_request(m)
  PROVE  LET p == QpPort[MsgFrom[m]]
         IN /\ p \in Guids /\ DevOf[p] \in Hosts /\ m \notin log.posted /\ hca[DevOf[p]].up
            /\ Now' = BuildAndSend(Posted(m), DevOf[p], p, "UD", PacketOf(m))
            /\ Now' \in Fabric /\ mode' = mode /\ sm' = sm
<1> DEFINE p == QpPort[MsgFrom[m]]
           r == BuildAndSend(Posted(m), DevOf[p], p, "UD", PacketOf(m))
<1>1. Becomes(r) /\ mode' = mode /\ sm' = sm /\ m \notin log.posted /\ hca[DevOf[p]].up
  BY DEF pib_process_ud_qp_request, Posted, PacketOf, Idle
<1>2. p \in Guids /\ DevOf[p] \in Hosts /\ mode \in Cases
  BY NetFacts, NowFields
<1>3. Posted(m) \in Fabric
  BY PostedType
<1>4. PacketOf(m) \in Data /\ PacketOf(m).guid = p
  BY PacketOfType
<1>5. r \in Fabric
  <2> HIDE DEF p
  <2> QED BY <1>2, <1>3, <1>4, BuildType
<1> HIDE DEF r
<1>6. Now' = r
  BY <1>1, <1>5, BecomesDoes
<1> QED
  BY <1>1, <1>2, <1>5, <1>6 DEF r

(* The switch receives what a port sent.                                   *)
Taken(p) == [Now EXCEPT !.up[p] = Tail(@)]

LEMMA TakenType ==
  ASSUME FabricInv, NEW p \in Guids, up[p] # <<>>
  PROVE  LET n == Taken(p)
         IN /\ n \in Fabric /\ n.hca = hca /\ n.port = port /\ n.sw = sw
            /\ n.up = [up EXCEPT ![p] = Tail(up[p])]
            /\ n.down = down /\ n.lids = lid_table /\ n.log = log
            /\ Head(up[p]) \in Sent /\ Head(up[p]).guid = p
<1> DEFINE u == [up EXCEPT ![p] = Tail(up[p])]
<1>1. /\ mode \in Cases /\ Now \in Fabric
      /\ Now.hca = hca /\ Now.port = port /\ Now.sw = sw /\ Now.up = up
      /\ Now.down = down /\ Now.lids = lid_table /\ Now.log = log /\ up \in UpS
  BY NowFields
<1>2. u \in UpS /\ Head(up[p]) \in Sent /\ Head(up[p]).guid = p
  BY <1>1, UpPop
<1>3. Taken(p) = [Now EXCEPT !.up = u]
  BY <1>1 DEF Taken
<1> HIDE DEF u
<1>4. LET n == [Now EXCEPT !.up = u]
      IN /\ n \in Fabric /\ n.hca = Now.hca /\ n.port = Now.port /\ n.sw = Now.sw
         /\ n.up = u /\ n.down = Now.down /\ n.lids = Now.lids /\ n.log = Now.log
  BY <1>1, <1>2 DEF Fabric
<1> QED
  BY <1>1, <1>2, <1>3, <1>4 DEF u

LEMMA SwitchDoes ==
  ASSUME FabricInv, NEW p \in Guids, SwitchReceive(p)
  PROVE  /\ sw.run = "running" /\ up[p] # <<>>
         /\ Now' = FromSwitch(Taken(p), receive_packet(sw, Head(up[p])))
         /\ Now' \in Fabric /\ mode' = mode /\ sm' = sm
<1> DEFINE v == receive_packet(sw, Head(up[p]))
           r == FromSwitch(Taken(p), v)
<1>1. Becomes(r) /\ mode' = mode /\ sm' = sm /\ sw.run = "running" /\ up[p] # <<>>
  BY DEF SwitchReceive, Taken
<1>2. Taken(p) \in Fabric /\ Head(up[p]) \in Sent
  BY <1>1, TakenType
<1>3. mode \in Cases /\ sw \in SwS
  BY NowFields
<1>4. v.sw \in SwS /\ v.out \in Seq(OutRec)
  BY <1>2, <1>3, ReceiveType
<1> HIDE DEF v
<1>5. r \in Fabric
  BY <1>2, <1>3, <1>4, FromSwitchType
<1> HIDE DEF r
<1>6. Now' = r
  BY <1>1, <1>5, BecomesDoes
<1> QED
  BY <1>1, <1>5, <1>6 DEF r, v

(* pibnetd is started and stopped; UDP loses a datagram.                   *)
NoneUp == [p \in Guids |-> <<>>]

LEMMA StartedType ==
  ASSUME mode \in Cases, mode.multi, NEW b \in Nat, b <= mode.netd
  PROVE  init_switch(b) \in SwS
<1> DEFINE f == [q \in SwPorts |-> FreePort]
           g == [l \in Lids |-> 0]
<1>1. FreePort \in SwPort /\ FreePort.guid = 0
  BY ModeFacts DEF FreePort, SwPort
<1>2. f \in [SwPorts -> SwPort] /\ \A q \in SwPorts : f[q].guid = 0
  BY <1>1
<1>3. g \in [Lids -> PortNums] /\ g[SwLid] = 0
  BY LidFacts DEF PortNums
<1>4. init_switch(b) = [run |-> "running", easy |-> FALSE, boot |-> b, lid |-> 0,
                        sm_lid |-> 0, port |-> f, fwd |-> g, mfwd |-> {}]
  BY Zenon DEF init_switch
<1> HIDE DEF f, g
<1> QED
  BY <1>2, <1>3, <1>4 DEF SwS

LEMMA StartDoes ==
  ASSUME FabricInv, NetdStart
  PROVE  /\ mode.multi /\ sw.run # "running" /\ sw.boot + 1 <= mode.netd /\ sw.boot \in Nat
         /\ Now' = [Now EXCEPT !.sw = init_switch(sw.boot + 1)]
         /\ Now' \in Fabric /\ mode' = mode /\ sm' = sm
<1> DEFINE s == init_switch(sw.boot + 1)
           r == [Now EXCEPT !.sw = s]
<1>1. /\ mode.multi /\ sw.run # "running" /\ sw.boot < mode.netd /\ mode' = mode /\ sm' = sm
      /\ Becomes(r)
  BY DEF NetdStart
<1>2. Now \in Fabric /\ sw \in SwS /\ mode \in Cases
  BY NowFields
<1>3. sw.boot \in Nat
  BY <1>2, SwFacts
<1>4. sw.boot + 1 \in Nat /\ sw.boot + 1 <= mode.netd
  BY <1>1, <1>2, <1>3, ModeFacts
<1>5. s \in SwS
  BY <1>1, <1>2, <1>4, StartedType
<1> HIDE DEF s
<1>6. r \in Fabric
  BY <1>2, <1>5, SetFields
<1> HIDE DEF r
<1>7. Now' = r
  BY <1>1, <1>6, BecomesDoes
<1> QED
  BY <1>1, <1>3, <1>4, <1>6, <1>7 DEF r, s

LEMMA StopDoes ==
  ASSUME FabricInv, NetdStop
  PROVE  /\ mode.multi
         /\ Now' = [Now EXCEPT !.sw = [sw EXCEPT !.run = "stopped"], !.up = NoneUp]
         /\ Now' \in Fabric /\ mode' = mode /\ sm' = sm
<1> DEFINE s == [sw EXCEPT !.run = "stopped"]
           r == [Now EXCEPT !.sw = s, !.up = NoneUp]
<1>1. /\ mode.multi /\ mode' = mode /\ sm' = sm
      /\ Becomes([Now EXCEPT !.sw.run = "stopped", !.up = [p \in Guids |-> <<>>]])
  BY DEF NetdStop
<1>2. Now \in Fabric /\ sw \in SwS /\ Now.sw = sw /\ mode \in Cases
  BY NowFields
<1>3. s \in SwS
  BY <1>2 DEF SwS
<1>4. NoneUp \in UpS
  BY <1>2, UpNone DEF NoneUp
<1>5. [Now EXCEPT !.sw.run = "stopped", !.up = [p \in Guids |-> <<>>]] = r
  BY <1>2 DEF NoneUp
<1> HIDE DEF s
<1>6. r \in Fabric
  BY <1>2, <1>3, <1>4 DEF Fabric
<1> HIDE DEF r
<1>7. Now' = r
  BY <1>1, <1>5, <1>6, BecomesDoes
<1> QED
  BY <1>1, <1>6, <1>7 DEF r, s

LEMMA LoseDoes ==
  ASSUME FabricInv, NEW p \in Guids, Lose(p)
  PROVE  /\ \/ up[p] # <<>> /\ up' = [up EXCEPT ![p] = Tail(up[p])] /\ down' = down
            \/ down[p] # <<>> /\ down' = [down EXCEPT ![p] = Tail(down[p])] /\ up' = up
         /\ hca' = hca /\ port' = port /\ sw' = sw /\ lid_table' = lid_table
         /\ log' = [log EXCEPT !.faults = log.faults + 1]
         /\ Now' \in Fabric /\ mode' = mode /\ sm' = sm
<1>1. /\ \/ up[p] # <<>> /\ up' = [up EXCEPT ![p] = Tail(up[p])] /\ down' = down
         \/ down[p] # <<>> /\ down' = [down EXCEPT ![p] = Tail(down[p])] /\ up' = up
      /\ hca' = hca /\ port' = port /\ sw' = sw /\ lid_table' = lid_table
      /\ log' = [log EXCEPT !.faults = log.faults + 1] /\ mode' = mode /\ sm' = sm
  BY DEF Lose
<1>2. /\ mode \in Cases /\ hca \in HcaS /\ port \in PortS /\ sw \in SwS /\ up \in UpS
      /\ down \in DownS /\ lid_table \in LidS /\ log \in LogS
  BY NowFields
<1>3. up[p] # <<>> => [up EXCEPT ![p] = Tail(up[p])] \in UpS
  BY <1>2, UpPop
<1>4. down[p] # <<>> => [down EXCEPT ![p] = Tail(down[p])] \in DownS
  BY <1>2, DownPop
<1>5. log' \in LogS
  <2> DEFINE a == log.faults + 1
  <2>1. a \in Nat
    BY <1>2 DEF LogS
  <2>2. log' = [log EXCEPT !.faults = a]
    BY <1>1
  <2> HIDE DEF a
  <2> QED BY <1>2, <2>1, <2>2 DEF LogS
<1>6. up' \in UpS /\ down' \in DownS
  BY <1>1, <1>2, <1>3, <1>4
<1>7. Now' = [hca |-> hca', port |-> port', sw |-> sw', up |-> up', down |-> down',
              lids |-> lid_table', log |-> log']
  BY DEF Now
<1>8. Now' \in Fabric
  BY <1>1, <1>2, <1>5, <1>6, <1>7 DEF Fabric
<1> QED
  BY <1>1, <1>8

-----------------------------------------------------------------------------
(* The agent and the subnet manager *)

LEMMA SmFacts ==
  ASSUME FabricInv
  PROVE  /\ sm \in [wait : BOOLEAN, next : Nat, sweeps : 0..mode.sweeps]
         /\ sm.next \in 1..(Len(mode.script) + 1) /\ Len(mode.script) \in Nat
         /\ sm.wait => sm.next <= Len(mode.script)
         /\ sm.next <= Len(mode.script) => mode.script[sm.next] \in ScriptSteps
         /\ sm.next <= Len(mode.script) /\ mode.script[sm.next].kind = "pkey" => Rekeyed
<1>1. /\ sm \in [wait : BOOLEAN, next : Nat, sweeps : 0..mode.sweeps]
      /\ sm.next \in 1..(Len(mode.script) + 1)
      /\ sm.wait => sm.next <= Len(mode.script)
  BY DEF FabricInv, SmOK
<1>2. mode.script \in Seq(ScriptSteps)
  BY NowFields, ModeFacts
<1>3. Len(mode.script) \in Nat
  BY <1>2
<1>4. sm.next <= Len(mode.script) => mode.script[sm.next] \in ScriptSteps
  BY <1>1, <1>2, <1>3
<1>5. sm.next <= Len(mode.script) => sm.next \in DOMAIN mode.script
  BY <1>1, <1>2, <1>3
<1>6. sm.next <= Len(mode.script) /\ mode.script[sm.next].kind = "pkey" => Rekeyed
  BY <1>5, Zenon DEF Rekeyed
<1> QED
  BY <1>1, <1>3, <1>4, <1>6

LEMMA SmKeeps ==
  ASSUME FabricInv, mode' = mode,
         \/ sm' = sm
         \/ sm.wait /\ sm' = [sm EXCEPT !.wait = FALSE, !.next = @ + 1]
         \/ sm.next <= Len(mode.script) /\ ~sm.wait /\ sm' = [sm EXCEPT !.next = @ + 1]
         \/ sm.next <= Len(mode.script) /\ sm' = [sm EXCEPT !.wait = TRUE]
         \/ sm.sweeps > 0 /\ sm' = [wait |-> FALSE, next |-> 1, sweeps |-> sm.sweeps - 1]
  PROVE  SmOK'
<1> DEFINE L == Len(mode.script)
<1>1. /\ sm \in [wait : BOOLEAN, next : Nat, sweeps : 0..mode.sweeps]
      /\ sm.next \in 1..(L + 1) /\ L \in Nat
      /\ sm.wait => sm.next <= L
  BY SmFacts
<1>2. mode.sweeps \in Nat
  BY NowFields, ModeFacts
<1>3. SmOK' <=> /\ sm' \in [wait : BOOLEAN, next : Nat, sweeps : 0..mode.sweeps]
                /\ sm'.next \in 1..(L + 1)
                /\ sm'.wait => sm'.next <= L
  BY DEF SmOK
<1> HIDE DEF L
<1> DEFINE a == sm.next + 1
           b == sm.sweeps - 1
<1>4. CASE sm' = sm
  BY <1>1, <1>3, <1>4
<1>5. CASE sm.wait /\ sm' = [sm EXCEPT !.wait = FALSE, !.next = @ + 1]
  <2>1. a \in Nat /\ a \in 1..(L + 1)
    BY <1>1, <1>5
  <2>2. sm' = [sm EXCEPT !.wait = FALSE, !.next = a]
    BY <1>5
  <2> HIDE DEF a
  <2> QED BY <1>1, <1>3, <2>1, <2>2
<1>6. CASE sm.next <= L /\ ~sm.wait /\ sm' = [sm EXCEPT !.next = @ + 1]
  <2>1. a \in Nat /\ a \in 1..(L + 1)
    BY <1>1, <1>6
  <2>2. sm' = [sm EXCEPT !.next = a]
    BY <1>6
  <2> HIDE DEF a
  <2> QED BY <1>1, <1>3, <1>6, <2>1, <2>2
<1>7. CASE sm.next <= L /\ sm' = [sm EXCEPT !.wait = TRUE]
  BY <1>1, <1>3, <1>7
<1>8. CASE sm.sweeps > 0 /\ sm' = [wait |-> FALSE, next |-> 1, sweeps |-> sm.sweeps - 1]
  <2>1. b \in 0..mode.sweeps
    BY <1>1, <1>2, <1>8
  <2>2. sm' = [wait |-> FALSE, next |-> 1, sweeps |-> b]
    BY <1>8
  <2> HIDE DEF b
  <2> QED BY <1>1, <1>3, <2>1, <2>2
<1> QED
  BY <1>4, <1>5, <1>6, <1>7, <1>8 DEF L

(* process_mad takes the oldest SMP.                                       *)
Unqueued(h) == [Now EXCEPT !.hca[h].mad = Tail(@)]
Answer(d, p) == [d EXCEPT !.dir = 1, !.guid = p]
Repression(d, p) ==
  [d EXCEPT !.slid = port[p].lid, !.dlid = d.slid, !.guid = p, !.op = RepressOp]

LEMMA UnqueuedType ==
  ASSUME FabricInv, NEW h \in Hosts, hca[h].mad # <<>>
  PROVE  /\ Unqueued(h) \in Fabric /\ Head(hca[h].mad) \in MadRec /\ DevOf[Head(hca[h].mad).port] = h
         /\ Unqueued(h) = [Now EXCEPT !.hca = [hca EXCEPT ![h] = [hca[h] EXCEPT !.mad = Tail(hca[h].mad)]]]
<1> DEFINE r == hca[h]
           s == r.mad
           e == Tail(s)
           a == [r EXCEPT !.mad = e]
           u == [hca EXCEPT ![h] = a]
<1>1. mode \in Cases /\ Now \in Fabric /\ Now.hca = hca /\ hca \in HcaS
  BY NowFields
<1>2. r \in HcaRec /\ OfDevice(r, h)
  BY <1>1, HcaFacts
<1>3. s \in Seq(MadRec) /\ Len(s) <= mode.room /\ \A i \in 1..Len(s) : DevOf[s[i].port] = h
  BY <1>2 DEF HcaRec, OfDevice
<1>4. Unqueued(h) = [Now EXCEPT !.hca = u]
  BY <1>1 DEF Unqueued
<1>5. s # <<>> /\ Head(hca[h].mad) = Head(s)
  OBVIOUS
<1> HIDE DEF s, r
<1>6. /\ e \in Seq(MadRec) /\ Len(s) \in Nat \ {0} /\ Len(e) = Len(s) - 1
      /\ \A i \in 1..Len(e) : i + 1 \in 1..Len(s) /\ e[i] = s[i + 1]
      /\ Head(s) \in MadRec /\ 1 \in 1..Len(s) /\ Head(s) = s[1]
  BY <1>3, <1>5, TailSeq
<1> HIDE DEF e
<1>7. Len(e) <= mode.room /\ \A i \in 1..Len(e) : DevOf[e[i].port] = h
  <2>1. mode.room \in Nat
    BY <1>1, ModeFacts
  <2> QED BY <1>3, <1>6, <2>1
<1>8. a \in HcaRec /\ OfDevice(a, h)
  BY <1>2, <1>6, <1>7, SetMad
<1> HIDE DEF a
<1>9. u \in HcaS
  BY <1>1, <1>8, HcaPut
<1>10. Unqueued(h) \in Fabric
  <2> HIDE DEF u
  <2> QED BY <1>1, <1>4, <1>9, SetFields
<1>11. DevOf[Head(s).port] = h
  BY <1>3, <1>6
<1> QED
  BY <1>4, <1>5, <1>6, <1>10, <1>11 DEF u, a, e, s, r

LEMMA AnswerType ==
  ASSUME FabricInv, NEW d \in SmpCame, d.dir = 0, NEW p \in Guids
  PROVE  /\ d.op.attr = "Trap" => Repression(d, p) \in SmpKept /\ Repression(d, p).guid = p
         /\ d.op.attr # "Trap" => /\ d.op \in PortOps
                                  /\ Answer(d, p) \in SmpKept /\ Answer(d, p).guid = p
<1>1. d \in SmpRec /\ (AtPort(d) \/ Notice(d))
  BY DEF SmpCame, Returned
<1>2. CASE Notice(d)
  <2>1. /\ d.op = TrapOp /\ d.op.attr = "Trap" /\ d.slid = SwLid /\ d.cls = "lid"
        /\ d.hop <= d.cnt
    BY <1>2 DEF Notice, TrapOp
  <2> DEFINE a == port[p].lid
             b == d.slid
             e == [d EXCEPT !.slid = a, !.dlid = b, !.guid = p, !.op = RepressOp]
  <2>2. a \in AnyLid
    <3>1. port[p] \in PortT
      BY NowFields DEF PortS
    <3>2. a \in {0} \cup Lids
      BY <3>1 DEF PortT
    <3> QED BY <3>2 DEF AnyLid
  <2>3. b \in AnyLid /\ b = SwLid
    BY <2>1, LidFacts DEF AnyLid
  <2>4. Repression(d, p) = e
    BY DEF Repression
  <2> HIDE DEF a, b
  <2> DEFINE O == SwitchOps \cup PortOps \cup {TrapOp, RepressOp}
  <2>5. RepressOp \in O
    OBVIOUS
  <2>6. e \in SmpRec
    <3>1. d \in [t : {"smp"}, cls : {"dr", "lid"}, dir : {0, 1}, hop : 0..2, cnt : 0..2,
                 out : PortNums, ret : PortNums, slid : AnyLid, dlid : AnyLid,
                 op : O, tid : Nat, guid : Guids \cup {0}, in0 : PortNums, via : PortNums]
      BY <1>1 DEF SmpRec
    <3>2. p \in Guids \cup {0}
      OBVIOUS
    <3> HIDE DEF O
    <3>3. e \in [t : {"smp"}, cls : {"dr", "lid"}, dir : {0, 1}, hop : 0..2, cnt : 0..2,
                 out : PortNums, ret : PortNums, slid : AnyLid, dlid : AnyLid,
                 op : O, tid : Nat, guid : Guids \cup {0}, in0 : PortNums, via : PortNums]
      BY <2>2, <2>3, <2>5, <3>1, <3>2
    <3> QED BY <3>3 DEF SmpRec, O
  <2>7. /\ e.cls = d.cls /\ e.dir = d.dir /\ e.op = RepressOp /\ e.dlid = b /\ e.guid = p
        /\ e.hop = d.hop /\ e.cnt = d.cnt
    BY <1>1 DEF SmpRec
  <2> HIDE DEF e
  <2>8. e \in SmpKept
    BY <2>1, <2>3, <2>6, <2>7 DEF SmpKept, Repress
  <2> QED BY <2>1, <2>4, <2>7, <2>8
<1>3. CASE AtPort(d)
  <2>1. d.op \in PortOps /\ d.op.attr # "Trap"
    BY <1>3 DEF AtPort, PortOps
  <2> DEFINE e == [d EXCEPT !.dir = 1, !.guid = p]
  <2>2. Answer(d, p) = e
    BY DEF Answer
  <2>3. e \in SmpRec
    BY <1>1 DEF SmpRec
  <2>4. /\ e.cls = d.cls /\ e.dir = 1 /\ e.op = d.op /\ e.hop = d.hop /\ e.cnt = d.cnt
        /\ e.ret = d.ret /\ e.in0 = d.in0 /\ e.guid = p
    BY <1>1 DEF SmpRec
  <2> HIDE DEF e
  <2>5. e \in SmpKept
    BY <1>3, <2>3, <2>4 DEF SmpKept, Returns, AtPort
  <2> QED BY <2>1, <2>2, <2>4, <2>5
<1> QED
  BY <1>1, <1>2, <1>3

MadDone(h, p, d) ==
  LET n == Unqueued(h)
  IN \/ d.dir = 1 /\ Now' = n
     \/ d.dir = 0 /\ Repression(d, p) \in SmpKept /\ Repression(d, p).guid = p
          /\ Now' = BuildAndSend(n, h, p, "QP0", Repression(d, p))
     \/ d.dir = 0 /\ d.op \in PortOps /\ Answer(d, p) \in SmpKept /\ Answer(d, p).guid = p
          /\ Now' = BuildAndSend(process_subn(n, p, d.op), h, p, "QP0", Answer(d, p))

LEMMA MadDoes ==
  ASSUME FabricInv, NEW h \in Hosts, process_mad(h)
  PROVE  LET x == Head(hca[h].mad)
         IN /\ hca[h].up /\ hca[h].mad # <<>> /\ x.port \in Guids /\ DevOf[x.port] = h /\ x.d \in SmpCame
            /\ MadDone(h, x.port, x.d)
            /\ Now' \in Fabric /\ mode' = mode /\ SmOK'
<1> DEFINE x == Head(hca[h].mad)
           p == x.port
           d == x.d
           n == Unqueued(h)
<1>1. hca[h].mad # <<>> /\ mode' = mode /\ hca[h].up
  BY DEF process_mad, Idle
<1>2. n \in Fabric /\ x \in MadRec /\ DevOf[p] = h
  BY <1>1, UnqueuedType
<1>3. p \in Guids /\ d \in SmpCame
  BY <1>2 DEF MadRec
<1>4. d.dir \in {0, 1}
  BY <1>3 DEF SmpCame, SmpRec
<1>5. Becomes(IF d.dir = 1 THEN n
              ELSE IF d.op.attr = "Trap" THEN BuildAndSend(n, h, p, "QP0", Repression(d, p))
              ELSE BuildAndSend(process_subn(n, p, d.op), h, p, "QP0", Answer(d, p)))
  BY Zenon DEF process_mad, Unqueued, Repression, Answer, RepressOp
<1>6. SmOK'
  <2> DEFINE answers == d.dir = 1 /\ p = SmPort /\ sm.wait /\ d.tid = sm.next
             resweep == p = SmPort /\ d.op.attr = "Trap" /\ sm.sweeps > 0
  <2>1. sm' = IF answers THEN [sm EXCEPT !.wait = FALSE, !.next = @ + 1]
              ELSE IF resweep
              THEN [wait |-> FALSE, next |-> 1, sweeps |-> sm.sweeps - 1]
              ELSE sm
    BY DEF process_mad
  <2> HIDE DEF d, p
  <2> QED BY <1>1, <2>1, SmKeeps
<1> HIDE DEF x, n, p, d
<1>7. mode \in Cases
  BY NowFields
<1>8. CASE d.dir = 1
  <2>1. Now' = n
    BY <1>2, <1>5, <1>8, BecomesDoes
  <2>2. MadDone(h, p, d)
    BY <1>8, <2>1 DEF MadDone, n
  <2> QED BY <1>1, <1>2, <1>3, <1>6, <2>1, <2>2 DEF x, p, d
<1>9. CASE d.dir = 0 /\ d.op.attr = "Trap"
  <2> DEFINE e == Repression(d, p)
             r == BuildAndSend(n, h, p, "QP0", e)
  <2>1. e \in SmpKept /\ e.guid = p
    BY <1>3, <1>9, AnswerType
  <2> HIDE DEF e
  <2>2. r \in Fabric
    BY <1>2, <1>3, <1>7, <2>1, BuildType
  <2>3. Becomes(r)
    BY <1>5, <1>9 DEF e
  <2> HIDE DEF r
  <2>4. Now' = r
    BY <2>2, <2>3, BecomesDoes
  <2>5. MadDone(h, p, d)
    BY <1>9, <2>1, <2>4 DEF MadDone, n, r, e
  <2> QED BY <1>1, <1>2, <1>3, <1>6, <2>2, <2>4, <2>5 DEF x, p, d
<1>10. CASE d.dir = 0 /\ d.op.attr # "Trap"
  <2> DEFINE e == Answer(d, p)
             m == process_subn(n, p, d.op)
             r == BuildAndSend(m, h, p, "QP0", e)
  <2>1. e \in SmpKept /\ e.guid = p /\ d.op \in PortOps
    BY <1>3, <1>10, AnswerType
  <2>2. m \in Fabric
    BY <1>2, <1>3, <1>7, <2>1, SubnDoes DEF SubnDone
  <2> HIDE DEF e, m
  <2>3. r \in Fabric
    BY <1>2, <1>3, <1>7, <2>1, <2>2, BuildType
  <2>4. Becomes(r)
    BY <1>5, <1>10 DEF e, m
  <2> HIDE DEF r
  <2>5. Now' = r
    BY <2>3, <2>4, BecomesDoes
  <2>6. MadDone(h, p, d)
    BY <1>10, <2>1, <2>5 DEF MadDone, n, r, e, m
  <2> QED BY <1>1, <1>2, <1>3, <1>6, <2>3, <2>5, <2>6 DEF x, p, d
<1> QED
  BY <1>4, <1>8, <1>9, <1>10

LEMMA StepFacts ==
  ASSUME NEW step \in ScriptSteps
  PROVE  /\ step.kind \in {"switch", "lft", "mft", "port", "pkey"}
         /\ Remote(step) <=> step.kind \in {"port", "pkey"}
         /\ Remote(step) => step.port \in Guids
         /\ step.kind = "port" => step.state \in 0..4
BY DEF ScriptSteps, Remote

LEMMA SmOpType ==
  ASSUME NEW step \in ScriptSteps, step.kind = "pkey" => Rekeyed
  PROVE  /\ Remote(step) => SmOp(step) \in PortOps
         /\ ~Remote(step) => SmOp(step) \in SwitchOps
<1>1. /\ step.kind \in {"switch", "lft", "mft", "port", "pkey"}
      /\ Remote(step) <=> step.kind \in {"port", "pkey"}
      /\ Remote(step) => step.port \in Guids
      /\ step.kind = "port" => step.state \in 0..4
  BY StepFacts
<1>2. SmPort \in Guids
  BY NetFacts
<1>3. CASE step.kind = "switch"
  <2> DEFINE a == SwLid
             b == Lid[SmPort]
  <2>1. SmOp(step) = [attr |-> "PortInfo", lid |-> a, sm_lid |-> b, state |-> 0]
    BY <1>3 DEF SmOp
  <2>2. SmOp(step) \in SwitchOps
    BY <2>1 DEF SwitchOps
  <2> QED BY <1>1, <1>3, <2>2
<1>4. CASE step.kind = "lft"
  <2> DEFINE f == [l \in Lids |->
                     IF \E g \in Guids : Lid[g] = l
                     THEN detect_in_port(sw, CHOOSE g \in Guids : Lid[g] = l)
                     ELSE 0]
  <2>1. SmOp(step) = [attr |-> "LinearForwardTable", table |-> f]
    BY <1>4 DEF SmOp
  <2>2. \A g : detect_in_port(sw, g) \in PortNums
    BY DetectIn
  <2>3. f \in [Lids -> PortNums] /\ f[SwLid] = 0
    BY <2>2, LidFacts DEF PortNums
  <2> HIDE DEF f
  <2>4. SmOp(step) \in SwitchOps
    BY <2>1, <2>3 DEF SwitchOps
  <2> QED BY <1>1, <1>4, <2>4
<1>5. CASE step.kind = "mft"
  <2> DEFINE S == {q \in SwPorts : sw.port[q].guid # 0}
  <2>1. SmOp(step) = [attr |-> "McastForwardTable", ports |-> S]
    BY <1>5 DEF SmOp
  <2>2. S \in SUBSET SwPorts
    OBVIOUS
  <2> HIDE DEF S
  <2>3. SmOp(step) \in SwitchOps
    BY <2>1, <2>2 DEF SwitchOps
  <2> QED BY <1>1, <1>5, <2>3
<1>6. CASE step.kind = "port"
  <2> DEFINE a == Lid[step.port]
             b == Lid[SmPort]
             c == step.state
  <2>1. SmOp(step) = [attr |-> "PortInfo", lid |-> a, sm_lid |-> b, state |-> c]
    BY <1>6 DEF SmOp
  <2>2. a \in {Lid[g] : g \in Guids} /\ c \in 0..4
    BY <1>1, <1>6
  <2> HIDE DEF a, c
  <2>3. SmOp(step) \in PortOps
    BY <2>1, <2>2 DEF PortOps
  <2> QED BY <1>1, <1>6, <2>3
<1>7. CASE step.kind = "pkey"
  <2>1. SmOp(step) = [attr |-> "PKeyTable", pkey |-> 1]
    BY <1>7 DEF SmOp
  <2>2. 1 \in PKeys \ {0}
    BY <1>7, LockFacts
  <2>3. SmOp(step) \in PortOps
    BY <2>1, <2>2 DEF PortOps
  <2> QED BY <1>1, <1>7, <2>3
<1> QED
  BY <1>1, <1>3, <1>4, <1>5, <1>6, <1>7

LEMMA RequestType ==
  ASSUME FabricInv, NEW step \in ScriptSteps, step.kind = "pkey" => Rekeyed,
         Remote(step) => Towards(step.port) # 0
  PROVE  Request(step) \in SmpSent /\ Request(step).guid = SmPort
<1> DEFINE c == IF Remote(step) THEN 2 ELSE 1
           o == IF Remote(step) THEN Towards(step.port) ELSE 0
           f == SmOp(step)
           P == PIB_LID_PERMISSIVE
           k == sm.next
           d == Request(step)
<1>1. d = [t |-> "smp", cls |-> "dr", dir |-> 0, hop |-> 1, cnt |-> c, out |-> o,
           ret |-> 0, slid |-> P, dlid |-> P, op |-> f, tid |-> k,
           guid |-> SmPort, in0 |-> 0, via |-> 0]
  BY DEF Request
<1>2. c \in 1..2 /\ (Remote(step) => c = 2) /\ (~Remote(step) => c = 1)
  OBVIOUS
<1>3. o \in PortNums /\ 0 \in PortNums /\ (Remote(step) => o \in SwPorts)
  <2>1. 0 \in PortNums
    BY LidFacts DEF PortNums
  <2>2. SwPorts \subseteq PortNums
    BY LidFacts DEF SwPorts, PortNums
  <2>3. Remote(step) => Towards(step.port) \in SwPorts
    BY DetectIn DEF Towards
  <2> QED BY <2>1, <2>2, <2>3
<1>4. (Remote(step) => f \in PortOps) /\ (~Remote(step) => f \in SwitchOps)
  BY SmOpType
<1>5. P \in AnyLid /\ k \in Nat /\ SmPort \in Guids
  BY SmFacts, NetFacts DEF AnyLid
<1> HIDE DEF c, o, f, P, k, d
<1>6. d \in SmpRec
  BY <1>1, <1>2, <1>3, <1>4, <1>5 DEF SmpRec
<1>7. /\ d.cls = "dr" /\ d.dir = 0 /\ d.hop = 1 /\ d.cnt = c /\ d.op = f /\ d.out = o
      /\ d.guid = SmPort
  BY <1>1
<1>8. ForSwitch(d) \/ ForPort(d)
  BY <1>2, <1>3, <1>4, <1>7 DEF ForSwitch, ForPort
<1> QED
  BY <1>6, <1>7, <1>8 DEF d, SmpSent

LEMMA SmSendDoes ==
  ASSUME FabricInv, SmSend
  PROVE  /\ \/ /\ hca' = hca /\ port' = port /\ sw' = sw /\ up' = up /\ down' = down
               /\ lid_table' = lid_table /\ log' = log /\ Now' = Now
            \/ /\ Request(SmStep) \in SmpSent /\ Request(SmStep).guid = SmPort
               /\ hca[DevOf[SmPort]].up /\ port[SmPort].state # IB_PORT_DOWN
               /\ SmStep \in ScriptSteps
               /\ Now' = BuildAndSend(Now, DevOf[SmPort], SmPort, "QP0", Request(SmStep))
         /\ Now' \in Fabric /\ mode' = mode /\ SmOK'
<1> DEFINE step == SmStep
           h == DevOf[SmPort]
           d == Request(step)
           r == BuildAndSend(Now, h, SmPort, "QP0", d)
<1>1. /\ SmIdle /\ Idle(h) /\ port[SmPort].state # IB_PORT_DOWN /\ mode' = mode
      /\ \/ /\ Remote(step) => Towards(step.port) # 0
            /\ Becomes(r) /\ sm' = [sm EXCEPT !.wait = TRUE]
         \/ /\ sm' = [sm EXCEPT !.next = @ + 1]
            /\ hca' = hca /\ port' = port /\ sw' = sw /\ up' = up /\ down' = down
            /\ lid_table' = lid_table /\ log' = log
  BY DEF SmSend
<1>2. /\ ~sm.wait /\ sm.next <= Len(mode.script) /\ step \in ScriptSteps
      /\ step.kind = "pkey" => Rekeyed
  BY <1>1, SmFacts DEF SmIdle, SmStep
<1>3. SmOK'
  BY <1>1, <1>2, SmKeeps
<1>4. mode \in Cases /\ Now \in Fabric /\ Now.port = port /\ SmPort \in Guids /\ h \in Hosts
  BY NowFields, NetFacts
<1>5. CASE hca' = hca /\ port' = port /\ sw' = sw /\ up' = up /\ down' = down
            /\ lid_table' = lid_table /\ log' = log
  <2>1. Now' = Now
    BY <1>5 DEF Now
  <2> QED BY <1>1, <1>3, <1>4, <1>5, <2>1
<1>6. CASE (Remote(step) => Towards(step.port) # 0) /\ Becomes(r)
  <2>1. d \in SmpSent /\ d.guid = SmPort
    BY <1>2, <1>6, RequestType
  <2> HIDE DEF d
  <2>2. r \in Fabric
    BY <1>1, <1>4, <2>1, BuildType
  <2> HIDE DEF r
  <2>3. Now' = r
    BY <1>6, <2>2, BecomesDoes
  <2>4. hca[h].up
    BY <1>1 DEF Idle
  <2> QED BY <1>1, <1>2, <1>3, <2>1, <2>2, <2>3, <2>4 DEF r, d
<1> QED
  BY <1>1, <1>5, <1>6

LEMMA SmLocalDoes ==
  ASSUME FabricInv, SmLocal
  PROVE  /\ hca[DevOf[SmPort]].up /\ SubnDone(Now, SmPort, Now')
         /\ Now' \in Fabric /\ mode' = mode /\ SmOK'
<1> DEFINE step == SmStep
           f == SmOp(step)
           r == process_subn(Now, SmPort, f)
<1>1. /\ SmIdle /\ Idle(DevOf[SmPort]) /\ Remote(step) /\ Becomes(r)
      /\ sm' = [sm EXCEPT !.next = @ + 1] /\ mode' = mode
  BY DEF SmLocal
<1>2. /\ ~sm.wait /\ sm.next <= Len(mode.script) /\ step \in ScriptSteps
      /\ step.kind = "pkey" => Rekeyed
  BY <1>1, SmFacts DEF SmIdle, SmStep
<1>3. SmOK'
  BY <1>1, <1>2, SmKeeps
<1>4. mode \in Cases /\ Now \in Fabric /\ SmPort \in Guids
  BY NowFields, NetFacts
<1>5. f \in PortOps
  BY <1>1, <1>2, SmOpType
<1> HIDE DEF f
<1>6. SubnDone(Now, SmPort, r) /\ r \in Fabric
  BY <1>4, <1>5, SubnDoes DEF SubnDone
<1> HIDE DEF r
<1>7. Now' = r
  BY <1>1, <1>6, BecomesDoes
<1> QED
  BY <1>1, <1>3, <1>6, <1>7 DEF Idle

LEMMA SmTimeoutDoes ==
  ASSUME FabricInv, SmTimeout
  PROVE  /\ hca' = hca /\ port' = port /\ sw' = sw /\ up' = up /\ down' = down
         /\ lid_table' = lid_table
         /\ log' \in {log, [log EXCEPT !.faults = log.faults + 1]}
         /\ Now' \in Fabric /\ mode' = mode /\ SmOK'
<1>1. /\ sm.wait /\ sm' = [sm EXCEPT !.wait = FALSE, !.next = @ + 1] /\ mode' = mode
      /\ hca' = hca /\ port' = port /\ sw' = sw /\ up' = up /\ down' = down
      /\ lid_table' = lid_table
      /\ log' \in {log, [log EXCEPT !.faults = log.faults + 1]}
  BY DEF SmTimeout
<1>2. SmOK'
  BY <1>1, SmKeeps
<1>3. /\ hca \in HcaS /\ port \in PortS /\ sw \in SwS /\ up \in UpS
      /\ down \in DownS /\ lid_table \in LidS /\ log \in LogS
  BY NowFields
<1>4. log' \in LogS
  <2> DEFINE a == log.faults + 1
  <2>1. a \in Nat
    BY <1>3 DEF LogS
  <2>2. log' \in {log, [log EXCEPT !.faults = a]}
    BY <1>1
  <2> HIDE DEF a
  <2> QED BY <1>3, <2>1, <2>2 DEF LogS
<1>5. Now' = [hca |-> hca', port |-> port', sw |-> sw', up |-> up', down |-> down',
              lids |-> lid_table', log |-> log']
  BY DEF Now
<1>6. Now' \in Fabric
  BY <1>1, <1>3, <1>4, <1>5 DEF Fabric
<1> QED
  BY <1>1, <1>2, <1>6

LEMMA InitFabric ==
  ASSUME Init
  PROVE  FabricInv
<1>1. /\ mode \in Cases
      /\ hca = [h \in Hosts |-> FreshHca(0)]
      /\ port = [p \in Guids |-> FreshPort]
      /\ sw = IF mode.multi THEN [init_switch(0) EXCEPT !.run = "stopped"]
              ELSE pib_create_switch
      /\ up = [p \in Guids |-> <<>>] /\ down = [p \in Guids |-> <<>>]
      /\ lid_table = [l \in Lids |-> 0]
      /\ sm = [wait |-> FALSE, next |-> 1, sweeps |-> mode.sweeps]
      /\ log = [posted |-> {}, sent |-> [m \in Msgs |-> 0], faults |-> 0,
            freed |-> FALSE, misled |-> FALSE, got |-> [m \in Msgs |-> [q \in QPs |-> 0]]]
  BY Zenon DEF Init
<1>2. /\ mode.multi \in BOOLEAN /\ mode.loads \in Nat /\ mode.netd \in Nat
      /\ mode.sweeps \in Nat /\ mode.room \in Nat /\ mode.script \in Seq(ScriptSteps)
  BY <1>1, ModeFacts
<1>3. hca \in HcaS
  <2> DEFINE r == FreshHca(0)
  <2>1. 0 \in 0..mode.loads
    BY <1>2
  <2>2. \A h : r \in HcaRec /\ OfDevice(r, h)
    BY <1>1, <2>1, FreshHcaType
  <2> HIDE DEF r
  <2>3. hca = [h \in Hosts |-> r]
    BY <1>1 DEF r
  <2> QED BY <2>2, <2>3 DEF HcaS
<1>4. port \in PortS
  BY <1>1, FreshPortType DEF PortS
<1>5. sw \in SwS
  <2> DEFINE f == [q \in SwPorts |-> FreePort]
             g == [l \in Lids |-> 0]
  <2>1. FreePort \in SwPort /\ FreePort.guid = 0
    BY <1>2 DEF FreePort, SwPort
  <2>2. f \in [SwPorts -> SwPort] /\ \A q \in SwPorts : f[q].guid = 0
    BY <2>1
  <2>3. g \in [Lids -> PortNums] /\ g[SwLid] = 0
    BY LidFacts DEF PortNums
  <2>4. CASE mode.multi
    <3>1. sw = [run |-> "stopped", easy |-> FALSE, boot |-> 0, lid |-> 0,
                sm_lid |-> 0, port |-> f, fwd |-> g, mfwd |-> {}]
      BY <1>1, <2>4 DEF init_switch
    <3> HIDE DEF f, g
    <3> QED BY <1>2, <2>2, <2>3, <2>4, <3>1 DEF SwS
  <2>5. CASE ~mode.multi
    <3>1. sw = [run |-> "running", easy |-> TRUE, boot |-> 1, lid |-> 0,
                sm_lid |-> 0, port |-> f, fwd |-> g, mfwd |-> {}]
      BY <1>1, <2>5 DEF init_switch, pib_create_switch
    <3> HIDE DEF f, g
    <3> QED BY <1>2, <2>2, <2>3, <2>5, <3>1 DEF SwS
  <2> QED BY <2>4, <2>5
<1>6. up \in UpS /\ down \in DownS
  <2>1. up \in UpS
    BY <1>1, UpNone
  <2>2. /\ <<>> \in Seq(Came) /\ Len(<<>>) <= mode.room
    BY <1>2
  <2> QED BY <1>1, <2>1, <2>2 DEF DownS
<1>7. lid_table \in LidS
  BY <1>1 DEF LidS
<1>8. log \in LogS
  <2> DEFINE a == [m \in Msgs |-> 0]
             b == [m \in Msgs |-> [q \in QPs |-> 0]]
             c == {}
  <2>1. a \in [Msgs -> Nat] /\ b \in [Msgs -> [QPs -> Nat]] /\ c \in SUBSET Msgs
    OBVIOUS
  <2>2. log = [posted |-> c, sent |-> a, faults |-> 0, freed |-> FALSE, misled |-> FALSE, got |-> b]
    BY <1>1
  <2> HIDE DEF a, b, c
  <2> QED BY <2>1, <2>2 DEF LogS
<1>9. Now \in Fabric
  BY <1>3, <1>4, <1>5, <1>6, <1>7, <1>8 DEF Now, Fabric
<1>10. SmOK
  <2>1. Len(mode.script) \in Nat
    BY <1>2
  <2> QED BY <1>1, <1>2, <2>1 DEF SmOK
<1> QED
  BY <1>1, <1>9, <1>10 DEF FabricInv

LEMMA NextFabric ==
  ASSUME FabricInv, [Next]_vars
  PROVE  FabricInv' /\ mode' = mode
<1>1. mode \in Cases /\ SmOK
  BY NowFields
<1>2. ASSUME Now' \in Fabric, mode' = mode, SmOK' PROVE FabricInv' /\ mode' = mode
  BY <1>1, <1>2, SameTypes DEF FabricInv
<1>3. ASSUME Now' \in Fabric, mode' = mode, sm' = sm PROVE FabricInv' /\ mode' = mode
  BY <1>2, <1>3, SmKeeps
<1>4. CASE UNCHANGED vars
  <2>1. Now' = Now /\ mode' = mode /\ sm' = sm
    BY <1>4 DEF vars, Now
  <2> QED BY <1>3, <2>1, NowFields
<1>5. ASSUME NEW h \in Hosts, \/ pib_dev_add(h) \/ pib_dev_remove(h) \/ Crash(h)
                              \/ DeliverMulticast(h) \/ ThreadHangs(h)
                              \/ SchedulerPass(h) \/ process_mad(h)
      PROVE  FabricInv' /\ mode' = mode
  <2>1. CASE pib_dev_add(h)
    BY <1>3, <2>1, AddDoes
  <2>2. CASE pib_dev_remove(h)
    BY <1>3, <2>2, RemoveDoes
  <2>3. CASE Crash(h)
    BY <1>3, <2>3, CrashDoes
  <2>4. CASE DeliverMulticast(h)
    BY <1>3, <2>4, MulticastDoes
  <2>5. CASE ThreadHangs(h)
    BY <1>3, <2>5, HangDoes
  <2>6. CASE SchedulerPass(h)
    BY <1>3, <2>6, PassDoes
  <2>7. CASE process_mad(h)
    BY <1>2, <2>7, MadDoes
  <2> QED BY <1>5, <2>1, <2>2, <2>3, <2>4, <2>5, <2>6, <2>7
<1>6. ASSUME NEW p \in Guids, \/ pib_netd_comm_handler(p) \/ HcaReceive(p)
                              \/ SwitchReceive(p) \/ Lose(p)
      PROVE  FabricInv' /\ mode' = mode
  <2>1. CASE pib_netd_comm_handler(p)
    BY <1>3, <2>1, TimerDoes
  <2>2. CASE HcaReceive(p)
    BY <1>3, <2>2, HcaReceiveDoes
  <2>3. CASE SwitchReceive(p)
    BY <1>3, <2>3, SwitchDoes
  <2>4. CASE Lose(p)
    BY <1>3, <2>4, LoseDoes
  <2> QED BY <1>6, <2>1, <2>2, <2>3, <2>4
<1>7. ASSUME NEW m \in Msgs, pib_process_ud_qp_request(m)
      PROVE  FabricInv' /\ mode' = mode
  BY <1>3, <1>7, PostDoes
<1>8. ASSUME NEW q \in QPs, pib_attach_mcast(q) \/ pib_detach_mcast(q) \/ pib_destroy_qp(q)
      PROVE  FabricInv' /\ mode' = mode
  BY <1>3, <1>8, GroupDoes
<1>9. CASE SmSend
  BY <1>2, <1>9, SmSendDoes
<1>10. CASE SmLocal
  BY <1>2, <1>10, SmLocalDoes
<1>11. CASE SmTimeout
  BY <1>2, <1>11, SmTimeoutDoes
<1>12. CASE NetdStart
  BY <1>3, <1>12, StartDoes
<1>13. CASE NetdStop
  BY <1>3, <1>13, StopDoes
<1> QED
  BY <1>4, <1>5, <1>6, <1>7, <1>8, <1>9, <1>10, <1>11, <1>12, <1>13 DEF Next

LEMMA SpecFabric == Spec => []FabricInv
<1>1. Init => FabricInv
  BY InitFabric
<1>2. FabricInv /\ [Next]_vars => FabricInv'
  BY NextFabric
<1> QED
  BY <1>1, <1>2, PTL DEF Spec

LEMMA CameOK ==
  ASSUME mode \in Cases, NEW d \in Sent \cup Came
  PROVE  DatagramOK(d)
<1>0. PortNums = 0..NetdPorts /\ mode.loads \in Nat
  BY ModeFacts DEF PortNums
<1>1. CASE d \in RawSent \cup RawCame
  <2>1. /\ d.t = "raw" /\ d.cmd \in RawCmds /\ d.addr \in 1..mode.loads /\ d.guid \in Guids
        /\ d.via \in PortNums
    BY <1>1 DEF RawSent, RawCame, RawRec, RawCmds
  <2>2. d.addr \in 0..mode.loads
    BY <1>0, <2>1
  <2> QED BY <1>0, <2>1, <2>2 DEF DatagramOK
<1>2. CASE d \in SmpSent \cup SmpCame
  <2>1. d \in SmpRec
    BY <1>2 DEF SmpSent, SmpCame
  <2>2. /\ d.t = "smp" /\ d.cls \in {"dr", "lid"} /\ d.dir \in {0, 1} /\ d.cnt \in 0..2
        /\ d.hop \in 0..2 /\ d.ret \in PortNums /\ d.in0 \in PortNums /\ d.out \in PortNums
        /\ d.via \in PortNums /\ d.guid \in Guids \cup {0}
    BY <2>1 DEF SmpRec
  <2>3. d.hop <= d.cnt
    BY <1>2, <2>2 DEF SmpSent, SmpCame, ForSwitch, ForPort, Returns, Repress, AtPort, Returned, Notice
  <2>4. d.hop \in 0..d.cnt
    BY <2>2, <2>3
  <2> QED BY <1>0, <2>2, <2>4 DEF DatagramOK
<1>3. CASE d \in Wire
  <2>1. d.t = "data" /\ d.m \in Msgs /\ d.pkey \in {0, 1} /\ d.via \in PortNums /\ d.guid \in Guids
    BY <1>3, LockFacts DEF Wire, Data, DataRec
  <2> QED BY <1>0, <2>1 DEF DatagramOK
<1> QED
  BY <1>1, <1>2, <1>3 DEF Sent, Came

LEMMA FabricTypeOK ==
  ASSUME FabricInv
  PROVE  TypeOK
<1>1. /\ mode \in Cases /\ hca \in HcaS /\ port \in PortS /\ sw \in SwS /\ up \in UpS
      /\ down \in DownS /\ lid_table \in LidS /\ log \in LogS
  BY NowFields
<1>2. ASSUME NEW h \in Hosts
      PROVE  /\ hca[h].up \in BOOLEAN /\ hca[h].boot \in 0..mode.loads
             /\ hca[h].lock \in {"free", "held", "hung"}
             /\ hca[h].mcast \subseteq hca[h].qps /\ hca[h].qps \subseteq QPs
             /\ Len(hca[h].mad) <= mode.room
             /\ hca[h].ready.src \in {"none", "LINK", "QP0", "UD"}
             /\ hca[h].mc.src \in {"none", "mc"}
  <2> DEFINE r == hca[h]
  <2>1. r \in HcaRec
    BY <1>1, HcaFacts
  <2> HIDE DEF r
  <2>2. /\ r.up \in BOOLEAN /\ r.boot \in 0..mode.loads
        /\ r.lock \in {"free", "held", "hung"}
        /\ r.mcast \subseteq r.qps /\ r.qps \subseteq QPs /\ Len(r.mad) <= mode.room
        /\ r.ready \in {None} \cup Waiting /\ r.mc \in {None} \cup Copying
    BY <2>1, LockFacts DEF HcaRec
  <2>3. None.src = "none"
    BY DEF None
  <2>4. r.ready.src \in {"none", "LINK", "QP0", "UD"}
    BY <2>2, <2>3 DEF Waiting
  <2>5. r.mc.src \in {"none", "mc"}
    BY <2>2, <2>3 DEF Copying
  <2> QED BY <2>2, <2>4, <2>5 DEF r
<1>3. port \in [Guids -> [state : 1..4, connected : BOOLEAN,
                         lid : {0} \cup Lids, work : BOOLEAN, pkey : {0, 1},
                         bad_pkey_cntr : {0, 1}, ack : 0..mode.netd]]
  BY <1>1, LockFacts DEF PortS, PortT
<1>4. /\ sw.run \in {"running", "stopped", "exited"} /\ sw.boot \in Nat
      /\ sw.port \in [SwPorts -> [guid : {0} \cup Guids, addr : 0..mode.loads]]
      /\ sw.fwd \in [Lids -> 0..NetdPorts] /\ sw.mfwd \subseteq SwPorts
      /\ sw.lid \in {0, SwLid} /\ sw.sm_lid \in {0, Lid[SmPort]}
  <2>1. /\ sw.run \in {"running", "stopped", "exited"} /\ sw.boot \in Nat
        /\ sw.port \in [SwPorts -> SwPort]
        /\ sw.fwd \in [Lids -> 0..NetdPorts] /\ sw.mfwd \subseteq SwPorts
        /\ sw.lid \in {0, SwLid} /\ sw.sm_lid \in {0, Lid[SmPort]}
    BY <1>1 DEF SwS, PortNums
  <2>2. SwPort \subseteq [guid : {0} \cup Guids, addr : 0..mode.loads]
    BY DEF SwPort
  <2>3. sw.port \in [SwPorts -> [guid : {0} \cup Guids, addr : 0..mode.loads]]
    BY <2>1, <2>2
  <2> QED BY <2>1, <2>3
<1>5. ASSUME NEW p \in Guids, NEW queue \in {up[p], down[p]}
      PROVE  Len(queue) <= mode.room /\ \A i \in DOMAIN queue : DatagramOK(queue[i])
  <2>1. up[p] \in Seq(Sent) /\ Len(up[p]) <= mode.room
    BY <1>1 DEF UpS
  <2>2. down[p] \in Seq(Came) /\ Len(down[p]) <= mode.room
    BY <1>1 DEF DownS
  <2>3. Len(queue) <= mode.room /\ \A i \in DOMAIN queue : queue[i] \in Sent \cup Came
    BY <2>1, <2>2
  <2> QED BY <1>1, <2>3, CameOK
<1>6. lid_table \in [Lids -> {0} \cup Guids] /\ log.posted \subseteq Msgs
  BY <1>1 DEF LidS, LogS
<1>7. sm.next \in 1..(Len(mode.script) + 1) /\ sm.sweeps \in 0..mode.sweeps
  BY SmFacts
<1> QED
  BY <1>1, <1>2, <1>3, <1>4, <1>5, <1>6, <1>7 DEF TypeOK

(* Every variable of the fabric keeps its type and no socket or list of    *)
(* SMPs outgrows its buffer, for any number of devices and ports, any      *)
(* workload, any script and any number of losses and restarts: what        *)
(* arrives is always of the forms that receive_packet and process_mad      *)
(* take apart.                                                             *)
THEOREM TypeCorrect == Spec => []TypeOK
BY SpecFabric, FabricTypeOK, PTL

(* A node never has two ports of the switch (process_raw_packet of         *)
(* pibnetd, and the numbering of the easy switch).                         *)
THEOREM OnePort == Spec => []OnePortPerNode
<1>1. FabricInv => OnePortPerNode
  <2> SUFFICES ASSUME FabricInv PROVE OnePortPerNode
    OBVIOUS
  <2>1. sw \in SwS
    BY NowFields
  <2> QED BY <2>1 DEF SwS, OnePortPerNode
<1> QED
  BY <1>1, SpecFabric, PTL
=============================================================================
