-------------------------- MODULE PibFabric_proofs --------------------------
(***************************************************************************)
(* What relates the parts of the network to each other, proved on top of   *)
(* the types of PibNet_proofs: whose lock is lost, where a UD message is   *)
(* and who received it, which ports the switch knows, and where a directed *)
(* route leads.                                                            *)
(***************************************************************************)
EXTENDS PibNet_proofs

-----------------------------------------------------------------------------
(* What sending changes, field by field *)

LEMMA ToSwitchIs ==
  ASSUME NEW n \in Fabric, NEW p \in Guids, NEW d
  PROVE  LET r == ToSwitch(n, p, d)
         IN /\ r.hca = n.hca /\ r.port = n.port /\ r.sw = n.sw /\ r.down = n.down
            /\ r.lids = n.lids /\ r.log = n.log
            /\ \/ r.up = n.up
               \/ n.sw.run = "running" /\ r.up = [n.up EXCEPT ![p] = Enqueue(n.up[p], d)]
<1> DEFINE u == [n.up EXCEPT ![p] = Enqueue(n.up[p], d)]
           r == ToSwitch(n, p, d)
<1>1. CASE n.sw.run # "running"
  BY <1>1 DEF ToSwitch
<1>2. CASE n.sw.run = "running"
  <2>1. r = [n EXCEPT !.up = u]
    BY <1>2 DEF ToSwitch, Fabric
  <2> HIDE DEF u, r
  <2>2. /\ r.hca = n.hca /\ r.port = n.port /\ r.sw = n.sw /\ r.down = n.down
        /\ r.lids = n.lids /\ r.log = n.log /\ r.up = u
    BY <2>1 DEF Fabric
  <2> QED BY <1>2, <2>2 DEF u, r
<1> QED
  BY <1>1, <1>2

LEMMA ToPortIs ==
  ASSUME NEW n \in Fabric, NEW p \in Guids, NEW d
  PROVE  LET r == ToPort(n, p, d)
         IN /\ r.hca = n.hca /\ r.port = n.port /\ r.sw = n.sw /\ r.up = n.up
            /\ r.lids = n.lids /\ r.log = n.log
            /\ \/ r.down = n.down
               \/ n.hca[DevOf[p]].up /\ r.down = [n.down EXCEPT ![p] = Enqueue(n.down[p], d)]
<1> DEFINE u == [n.down EXCEPT ![p] = Enqueue(n.down[p], d)]
           r == ToPort(n, p, d)
<1>1. CASE ~n.hca[DevOf[p]].up
  BY <1>1 DEF ToPort
<1>2. CASE n.hca[DevOf[p]].up
  <2>1. r = [n EXCEPT !.down = u]
    BY <1>2 DEF ToPort, Fabric
  <2> HIDE DEF u, r
  <2>2. /\ r.hca = n.hca /\ r.port = n.port /\ r.sw = n.sw /\ r.up = n.up
        /\ r.lids = n.lids /\ r.log = n.log /\ r.down = u
    BY <2>1 DEF Fabric
  <2> QED BY <1>2, <2>2 DEF u, r
<1> QED
  BY <1>1, <1>2

(* The packet goes to the switch, or to the socket of port k, or both. *)
Goes(n, pk, r) ==
  /\ r.hca = n.hca /\ r.port = n.port /\ r.sw = n.sw /\ r.lids = n.lids
  /\ \/ r.up = n.up
     \/ n.sw.run = "running" /\ r.up = [n.up EXCEPT ![pk.port] = Enqueue(n.up[pk.port], pk.d)]
  /\ \/ r.down = n.down
     \/ \E k \in Guids :
          /\ pk.src = "UD" /\ n.hca[DevOf[k]].up
          /\ r.down = [n.down EXCEPT ![k] = Enqueue(n.down[k], pk.d)]
          /\ pk.d.dlid = Mlid => k = pk.port
          /\ pk.d.dlid # Mlid => r.up = n.up
  /\ r.log = IF pk.src = "UD"
             THEN [n.log EXCEPT !.sent = [n.log.sent EXCEPT ![pk.d.m] = n.log.sent[pk.d.m] + 1]]
             ELSE n.log

LEMMA TransmitDoes ==
  ASSUME mode \in Cases, NEW n \in Fabric, NEW pk \in Packet
  PROVE  Goes(n, pk, Transmit(n, pk))
<1> DEFINE p == pk.port
           d == pk.d
           ud == pk.src = "UD"
           near == ud /\ pib_is_unicast_lid(d.dlid)
           s == SendTo(n, pk)
           l == IF ud /\ ~pib_is_unicast_lid(d.dlid) THEN ToPort(s, p, d) ELSE s
           up1 == [n.up EXCEPT ![p] = Enqueue(n.up[p], d)]
           Down1(k) == [n.down EXCEPT ![k] = Enqueue(n.down[k], d)]
           r == Transmit(n, pk)
<1>1. /\ p \in Guids /\ d \in Sent /\ d.guid = p
      /\ ud => d.m \in Msgs /\ d.dlid \in {Mlid} \cup Lids
  BY PacketFacts
<1>2. s = IF mode.multi THEN ToSwitch(n, p, d)
          ELSE IF near /\ d.dlid = n.port[p].lid THEN ToPort(n, p, d)
          ELSE IF near /\ n.lids[d.dlid] # 0 THEN ToPort(n, n.lids[d.dlid], d)
          ELSE ToSwitch(n, p, d)
  BY Zenon DEF SendTo
<1>3. near <=> ud /\ d.dlid # Mlid
  BY DEF pib_is_unicast_lid
<1>4. s \in Fabric
  BY SendToType
<1>5. near /\ n.lids[d.dlid] # 0 => n.lids[d.dlid] \in Guids
  <2> SUFFICES ASSUME near, n.lids[d.dlid] # 0 PROVE n.lids[d.dlid] \in Guids
    OBVIOUS
  <2>1. n.lids \in [Lids -> {0} \cup Guids]
    BY FabricFields DEF LidS
  <2>2. d.dlid \in Lids
    BY <1>1, <1>3
  <2> QED BY <2>1, <2>2
<1>6. /\ s.hca = n.hca /\ s.port = n.port /\ s.sw = n.sw /\ s.lids = n.lids /\ s.log = n.log
      /\ \/ /\ s.down = n.down
            /\ s.up = n.up \/ (n.sw.run = "running" /\ s.up = up1)
         \/ /\ near /\ s.up = n.up
            /\ \E k \in Guids : n.hca[DevOf[k]].up /\ s.down = Down1(k)
  <2>1. LET t == ToSwitch(n, p, d)
        IN /\ t.hca = n.hca /\ t.port = n.port /\ t.sw = n.sw /\ t.lids = n.lids /\ t.log = n.log
           /\ t.down = n.down /\ (t.up = n.up \/ (n.sw.run = "running" /\ t.up = up1))
    BY <1>1, ToSwitchIs
  <2>2. ASSUME NEW k \in Guids
        PROVE  LET t == ToPort(n, k, d)
               IN /\ t.hca = n.hca /\ t.port = n.port /\ t.sw = n.sw /\ t.lids = n.lids
                  /\ t.log = n.log /\ t.up = n.up
                  /\ t.down = n.down \/ (n.hca[DevOf[k]].up /\ t.down = Down1(k))
    BY ToPortIs
  <2>3. \/ s = ToSwitch(n, p, d)
        \/ near /\ \E k \in Guids : s = ToPort(n, k, d)
    <3> HIDE DEF s, near
    <3> QED BY <1>1, <1>2, <1>5
  <2> HIDE DEF s, near, up1, Down1
  <2>4. CASE s = ToSwitch(n, p, d)
    BY <2>1, <2>4
  <2>5. ASSUME NEW k \in Guids, near, s = ToPort(n, k, d)
        PROVE  /\ s.hca = n.hca /\ s.port = n.port /\ s.sw = n.sw /\ s.lids = n.lids
               /\ s.log = n.log /\ s.up = n.up
               /\ s.down = n.down \/ (n.hca[DevOf[k]].up /\ s.down = Down1(k))
    BY <2>2, <2>5
  <2> QED BY <2>3, <2>4, <2>5
<1> HIDE DEF s
<1>7. l \in Fabric
  <2>1. CASE near \/ ~ud
    BY <1>4, <2>1 DEF near
  <2>2. CASE ud /\ ~near
    <3>1. d \in Came
      BY <2>2, PacketFacts
    <3>2. ToPort(s, p, d) \in Fabric
      BY <1>1, <1>4, <3>1, ToPortType
    <3> QED BY <1>4, <3>2
  <2> QED BY <2>1, <2>2
<1>8. /\ l.hca = n.hca /\ l.port = n.port /\ l.sw = n.sw /\ l.lids = n.lids /\ l.log = n.log
      /\ l.up = n.up \/ (n.sw.run = "running" /\ l.up = up1)
      /\ \/ l.down = n.down
         \/ \E k \in Guids : /\ ud /\ n.hca[DevOf[k]].up /\ l.down = Down1(k)
                             /\ d.dlid = Mlid => k = p
                             /\ d.dlid # Mlid => l.up = n.up
  <2>1. CASE near \/ ~ud
    <3>1. l = s
      BY <2>1 DEF near
    <3> HIDE DEF l, up1, Down1, near, ud
    <3> QED BY <1>3, <1>6, <2>1, <3>1
  <2>2. CASE ud /\ ~near
    <3>1. l = ToPort(s, p, d) /\ d.dlid = Mlid
      BY <1>3, <2>2 DEF near
    <3>2. LET t == ToPort(s, p, d)
          IN /\ t.hca = s.hca /\ t.port = s.port /\ t.sw = s.sw /\ t.lids = s.lids
             /\ t.log = s.log /\ t.up = s.up
             /\ t.down = s.down \/ (s.hca[DevOf[p]].up /\ t.down = [s.down EXCEPT ![p] = Enqueue(s.down[p], d)])
      BY <1>1, <1>4, ToPortIs
    <3>3. s.down = n.down
      <4> HIDE DEF near
      <4> QED BY <1>6, <2>2
    <3>4. l.down = n.down \/ (n.hca[DevOf[p]].up /\ l.down = Down1(p))
      <4> HIDE DEF l, ud, near
      <4> QED BY <1>6, <3>1, <3>2, <3>3
    <3> HIDE DEF l, up1, Down1, near, ud
    <3> QED BY <1>1, <1>6, <2>2, <3>1, <3>2, <3>3, <3>4
  <2> QED BY <2>1, <2>2
<1>9. r = IF ~ud THEN l ELSE [l EXCEPT !.log.sent[d.m] = @ + 1]
  BY DEF Transmit, s
<1> HIDE DEF l
<1> DEFINE g == IF ud THEN [n.log EXCEPT !.sent = [n.log.sent EXCEPT ![d.m] = n.log.sent[d.m] + 1]]
                ELSE n.log
<1>10. r = [l EXCEPT !.log = g]
  <2>1. CASE ~ud
    BY <1>7, <1>8, <1>9, <2>1 DEF Fabric
  <2>2. CASE ud
    <3>1. [l EXCEPT !.log.sent[d.m] = @ + 1]
            = [l EXCEPT !.log = [l.log EXCEPT !.sent = [l.log.sent EXCEPT ![d.m] = l.log.sent[d.m] + 1]]]
      BY <1>7 DEF Fabric
    <3> QED BY <1>8, <1>9, <2>2, <3>1
  <2> QED BY <2>1, <2>2
<1> HIDE DEF r, g
<1>11. /\ r.hca = l.hca /\ r.port = l.port /\ r.sw = l.sw /\ r.lids = l.lids
       /\ r.up = l.up /\ r.down = l.down /\ r.log = g
  BY <1>7, <1>10 DEF Fabric
<1>12. /\ r.hca = n.hca /\ r.port = n.port /\ r.sw = n.sw /\ r.lids = n.lids
       /\ r.up = n.up \/ (n.sw.run = "running" /\ r.up = up1)
       /\ \/ r.down = n.down
          \/ \E k \in Guids : /\ ud /\ n.hca[DevOf[k]].up /\ r.down = Down1(k)
                              /\ d.dlid = Mlid => k = p
                              /\ d.dlid # Mlid => r.up = n.up
       /\ r.log = g
  <2> HIDE DEF up1, Down1, ud
  <2> QED BY <1>8, <1>11
<1>13. Goes(n, pk, r)
  BY <1>12, Zenon DEF Goes, up1, Down1, ud, p, d, g
<1> QED
  BY <1>13 DEF r

LEMMA BufferIs ==
  ASSUME NEW n \in Fabric, NEW h \in Hosts, NEW x
  PROVE  LET r == Buffer(n, h, x)
         IN /\ r.hca = [n.hca EXCEPT ![h] = [n.hca[h] EXCEPT !.ready = x]]
            /\ r.port = n.port /\ r.sw = n.sw /\ r.up = n.up /\ r.down = n.down
            /\ r.lids = n.lids /\ r.log = n.log
<1> DEFINE u == [n.hca EXCEPT ![h] = [n.hca[h] EXCEPT !.ready = x]]
           r == Buffer(n, h, x)
<1>1. r = [n EXCEPT !.hca = u]
  BY DEF Buffer
<1> HIDE DEF u, r
<1>2. /\ r.hca = u
      /\ r.port = n.port /\ r.sw = n.sw /\ r.up = n.up /\ r.down = n.down
      /\ r.lids = n.lids /\ r.log = n.log
  BY <1>1 DEF Fabric
<1> QED
  BY <1>2 DEF u, r

(* Two devices that differ in the send buffer at most *)
Alike(a, b) ==
  /\ a.up = b.up /\ a.boot = b.boot /\ a.lock = b.lock /\ a.mad = b.mad
  /\ a.mc = b.mc /\ a.mcast = b.mcast /\ a.qps = b.qps

LEMMA ReadyAlike ==
  ASSUME NEW f \in HcaS, NEW h \in Hosts, NEW x
  PROVE  LET g == [f EXCEPT ![h] = [f[h] EXCEPT !.ready = x]]
         IN \A k \in Hosts : /\ Alike(g[k], f[k])
                             /\ g[k].ready = IF k = h THEN x ELSE f[k].ready
<1> DEFINE a == [f[h] EXCEPT !.ready = x]
           g == [f EXCEPT ![h] = a]
<1>1. f \in [Hosts -> HcaRec] /\ f[h] \in HcaRec
  BY HcaFacts
<1>2. Alike(a, f[h]) /\ a.ready = x
  BY <1>1 DEF HcaRec, Alike
<1> HIDE DEF a
<1>3. \A k \in Hosts : g[k] = IF k = h THEN a ELSE f[k]
  BY <1>1
<1> HIDE DEF g
<1>4. ASSUME NEW k \in Hosts
      PROVE  Alike(g[k], f[k]) /\ g[k].ready = IF k = h THEN x ELSE f[k].ready
  <2>1. CASE k = h
    BY <1>2, <1>3, <2>1
  <2>2. CASE k # h
    BY <1>3, <2>2 DEF Alike
  <2> QED BY <2>1, <2>2
<1> QED
  BY <1>4 DEF g, a

(* What becomes of the packet pk of the device h: it is dropped, it stays  *)
(* in the buffer, or it goes.                                              *)
Sends(n, h, pk, r) ==
  /\ r.port = n.port /\ r.sw = n.sw /\ r.lids = n.lids
  /\ \A k \in Hosts : Alike(r.hca[k], n.hca[k])
  /\ \A k \in Hosts : k # h => r.hca[k].ready = n.hca[k].ready
  /\ \/ /\ r.up = n.up /\ r.down = n.down /\ r.log = n.log
        /\ r.hca[h].ready = None \/ (pk \in Waiting /\ r.hca[h].ready = pk)
     \/ /\ pk \in Packet /\ r.hca[h].ready = None
        /\ \/ r.up = n.up
           \/ n.sw.run = "running" /\ r.up = [n.up EXCEPT ![pk.port] = Enqueue(n.up[pk.port], pk.d)]
        /\ \/ r.down = n.down
           \/ \E k \in Guids :
                /\ pk.src = "UD" /\ n.hca[DevOf[k]].up
                /\ r.down = [n.down EXCEPT ![k] = Enqueue(n.down[k], pk.d)]
                /\ pk.d.dlid = Mlid => k = pk.port
                /\ pk.d.dlid # Mlid => r.up = n.up
        /\ r.log = IF pk.src = "UD"
                   THEN [n.log EXCEPT !.sent = [n.log.sent EXCEPT ![pk.d.m] = n.log.sent[pk.d.m] + 1]]
                   ELSE n.log

LEMMA BufferSends ==
  ASSUME NEW n \in Fabric, NEW h \in Hosts, NEW pk, NEW x,
         x = None \/ (x = pk /\ pk \in Waiting)
  PROVE  Sends(n, h, pk, Buffer(n, h, x))
<1> DEFINE r == Buffer(n, h, x)
           g == [n.hca EXCEPT ![h] = [n.hca[h] EXCEPT !.ready = x]]
<1>1. /\ r.hca = g
      /\ r.port = n.port /\ r.sw = n.sw /\ r.up = n.up /\ r.down = n.down
      /\ r.lids = n.lids /\ r.log = n.log
  BY BufferIs
<1>2. n.hca \in HcaS
  BY FabricFields
<1>3. \A k \in Hosts : Alike(g[k], n.hca[k]) /\ g[k].ready = IF k = h THEN x ELSE n.hca[k].ready
  <2>1. \A y : \A k \in Hosts : Alike([n.hca EXCEPT ![h] = [n.hca[h] EXCEPT !.ready = y]][k], n.hca[k])
              /\ [n.hca EXCEPT ![h] = [n.hca[h] EXCEPT !.ready = y]][k].ready = IF k = h THEN y ELSE n.hca[k].ready
    BY <1>2, ReadyAlike
  <2> QED BY <2>1
<1> HIDE DEF r, g
<1>5. /\ \A k \in Hosts : Alike(r.hca[k], n.hca[k])
      /\ \A k \in Hosts : k # h => r.hca[k].ready = n.hca[k].ready
      /\ r.hca[h].ready = x
  BY <1>1, <1>3
<1>4. Sends(n, h, pk, r)
  BY <1>1, <1>5, Zenon DEF Sends
<1> QED
  BY <1>4 DEF r

LEMMA GoesSends ==
  ASSUME mode \in Cases, NEW n \in Fabric, NEW h \in Hosts, NEW pk \in Packet
  PROVE  Sends(n, h, pk, Transmit(Buffer(n, h, None), pk))
<1> DEFINE b == Buffer(n, h, None)
           r == Transmit(b, pk)
           g == [n.hca EXCEPT ![h] = [n.hca[h] EXCEPT !.ready = None]]
<1>1. /\ b.hca = g
      /\ b.port = n.port /\ b.sw = n.sw /\ b.up = n.up /\ b.down = n.down
      /\ b.lids = n.lids /\ b.log = n.log
  BY BufferIs
<1>2. n.hca \in HcaS
  BY FabricFields
<1>3. \A k \in Hosts : Alike(g[k], n.hca[k]) /\ g[k].ready = IF k = h THEN None ELSE n.hca[k].ready
  BY <1>2, ReadyAlike
<1>4. b \in Fabric
  BY BufferType
<1> HIDE DEF b, g
<1>5. Goes(b, pk, r)
  BY <1>4, TransmitDoes
<1> HIDE DEF r
<1>6. \A k \in Guids : DevOf[k] \in Hosts
  BY NetFacts
<1>7. \A k \in Guids : b.hca[DevOf[k]].up = n.hca[DevOf[k]].up
  BY <1>1, <1>3, <1>6 DEF Alike
<1>8. /\ r.port = n.port /\ r.sw = n.sw /\ r.lids = n.lids
      /\ \A k \in Hosts : Alike(r.hca[k], n.hca[k])
      /\ \A k \in Hosts : k # h => r.hca[k].ready = n.hca[k].ready
      /\ r.hca[h].ready = None
  BY <1>1, <1>3, <1>5 DEF Goes
<1>9. Sends(n, h, pk, r)
  BY <1>1, <1>5, <1>7, <1>8, ZenonT(30) DEF Goes, Sends
<1> QED
  BY <1>9 DEF r, b

LEMMA SendmsgDoes ==
  ASSUME mode \in Cases, NEW n \in Fabric, NEW h \in Hosts, n.hca[h].ready # None
  PROVE  LET pk == n.hca[h].ready
         IN /\ pk \in Waiting /\ DevOf[pk.port] = h
            /\ Sends(n, h, pk, process_sendmsg(n, h))
<1> DEFINE pk == n.hca[h].ready
           b == Buffer(n, h, None)
           r == process_sendmsg(n, h)
<1>1. pk \in Waiting /\ DevOf[pk.port] = h
  <2>1. n.hca[h] \in HcaRec /\ OfDevice(n.hca[h], h)
    BY FabricFields, HcaFacts
  <2> QED BY <2>1 DEF HcaRec, OfDevice
<1>2. r = IF Undeliverable(pk) THEN b
          ELSE IF ~LinkTakes(n.port[pk.port].state, pk.src) THEN n
          ELSE Transmit(b, pk)
  BY SendmsgCases
<1>3. Buffer(n, h, pk) = n
  <2>1. n.hca \in [Hosts -> HcaRec] /\ n.hca[h] \in HcaRec
    BY FabricFields, HcaFacts
  <2>2. [n.hca[h] EXCEPT !.ready = pk] = n.hca[h]
    BY <2>1 DEF HcaRec
  <2>3. [n.hca EXCEPT ![h] = n.hca[h]] = n.hca
    BY <2>1
  <2>4. [n EXCEPT !.hca = n.hca] = n
    BY DEF Fabric
  <2>5. Buffer(n, h, pk) = [n EXCEPT !.hca = [n.hca EXCEPT ![h] = [n.hca[h] EXCEPT !.ready = pk]]]
    <3> HIDE DEF pk
    <3> QED BY DEF Buffer
  <2> QED BY <2>2, <2>3, <2>4, <2>5
<1> HIDE DEF pk, r
<1>4. Sends(n, h, pk, b)
  BY BufferSends
<1>5. Sends(n, h, pk, n)
  BY <1>1, <1>3, BufferSends
<1>6. ASSUME ~Undeliverable(pk) PROVE Sends(n, h, pk, Transmit(b, pk))
  <2>1. pk \in Packet
    BY <1>1, <1>6, WaitingFacts
  <2> QED BY <2>1, GoesSends
<1>7. Sends(n, h, pk, r)
  <2> HIDE DEF b
  <2> QED BY <1>2, <1>4, <1>5, <1>6
<1> QED
  BY <1>1, <1>7 DEF pk, r

LEMMA BuildDoes ==
  ASSUME mode \in Cases, NEW n \in Fabric, NEW h \in Hosts, NEW p \in Guids, DevOf[p] = h,
         NEW src, NEW d, d.guid = p,
         \/ src = "UD" /\ d \in Data
         \/ src = "QP0" /\ d \in SmpKept
         \/ src = "QP0" /\ d \in SmpSent /\ n.port[p].state # IB_PORT_DOWN
         \/ src = "LINK" /\ d \in RawSent
  PROVE  LET pk == [src |-> src, port |-> p, d |-> d]
         IN Sends(n, h, pk, BuildAndSend(n, h, p, src, d))
<1> DEFINE pk == [src |-> src, port |-> p, d |-> d]
           b == Buffer(n, h, None)
           r == BuildAndSend(n, h, p, src, d)
<1>2. r = IF Undeliverable(pk) THEN b
          ELSE IF ~LinkTakes(n.port[p].state, src) THEN Buffer(n, h, pk)
          ELSE Transmit(b, pk)
  BY BuildCases
<1>3. SmpKept \subseteq SmpSent
  BY DEF SmpKept, SmpSent
<1>4. ASSUME ~Undeliverable(pk) PROVE pk \in Packet
  <2>2. pk.src = src /\ pk.d = d /\ pk.port = p
    OBVIOUS
  <2>3. src = "UD" => d.dlid # 0 /\ d.slid # 0
    BY <1>4, <2>2 DEF Undeliverable
  <2>1. /\ src \in {"LINK", "QP0", "UD"} /\ (src = "UD" => d \in Wire)
        /\ (src = "QP0" => d \in SmpSent) /\ (src = "LINK" => d \in RawSent)
    BY <1>3, <2>3 DEF Wire
  <2>5. d \in Sent
    BY <2>1 DEF Sent
  <2> QED BY <2>1, <2>5 DEF Packet
<1>5. ASSUME ~LinkTakes(n.port[p].state, src) PROVE pk \in Waiting
  <2>1. (src = "UD" /\ d \in Data) \/ (src = "QP0" /\ d \in SmpKept)
    BY <1>5 DEF LinkTakes
  <2> QED BY <2>1 DEF Waiting
<1> HIDE DEF pk
<1>6. Sends(n, h, pk, b)
  BY BufferSends
<1>7. pk \in Waiting => Sends(n, h, pk, Buffer(n, h, pk))
  BY BufferSends
<1>8. pk \in Packet => Sends(n, h, pk, Transmit(b, pk))
  BY GoesSends
<1>9. Sends(n, h, pk, r)
  <2> HIDE DEF b, r
  <2> QED BY <1>2, <1>4, <1>5, <1>6, <1>7, <1>8
<1> QED
  BY <1>9 DEF pk

LEMMA GotOneIs ==
  ASSUME NEW n \in Fabric, NEW m \in Msgs, NEW q \in QPs
  PROVE  LET r == GotOne(n, m, q)
         IN /\ r.hca = n.hca /\ r.port = n.port /\ r.sw = n.sw /\ r.up = n.up /\ r.down = n.down
            /\ r.lids = n.lids /\ r.log.posted = n.log.posted /\ r.log.sent = n.log.sent
            /\ r.log.freed = n.log.freed /\ r.log.misled = n.log.misled
            /\ \A j \in Msgs : \A k \in QPs :
                 r.log.got[j][k] = IF j = m /\ k = q THEN n.log.got[j][k] + 1 ELSE n.log.got[j][k]
<1> DEFINE l == n.log
           e == [l.got[m] EXCEPT ![q] = l.got[m][q] + 1]
           g == [l.got EXCEPT ![m] = e]
           v == [l EXCEPT !.got = g]
           r == GotOne(n, m, q)
<1>1. l \in LogS /\ l.got \in [Msgs -> [QPs -> Nat]] /\ l.got[m] \in [QPs -> Nat]
  BY FabricFields DEF LogS
<1>2. r = [n EXCEPT !.log = v]
  BY <1>1 DEF GotOne, Fabric, LogS
<1>3. \A k \in QPs : e[k] = IF k = q THEN l.got[m][k] + 1 ELSE l.got[m][k]
  BY <1>1
<1> HIDE DEF e
<1>4. \A j \in Msgs : g[j] = IF j = m THEN e ELSE l.got[j]
  BY <1>1
<1> HIDE DEF g
<1>5. /\ v.posted = l.posted /\ v.sent = l.sent /\ v.freed = l.freed /\ v.misled = l.misled /\ v.got = g
  BY <1>1 DEF LogS
<1> HIDE DEF v, r
<1>6. /\ r.hca = n.hca /\ r.port = n.port /\ r.sw = n.sw /\ r.up = n.up /\ r.down = n.down
      /\ r.lids = n.lids /\ r.log = v
  BY <1>2 DEF Fabric
<1>7. ASSUME NEW j \in Msgs, NEW k \in QPs
      PROVE  v.got[j][k] = IF j = m /\ k = q THEN l.got[j][k] + 1 ELSE l.got[j][k]
  BY <1>3, <1>4, <1>5
<1> QED
  BY <1>5, <1>6, <1>7 DEF r, l

-----------------------------------------------------------------------------
(* The lock of a device *)

(* LockIsReleased for every fabric: as long as no P_Key table is changed,  *)
(* every port and every packet has the P_Key of init_port, so that         *)
(* process_incoming_message_per_qp, the receipt of an SMP and the copy of  *)
(* a multicast group release dev->lock on each of their paths, and no      *)
(* reload, removal, crash or late datagram finds it held.                  *)
THEOREM LockReleased == Spec => []LockIsReleased
<1>1. FabricInv => LockIsReleased
  <2> SUFFICES ASSUME FabricInv, ~Rekeyed, NEW h \in Hosts PROVE hca[h].lock = "free"
    BY DEF LockIsReleased
  <2>1. hca[h] \in HcaRec
    BY NowFields, HcaFacts
  <2>2. hca[h].lock \in LockStates
    BY <2>1 DEF HcaRec
  <2> QED BY <2>2, LockFacts
<1> QED
  BY <1>1, SpecFabric, PTL

(* What is left to deliver of a multicast packet is one field of a device. *)
LEMMA CopiesIs ==
  ASSUME NEW n \in Fabric, NEW h \in Hosts, NEW x
  PROVE  LET r == SetCopies(n, h, x)
         IN /\ r.port = n.port /\ r.sw = n.sw /\ r.up = n.up /\ r.down = n.down
            /\ r.lids = n.lids /\ r.log = n.log
            /\ \A k \in Hosts :
                 /\ r.hca[k].up = n.hca[k].up /\ r.hca[k].boot = n.hca[k].boot
                 /\ r.hca[k].lock = n.hca[k].lock /\ r.hca[k].ready = n.hca[k].ready
                 /\ r.hca[k].mad = n.hca[k].mad /\ r.hca[k].mcast = n.hca[k].mcast
                 /\ r.hca[k].qps = n.hca[k].qps
                 /\ r.hca[k].mc = IF k = h THEN x ELSE n.hca[k].mc
<1> DEFINE y == [n.hca[h] EXCEPT !.mc = x]
           f == [n.hca EXCEPT ![h] = y]
           r == SetCopies(n, h, x)
<1>1. n.hca \in [Hosts -> HcaRec] /\ n.hca[h] \in HcaRec
  BY FabricFields, HcaFacts
<1>2. r = [n EXCEPT !.hca = f]
  BY DEF SetCopies, Fabric
<1>3. /\ y.up = n.hca[h].up /\ y.boot = n.hca[h].boot /\ y.lock = n.hca[h].lock
      /\ y.ready = n.hca[h].ready /\ y.mad = n.hca[h].mad /\ y.mcast = n.hca[h].mcast
      /\ y.qps = n.hca[h].qps /\ y.mc = x
  BY <1>1 DEF HcaRec
<1> HIDE DEF y
<1>4. \A k \in Hosts : f[k] = IF k = h THEN y ELSE n.hca[k]
  BY <1>1
<1> HIDE DEF f, r
<1>5. /\ r.port = n.port /\ r.sw = n.sw /\ r.up = n.up /\ r.down = n.down
      /\ r.lids = n.lids /\ r.log = n.log /\ r.hca = f
  BY <1>2 DEF Fabric
<1>6. ASSUME NEW k \in Hosts
      PROVE  /\ f[k].up = n.hca[k].up /\ f[k].boot = n.hca[k].boot
             /\ f[k].lock = n.hca[k].lock /\ f[k].ready = n.hca[k].ready
             /\ f[k].mad = n.hca[k].mad /\ f[k].mcast = n.hca[k].mcast
             /\ f[k].qps = n.hca[k].qps
             /\ f[k].mc = IF k = h THEN x ELSE n.hca[k].mc
  <2>1. CASE k = h
    BY <1>3, <1>4, <2>1
  <2>2. CASE k # h
    BY <1>4, <2>2
  <2> QED BY <2>1, <2>2
<1> QED
  BY <1>5, <1>6 DEF r

-----------------------------------------------------------------------------
(* Steps that no queue, no table and no message is concerned by *)

DevSame(a, b) ==
  a.up = b.up /\ a.boot = b.boot /\ a.ready = b.ready /\ a.mad = b.mad /\ a.mc = b.mc
PortSame(a, b) == a.lid = b.lid /\ a.connected = b.connected /\ a.ack = b.ack
LogSame(a, b) ==
  /\ a.posted = b.posted /\ a.sent = b.sent /\ a.got = b.got
  /\ a.freed = b.freed /\ a.misled = b.misled

Quiet(n, r) ==
  /\ \A h \in Hosts : DevSame(r.hca[h], n.hca[h])
  /\ \A p \in Guids : PortSame(r.port[p], n.port[p])
  /\ r.sw = n.sw /\ r.up = n.up /\ r.down = n.down /\ LogSame(r.log, n.log)

LEMMA QuietSelf ==
  ASSUME NEW n
  PROVE  Quiet(n, n)
BY DEF Quiet, DevSame, PortSame, LogSame

(* One device, or one port, that is the same in what counts *)
LEMMA QuietDev ==
  ASSUME NEW n \in Fabric, NEW r, NEW h \in Hosts, NEW x,
         r = [n EXCEPT !.hca = [n.hca EXCEPT ![h] = x]], DevSame(x, n.hca[h])
  PROVE  Quiet(n, r)
<1> DEFINE f == [n.hca EXCEPT ![h] = x]
<1>1. n.hca \in [Hosts -> HcaRec]
  BY FabricFields, HcaFacts
<1>2. \A k \in Hosts : f[k] = IF k = h THEN x ELSE n.hca[k]
  BY <1>1
<1>3. \A k \in Hosts : DevSame(f[k], n.hca[k])
  BY <1>2 DEF DevSame
<1> HIDE DEF f
<1>4. /\ r.hca = f /\ r.port = n.port /\ r.sw = n.sw /\ r.up = n.up /\ r.down = n.down /\ r.log = n.log
  BY DEF Fabric, f
<1> QED
  BY <1>3, <1>4 DEF Quiet, PortSame, LogSame

LEMMA QuietPort ==
  ASSUME NEW n \in Fabric, NEW r, NEW p \in Guids, NEW x,
         r = [n EXCEPT !.port = [n.port EXCEPT ![p] = x]], PortSame(x, n.port[p])
  PROVE  Quiet(n, r)
<1> DEFINE f == [n.port EXCEPT ![p] = x]
<1>1. n.port \in [Guids -> PortT]
  BY FabricFields DEF PortS
<1>2. \A k \in Guids : f[k] = IF k = p THEN x ELSE n.port[k]
  BY <1>1
<1>3. \A k \in Guids : PortSame(f[k], n.port[k])
  BY <1>2 DEF PortSame
<1> HIDE DEF f
<1>4. /\ r.port = f /\ r.hca = n.hca /\ r.sw = n.sw /\ r.up = n.up /\ r.down = n.down /\ r.log = n.log
  BY DEF Fabric, f
<1> QED
  BY <1>3, <1>4 DEF Quiet, DevSame, LogSame

LEMMA QuietLeaks ==
  ASSUME NEW n \in Fabric, NEW h \in Hosts, NEW p \in Guids
  PROVE  Quiet(n, Leaks(n, h, p))
<1> DEFINE x == [n.hca[h] EXCEPT !.lock = "held"]
           y == [n.port[p] EXCEPT !.bad_pkey_cntr = 1]
           f == [n.hca EXCEPT ![h] = x]
           g == [n.port EXCEPT ![p] = y]
           r == Leaks(n, h, p)
<1>1. r = [n EXCEPT !.hca = f, !.port = g]
  BY DEF Leaks, Lock, Fabric
<1>2. /\ n.hca \in [Hosts -> HcaRec] /\ n.port \in [Guids -> PortT] /\ n.port[p] \in PortT
      /\ n.hca[h] \in HcaRec
  BY FabricFields, HcaFacts DEF PortS
<1>3. PortSame(y, n.port[p]) /\ DevSame(x, n.hca[h])
  BY <1>2 DEF PortT, HcaRec, PortSame, DevSame
<1> HIDE DEF x, y
<1>4. /\ \A k \in Hosts : f[k] = IF k = h THEN x ELSE n.hca[k]
      /\ \A k \in Guids : g[k] = IF k = p THEN y ELSE n.port[k]
  BY <1>2
<1>5. /\ \A k \in Hosts : DevSame(f[k], n.hca[k])
      /\ \A k \in Guids : PortSame(g[k], n.port[k])
  BY <1>3, <1>4 DEF DevSame, PortSame
<1> HIDE DEF f, g, r
<1>6. /\ r.hca = f /\ r.port = g /\ r.sw = n.sw /\ r.up = n.up /\ r.down = n.down /\ r.log = n.log
  BY <1>1 DEF Fabric
<1>7. Quiet(n, r)
  BY <1>5, <1>6 DEF Quiet, LogSame
<1> QED
  BY <1>7 DEF r

LEMMA QuietHang ==
  ASSUME FabricInv, NEW h \in Hosts, ThreadHangs(h)
  PROVE  Quiet(Now, Now')
<1> DEFINE x == [hca[h] EXCEPT !.lock = "hung"]
<1>1. Now' = [Now EXCEPT !.hca = [hca EXCEPT ![h] = x]]
  BY HangDoes
<1>2. Now \in Fabric /\ Now.hca = hca /\ hca[h] \in HcaRec
  BY NowFields, HcaFacts
<1>3. DevSame(x, hca[h])
  BY <1>2 DEF HcaRec, DevSame
<1> HIDE DEF x
<1> QED
  BY <1>1, <1>2, <1>3, QuietDev

LEMMA QuietGroup ==
  ASSUME FabricInv, NEW q \in QPs,
         pib_attach_mcast(q) \/ pib_detach_mcast(q) \/ pib_destroy_qp(q)
  PROVE  Quiet(Now, Now')
<1> DEFINE h == DevOf[QpPort[q]]
<1>1. h \in Hosts /\ \E y \in SUBSET hca[h].qps : \E x \in SUBSET y : Now' = Regroup(h, x, y)
  BY GroupDoes
<1> HIDE DEF h
<1>2. ASSUME NEW x, NEW y, Now' = Regroup(h, x, y) PROVE Quiet(Now, Now')
  <2> DEFINE z == [hca[h] EXCEPT !.mcast = x, !.qps = y]
  <2>1. Now' = [Now EXCEPT !.hca = [hca EXCEPT ![h] = z]]
    BY <1>2 DEF Regroup
  <2>2. Now \in Fabric /\ Now.hca = hca /\ hca[h] \in HcaRec
    BY <1>1, NowFields, HcaFacts
  <2>3. DevSame(z, hca[h])
    BY <2>2 DEF HcaRec, DevSame
  <2> HIDE DEF z
  <2> QED BY <1>1, <2>1, <2>2, <2>3, QuietDev
<1> QED
  BY <1>1, <1>2

LEMMA QuietRearmed ==
  ASSUME FabricInv, NEW p \in Guids
  PROVE  Quiet(Now, Rearmed(p))
<1> DEFINE n == Rearmed(p)
           x == [port[p] EXCEPT !.work = FALSE]
           f == [port EXCEPT ![p] = x]
           c == n.log.faults
<1>1. /\ n \in Fabric /\ n.hca = hca /\ n.sw = sw /\ n.up = up /\ n.down = down
      /\ n.log = [log EXCEPT !.faults = c] /\ n.port = f
  BY RearmedType
<1>2. /\ port \in [Guids -> PortT] /\ port[p] \in PortT /\ log \in LogS
      /\ Now.hca = hca /\ Now.port = port /\ Now.sw = sw /\ Now.up = up
      /\ Now.down = down /\ Now.log = log
  BY NowFields DEF PortS
<1>3. PortSame(x, port[p])
  BY <1>2 DEF PortT, PortSame
<1> HIDE DEF x
<1>4. \A k \in Guids : PortSame(f[k], port[k])
  BY <1>2, <1>3 DEF PortSame
<1> HIDE DEF c, n, f
<1>5. LogSame(n.log, log)
  BY <1>1, <1>2 DEF LogS, LogSame
<1>6. Quiet(Now, n)
  BY <1>1, <1>2, <1>4, <1>5 DEF Quiet, DevSame
<1> QED
  BY <1>6 DEF n

LEMMA QuietTimeout ==
  ASSUME FabricInv, SmTimeout
  PROVE  Quiet(Now, Now')
<1>1. /\ hca' = hca /\ port' = port /\ sw' = sw /\ up' = up /\ down' = down
      /\ log' \in {log, [log EXCEPT !.faults = log.faults + 1]}
  BY SmTimeoutDoes
<1>2. log \in LogS
  BY NowFields
<1> DEFINE c == log.faults + 1
<1>3. log' \in {log, [log EXCEPT !.faults = c]}
  BY <1>1
<1> HIDE DEF c
<1>4. LogSame(log', log)
  BY <1>2, <1>3 DEF LogS, LogSame
<1> QED
  BY <1>1, <1>4 DEF Quiet, DevSame, PortSame, Now

LEMMA QueuedIs ==
  ASSUME NEW n \in Fabric, NEW h \in Hosts, NEW x
  PROVE  LET r == Queued(n, h, x)
         IN /\ r.port = n.port /\ r.sw = n.sw /\ r.up = n.up /\ r.down = n.down
            /\ r.lids = n.lids /\ r.log = n.log
            /\ \A k \in Hosts :
                 /\ r.hca[k].up = n.hca[k].up /\ r.hca[k].boot = n.hca[k].boot
                 /\ r.hca[k].ready = n.hca[k].ready /\ r.hca[k].mc = n.hca[k].mc
                 /\ r.hca[k].mad = IF k = h THEN Enqueue(n.hca[k].mad, x) ELSE n.hca[k].mad
<1> DEFINE e == Enqueue(n.hca[h].mad, x)
           y == [n.hca[h] EXCEPT !.mad = e]
           f == [n.hca EXCEPT ![h] = y]
           r == Queued(n, h, x)
<1>1. n.hca \in [Hosts -> HcaRec] /\ n.hca[h] \in HcaRec
  BY FabricFields, HcaFacts
<1>2. r = [n EXCEPT !.hca = f]
  BY DEF Queued, Fabric
<1>7. e = Enqueue(n.hca[h].mad, x)
  OBVIOUS
<1> HIDE DEF e
<1>3. /\ y.up = n.hca[h].up /\ y.boot = n.hca[h].boot
      /\ y.ready = n.hca[h].ready /\ y.mad = e /\ y.mc = n.hca[h].mc
  BY <1>1 DEF HcaRec
<1> HIDE DEF y
<1>4. \A k \in Hosts : f[k] = IF k = h THEN y ELSE n.hca[k]
  BY <1>1
<1> HIDE DEF f, r
<1>5. /\ r.port = n.port /\ r.sw = n.sw /\ r.up = n.up /\ r.down = n.down
      /\ r.lids = n.lids /\ r.log = n.log /\ r.hca = f
  BY <1>2 DEF Fabric
<1>6. ASSUME NEW k \in Hosts
      PROVE  /\ f[k].up = n.hca[k].up /\ f[k].boot = n.hca[k].boot
             /\ f[k].ready = n.hca[k].ready /\ f[k].mc = n.hca[k].mc
             /\ f[k].mad = IF k = h THEN Enqueue(n.hca[k].mad, x) ELSE n.hca[k].mad
  <2>1. CASE k = h
    BY <1>3, <1>4, <1>7, <2>1
  <2>2. CASE k # h
    BY <1>4, <2>2
  <2> QED BY <2>1, <2>2
<1> QED
  BY <1>5, <1>6 DEF r

LEMMA RawIs ==
  ASSUME NEW n \in Fabric, NEW p \in Guids, NEW d \in RawCame
  PROVE  LET r == process_raw_packet_hca(n, p, d)
         IN /\ r.hca = n.hca /\ r.sw = n.sw /\ r.up = n.up /\ r.down = n.down
            /\ r.lids = n.lids /\ r.log = n.log
            /\ \A k \in Guids : k # p => r.port[k] = n.port[k]
            /\ r.port[p].lid = n.port[p].lid
            /\ IF d.cmd = "CONNECT_ACK" THEN r.port[p].connected /\ r.port[p].ack = d.boot
               ELSE ~r.port[p].connected /\ r.port[p].ack = n.port[p].ack
<1> DEFINE x == RawTaken(n.port[p], d)
           f == [n.port EXCEPT ![p] = x]
           r == process_raw_packet_hca(n, p, d)
<1>1. r = [n EXCEPT !.port[p] = x]
  BY RawHcaDoes
<1>2. n.port \in [Guids -> PortT] /\ n.port[p] \in PortT
  BY FabricFields DEF PortS
<1>3. /\ x.lid = n.port[p].lid
      /\ IF d.cmd = "CONNECT_ACK" THEN x.connected /\ x.ack = d.boot
         ELSE ~x.connected /\ x.ack = n.port[p].ack
  BY <1>2 DEF RawTaken, PortT
<1> HIDE DEF x
<1>4. r = [n EXCEPT !.port = f]
  BY <1>1 DEF Fabric
<1>5. \A k \in Guids : f[k] = IF k = p THEN x ELSE n.port[k]
  BY <1>2
<1> HIDE DEF r, f
<1>6. /\ r.port = f /\ r.hca = n.hca /\ r.sw = n.sw /\ r.up = n.up /\ r.down = n.down
      /\ r.lids = n.lids /\ r.log = n.log
  BY <1>4 DEF Fabric
<1> QED
  BY <1>3, <1>5, <1>6 DEF r

(* The send buffer is tried again, if there is something in it. *)
Retries(n, h, r) ==
  \/ r = n
  \/ LET pk == n.hca[h].ready
     IN pk \in Waiting /\ DevOf[pk.port] = h /\ Sends(n, h, pk, r)

LEMMA RetryDoes ==
  ASSUME mode \in Cases, NEW n \in Fabric, NEW h \in Hosts
  PROVE  Retries(n, h, Retry(n, h))
<1>1. CASE n.hca[h].ready = None
  BY <1>1 DEF Retry, Retries
<1>2. CASE n.hca[h].ready # None
  <2> DEFINE pk == n.hca[h].ready
             r == Retry(n, h)
  <2>1. pk \in Waiting /\ DevOf[pk.port] = h /\ Sends(n, h, pk, r)
    BY <1>2, SendmsgDoes DEF Retry
  <2> HIDE DEF r
  <2>2. Retries(n, h, r)
    BY <2>1 DEF Retries
  <2> QED BY <2>2 DEF r
<1> QED
  BY <1>1, <1>2

(* A UD packet that a queue pair is offered and takes *)
Takes(n, h, p, qpn, d, s) ==
  \E q \in QPs : /\ q \in n.hca[h].qps /\ QpNum[q] = qpn /\ QpPort[q] = p /\ DlidMatches(n, p, d)
                 /\ s = GotOne(n, d.m, q)

LEMMA PerQpMoves ==
  ASSUME mode \in Cases, NEW n \in Fabric, NEW h \in Hosts, NEW p \in Guids,
         NEW d \in Wire, NEW qpn, n.hca[h].lock = "free"
  PROVE  LET r == process_incoming_message_per_qp(n, h, p, qpn, d)
         IN \/ Quiet(n, r)
            \/ \E s \in Fabric : /\ s = n \/ Takes(n, h, p, qpn, d, s)
                                 /\ Retries(s, h, r)
<1> DEFINE r == process_incoming_message_per_qp(n, h, p, qpn, d)
<1>1. \/ r = n
      \/ r = Leaks(n, h, p)
      \/ \E s \in Fabric : Offered(n, h, p, qpn, d, s) /\ r = Retry(s, h)
  BY PerQpDoes
<1> HIDE DEF r
<1>2. ASSUME NEW s \in Fabric, Offered(n, h, p, qpn, d, s), r = Retry(s, h)
      PROVE  (s = n \/ Takes(n, h, p, qpn, d, s)) /\ Retries(s, h, r)
  <2>1. n.hca[h] \in HcaRec
    BY FabricFields, HcaFacts
  <2>2. n.hca[h].qps \subseteq QPs
    BY <2>1 DEF HcaRec
  <2>3. s = n \/ Takes(n, h, p, qpn, d, s)
    BY <1>2, <2>2 DEF Offered, Takes
  <2> QED BY <1>2, <2>3, RetryDoes
<1>3. CASE r = n \/ r = Leaks(n, h, p)
  BY <1>3, QuietSelf, QuietLeaks DEF r
<1> QED
  BY <1>1, <1>2, <1>3, Zenon DEF r

(* What becomes of the datagram d that is taken from the socket of p *)
Arrives(n, p, d, r) ==
  LET h == DevOf[p]
  IN \/ Quiet(n, r)
     \/ d \in RawCame /\ r = process_raw_packet_hca(n, p, d)
     \/ d \in SmpCame /\ \E s \in Fabric : /\ s = Queued(n, h, [port |-> p, d |-> d])
                                           /\ Retries(s, h, r)
     \/ /\ d \in Wire /\ d.dlid # Mlid
        /\ \E s \in Fabric : /\ s = n \/ Takes(n, h, p, d.dqpn, d, s)
                             /\ Retries(s, h, r)
     \/ /\ d \in Group /\ n.port[p].state = IB_PORT_ACTIVE
        /\ CopiesOf(n, h, p, d) \in Copying /\ r = SetCopies(n, h, CopiesOf(n, h, p, d))

LEMMA IncomingMoves ==
  ASSUME mode \in Cases, NEW n \in Fabric, NEW p \in Guids, NEW d \in Came,
         d.t # "raw" => n.hca[DevOf[p]].lock = "free"
  PROVE  Arrives(n, p, d, process_incoming_message(n, DevOf[p], p, d))
<1> DEFINE h == DevOf[p]
           r == process_incoming_message(n, h, p, d)
<1>0. h \in Hosts
  BY NetFacts
<1>7. d \in SmpCame \cup Wire => n.hca[h].lock = "free"
  <2>1. d \in SmpCame \cup Wire => d.t # "raw"
    BY DEF SmpCame, SmpRec, Wire, Data, DataRec
  <2> QED BY <2>1
<1>1. \/ r = n
      \/ d \in RawCame /\ r = process_raw_packet_hca(n, p, d)
      \/ d \in SmpCame /\ r = ReceiveSmp(n, h, p, d)
      \/ /\ d \in Wire /\ n.port[p].state = IB_PORT_ACTIVE /\ d.dlid # Mlid
         /\ r = process_incoming_message_per_qp(n, h, p, d.dqpn, d)
      \/ /\ d \in Wire /\ n.port[p].state = IB_PORT_ACTIVE /\ d.dlid = Mlid
         /\ r = Snapshot(n, h, p, d)
  BY <1>0, IncomingDoes
<1> SUFFICES Arrives(n, p, d, r)
  OBVIOUS
<1> HIDE DEF r
<1>2. CASE r = n
  BY <1>2, QuietSelf DEF Arrives
<1>3. CASE d \in RawCame /\ r = process_raw_packet_hca(n, p, d)
  BY <1>3 DEF Arrives
<1>4. CASE d \in SmpCame /\ r = ReceiveSmp(n, h, p, d)
  <2> DEFINE s == Queued(n, h, [port |-> p, d |-> d])
  <2>1. s \in Fabric /\ (r = n \/ r = Retry(s, h))
    BY <1>0, <1>4, <1>7, ReceiveSmpDoes
  <2>2. CASE r = Retry(s, h)
    <3>1. Retries(s, h, r)
      BY <1>0, <2>1, <2>2, RetryDoes
    <3> QED BY <1>4, <2>1, <3>1, Zenon DEF Arrives
  <2> QED BY <1>2, <2>1, <2>2
<1>5. CASE d \in Wire /\ d.dlid # Mlid /\ r = process_incoming_message_per_qp(n, h, p, d.dqpn, d)
  <2>1. \/ Quiet(n, r)
        \/ \E s \in Fabric : /\ s = n \/ Takes(n, h, p, d.dqpn, d, s)
                             /\ Retries(s, h, r)
    BY <1>0, <1>5, <1>7, PerQpMoves
  <2> QED BY <1>5, <2>1, Zenon DEF Arrives
<1>6. CASE d \in Wire /\ n.port[p].state = IB_PORT_ACTIVE /\ d.dlid = Mlid /\ r = Snapshot(n, h, p, d)
  <2>1. d \in Group
    BY <1>6 DEF Group
  <2>2. r = SetCopies(n, h, CopiesOf(n, h, p, d)) /\ CopiesOf(n, h, p, d) \in Copying
    BY <1>0, <1>6, <1>7, <2>1, SnapshotDoes
  <2> QED BY <1>6, <2>1, <2>2 DEF Arrives
<1> QED
  BY <1>1, <1>2, <1>3, <1>4, <1>5, <1>6

(* The timer of a port that is down sends a CONNECT. *)
LEMMA TimerMoves ==
  ASSUME FabricInv, NEW p \in Guids, pib_netd_comm_handler(p)
  PROVE  \E n \in Fabric :
           /\ Quiet(Now, n)
           /\ \/ Now' = n
              \/ \E s \in Fabric :
                   LET pk == [src |-> "LINK", port |-> p, d |-> RawOf(n, p, "CONNECT")]
                   IN Sends(n, DevOf[p], pk, s) /\ Quiet(s, Now')
<1> DEFINE n == Rearmed(p)
           h == DevOf[p]
           d == RawOf(n, p, "CONNECT")
           s == ToSwitch(Buffer(n, h, None), p, d)
           r == connect_pibnetd(n, p)
           pk == [src |-> "LINK", port |-> p, d |-> d]
           y == [s.port[p] EXCEPT !.work = TRUE]
<1>1. /\ mode.multi /\ hca[h].up
      /\ (Now' = n \/ Now' = r)
  BY TimerDoes
<1>2. n \in Fabric /\ n.hca = hca /\ Quiet(Now, n)
  BY RearmedType, QuietRearmed
<1>3. hca \in HcaS /\ mode \in Cases /\ h \in Hosts
  BY NowFields, NetFacts
<1> HIDE DEF n
<1>4. n.hca[h].boot > 0
  BY <1>1, <1>2, <1>3, HcaFacts DEF HcaRec
<1>5. s \in Fabric /\ r = [s EXCEPT !.port[p] = y]
  BY <1>1, <1>2, <1>3, <1>4, ConnectIs
<1>6. d \in RawSent /\ d.guid = p
  BY <1>1, <1>2, <1>3, <1>4, RawOfType
<1>7. send_raw_packet_to_pibnetd(n, p, "CONNECT") = s
  BY <1>1, <1>2, SendRaw
<1>8. send_raw_packet_to_pibnetd(n, p, "CONNECT") = BuildAndSend(n, h, p, "LINK", d)
  BY DEF send_raw_packet_to_pibnetd, RawOf
<1> HIDE DEF d, h
<1>9. Sends(n, h, pk, BuildAndSend(n, h, p, "LINK", d))
  BY <1>2, <1>3, <1>6, BuildDoes DEF h
<1>10. Sends(n, h, pk, s)
  BY <1>7, <1>8, <1>9
<1> HIDE DEF s
<1>11. Quiet(s, r)
  <2>1. s.port[p] \in PortT
    BY <1>5, FabricFields DEF PortS
  <2>2. PortSame(y, s.port[p])
    BY <2>1 DEF PortT, PortSame
  <2> HIDE DEF y, r
  <2>3. r = [s EXCEPT !.port = [s.port EXCEPT ![p] = y]]
    BY <1>5 DEF Fabric
  <2> QED BY <1>5, <2>2, <2>3, QuietPort
<1> HIDE DEF r
<1>12. CASE Now' = n
  BY <1>2, <1>12
<1>13. CASE Now' = r
  BY <1>2, <1>5, <1>10, <1>11, <1>13, Zenon DEF d, h
<1> QED
  BY <1>1, <1>12, <1>13

-----------------------------------------------------------------------------
(* The packets of UD messages in a queue *)

Has(s, d) == \E i \in 1..Len(s) : s[i] = d
NoRepeat(s) == \A i, j \in 1..Len(s) :
             s[i] \in Wire /\ s[j] \in Wire /\ s[i].m = s[j].m => i = j
Fewer(s, t) == (\A d \in Wire : Has(t, d) => Has(s, d)) /\ (NoRepeat(s) => NoRepeat(t))

LEMMA FewerSelf ==
  ASSUME NEW s
  PROVE  Fewer(s, s)
BY DEF Fewer

LEMMA FewerNone ==
  ASSUME NEW s
  PROVE  Fewer(s, <<>>)
<1>1. 1..Len(<<>>) = {}
  OBVIOUS
<1> QED
  BY <1>1 DEF Fewer, Has, NoRepeat

LEMMA FewerTail ==
  ASSUME NEW S, NEW s \in Seq(S), s # <<>>
  PROVE  /\ Fewer(s, Tail(s)) /\ Has(s, Head(s)) /\ (\A d : Has(Tail(s), d) => Has(s, d))
         /\ NoRepeat(s) /\ Head(s) \in Wire
              => \A e \in Wire : e.m = Head(s).m => ~Has(Tail(s), e)
<1> DEFINE t == Tail(s)
           x == Head(s)
<1>1. /\ t \in Seq(S) /\ Len(s) \in Nat \ {0} /\ Len(t) = Len(s) - 1
      /\ \A i \in 1..Len(t) : i + 1 \in 1..Len(s) /\ t[i] = s[i + 1]
      /\ x \in S /\ 1 \in 1..Len(s) /\ x = s[1]
  BY TailSeq
<1> HIDE DEF t, x
<1>2. \A d : Has(t, d) => Has(s, d)
  BY <1>1 DEF Has
<1>3. NoRepeat(s) => NoRepeat(t)
  <2> SUFFICES ASSUME NoRepeat(s), NEW i \in 1..Len(t), NEW j \in 1..Len(t),
                      t[i] \in Wire, t[j] \in Wire, t[i].m = t[j].m
               PROVE  i = j
    BY DEF NoRepeat
  <2>1. i + 1 = j + 1
    BY <1>1 DEF NoRepeat
  <2> QED BY <2>1
<1>4. Has(s, x)
  BY <1>1 DEF Has
<1>5. ASSUME NoRepeat(s), x \in Wire, NEW e \in Wire, e.m = x.m, Has(t, e) PROVE FALSE
  <2>1. PICK i \in 1..Len(t) : t[i] = e
    BY <1>5 DEF Has
  <2>2. i + 1 \in 1..Len(s) /\ s[i + 1] = e
    BY <1>1, <2>1
  <2>3. i + 1 = 1
    BY <1>1, <1>5, <2>2 DEF NoRepeat
  <2> QED BY <2>3
<1> QED
  BY <1>2, <1>3, <1>4, <1>5 DEF Fewer, t, x

LEMMA PutWire ==
  ASSUME mode \in Cases, NEW S, NEW s \in Seq(S), NEW x \in S
  PROVE  LET t == Enqueue(s, x)
         IN /\ \A d : Has(t, d) => d = x \/ Has(s, d)
            /\ NoRepeat(s) /\ (\A e \in Wire : x \in Wire /\ e.m = x.m => ~Has(s, e)) => NoRepeat(t)
<1> DEFINE t == Enqueue(s, x)
<1>2. t = s \/ t = Append(s, x)
  BY DEF Enqueue
<1> HIDE DEF t
<1>6. /\ Append(s, x) \in Seq(S) /\ Len(Append(s, x)) = Len(s) + 1
      /\ \A i \in 1..Len(s) : Append(s, x)[i] = s[i]
      /\ Append(s, x)[Len(s) + 1] = x
  BY AppendProperties
<1>7. Len(s) \in Nat
  OBVIOUS
<1>3. \A i \in 1..Len(t) : (i \in 1..Len(s) /\ t[i] = s[i]) \/ (t[i] = x /\ i = Len(s) + 1)
  BY <1>2, <1>6, <1>7
<1>4. \A d : Has(t, d) => d = x \/ Has(s, d)
  BY <1>3 DEF Has
<1>5. ASSUME NoRepeat(s), \A e \in Wire : x \in Wire /\ e.m = x.m => ~Has(s, e),
             NEW i \in 1..Len(t), NEW j \in 1..Len(t),
             t[i] \in Wire, t[j] \in Wire, t[i].m = t[j].m
      PROVE  i = j
  <2>1. CASE i \in 1..Len(s) /\ t[i] = s[i] /\ j \in 1..Len(s) /\ t[j] = s[j]
    BY <1>5, <2>1 DEF NoRepeat
  <2>2. CASE i \in 1..Len(s) /\ t[i] = s[i] /\ t[j] = x
    BY <1>5, <2>2 DEF Has
  <2>3. CASE t[i] = x /\ j \in 1..Len(s) /\ t[j] = s[j]
    BY <1>5, <2>3 DEF Has
  <2> QED BY <1>3, <2>1, <2>2, <2>3
<1> QED
  BY <1>4, <1>5 DEF NoRepeat, t

LEMMA FewerPut ==
  ASSUME mode \in Cases, NEW S, NEW s \in Seq(S), NEW x \in S, x \notin Wire
  PROVE  Fewer(s, Enqueue(s, x))
<1> DEFINE t == Enqueue(s, x)
<1>1. /\ \A d : Has(t, d) => d = x \/ Has(s, d)
      /\ NoRepeat(s) /\ (\A e \in Wire : x \in Wire /\ e.m = x.m => ~Has(s, e)) => NoRepeat(t)
  BY PutWire
<1> HIDE DEF t
<1>2. Fewer(s, t)
  BY <1>1 DEF Fewer
<1> QED
  BY <1>2 DEF t

(* What the switch sends is not of this kind. *)
LEMMA FewerGrows ==
  ASSUME mode \in Cases, NEW n \in Fabric, NEW r, r.out \in Seq(OutRec), NEW k \in Guids,
         NEW new, Grows(n, r, k, new), \A i \in 1..Len(r.out) : r.out[i].d \notin Wire
  PROVE  Fewer(n.down[k], new)
<1> DEFINE old == n.down[k]
           a == Len(old)
           b == Len(new)
<1>1. /\ new \in Seq(Came) /\ Len(new) <= mode.room
      /\ Len(n.down[k]) \in Nat /\ Len(n.down[k]) <= Len(new)
      /\ \A i \in 1..Len(n.down[k]) : new[i] = n.down[k][i]
      /\ \E g \in [1..(Len(new) - Len(n.down[k])) -> 1..Len(r.out)] :
              /\ \A i, j \in DOMAIN g : g[i] = g[j] => i = j
              /\ \A i \in 1..Len(new) : i > Len(n.down[k]) =>
                   /\ i - Len(n.down[k]) \in DOMAIN g
                   /\ new[i] = r.out[g[i - Len(n.down[k])]].d
                   /\ Lands(n, r.out[g[i - Len(n.down[k])]], k)
  BY GrowsPlaces
<1>2. \A i \in 1..b : i > a => new[i] \notin Wire
  BY <1>1
<1>3. a \in Nat /\ b \in Nat /\ \A i \in 1..a : new[i] = old[i]
  BY <1>1
<1> HIDE DEF old
<1>4. \A i \in 1..b : new[i] \in Wire => i \in 1..a /\ new[i] = old[i]
  BY <1>2, <1>3
<1>5. \A d \in Wire : Has(new, d) => Has(old, d)
  BY <1>4 DEF Has
<1>6. NoRepeat(old) => NoRepeat(new)
  BY <1>4 DEF NoRepeat
<1> QED
  BY <1>5, <1>6 DEF Fewer, old

LEMMA NotWire ==
  ASSUME NEW d, d \in SmpRec \/ d \in RawSent \/ d \in RawCame
  PROVE  d \notin Wire
BY DEF Wire, Data, DataRec, SmpRec, RawSent, RawCame, RawRec

-----------------------------------------------------------------------------
(* Where a UD message is: in a queue to the switch, in the socket of a     *)
(* port, among the copies that are to be made for a queue pair             *)

InUp(n, m) == \E p \in Guids : \E d \in Wire : d.m = m /\ Has(n.up[p], d)
InDown(n, m, p) == \E d \in Wire : d.m = m /\ Has(n.down[p], d)
InCopy(n, m, q) ==
  LET p == QpPort[q]
      mc == n.hca[DevOf[p]].mc
  IN mc # None /\ mc.port = p /\ mc.d.m = m /\ QpNum[q] \in mc.qpns

(* The LIDs are the ones the subnet manager means the ports to have, and   *)
(* so is everything that was decided by them.                              *)
LidsRight(n) ==
  /\ \A p \in Guids : n.port[p].lid \in {0, Lid[p]}
  /\ \A h \in Hosts : n.hca[h].ready.src = "UD"
       => n.hca[h].ready.d.slid \in {0, Lid[n.hca[h].ready.port]}
  /\ \A p \in Guids : \A d \in Wire :
       Has(n.up[p], d) \/ Has(n.down[p], d) => d.slid = Lid[d.guid]
  /\ \A h \in Hosts : n.hca[h].mc # None /\ n.hca[h].mc.port = n.hca[h].mc.d.guid
       => n.hca[h].mc.d.sqpn \notin n.hca[h].mc.qpns
  /\ \A m \in Msgs : \A q \in QPs : n.log.got[m][q] > 0 =>
       IF MsgDlid[m] = Mlid THEN q # MsgFrom[m]
       ELSE QpNum[q] = MsgQpn[m] /\ Lid[QpPort[q]] = MsgDlid[m]

(* A message that was sent left the buffer, and one that was not is        *)
(* nowhere else.                                                           *)
SentRight(n) ==
  /\ \A m \in Msgs : /\ n.log.sent[m] <= 1
                     /\ m \notin n.log.posted => n.log.sent[m] = 0
                     /\ InUp(n, m) => n.log.sent[m] = 1
                     /\ \A p \in Guids : InDown(n, m, p) => n.log.sent[m] = 1
                     /\ \A q \in QPs : (InCopy(n, m, q) \/ n.log.got[m][q] > 0) => n.log.sent[m] = 1
  /\ \A h \in Hosts : n.hca[h].ready.src = "UD"
       => n.hca[h].ready.d.m \in n.log.posted /\ n.log.sent[n.hca[h].ready.d.m] = 0

(* The switch brings the message m to the port p. *)
Comes(m, p) == MsgDlid[m] # Mlid \/ p # QpPort[MsgFrom[m]]

(* On its way to a queue pair a message is in one place at most. *)
OneEach(n) ==
  /\ \A p \in Guids : NoRepeat(n.up[p]) /\ NoRepeat(n.down[p])
  /\ \A m \in Msgs : \A p \in Guids : InUp(n, m) /\ Comes(m, p) => ~InDown(n, m, p)
  /\ \A m \in Msgs : \A q \in QPs :
       /\ InUp(n, m) /\ Comes(m, QpPort[q]) => ~InCopy(n, m, q) /\ n.log.got[m][q] = 0
       /\ InDown(n, m, QpPort[q]) => ~InCopy(n, m, q) /\ n.log.got[m][q] = 0
       /\ InCopy(n, m, q) => n.log.got[m][q] = 0
       /\ n.log.got[m][q] <= 1

DataRight(n) == (~n.log.misled => LidsRight(n)) /\ SentRight(n) /\ OneEach(n)

(* A UD packet of the device h that was not sent yet *)
Fresh(n, h, pk) ==
  /\ pk.d \in Data /\ pk.d.guid = pk.port /\ DevOf[pk.port] = h
  /\ pk.d.m \in n.log.posted /\ n.log.sent[pk.d.m] = 0
  /\ ~n.log.misled => pk.d.slid \in {0, Lid[pk.port]}

(* Steps that may lose packets and copies and bring no new ones but what   *)
(* stays in the send buffer                                                *)
LessDev(a, b) ==
  b.mc # None => /\ a.mc # None /\ b.mc.port = a.mc.port /\ b.mc.d = a.mc.d
                 /\ b.mc.qpns \subseteq a.mc.qpns
Less(n, r) ==
  /\ \A p \in Guids : Fewer(n.up[p], r.up[p]) /\ Fewer(n.down[p], r.down[p])
  /\ \A h \in Hosts : /\ LessDev(n.hca[h], r.hca[h])
                      /\ r.hca[h].ready.src = "UD"
                           => r.hca[h].ready = n.hca[h].ready \/ Fresh(n, h, r.hca[h].ready)
  /\ r.log.posted = n.log.posted /\ r.log.sent = n.log.sent /\ r.log.got = n.log.got
  /\ ~r.log.misled => /\ ~n.log.misled
                      /\ \A p \in Guids : r.port[p].lid \in {0, Lid[p], n.port[p].lid}

LEMMA LessPlaces ==
  ASSUME NEW n, NEW r, Less(n, r)
  PROVE  /\ \A m : InUp(r, m) => InUp(n, m)
         /\ \A m : \A p \in Guids : InDown(r, m, p) => InDown(n, m, p)
         /\ \A m : \A q \in QPs : InCopy(r, m, q) => InCopy(n, m, q)
<1>1. \A m : InUp(r, m) => InUp(n, m)
  BY DEF Less, Fewer, InUp
<1>2. \A m : \A p \in Guids : InDown(r, m, p) => InDown(n, m, p)
  BY SMTT(30) DEF Less, Fewer, InDown
<1>3. ASSUME NEW m, NEW q \in QPs, InCopy(r, m, q) PROVE InCopy(n, m, q)
  <2>1. DevOf[QpPort[q]] \in Hosts
    BY NetFacts
  <2> DEFINE a == n.hca[DevOf[QpPort[q]]]
             b == r.hca[DevOf[QpPort[q]]]
  <2>2. LessDev(a, b)
    BY <2>1, Zenon DEF Less
  <2> QED BY <1>3, <2>2 DEF InCopy, LessDev
<1> QED
  BY <1>1, <1>2, <1>3

LEMMA LessRight ==
  ASSUME NEW n, NEW r, Less(n, r), DataRight(n)
  PROVE  DataRight(r)
<1>1. /\ \A m : InUp(r, m) => InUp(n, m)
      /\ \A m : \A p \in Guids : InDown(r, m, p) => InDown(n, m, p)
      /\ \A m : \A q \in QPs : InCopy(r, m, q) => InCopy(n, m, q)
  BY LessPlaces
<1>2. r.log.posted = n.log.posted /\ r.log.sent = n.log.sent /\ r.log.got = n.log.got
  BY DEF Less
<1>3. ASSUME ~r.log.misled PROVE LidsRight(r)
  <2>1. LidsRight(n) /\ \A p \in Guids : r.port[p].lid \in {0, Lid[p], n.port[p].lid}
    BY <1>3 DEF Less, DataRight
  <2>2. \A p \in Guids : r.port[p].lid \in {0, Lid[p]}
    BY <2>1 DEF LidsRight
  <2>3. \A h \in Hosts : LessDev(n.hca[h], r.hca[h])
    BY Zenon DEF Less
  <2>8. ~n.log.misled
    BY <1>3, SMTT(30) DEF Less
  <2>4. \A h \in Hosts : r.hca[h].ready.src = "UD"
          => r.hca[h].ready.d.slid \in {0, Lid[r.hca[h].ready.port]}
    <3>1. TAKE h \in Hosts
    <3>2. r.hca[h].ready.src = "UD"
            => r.hca[h].ready = n.hca[h].ready \/ Fresh(n, h, r.hca[h].ready)
      BY Zenon DEF Less
    <3> QED BY <2>1, <2>8, <3>2 DEF LidsRight, Fresh
  <2>5. \A h \in Hosts : r.hca[h].mc # None /\ r.hca[h].mc.port = r.hca[h].mc.d.guid
          => r.hca[h].mc.d.sqpn \notin r.hca[h].mc.qpns
    BY <2>1, <2>3 DEF LidsRight, LessDev
  <2>6. \A p \in Guids : \A d \in Wire :
          Has(r.up[p], d) \/ Has(r.down[p], d) => d.slid = Lid[d.guid]
    BY <2>1 DEF LidsRight, Less, Fewer
  <2>7. \A m \in Msgs : \A q \in QPs : r.log.got[m][q] > 0 =>
          IF MsgDlid[m] = Mlid THEN q # MsgFrom[m]
          ELSE QpNum[q] = MsgQpn[m] /\ Lid[QpPort[q]] = MsgDlid[m]
    BY <1>2, <2>1 DEF LidsRight
  <2> QED BY <2>2, <2>4, <2>5, <2>6, <2>7 DEF LidsRight
<1>4. SentRight(r)
  <2>1. SentRight(n)
    BY DEF DataRight
  <2>2. ASSUME NEW m \in Msgs
        PROVE  /\ r.log.sent[m] <= 1
               /\ m \notin r.log.posted => r.log.sent[m] = 0
               /\ InUp(r, m) => r.log.sent[m] = 1
               /\ \A p \in Guids : InDown(r, m, p) => r.log.sent[m] = 1
               /\ \A q \in QPs : (InCopy(r, m, q) \/ r.log.got[m][q] > 0) => r.log.sent[m] = 1
    BY <1>1, <1>2, <2>1, SMTT(30) DEF SentRight
  <2>3. ASSUME NEW h \in Hosts, r.hca[h].ready.src = "UD"
        PROVE  r.hca[h].ready.d.m \in r.log.posted /\ r.log.sent[r.hca[h].ready.d.m] = 0
    <3>1. r.hca[h].ready = n.hca[h].ready \/ Fresh(n, h, r.hca[h].ready)
      BY <2>3, Zenon DEF Less
    <3> QED BY <1>2, <2>1, <2>3, <3>1 DEF SentRight, Fresh
  <2> QED BY <2>2, <2>3 DEF SentRight
<1>5. OneEach(r)
  <2>1. OneEach(n)
    BY DEF DataRight
  <2>2. \A p \in Guids : NoRepeat(r.up[p]) /\ NoRepeat(r.down[p])
    BY <2>1 DEF OneEach, Less, Fewer
  <2>3. \A m \in Msgs : \A p \in Guids : InUp(r, m) /\ Comes(m, p) => ~InDown(r, m, p)
    BY <1>1, <2>1 DEF OneEach
  <2>4. ASSUME NEW m \in Msgs, NEW q \in QPs
        PROVE  /\ InUp(r, m) /\ Comes(m, QpPort[q]) => ~InCopy(r, m, q) /\ r.log.got[m][q] = 0
               /\ InDown(r, m, QpPort[q]) => ~InCopy(r, m, q) /\ r.log.got[m][q] = 0
               /\ InCopy(r, m, q) => r.log.got[m][q] = 0
               /\ r.log.got[m][q] <= 1
    <3>1. QpPort[q] \in Guids
      BY NetFacts
    <3> QED BY <1>1, <1>2, <2>1, <3>1 DEF OneEach
  <2> QED BY <2>2, <2>3, <2>4 DEF OneEach
<1> QED
  BY <1>3, <1>4, <1>5 DEF DataRight

LEMMA LessQuiet ==
  ASSUME NEW n, NEW r, Quiet(n, r)
  PROVE  Less(n, r)
<1>1. \A h \in Hosts : DevSame(r.hca[h], n.hca[h])
  BY DEF Quiet
<1>2. \A h \in Hosts : /\ LessDev(n.hca[h], r.hca[h])
                       /\ r.hca[h].ready.src = "UD" => r.hca[h].ready = n.hca[h].ready
  BY <1>1 DEF DevSame, LessDev
<1>3. r.log.posted = n.log.posted /\ r.log.sent = n.log.sent /\ r.log.got = n.log.got
        /\ r.log.misled = n.log.misled
  BY DEF Quiet, LogSame
<1>4. \A p \in Guids : r.port[p].lid = n.port[p].lid
  BY DEF Quiet, PortSame
<1>5. \A p \in Guids : Fewer(n.up[p], r.up[p]) /\ Fewer(n.down[p], r.down[p])
  BY FewerSelf DEF Quiet
<1> QED
  BY <1>2, <1>3, <1>4, <1>5, Zenon DEF Less

(* One queue of each kind, after a packet was put into it *)
LEMMA PutUp ==
  ASSUME mode \in Cases, NEW f \in UpS, NEW p \in Guids, NEW d \in Sent, NEW g,
         g = f \/ g = [f EXCEPT ![p] = Enqueue(f[p], d)]
  PROVE  \A k \in Guids : /\ f[k] \in Seq(Sent)
                          /\ g[k] = f[k] \/ (k = p /\ g[k] = Enqueue(f[k], d))
BY DEF UpS

LEMMA PutDown ==
  ASSUME mode \in Cases, NEW f \in DownS, NEW p \in Guids, NEW d \in Came, NEW g,
         g = f \/ g = [f EXCEPT ![p] = Enqueue(f[p], d)]
  PROVE  \A k \in Guids : /\ f[k] \in Seq(Came)
                          /\ g[k] = f[k] \/ (k = p /\ g[k] = Enqueue(f[k], d))
BY DEF DownS

LEMMA SendsLess ==
  ASSUME mode \in Cases, NEW n \in Fabric, NEW h \in Hosts, NEW pk, NEW r, Sends(n, h, pk, r),
         pk.src = "UD" => Fresh(n, h, pk),
         \/ pk.src # "UD"
         \/ r.up = n.up /\ r.down = n.down /\ r.log = n.log
              /\ (r.hca[h].ready = None \/ (pk \in Waiting /\ r.hca[h].ready = pk))
  PROVE  Less(n, r)
<1>1. \A k \in Hosts : LessDev(n.hca[k], r.hca[k])
  BY DEF Sends, Alike, LessDev
<1>2. None.src # "UD"
  BY DEF None
<1>3. \A k \in Hosts : r.hca[k].ready.src = "UD"
                        => r.hca[k].ready = n.hca[k].ready \/ Fresh(n, k, r.hca[k].ready)
  <2>1. \A k \in Hosts : k # h => r.hca[k].ready = n.hca[k].ready
    BY DEF Sends
  <2>2. r.hca[h].ready = None \/ (pk \in Waiting /\ r.hca[h].ready = pk)
    BY DEF Sends
  <2> QED BY <1>2, <2>1, <2>2
<1>4. r.port = n.port /\ r.log = n.log
  BY DEF Sends
<1>5. ASSUME NEW p \in Guids PROVE Fewer(n.up[p], r.up[p]) /\ Fewer(n.down[p], r.down[p])
  <2>1. CASE r.up = n.up /\ r.down = n.down
    BY <2>1, FewerSelf
  <2>2. CASE ~(r.up = n.up /\ r.down = n.down)
    <3>1. pk.src # "UD"
      BY <2>2
    <3>2. /\ pk \in Packet /\ r.down = n.down
          /\ r.up = [n.up EXCEPT ![pk.port] = Enqueue(n.up[pk.port], pk.d)]
      BY <2>2, <3>1 DEF Sends
    <3> DEFINE d == pk.d
               a == pk.port
    <3>3. d \in Sent /\ a \in Guids /\ d \notin Wire
      <4>1. d \in Sent /\ a \in Guids /\ (d \in SmpSent \/ d \in RawSent)
        BY <3>1, <3>2, PacketFacts
      <4>2. d \in SmpSent => d \in SmpRec
        BY DEF SmpSent
      <4> QED BY <4>1, <4>2, NotWire
    <3>4. r.up = [n.up EXCEPT ![a] = Enqueue(n.up[a], d)]
      BY <3>2
    <3> HIDE DEF d, a
    <3>5. n.up \in UpS
      BY FabricFields
    <3>6. n.up[p] \in Seq(Sent) /\ (r.up[p] = n.up[p] \/ r.up[p] = Enqueue(n.up[p], d))
      BY <3>3, <3>4, <3>5, PutUp
    <3>7. Fewer(n.up[p], r.up[p])
      BY <3>3, <3>6, FewerSelf, FewerPut
    <3> QED BY <3>2, <3>7, FewerSelf
  <2> QED BY <2>1, <2>2
<1> QED
  BY <1>1, <1>3, <1>4, <1>5, Zenon DEF Less

(* A message that was not sent is in no queue and at no queue pair. *)
LEMMA Unsent ==
  ASSUME NEW n \in Fabric, DataRight(n), NEW m \in Msgs, n.log.sent[m] = 0
  PROVE  /\ ~InUp(n, m) /\ \A p \in Guids : ~InDown(n, m, p)
         /\ \A q \in QPs : ~InCopy(n, m, q) /\ n.log.got[m][q] = 0
<1>1. \A q \in QPs : n.log.got[m][q] \in Nat
  BY FabricFields DEF LogS
<1>2. SentRight(n)
  BY DEF DataRight
<1> QED
  BY <1>1, <1>2 DEF SentRight

LEMMA GoesRight ==
  ASSUME mode \in Cases, NEW n \in Fabric, NEW h \in Hosts, NEW pk \in Packet, NEW r,
         Sends(n, h, pk, r), pk.src = "UD", Fresh(n, h, pk), DataRight(n),
         ~(r.up = n.up /\ r.down = n.down /\ r.log = n.log
              /\ (r.hca[h].ready = None \/ (pk \in Waiting /\ r.hca[h].ready = pk)))
  PROVE  DataRight(r)
<1> DEFINE d == pk.d
           m == d.m
           a == pk.port
           snt == [n.log.sent EXCEPT ![m] = n.log.sent[m] + 1]
<1>1. /\ r.port = n.port
      /\ \A k \in Hosts : r.hca[k].mc = n.hca[k].mc
      /\ \A k \in Hosts : k # h => r.hca[k].ready = n.hca[k].ready
      /\ r.hca[h].ready = None
      /\ r.up = n.up \/ r.up = [n.up EXCEPT ![a] = Enqueue(n.up[a], d)]
      /\ \/ r.down = n.down
         \/ \E k \in Guids : /\ r.down = [n.down EXCEPT ![k] = Enqueue(n.down[k], d)]
                             /\ d.dlid = Mlid => k = a
                             /\ d.dlid # Mlid => r.up = n.up
      /\ r.log = [n.log EXCEPT !.sent = snt]
  BY DEF Sends, Alike
<1>2. /\ d \in Wire /\ d \in Came /\ d \in Sent /\ m \in Msgs /\ a \in Guids /\ d.guid = a
      /\ a = QpPort[MsgFrom[m]] /\ d.dlid = MsgDlid[m]
  <2>1. d \in Wire /\ d \in Came /\ d \in Sent /\ m \in Msgs /\ a \in Guids /\ d.guid = a
    BY PacketFacts
  <2> QED BY <2>1 DEF Wire, Data
<1>3. /\ m \in n.log.posted /\ n.log.sent[m] = 0 /\ DevOf[a] = h
      /\ ~n.log.misled => d.slid \in {0, Lid[a]}
  BY DEF Fresh
<1>4. d.slid # 0
  BY <1>2 DEF Wire
<1>5. n.log \in LogS /\ n.log.sent \in [Msgs -> Nat] /\ n.up \in UpS /\ n.down \in DownS
  BY FabricFields DEF LogS
<1>6. \A j \in Msgs : snt[j] = IF j = m THEN 1 ELSE n.log.sent[j]
  BY <1>2, <1>3, <1>5
<1> HIDE DEF snt, d, m, a
<1>7. /\ r.log.sent = snt /\ r.log.posted = n.log.posted /\ r.log.got = n.log.got
      /\ r.log.misled = n.log.misled
  BY <1>1, <1>5 DEF LogS
<1>8. \A k \in Guids : /\ n.up[k] \in Seq(Sent)
                       /\ r.up[k] = n.up[k] \/ (k = a /\ r.up[k] = Enqueue(n.up[k], d))
  BY <1>1, <1>2, <1>5, PutUp
<1>9. \A k \in Guids : /\ n.down[k] \in Seq(Came)
                       /\ r.down[k] = n.down[k]
                            \/ (/\ r.down[k] = Enqueue(n.down[k], d)
                                /\ d.dlid = Mlid => k = a
                                /\ d.dlid # Mlid => r.up = n.up)
  <2>1. CASE r.down = n.down
    BY <1>5, <2>1 DEF DownS
  <2>2. ASSUME NEW k \in Guids, r.down = [n.down EXCEPT ![k] = Enqueue(n.down[k], d)]
        PROVE  \A j \in Guids : /\ n.down[j] \in Seq(Came)
                                /\ r.down[j] = n.down[j]
                                     \/ (j = k /\ r.down[j] = Enqueue(n.down[j], d))
    BY <1>2, <1>5, <2>2, PutDown
  <2> QED BY <1>1, <2>1, <2>2
<1>10. /\ ~InUp(n, m) /\ \A p \in Guids : ~InDown(n, m, p)
       /\ \A q \in QPs : ~InCopy(n, m, q) /\ n.log.got[m][q] = 0
  BY <1>2, <1>3, Unsent
<1>11. /\ \A k \in Guids : \A e \in Wire : Has(r.up[k], e) => e = d \/ Has(n.up[k], e)
       /\ \A k \in Guids : \A e \in Wire : Has(r.down[k], e) => e = d \/ Has(n.down[k], e)
  BY <1>2, <1>8, <1>9, PutWire
<1>12. /\ \A j : InUp(r, j) => j = m \/ InUp(n, j)
       /\ \A j : \A p \in Guids : InDown(r, j, p) => j = m \/ InDown(n, j, p)
       /\ \A j : \A q \in QPs : InCopy(r, j, q) <=> InCopy(n, j, q)
  <2>1. \A j : InUp(r, j) => j = m \/ InUp(n, j)
    BY <1>11 DEF InUp, m
  <2>2. \A j : \A p \in Guids : InDown(r, j, p) => j = m \/ InDown(n, j, p)
    BY <1>11 DEF InDown, m
  <2>3. \A j : \A q \in QPs : InCopy(r, j, q) <=> InCopy(n, j, q)
    BY <1>1, NetFacts DEF InCopy
  <2> QED BY <2>1, <2>2, <2>3
<1>13. \A k \in Guids : NoRepeat(r.up[k]) /\ NoRepeat(r.down[k])
  <2>1. TAKE k \in Guids
  <2>2. NoRepeat(n.up[k]) /\ NoRepeat(n.down[k])
    BY DEF DataRight, OneEach
  <2>3. \A e \in Wire : e.m = d.m => ~Has(n.up[k], e) /\ ~Has(n.down[k], e)
    BY <1>10 DEF InUp, InDown, m
  <2>4. NoRepeat(Enqueue(n.up[k], d)) /\ NoRepeat(Enqueue(n.down[k], d))
    BY <1>2, <1>8, <1>9, <2>2, <2>3, PutWire
  <2> QED BY <1>8, <1>9, <2>2, <2>4
<1>14. \A p \in Guids : InUp(r, m) /\ Comes(m, p) => ~InDown(r, m, p)
  <2> SUFFICES ASSUME NEW p \in Guids, InUp(r, m), InDown(r, m, p) PROVE ~Comes(m, p)
    OBVIOUS
  <2>1. r.down[p] # n.down[p]
    BY <1>10 DEF InDown
  <2>2. r.up # n.up
    BY <1>10 DEF InUp
  <2>3. d.dlid = Mlid /\ p = a
    BY <1>9, <2>1, <2>2
  <2> QED BY <1>2, <2>3 DEF Comes
<1>15. ASSUME ~r.log.misled PROVE LidsRight(r)
  <2>1. LidsRight(n) /\ d.slid = Lid[a]
    BY <1>3, <1>4, <1>7, <1>15 DEF DataRight
  <2>2. \A p \in Guids : r.port[p].lid \in {0, Lid[p]}
    BY <1>1, <2>1 DEF LidsRight
  <2>3. \A k \in Hosts : r.hca[k].ready.src = "UD"
          => r.hca[k].ready.d.slid \in {0, Lid[r.hca[k].ready.port]}
    BY <1>1, <2>1 DEF LidsRight, None
  <2>4. \A k \in Hosts : r.hca[k].mc # None /\ r.hca[k].mc.port = r.hca[k].mc.d.guid
          => r.hca[k].mc.d.sqpn \notin r.hca[k].mc.qpns
    BY <1>1, <2>1 DEF LidsRight
  <2>5. \A p \in Guids : \A e \in Wire :
          Has(r.up[p], e) \/ Has(r.down[p], e) => e.slid = Lid[e.guid]
    BY <1>2, <1>11, <2>1 DEF LidsRight
  <2>6. \A j \in Msgs : \A q \in QPs : r.log.got[j][q] > 0 =>
          IF MsgDlid[j] = Mlid THEN q # MsgFrom[j]
          ELSE QpNum[q] = MsgQpn[j] /\ Lid[QpPort[q]] = MsgDlid[j]
    BY <1>7, <2>1 DEF LidsRight
  <2> QED BY <2>2, <2>3, <2>4, <2>5, <2>6 DEF LidsRight
<1>16. SentRight(r)
  <2>1. SentRight(n)
    BY DEF DataRight
  <2>2. ASSUME NEW j \in Msgs
        PROVE  /\ r.log.sent[j] <= 1
               /\ j \notin r.log.posted => r.log.sent[j] = 0
               /\ InUp(r, j) => r.log.sent[j] = 1
               /\ \A p \in Guids : InDown(r, j, p) => r.log.sent[j] = 1
               /\ \A q \in QPs : (InCopy(r, j, q) \/ r.log.got[j][q] > 0) => r.log.sent[j] = 1
    <3>1. CASE j = m
      BY <1>3, <1>6, <1>7, <3>1
    <3>2. CASE j # m
      BY <1>6, <1>7, <1>12, <2>1, <3>2 DEF SentRight
    <3> QED BY <3>1, <3>2
  <2>3. ASSUME NEW k \in Hosts, r.hca[k].ready.src = "UD"
        PROVE  r.hca[k].ready.d.m \in r.log.posted /\ r.log.sent[r.hca[k].ready.d.m] = 0
    <3> DEFINE w == n.hca[k].ready
    <3>1. k # h /\ r.hca[k].ready = w
      BY <1>1, <2>3 DEF None
    <3>2. w \in Waiting /\ DevOf[w.port] = k
      <4>1. n.hca[k] \in HcaRec /\ OfDevice(n.hca[k], k)
        BY FabricFields, HcaFacts
      <4> QED BY <2>3, <3>1, <4>1 DEF HcaRec, OfDevice, None
    <3>3. w.d \in Data /\ w.d.guid = w.port
      BY <2>3, <3>1, <3>2, WaitingFacts
    <3>4. w.d.m \in Msgs /\ w.d.guid = QpPort[MsgFrom[w.d.m]]
      BY <3>3 DEF Data, DataRec
    <3>5. w.d.m # m
      BY <1>2, <1>3, <3>1, <3>2, <3>3, <3>4
    <3>6. w.d.m \in n.log.posted /\ n.log.sent[w.d.m] = 0
      BY <2>1, <2>3, <3>1 DEF SentRight
    <3> QED BY <1>6, <1>7, <3>1, <3>4, <3>5, <3>6
  <2> QED BY <2>2, <2>3 DEF SentRight
<1>17. OneEach(r)
  <2>1. OneEach(n)
    BY DEF DataRight
  <2>2. ASSUME NEW j \in Msgs, NEW p \in Guids PROVE InUp(r, j) /\ Comes(j, p) => ~InDown(r, j, p)
    <3>1. CASE j = m
      BY <1>14, <3>1
    <3>2. CASE j # m
      BY <1>12, <2>1, <3>2 DEF OneEach
    <3> QED BY <3>1, <3>2
  <2>3. ASSUME NEW j \in Msgs, NEW q \in QPs
        PROVE  /\ InUp(r, j) /\ Comes(j, QpPort[q]) => ~InCopy(r, j, q) /\ r.log.got[j][q] = 0
               /\ InDown(r, j, QpPort[q]) => ~InCopy(r, j, q) /\ r.log.got[j][q] = 0
               /\ InCopy(r, j, q) => r.log.got[j][q] = 0
               /\ r.log.got[j][q] <= 1
    <3>0. QpPort[q] \in Guids
      BY NetFacts
    <3>1. CASE j = m
      BY <1>7, <1>10, <1>12, <3>1
    <3>2. CASE j # m
      BY <1>7, <1>12, <2>1, <3>0, <3>2 DEF OneEach
    <3> QED BY <3>1, <3>2
  <2> QED BY <1>13, <2>2, <2>3 DEF OneEach
<1> QED
  BY <1>15, <1>16, <1>17 DEF DataRight

LEMMA SendsRight ==
  ASSUME mode \in Cases, NEW n \in Fabric, NEW h \in Hosts, NEW pk, NEW r, Sends(n, h, pk, r),
         pk.src = "UD" => Fresh(n, h, pk), DataRight(n)
  PROVE  DataRight(r)
<1> DEFINE kept == r.up = n.up /\ r.down = n.down /\ r.log = n.log
                     /\ (r.hca[h].ready = None \/ (pk \in Waiting /\ r.hca[h].ready = pk))
<1>1. CASE pk.src # "UD" \/ kept
  <2>1. Less(n, r)
    BY <1>1, SendsLess
  <2> QED BY <2>1, LessRight
<1>2. CASE pk.src = "UD" /\ ~kept
  <2>1. pk \in Packet
    BY <1>2 DEF Sends
  <2> QED BY <1>2, <2>1, GoesRight
<1> QED
  BY <1>1, <1>2

LEMMA RetriesRight ==
  ASSUME mode \in Cases, NEW n \in Fabric, NEW h \in Hosts, NEW r, Retries(n, h, r), DataRight(n)
  PROVE  DataRight(r)
<1> DEFINE pk == n.hca[h].ready
<1>1. CASE pk \in Waiting /\ DevOf[pk.port] = h /\ Sends(n, h, pk, r)
  <2>1. ASSUME pk.src = "UD" PROVE Fresh(n, h, pk)
    <3>1. pk.d \in Data /\ pk.d.guid = pk.port
      BY <1>1, <2>1, WaitingFacts
    <3>2. pk.d.m \in n.log.posted /\ n.log.sent[pk.d.m] = 0
      BY <2>1 DEF DataRight, SentRight
    <3>3. ~n.log.misled => pk.d.slid \in {0, Lid[pk.port]}
      BY <2>1 DEF DataRight, LidsRight
    <3> HIDE DEF pk
    <3> QED BY <1>1, <3>1, <3>2, <3>3 DEF Fresh
  <2> HIDE DEF pk
  <2> QED BY <1>1, <2>1, SendsRight
<1> QED
  BY <1>1 DEF Retries

(* A message that is due at a queue pair: it was sent, it is in no place   *)
(* from which it would come to it again.                                   *)
Due(n, m, q) ==
  /\ ~InDown(n, m, QpPort[q]) /\ ~InCopy(n, m, q) /\ n.log.got[m][q] = 0
  /\ InUp(n, m) => ~Comes(m, QpPort[q])
  /\ n.log.sent[m] = 1

LEMMA GotRight ==
  ASSUME NEW n \in Fabric, DataRight(n), NEW m \in Msgs, NEW q \in QPs, Due(n, m, q),
         ~n.log.misled => IF MsgDlid[m] = Mlid THEN q # MsgFrom[m]
                          ELSE QpNum[q] = MsgQpn[m] /\ Lid[QpPort[q]] = MsgDlid[m]
  PROVE  DataRight(GotOne(n, m, q))
<1> DEFINE r == GotOne(n, m, q)
<1>1. /\ r.hca = n.hca /\ r.port = n.port /\ r.up = n.up /\ r.down = n.down
      /\ r.log.posted = n.log.posted /\ r.log.sent = n.log.sent /\ r.log.misled = n.log.misled
      /\ \A j \in Msgs : \A k \in QPs :
           r.log.got[j][k] = IF j = m /\ k = q THEN n.log.got[j][k] + 1 ELSE n.log.got[j][k]
  BY GotOneIs
<1> HIDE DEF r
<1>2. /\ \A j : InUp(r, j) <=> InUp(n, j)
      /\ \A j : \A p \in Guids : InDown(r, j, p) <=> InDown(n, j, p)
      /\ \A j : \A k \in QPs : InCopy(r, j, k) <=> InCopy(n, j, k)
  BY <1>1 DEF InUp, InDown, InCopy
<1>3. r.log.got[m][q] = 1 /\ \A j \in Msgs : \A k \in QPs : j # m \/ k # q => r.log.got[j][k] = n.log.got[j][k]
  BY <1>1 DEF Due
<1>4. ASSUME ~r.log.misled PROVE LidsRight(r)
  <2>1. LidsRight(n) /\ ~n.log.misled
    BY <1>1, <1>4 DEF DataRight
  <2>2. \A j \in Msgs : \A k \in QPs : r.log.got[j][k] > 0 =>
          IF MsgDlid[j] = Mlid THEN k # MsgFrom[j]
          ELSE QpNum[k] = MsgQpn[j] /\ Lid[QpPort[k]] = MsgDlid[j]
    BY <1>3, <2>1 DEF LidsRight
  <2> QED BY <1>1, <2>1, <2>2 DEF LidsRight
<1>5. SentRight(r)
  <2>1. SentRight(n)
    BY DEF DataRight
  <2>2. ASSUME NEW j \in Msgs
        PROVE  /\ r.log.sent[j] <= 1
               /\ j \notin r.log.posted => r.log.sent[j] = 0
               /\ InUp(r, j) => r.log.sent[j] = 1
               /\ \A p \in Guids : InDown(r, j, p) => r.log.sent[j] = 1
               /\ \A k \in QPs : InCopy(r, j, k) => r.log.sent[j] = 1
    BY <1>1, <1>2, <2>1 DEF SentRight
  <2>3. ASSUME NEW j \in Msgs, NEW k \in QPs, r.log.got[j][k] > 0 PROVE r.log.sent[j] = 1
    <3>1. CASE j = m /\ k = q
      BY <1>1, <3>1 DEF Due
    <3>2. CASE j # m \/ k # q
      BY <1>1, <1>3, <2>1, <2>3, <3>2 DEF SentRight
    <3> QED BY <3>1, <3>2
  <2>4. \A h \in Hosts : r.hca[h].ready.src = "UD"
          => r.hca[h].ready.d.m \in r.log.posted /\ r.log.sent[r.hca[h].ready.d.m] = 0
    BY <1>1, <2>1 DEF SentRight
  <2> QED BY <2>2, <2>3, <2>4 DEF SentRight
<1>6. OneEach(r)
  <2>1. OneEach(n)
    BY DEF DataRight
  <2>2. \A p \in Guids : NoRepeat(r.up[p]) /\ NoRepeat(r.down[p])
    BY <1>1, <2>1 DEF OneEach
  <2>3. \A j \in Msgs : \A p \in Guids : InUp(r, j) /\ Comes(j, p) => ~InDown(r, j, p)
    BY <1>2, <2>1 DEF OneEach
  <2>4. ASSUME NEW j \in Msgs, NEW k \in QPs
        PROVE  /\ InUp(r, j) /\ Comes(j, QpPort[k]) => ~InCopy(r, j, k) /\ r.log.got[j][k] = 0
               /\ InDown(r, j, QpPort[k]) => ~InCopy(r, j, k) /\ r.log.got[j][k] = 0
               /\ InCopy(r, j, k) => r.log.got[j][k] = 0
               /\ r.log.got[j][k] <= 1
    <3>0. QpPort[k] \in Guids
      BY NetFacts
    <3>1. CASE j = m /\ k = q
      BY <1>2, <1>3, <3>0, <3>1 DEF Due
    <3>2. CASE j # m \/ k # q
      BY <1>2, <1>3, <2>1, <3>0, <3>2 DEF OneEach
    <3> QED BY <3>1, <3>2
  <2> QED BY <2>2, <2>3, <2>4 DEF OneEach
<1> QED
  BY <1>4, <1>5, <1>6 DEF DataRight, r

(* The packet d is taken from the socket of p. *)
LEMMA PopRight ==
  ASSUME NEW n \in Fabric, NEW b, DataRight(n), NEW p \in Guids, n.down[p] # <<>>,
         b.hca = n.hca, b.port = n.port, b.up = n.up, b.log = n.log,
         b.down = [n.down EXCEPT ![p] = Tail(n.down[p])]
  PROVE  LET d == Head(n.down[p])
         IN /\ DataRight(b)
            /\ d \in Wire => /\ ~n.log.misled => d.slid = Lid[d.guid]
                             /\ \A q \in QPs : QpPort[q] = p => Due(b, d.m, q)
<1> DEFINE s == n.down[p]
           d == Head(s)
           m == d.m
<1>1. n.down \in [Guids -> Seq(Came)] /\ s \in Seq(Came) /\ s # <<>>
  BY FabricFields DEF DownS
<1>2. /\ Fewer(s, Tail(s)) /\ Has(s, d)
      /\ NoRepeat(s) /\ d \in Wire => \A e \in Wire : e.m = m => ~Has(Tail(s), e)
  BY <1>1, FewerTail
<1>3. \A k \in Guids : b.down[k] = IF k = p THEN Tail(s) ELSE n.down[k]
  BY <1>1
<1> HIDE DEF s, d
<1>4. Less(n, b)
  <2>1. \A k \in Guids : Fewer(n.up[k], b.up[k]) /\ Fewer(n.down[k], b.down[k])
    BY <1>2, <1>3, FewerSelf DEF s
  <2>2. \A h \in Hosts : LessDev(n.hca[h], b.hca[h]) /\ b.hca[h].ready = n.hca[h].ready
    BY DEF LessDev
  <2> QED BY <2>1, <2>2, Zenon DEF Less
<1>5. DataRight(b)
  BY <1>4, LessRight
<1>6. ASSUME d \in Wire, NEW q \in QPs, QpPort[q] = p PROVE Due(b, m, q)
  <2>1. m \in Msgs
    BY <1>6 DEF Wire, Data, DataRec
  <2>2. InDown(n, m, p)
    BY <1>2, <1>6 DEF InDown, s
  <2>3. NoRepeat(s)
    BY DEF DataRight, OneEach, s
  <2>4. ~InDown(b, m, p)
    BY <1>2, <1>3, <1>6, <2>3 DEF InDown
  <2>5. ~InCopy(n, m, q) /\ n.log.got[m][q] = 0 /\ (InUp(n, m) => ~Comes(m, p))
    BY <1>6, <2>1, <2>2 DEF DataRight, OneEach
  <2>6. n.log.sent[m] = 1
    BY <2>1, <2>2 DEF DataRight, SentRight
  <2>7. (InCopy(b, m, q) <=> InCopy(n, m, q)) /\ (InUp(b, m) <=> InUp(n, m))
    BY DEF InCopy, InUp
  <2> QED BY <1>6, <2>4, <2>5, <2>6, <2>7 DEF Due
<1>7. ASSUME d \in Wire, ~n.log.misled PROVE d.slid = Lid[d.guid]
  BY <1>2, <1>7 DEF DataRight, LidsRight, s
<1> QED
  BY <1>5, <1>6, <1>7 DEF s, d

(* A queue pair takes a packet that is due to it. *)
LEMMA TakesRight ==
  ASSUME mode \in Cases, NEW n \in Fabric, NEW h \in Hosts, NEW p \in Guids, NEW d \in Wire,
         NEW qpn, NEW s, Takes(n, h, p, qpn, d, s), DataRight(n),
         \A q \in QPs : q \in n.hca[h].qps /\ QpNum[q] = qpn /\ QpPort[q] = p => Due(n, d.m, q),
         ~n.log.misled => IF d.dlid = Mlid THEN p = d.guid => qpn # d.sqpn ELSE qpn = d.dqpn
  PROVE  DataRight(s)
<1> DEFINE m == d.m
<1>1. PICK q \in QPs : /\ q \in n.hca[h].qps /\ QpNum[q] = qpn /\ QpPort[q] = p
                       /\ DlidMatches(n, p, d) /\ s = GotOne(n, m, q)
  BY DEF Takes
<1>2. /\ m \in Msgs /\ d.guid = QpPort[MsgFrom[m]] /\ d.dlid = MsgDlid[m]
      /\ d.dqpn = MsgQpn[m] /\ d.sqpn = QpNum[MsgFrom[m]] /\ d.dlid # 0
  BY DEF Wire, Data, DataRec
<1> HIDE DEF m
<1>3. Due(n, m, q)
  BY <1>1 DEF m
<1>4. ASSUME ~n.log.misled
      PROVE  IF MsgDlid[m] = Mlid THEN q # MsgFrom[m]
             ELSE QpNum[q] = MsgQpn[m] /\ Lid[QpPort[q]] = MsgDlid[m]
  <2>1. CASE MsgDlid[m] = Mlid
    BY <1>1, <1>2, <1>4, <2>1
  <2>2. CASE MsgDlid[m] # Mlid
    <3>1. d.dlid = n.port[p].lid
      BY <1>1, <1>2, <2>2 DEF DlidMatches, pib_is_unicast_lid
    <3>2. n.port[p].lid \in {0, Lid[p]}
      BY <1>4 DEF DataRight, LidsRight
    <3> QED BY <1>1, <1>2, <1>4, <2>2, <3>1, <3>2
  <2> QED BY <2>1, <2>2
<1> QED
  BY <1>1, <1>2, <1>3, <1>4, GotRight

(* The copies of a multicast packet that was taken from the socket of p *)
LEMMA CopiesRight ==
  ASSUME mode \in Cases, NEW n \in Fabric, NEW h \in Hosts, NEW p \in Guids, DevOf[p] = h,
         NEW d \in Group, n.hca[h].mc = None, DataRight(n), n.port[p].state = IB_PORT_ACTIVE,
         \A q \in QPs : QpPort[q] = p => Due(n, d.m, q),
         ~n.log.misled => d.slid = Lid[d.guid]
  PROVE  DataRight(SetCopies(n, h, CopiesOf(n, h, p, d)))
<1> DEFINE x == CopiesOf(n, h, p, d)
           r == SetCopies(n, h, x)
           m == d.m
<1>1. /\ r.port = n.port /\ r.up = n.up /\ r.down = n.down /\ r.log = n.log
      /\ \A k \in Hosts : /\ r.hca[k].ready = n.hca[k].ready
                          /\ r.hca[k].mc = IF k = h THEN x ELSE n.hca[k].mc
  BY CopiesIs
<1>2. m \in Msgs /\ d \in Wire
  BY DEF Group, Wire, Data, DataRec
<1>3. x.port = p /\ x.d = d /\ (n.port[p].lid = d.slid => d.sqpn \notin x.qpns)
  BY DEF CopiesOf
<1> HIDE DEF r, x, m
<1>4. /\ \A j : InUp(r, j) <=> InUp(n, j)
      /\ \A j : \A k \in Guids : InDown(r, j, k) <=> InDown(n, j, k)
  BY <1>1 DEF InUp, InDown
<1>5. \A j : \A q \in QPs : InCopy(r, j, q) => InCopy(n, j, q) \/ (j = m /\ QpPort[q] = p)
  BY <1>1, <1>3, NetFacts DEF InCopy, m
<1>6. \A q \in QPs : QpPort[q] = p => Due(n, m, q)
  BY DEF m
<1>7. ASSUME ~r.log.misled PROVE LidsRight(r)
  <2>1. LidsRight(n) /\ d.slid = Lid[d.guid]
    BY <1>1, <1>7 DEF DataRight
  <2>2. n.port[p].lid = Lid[p]
    <3>1. n.port[p] \in PortT
      BY FabricFields DEF PortS
    <3>2. n.port[p].lid # 0
      BY <3>1 DEF PortT, IB_PORT_ACTIVE
    <3> QED BY <2>1, <3>2 DEF LidsRight
  <2>3. \A k \in Hosts : r.hca[k].mc # None /\ r.hca[k].mc.port = r.hca[k].mc.d.guid
          => r.hca[k].mc.d.sqpn \notin r.hca[k].mc.qpns
    BY <1>1, <1>3, <2>1, <2>2 DEF LidsRight
  <2> QED BY <1>1, <2>1, <2>3 DEF LidsRight
<1>8. SentRight(r)
  <2>1. SentRight(n)
    BY DEF DataRight
  <2>2. ASSUME NEW j \in Msgs, NEW q \in QPs, InCopy(r, j, q) PROVE r.log.sent[j] = 1
    BY <1>1, <1>5, <1>6, <2>1, <2>2 DEF SentRight, Due
  <2>3. ASSUME NEW j \in Msgs
        PROVE  /\ r.log.sent[j] <= 1
               /\ j \notin r.log.posted => r.log.sent[j] = 0
               /\ InUp(r, j) => r.log.sent[j] = 1
               /\ \A k \in Guids : InDown(r, j, k) => r.log.sent[j] = 1
               /\ \A q \in QPs : r.log.got[j][q] > 0 => r.log.sent[j] = 1
    BY <1>1, <1>4, <2>1 DEF SentRight
  <2>4. \A k \in Hosts : r.hca[k].ready.src = "UD"
          => r.hca[k].ready.d.m \in r.log.posted /\ r.log.sent[r.hca[k].ready.d.m] = 0
    BY <1>1, <2>1 DEF SentRight
  <2> QED BY <2>2, <2>3, <2>4 DEF SentRight
<1>9. OneEach(r)
  <2>1. OneEach(n)
    BY DEF DataRight
  <2>2. \A k \in Guids : NoRepeat(r.up[k]) /\ NoRepeat(r.down[k])
    BY <1>1, <2>1 DEF OneEach
  <2>3. \A j \in Msgs : \A k \in Guids : InUp(r, j) /\ Comes(j, k) => ~InDown(r, j, k)
    BY <1>4, <2>1 DEF OneEach
  <2>4. ASSUME NEW j \in Msgs, NEW q \in QPs
        PROVE  /\ InUp(r, j) /\ Comes(j, QpPort[q]) => ~InCopy(r, j, q) /\ r.log.got[j][q] = 0
               /\ InDown(r, j, QpPort[q]) => ~InCopy(r, j, q) /\ r.log.got[j][q] = 0
               /\ InCopy(r, j, q) => r.log.got[j][q] = 0
               /\ r.log.got[j][q] <= 1
    <3>0. QpPort[q] \in Guids
      BY NetFacts
    <3>1. CASE j = m /\ QpPort[q] = p
      BY <1>1, <1>4, <1>6, <3>0, <3>1 DEF Due
    <3>2. CASE ~(j = m /\ QpPort[q] = p)
      BY <1>1, <1>4, <1>5, <2>1, <3>0, <3>2 DEF OneEach
    <3> QED BY <3>1, <3>2
  <2> QED BY <2>2, <2>3, <2>4 DEF OneEach
<1> QED
  BY <1>7, <1>8, <1>9 DEF DataRight, r, x

(* The switch brings a packet to each socket once at most. *)
LEMMA BringsOne ==
  ASSUME mode \in Cases, NEW n \in Fabric, NEW r, r.out \in Seq(OutRec), NEW k \in Guids,
         NEW new, Grows(n, r, k, new), NEW d \in Wire,
         \A i \in 1..Len(r.out) : Copy(r.out[i], d),
         \A i, j \in 1..Len(r.out) : r.out[i].to = r.out[j].to => i = j
  PROVE  /\ \A e \in Wire : Has(new, e) =>
              \/ Has(n.down[k], e)
              \/ /\ e.m = d.m /\ e.slid = d.slid /\ e.guid = d.guid
                 /\ \E i \in 1..Len(r.out) : r.out[i].to = k
         /\ (/\ NoRepeat(n.down[k])
             /\ (\E i \in 1..Len(r.out) : r.out[i].to = k)
                  => \A e \in Wire : e.m = d.m => ~Has(n.down[k], e))
              => NoRepeat(new)
<1> DEFINE old == n.down[k]
           L == Len(old)
<1>1. /\ new \in Seq(Came) /\ L \in Nat /\ L <= Len(new)
      /\ \A i \in 1..L : new[i] = old[i]
  BY GrowsPlaces
<1>2. PICK g \in [1..(Len(new) - L) -> 1..Len(r.out)] :
        /\ \A i, j \in DOMAIN g : g[i] = g[j] => i = j
        /\ \A i \in 1..Len(new) : i > L =>
             /\ i - L \in DOMAIN g
             /\ new[i] = r.out[g[i - L]].d
             /\ Lands(n, r.out[g[i - L]], k)
  BY GrowsPlaces
<1>3. Len(new) \in Nat
  BY <1>1, LenProperties
<1> HIDE DEF L, old
<1>4. ASSUME NEW i \in 1..Len(new), i > L
      PROVE  /\ new[i] \in Wire /\ new[i].m = d.m /\ new[i].slid = d.slid /\ new[i].guid = d.guid
             /\ i - L \in DOMAIN g /\ g[i - L] \in 1..Len(r.out) /\ r.out[g[i - L]].to = k
  <2>1. /\ i - L \in DOMAIN g /\ new[i] = r.out[g[i - L]].d /\ Lands(n, r.out[g[i - L]], k)
        /\ g[i - L] \in 1..Len(r.out)
    BY <1>2, <1>4
  <2> DEFINE x == r.out[g[i - L]]
  <2>2. Copy(x, d) /\ x.to = k /\ new[i] = x.d
    BY <2>1 DEF Lands
  <2> HIDE DEF x
  <2>3. PICK q \in SwPorts : x.d = [d EXCEPT !.via = q]
    BY <2>2 DEF Copy
  <2>4. x.d \in Wire /\ x.d.m = d.m /\ x.d.slid = d.slid /\ x.d.guid = d.guid
    BY <2>2, <2>3 DEF Copy, Wire, Data, DataRec
  <2> QED BY <2>1, <2>2, <2>4 DEF x
<1>5. ASSUME NEW i \in 1..Len(new), NEW j \in 1..Len(new), i > L, j > L
      PROVE  i = j
  <2>1. /\ i - L \in DOMAIN g /\ g[i - L] \in 1..Len(r.out) /\ r.out[g[i - L]].to = k
        /\ j - L \in DOMAIN g /\ g[j - L] \in 1..Len(r.out) /\ r.out[g[j - L]].to = k
    BY <1>4, <1>5
  <2>2. g[i - L] = g[j - L]
    BY <2>1
  <2>3. i - L = j - L
    BY <1>2, <2>1, <2>2
  <2> QED BY <1>1, <1>3, <2>3
<1>6. \A i \in 1..Len(new) : i > L \/ (i \in 1..L /\ new[i] = old[i])
  BY <1>1, <1>3
<1>7. ASSUME NEW e \in Wire, Has(new, e)
      PROVE  \/ Has(old, e)
             \/ /\ e.m = d.m /\ e.slid = d.slid /\ e.guid = d.guid
                /\ \E i \in 1..Len(r.out) : r.out[i].to = k
  <2>1. PICK i \in 1..Len(new) : new[i] = e
    BY <1>7 DEF Has
  <2>2. CASE i > L
    BY <1>4, <2>1, <2>2
  <2>3. CASE i \in 1..L /\ new[i] = old[i]
    BY <2>1, <2>3 DEF Has, L
  <2> QED BY <1>6, <2>2, <2>3
<1>8. ASSUME NoRepeat(old), (\E i \in 1..Len(r.out) : r.out[i].to = k)
                          => \A e \in Wire : e.m = d.m => ~Has(old, e)
      PROVE  NoRepeat(new)
  <2> SUFFICES ASSUME NEW i \in 1..Len(new), NEW j \in 1..Len(new),
                      new[i] \in Wire, new[j] \in Wire, new[i].m = new[j].m
               PROVE  i = j
    BY DEF NoRepeat
  <2>1. ASSUME NEW a \in 1..Len(new), NEW c \in 1..Len(new), a > L, c \in 1..L, new[c] = old[c],
               new[c] \in Wire, new[a].m = new[c].m
        PROVE  FALSE
    <3>1. new[a].m = d.m /\ \E o \in 1..Len(r.out) : r.out[o].to = k
      BY <1>4, <2>1
    <3>2. Has(old, new[c])
      BY <2>1 DEF Has, L
    <3> QED BY <1>8, <2>1, <3>1, <3>2
  <2>2. CASE i > L /\ j > L
    BY <1>5, <2>2
  <2>3. CASE (i \in 1..L /\ new[i] = old[i]) /\ (j \in 1..L /\ new[j] = old[j])
    BY <1>8, <2>3 DEF NoRepeat, L
  <2> QED BY <1>6, <2>1, <2>2, <2>3
<1> QED
  BY <1>7, <1>8 DEF old

LEMMA RelayRight ==
  ASSUME mode \in Cases, NEW n \in Fabric, NEW b \in Fabric, DataRight(n), NEW p \in Guids,
         n.up[p] # <<>>, Head(n.up[p]) \in Wire, Head(n.up[p]).guid = p,
         b.hca = n.hca, b.port = n.port, b.down = n.down, b.log = n.log,
         b.up = [n.up EXCEPT ![p] = Tail(n.up[p])],
         NEW r, r.sw \in SwS, DataDone(n.sw, Head(n.up[p]), r)
  PROVE  DataRight(FromSwitch(b, r))
<1> DEFINE d == Head(n.up[p])
           m == d.m
           f == FromSwitch(b, r)
           Brought(k) == \E i \in 1..Len(r.out) : r.out[i].to = k
<1>1. r.out \in Seq(OutRec) /\ Len(r.out) \in Nat
  BY LenProperties DEF DataDone
<1>2. /\ f = [b EXCEPT !.sw = r.sw, !.down = f.down, !.up = f.up]
      /\ f.up = IF r.sw.run = "running" THEN b.up ELSE [k \in Guids |-> <<>>]
      /\ \A k \in Guids : Grows(b, r, k, f.down[k])
  BY <1>1, FromSwitchDoes
<1> HIDE DEF f
<1>3. f.hca = n.hca /\ f.port = n.port /\ f.log = n.log
  BY <1>2 DEF Fabric
<1>4. n.up \in UpS /\ n.up[p] \in Seq(Sent) /\ n.down \in DownS
  BY FabricFields DEF UpS
<1>5. d \in Wire /\ m \in Msgs /\ d.guid = p /\ p = QpPort[MsgFrom[m]] /\ d.dlid = MsgDlid[m]
  BY DEF Wire, Data, DataRec
<1>6. Has(n.up[p], d) /\ InUp(n, m)
  BY <1>4, <1>5, FewerTail DEF InUp
<1>7. \A k \in Guids : NoRepeat(n.up[k]) /\ NoRepeat(n.down[k])
  BY DEF DataRight, OneEach
<1>8. \A k \in Guids : b.up[k] = IF k = p THEN Tail(n.up[p]) ELSE n.up[k]
  BY <1>4 DEF UpS
<1>9. \A k \in Guids : Fewer(n.up[k], b.up[k])
  BY <1>4, <1>8, FewerTail, FewerSelf
<1>10. \A e \in Wire : e.m = m => ~Has(Tail(n.up[p]), e)
  BY <1>4, <1>5, <1>7, FewerTail
<1>11. ~InUp(b, m)
  <2> SUFFICES ASSUME NEW k \in Guids, NEW e \in Wire, e.m = m, Has(b.up[k], e)
               PROVE  FALSE
    BY DEF InUp
  <2>1. Has(n.up[k], e)
    BY <1>9 DEF Fewer
  <2>2. PICK i \in 1..Len(n.up[k]) : n.up[k][i] = e
    BY <2>1 DEF Has
  <2>3. e.guid = k
    BY <1>4, <2>2 DEF UpS
  <2>4. e.guid = QpPort[MsgFrom[e.m]]
    BY DEF Wire, Data
  <2>5. k = p
    BY <1>5, <2>3, <2>4
  <2> QED BY <1>8, <1>10, <2>5
<1>12. \A k \in Guids : Fewer(n.up[k], f.up[k])
  BY <1>2, <1>9, FewerNone
<1>13. ~InUp(f, m)
  <2>1. CASE f.up = b.up
    BY <1>11, <2>1 DEF InUp
  <2>2. CASE f.up = [k \in Guids |-> <<>>]
    BY <2>2 DEF InUp, Has
  <2> QED BY <1>2, <2>1, <2>2
<1>14. \A k \in Guids : Brought(k) => Comes(m, k)
  BY <1>5 DEF DataDone, Comes
<1>15. \A k \in Guids : Brought(k) => \A e \in Wire : e.m = m => ~Has(n.down[k], e)
  <2>1. \A k \in Guids : Comes(m, k) => ~InDown(n, m, k)
    BY <1>5, <1>6 DEF DataRight, OneEach
  <2> QED BY <1>14, <2>1 DEF InDown
<1>16. /\ \A i \in 1..Len(r.out) : Copy(r.out[i], d)
       /\ \A i, j \in 1..Len(r.out) : r.out[i].to = r.out[j].to => i = j
  BY DEF DataDone
<1>17. ASSUME NEW k \in Guids
       PROVE  /\ \A e \in Wire : Has(f.down[k], e) =>
                   \/ Has(n.down[k], e)
                   \/ e.m = m /\ e.slid = d.slid /\ e.guid = d.guid /\ Brought(k)
              /\ NoRepeat(f.down[k])
  <2> DEFINE new == f.down[k]
  <2>1. Grows(b, r, k, new)
    BY <1>2
  <2> HIDE DEF new, d
  <2>2. /\ \A e \in Wire : Has(new, e) =>
              \/ Has(b.down[k], e)
              \/ /\ e.m = d.m /\ e.slid = d.slid /\ e.guid = d.guid
                 /\ \E i \in 1..Len(r.out) : r.out[i].to = k
        /\ (/\ NoRepeat(b.down[k])
            /\ (\E i \in 1..Len(r.out) : r.out[i].to = k)
                 => \A e \in Wire : e.m = d.m => ~Has(b.down[k], e))
             => NoRepeat(new)
    BY <1>1, <1>5, <1>16, <2>1, BringsOne
  <2> QED BY <1>7, <1>15, <2>2 DEF new
<1> HIDE DEF d, m, Brought
<1>18. \A j \in Msgs : InUp(f, j) => InUp(n, j) /\ j # m
  BY <1>12, <1>13 DEF InUp, Fewer
<1>19. \A j \in Msgs : \A k \in Guids : InDown(f, j, k) => InDown(n, j, k) \/ (j = m /\ Brought(k))
  BY <1>17 DEF InDown
<1>20. \A j \in Msgs : \A q \in QPs : InCopy(f, j, q) <=> InCopy(n, j, q)
  BY <1>3 DEF InCopy
<1>21. QpPort \in [QPs -> Guids]
  BY NetFacts
<1>22. ~f.log.misled => LidsRight(f)
  <2> SUFFICES ASSUME ~f.log.misled PROVE LidsRight(f)
    OBVIOUS
  <2>1. LidsRight(n)
    BY <1>3 DEF DataRight
  <2>2. d.slid = Lid[d.guid]
    BY <1>5, <1>6, <2>1 DEF LidsRight
  <2>3. \A k \in Guids : \A e \in Wire : Has(f.up[k], e) => e.slid = Lid[e.guid]
    BY <1>12, <2>1 DEF LidsRight, Fewer
  <2>4. \A k \in Guids : \A e \in Wire : Has(f.down[k], e) => e.slid = Lid[e.guid]
    BY <1>17, <2>1, <2>2 DEF LidsRight
  <2> QED BY <1>3, <2>1, <2>3, <2>4 DEF LidsRight
<1>23. SentRight(f)
  <2>1. SentRight(n) /\ n.log.sent[m] = 1
    BY <1>5, <1>6 DEF DataRight, SentRight
  <2> QED BY <1>3, <1>18, <1>19, <1>20, <2>1, SMTT(30) DEF SentRight
<1>24. OneEach(f)
  <2>1. \A k \in Guids : NoRepeat(f.up[k]) /\ NoRepeat(f.down[k])
    BY <1>7, <1>12, <1>17 DEF Fewer
  <2>2. \A j \in Msgs : \A k \in Guids : InUp(f, j) /\ Comes(j, k) => ~InDown(f, j, k)
    BY <1>18, <1>19 DEF DataRight, OneEach
  <2>3. ASSUME NEW j \in Msgs, NEW q \in QPs
        PROVE  /\ InUp(f, j) /\ Comes(j, QpPort[q]) => ~InCopy(f, j, q) /\ f.log.got[j][q] = 0
               /\ InDown(f, j, QpPort[q]) => ~InCopy(f, j, q) /\ f.log.got[j][q] = 0
               /\ InCopy(f, j, q) => f.log.got[j][q] = 0
               /\ f.log.got[j][q] <= 1
    <3>1. /\ InUp(n, j) /\ Comes(j, QpPort[q]) => ~InCopy(n, j, q) /\ n.log.got[j][q] = 0
          /\ InDown(n, j, QpPort[q]) => ~InCopy(n, j, q) /\ n.log.got[j][q] = 0
          /\ InCopy(n, j, q) => n.log.got[j][q] = 0
          /\ n.log.got[j][q] <= 1
      BY DEF DataRight, OneEach
    <3>2. InDown(f, j, QpPort[q]) => InDown(n, j, QpPort[q]) \/ (InUp(n, j) /\ Comes(j, QpPort[q]))
      BY <1>6, <1>14, <1>19, <1>21
    <3> QED BY <1>3, <1>18, <1>20, <3>1, <3>2
  <2> QED BY <2>1, <2>2, <2>3 DEF OneEach
<1> QED
  BY <1>22, <1>23, <1>24 DEF DataRight, f

(* For anything but a UD packet the switch sends no UD packet. *)
LEMMA SaysNoData ==
  ASSUME mode \in Cases, NEW s \in SwS, NEW d, d \in RawSent \/ d \in SmpSent
  PROVE  LET r == receive_packet(s, d)
         IN \A i \in 1..Len(r.out) : r.out[i].d \notin Wire
<1> DEFINE r == receive_packet(s, d)
<1>1. \A x : x \in SmpCame \/ x \in Notices \/ x \in RawCame => x \notin Wire
  BY NotWire DEF SmpCame, Notices
<1>2. ASSUME NEW t, r = Exits(t) \/ r = Drops(t)
      PROVE  \A i \in 1..Len(r.out) : r.out[i].d \notin Wire
  <2>1. r.out = <<>>
    BY <1>2 DEF Exits, Drops
  <2> HIDE DEF r
  <2> QED BY <2>1
<1>3. CASE d \in RawSent /\ d.cmd = "CONNECT"
  <2>1. r = Exits(s) \/ ConnectDone(s, d, r)
    BY <1>3, ConnectDoes
  <2> HIDE DEF r
  <2> QED BY <1>1, <1>2, <2>1 DEF ConnectDone, IsAck, r
<1>4. CASE d \in RawSent /\ d.cmd = "DISCONNECT"
  <2>1. r = Drops(s) \/ DisconnectDone(s, d, r)
    BY <1>4, DisconnectDoes
  <2> HIDE DEF r
  <2> QED BY <1>1, <1>2, <2>1 DEF DisconnectDone, IsAck, r
<1>5. CASE d \in SmpSent
  <2> DEFINE in == detect_in_port(s, d.guid)
  <2>1. \/ r = Drops(s)
        \/ /\ in \in SwPorts
           /\ \E t, q, e : Route(s, in, d, t, q, e) /\ r = send_packet([sw |-> t, q |-> q, d |-> e])
    BY <1>5, SmpDoes
  <2>2. ASSUME in \in SwPorts, NEW t, NEW q, NEW e, Route(s, in, d, t, q, e),
               r = send_packet([sw |-> t, q |-> q, d |-> e])
        PROVE  \A i \in 1..Len(r.out) : r.out[i].d \notin Wire
    <3> HIDE DEF in, r
    <3>1. t \in SwS /\ q \in SwPorts /\ [e EXCEPT !.via = q] \in SmpCame
      <4>1. d \in SmpRec
        BY <1>5 DEF SmpSent
      <4> QED BY <2>2, <4>1, RouteType
    <3> DEFINE x == Send(t, q, e)
    <3>2. \/ r.out = <<x>> /\ x.d \in SmpCame
          \/ r = Exits(t) \/ r = Drops(t)
      <4> DEFINE v == send_packet([sw |-> t, q |-> q, d |-> e])
      <4>1. \/ v.out = <<x>> /\ x.d = [e EXCEPT !.via = q]
            \/ v = Exits(t)
            \/ v = Drops(t)
        BY <3>1, SendPacketDoes
      <4> HIDE DEF v, x
      <4> QED BY <2>2, <3>1, <4>1 DEF v
    <3> HIDE DEF x
    <3>3. CASE r.out = <<x>> /\ x.d \in SmpCame
      BY <1>1, <3>3
    <3> QED BY <1>2, <3>2, <3>3 DEF r
  <2> QED BY <1>2, <2>1, <2>2
<1>6. d \in RawSent => d.cmd \in {"CONNECT", "DISCONNECT"}
  BY DEF RawSent, RawRec
<1> QED
  BY <1>3, <1>4, <1>5, <1>6

LEMMA SwitchRight ==
  ASSUME FabricInv, NEW p \in Guids, SwitchReceive(p), DataRight(Now)
  PROVE  DataRight(Now')
<1> DEFINE d == Head(up[p])
           b == Taken(p)
           r == receive_packet(sw, d)
           f == FromSwitch(b, r)
<1>1. up[p] # <<>> /\ Now' = f /\ Now' \in Fabric
  BY SwitchDoes
<1>2. /\ mode \in Cases /\ Now \in Fabric /\ sw \in SwS /\ up \in UpS
      /\ Now.hca = hca /\ Now.port = port /\ Now.sw = sw /\ Now.up = up /\ Now.down = down
      /\ Now.log = log
  BY NowFields
<1>3. /\ b \in Fabric /\ b.hca = hca /\ b.port = port /\ b.sw = sw
      /\ b.up = [up EXCEPT ![p] = Tail(up[p])] /\ b.down = down /\ b.log = log
      /\ d \in Sent /\ d.guid = p
  BY <1>1, TakenType
<1>4. r.sw \in SwS /\ r.out \in Seq(OutRec)
  BY <1>2, <1>3, ReceiveType
<1>5. CASE d \in Wire
  <2>1. DataDone(sw, d, r)
    BY <1>2, <1>5, DataDoes
  <2> HIDE DEF b, r
  <2>2. DataRight(FromSwitch(b, r))
    BY <1>1, <1>2, <1>3, <1>4, <1>5, <2>1, RelayRight
  <2> QED BY <1>1, <2>2
<1>6. CASE d \in RawSent \/ d \in SmpSent
  <2>1. \A i \in 1..Len(r.out) : r.out[i].d \notin Wire
    BY <1>2, <1>6, SaysNoData
  <2> HIDE DEF b, r
  <2>2. /\ f = [b EXCEPT !.sw = r.sw, !.down = f.down, !.up = f.up]
        /\ f.up = IF r.sw.run = "running" THEN b.up ELSE [k \in Guids |-> <<>>]
        /\ \A k \in Guids : Grows(b, r, k, f.down[k])
    BY <1>2, <1>3, <1>4, FromSwitchDoes
  <2> HIDE DEF f
  <2>3. f.hca = hca /\ f.port = port /\ f.log = log
    BY <1>3, <2>2 DEF Fabric
  <2>4. \A k \in Guids : Fewer(down[k], f.down[k])
    <3> SUFFICES ASSUME NEW k \in Guids PROVE Fewer(down[k], f.down[k])
      OBVIOUS
    <3> DEFINE new == f.down[k]
    <3>1. Grows(b, r, k, new)
      BY <2>2
    <3> HIDE DEF new
    <3>2. Fewer(b.down[k], new)
      BY <1>2, <1>3, <1>4, <2>1, <3>1, FewerGrows
    <3> QED BY <1>3, <3>2 DEF new
  <2>5. \A k \in Guids : Fewer(up[k], f.up[k])
    <3>1. up[p] \in Seq(Sent) /\ \A k \in Guids : b.up[k] = IF k = p THEN Tail(up[p]) ELSE up[k]
      BY <1>2, <1>3 DEF UpS
    <3>2. \A k \in Guids : Fewer(up[k], b.up[k])
      BY <1>1, <3>1, FewerTail, FewerSelf
    <3> QED BY <2>2, <3>2, FewerNone
  <2>6. Less(Now, f)
    BY <1>2, <2>3, <2>4, <2>5 DEF Less, LessDev
  <2> QED BY <1>1, <2>6, LessRight
<1> QED
  BY <1>3, <1>5, <1>6 DEF Sent

(* A member of the group gets its copy. *)
LEMMA MulticastRight ==
  ASSUME FabricInv, NEW h \in Hosts, DeliverMulticast(h), DataRight(Now)
  PROVE  DataRight(Now')
<1> DEFINE mc == hca[h].mc
<1>1. /\ mc \in Copying /\ DevOf[mc.port] = h
      /\ \/ mc.qpns = {} /\ Now' = SetCopies(Now, h, None)
         \/ \E qpn \in mc.qpns :
              Now' = process_incoming_message_per_qp(
                       SetCopies(Now, h, [mc EXCEPT !.qpns = @ \ {qpn}]), h, mc.port, qpn, mc.d)
      /\ \A qpn : /\ [mc EXCEPT !.qpns = @ \ {qpn}] \in Copying
                  /\ SetCopies(Now, h, [mc EXCEPT !.qpns = @ \ {qpn}]) \in Fabric
                  /\ SetCopies(Now, h, [mc EXCEPT !.qpns = @ \ {qpn}]).hca[h].lock = "free"
  BY MulticastDoes
<1>2. /\ mode \in Cases /\ Now \in Fabric /\ hca \in HcaS
      /\ Now.hca = hca /\ Now.port = port /\ Now.up = up /\ Now.down = down /\ Now.log = log
  BY NowFields
<1>3. ASSUME NEW x, x = None \/ (x # None /\ x.port = mc.port /\ x.d = mc.d /\ x.qpns \subseteq mc.qpns)
      PROVE  Less(Now, SetCopies(Now, h, x))
  <2> DEFINE r == SetCopies(Now, h, x)
  <2>1. /\ r.port = port /\ r.up = up /\ r.down = down /\ r.log = log
        /\ \A k \in Hosts : /\ r.hca[k].ready = hca[k].ready
                            /\ r.hca[k].mc = IF k = h THEN x ELSE hca[k].mc
    BY <1>2, CopiesIs
  <2> HIDE DEF r
  <2>2. mc # None
    BY <1>1 DEF Copying, None
  <2>3. \A k \in Hosts : LessDev(hca[k], r.hca[k])
    BY <1>3, <2>1, <2>2 DEF LessDev
  <2>4. \A k \in Guids : Fewer(up[k], r.up[k]) /\ Fewer(down[k], r.down[k])
    BY <2>1, FewerSelf
  <2>5. Less(Now, r)
    BY <1>2, <2>1, <2>3, <2>4 DEF Less
  <2> QED BY <2>5 DEF r
<1>4. CASE Now' = SetCopies(Now, h, None)
  BY <1>3, <1>4, LessRight
<1>5. ASSUME NEW qpn \in mc.qpns,
             Now' = process_incoming_message_per_qp(
                      SetCopies(Now, h, [mc EXCEPT !.qpns = @ \ {qpn}]), h, mc.port, qpn, mc.d)
      PROVE  DataRight(Now')
  <2> DEFINE x == [mc EXCEPT !.qpns = @ \ {qpn}]
             b == SetCopies(Now, h, x)
             p == mc.port
             d == mc.d
             r == process_incoming_message_per_qp(b, h, p, qpn, d)
  <2>0. b.hca[h].lock = "free"
    BY <1>1
  <2>1. x.port = p /\ x.d = d /\ x.qpns = mc.qpns \ {qpn} /\ x # None /\ b \in Fabric
    BY <1>1 DEF Copying, None
  <2>2. p \in Guids /\ d \in Group /\ mc # None
    BY <1>1 DEF Copying, None
  <2>3. d \in Wire /\ d.dlid = Mlid /\ d.m \in Msgs
    BY <2>2 DEF Group, Wire, Data, DataRec
  <2> HIDE DEF x
  <2>4. Less(Now, b)
    BY <1>3, <2>1
  <2>5. DataRight(b)
    BY <2>4, LessRight
  <2>6. /\ b.port = port /\ b.up = up /\ b.down = down /\ b.log = log
        /\ \A k \in Hosts : /\ b.hca[k].qps = hca[k].qps
                            /\ b.hca[k].mc = IF k = h THEN x ELSE hca[k].mc
    BY <1>2, CopiesIs
  <2> HIDE DEF b
  <2>7. ASSUME NEW q \in QPs, QpNum[q] = qpn, QpPort[q] = p
        PROVE  Due(b, d.m, q)
    <3>1. InCopy(Now, d.m, q)
      BY <1>1, <1>2, <1>5, <2>2, <2>7, SMTT(30) DEF InCopy
    <3>2. ~InCopy(b, d.m, q)
      BY <1>1, <2>1, <2>6, <2>7 DEF InCopy
    <3>3. /\ InUp(Now, d.m) => ~Comes(d.m, QpPort[q])
          /\ ~InDown(Now, d.m, QpPort[q]) /\ log.got[d.m][q] = 0 /\ log.sent[d.m] = 1
      BY <1>2, <2>3, <3>1 DEF DataRight, OneEach, SentRight
    <3>4. /\ InUp(b, d.m) => InUp(Now, d.m)
          /\ InDown(b, d.m, QpPort[q]) => InDown(Now, d.m, QpPort[q])
      BY <2>2, <2>4, <2>7, LessPlaces
    <3> QED BY <2>6, <3>2, <3>3, <3>4 DEF Due
  <2>8. ~b.log.misled => (p = d.guid => qpn # d.sqpn)
    BY <1>2, <1>5, <2>2, <2>6 DEF DataRight, LidsRight
  <2>9. \/ Quiet(b, r)
        \/ \E s \in Fabric : /\ s = b \/ Takes(b, h, p, qpn, d, s)
                             /\ Retries(s, h, r)
    BY <1>2, <2>1, <2>2, <2>3, <2>0, PerQpMoves
  <2> HIDE DEF r, mc, d, p
  <2>10. ASSUME NEW s, Takes(b, h, p, qpn, d, s)
         PROVE  DataRight(s)
    BY <1>2, <2>1, <2>2, <2>3, <2>5, <2>7, <2>8, <2>10, TakesRight
  <2>11. DataRight(r)
    <3>1. CASE Quiet(b, r)
      BY <2>5, <3>1, LessQuiet, LessRight
    <3>2. ASSUME NEW s \in Fabric, s = b \/ Takes(b, h, p, qpn, d, s), Retries(s, h, r)
          PROVE  DataRight(r)
      <4>1. DataRight(s)
        BY <2>5, <2>10, <3>2
      <4> QED BY <1>2, <3>2, <4>1, RetriesRight
    <3> QED BY <2>9, <3>1, <3>2
  <2> QED BY <1>5, <2>11 DEF r, b, x, p, d
<1> QED
  BY <1>1, <1>4, <1>5

(* A port takes a datagram from its socket. *)
LEMMA ReceiveRight ==
  ASSUME FabricInv, NEW p \in Guids, HcaReceive(p), DataRight(Now)
  PROVE  DataRight(Now')
<1> DEFINE h == DevOf[p]
           d == Head(down[p])
           b == Popped(p)
           r == process_incoming_message(b, h, p, d)
<1>1. /\ down[p] # <<>> /\ hca[h].mc = None /\ Now' = r
      /\ d.t # "raw" => b.hca[h].lock = "free"
  BY HcaReceiveDoes
<1>2. /\ mode \in Cases /\ Now \in Fabric
      /\ Now.hca = hca /\ Now.port = port /\ Now.up = up /\ Now.down = down /\ Now.log = log
  BY NowFields
<1>3. /\ b \in Fabric /\ b.hca = hca /\ b.port = port /\ b.up = up
      /\ b.down = [down EXCEPT ![p] = Tail(down[p])] /\ b.log = log /\ d \in Came
  BY <1>1, PoppedType
<1>4. h \in Hosts
  BY NetFacts
<1>5. Arrives(b, p, d, r)
  BY <1>1, <1>2, <1>3, IncomingMoves
<1> HIDE DEF b, r
<1>6. /\ DataRight(b)
      /\ d \in Wire => /\ ~log.misled => d.slid = Lid[d.guid]
                       /\ \A q \in QPs : QpPort[q] = p => Due(b, d.m, q)
  BY <1>1, <1>2, <1>3, PopRight
<1> HIDE DEF d, h
<1> SUFFICES DataRight(r)
  BY <1>1
<1>7. CASE Quiet(b, r)
  BY <1>6, <1>7, LessQuiet, LessRight
<1>8. CASE d \in RawCame /\ r = process_raw_packet_hca(b, p, d)
  <2>1. /\ r.hca = b.hca /\ r.up = b.up /\ r.down = b.down /\ r.log = b.log
        /\ \A k \in Guids : r.port[k].lid = b.port[k].lid
    BY <1>3, <1>8, RawIs
  <2>2. Less(b, r)
    BY <2>1, FewerSelf DEF Less, LessDev
  <2> QED BY <1>6, <2>2, LessRight
<1>9. ASSUME NEW s \in Fabric, s = Queued(b, h, [port |-> p, d |-> d]), Retries(s, h, r)
      PROVE  DataRight(r)
  <2>1. /\ s.port = b.port /\ s.up = b.up /\ s.down = b.down /\ s.log = b.log
        /\ \A k \in Hosts : s.hca[k].ready = b.hca[k].ready /\ s.hca[k].mc = b.hca[k].mc
    BY <1>3, <1>4, <1>9, QueuedIs
  <2>2. Less(b, s)
    BY <2>1, FewerSelf DEF Less, LessDev
  <2>3. DataRight(s)
    BY <1>6, <2>2, LessRight
  <2> QED BY <1>2, <1>4, <1>9, <2>3, RetriesRight
<1>10. ASSUME d \in Wire, d.dlid # Mlid,
              NEW s \in Fabric, s = b \/ Takes(b, h, p, d.dqpn, d, s), Retries(s, h, r)
       PROVE  DataRight(r)
  <2> DEFINE qpn == d.dqpn
  <2>1. \A q \in QPs : q \in b.hca[h].qps /\ QpNum[q] = qpn /\ QpPort[q] = p => Due(b, d.m, q)
    BY <1>6, <1>10
  <2>2. ~b.log.misled => IF d.dlid = Mlid THEN p = d.guid => qpn # d.sqpn ELSE qpn = d.dqpn
    BY <1>10
  <2>3. s = b \/ Takes(b, h, p, qpn, d, s)
    BY <1>10
  <2> HIDE DEF qpn
  <2>4. DataRight(s)
    BY <1>2, <1>3, <1>4, <1>6, <1>10, <2>1, <2>2, <2>3, TakesRight
  <2> QED BY <1>2, <1>4, <1>10, <2>4, RetriesRight
<1>11. ASSUME d \in Group, b.port[p].state = IB_PORT_ACTIVE,
              r = SetCopies(b, h, CopiesOf(b, h, p, d))
       PROVE  DataRight(r)
  <2>1. d \in Wire
    BY <1>11 DEF Group
  <2>2. b.hca[h].mc = None /\ DevOf[p] = h
    BY <1>1, <1>3 DEF h
  <2>3. ~b.log.misled => d.slid = Lid[d.guid]
    BY <1>3, <1>6, <2>1
  <2> QED BY <1>2, <1>3, <1>4, <1>6, <1>11, <2>1, <2>2, <2>3, CopiesRight
<1> QED
  BY <1>5, <1>7, <1>8, <1>9, <1>10, <1>11 DEF Arrives, h

(* A message is posted. *)
LEMMA PostRight ==
  ASSUME FabricInv, NEW m \in Msgs, pib_process_ud_qp_request(m), DataRight(Now)
  PROVE  DataRight(Now')
<1> DEFINE p == QpPort[MsgFrom[m]]
           h == DevOf[p]
           n == Posted(m)
           d == PacketOf(m)
           pk == [src |-> "UD", port |-> p, d |-> d]
<1>1. /\ p \in Guids /\ h \in Hosts /\ m \notin log.posted
      /\ Now' = BuildAndSend(n, h, p, "UD", d)
  BY PostDoes
<1>2. /\ mode \in Cases /\ Now \in Fabric /\ log \in LogS
      /\ Now.hca = hca /\ Now.port = port /\ Now.up = up /\ Now.down = down /\ Now.log = log
  BY NowFields
<1>3. /\ n \in Fabric /\ n.hca = hca /\ n.port = port /\ n.up = up /\ n.down = down
      /\ n.log = [log EXCEPT !.posted = log.posted \cup {m}]
  BY PostedType
<1>4. d \in Data /\ d.guid = p /\ d.m = m /\ d.slid = port[p].lid
  BY PacketOfType
<1> HIDE DEF n, d, p
<1>5. /\ n.log.posted = log.posted \cup {m} /\ n.log.sent = log.sent /\ n.log.got = log.got
      /\ n.log.misled = log.misled
  BY <1>2, <1>3 DEF LogS
<1>6. DataRight(n)
  <2>1. /\ \A j : InUp(n, j) <=> InUp(Now, j)
        /\ \A j : \A k \in Guids : InDown(n, j, k) <=> InDown(Now, j, k)
        /\ \A j : \A q \in QPs : InCopy(n, j, q) <=> InCopy(Now, j, q)
    BY <1>2, <1>3 DEF InUp, InDown, InCopy
  <2>2. QpPort \in [QPs -> Guids]
    BY NetFacts
  <2>3. ~n.log.misled => LidsRight(n)
    BY <1>2, <1>3, <1>5 DEF DataRight, LidsRight
  <2>4. SentRight(n)
    BY <1>2, <1>3, <1>5, <2>1 DEF DataRight, SentRight
  <2>5. OneEach(n)
    BY <1>2, <1>3, <1>5, <2>1, <2>2 DEF DataRight, OneEach
  <2> QED BY <2>3, <2>4, <2>5 DEF DataRight
<1>7. Sends(n, h, pk, BuildAndSend(n, h, p, "UD", d))
  BY <1>1, <1>2, <1>3, <1>4, BuildDoes
<1>8. Fresh(n, h, pk)
  <2>1. log.sent[m] = 0
    BY <1>1, <1>2 DEF DataRight, SentRight
  <2>2. ~log.misled => port[p].lid \in {0, Lid[p]}
    BY <1>1, <1>2 DEF DataRight, LidsRight
  <2> QED BY <1>4, <1>5, <2>1, <2>2 DEF Fresh
<1> HIDE DEF pk, h
<1> QED
  BY <1>1, <1>2, <1>3, <1>6, <1>7, <1>8, SendsRight

(* What the agent sets *)
LEMMA LessSubn ==
  ASSUME NEW n \in Fabric, NEW p \in Guids, NEW r, SubnDone(n, p, r)
  PROVE  Less(n, r)
<1>1. /\ r.hca = n.hca /\ r.up = n.up /\ r.down = n.down
      /\ r.port = [n.port EXCEPT ![p] = r.port[p]]
      /\ r.log = [n.log EXCEPT !.misled = r.log.misled]
      /\ n.log.misled => r.log.misled
      /\ ~r.log.misled => r.port[p].lid \in {n.port[p].lid, Lid[p]}
  BY DEF SubnDone
<1>2. n.log \in LogS /\ n.port \in PortS
  BY FabricFields
<1>3. r.log.posted = n.log.posted /\ r.log.sent = n.log.sent /\ r.log.got = n.log.got
  BY <1>1, <1>2 DEF LogS
<1>4. \A k \in Guids : r.port[k] = IF k = p THEN r.port[p] ELSE n.port[k]
  BY <1>1, <1>2 DEF PortS
<1> QED
  BY <1>1, <1>3, <1>4, FewerSelf DEF Less, LessDev

LEMMA MadRight ==
  ASSUME FabricInv, NEW h \in Hosts, process_mad(h), DataRight(Now)
  PROVE  DataRight(Now')
<1> DEFINE x == Head(hca[h].mad)
           n == Unqueued(h)
           y == [hca[h] EXCEPT !.mad = Tail(hca[h].mad)]
           f == [hca EXCEPT ![h] = y]
<1>1. /\ hca[h].mad # <<>> /\ x.port \in Guids /\ DevOf[x.port] = h /\ x.d \in SmpCame
      /\ MadDone(h, x.port, x.d)
  BY MadDoes
<1>2. n \in Fabric /\ n = [Now EXCEPT !.hca = f]
  BY <1>1, UnqueuedType
<1>3. /\ hca \in HcaS /\ hca[h] \in HcaRec /\ Now \in Fabric /\ mode \in Cases
      /\ Now.hca = hca /\ Now.port = port /\ Now.up = up /\ Now.down = down /\ Now.log = log
  BY NowFields, HcaFacts
<1>4. y.ready = hca[h].ready /\ y.mc = hca[h].mc
  BY <1>3 DEF HcaRec
<1>5. \A k \in Hosts : f[k] = IF k = h THEN y ELSE hca[k]
  BY <1>3 DEF HcaS
<1> HIDE DEF y, n, x, f
<1>6. n.hca = f /\ n.port = port /\ n.up = up /\ n.down = down /\ n.log = log
  BY <1>2, <1>3 DEF Now
<1>7. DataRight(n)
  <2>1. \A k \in Hosts : n.hca[k].ready = hca[k].ready /\ n.hca[k].mc = hca[k].mc
    BY <1>4, <1>5, <1>6
  <2>2. Less(Now, n)
    BY <1>3, <1>6, <2>1, FewerSelf DEF Less, LessDev
  <2> QED BY <2>2, LessRight
<1>8. CASE Now' = n
  BY <1>7, <1>8
<1>9. ASSUME NEW s \in Fabric, DataRight(s), NEW d \in SmpKept, d.guid = x.port,
             Now' = BuildAndSend(s, h, x.port, "QP0", d)
      PROVE  DataRight(Now')
  <2> DEFINE pk == [src |-> "QP0", port |-> x.port, d |-> d]
  <2>1. Sends(s, h, pk, Now') /\ pk.src # "UD"
    BY <1>1, <1>3, <1>9, BuildDoes
  <2> HIDE DEF pk
  <2> QED BY <1>3, <1>9, <2>1, SendsRight
<1>10. ASSUME x.d.op \in PortOps
       PROVE  process_subn(n, x.port, x.d.op) \in Fabric /\ DataRight(process_subn(n, x.port, x.d.op))
  <2> DEFINE s == process_subn(n, x.port, x.d.op)
  <2>1. SubnDone(n, x.port, s)
    BY <1>1, <1>2, <1>3, <1>10, SubnDoes
  <2> HIDE DEF s
  <2>2. Less(n, s)
    BY <1>1, <1>2, <2>1, LessSubn
  <2>3. DataRight(s) /\ s \in Fabric
    BY <1>7, <2>1, <2>2, LessRight DEF SubnDone
  <2> QED BY <2>3 DEF s
<1> QED
  BY <1>1, <1>2, <1>7, <1>8, <1>9, <1>10 DEF MadDone, n

LEMMA TimerRight ==
  ASSUME FabricInv, NEW p \in Guids, pib_netd_comm_handler(p), DataRight(Now)
  PROVE  DataRight(Now')
<1>1. PICK n \in Fabric :
        /\ Quiet(Now, n)
        /\ \/ Now' = n
           \/ \E s \in Fabric :
                LET pk == [src |-> "LINK", port |-> p, d |-> RawOf(n, p, "CONNECT")]
                IN Sends(n, DevOf[p], pk, s) /\ Quiet(s, Now')
  BY TimerMoves
<1>2. DataRight(n)
  BY <1>1, LessQuiet, LessRight
<1>3. DevOf[p] \in Hosts /\ mode \in Cases
  BY NetFacts, NowFields
<1> DEFINE pk == [src |-> "LINK", port |-> p, d |-> RawOf(n, p, "CONNECT")]
<1>4. ASSUME NEW s \in Fabric, Sends(n, DevOf[p], pk, s), Quiet(s, Now')
      PROVE  DataRight(Now')
  <2>1. pk.src # "UD"
    OBVIOUS
  <2> HIDE DEF pk
  <2>2. DataRight(s)
    BY <1>2, <1>3, <1>4, <2>1, SendsRight
  <2> QED BY <1>4, <2>2, LessQuiet, LessRight
<1> QED
  BY <1>1, <1>2, <1>4

(* The commands that the ports of a device send at once *)
LEMMA FewerCommands ==
  ASSUME mode \in Cases, mode.multi, up \in UpS, NEW h, NEW b \in 1..mode.loads,
         NEW cmd \in {"CONNECT", "DISCONNECT"}, NEW k \in Guids
  PROVE  LET x == [t |-> "raw", cmd |-> cmd, guid |-> k, addr |-> b, boot |-> 0, via |-> 0]
         IN x \in RawSent /\ Fewer(up[k], Enqueue(up[k], x))
<1> DEFINE x == [t |-> "raw", cmd |-> cmd, guid |-> k, addr |-> b, boot |-> 0, via |-> 0]
<1>1. 0 \in 0..mode.netd /\ 0 \in PortNums
  BY ModeFacts, LidFacts DEF PortNums
<1>2. x \in RawSent
  BY <1>1 DEF RawSent, RawRec
<1> HIDE DEF x
<1>3. x \in Sent /\ x \notin Wire /\ up[k] \in Seq(Sent)
  BY <1>2, NotWire DEF Sent, UpS
<1>4. Fewer(up[k], Enqueue(up[k], x))
  BY <1>3, FewerPut
<1> QED
  BY <1>2, <1>4 DEF x

(* A device that is loaded, removed or lost starts with nothing. *)
LEMMA ReloadRight ==
  ASSUME FabricInv, DataRight(Now), NEW h \in Hosts, NEW x, x.ready = None, x.mc = None,
         hca' = [hca EXCEPT ![h] = x],
         \A k \in Guids : /\ port'[k].lid \in {0, port[k].lid}
                          /\ Fewer(up[k], up'[k]) /\ Fewer(down[k], down'[k]),
         log'.posted = log.posted, log'.sent = log.sent, log'.got = log.got,
         log'.misled = log.misled
  PROVE  DataRight(Now')
<1>1. hca \in [Hosts -> HcaRec]
  BY NowFields DEF HcaS
<1>2. \A k \in Hosts : hca'[k] = IF k = h THEN x ELSE hca[k]
  BY <1>1
<1>3. /\ Now.hca = hca /\ Now.port = port /\ Now.up = up /\ Now.down = down /\ Now.log = log
      /\ Now'.hca = hca' /\ Now'.port = port' /\ Now'.up = up' /\ Now'.down = down'
      /\ Now'.log = log'
  BY DEF Now
<1>4. \A k \in Hosts : /\ LessDev(hca[k], hca'[k])
                       /\ hca'[k].ready.src = "UD" => hca'[k].ready = hca[k].ready
  BY <1>2 DEF LessDev, None
<1>5. Less(Now, Now')
  BY <1>3, <1>4 DEF Less
<1> QED
  BY <1>5, LessRight

LEMMA AddRight ==
  ASSUME FabricInv, NEW h \in Hosts, pib_dev_add(h), DataRight(Now)
  PROVE  DataRight(Now')
<1> DEFINE b == hca[h].boot + 1
           x == LoadedDev(h, b)
<1>1. AddDone(h)
  BY AddDoes
<1>2. mode \in Cases /\ up \in UpS
  BY NowFields
<1>3. /\ b \in 1..mode.loads /\ hca' = [hca EXCEPT ![h] = x] /\ down' = down /\ log' = log
  BY <1>1 DEF AddDone
<1>4. x.ready = None /\ x.mc = None
  BY <1>2, <1>3, LoadedDevType
<1>5. \A k \in Guids : port'[k].lid \in {0, port[k].lid}
  BY <1>1 DEF AddDone, FreshPorts, FreshPort
<1>6. \A k \in Guids : Fewer(up[k], up'[k])
  <2>1. CASE up' = up
    BY <2>1, FewerSelf
  <2>2. CASE mode.multi /\ up' = Connects(h, b)
    BY <1>2, <1>3, <2>2, FewerCommands, FewerSelf DEF Connects
  <2> QED BY <1>1, <2>1, <2>2 DEF AddDone
<1> HIDE DEF x
<1> QED
  BY <1>3, <1>4, <1>5, <1>6, FewerSelf, ReloadRight

LEMMA GoneRight ==
  ASSUME FabricInv, NEW h \in Hosts, pib_dev_remove(h) \/ Crash(h), DataRight(Now)
  PROVE  DataRight(Now')
<1> DEFINE x == GoneDev(hca[h].boot)
<1>1. GoneDone(h) /\ (RemoveDone(h) \/ CrashDone(h))
  BY RemoveDoes, CrashDoes DEF RemoveDone, CrashDone
<1>2. mode \in Cases /\ up \in UpS /\ hca \in HcaS /\ log \in LogS
  BY NowFields
<1>3. /\ hca[h].up /\ hca' = [hca EXCEPT ![h] = x] /\ port' = FreshPorts(port, h)
      /\ down' = Cleared(h)
  BY <1>1 DEF GoneDone
<1>4. hca[h].boot \in 1..mode.loads
  BY <1>2, <1>3, HcaFacts, ModeFacts DEF HcaRec
<1>5. x.ready = None /\ x.mc = None
  <2>1. hca[h].boot \in 0..mode.loads
    BY <1>4
  <2> QED BY <1>2, <2>1, GoneDevType
<1>6. \A k \in Guids : port'[k].lid \in {0, port[k].lid}
  BY <1>3 DEF FreshPorts, FreshPort
<1>7. \A k \in Guids : Fewer(down[k], down'[k])
  BY <1>3, FewerSelf, FewerNone DEF Cleared
<1>8. \A k \in Guids : Fewer(up[k], up'[k])
  <2>1. CASE up' = up
    BY <2>1, FewerSelf
  <2>2. CASE mode.multi /\ up' = Disconnects(h)
    BY <1>2, <1>4, <2>2, FewerCommands, FewerSelf DEF Disconnects
  <2> QED BY <1>1, <2>1, <2>2 DEF RemoveDone, CrashDone
<1>9. /\ log'.posted = log.posted /\ log'.sent = log.sent /\ log'.got = log.got
      /\ log'.misled = log.misled
  BY <1>1, <1>2 DEF RemoveDone, CrashDone, LogS
<1> HIDE DEF x
<1> QED
  BY <1>3, <1>5, <1>6, <1>7, <1>8, <1>9, ReloadRight

(* Queues that lose packets, and nothing else *)
LEMMA LossRight ==
  ASSUME DataRight(Now), hca' = hca, port' = port,
         \A k \in Guids : Fewer(up[k], up'[k]) /\ Fewer(down[k], down'[k]),
         log'.posted = log.posted, log'.sent = log.sent, log'.got = log.got,
         log'.misled = log.misled
  PROVE  DataRight(Now')
<1>1. /\ Now.hca = hca /\ Now.port = port /\ Now.up = up /\ Now.down = down /\ Now.log = log
      /\ Now'.hca = hca' /\ Now'.port = port' /\ Now'.up = up' /\ Now'.down = down'
      /\ Now'.log = log'
  BY DEF Now
<1>2. Less(Now, Now')
  BY <1>1 DEF Less, LessDev
<1> QED
  BY <1>2, LessRight

LEMMA NextData ==
  ASSUME FabricInv, [Next]_vars, DataRight(Now)
  PROVE  DataRight(Now')
<1>1. /\ mode \in Cases /\ Now \in Fabric /\ hca \in HcaS /\ up \in UpS /\ down \in DownS
      /\ log \in LogS /\ Now.hca = hca /\ Now.port = port
  BY NowFields
<1>2. ASSUME hca' = hca, port' = port, up' = up, down' = down, log' = log
      PROVE  DataRight(Now')
  BY <1>2, FewerSelf, LossRight
<1>3. ASSUME Quiet(Now, Now') PROVE DataRight(Now')
  BY <1>3, LessQuiet, LessRight
<1>4. CASE UNCHANGED vars
  BY <1>2, <1>4 DEF vars
<1>5. ASSUME NEW h \in Hosts, \/ pib_dev_add(h) \/ pib_dev_remove(h) \/ Crash(h)
                              \/ DeliverMulticast(h) \/ ThreadHangs(h)
                              \/ SchedulerPass(h) \/ process_mad(h)
      PROVE  DataRight(Now')
  <2>1. CASE SchedulerPass(h)
    <3> DEFINE pk == hca[h].ready
    <3>1. pk # None /\ Now' = process_sendmsg(Now, h)
      BY <2>1, PassDoes
    <3>2. pk \in Waiting /\ DevOf[pk.port] = h /\ Sends(Now, h, pk, Now')
      BY <1>1, <3>1, SendmsgDoes
    <3>3. Retries(Now, h, Now')
      BY <1>1, <3>2 DEF Retries
    <3> QED BY <1>1, <3>3, RetriesRight
  <2> QED BY <1>3, <1>5, <2>1, AddRight, GoneRight, MulticastRight, QuietHang, MadRight
<1>6. ASSUME NEW p \in Guids, \/ pib_netd_comm_handler(p) \/ HcaReceive(p)
                              \/ SwitchReceive(p) \/ Lose(p)
      PROVE  DataRight(Now')
  <2>1. CASE Lose(p)
    <3>1. /\ hca' = hca /\ port' = port /\ log' = [log EXCEPT !.faults = log.faults + 1]
          /\ \/ up[p] # <<>> /\ up' = [up EXCEPT ![p] = Tail(up[p])] /\ down' = down
             \/ down[p] # <<>> /\ down' = [down EXCEPT ![p] = Tail(down[p])] /\ up' = up
      BY <2>1, LoseDoes
    <3>2. /\ log'.posted = log.posted /\ log'.sent = log.sent /\ log'.got = log.got
          /\ log'.misled = log.misled
      BY <1>1, <3>1 DEF LogS
    <3>3. /\ up[p] \in Seq(Sent) /\ down[p] \in Seq(Came)
          /\ up \in [Guids -> Seq(Sent)] /\ down \in [Guids -> Seq(Came)]
      BY <1>1 DEF UpS, DownS
    <3>4. \A k \in Guids : Fewer(up[k], up'[k]) /\ Fewer(down[k], down'[k])
      <4>1. CASE up[p] # <<>> /\ up' = [up EXCEPT ![p] = Tail(up[p])] /\ down' = down
        <5>1. \A k \in Guids : up'[k] = IF k = p THEN Tail(up[p]) ELSE up[k]
          BY <3>3, <4>1
        <5> QED BY <3>3, <4>1, <5>1, FewerTail, FewerSelf
      <4>2. CASE down[p] # <<>> /\ down' = [down EXCEPT ![p] = Tail(down[p])] /\ up' = up
        <5>1. \A k \in Guids : down'[k] = IF k = p THEN Tail(down[p]) ELSE down[k]
          BY <3>3, <4>2
        <5> QED BY <3>3, <4>2, <5>1, FewerTail, FewerSelf
      <4> QED BY <3>1, <4>1, <4>2
    <3> QED BY <3>1, <3>2, <3>4, LossRight
  <2> QED BY <1>6, <2>1, TimerRight, ReceiveRight, SwitchRight
<1>7. ASSUME NEW m \in Msgs, pib_process_ud_qp_request(m)
      PROVE  DataRight(Now')
  BY <1>7, PostRight
<1>8. ASSUME NEW q \in QPs, pib_attach_mcast(q) \/ pib_detach_mcast(q) \/ pib_destroy_qp(q)
      PROVE  DataRight(Now')
  BY <1>3, <1>8, QuietGroup
<1>9. CASE SmSend
  <2> DEFINE d == Request(SmStep)
             pk == [src |-> "QP0", port |-> SmPort, d |-> d]
  <2>1. CASE hca' = hca /\ port' = port /\ up' = up /\ down' = down /\ log' = log
    BY <1>2, <2>1
  <2>2. CASE /\ d \in SmpSent /\ d.guid = SmPort /\ port[SmPort].state # IB_PORT_DOWN
             /\ Now' = BuildAndSend(Now, DevOf[SmPort], SmPort, "QP0", d)
    <3> HIDE DEF d
    <3>1. SmPort \in Guids /\ DevOf[SmPort] \in Hosts
      BY NetFacts
    <3>2. Sends(Now, DevOf[SmPort], pk, Now') /\ pk.src # "UD"
      BY <1>1, <2>2, <3>1, BuildDoes
    <3> HIDE DEF pk
    <3> QED BY <1>1, <3>1, <3>2, SendsRight
  <2> QED BY <1>9, <2>1, <2>2, SmSendDoes
<1>10. CASE SmLocal
  <2>1. SubnDone(Now, SmPort, Now')
    BY <1>10, SmLocalDoes
  <2>2. Less(Now, Now')
    BY <1>1, <2>1, LessSubn, NetFacts
  <2> QED BY <2>2, LessRight
<1>11. CASE SmTimeout
  BY <1>3, <1>11, QuietTimeout
<1>12. CASE NetdStart
  <2>1. Now' = [Now EXCEPT !.sw = init_switch(sw.boot + 1)]
    BY <1>12, StartDoes
  <2>2. hca' = hca /\ port' = port /\ up' = up /\ down' = down /\ log' = log
    BY <2>1 DEF Now
  <2> QED BY <1>2, <2>2
<1>13. CASE NetdStop
  <2>1. Now' = [Now EXCEPT !.sw = [sw EXCEPT !.run = "stopped"], !.up = NoneUp]
    BY <1>13, StopDoes
  <2>2. hca' = hca /\ port' = port /\ up' = NoneUp /\ down' = down /\ log' = log
    BY <2>1 DEF Now
  <2>3. \A k \in Guids : Fewer(up[k], up'[k]) /\ Fewer(down[k], down'[k])
    BY <2>2, FewerNone, FewerSelf DEF NoneUp
  <2> QED BY <2>2, <2>3, LossRight
<1> QED
  BY <1>4, <1>5, <1>6, <1>7, <1>8, <1>9, <1>10, <1>11, <1>12, <1>13 DEF Next

LEMMA InitData ==
  ASSUME Init
  PROVE  DataRight(Now)
<1>1. /\ \A h \in Hosts : hca[h].ready = None /\ hca[h].mc = None
      /\ \A p \in Guids : port[p].lid = 0 /\ up[p] = <<>> /\ down[p] = <<>>
      /\ \A m \in Msgs : log.sent[m] = 0 /\ \A q \in QPs : log.got[m][q] = 0
      /\ log.posted = {}
  BY DEF Init, FreshHca, FreshPort
<1>2. /\ Now.hca = hca /\ Now.port = port /\ Now.up = up /\ Now.down = down /\ Now.log = log
  BY DEF Now
<1>3. \A p \in Guids : \A d : ~Has(up[p], d) /\ ~Has(down[p], d)
  BY <1>1 DEF Has
<1>4. /\ \A m : ~InUp(Now, m)
      /\ \A m : \A p \in Guids : ~InDown(Now, m, p)
      /\ \A m : \A q \in QPs : ~InCopy(Now, m, q)
  <2>1. \A q \in QPs : DevOf[QpPort[q]] \in Hosts
    BY NetFacts
  <2> QED BY <1>1, <1>2, <1>3, <2>1 DEF InUp, InDown, InCopy
<1>5. \A h \in Hosts : hca[h].ready.src # "UD"
  BY <1>1 DEF None
<1>6. LidsRight(Now)
  BY <1>1, <1>2, <1>3, <1>5 DEF LidsRight
<1>7. SentRight(Now)
  BY <1>1, <1>2, <1>4, <1>5 DEF SentRight
<1>8. OneEach(Now)
  <2>1. \A p \in Guids : NoRepeat(up[p]) /\ NoRepeat(down[p])
    BY <1>1 DEF NoRepeat
  <2>2. \A q \in QPs : QpPort[q] \in Guids
    BY NetFacts
  <2> QED BY <1>1, <1>2, <1>4, <2>1, <2>2 DEF OneEach
<1> QED
  BY <1>6, <1>7, <1>8 DEF DataRight

LEMMA SpecData == Spec => [](FabricInv /\ DataRight(Now))
<1>1. Init => DataRight(Now)
  BY InitData, SMTT(30)
<1>2. FabricInv /\ DataRight(Now) /\ [Next]_vars => DataRight(Now)'
  <2> SUFFICES ASSUME FabricInv, DataRight(Now), [Next]_vars
               PROVE  DataRight(Now)'
    OBVIOUS
  <2>1. mode' = mode
    BY NextFabric
  <2>2. DataRight(Now')
    BY NextData
  <2>3. Wire' = Wire
    BY <2>1 DEF Wire, Data, DataRec, PKeys, Rekeyed, PortNums, Lids
  <2>4. LidsRight(Now') = LidsRight(Now)'
    BY <2>3 DEF LidsRight, Has
  <2>5. SentRight(Now') = SentRight(Now)'
    BY <2>3 DEF SentRight, InUp, InDown, InCopy, Has
  <2>6. OneEach(Now') = OneEach(Now)'
    BY <2>3 DEF OneEach, InUp, InDown, InCopy, Comes, NoRepeat, Has
  <2> QED BY <2>2, <2>4, <2>5, <2>6 DEF DataRight
<1> QED
  BY <1>1, <1>2, SpecFabric, PTL DEF Spec

(* NoMisdelivery for every fabric: whatever stale entry of a forwarding    *)
(* table or of pib_lid_table a unicast packet followed, a port only offers *)
(* it to the queue pair it names, and only if the LID is its own           *)
(* (process_incoming_message_per_qp).                                      *)
THEOREM NeverMisdelivered == Spec => []NoMisdelivery
<1>1. FabricInv /\ DataRight(Now) => NoMisdelivery
  <2>1. Now.log = log
    BY DEF Now
  <2> QED BY <2>1 DEF DataRight, LidsRight, NoMisdelivery
<1> QED
  BY <1>1, SpecData, PTL

(* DeliveredOnce for every fabric: the switch brings a packet to each      *)
(* socket once at most (relay_unicast_packet, relay_multicast_packet), the *)
(* own socket gets it from process_sendmsg and never from the switch, and  *)
(* the members of the group are copied once for each packet and port.      *)
THEOREM DeliveredAtMostOnce == Spec => []DeliveredOnce
<1>1. FabricInv /\ DataRight(Now) => DeliveredOnce
  <2> SUFFICES ASSUME FabricInv, DataRight(Now), NEW m \in Msgs, NEW q \in QPs
               PROVE  log.got[m][q] <= IF q = MsgFrom[m] /\ MsgDlid[m] = Mlid /\ ~log.misled
                                       THEN 0 ELSE 1
    BY DEF DeliveredOnce
  <2>1. Now.log = log /\ log \in LogS
    BY NowFields
  <2>2. log.got[m][q] \in Nat
    BY <2>1 DEF LogS
  <2>3. log.got[m][q] <= 1
    BY <2>1 DEF DataRight, OneEach
  <2>4. ~log.misled /\ log.got[m][q] > 0 /\ MsgDlid[m] = Mlid => q # MsgFrom[m]
    BY <2>1 DEF DataRight, LidsRight
  <2> QED BY <2>2, <2>3, <2>4
<1> QED
  BY <1>1, SpecData, PTL

(* SentOnce for every fabric: a message leaves the send buffer in the step *)
(* that transmits it, although any later pass, receipt or SMP may be the   *)
(* one that finds it there (process_sendmsg).                              *)
THEOREM SentAtMostOnce == Spec => []SentOnce
<1>1. FabricInv /\ DataRight(Now) => SentOnce
  <2> SUFFICES ASSUME FabricInv, DataRight(Now) PROVE SentOnce
    OBVIOUS
  <2>1. Now.log = log /\ Now.up = up /\ up \in UpS
    BY NowFields
  <2>2. \A m \in Msgs : log.sent[m] <= 1
    BY <2>1 DEF DataRight, SentRight
  <2>3. ASSUME NEW p \in Guids, NEW i \in DOMAIN up[p], up[p][i].t = "data", ~log.misled
        PROVE  up[p][i].slid = Lid[p]
    <3> DEFINE d == up[p][i]
    <3>1. up[p] \in Seq(Sent) /\ i \in 1..Len(up[p])
      BY <2>1, <2>3 DEF UpS
    <3>2. d \in Sent /\ d.guid = p
      BY <2>1, <3>1 DEF UpS
    <3>3. d \in Wire
      BY <2>3, <3>2, SentTags
    <3>4. Has(up[p], d)
      BY <3>1 DEF Has
    <3> HIDE DEF d
    <3>5. d.slid = Lid[d.guid]
      BY <2>1, <2>3, <3>3, <3>4 DEF DataRight, LidsRight
    <3> QED BY <3>2, <3>5 DEF d
  <2> QED BY <2>2, <2>3 DEF SentOnce
<1> QED
  BY <1>1, SpecData, PTL

-----------------------------------------------------------------------------
(* The links: what a port, pibnetd and the commands between them know *)

(* A CONNECT from the socket that a port has now *)
IsCur(d, b) == d.cmd = "CONNECT" /\ d.addr = b
IsAckOf(d, b) == d.t = "raw" /\ d.cmd = "CONNECT_ACK" /\ d.boot = b

(* Behind a CONNECT from the socket of now there are no older commands. *)
InOrder(s, b) == \A i, j \in 1..Len(s) :
  i < j /\ s[i].t = "raw" /\ s[j].t = "raw" /\ IsCur(s[i], b) => IsCur(s[j], b)

(* The pibnetd of now answered port p, or its answer is on the way. *)
Acked(n, p) ==
  \/ n.port[p].connected /\ n.port[p].ack = n.sw.boot
  \/ \E d : Has(n.down[p], d) /\ IsAckOf(d, n.sw.boot)
Listed(s, p, b) == \E q \in SwPorts : s.port[q] = [guid |-> p, addr |-> b]

PortKnown(n, p) ==
  LET h == n.hca[DevOf[p]]
  IN /\ ~h.up => (\A d : ~Has(n.down[p], d)) /\ ~n.port[p].connected
     /\ n.port[p].ack <= n.sw.boot
     /\ \A d : Has(n.down[p], d) /\ d.t = "raw" => d.boot <= n.sw.boot
     /\ \A d : Has(n.up[p], d) /\ d.t = "raw" => d.addr <= h.boot
     /\ h.up => InOrder(n.up[p], h.boot)
     /\ n.sw.run = "running" /\ Acked(n, p) =>
          /\ Listed(n.sw, p, h.boot)
          /\ \A d : Has(n.up[p], d) /\ d.t = "raw" => IsCur(d, h.boot)
LinkKnown(n) == \A p \in Guids : PortKnown(n, p)

(* What a queue to the switch may gain, and a queue from it *)
Commanded(s, t, b) ==
  /\ \A d : Has(t, d) /\ d.t = "raw" => Has(s, d) \/ IsCur(d, b)
  /\ InOrder(s, b) => InOrder(t, b)
NoRaw(s, t) == \A d : Has(t, d) /\ d.t = "raw" => Has(s, d)

(* Steps that bring no link command but a CONNECT from the socket of now *)
Calm(n, r) ==
  /\ \A h \in Hosts : r.hca[h].up = n.hca[h].up /\ r.hca[h].boot = n.hca[h].boot
  /\ \A p \in Guids : r.port[p].connected = n.port[p].connected /\ r.port[p].ack = n.port[p].ack
  /\ r.sw.boot = n.sw.boot /\ r.sw.port = n.sw.port
  /\ r.sw.run = "running" => n.sw.run = "running"
  /\ \A p \in Guids :
       /\ Commanded(n.up[p], r.up[p], n.hca[DevOf[p]].boot) /\ NoRaw(n.down[p], r.down[p])
       /\ ~n.hca[DevOf[p]].up => \A d : Has(r.down[p], d) => Has(n.down[p], d)

LEMMA CalmKnown ==
  ASSUME NEW n \in Fabric, NEW r, Calm(n, r), LinkKnown(n)
  PROVE  LinkKnown(r)
<1> SUFFICES ASSUME NEW p \in Guids PROVE PortKnown(r, p)
  BY DEF LinkKnown
<1> DEFINE h == DevOf[p]
           b == n.hca[h].boot
<1>1. h \in Hosts /\ b \in Nat
  <2>1. h \in Hosts
    BY NetFacts
  <2>2. n.hca[h] \in HcaRec
    BY <2>1, FabricFields, HcaFacts
  <2> QED BY <2>1, <2>2 DEF HcaRec
<1>2. /\ r.hca[h].up = n.hca[h].up /\ r.hca[h].boot = b
      /\ r.port[p].connected = n.port[p].connected /\ r.port[p].ack = n.port[p].ack
      /\ r.sw.boot = n.sw.boot /\ r.sw.port = n.sw.port
      /\ r.sw.run = "running" => n.sw.run = "running"
  BY <1>1 DEF Calm
<1>3. /\ Commanded(n.up[p], r.up[p], b) /\ NoRaw(n.down[p], r.down[p])
      /\ ~n.hca[h].up => \A d : Has(r.down[p], d) => Has(n.down[p], d)
  BY DEF Calm
<1>4. /\ ~n.hca[h].up => (\A d : ~Has(n.down[p], d)) /\ ~n.port[p].connected
      /\ n.port[p].ack <= n.sw.boot
      /\ \A d : Has(n.down[p], d) /\ d.t = "raw" => d.boot <= n.sw.boot
      /\ \A d : Has(n.up[p], d) /\ d.t = "raw" => d.addr <= b
      /\ n.hca[h].up => InOrder(n.up[p], b)
      /\ n.sw.run = "running" /\ Acked(n, p) =>
           /\ Listed(n.sw, p, b)
           /\ \A d : Has(n.up[p], d) /\ d.t = "raw" => IsCur(d, b)
  BY DEF LinkKnown, PortKnown
<1> HIDE DEF b
<1>5. Acked(r, p) => Acked(n, p)
  BY <1>2, <1>3 DEF Acked, NoRaw, IsAckOf
<1>6. Listed(n.sw, p, b) => Listed(r.sw, p, b)
  BY <1>2 DEF Listed
<1>7. \A d : Has(r.up[p], d) /\ d.t = "raw" => Has(n.up[p], d) \/ IsCur(d, b)
  BY <1>3 DEF Commanded
<1>8. \A d : Has(r.up[p], d) /\ d.t = "raw" => d.addr <= b
  BY <1>1, <1>4, <1>7 DEF IsCur
<1>9. \A d : Has(r.down[p], d) /\ d.t = "raw" => d.boot <= r.sw.boot
  BY <1>2, <1>3, <1>4 DEF NoRaw
<1>10. n.hca[h].up => InOrder(r.up[p], b)
  BY <1>3, <1>4 DEF Commanded
<1>11. r.sw.run = "running" /\ Acked(r, p) =>
         /\ Listed(r.sw, p, b)
         /\ \A d : Has(r.up[p], d) /\ d.t = "raw" => IsCur(d, b)
  BY <1>2, <1>4, <1>5, <1>6, <1>7
<1>12. ~n.hca[h].up => (\A d : ~Has(r.down[p], d)) /\ ~n.port[p].connected
  BY <1>3, <1>4
<1> HIDE DEF h
<1>13. PortKnown(r, p)
  BY <1>2, <1>4, <1>8, <1>9, <1>10, <1>11, <1>12 DEF PortKnown, h
<1> QED
  BY <1>13

LEMMA CommandedSelf ==
  ASSUME NEW s, NEW b
  PROVE  Commanded(s, s, b) /\ NoRaw(s, s)
BY DEF Commanded, NoRaw

LEMMA CommandedNone ==
  ASSUME NEW s, NEW b
  PROVE  Commanded(s, <<>>, b) /\ NoRaw(s, <<>>) /\ InOrder(<<>>, b)
<1>1. 1..Len(<<>>) = {}
  OBVIOUS
<1> QED
  BY <1>1 DEF Commanded, NoRaw, Has, InOrder

LEMMA CommandedTail ==
  ASSUME NEW S, NEW s \in Seq(S), s # <<>>, NEW b
  PROVE  /\ Commanded(s, Tail(s), b) /\ NoRaw(s, Tail(s))
         /\ InOrder(s, b) /\ Head(s).t = "raw" /\ IsCur(Head(s), b)
              => \A d : Has(Tail(s), d) /\ d.t = "raw" => IsCur(d, b)
<1> DEFINE t == Tail(s)
           x == Head(s)
<1>1. /\ t \in Seq(S) /\ Len(s) \in Nat \ {0} /\ Len(t) = Len(s) - 1
      /\ \A i \in 1..Len(t) : i + 1 \in 1..Len(s) /\ t[i] = s[i + 1]
      /\ x \in S /\ 1 \in 1..Len(s) /\ x = s[1]
  BY TailSeq
<1> HIDE DEF t, x
<1>2. \A d : Has(t, d) => Has(s, d)
  BY <1>1 DEF Has
<1>3. InOrder(s, b) => InOrder(t, b)
  <2> SUFFICES ASSUME InOrder(s, b), NEW i \in 1..Len(t), NEW j \in 1..Len(t), i < j,
                      t[i].t = "raw", t[j].t = "raw", IsCur(t[i], b)
               PROVE  IsCur(t[j], b)
    BY DEF InOrder
  <2>1. /\ i + 1 \in 1..Len(s) /\ t[i] = s[i + 1] /\ j + 1 \in 1..Len(s) /\ t[j] = s[j + 1]
        /\ i + 1 < j + 1
    BY <1>1
  <2> QED BY <2>1 DEF InOrder
<1>4. ASSUME InOrder(s, b), x.t = "raw", IsCur(x, b), NEW d, Has(t, d), d.t = "raw"
      PROVE  IsCur(d, b)
  <2>1. PICK i \in 1..Len(t) : t[i] = d
    BY <1>4 DEF Has
  <2>2. i + 1 \in 1..Len(s) /\ s[i + 1] = d /\ 1 < i + 1 /\ s[1] = x /\ 1 \in 1..Len(s)
    BY <1>1, <2>1
  <2> QED BY <1>4, <2>2 DEF InOrder
<1> QED
  BY <1>2, <1>3, <1>4 DEF Commanded, NoRaw, t, x

LEMMA CommandedPut ==
  ASSUME mode \in Cases, NEW S, NEW s \in Seq(S), NEW x \in S, NEW b
  PROVE  LET t == Enqueue(s, x)
         IN /\ \A d : Has(t, d) => d = x \/ Has(s, d)
            /\ (x.t = "raw" => IsCur(x, b)) => Commanded(s, t, b)
            /\ x.t # "raw" => NoRaw(s, t)
<1> DEFINE t == Enqueue(s, x)
<1>1. \A d : Has(t, d) => d = x \/ Has(s, d)
  BY PutWire
<1>2. t = s \/ t = Append(s, x)
  BY DEF Enqueue
<1>3. /\ Append(s, x) \in Seq(S) /\ Len(Append(s, x)) = Len(s) + 1
      /\ \A i \in 1..Len(s) : Append(s, x)[i] = s[i]
      /\ Append(s, x)[Len(s) + 1] = x
  BY AppendProperties
<1>4. Len(s) \in Nat
  OBVIOUS
<1> HIDE DEF t
<1>5. \A i \in 1..Len(t) : (i \in 1..Len(s) /\ t[i] = s[i]) \/ (t[i] = x /\ i = Len(s) + 1)
  BY <1>2, <1>3, <1>4
<1>6. ASSUME x.t = "raw" => IsCur(x, b), InOrder(s, b) PROVE InOrder(t, b)
  <2> SUFFICES ASSUME NEW i \in 1..Len(t), NEW j \in 1..Len(t), i < j,
                      t[i].t = "raw", t[j].t = "raw", IsCur(t[i], b)
               PROVE  IsCur(t[j], b)
    BY DEF InOrder
  <2>1. CASE j \in 1..Len(s) /\ t[j] = s[j]
    <3>1. i \in 1..Len(s) /\ t[i] = s[i]
      BY <1>4, <1>5, <2>1
    <3> QED BY <1>6, <2>1, <3>1 DEF InOrder
  <2>2. CASE t[j] = x
    BY <1>6, <2>2
  <2> QED BY <1>5, <2>1, <2>2
<1> QED
  BY <1>1, <1>6 DEF Commanded, NoRaw, t

(* Nothing of the links is concerned. *)
LEMMA CalmSame ==
  ASSUME NEW n, NEW r,
         \A h \in Hosts : r.hca[h].up = n.hca[h].up /\ r.hca[h].boot = n.hca[h].boot,
         \A p \in Guids : r.port[p].connected = n.port[p].connected /\ r.port[p].ack = n.port[p].ack,
         r.sw = n.sw, r.up = n.up, r.down = n.down
  PROVE  Calm(n, r)
BY CommandedSelf DEF Calm

LEMMA CalmQuiet ==
  ASSUME NEW n, NEW r, Quiet(n, r)
  PROVE  Calm(n, r)
BY CalmSame DEF Quiet, DevSame, PortSame

LEMMA CalmSends ==
  ASSUME mode \in Cases, NEW n \in Fabric, NEW h \in Hosts, NEW pk, NEW r, Sends(n, h, pk, r),
         pk.src = "LINK" => IsCur(pk.d, n.hca[DevOf[pk.port]].boot)
  PROVE  Calm(n, r)
<1>1. /\ \A k \in Hosts : r.hca[k].up = n.hca[k].up /\ r.hca[k].boot = n.hca[k].boot
      /\ r.port = n.port /\ r.sw = n.sw
  BY DEF Sends, Alike
<1>2. CASE r.up = n.up /\ r.down = n.down
  BY <1>1, <1>2, CalmSame
<1>3. CASE ~(r.up = n.up /\ r.down = n.down)
  <2> DEFINE d == pk.d
             a == pk.port
  <2>1. pk \in Packet
    BY <1>3 DEF Sends
  <2>2. /\ d \in Sent /\ a \in Guids /\ (d.t = "raw" => IsCur(d, n.hca[DevOf[a]].boot))
        /\ pk.src = "UD" => d \in Came /\ d.t # "raw"
    <3>1. /\ d \in Sent /\ a \in Guids /\ pk.src \in {"LINK", "QP0", "UD"}
          /\ pk.src = "UD" => d \in Wire /\ d \in Came
          /\ pk.src = "QP0" => d \in SmpSent
      BY <2>1, PacketFacts
    <3>2. /\ d \in Wire => d.t # "raw"
          /\ d \in SmpSent => d.t # "raw"
      BY DEF Wire, Data, DataRec, SmpSent, SmpRec
    <3> QED BY <3>1, <3>2
  <2>3. n.up \in UpS /\ n.down \in DownS
    BY FabricFields
  <2>4. r.up = n.up \/ r.up = [n.up EXCEPT ![a] = Enqueue(n.up[a], d)]
    BY DEF Sends
  <2>5. r.down = n.down \/ \E k \in Guids : /\ pk.src = "UD" /\ n.hca[DevOf[k]].up
                                           /\ r.down = [n.down EXCEPT ![k] = Enqueue(n.down[k], d)]
    BY DEF Sends
  <2> HIDE DEF d, a
  <2>6. ASSUME NEW p \in Guids PROVE Commanded(n.up[p], r.up[p], n.hca[DevOf[p]].boot)
    <3>1. n.up[p] \in Seq(Sent) /\ (r.up[p] = n.up[p] \/ (p = a /\ r.up[p] = Enqueue(n.up[p], d)))
      BY <2>2, <2>3, <2>4, PutUp
    <3> DEFINE b == n.hca[DevOf[p]].boot
    <3>2. p = a /\ d.t = "raw" => IsCur(d, b)
      BY <2>2
    <3> HIDE DEF b
    <3>3. p = a => Commanded(n.up[p], Enqueue(n.up[p], d), b)
      BY <2>2, <3>1, <3>2, CommandedPut
    <3>4. Commanded(n.up[p], r.up[p], b)
      BY <3>1, <3>3, CommandedSelf
    <3> QED BY <3>4 DEF b
  <2>7. ASSUME NEW p \in Guids
        PROVE  /\ NoRaw(n.down[p], r.down[p])
               /\ ~n.hca[DevOf[p]].up => r.down[p] = n.down[p]
    <3>1. CASE r.down = n.down
      BY <3>1, CommandedSelf
    <3>2. ASSUME NEW k \in Guids, pk.src = "UD", n.hca[DevOf[k]].up,
                 r.down = [n.down EXCEPT ![k] = Enqueue(n.down[k], d)]
          PROVE  /\ NoRaw(n.down[p], r.down[p])
                 /\ ~n.hca[DevOf[p]].up => r.down[p] = n.down[p]
      <4>1. d \in Came /\ d.t # "raw"
        BY <2>2, <3>2
      <4>2. n.down[p] \in Seq(Came) /\ (r.down[p] = n.down[p] \/ (p = k /\ r.down[p] = Enqueue(n.down[p], d)))
        BY <2>3, <3>2, <4>1, PutDown
      <4>3. NoRaw(n.down[p], Enqueue(n.down[p], d)) /\ NoRaw(n.down[p], n.down[p])
        BY <4>1, <4>2, CommandedPut, CommandedSelf
      <4> QED BY <3>2, <4>2, <4>3
    <3> QED BY <2>5, <3>1, <3>2
  <2> QED BY <1>1, <2>6, <2>7 DEF Calm
<1> QED
  BY <1>2, <1>3

LEMMA KnownRetries ==
  ASSUME mode \in Cases, NEW n \in Fabric, NEW h \in Hosts, NEW r, Retries(n, h, r), LinkKnown(n)
  PROVE  LinkKnown(r)
<1> DEFINE pk == n.hca[h].ready
<1>1. r = n \/ (pk \in Waiting /\ Sends(n, h, pk, r))
  BY DEF Retries
<1> HIDE DEF pk
<1>2. CASE pk \in Waiting /\ Sends(n, h, pk, r)
  <2>1. pk.src # "LINK"
    BY <1>2, WaitingFacts
  <2>2. Calm(n, r)
    BY <1>2, <2>1, CalmSends
  <2> QED BY <2>2, CalmKnown
<1> QED
  BY <1>1, <1>2

LEMMA CalmCopies ==
  ASSUME NEW n \in Fabric, NEW h \in Hosts, NEW x
  PROVE  Calm(n, SetCopies(n, h, x))
<1> DEFINE r == SetCopies(n, h, x)
<1>1. /\ r.port = n.port /\ r.sw = n.sw /\ r.up = n.up /\ r.down = n.down
      /\ \A k \in Hosts : r.hca[k].up = n.hca[k].up /\ r.hca[k].boot = n.hca[k].boot
  BY CopiesIs
<1> HIDE DEF r
<1>2. Calm(n, r)
  BY <1>1, CalmSame
<1> QED
  BY <1>2 DEF r

LEMMA CalmTakes ==
  ASSUME NEW n \in Fabric, NEW h \in Hosts, NEW p, NEW qpn, NEW d \in Wire, NEW s,
         Takes(n, h, p, qpn, d, s)
  PROVE  Calm(n, s)
<1>1. PICK q \in QPs : s = GotOne(n, d.m, q)
  BY DEF Takes
<1>2. d.m \in Msgs
  BY DEF Wire, Data, DataRec
<1>3. s.hca = n.hca /\ s.port = n.port /\ s.sw = n.sw /\ s.up = n.up /\ s.down = n.down
  BY <1>1, <1>2, GotOneIs
<1> QED
  BY <1>3, CalmSame

LEMMA KnownPerQp ==
  ASSUME mode \in Cases, NEW n \in Fabric, NEW h \in Hosts, NEW p \in Guids,
         NEW d \in Wire, NEW qpn, n.hca[h].lock = "free", LinkKnown(n)
  PROVE  LinkKnown(process_incoming_message_per_qp(n, h, p, qpn, d))
<1> DEFINE r == process_incoming_message_per_qp(n, h, p, qpn, d)
<1>1. \/ Quiet(n, r)
      \/ \E s \in Fabric : /\ s = n \/ Takes(n, h, p, qpn, d, s)
                           /\ Retries(s, h, r)
  BY PerQpMoves
<1> SUFFICES LinkKnown(r)
  OBVIOUS
<1> HIDE DEF r
<1>2. CASE Quiet(n, r)
  BY <1>2, CalmQuiet, CalmKnown
<1>3. ASSUME NEW s \in Fabric, s = n \/ Takes(n, h, p, qpn, d, s), Retries(s, h, r)
      PROVE  LinkKnown(r)
  <2>1. LinkKnown(s)
    BY <1>3, CalmTakes, CalmKnown
  <2> QED BY <1>3, <2>1, KnownRetries
<1> QED
  BY <1>1, <1>2, <1>3

(* A port takes the answer of pibnetd, or anything else. *)
LEMMA KnownPop ==
  ASSUME NEW n \in Fabric, NEW b, LinkKnown(n), NEW p \in Guids, n.down[p] # <<>>,
         b.hca = n.hca, b.port = n.port, b.sw = n.sw, b.up = n.up,
         b.down = [n.down EXCEPT ![p] = Tail(n.down[p])]
  PROVE  LinkKnown(b)
<1>1. n.down \in [Guids -> Seq(Came)]
  BY FabricFields DEF DownS
<1>2. \A k \in Guids : b.down[k] = IF k = p THEN Tail(n.down[p]) ELSE n.down[k]
  BY <1>1
<1>3. \A k \in Guids : NoRaw(n.down[k], b.down[k])
  BY <1>1, <1>2, FewerTail DEF NoRaw
<1>4. \A k \in Guids : ~n.hca[DevOf[k]].up => b.down[k] = n.down[k]
  <2>1. Has(n.down[p], Head(n.down[p]))
    BY <1>1, FewerTail
  <2>2. n.hca[DevOf[p]].up
    BY <2>1 DEF LinkKnown, PortKnown
  <2> QED BY <1>2, <2>2
<1>5. Calm(n, b)
  BY <1>3, <1>4, CommandedSelf DEF Calm
<1> QED
  BY <1>5, CalmKnown

LEMMA KnownRaw ==
  ASSUME NEW n \in Fabric, NEW b \in Fabric, LinkKnown(n), NEW p \in Guids, n.down[p] # <<>>,
         b.hca = n.hca, b.port = n.port, b.sw = n.sw, b.up = n.up,
         b.down = [n.down EXCEPT ![p] = Tail(n.down[p])],
         Head(n.down[p]) \in RawCame
  PROVE  LinkKnown(process_raw_packet_hca(b, p, Head(n.down[p])))
<1> DEFINE d == Head(n.down[p])
           r == process_raw_packet_hca(b, p, d)
<1>1. LinkKnown(b)
  BY KnownPop
<1>2. /\ r.hca = b.hca /\ r.sw = b.sw /\ r.up = b.up /\ r.down = b.down
      /\ \A k \in Guids : k # p => r.port[k] = b.port[k]
      /\ IF d.cmd = "CONNECT_ACK" THEN r.port[p].connected /\ r.port[p].ack = d.boot
         ELSE ~r.port[p].connected /\ r.port[p].ack = b.port[p].ack
  BY RawIs
<1>3. n.down \in [Guids -> Seq(Came)]
  BY FabricFields DEF DownS
<1>4. b.down[p] = Tail(n.down[p]) /\ NoRaw(n.down[p], b.down[p]) /\ Has(n.down[p], d)
  BY <1>3, CommandedTail, FewerTail, ZenonT(30)
<1>5. d.t = "raw"
  BY DEF RawCame, RawRec
<1> HIDE DEF r, d
<1>6. \A k \in Guids : k # p => PortKnown(r, k)
  <2> SUFFICES ASSUME NEW k \in Guids, k # p PROVE PortKnown(r, k)
    OBVIOUS
  <2>1. PortKnown(b, k)
    BY <1>1 DEF LinkKnown
  <2>2. r.port[k] = b.port[k]
    BY <1>2
  <2> QED BY <1>2, <2>1, <2>2 DEF PortKnown, Acked
<1>7. PortKnown(r, p)
  <2>1. PortKnown(b, p) /\ PortKnown(n, p)
    BY <1>1 DEF LinkKnown
  <2>2. n.hca[DevOf[p]].up
    BY <1>4, <2>1 DEF PortKnown
  <2>3. Acked(r, p) => Acked(n, p)
    <3>1. CASE d.cmd = "CONNECT_ACK"
      BY <1>2, <1>4, <1>5, <3>1 DEF Acked, IsAckOf, NoRaw
    <3>2. CASE d.cmd # "CONNECT_ACK"
      BY <1>2, <1>4, <1>5, <3>2 DEF Acked, IsAckOf, NoRaw
    <3> QED BY <3>1, <3>2
  <2>4. r.port[p].ack <= r.sw.boot
    BY <1>2, <1>4, <1>5, <2>1 DEF PortKnown
  <2> QED BY <1>2, <2>1, <2>2, <2>3, <2>4 DEF PortKnown
<1>8. LinkKnown(r)
  BY <1>6, <1>7 DEF LinkKnown
<1> QED
  BY <1>8 DEF r, d

LEMMA KnownReceive ==
  ASSUME FabricInv, NEW p \in Guids, HcaReceive(p), LinkKnown(Now)
  PROVE  LinkKnown(Now')
<1> DEFINE h == DevOf[p]
           d == Head(down[p])
           b == Popped(p)
           r == process_incoming_message(b, h, p, d)
<1>1. /\ down[p] # <<>> /\ Now' = r
      /\ d.t # "raw" => b.hca[h].lock = "free"
  BY HcaReceiveDoes
<1>2. /\ mode \in Cases /\ Now \in Fabric
      /\ Now.hca = hca /\ Now.port = port /\ Now.up = up /\ Now.down = down /\ Now.sw = sw
  BY NowFields
<1>3. /\ b \in Fabric /\ b.hca = hca /\ b.port = port /\ b.up = up /\ b.sw = sw
      /\ b.down = [down EXCEPT ![p] = Tail(down[p])] /\ d \in Came
  BY <1>1, PoppedType
<1>4. h \in Hosts
  BY NetFacts
<1>5. Arrives(b, p, d, r)
  BY <1>1, <1>2, <1>3, IncomingMoves
<1> HIDE DEF b, r
<1>6. LinkKnown(b)
  BY <1>1, <1>2, <1>3, KnownPop
<1>8. CASE d \in RawCame /\ r = process_raw_packet_hca(b, p, d)
  <2>1. LinkKnown(process_raw_packet_hca(b, p, d))
    BY <1>1, <1>2, <1>3, <1>8, KnownRaw
  <2> QED BY <1>1, <1>8, <2>1
<1> HIDE DEF d, h
<1> SUFFICES LinkKnown(r)
  BY <1>1
<1>7. CASE Quiet(b, r)
  BY <1>3, <1>6, <1>7, CalmQuiet, CalmKnown
<1>9. ASSUME NEW s \in Fabric, s = Queued(b, h, [port |-> p, d |-> d]), Retries(s, h, r)
      PROVE  LinkKnown(r)
  <2>1. /\ s.port = b.port /\ s.sw = b.sw /\ s.up = b.up /\ s.down = b.down
        /\ \A k \in Hosts : s.hca[k].up = b.hca[k].up /\ s.hca[k].boot = b.hca[k].boot
    BY <1>3, <1>4, <1>9, QueuedIs
  <2>2. LinkKnown(s)
    BY <1>3, <1>6, <2>1, CalmSame, CalmKnown
  <2> QED BY <1>2, <1>4, <1>9, <2>2, KnownRetries
<1>10. ASSUME d \in Wire, NEW s \in Fabric, s = b \/ Takes(b, h, p, d.dqpn, d, s), Retries(s, h, r)
       PROVE  LinkKnown(r)
  <2>1. LinkKnown(s)
    BY <1>3, <1>4, <1>6, <1>10, CalmTakes, CalmKnown
  <2> QED BY <1>2, <1>4, <1>10, <2>1, KnownRetries
<1>11. ASSUME r = SetCopies(b, h, CopiesOf(b, h, p, d))
       PROVE  LinkKnown(r)
  BY <1>3, <1>4, <1>6, <1>11, CalmCopies, CalmKnown
<1> QED
  BY <1>1, <1>5, <1>7, <1>8, <1>9, <1>10, <1>11 DEF Arrives, h

-----------------------------------------------------------------------------
(* The links and the switch *)

(* What is new in the socket of k landed there. *)
LEMMA GrowsHas ==
  ASSUME mode \in Cases, NEW n \in Fabric, NEW r, r.out \in Seq(OutRec), NEW k \in Guids,
         NEW new, Grows(n, r, k, new)
  PROVE  \A d : Has(new, d) =>
           \/ Has(n.down[k], d)
           \/ \E i \in 1..Len(r.out) : r.out[i].d = d /\ Lands(n, r.out[i], k)
<1> DEFINE old == n.down[k]
           L == Len(old)
<1>1. /\ new \in Seq(Came) /\ L \in Nat /\ L <= Len(new)
      /\ \A i \in 1..L : new[i] = old[i]
  BY GrowsPlaces
<1>2. PICK g \in [1..(Len(new) - L) -> 1..Len(r.out)] :
        \A i \in 1..Len(new) : i > L =>
          /\ i - L \in DOMAIN g
          /\ new[i] = r.out[g[i - L]].d
          /\ Lands(n, r.out[g[i - L]], k)
  BY GrowsPlaces
<1>3. Len(new) \in Nat
  BY <1>1, LenProperties
<1> HIDE DEF L, old
<1>4. \A i \in 1..Len(new) : i > L \/ (i \in 1..L /\ new[i] = old[i])
  BY <1>1, <1>3
<1>5. ASSUME NEW d, Has(new, d)
      PROVE  Has(old, d) \/ \E i \in 1..Len(r.out) : r.out[i].d = d /\ Lands(n, r.out[i], k)
  <2>1. PICK i \in 1..Len(new) : new[i] = d
    BY <1>5 DEF Has
  <2>2. CASE i > L
    <3>1. /\ i - L \in DOMAIN g /\ new[i] = r.out[g[i - L]].d /\ Lands(n, r.out[g[i - L]], k)
          /\ g[i - L] \in 1..Len(r.out)
      BY <1>2, <2>2
    <3> QED BY <2>1, <3>1
  <2>3. CASE i \in 1..L /\ new[i] = old[i]
    BY <2>1, <2>3 DEF Has, L
  <2> QED BY <1>4, <2>2, <2>3
<1> QED
  BY <1>5 DEF old

(* The switch answers link commands only, and nothing else moves a port.   *)
LEMMA SaysNoRaw ==
  ASSUME mode \in Cases, NEW s \in SwS, NEW d, d \in Wire \/ d \in SmpSent
  PROVE  LET r == receive_packet(s, d)
         IN /\ \A i \in 1..Len(r.out) : r.out[i].d.t # "raw"
            /\ r.sw.boot = s.boot /\ r.sw.port = s.port
<1> DEFINE r == receive_packet(s, d)
<1> SUFFICES /\ \A i \in 1..Len(r.out) : r.out[i].d.t # "raw"
             /\ r.sw.boot = s.boot /\ r.sw.port = s.port
  OBVIOUS
<1>1. \A x : x \in SmpCame \/ x \in Wire => x.t # "raw"
  BY DEF SmpCame, SmpRec, Wire, Data, DataRec
<1>2. \A t \in SwS : /\ Exits(t).out = <<>> /\ Drops(t).out = <<>>
                     /\ Exits(t).sw.boot = t.boot /\ Exits(t).sw.port = t.port /\ Drops(t).sw = t
  BY DEF Exits, Drops, SwS
<1>3. CASE d \in Wire
  <2>1. DataDone(s, d, r)
    BY <1>3, DataDoes
  <2> HIDE DEF r
  <2> QED BY <1>1, <1>2, <2>1 DEF DataDone, Copy
<1>4. CASE d \in SmpSent
  <2> DEFINE in == detect_in_port(s, d.guid)
  <2>1. \/ r = Drops(s)
        \/ /\ in \in SwPorts
           /\ \E t, q, e : Route(s, in, d, t, q, e) /\ r = send_packet([sw |-> t, q |-> q, d |-> e])
    BY <1>4, SmpDoes
  <2>2. CASE r = Drops(s)
    <3> HIDE DEF r
    <3> QED BY <1>2, <2>2
  <2>3. ASSUME in \in SwPorts, NEW t, NEW q, NEW e, Route(s, in, d, t, q, e),
               r = send_packet([sw |-> t, q |-> q, d |-> e])
        PROVE  /\ \A i \in 1..Len(r.out) : r.out[i].d.t # "raw"
               /\ r.sw.boot = s.boot /\ r.sw.port = s.port
    <3> HIDE DEF in, r
    <3>1. /\ t \in SwS /\ q \in SwPorts /\ [e EXCEPT !.via = q] \in SmpCame
          /\ t.port = s.port /\ t.boot = s.boot
      <4>1. d \in SmpRec
        BY <1>4 DEF SmpSent
      <4> QED BY <2>3, <4>1, RouteType
    <3> DEFINE x == Send(t, q, e)
    <3>2. \/ r.out = <<x>> /\ x.d \in SmpCame /\ r.sw = t
          \/ r = Exits(t) \/ r = Drops(t)
      <4> DEFINE v == send_packet([sw |-> t, q |-> q, d |-> e])
      <4>1. \/ v.sw = t /\ v.out = <<x>> /\ x.d = [e EXCEPT !.via = q]
            \/ v = Exits(t)
            \/ v = Drops(t)
        BY <3>1, SendPacketDoes
      <4> HIDE DEF v, x
      <4> QED BY <2>3, <3>1, <4>1 DEF v
    <3> HIDE DEF x
    <3>3. CASE r.out = <<x>> /\ x.d \in SmpCame /\ r.sw = t
      BY <1>1, <3>1, <3>3
    <3> QED BY <1>2, <3>1, <3>2, <3>3
  <2> QED BY <2>1, <2>2, <2>3
<1> QED
  BY <1>3, <1>4

(* A port that the switch may have sent something to *)
LEMMA KnownStep ==
  ASSUME NEW n \in Fabric, NEW f, NEW k \in Guids, PortKnown(n, k),
         f.hca = n.hca, f.port = n.port, f.sw.boot = n.sw.boot,
         Commanded(n.up[k], f.up[k], n.hca[DevOf[k]].boot),
         \A d : Has(f.down[k], d) =>
           \/ Has(n.down[k], d)
           \/ n.hca[DevOf[k]].up /\ (d.t = "raw" => d.boot = n.sw.boot),
         f.sw.run = "running" /\ Acked(f, k) =>
           /\ Listed(f.sw, k, n.hca[DevOf[k]].boot)
           /\ \A d : Has(f.up[k], d) /\ d.t = "raw" => IsCur(d, n.hca[DevOf[k]].boot)
  PROVE  PortKnown(f, k)
<1> DEFINE h == DevOf[k]
           b == n.hca[h].boot
<1>1. b \in Nat /\ n.sw.boot \in Nat
  <2>1. h \in Hosts
    BY NetFacts
  <2>2. n.hca[h] \in HcaRec
    BY <2>1, FabricFields, HcaFacts
  <2>3. n.sw \in SwS
    BY FabricFields
  <2> QED BY <2>2, <2>3, SwFacts DEF HcaRec
<1>2. \A d : Has(f.down[k], d) /\ d.t = "raw" => d.boot <= f.sw.boot
  BY <1>1 DEF PortKnown
<1>3. \A d : Has(f.up[k], d) /\ d.t = "raw" => d.addr <= b
  BY <1>1 DEF PortKnown, Commanded, IsCur
<1>4. n.hca[h].up => InOrder(f.up[k], b)
  BY DEF PortKnown, Commanded
<1>5. ~n.hca[h].up => (\A d : ~Has(f.down[k], d)) /\ ~f.port[k].connected
  BY DEF PortKnown
<1>6. f.port[k].ack <= f.sw.boot
  BY DEF PortKnown
<1> QED
  BY <1>2, <1>3, <1>4, <1>5, <1>6 DEF PortKnown

(* What the switch makes of a datagram, as far as the links go *)
LEMMA SaysLink ==
  ASSUME mode \in Cases, NEW s \in SwS, NEW d \in Sent
  PROVE  LET r == receive_packet(s, d)
         IN /\ r.sw.boot = s.boot
            /\ \/ r.sw.port = s.port /\ \A i \in 1..Len(r.out) : r.out[i].d.t # "raw"
               \/ d \in RawSent /\ d.cmd = "CONNECT" /\ ConnectDone(s, d, r)
               \/ d \in RawSent /\ d.cmd = "DISCONNECT" /\ DisconnectDone(s, d, r)
<1> DEFINE r == receive_packet(s, d)
<1> SUFFICES /\ r.sw.boot = s.boot
             /\ \/ r.sw.port = s.port /\ \A i \in 1..Len(r.out) : r.out[i].d.t # "raw"
                \/ d \in RawSent /\ d.cmd = "CONNECT" /\ ConnectDone(s, d, r)
                \/ d \in RawSent /\ d.cmd = "DISCONNECT" /\ DisconnectDone(s, d, r)
  OBVIOUS
<1>1. ASSUME r = Exits(s) \/ r = Drops(s)
      PROVE  /\ r.sw.boot = s.boot /\ r.sw.port = s.port
             /\ \A i \in 1..Len(r.out) : r.out[i].d.t # "raw"
  <2>1. r.out = <<>> /\ r.sw.boot = s.boot /\ r.sw.port = s.port
    BY <1>1 DEF Exits, Drops, SwS
  <2> HIDE DEF r
  <2> QED BY <2>1
<1>2. CASE d \in Wire \/ d \in SmpSent
  BY <1>2, SaysNoRaw
<1>3. CASE d \in RawSent /\ d.cmd = "CONNECT"
  <2>1. r = Exits(s) \/ ConnectDone(s, d, r)
    BY <1>3, ConnectDoes
  <2> HIDE DEF r
  <2>2. ConnectDone(s, d, r) => r.sw.boot = s.boot
    BY DEF ConnectDone, SwS
  <2> QED BY <1>1, <1>3, <2>1, <2>2
<1>4. CASE d \in RawSent /\ d.cmd = "DISCONNECT"
  <2>1. r = Drops(s) \/ DisconnectDone(s, d, r)
    BY <1>4, DisconnectDoes
  <2> HIDE DEF r
  <2>2. DisconnectDone(s, d, r) => r.sw.boot = s.boot
    BY DEF DisconnectDone, SwS
  <2> QED BY <1>1, <1>4, <2>1, <2>2
<1>5. d \in RawSent => d.cmd \in {"CONNECT", "DISCONNECT"}
  BY DEF RawSent, RawRec
<1> QED
  BY <1>2, <1>3, <1>4, <1>5 DEF Sent

(* A port of which the switch moved another one, or none, keeps its place. *)
LEMMA ListedKept ==
  ASSUME NEW s \in SwS, NEW q \in SwPorts, NEW e, NEW t, t.port = [s.port EXCEPT ![q] = e],
         NEW k \in Guids, s.port[q].guid # k, NEW b, Listed(s, k, b)
  PROVE  Listed(t, k, b)
<1>1. PICK j \in SwPorts : s.port[j] = [guid |-> k, addr |-> b]
  BY DEF Listed
<1>2. j # q
  BY <1>1
<1>3. s.port \in [SwPorts -> SwPort]
  BY SwFacts
<1>4. t.port[j] = s.port[j]
  BY <1>2, <1>3
<1> QED
  BY <1>1, <1>4 DEF Listed

LEMMA KnownSwitch ==
  ASSUME FabricInv, NEW p \in Guids, SwitchReceive(p), LinkKnown(Now)
  PROVE  LinkKnown(Now')
<1> DEFINE d == Head(up[p])
           b == Taken(p)
           r == receive_packet(sw, d)
           f == FromSwitch(b, r)
           Boot(k) == hca[DevOf[k]].boot
<1>1. up[p] # <<>> /\ Now' = f /\ sw.run = "running"
  BY SwitchDoes
<1>2. /\ mode \in Cases /\ Now \in Fabric /\ sw \in SwS /\ up \in UpS
      /\ Now.hca = hca /\ Now.port = port /\ Now.sw = sw /\ Now.up = up /\ Now.down = down
  BY NowFields
<1>3. /\ b \in Fabric /\ b.hca = hca /\ b.port = port /\ b.sw = sw
      /\ b.up = [up EXCEPT ![p] = Tail(up[p])] /\ b.down = down
      /\ d \in Sent /\ d.guid = p
  BY <1>1, TakenType
<1>4. r.sw \in SwS /\ r.out \in Seq(OutRec)
  BY <1>2, <1>3, ReceiveType
<1>5. /\ r.sw.boot = sw.boot
      /\ \/ r.sw.port = sw.port /\ \A i \in 1..Len(r.out) : r.out[i].d.t # "raw"
         \/ d \in RawSent /\ d.cmd = "CONNECT" /\ ConnectDone(sw, d, r)
         \/ d \in RawSent /\ d.cmd = "DISCONNECT" /\ DisconnectDone(sw, d, r)
  BY <1>2, <1>3, SaysLink
<1>6. up[p] \in Seq(Sent) /\ \A k \in Guids : b.up[k] = IF k = p THEN Tail(up[p]) ELSE up[k]
  BY <1>2, <1>3 DEF UpS
<1>7. /\ \A k \in Guids : Commanded(up[k], b.up[k], Boot(k))
      /\ InOrder(up[p], Boot(p)) /\ d.t = "raw" /\ IsCur(d, Boot(p))
           => \A e : Has(b.up[p], e) /\ e.t = "raw" => IsCur(e, Boot(p))
      /\ Has(up[p], d)
  BY <1>1, <1>6, CommandedTail, CommandedSelf, FewerTail
<1> HIDE DEF b, r, d, Boot
<1>8. /\ f = [b EXCEPT !.sw = r.sw, !.down = f.down, !.up = f.up]
      /\ f.up = IF r.sw.run = "running" THEN b.up ELSE [k \in Guids |-> <<>>]
      /\ \A k \in Guids : Grows(b, r, k, f.down[k])
  BY <1>2, <1>3, <1>4, FromSwitchDoes
<1> HIDE DEF f
<1>9. f.hca = hca /\ f.port = port /\ f.sw = r.sw
  BY <1>3, <1>8 DEF Fabric
<1>10. ASSUME NEW k \in Guids
       PROVE  \A e : Has(f.down[k], e) =>
                \/ Has(down[k], e)
                \/ \E i \in 1..Len(r.out) : r.out[i].d = e /\ Lands(b, r.out[i], k)
  <2> DEFINE new == f.down[k]
  <2>1. Grows(b, r, k, new)
    BY <1>8
  <2> HIDE DEF new
  <2>2. \A e : Has(new, e) =>
          \/ Has(b.down[k], e)
          \/ \E i \in 1..Len(r.out) : r.out[i].d = e /\ Lands(b, r.out[i], k)
    BY <1>2, <1>3, <1>4, <2>1, GrowsHas
  <2> QED BY <1>3, <2>2 DEF new
<1>11. \A x : x \in Notices => x.t # "raw"
  BY DEF Notices, SmpCame, SmpRec
<1>12. \A i \in 1..Len(r.out) : r.out[i].d.t = "raw" => r.out[i].d.boot = sw.boot /\ r.out[i].to = p
  BY <1>3, <1>5, <1>11 DEF ConnectDone, DisconnectDone, IsAck
<1>13. \A k \in Guids : Commanded(up[k], f.up[k], Boot(k))
  BY <1>7, <1>8, CommandedNone
<1>14. \A k \in Guids : \A e : Has(f.down[k], e) =>
          \/ Has(down[k], e)
          \/ hca[DevOf[k]].up /\ (e.t = "raw" => e.boot = sw.boot)
  BY <1>3, <1>10, <1>12 DEF Lands
<1>15. ASSUME NEW k \in Guids
       PROVE  PortKnown(Now, k) /\ DevOf[k] \in Hosts
  BY NetFacts DEF LinkKnown
<1>16. ASSUME NEW k \in Guids, r.sw.run = "running", Acked(Now, k), Acked(f, k)
       PROVE  /\ Listed(r.sw, k, Boot(k))
              /\ \A e : Has(f.up[k], e) /\ e.t = "raw" => IsCur(e, Boot(k))
  <2>1. /\ Listed(sw, k, Boot(k))
        /\ \A e : Has(up[k], e) /\ e.t = "raw" => IsCur(e, Boot(k))
    BY <1>1, <1>2, <1>15, <1>16 DEF PortKnown, Boot
  <2>2. \A e : Has(f.up[k], e) /\ e.t = "raw" => IsCur(e, Boot(k))
    BY <1>13, <2>1 DEF Commanded
  <2>3. Listed(r.sw, k, Boot(k))
    <3>1. CASE r.sw.port = sw.port
      BY <2>1, <3>1 DEF Listed
    <3>2. ASSUME d \in RawSent, d.cmd = "CONNECT", ConnectDone(sw, d, r)
          PROVE  Listed(r.sw, k, Boot(k))
      <4>1. PICK q \in SwPorts :
              /\ sw.port[q].guid \in {0, p}
              /\ r.sw = [sw EXCEPT !.port[q] = [guid |-> p, addr |-> d.addr]]
        BY <1>3, <3>2 DEF ConnectDone
      <4>2. r.sw.port = [sw.port EXCEPT ![q] = [guid |-> p, addr |-> d.addr]]
        BY <1>2, <4>1 DEF SwS
      <4>3. CASE k = p
        <5>1. IsCur(d, Boot(p))
          BY <1>7, <2>1, <3>2, <4>3 DEF RawSent, RawRec
        <5>2. r.sw.port[q] = [guid |-> p, addr |-> Boot(p)]
          BY <1>2, <4>2, <5>1, SwFacts DEF IsCur
        <5> QED BY <4>3, <5>2 DEF Listed
      <4>4. CASE k # p
        <5>1. sw.port[q].guid # k
          BY <4>1, <4>4, LidFacts
        <5> DEFINE e == [guid |-> p, addr |-> d.addr]
                   c == Boot(k)
        <5>2. r.sw.port = [sw.port EXCEPT ![q] = e] /\ Listed(sw, k, c)
          BY <2>1, <4>2
        <5> HIDE DEF e, c
        <5>3. Listed(r.sw, k, c)
          BY <1>2, <5>1, <5>2, ListedKept
        <5> QED BY <5>3 DEF c
      <4> QED BY <4>3, <4>4
    <3>3. ASSUME d \in RawSent, d.cmd = "DISCONNECT", DisconnectDone(sw, d, r)
          PROVE  Listed(r.sw, k, Boot(k))
      <4>1. PICK q \in SwPorts :
              sw.port[q].guid = p /\ r.sw = [sw EXCEPT !.port[q] = FreePort]
        BY <1>3, <3>3 DEF DisconnectDone
      <4>2. r.sw.port = [sw.port EXCEPT ![q] = FreePort]
        BY <1>2, <4>1 DEF SwS
      <4>3. k # p
        BY <1>7, <2>1, <3>3 DEF RawSent, RawRec, IsCur
      <4> DEFINE c == Boot(k)
      <4>4. Listed(sw, k, c) /\ sw.port[q].guid # k
        BY <2>1, <4>1, <4>3
      <4> HIDE DEF c
      <4>5. Listed(r.sw, k, c)
        BY <1>2, <4>2, <4>4, ListedKept
      <4> QED BY <4>5 DEF c
    <3> QED BY <1>5, <3>1, <3>2, <3>3
  <2> QED BY <2>2, <2>3
<1>17. ASSUME NEW k \in Guids, r.sw.run = "running", ~Acked(Now, k), Acked(f, k)
       PROVE  /\ Listed(r.sw, k, Boot(k))
              /\ \A e : Has(f.up[k], e) /\ e.t = "raw" => IsCur(e, Boot(k))
  <2>1. PICK e : Has(f.down[k], e) /\ IsAckOf(e, sw.boot)
    BY <1>2, <1>5, <1>9, <1>17 DEF Acked
  <2>2. ~Has(down[k], e)
    BY <1>2, <1>17, <2>1 DEF Acked
  <2>3. PICK i \in 1..Len(r.out) : r.out[i].d = e /\ Lands(b, r.out[i], k)
    BY <1>10, <2>1, <2>2
  <2>4. k = p /\ r.out[i].d.t = "raw" /\ r.out[i].d.cmd = "CONNECT_ACK"
    BY <1>12, <2>1, <2>3 DEF Lands, IsAckOf
  <2>5. /\ d \in RawSent /\ d.cmd = "CONNECT" /\ ConnectDone(sw, d, r)
        /\ r.out[i].addr = d.addr
    BY <1>5, <1>11, <2>4 DEF ConnectDone, DisconnectDone, IsAck
  <2>6. hca[DevOf[p]].up /\ d.addr = Boot(p)
    BY <1>3, <2>3, <2>4, <2>5 DEF Lands, Boot
  <2>7. PICK q \in SwPorts : r.sw = [sw EXCEPT !.port[q] = [guid |-> p, addr |-> d.addr]]
    BY <1>3, <2>5 DEF ConnectDone
  <2>8. r.sw.port = [sw.port EXCEPT ![q] = [guid |-> p, addr |-> d.addr]]
    BY <1>2, <2>7 DEF SwS
  <2>9. r.sw.port[q] = [guid |-> p, addr |-> Boot(p)]
    BY <1>2, <2>6, <2>8, SwFacts
  <2>10. InOrder(up[p], Boot(p)) /\ d.t = "raw" /\ IsCur(d, Boot(p))
    BY <1>2, <1>15, <2>5, <2>6 DEF PortKnown, Boot, IsCur, RawSent, RawRec
  <2>11. f.up[p] = b.up[p]
    BY <1>8, <1>17
  <2> QED BY <1>7, <2>4, <2>9, <2>10, <2>11 DEF Listed
<1>18. ASSUME NEW k \in Guids PROVE PortKnown(f, k)
  <2> DEFINE n == Now
  <2>1. /\ n \in Fabric /\ PortKnown(n, k) /\ f.hca = n.hca /\ f.port = n.port
        /\ f.sw.boot = n.sw.boot /\ n.sw = sw /\ n.hca = hca
    BY <1>2, <1>5, <1>9, <1>15
  <2>2. Commanded(n.up[k], f.up[k], n.hca[DevOf[k]].boot)
    BY <1>2, <1>13 DEF Boot
  <2>3. \A e : Has(f.down[k], e) =>
          \/ Has(n.down[k], e)
          \/ n.hca[DevOf[k]].up /\ (e.t = "raw" => e.boot = n.sw.boot)
    BY <1>2, <1>14
  <2>4. f.sw.run = "running" /\ Acked(f, k) =>
          /\ Listed(f.sw, k, n.hca[DevOf[k]].boot)
          /\ \A e : Has(f.up[k], e) /\ e.t = "raw" => IsCur(e, n.hca[DevOf[k]].boot)
    BY <1>2, <1>9, <1>16, <1>17 DEF Boot
  <2> HIDE DEF n
  <2> QED BY <2>1, <2>2, <2>3, <2>4, KnownStep
<1> QED
  BY <1>1, <1>18 DEF LinkKnown

-----------------------------------------------------------------------------
(* The links and the other steps *)

(* A port that the step leaves as it was *)
LEMMA KnownSame ==
  ASSUME NEW n, NEW r, NEW k, PortKnown(n, k), r.hca[DevOf[k]] = n.hca[DevOf[k]],
         r.port[k] = n.port[k], r.sw = n.sw, r.up[k] = n.up[k], r.down[k] = n.down[k]
  PROVE  PortKnown(r, k)
BY DEF PortKnown, Acked

LEMMA KnownAdd ==
  ASSUME FabricInv, NEW h \in Hosts, pib_dev_add(h), mode.multi, LinkKnown(Now)
  PROVE  LinkKnown(Now')
<1> DEFINE b == hca[h].boot + 1
           x == LoadedDev(h, b)
<1>1. AddDone(h)
  BY AddDoes
<1>2. /\ mode \in Cases /\ up \in UpS /\ hca \in HcaS /\ hca[h] \in HcaRec /\ sw \in SwS
      /\ Now.hca = hca /\ Now.port = port /\ Now.up = up /\ Now.down = down /\ Now.sw = sw
      /\ Now'.hca = hca' /\ Now'.port = port' /\ Now'.up = up' /\ Now'.down = down'
      /\ Now'.sw = sw'
  <2>1. /\ Now'.hca = hca' /\ Now'.port = port' /\ Now'.up = up' /\ Now'.down = down'
        /\ Now'.sw = sw'
    BY DEF Now
  <2> QED BY <2>1, NowFields, HcaFacts
<1>3. /\ b \in 1..mode.loads /\ hca' = [hca EXCEPT ![h] = x] /\ down' = down /\ sw' = sw
      /\ ~hca[h].up /\ up' = Connects(h, b)
      /\ port' = [p \in Guids |-> IF DevOf[p] = h
                                  THEN [FreshPort EXCEPT !.work = TRUE] ELSE port[p]]
  BY <1>1 DEF AddDone
<1>4. x.up /\ x.boot = b
  BY <1>2, <1>3, LoadedDevType
<1>5. hca[h].boot \in Nat /\ b \in Nat /\ hca[h].boot < b /\ sw.boot \in Nat
  BY <1>2, <1>3, SwFacts DEF HcaRec
<1>6. \A k \in Hosts : hca'[k] = IF k = h THEN x ELSE hca[k]
  BY <1>2, <1>3 DEF HcaS
<1> HIDE DEF x, b
<1>7. ASSUME NEW k \in Guids PROVE PortKnown(Now', k)
  <2>1. PortKnown(Now, k) /\ DevOf[k] \in Hosts
    BY NetFacts DEF LinkKnown
  <2>2. CASE DevOf[k] # h
    <3>1. /\ hca'[DevOf[k]] = hca[DevOf[k]] /\ port'[k] = port[k] /\ up'[k] = up[k]
          /\ down'[k] = down[k] /\ sw' = sw
      BY <1>3, <1>6, <2>1, <2>2 DEF Connects
    <3> QED BY <1>2, <2>1, <3>1, KnownSame
  <2>3. CASE DevOf[k] = h
    <3> DEFINE c == [t |-> "raw", cmd |-> "CONNECT", guid |-> k, addr |-> b, boot |-> 0, via |-> 0]
    <3>1. hca'[DevOf[k]] = x /\ (up'[k] = up[k] \/ up'[k] = Enqueue(up[k], c))
      BY <1>3, <1>6, <2>3 DEF Connects
    <3>2. ~port'[k].connected /\ port'[k].ack = 0
      BY <1>3, <2>3 DEF FreshPort
    <3>3. /\ \A d : ~Has(down[k], d)
          /\ \A d : Has(up[k], d) /\ d.t = "raw" => d.addr <= hca[h].boot
      BY <1>2, <1>3, <2>1, <2>3 DEF PortKnown
    <3>4. c \in RawSent /\ c.t = "raw" /\ IsCur(c, b)
      BY <1>2, <1>3, FewerCommands DEF IsCur
    <3>5. c \in Sent /\ up[k] \in Seq(Sent)
      BY <1>2, <3>4 DEF Sent, UpS
    <3> HIDE DEF c
    <3>6. /\ \A d : Has(Enqueue(up[k], c), d) => d = c \/ Has(up[k], d)
          /\ Commanded(up[k], Enqueue(up[k], c), b)
      BY <1>2, <3>4, <3>5, CommandedPut
    <3>7. \A d : Has(up[k], d) /\ d.t = "raw" => d.addr < b /\ d.addr <= b
      <4> SUFFICES ASSUME NEW d, Has(up[k], d), d.t = "raw" PROVE d.addr < b /\ d.addr <= b
        OBVIOUS
      <4>1. d \in Sent
        BY <3>5 DEF Has
      <4>2. d.addr \in Nat
        BY <1>2, <4>1, SentTags, ModeFacts DEF RawSent, RawRec
      <4>3. d.addr <= hca[h].boot
        BY <3>3
      <4> QED BY <1>5, <4>2, <4>3
    <3>8. InOrder(up[k], b)
      <4>1. \A i \in 1..Len(up[k]) : up[k][i].t = "raw" => ~IsCur(up[k][i], b)
        <5> SUFFICES ASSUME NEW i \in 1..Len(up[k]), up[k][i].t = "raw", IsCur(up[k][i], b)
                     PROVE  FALSE
          OBVIOUS
        <5>1. Has(up[k], up[k][i])
          BY DEF Has
        <5>2. up[k][i].addr < b /\ up[k][i].addr = b
          BY <3>7, <5>1 DEF IsCur
        <5> QED BY <1>5, <5>2
      <4> QED BY <4>1 DEF InOrder
    <3>9. InOrder(up'[k], b)
      BY <3>1, <3>6, <3>8 DEF Commanded
    <3>10. \A d : Has(up'[k], d) /\ d.t = "raw" => d.addr <= b
      <4>1. \A d : Has(up[k], d) /\ d.t = "raw" => d.addr <= b
        BY <3>7
      <4>2. c.addr = b /\ b <= b
        BY <1>5, <3>4 DEF IsCur
      <4> QED BY <3>1, <3>6, <4>1, <4>2
    <3>11. ~Acked(Now', k)
      BY <1>2, <1>3, <3>2, <3>3 DEF Acked
    <3>12. port'[k].ack <= sw'.boot
      BY <1>3, <1>5, <3>2
    <3> QED BY <1>2, <1>3, <1>4, <3>1, <3>3, <3>9, <3>10, <3>11, <3>12 DEF PortKnown
  <2> QED BY <2>2, <2>3
<1> QED
  BY <1>7 DEF LinkKnown

LEMMA KnownGone ==
  ASSUME FabricInv, NEW h \in Hosts, pib_dev_remove(h) \/ Crash(h), mode.multi, LinkKnown(Now)
  PROVE  LinkKnown(Now')
<1> DEFINE x == GoneDev(hca[h].boot)
           b == hca[h].boot
<1>1. GoneDone(h) /\ (RemoveDone(h) \/ CrashDone(h))
  BY RemoveDoes, CrashDoes DEF RemoveDone, CrashDone
<1>2. /\ mode \in Cases /\ up \in UpS /\ hca \in HcaS /\ hca[h] \in HcaRec /\ sw \in SwS
      /\ Now.hca = hca /\ Now.port = port /\ Now.up = up /\ Now.down = down /\ Now.sw = sw
      /\ Now'.hca = hca' /\ Now'.port = port' /\ Now'.up = up' /\ Now'.down = down'
      /\ Now'.sw = sw'
  <2>1. /\ Now'.hca = hca' /\ Now'.port = port' /\ Now'.up = up' /\ Now'.down = down'
        /\ Now'.sw = sw'
    BY DEF Now
  <2> QED BY <2>1, NowFields, HcaFacts
<1>3. /\ hca[h].up /\ hca' = [hca EXCEPT ![h] = x] /\ port' = FreshPorts(port, h)
      /\ down' = Cleared(h) /\ sw' = sw /\ (up' = up \/ up' = Disconnects(h))
  BY <1>1 DEF GoneDone, RemoveDone, CrashDone
<1>4. b \in 1..mode.loads /\ b \in Nat /\ sw.boot \in Nat
  BY <1>2, <1>3, ModeFacts, SwFacts DEF HcaRec
<1>5. ~x.up /\ x.boot = b
  <2>1. hca[h].boot \in 0..mode.loads
    BY <1>4
  <2> QED BY <1>2, <2>1, GoneDevType
<1>6. \A k \in Hosts : hca'[k] = IF k = h THEN x ELSE hca[k]
  BY <1>2, <1>3 DEF HcaS
<1>7. \A k \in Guids : DevOf[k] = h => \A d : ~Has(down'[k], d)
  BY <1>3 DEF Cleared, Has
<1> HIDE DEF x
<1>8. ASSUME NEW k \in Guids PROVE PortKnown(Now', k)
  <2>1. PortKnown(Now, k) /\ DevOf[k] \in Hosts
    BY NetFacts DEF LinkKnown
  <2>2. CASE DevOf[k] # h
    <3>1. /\ hca'[DevOf[k]] = hca[DevOf[k]] /\ port'[k] = port[k] /\ up'[k] = up[k]
          /\ down'[k] = down[k]
      BY <1>3, <1>6, <2>1, <2>2 DEF Disconnects, FreshPorts, Cleared
    <3> QED BY <1>2, <1>3, <2>1, <3>1, KnownSame
  <2>3. CASE DevOf[k] = h
    <3> DEFINE c == [t |-> "raw", cmd |-> "DISCONNECT", guid |-> k, addr |-> b, boot |-> 0, via |-> 0]
    <3>1. hca'[DevOf[k]] = x /\ (up'[k] = up[k] \/ up'[k] = Enqueue(up[k], c))
      BY <1>3, <1>6, <2>3 DEF Disconnects
    <3>2. ~port'[k].connected /\ port'[k].ack = 0
      BY <1>3, <2>3 DEF FreshPorts, FreshPort
    <3>3. \A d : Has(up[k], d) /\ d.t = "raw" => d.addr <= b
      BY <1>2, <2>1, <2>3 DEF PortKnown
    <3>4. c \in RawSent /\ c.addr = b
      BY <1>2, <1>4, FewerCommands
    <3>5. c \in Sent /\ up[k] \in Seq(Sent)
      BY <1>2, <3>4 DEF Sent, UpS
    <3> HIDE DEF c, b
    <3>6. \A d : Has(Enqueue(up[k], c), d) => d = c \/ Has(up[k], d)
      BY <1>2, <3>5, PutWire
    <3>7. \A d : Has(up'[k], d) /\ d.t = "raw" => d.addr <= b
      BY <1>4, <3>1, <3>3, <3>4, <3>6
    <3>8. ~Acked(Now', k)
      BY <1>2, <1>7, <2>3, <3>2 DEF Acked
    <3>9. port'[k].ack <= sw'.boot
      BY <1>3, <1>4, <3>2
    <3>10. \A d : ~Has(down'[k], d)
      BY <1>7, <2>3
    <3> QED BY <1>2, <1>5, <3>1, <3>2, <3>7, <3>8, <3>9, <3>10 DEF PortKnown
  <2> QED BY <2>2, <2>3
<1> QED
  BY <1>8 DEF LinkKnown

(* A pibnetd that starts has answered nobody. *)
LEMMA KnownStart ==
  ASSUME FabricInv, NetdStart, LinkKnown(Now)
  PROVE  LinkKnown(Now')
<1>1. Now' = [Now EXCEPT !.sw = init_switch(sw.boot + 1)] /\ sw.boot \in Nat
  BY StartDoes
<1>2. /\ Now \in Fabric /\ mode \in Cases /\ port \in PortS /\ down \in DownS
      /\ Now.hca = hca /\ Now.port = port /\ Now.up = up /\ Now.down = down /\ Now.sw = sw
  BY NowFields
<1>3. Now'.hca = hca /\ Now'.port = port /\ Now'.up = up /\ Now'.down = down
  BY <1>1 DEF Now
<1>4. Now'.sw.boot = sw.boot + 1
  BY <1>1 DEF Now, init_switch
<1>5. ASSUME NEW k \in Guids PROVE PortKnown(Now', k)
  <2>1. PortKnown(Now, k)
    BY DEF LinkKnown
  <2>2. port[k].ack \in Nat /\ port[k].ack <= sw.boot
    BY <1>2, <2>1, ModeFacts DEF PortKnown, PortS, PortT
  <2>3. ASSUME NEW d, Has(down[k], d), d.t = "raw"
        PROVE  d.boot \in Nat /\ d.boot <= sw.boot
    <3>1. d \in Came
      BY <1>2, <2>3 DEF Has, DownS
    <3>2. d.boot \in Nat
      BY <1>2, <2>3, <3>1, CameTags, ModeFacts DEF RawCame, RawRec
    <3> QED BY <1>2, <2>1, <2>3, <3>2 DEF PortKnown
  <2>4. \A d : Has(down[k], d) /\ d.t = "raw" => d.boot <= sw.boot + 1 /\ d.boot # sw.boot + 1
    BY <1>1, <2>3
  <2>5. port[k].ack <= sw.boot + 1 /\ port[k].ack # sw.boot + 1
    BY <1>1, <2>2
  <2>6. ~Acked(Now', k)
    BY <1>3, <1>4, <2>4, <2>5 DEF Acked, IsAckOf
  <2> QED BY <1>2, <1>3, <1>4, <2>1, <2>4, <2>5, <2>6 DEF PortKnown
<1> QED
  BY <1>5 DEF LinkKnown

LEMMA KnownStop ==
  ASSUME FabricInv, NetdStop, LinkKnown(Now)
  PROVE  LinkKnown(Now')
<1>1. Now' = [Now EXCEPT !.sw = [sw EXCEPT !.run = "stopped"], !.up = NoneUp]
  BY StopDoes
<1>2. /\ Now \in Fabric /\ sw \in SwS
      /\ Now.hca = hca /\ Now.port = port /\ Now.up = up /\ Now.down = down /\ Now.sw = sw
  BY NowFields
<1>3. /\ Now'.hca = hca /\ Now'.port = port /\ Now'.up = NoneUp /\ Now'.down = down
      /\ Now'.sw = [sw EXCEPT !.run = "stopped"]
  BY <1>1 DEF Now
<1>4. Now'.sw.run = "stopped" /\ Now'.sw.port = sw.port /\ Now'.sw.boot = sw.boot
  BY <1>2, <1>3 DEF SwS
<1>5. \A k \in Guids : Commanded(up[k], NoneUp[k], hca[DevOf[k]].boot) /\ NoRaw(down[k], down[k])
  BY CommandedNone, CommandedSelf DEF NoneUp
<1>6. Calm(Now, Now')
  BY <1>2, <1>3, <1>4, <1>5 DEF Calm
<1> QED
  BY <1>2, <1>6, CalmKnown

LEMMA KnownLose ==
  ASSUME FabricInv, NEW p \in Guids, Lose(p), LinkKnown(Now)
  PROVE  LinkKnown(Now')
<1>1. /\ hca' = hca /\ port' = port /\ sw' = sw
      /\ \/ up[p] # <<>> /\ up' = [up EXCEPT ![p] = Tail(up[p])] /\ down' = down
         \/ down[p] # <<>> /\ down' = [down EXCEPT ![p] = Tail(down[p])] /\ up' = up
  BY LoseDoes
<1>2. /\ Now \in Fabric /\ up \in UpS /\ down \in DownS
      /\ Now.hca = hca /\ Now.port = port /\ Now.up = up /\ Now.down = down /\ Now.sw = sw
  BY NowFields
<1>3. /\ Now'.hca = hca' /\ Now'.port = port' /\ Now'.up = up' /\ Now'.down = down'
      /\ Now'.sw = sw'
  BY DEF Now
<1>4. /\ up[p] \in Seq(Sent) /\ down[p] \in Seq(Came)
      /\ up \in [Guids -> Seq(Sent)] /\ down \in [Guids -> Seq(Came)]
  BY <1>2 DEF UpS, DownS
<1>5. CASE down[p] # <<>> /\ down' = [down EXCEPT ![p] = Tail(down[p])] /\ up' = up
  <2> DEFINE b == Now'
  <2>1. /\ b.hca = Now.hca /\ b.port = Now.port /\ b.sw = Now.sw /\ b.up = Now.up
        /\ b.down = [Now.down EXCEPT ![p] = Tail(Now.down[p])] /\ Now.down[p] # <<>>
    BY <1>1, <1>2, <1>3, <1>5
  <2> HIDE DEF b
  <2>2. LinkKnown(b)
    BY <1>2, <2>1, KnownPop
  <2> QED BY <2>2 DEF b
<1>6. CASE up[p] # <<>> /\ up' = [up EXCEPT ![p] = Tail(up[p])] /\ down' = down
  <2>1. \A k \in Guids : up'[k] = IF k = p THEN Tail(up[p]) ELSE up[k]
    BY <1>4, <1>6
  <2>2. \A k \in Guids : /\ Commanded(up[k], up'[k], hca[DevOf[k]].boot)
                         /\ NoRaw(down[k], down'[k])
    BY <1>4, <1>6, <2>1, CommandedTail, CommandedSelf
  <2>3. Calm(Now, Now')
    BY <1>1, <1>2, <1>3, <1>6, <2>2 DEF Calm
  <2> QED BY <1>2, <2>3, CalmKnown
<1> QED
  BY <1>1, <1>5, <1>6

LEMMA KnownTimer ==
  ASSUME FabricInv, NEW p \in Guids, pib_netd_comm_handler(p), LinkKnown(Now)
  PROVE  LinkKnown(Now')
<1>1. PICK n \in Fabric :
        /\ Quiet(Now, n)
        /\ \/ Now' = n
           \/ \E s \in Fabric :
                LET pk == [src |-> "LINK", port |-> p, d |-> RawOf(n, p, "CONNECT")]
                IN Sends(n, DevOf[p], pk, s) /\ Quiet(s, Now')
  BY TimerMoves
<1>2. DevOf[p] \in Hosts /\ mode \in Cases /\ Now \in Fabric
  BY NetFacts, NowFields
<1>3. LinkKnown(n)
  BY <1>1, <1>2, CalmQuiet, CalmKnown
<1> DEFINE pk == [src |-> "LINK", port |-> p, d |-> RawOf(n, p, "CONNECT")]
<1>4. ASSUME NEW s \in Fabric, Sends(n, DevOf[p], pk, s), Quiet(s, Now')
      PROVE  LinkKnown(Now')
  <2>1. IsCur(pk.d, n.hca[DevOf[pk.port]].boot)
    BY DEF IsCur, RawOf
  <2> HIDE DEF pk
  <2>2. Calm(n, s)
    BY <1>2, <1>4, <2>1, CalmSends
  <2>3. LinkKnown(s)
    BY <1>3, <2>2, CalmKnown
  <2> QED BY <1>4, <2>3, CalmQuiet, CalmKnown
<1> QED
  BY <1>1, <1>3, <1>4

LEMMA CalmSubn ==
  ASSUME NEW n \in Fabric, NEW p \in Guids, NEW r, SubnDone(n, p, r)
  PROVE  Calm(n, r)
<1>1. /\ r.hca = n.hca /\ r.sw = n.sw /\ r.up = n.up /\ r.down = n.down
      /\ r.port = [n.port EXCEPT ![p] = r.port[p]]
      /\ r.port[p].connected = n.port[p].connected /\ r.port[p].ack = n.port[p].ack
  BY DEF SubnDone
<1>2. n.port \in PortS
  BY FabricFields
<1>3. \A k \in Guids : r.port[k].connected = n.port[k].connected /\ r.port[k].ack = n.port[k].ack
  BY <1>1, <1>2 DEF PortS
<1> QED
  BY <1>1, <1>3, CalmSame

(* Whatever goes out of QP0 *)
LEMMA KnownBuild ==
  ASSUME mode \in Cases, NEW n \in Fabric, LinkKnown(n), NEW h \in Hosts, NEW p \in Guids,
         DevOf[p] = h, NEW d, d.guid = p,
         d \in SmpKept \/ (d \in SmpSent /\ n.port[p].state # IB_PORT_DOWN)
  PROVE  LinkKnown(BuildAndSend(n, h, p, "QP0", d))
<1> DEFINE pk == [src |-> "QP0", port |-> p, d |-> d]
           r == BuildAndSend(n, h, p, "QP0", d)
<1>1. Sends(n, h, pk, r) /\ pk.src # "LINK"
  BY BuildDoes
<1> HIDE DEF pk, r
<1>2. Calm(n, r)
  BY <1>1, CalmSends
<1>3. LinkKnown(r)
  BY <1>2, CalmKnown
<1> QED
  BY <1>3 DEF r

LEMMA KnownMad ==
  ASSUME FabricInv, NEW h \in Hosts, process_mad(h), LinkKnown(Now)
  PROVE  LinkKnown(Now')
<1> DEFINE x == Head(hca[h].mad)
           n == Unqueued(h)
           y == [hca[h] EXCEPT !.mad = Tail(hca[h].mad)]
           f == [hca EXCEPT ![h] = y]
<1>1. /\ hca[h].mad # <<>> /\ x.port \in Guids /\ DevOf[x.port] = h /\ x.d \in SmpCame
      /\ MadDone(h, x.port, x.d)
  BY MadDoes
<1>2. n \in Fabric /\ n = [Now EXCEPT !.hca = f]
  BY <1>1, UnqueuedType
<1>3. /\ hca \in HcaS /\ hca[h] \in HcaRec /\ Now \in Fabric /\ mode \in Cases
      /\ Now.hca = hca /\ Now.port = port /\ Now.up = up /\ Now.down = down /\ Now.sw = sw
  BY NowFields, HcaFacts
<1>4. y.up = hca[h].up /\ y.boot = hca[h].boot
  BY <1>3 DEF HcaRec
<1>5. \A k \in Hosts : f[k] = IF k = h THEN y ELSE hca[k]
  BY <1>3 DEF HcaS
<1> HIDE DEF y, n, x, f
<1>6. n.hca = f /\ n.port = port /\ n.up = up /\ n.down = down /\ n.sw = sw
  BY <1>2, <1>3 DEF Now
<1>7. LinkKnown(n)
  <2>1. \A k \in Hosts : n.hca[k].up = hca[k].up /\ n.hca[k].boot = hca[k].boot
    BY <1>4, <1>5, <1>6
  <2>2. Calm(Now, n)
    BY <1>3, <1>6, <2>1, CalmSame
  <2> QED BY <1>3, <2>2, CalmKnown
<1>8. CASE Now' = n
  BY <1>7, <1>8
<1>9. ASSUME NEW s \in Fabric, LinkKnown(s), NEW d \in SmpKept, d.guid = x.port,
             Now' = BuildAndSend(s, h, x.port, "QP0", d)
      PROVE  LinkKnown(Now')
  BY <1>1, <1>3, <1>9, KnownBuild
<1>10. ASSUME x.d.op \in PortOps
       PROVE  process_subn(n, x.port, x.d.op) \in Fabric /\ LinkKnown(process_subn(n, x.port, x.d.op))
  <2> DEFINE s == process_subn(n, x.port, x.d.op)
  <2>1. SubnDone(n, x.port, s)
    BY <1>1, <1>2, <1>3, <1>10, SubnDoes
  <2> HIDE DEF s
  <2>2. Calm(n, s)
    BY <1>1, <1>2, <2>1, CalmSubn
  <2>3. LinkKnown(s) /\ s \in Fabric
    BY <1>2, <1>7, <2>1, <2>2, CalmKnown DEF SubnDone
  <2> QED BY <2>3 DEF s
<1> QED
  BY <1>1, <1>2, <1>7, <1>8, <1>9, <1>10 DEF MadDone, n

LEMMA KnownMulticast ==
  ASSUME FabricInv, NEW h \in Hosts, DeliverMulticast(h), LinkKnown(Now)
  PROVE  LinkKnown(Now')
<1> DEFINE mc == hca[h].mc
<1>1. /\ mc \in Copying
      /\ \/ mc.qpns = {} /\ Now' = SetCopies(Now, h, None)
         \/ \E qpn \in mc.qpns :
              Now' = process_incoming_message_per_qp(
                       SetCopies(Now, h, [mc EXCEPT !.qpns = @ \ {qpn}]), h, mc.port, qpn, mc.d)
      /\ \A qpn : /\ SetCopies(Now, h, [mc EXCEPT !.qpns = @ \ {qpn}]) \in Fabric
                  /\ SetCopies(Now, h, [mc EXCEPT !.qpns = @ \ {qpn}]).hca[h].lock = "free"
  BY MulticastDoes
<1>2. mode \in Cases /\ Now \in Fabric
  BY NowFields
<1>3. mc.port \in Guids /\ mc.d \in Wire
  BY <1>1 DEF Copying, Group
<1>4. CASE Now' = SetCopies(Now, h, None)
  BY <1>2, <1>4, CalmCopies, CalmKnown
<1>5. ASSUME NEW qpn \in mc.qpns,
             Now' = process_incoming_message_per_qp(
                      SetCopies(Now, h, [mc EXCEPT !.qpns = @ \ {qpn}]), h, mc.port, qpn, mc.d)
      PROVE  LinkKnown(Now')
  <2> DEFINE x == [mc EXCEPT !.qpns = @ \ {qpn}]
             b == SetCopies(Now, h, x)
  <2>1. /\ b \in Fabric /\ Now' = process_incoming_message_per_qp(b, h, mc.port, qpn, mc.d)
        /\ b.hca[h].lock = "free"
    BY <1>1, <1>5
  <2> HIDE DEF x
  <2>2. LinkKnown(b)
    BY <1>2, CalmCopies, CalmKnown
  <2> HIDE DEF b, mc
  <2> QED BY <1>2, <1>3, <2>1, <2>2, KnownPerQp
<1> QED
  BY <1>1, <1>4, <1>5

LEMMA KnownPost ==
  ASSUME FabricInv, NEW m \in Msgs, pib_process_ud_qp_request(m), LinkKnown(Now)
  PROVE  LinkKnown(Now')
<1> DEFINE p == QpPort[MsgFrom[m]]
           h == DevOf[p]
           n == Posted(m)
           d == PacketOf(m)
           pk == [src |-> "UD", port |-> p, d |-> d]
<1>1. p \in Guids /\ h \in Hosts /\ Now' = BuildAndSend(n, h, p, "UD", d)
  BY PostDoes
<1>2. /\ mode \in Cases /\ Now \in Fabric
      /\ Now.hca = hca /\ Now.port = port /\ Now.up = up /\ Now.down = down /\ Now.sw = sw
  BY NowFields
<1>3. /\ n \in Fabric /\ n.hca = hca /\ n.port = port /\ n.up = up /\ n.down = down
      /\ n.sw = sw
  BY PostedType
<1>4. d \in Data /\ d.guid = p
  BY PacketOfType
<1> HIDE DEF n, d, p
<1>5. LinkKnown(n)
  BY <1>2, <1>3, CalmSame, CalmKnown
<1>6. Sends(n, h, pk, BuildAndSend(n, h, p, "UD", d)) /\ pk.src # "LINK"
  BY <1>1, <1>2, <1>3, <1>4, BuildDoes
<1> HIDE DEF pk, h
<1> QED
  BY <1>1, <1>2, <1>3, <1>5, <1>6, CalmSends, CalmKnown

LEMMA NextKnown ==
  ASSUME FabricInv, [Next]_vars, mode.multi, LinkKnown(Now)
  PROVE  LinkKnown(Now')
<1>1. mode \in Cases /\ Now \in Fabric /\ Now.hca = hca
  BY NowFields
<1>2. ASSUME Now' = Now PROVE LinkKnown(Now')
  BY <1>2
<1>3. ASSUME Quiet(Now, Now') PROVE LinkKnown(Now')
  BY <1>1, <1>3, CalmQuiet, CalmKnown
<1>4. CASE UNCHANGED vars
  BY <1>2, <1>4 DEF vars, Now
<1>5. ASSUME NEW h \in Hosts, \/ pib_dev_add(h) \/ pib_dev_remove(h) \/ Crash(h)
                              \/ DeliverMulticast(h) \/ ThreadHangs(h)
                              \/ SchedulerPass(h) \/ process_mad(h)
      PROVE  LinkKnown(Now')
  <2>1. CASE SchedulerPass(h)
    <3> DEFINE pk == hca[h].ready
    <3>1. pk # None /\ Now' = process_sendmsg(Now, h)
      BY <2>1, PassDoes
    <3>2. pk \in Waiting /\ DevOf[pk.port] = h /\ Sends(Now, h, pk, Now')
      BY <1>1, <3>1, SendmsgDoes
    <3>3. Retries(Now, h, Now')
      BY <1>1, <3>2 DEF Retries
    <3> QED BY <1>1, <3>3, KnownRetries
  <2> QED BY <1>3, <1>5, <2>1, KnownAdd, KnownGone, KnownMulticast, QuietHang, KnownMad
<1>6. ASSUME NEW p \in Guids, \/ pib_netd_comm_handler(p) \/ HcaReceive(p)
                              \/ SwitchReceive(p) \/ Lose(p)
      PROVE  LinkKnown(Now')
  BY <1>6, KnownTimer, KnownReceive, KnownSwitch, KnownLose
<1>7. ASSUME NEW m \in Msgs, pib_process_ud_qp_request(m)
      PROVE  LinkKnown(Now')
  BY <1>7, KnownPost
<1>8. ASSUME NEW q \in QPs, pib_attach_mcast(q) \/ pib_detach_mcast(q) \/ pib_destroy_qp(q)
      PROVE  LinkKnown(Now')
  BY <1>3, <1>8, QuietGroup
<1>9. CASE SmSend
  <2> DEFINE d == Request(SmStep)
  <2>1. \/ Now' = Now
        \/ /\ d \in SmpSent /\ d.guid = SmPort /\ Now.port[SmPort].state # IB_PORT_DOWN
           /\ Now' = BuildAndSend(Now, DevOf[SmPort], SmPort, "QP0", d)
    BY <1>9, SmSendDoes, NowFields
  <2>2. SmPort \in Guids /\ DevOf[SmPort] \in Hosts
    BY NetFacts
  <2> HIDE DEF d
  <2> QED BY <1>1, <1>2, <2>1, <2>2, KnownBuild
<1>10. CASE SmLocal
  <2>1. SubnDone(Now, SmPort, Now')
    BY <1>10, SmLocalDoes
  <2>2. Calm(Now, Now')
    BY <1>1, <2>1, CalmSubn, NetFacts
  <2> QED BY <1>1, <2>2, CalmKnown
<1>11. CASE SmTimeout
  BY <1>3, <1>11, QuietTimeout
<1>12. CASE NetdStart \/ NetdStop
  BY <1>12, KnownStart, KnownStop
<1> QED
  BY <1>4, <1>5, <1>6, <1>7, <1>8, <1>9, <1>10, <1>11, <1>12 DEF Next

LEMMA InitKnown ==
  ASSUME Init, mode.multi
  PROVE  LinkKnown(Now)
<1>1. /\ \A h \in Hosts : ~hca[h].up /\ hca[h].boot = 0
      /\ \A p \in Guids : /\ port[p].ack = 0 /\ ~port[p].connected
                          /\ up[p] = <<>> /\ down[p] = <<>>
  <2>1. ~FreshPort.connected /\ FreshPort.ack = 0
    BY DEF FreshPort
  <2>2. ~FreshHca(0).up /\ FreshHca(0).boot = 0
    <3>1. mode \in Cases
      BY DEF Init
    <3>2. 0 \in 0..mode.loads
      BY <3>1, ModeFacts
    <3> QED BY <3>1, <3>2, FreshHcaType
  <2>3. /\ hca = [h \in Hosts |-> FreshHca(0)] /\ port = [p \in Guids |-> FreshPort]
        /\ up = [p \in Guids |-> <<>>] /\ down = [p \in Guids |-> <<>>]
    BY DEF Init
  <2> QED BY <2>1, <2>2, <2>3
<1>2. sw.boot = 0 /\ sw.run = "stopped"
  BY DEF Init, init_switch
<1>3. /\ Now.hca = hca /\ Now.port = port /\ Now.up = up /\ Now.down = down /\ Now.sw = sw
  BY DEF Now
<1>4. \A p \in Guids : DevOf[p] \in Hosts /\ \A d : ~Has(up[p], d) /\ ~Has(down[p], d)
  BY <1>1, NetFacts DEF Has
<1>5. ASSUME NEW p \in Guids PROVE PortKnown(Now, p)
  <2>1. /\ ~hca[DevOf[p]].up /\ ~port[p].connected /\ port[p].ack <= sw.boot
        /\ \A d : ~Has(up[p], d) /\ ~Has(down[p], d)
    BY <1>1, <1>2, <1>4
  <2> QED BY <1>2, <1>3, <2>1 DEF PortKnown
<1> QED
  BY <1>5 DEF LinkKnown

LEMMA SpecKnown == Spec => [](FabricInv /\ (mode.multi => LinkKnown(Now)))
<1>1. Init => (mode.multi => LinkKnown(Now))
  BY InitKnown
<1>2. FabricInv /\ (mode.multi => LinkKnown(Now)) /\ [Next]_vars => (mode.multi => LinkKnown(Now))'
  <2> SUFFICES ASSUME FabricInv, mode.multi => LinkKnown(Now), [Next]_vars, mode'.multi
               PROVE  LinkKnown(Now')
    BY DEF LinkKnown, PortKnown, Acked, Listed, InOrder, IsCur, IsAckOf, Has, SwPorts
  <2>1. mode' = mode
    BY NextFabric
  <2> QED BY <2>1, NextKnown
<1> QED
  BY <1>1, <1>2, SpecFabric, PTL DEF Spec

(* ConnectedIsKnown for every fabric, any number of losses, restarts and   *)
(* crashes of hosts: a CONNECT_ACK only lands in the socket that sent the  *)
(* CONNECT, so that pibnetd has its address (process_raw_packet), and what *)
(* the port or an earlier load of the driver sent before can no longer be  *)
(* behind it in the queue and take the entry away.                         *)
THEOREM Connected == Spec => []ConnectedIsKnown
<1>1. FabricInv /\ (mode.multi => LinkKnown(Now)) => ConnectedIsKnown
  <2> SUFFICES ASSUME FabricInv, LinkKnown(Now), NEW p \in Guids,
                      port[p].connected, sw.run = "running", port[p].ack = sw.boot
               PROVE  \E q \in SwPorts : sw.port[q] = [guid |-> p, addr |-> hca[DevOf[p]].boot]
    BY DEF ConnectedIsKnown
  <2>1. Now.hca = hca /\ Now.port = port /\ Now.sw = sw
    BY NowFields
  <2>2. Acked(Now, p)
    BY <2>1 DEF Acked
  <2> QED BY <2>1, <2>2 DEF LinkKnown, PortKnown, Listed
<1> QED
  BY <1>1, SpecKnown, PTL

-----------------------------------------------------------------------------
(* Directed routes, and the switch ports that something relies on *)

Routed(d) == d.t = "smp" /\ d.cls = "dr"

(* d was at the switch and is on its way to a port or back. *)
Holds(a, d) == \/ \E i \in 1..Len(a.mad) : a.mad[i].d = d
               \/ a.ready.src = "QP0" /\ a.ready.d = d
Around(n, d) ==
  \/ \E p \in Guids : Has(n.down[p], d) \/ (Has(n.up[p], d) /\ d.dir = 1)
  \/ \E h \in Hosts : Holds(n.hca[h], d)

(* The return path of such an SMP names the switch port x. *)
Marked(n, x) == \E d : Routed(d) /\ Around(n, d) /\ d.in0 = x

(* The subnet manager keeps its switch port: pibnetd is started once and   *)
(* the device of the subnet manager is not unloaded; it may crash.         *)
Steady == mode.multi => mode.netd <= 1 /\ DevOf[SmPort] \notin mode.unload
OfSm(s, q) == IF s.easy THEN q = SmPort ELSE q \in SwPorts /\ s.port[q].guid = SmPort

(* Every return path leads to the port of the subnet manager. *)
Homeward(n) ==
  /\ \A x : Marked(n, x) => OfSm(n.sw, x)
  /\ \A p \in Guids : \A d : Has(n.down[p], d) /\ Routed(d) /\ d.dir = 1 => p = SmPort
  /\ ~n.sw.easy => \A d : Has(n.up[SmPort], d) /\ d.t = "raw" => d.cmd = "CONNECT"
  /\ ~n.sw.easy /\ n.sw.boot = 0 =>
       n.sw.run # "running" /\ \A q \in SwPorts : n.sw.port[q].guid = 0

(* The request d brings a forwarding table that names port q. *)
Needs(d, q) ==
  \/ d.op.attr = "LinearForwardTable" /\ \E l \in Lids : d.op.table[l] = q
  \/ d.op.attr = "McastForwardTable" /\ q \in d.op.ports

(* A forwarding table names port q, now or once a request arrives. *)
Used(n, q) ==
  \/ q \in n.sw.mfwd \/ \E l \in Lids : n.sw.fwd[l] = q
  \/ \E p \in Guids : \E d : Has(n.up[p], d) /\ Routed(d) /\ d.dir = 0 /\ Needs(d, q)

(* Until a device is removed those ports have an address and no DISCONNECT *)
(* is under way; nothing waits at a switch that does not run.              *)
Survives(n) ==
  /\ n.sw.run # "running" => \A p \in Guids : \A d : ~Has(n.up[p], d)
  /\ ~n.log.freed =>
       /\ \A q \in SwPorts : Used(n, q) => n.sw.port[q].addr # 0
       /\ \A p \in Guids : \A d : Has(n.up[p], d) /\ d.t = "raw" => d.cmd = "CONNECT"

Guided(n) == (Steady => Homeward(n)) /\ Survives(n)

(* Steps that bring neither a new request nor a new return path *)
Steered(n, r) ==
  /\ \A x : Marked(r, x) => Marked(n, x)
  /\ \A p \in Guids : \A d : Has(r.down[p], d) /\ Routed(d) /\ d.dir = 1 => Has(n.down[p], d)
  /\ \A p \in Guids : \A d : Has(r.up[p], d) =>
       \/ Has(n.up[p], d)
       \/ /\ n.sw.run = "running" /\ (d.t = "raw" => d.cmd = "CONNECT")
          /\ Routed(d) => d.dir = 1
  /\ r.sw = n.sw /\ (n.log.freed => r.log.freed)

LEMMA SteeredGuided ==
  ASSUME NEW n, NEW r, Steered(n, r), Guided(n)
  PROVE  Guided(r)
<1>1. /\ \A x : Marked(r, x) => Marked(n, x)
      /\ \A p \in Guids : \A d : Has(r.down[p], d) /\ Routed(d) /\ d.dir = 1 => Has(n.down[p], d)
      /\ \A p \in Guids : \A d : Has(r.up[p], d) =>
           \/ Has(n.up[p], d)
           \/ /\ n.sw.run = "running" /\ (d.t = "raw" => d.cmd = "CONNECT")
              /\ Routed(d) => d.dir = 1
      /\ r.sw = n.sw /\ (n.log.freed => r.log.freed)
  BY DEF Steered
<1>2. Homeward(n) => Homeward(r)
  <2>1. SmPort \in Guids
    BY NetFacts
  <2> QED BY <1>1, <2>1 DEF Homeward
<1>3. Survives(n) => Survives(r)
  <2>1. \A q : Used(r, q) => Used(n, q)
    BY <1>1 DEF Used
  <2> QED BY <1>1, <2>1 DEF Survives
<1> QED
  BY <1>2, <1>3 DEF Guided

LEMMA SteeredSelf ==
  ASSUME NEW n
  PROVE  Steered(n, n)
BY DEF Steered

(* Nothing is added anywhere. *)
LEMMA SteeredLess ==
  ASSUME NEW n, NEW r, r.sw = n.sw, n.log.freed => r.log.freed,
         \A p \in Guids : \A d : /\ Has(r.down[p], d) => Has(n.down[p], d)
                                 /\ Has(r.up[p], d) => Has(n.up[p], d),
         \A h \in Hosts : \A d : Routed(d) /\ Holds(r.hca[h], d) => Holds(n.hca[h], d)
  PROVE  Steered(n, r)
<1>1. \A d : Routed(d) /\ Around(r, d) => Around(n, d)
  BY DEF Around
<1>2. \A x : Marked(r, x) => Marked(n, x)
  BY <1>1 DEF Marked
<1> QED
  BY <1>2 DEF Steered

LEMMA SteeredQuiet ==
  ASSUME NEW n, NEW r, Quiet(n, r)
  PROVE  Steered(n, r)
<1>1. /\ r.sw = n.sw /\ r.up = n.up /\ r.down = n.down /\ r.log.freed = n.log.freed
      /\ \A h \in Hosts : r.hca[h].mad = n.hca[h].mad /\ r.hca[h].ready = n.hca[h].ready
  BY DEF Quiet, DevSame, LogSame
<1>2. \A h \in Hosts : \A d : Holds(r.hca[h], d) => Holds(n.hca[h], d)
  BY <1>1 DEF Holds
<1> QED
  BY <1>1, <1>2, SteeredLess

(* A packet is sent or stays in the buffer.                                *)
LEMMA SteeredSends ==
  ASSUME mode \in Cases, NEW n, NEW s \in Fabric, Steered(n, s), NEW h \in Hosts, NEW pk, NEW r,
         Sends(s, h, pk, r),
         pk.src = "LINK" => pk.d.cmd = "CONNECT",
         pk.src = "QP0" /\ Routed(pk.d) => pk.d.dir = 1 /\ Marked(n, pk.d.in0)
  PROVE  Steered(n, r)
<1> DEFINE d == pk.d
           a == pk.port
<1>1. /\ r.sw = s.sw /\ s.sw = n.sw /\ (n.log.freed => s.log.freed)
      /\ \A k \in Hosts : Alike(r.hca[k], s.hca[k])
      /\ \A k \in Hosts : k # h => r.hca[k].ready = s.hca[k].ready
      /\ \A x : Marked(s, x) => Marked(n, x)
  BY DEF Sends, Steered
<1>2. s.up \in UpS /\ s.down \in DownS /\ s.log \in LogS
  BY FabricFields
<1>3. r.log.freed = s.log.freed
  <2>1. \/ r.log = s.log
        \/ r.log = [s.log EXCEPT !.sent = [s.log.sent EXCEPT ![pk.d.m] = s.log.sent[pk.d.m] + 1]]
    BY DEF Sends
  <2> QED BY <1>2, <2>1 DEF LogS
<1>4. pk \in Packet => /\ d \in Sent /\ a \in Guids /\ pk.src \in {"LINK", "QP0", "UD"}
                       /\ pk.src = "UD" => d \in Wire /\ d \in Came
                       /\ pk.src = "QP0" => d \in SmpSent
                       /\ pk.src = "LINK" => d \in RawSent
  BY PacketFacts
<1>5. /\ \A e : e \in Wire \/ e \in RawSent => ~Routed(e)
      /\ \A e : e \in Wire \/ e \in SmpSent => e.t # "raw"
  BY DEF Wire, Data, DataRec, SmpSent, SmpRec, RawSent, RawRec, Routed
<1>6. ASSUME NEW p \in Guids, NEW e, Has(r.up[p], e)
      PROVE  \/ Has(s.up[p], e)
             \/ pk \in Packet /\ s.sw.run = "running" /\ e = d
  <2>1. CASE r.up = s.up
    BY <1>6, <2>1
  <2>2. CASE /\ pk \in Packet /\ s.sw.run = "running"
             /\ r.up = [s.up EXCEPT ![a] = Enqueue(s.up[a], d)]
    <3>1. /\ d \in Sent /\ a \in Guids
      BY <1>4, <2>2
    <3> DEFINE g == r.up
    <3>2. g = [s.up EXCEPT ![a] = Enqueue(s.up[a], d)]
      BY <2>2
    <3> HIDE DEF d, a, g
    <3>3. s.up[p] \in Seq(Sent) /\ (g[p] = s.up[p] \/ (p = a /\ g[p] = Enqueue(s.up[p], d)))
      BY <1>2, <3>1, <3>2, PutUp
    <3>4. \A x : Has(Enqueue(s.up[p], d), x) => x = d \/ Has(s.up[p], x)
      BY <3>1, <3>3, PutWire
    <3> QED BY <1>6, <2>2, <3>3, <3>4 DEF g
  <2> QED BY <2>1, <2>2 DEF Sends
<1>7. ASSUME NEW p \in Guids, NEW e, Has(r.down[p], e)
      PROVE  Has(s.down[p], e) \/ e \in Wire
  <2>1. CASE r.down = s.down
    BY <1>7, <2>1
  <2>2. ASSUME NEW k \in Guids, pk \in Packet, pk.src = "UD",
               r.down = [s.down EXCEPT ![k] = Enqueue(s.down[k], d)]
        PROVE  Has(s.down[p], e) \/ e \in Wire
    <3>1. d \in Wire /\ d \in Came
      BY <1>4, <2>2
    <3> DEFINE g == r.down
    <3>2. g = [s.down EXCEPT ![k] = Enqueue(s.down[k], d)]
      BY <2>2
    <3> HIDE DEF d, g
    <3>3. s.down[p] \in Seq(Came) /\ (g[p] = s.down[p] \/ (p = k /\ g[p] = Enqueue(s.down[p], d)))
      BY <1>2, <3>1, <3>2, PutDown
    <3>4. \A x : Has(Enqueue(s.down[p], d), x) => x = d \/ Has(s.down[p], x)
      BY <3>1, <3>3, PutWire
    <3> QED BY <1>7, <3>1, <3>3, <3>4 DEF g
  <2> QED BY <2>1, <2>2 DEF Sends
<1>8. ASSUME NEW k \in Hosts, NEW e, Holds(r.hca[k], e)
      PROVE  Holds(s.hca[k], e) \/ (pk.src = "QP0" /\ e = d)
  <2>1. r.hca[k].mad = s.hca[k].mad
    BY <1>1 DEF Alike
  <2>2. r.hca[k].ready = s.hca[k].ready \/ r.hca[k].ready = None \/ r.hca[k].ready = pk
    BY <1>1 DEF Sends
  <2> QED BY <1>8, <2>1, <2>2 DEF Holds, None
<1> HIDE DEF d, a
<1>9. ASSUME NEW e, Routed(e), Around(r, e)
      PROVE  Around(s, e) \/ (pk.src = "QP0" /\ e = d)
  <2>1. ASSUME NEW p \in Guids, Has(r.down[p], e) PROVE Around(s, e)
    BY <1>5, <1>7, <1>9, <2>1 DEF Around
  <2>2. ASSUME NEW p \in Guids, Has(r.up[p], e), e.dir = 1
        PROVE  Around(s, e) \/ (pk.src = "QP0" /\ e = d)
    BY <1>4, <1>5, <1>6, <1>9, <2>2 DEF Around
  <2>3. ASSUME NEW k \in Hosts, Holds(r.hca[k], e)
        PROVE  Around(s, e) \/ (pk.src = "QP0" /\ e = d)
    BY <1>8, <2>3 DEF Around
  <2> QED BY <1>9, <2>1, <2>2, <2>3 DEF Around
<1>10. \A x : Marked(r, x) => Marked(n, x)
  BY <1>1, <1>9 DEF Marked, d
<1>11. \A p \in Guids : \A e : Has(r.down[p], e) /\ Routed(e) /\ e.dir = 1 => Has(n.down[p], e)
  BY <1>5, <1>7 DEF Steered
<1>12. \A p \in Guids : \A e : Has(r.up[p], e) =>
         \/ Has(n.up[p], e)
         \/ /\ n.sw.run = "running" /\ (e.t = "raw" => e.cmd = "CONNECT")
            /\ Routed(e) => e.dir = 1
  <2>1. pk \in Packet => (d.t = "raw" => d.cmd = "CONNECT") /\ (Routed(d) => d.dir = 1)
    BY <1>4, <1>5 DEF d
  <2> QED BY <1>1, <1>6, <2>1 DEF Steered
<1> QED
  BY <1>1, <1>3, <1>10, <1>11, <1>12 DEF Steered

LEMMA GuidedRetries ==
  ASSUME mode \in Cases, NEW n \in Fabric, NEW h \in Hosts, NEW r, Retries(n, h, r), Guided(n)
  PROVE  Guided(r)
<1> DEFINE pk == n.hca[h].ready
<1>1. r = n \/ (pk \in Waiting /\ Sends(n, h, pk, r))
  BY DEF Retries
<1>2. CASE pk \in Waiting /\ Sends(n, h, pk, r)
  <2>1. pk.src \in {"QP0", "UD"} /\ (pk.src = "QP0" => pk.d \in SmpKept)
    BY <1>2, WaitingFacts
  <2>2. pk.src = "QP0" /\ Routed(pk.d) => pk.d.dir = 1
    BY <2>1 DEF SmpKept, Returns, Repress, Routed
  <2>3. pk.src = "QP0" /\ Routed(pk.d) => Marked(n, pk.d.in0)
    BY DEF Marked, Around, Holds
  <2> HIDE DEF pk
  <2>4. Steered(n, r)
    BY <1>2, <2>1, <2>2, <2>3, SteeredSelf, SteeredSends
  <2> QED BY <2>4, SteeredGuided
<1> QED
  BY <1>1, <1>2

(* Nothing but queues that get shorter *)
LEMMA SteeredSame ==
  ASSUME NEW n, NEW r, r.sw = n.sw, r.log.freed = n.log.freed, r.up = n.up, r.down = n.down,
         \A k \in Hosts : r.hca[k].mad = n.hca[k].mad /\ r.hca[k].ready = n.hca[k].ready
  PROVE  Steered(n, r)
<1>1. \A k \in Hosts : \A d : Holds(r.hca[k], d) => Holds(n.hca[k], d)
  BY DEF Holds
<1> QED
  BY <1>1, SteeredLess

LEMMA SteeredPop ==
  ASSUME NEW n \in Fabric, NEW b, NEW p \in Guids, n.down[p] # <<>>,
         b.hca = n.hca, b.sw = n.sw, b.up = n.up, b.log = n.log,
         b.down = [n.down EXCEPT ![p] = Tail(n.down[p])]
  PROVE  Steered(n, b)
<1>1. n.down \in [Guids -> Seq(Came)]
  BY FabricFields DEF DownS
<1>2. \A k \in Guids : b.down[k] = IF k = p THEN Tail(n.down[p]) ELSE n.down[k]
  BY <1>1
<1>3. \A k \in Guids : \A d : Has(b.down[k], d) => Has(n.down[k], d)
  BY <1>1, <1>2, FewerTail
<1> QED
  BY <1>3, SteeredLess

LEMMA SteeredCopies ==
  ASSUME NEW n \in Fabric, NEW h \in Hosts, NEW x
  PROVE  Steered(n, SetCopies(n, h, x))
<1> DEFINE r == SetCopies(n, h, x)
<1>1. /\ r.sw = n.sw /\ r.up = n.up /\ r.down = n.down /\ r.log = n.log
      /\ \A k \in Hosts : r.hca[k].mad = n.hca[k].mad /\ r.hca[k].ready = n.hca[k].ready
  BY CopiesIs
<1> HIDE DEF r
<1>2. Steered(n, r)
  BY <1>1, SteeredSame
<1> QED
  BY <1>2 DEF r

LEMMA SteeredTakes ==
  ASSUME NEW n \in Fabric, NEW h \in Hosts, NEW p, NEW qpn, NEW d \in Wire, NEW s,
         Takes(n, h, p, qpn, d, s)
  PROVE  Steered(n, s)
<1>1. PICK q \in QPs : s = GotOne(n, d.m, q)
  BY DEF Takes
<1>2. d.m \in Msgs
  BY DEF Wire, Data, DataRec
<1>3. s.hca = n.hca /\ s.sw = n.sw /\ s.up = n.up /\ s.down = n.down /\ s.log.freed = n.log.freed
  BY <1>1, <1>2, GotOneIs
<1> QED
  BY <1>3, SteeredSame

LEMMA SteeredSubn ==
  ASSUME NEW n \in Fabric, NEW p \in Guids, NEW r, SubnDone(n, p, r)
  PROVE  Steered(n, r)
<1>1. /\ r.hca = n.hca /\ r.sw = n.sw /\ r.up = n.up /\ r.down = n.down
      /\ r.log = [n.log EXCEPT !.misled = r.log.misled]
  BY DEF SubnDone
<1>2. n.log \in LogS
  BY FabricFields
<1>3. r.log.freed = n.log.freed
  BY <1>1, <1>2 DEF LogS
<1> QED
  BY <1>1, <1>3, SteeredSame

LEMMA GuidedPerQp ==
  ASSUME mode \in Cases, NEW n \in Fabric, NEW h \in Hosts, NEW p \in Guids,
         NEW d \in Wire, NEW qpn, n.hca[h].lock = "free", Guided(n)
  PROVE  Guided(process_incoming_message_per_qp(n, h, p, qpn, d))
<1> DEFINE r == process_incoming_message_per_qp(n, h, p, qpn, d)
<1>1. \/ Quiet(n, r)
      \/ \E s \in Fabric : /\ s = n \/ Takes(n, h, p, qpn, d, s)
                           /\ Retries(s, h, r)
  BY PerQpMoves
<1> SUFFICES Guided(r)
  OBVIOUS
<1> HIDE DEF r
<1>2. CASE Quiet(n, r)
  BY <1>2, SteeredQuiet, SteeredGuided
<1>3. ASSUME NEW s \in Fabric, s = n \/ Takes(n, h, p, qpn, d, s), Retries(s, h, r)
      PROVE  Guided(r)
  <2>1. Guided(s)
    BY <1>3, SteeredTakes, SteeredGuided
  <2> QED BY <1>3, <2>1, GuidedRetries
<1> QED
  BY <1>1, <1>2, <1>3

(* An SMP goes from the socket of a port to the agent. *)
LEMMA SteeredQueued ==
  ASSUME mode \in Cases, NEW n \in Fabric, NEW b \in Fabric, NEW p \in Guids, NEW h \in Hosts,
         NEW d \in SmpCame, Has(n.down[p], d), Steered(n, b), b.hca = n.hca
  PROVE  Steered(n, Queued(b, h, [port |-> p, d |-> d]))
<1> DEFINE x == [port |-> p, d |-> d]
           s == Queued(b, h, x)
<1>1. /\ s.sw = b.sw /\ s.up = b.up /\ s.down = b.down /\ s.log = b.log
      /\ \A k \in Hosts :
           /\ s.hca[k].ready = b.hca[k].ready
           /\ s.hca[k].mad = IF k = h THEN Enqueue(b.hca[k].mad, x) ELSE b.hca[k].mad
  BY QueuedIs
<1>2. x \in MadRec /\ x.d = d
  BY DEF MadRec
<1>3. \A k \in Hosts : b.hca[k].mad \in Seq(MadRec)
  BY FabricFields, HcaFacts DEF HcaRec
<1> HIDE DEF s, x
<1>4. ASSUME NEW k \in Hosts, NEW e, Holds(s.hca[k], e)
      PROVE  Holds(b.hca[k], e) \/ e = d
  <2>1. ASSUME NEW i \in 1..Len(s.hca[k].mad), s.hca[k].mad[i].d = e
        PROVE  Holds(b.hca[k], e) \/ e = d
    <3> DEFINE q == b.hca[k].mad
    <3>1. q \in Seq(MadRec)
      BY <1>3
    <3> HIDE DEF q
    <3>2. \A j \in 1..Len(Enqueue(q, x)) :
            Enqueue(q, x)[j] = x \/ (j \in 1..Len(q) /\ Enqueue(q, x)[j] = q[j])
      BY <1>2, <3>1, EnqueueSeq
    <3>3. s.hca[k].mad = Enqueue(q, x) \/ s.hca[k].mad = q
      BY <1>1 DEF q
    <3>4. s.hca[k].mad[i] = x \/ (i \in 1..Len(q) /\ s.hca[k].mad[i] = q[i])
      BY <2>1, <3>2, <3>3
    <3> QED BY <1>2, <2>1, <3>4 DEF Holds, q
  <2> QED BY <1>1, <1>4, <2>1 DEF Holds
<1>5. \A e : Around(s, e) => Around(b, e) \/ e = d
  BY <1>1, <1>4 DEF Around
<1>6. Around(n, d)
  BY DEF Around
<1>7. \A y : Marked(s, y) => Marked(n, y)
  BY <1>5, <1>6 DEF Marked, Steered
<1>8. Steered(n, s)
  BY <1>1, <1>7 DEF Steered
<1> QED
  BY <1>8 DEF s, x

LEMMA GuidedReceive ==
  ASSUME FabricInv, NEW p \in Guids, HcaReceive(p), Guided(Now)
  PROVE  Guided(Now')
<1> DEFINE h == DevOf[p]
           d == Head(down[p])
           b == Popped(p)
           r == process_incoming_message(b, h, p, d)
<1>1. /\ down[p] # <<>> /\ Now' = r
      /\ d.t # "raw" => b.hca[h].lock = "free"
  BY HcaReceiveDoes
<1>2. /\ mode \in Cases /\ Now \in Fabric /\ down \in DownS
      /\ Now.hca = hca /\ Now.up = up /\ Now.down = down /\ Now.sw = sw /\ Now.log = log
  BY NowFields
<1>3. /\ b \in Fabric /\ b.hca = hca /\ b.up = up /\ b.sw = sw /\ b.log = log
      /\ b.down = [down EXCEPT ![p] = Tail(down[p])] /\ d \in Came
  BY <1>1, PoppedType
<1>4. h \in Hosts
  BY NetFacts
<1>5. Arrives(b, p, d, r)
  BY <1>1, <1>2, <1>3, IncomingMoves
<1>6. Has(Now.down[p], d)
  <2>1. down[p] \in Seq(Came)
    BY <1>2 DEF DownS
  <2> QED BY <1>1, <1>2, <2>1, FewerTail
<1> HIDE DEF b, r
<1>7. Steered(Now, b)
  BY <1>1, <1>2, <1>3, SteeredPop
<1>8. Guided(b)
  BY <1>7, SteeredGuided
<1> HIDE DEF d, h
<1> SUFFICES Guided(r)
  BY <1>1
<1>9. CASE Quiet(b, r)
  BY <1>3, <1>8, <1>9, SteeredQuiet, SteeredGuided
<1>10. ASSUME d \in RawCame, r = process_raw_packet_hca(b, p, d)
       PROVE  Guided(r)
  <2>1. r.hca = b.hca /\ r.sw = b.sw /\ r.up = b.up /\ r.down = b.down /\ r.log = b.log
    BY <1>3, <1>10, RawIs
  <2>2. Steered(b, r)
    BY <2>1, SteeredSame
  <2> QED BY <1>8, <2>2, SteeredGuided
<1>11. ASSUME d \in SmpCame, NEW s \in Fabric, s = Queued(b, h, [port |-> p, d |-> d]),
              Retries(s, h, r)
       PROVE  Guided(r)
  <2>1. Steered(Now, s)
    BY <1>2, <1>3, <1>4, <1>6, <1>7, <1>11, SteeredQueued
  <2>2. Guided(s)
    BY <2>1, SteeredGuided
  <2> QED BY <1>2, <1>4, <1>11, <2>2, GuidedRetries
<1>12. ASSUME d \in Wire, NEW s \in Fabric, s = b \/ Takes(b, h, p, d.dqpn, d, s), Retries(s, h, r)
       PROVE  Guided(r)
  <2>1. Guided(s)
    BY <1>3, <1>4, <1>8, <1>12, SteeredTakes, SteeredGuided
  <2> QED BY <1>2, <1>4, <1>12, <2>1, GuidedRetries
<1>13. ASSUME r = SetCopies(b, h, CopiesOf(b, h, p, d))
       PROVE  Guided(r)
  BY <1>3, <1>4, <1>8, <1>13, SteeredCopies, SteeredGuided
<1> QED
  BY <1>5, <1>9, <1>10, <1>11, <1>12, <1>13 DEF Arrives, h

LEMMA GuidedTimer ==
  ASSUME FabricInv, NEW p \in Guids, pib_netd_comm_handler(p), Guided(Now)
  PROVE  Guided(Now')
<1>1. PICK n \in Fabric :
        /\ Quiet(Now, n)
        /\ \/ Now' = n
           \/ \E s \in Fabric :
                LET pk == [src |-> "LINK", port |-> p, d |-> RawOf(n, p, "CONNECT")]
                IN Sends(n, DevOf[p], pk, s) /\ Quiet(s, Now')
  BY TimerMoves
<1>2. DevOf[p] \in Hosts /\ mode \in Cases /\ Now \in Fabric
  BY NetFacts, NowFields
<1>3. Guided(n)
  BY <1>1, <1>2, SteeredQuiet, SteeredGuided
<1> DEFINE pk == [src |-> "LINK", port |-> p, d |-> RawOf(n, p, "CONNECT")]
<1>4. ASSUME NEW s \in Fabric, Sends(n, DevOf[p], pk, s), Quiet(s, Now')
      PROVE  Guided(Now')
  <2>1. pk.src = "LINK" /\ pk.d.cmd = "CONNECT"
    BY DEF RawOf
  <2> HIDE DEF pk
  <2>2. Steered(n, n)
    BY SteeredSelf
  <2>3. Steered(n, s)
    BY <1>2, <1>4, <2>1, <2>2, SteeredSends
  <2>4. Guided(s)
    BY <1>3, <2>3, SteeredGuided
  <2> QED BY <1>4, <2>4, SteeredQuiet, SteeredGuided
<1> QED
  BY <1>1, <1>3, <1>4

LEMMA GuidedMad ==
  ASSUME FabricInv, NEW h \in Hosts, process_mad(h), Guided(Now)
  PROVE  Guided(Now')
<1> DEFINE x == Head(hca[h].mad)
           n == Unqueued(h)
           y == [hca[h] EXCEPT !.mad = Tail(hca[h].mad)]
           f == [hca EXCEPT ![h] = y]
           d == x.d
           p == x.port
<1>1. /\ hca[h].mad # <<>> /\ p \in Guids /\ DevOf[p] = h /\ d \in SmpCame
      /\ MadDone(h, p, d)
  BY MadDoes
<1>2. n \in Fabric /\ n = [Now EXCEPT !.hca = f]
  BY <1>1, UnqueuedType
<1>3. /\ hca \in HcaS /\ hca[h] \in HcaRec /\ Now \in Fabric /\ mode \in Cases
      /\ Now.hca = hca /\ Now.up = up /\ Now.down = down /\ Now.sw = sw /\ Now.log = log
  BY NowFields, HcaFacts
<1>4. y.ready = hca[h].ready /\ y.mad = Tail(hca[h].mad) /\ hca[h].mad \in Seq(MadRec)
  BY <1>3 DEF HcaRec
<1>5. \A k \in Hosts : f[k] = IF k = h THEN y ELSE hca[k]
  BY <1>3 DEF HcaS
<1>6. /\ \A e : Holds(y, e) => Holds(hca[h], e)
      /\ Holds(hca[h], d)
  <2> DEFINE q == hca[h].mad
  <2>1. /\ Len(Tail(q)) \in Nat /\ Len(q) \in Nat
        /\ \A i \in 1..Len(Tail(q)) : i + 1 \in 1..Len(q) /\ Tail(q)[i] = q[i + 1]
        /\ 1 \in 1..Len(q) /\ Head(q) = q[1]
    BY <1>1, <1>4, TailSeq
  <2> HIDE DEF q, y
  <2>2. \A e : Holds(y, e) => Holds(hca[h], e)
    BY <1>4, <2>1 DEF Holds, q
  <2>3. Holds(hca[h], d)
    BY <2>1 DEF Holds, q
  <2> QED BY <2>2, <2>3
<1>7. Answer(d, p).in0 = d.in0 /\ Answer(d, p).dir = 1 /\ (Routed(Answer(d, p)) => Routed(d))
  <2>1. d \in SmpRec
    BY <1>1 DEF SmpCame
  <2> QED BY <2>1 DEF SmpRec, Answer, Routed
<1>8. Repression(d, p) \in SmpKept => ~Routed(Repression(d, p)) \/ Repression(d, p).dir = 1
  BY DEF SmpKept, Returns, Repress, Routed
<1>9. d.dir = 0 => Repression(d, p).dir = 0
  <2>1. d \in SmpRec
    BY <1>1 DEF SmpCame
  <2> QED BY <2>1 DEF SmpRec, Repression
<1> HIDE DEF y, n, x, f, d, p
<1>10. n.hca = f /\ n.up = up /\ n.down = down /\ n.sw = sw /\ n.log = log
  BY <1>2, <1>3 DEF Now
<1>11. Steered(Now, n)
  <2>1. \A k \in Hosts : \A e : Holds(n.hca[k], e) => Holds(Now.hca[k], e)
    BY <1>3, <1>5, <1>6, <1>10
  <2> QED BY <1>3, <1>10, <2>1, SteeredLess
<1>12. CASE Now' = n
  BY <1>11, <1>12, SteeredGuided
<1>13. Routed(d) => Marked(Now, d.in0)
  BY <1>3, <1>6 DEF Marked, Around
<1>14. ASSUME NEW s \in Fabric, Steered(Now, s), NEW e \in SmpKept, e.guid = p,
              Routed(e) => e.dir = 1 /\ Marked(Now, e.in0),
              Now' = BuildAndSend(s, h, p, "QP0", e)
       PROVE  Guided(Now')
  <2> DEFINE pk == [src |-> "QP0", port |-> p, d |-> e]
             r == BuildAndSend(s, h, p, "QP0", e)
  <2>1. Sends(s, h, pk, r)
    BY <1>1, <1>3, <1>14, BuildDoes
  <2>2. pk.src = "QP0" /\ pk.d = e
    OBVIOUS
  <2>3. Now' = r
    BY <1>14
  <2> HIDE DEF pk, r
  <2>4. Steered(Now, r)
    BY <1>3, <1>14, <2>1, <2>2, SteeredSends
  <2> QED BY <2>3, <2>4, SteeredGuided
<1>15. ASSUME d.op \in PortOps
       PROVE  process_subn(n, p, d.op) \in Fabric /\ Steered(Now, process_subn(n, p, d.op))
  <2> DEFINE s == process_subn(n, p, d.op)
  <2>1. SubnDone(n, p, s)
    BY <1>1, <1>2, <1>3, <1>15, SubnDoes
  <2> HIDE DEF s
  <2>2. /\ s.hca = n.hca /\ s.sw = n.sw /\ s.up = n.up /\ s.down = n.down /\ s \in Fabric
        /\ s.log = [n.log EXCEPT !.misled = s.log.misled]
    BY <2>1 DEF SubnDone
  <2>3. n.log \in LogS
    BY <1>2, FabricFields
  <2>4. s.log.freed = n.log.freed
    BY <2>2, <2>3 DEF LogS
  <2>5. \A k \in Hosts : \A e : Holds(s.hca[k], e) => Holds(Now.hca[k], e)
    BY <1>3, <1>5, <1>6, <1>10, <2>2
  <2>6. Steered(Now, s)
    BY <1>3, <1>10, <2>2, <2>4, <2>5, SteeredLess
  <2> QED BY <2>2, <2>6 DEF s
<1>16. CASE d.dir = 0 /\ Repression(d, p) \in SmpKept /\ Repression(d, p).guid = p
             /\ Now' = BuildAndSend(n, h, p, "QP0", Repression(d, p))
  <2>1. ~Routed(Repression(d, p))
    BY <1>8, <1>9, <1>16
  <2> QED BY <1>2, <1>11, <1>14, <1>16, <2>1
<1>17. CASE d.dir = 0 /\ d.op \in PortOps /\ Answer(d, p) \in SmpKept /\ Answer(d, p).guid = p
             /\ Now' = BuildAndSend(process_subn(n, p, d.op), h, p, "QP0", Answer(d, p))
  BY <1>7, <1>13, <1>14, <1>15, <1>17
<1> QED
  BY <1>1, <1>12, <1>16, <1>17 DEF MadDone, n

LEMMA GuidedMulticast ==
  ASSUME FabricInv, NEW h \in Hosts, DeliverMulticast(h), Guided(Now)
  PROVE  Guided(Now')
<1> DEFINE mc == hca[h].mc
<1>1. /\ mc \in Copying
      /\ \/ mc.qpns = {} /\ Now' = SetCopies(Now, h, None)
         \/ \E qpn \in mc.qpns :
              Now' = process_incoming_message_per_qp(
                       SetCopies(Now, h, [mc EXCEPT !.qpns = @ \ {qpn}]), h, mc.port, qpn, mc.d)
      /\ \A qpn : /\ SetCopies(Now, h, [mc EXCEPT !.qpns = @ \ {qpn}]) \in Fabric
                  /\ SetCopies(Now, h, [mc EXCEPT !.qpns = @ \ {qpn}]).hca[h].lock = "free"
  BY MulticastDoes
<1>2. mode \in Cases /\ Now \in Fabric
  BY NowFields
<1>3. mc.port \in Guids /\ mc.d \in Wire
  BY <1>1 DEF Copying, Group
<1>4. CASE Now' = SetCopies(Now, h, None)
  BY <1>2, <1>4, SteeredCopies, SteeredGuided
<1>5. ASSUME NEW qpn \in mc.qpns,
             Now' = process_incoming_message_per_qp(
                      SetCopies(Now, h, [mc EXCEPT !.qpns = @ \ {qpn}]), h, mc.port, qpn, mc.d)
      PROVE  Guided(Now')
  <2> DEFINE x == [mc EXCEPT !.qpns = @ \ {qpn}]
             b == SetCopies(Now, h, x)
  <2>1. /\ b \in Fabric /\ Now' = process_incoming_message_per_qp(b, h, mc.port, qpn, mc.d)
        /\ b.hca[h].lock = "free"
    BY <1>1, <1>5
  <2> HIDE DEF x
  <2>2. Guided(b)
    BY <1>2, SteeredCopies, SteeredGuided
  <2> HIDE DEF b, mc
  <2> QED BY <1>2, <1>3, <2>1, <2>2, GuidedPerQp
<1> QED
  BY <1>1, <1>4, <1>5

LEMMA GuidedPost ==
  ASSUME FabricInv, NEW m \in Msgs, pib_process_ud_qp_request(m), Guided(Now)
  PROVE  Guided(Now')
<1> DEFINE p == QpPort[MsgFrom[m]]
           h == DevOf[p]
           n == Posted(m)
           d == PacketOf(m)
           pk == [src |-> "UD", port |-> p, d |-> d]
<1>1. p \in Guids /\ h \in Hosts /\ Now' = BuildAndSend(n, h, p, "UD", d)
  BY PostDoes
<1>2. /\ mode \in Cases /\ Now \in Fabric /\ log \in LogS
      /\ Now.hca = hca /\ Now.up = up /\ Now.down = down /\ Now.sw = sw /\ Now.log = log
  BY NowFields
<1>3. /\ n \in Fabric /\ n.hca = hca /\ n.up = up /\ n.down = down /\ n.sw = sw
      /\ n.log = [log EXCEPT !.posted = log.posted \cup {m}]
  BY PostedType
<1>4. d \in Data /\ d.guid = p
  BY PacketOfType
<1>5. n.log.freed = log.freed
  BY <1>2, <1>3 DEF LogS
<1> HIDE DEF n, d, p
<1>6. Steered(Now, n)
  <2>1. /\ n.hca = Now.hca /\ n.up = Now.up /\ n.down = Now.down /\ n.sw = Now.sw
        /\ n.log.freed = Now.log.freed
    BY <1>2, <1>3, <1>5
  <2> QED BY <2>1, SteeredSame
<1>7. Sends(n, h, pk, BuildAndSend(n, h, p, "UD", d)) /\ pk.src = "UD"
  BY <1>1, <1>2, <1>3, <1>4, BuildDoes
<1> HIDE DEF pk, h
<1>8. Steered(Now, Now')
  BY <1>1, <1>2, <1>3, <1>6, <1>7, SteeredSends
<1> QED
  BY <1>8, SteeredGuided

LEMMA GuidedLose ==
  ASSUME FabricInv, NEW p \in Guids, Lose(p), Guided(Now)
  PROVE  Guided(Now')
<1>1. /\ hca' = hca /\ sw' = sw /\ log' = [log EXCEPT !.faults = log.faults + 1]
      /\ \/ up[p] # <<>> /\ up' = [up EXCEPT ![p] = Tail(up[p])] /\ down' = down
         \/ down[p] # <<>> /\ down' = [down EXCEPT ![p] = Tail(down[p])] /\ up' = up
  BY LoseDoes
<1>2. /\ up \in UpS /\ down \in DownS /\ log \in LogS
      /\ Now.hca = hca /\ Now.up = up /\ Now.down = down /\ Now.sw = sw /\ Now.log = log
  BY NowFields
<1>3. /\ Now'.hca = hca' /\ Now'.up = up' /\ Now'.down = down' /\ Now'.sw = sw'
      /\ Now'.log = log'
  BY DEF Now
<1>4. up \in [Guids -> Seq(Sent)] /\ down \in [Guids -> Seq(Came)]
  BY <1>2 DEF UpS, DownS
<1>5. log'.freed = log.freed
  BY <1>1, <1>2 DEF LogS
<1>6. \A k \in Guids : \A d : Has(up'[k], d) => Has(up[k], d)
  BY <1>1, <1>4, FewerTail, ZenonT(30)
<1>7. \A k \in Guids : \A d : Has(down'[k], d) => Has(down[k], d)
  BY <1>1, <1>4, FewerTail
<1>8. /\ Now'.sw = Now.sw /\ Now'.log.freed = Now.log.freed /\ Now'.hca = Now.hca
      /\ \A k \in Guids : \A d : /\ Has(Now'.down[k], d) => Has(Now.down[k], d)
                                 /\ Has(Now'.up[k], d) => Has(Now.up[k], d)
  BY <1>1, <1>2, <1>3, <1>5, <1>6, <1>7
<1>9. Steered(Now, Now')
  <2> DEFINE n == Now
             b == Now'
  <2>1. /\ b.sw = n.sw /\ b.log.freed = n.log.freed /\ b.hca = n.hca
        /\ \A k \in Guids : \A d : /\ Has(b.down[k], d) => Has(n.down[k], d)
                                   /\ Has(b.up[k], d) => Has(n.up[k], d)
    BY <1>8
  <2> HIDE DEF b, n
  <2>2. Steered(n, b)
    BY <2>1, SteeredLess
  <2> QED BY <2>2 DEF n, b
<1> QED
  BY <1>9, SteeredGuided

(* A request of the subnet manager is on its way to the switch; what it    *)
(* makes the switch use has an address.                                    *)
LEMMA GuidedAsked ==
  ASSUME NEW n, NEW r, NEW d, Guided(n), r.sw = n.sw, r.log.freed = n.log.freed,
         \A k \in Guids : \A e :
           /\ Has(r.down[k], e) => Has(n.down[k], e)
           /\ Has(r.up[k], e) => Has(n.up[k], e) \/ (n.sw.run = "running" /\ e = d),
         \A h \in Hosts : \A e : Holds(r.hca[h], e) => Holds(n.hca[h], e),
         d.t = "smp", d.dir = 0,
         \A q \in SwPorts : Needs(d, q) => n.sw.port[q].addr # 0
  PROVE  Guided(r)
<1>1. \A e : Around(r, e) => Around(n, e)
  BY DEF Around
<1>2. \A x : Marked(r, x) => Marked(n, x)
  BY <1>1 DEF Marked
<1>3. Homeward(n) => Homeward(r)
  <2>1. SmPort \in Guids
    BY NetFacts
  <2> QED BY <1>2, <2>1 DEF Homeward
<1>4. Survives(n) => Survives(r)
  <2>1. \A q : Used(r, q) => Used(n, q) \/ Needs(d, q)
    BY <1>2 DEF Used
  <2> QED BY <2>1 DEF Survives
<1> QED
  BY <1>3, <1>4 DEF Guided

LEMMA RequestNeeds ==
  ASSUME FabricInv, NEW step \in ScriptSteps, NEW q \in SwPorts, Needs(Request(step), q)
  PROVE  sw.port[q].addr # 0
<1>1. sw \in SwS
  BY NowFields
<1>2. \A g \in Guids : detect_in_port(sw, g) = q => sw.port[q].guid = g
  <2> SUFFICES ASSUME NEW g \in Guids, detect_in_port(sw, g) = q PROVE sw.port[q].guid = g
    OBVIOUS
  <2>1. detect_in_port(sw, g) # 0 => sw.port[detect_in_port(sw, g)].guid = g
    BY DetectIn
  <2>2. q # 0
    BY LidFacts DEF SwPorts
  <2> QED BY <2>1, <2>2
<1>3. /\ step.kind \in {"switch", "lft", "mft", "port", "pkey"}
      /\ Remote(step) <=> step.kind \in {"port", "pkey"}
      /\ Remote(step) => step.port \in Guids
  BY StepFacts
<1>4. Request(step).op = SmOp(step)
  BY DEF Request
<1>5. \E g \in Guids : sw.port[q].guid = g
  <2>1. CASE SmOp(step).attr = "LinearForwardTable" /\ \E l \in Lids : SmOp(step).table[l] = q
    <3>1. PICK l \in Lids : SmOp(step).table[l] = q
      BY <2>1
    <3>2. step.kind = "lft"
      BY <1>3, <2>1 DEF SmOp
    <3>3. SmOp(step).table = [k \in Lids |-> IF \E g \in Guids : Lid[g] = k
                                 THEN detect_in_port(sw, CHOOSE g \in Guids : Lid[g] = k)
                                 ELSE 0]
      BY <3>2 DEF SmOp
    <3>4. q # 0
      BY LidFacts DEF SwPorts
    <3>5. /\ \E g \in Guids : Lid[g] = l
          /\ detect_in_port(sw, CHOOSE g \in Guids : Lid[g] = l) = q
      BY <3>1, <3>3, <3>4
    <3> DEFINE c == CHOOSE g \in Guids : Lid[g] = l
    <3>6. c \in Guids /\ detect_in_port(sw, c) = q
      BY <3>5
    <3> HIDE DEF c
    <3> QED BY <1>2, <3>6
  <2>2. CASE SmOp(step).attr = "McastForwardTable" /\ q \in SmOp(step).ports
    <3>1. step.kind = "mft"
      BY <1>3, <2>2 DEF SmOp
    <3>2. SmOp(step).ports = {k \in SwPorts : sw.port[k].guid # 0}
      BY <3>1 DEF SmOp
    <3> QED BY <1>1, <2>2, <3>2, SwPortFacts
  <2> QED BY <1>4, <2>1, <2>2 DEF Needs
<1>6. 0 \notin Guids
  BY LidFacts
<1> QED
  BY <1>1, <1>5, <1>6, SwPortFacts

LEMMA GuidedSmSend ==
  ASSUME FabricInv, SmSend, Guided(Now)
  PROVE  Guided(Now')
<1> DEFINE d == Request(SmStep)
           h == DevOf[SmPort]
           pk == [src |-> "QP0", port |-> SmPort, d |-> d]
           r == BuildAndSend(Now, h, SmPort, "QP0", d)
           n == Now
<1>1. \/ Now' = Now
      \/ /\ d \in SmpSent /\ d.guid = SmPort /\ port[SmPort].state # IB_PORT_DOWN
         /\ SmStep \in ScriptSteps /\ Now' = r
  BY SmSendDoes
<1>2. SmPort \in Guids /\ h \in Hosts
  BY NetFacts
<1>3. /\ mode \in Cases /\ n \in Fabric /\ up \in UpS /\ down \in DownS
      /\ n.hca = hca /\ n.up = up /\ n.down = down /\ n.sw = sw /\ n.log = log /\ n.port = port
  BY NowFields
<1>4. CASE /\ d \in SmpSent /\ d.guid = SmPort /\ port[SmPort].state # IB_PORT_DOWN
           /\ SmStep \in ScriptSteps /\ Now' = r
  <2>1. Sends(n, h, pk, r)
    BY <1>2, <1>3, <1>4, BuildDoes
  <2>2. d.t = "smp" /\ d.cls = "dr" /\ d.dir = 0
    BY DEF Request
  <2>3. \A q \in SwPorts : Needs(d, q) => n.sw.port[q].addr # 0
    BY <1>3, <1>4, RequestNeeds
  <2>4. d \notin SmpKept /\ pk.src = "QP0" /\ pk.d = d /\ pk.port = SmPort
    BY <2>2 DEF SmpKept, Returns, Repress
  <2> HIDE DEF d
  <2>5. pk \notin Waiting
    BY <2>4 DEF Waiting
  <2>6. d \in Sent
    BY <1>4 DEF Sent
  <2> HIDE DEF pk, r, n
  <2>7. /\ r.sw = n.sw /\ r.log = n.log /\ r.down = n.down
        /\ r.up = n.up \/ (n.sw.run = "running"
                           /\ r.up = [n.up EXCEPT ![SmPort] = Enqueue(n.up[SmPort], d)])
        /\ \A k \in Hosts : r.hca[k].mad = n.hca[k].mad
        /\ \A k \in Hosts : r.hca[k].ready = n.hca[k].ready \/ r.hca[k].ready = None
    BY <2>1, <2>4, <2>5 DEF Sends, Alike
  <2>8. \A k \in Hosts : \A e : Holds(r.hca[k], e) => Holds(n.hca[k], e)
    BY <2>7 DEF Holds, None
  <2>9. \A k \in Guids : \A e :
          Has(r.up[k], e) => Has(n.up[k], e) \/ (n.sw.run = "running" /\ e = d)
    <3>1. CASE r.up = n.up
      BY <3>1
    <3>2. CASE /\ n.sw.run = "running"
               /\ r.up = [n.up EXCEPT ![SmPort] = Enqueue(n.up[SmPort], d)]
      <4>1. n.up \in [Guids -> Seq(Sent)]
        BY <1>3 DEF UpS
      <4>2. \A k \in Guids : r.up[k] = IF k = SmPort THEN Enqueue(n.up[SmPort], d) ELSE n.up[k]
        BY <3>2, <4>1
      <4>3. \A e : Has(Enqueue(n.up[SmPort], d), e) => e = d \/ Has(n.up[SmPort], e)
        BY <1>2, <1>3, <2>6, <4>1, PutWire
      <4> QED BY <3>2, <4>2, <4>3
    <3> QED BY <2>7, <3>1, <3>2
  <2>10. Guided(n)
    BY DEF n
  <2>11. Guided(r)
    BY <2>2, <2>3, <2>7, <2>8, <2>9, <2>10, GuidedAsked
  <2> QED BY <1>4, <2>11
<1> QED
  BY <1>1, <1>4

-----------------------------------------------------------------------------
(* Directed routes when devices and pibnetd come and go *)

(* Devices only add link commands, and take ports of the easy switch. *)
LEMMA GuidedLoads ==
  ASSUME NEW n, NEW r, Guided(n), n.log.freed => r.log.freed,
         \A k \in Guids : \A d :
           /\ Has(r.down[k], d) => Has(n.down[k], d)
           /\ Has(r.up[k], d) =>
                \/ Has(n.up[k], d)
                \/ /\ n.sw.run = "running" /\ d.t = "raw" /\ (d.cmd = "CONNECT" \/ r.log.freed)
                   /\ Steady /\ ~n.sw.easy /\ k = SmPort => d.cmd = "CONNECT",
         \A h \in Hosts : \A d : Holds(r.hca[h], d) => Holds(n.hca[h], d),
         ~n.sw.easy => r.sw = n.sw,
         r.sw.run = n.sw.run, r.sw.easy = n.sw.easy, r.sw.fwd = n.sw.fwd, r.sw.mfwd = n.sw.mfwd,
         \A q \in SwPorts : n.sw.port[q].addr # 0 => r.sw.port[q].addr # 0 \/ r.log.freed
  PROVE  Guided(r)
<1>1. \A d : Routed(d) /\ Around(r, d) => Around(n, d)
  BY DEF Around, Routed
<1>2. \A x : Marked(r, x) => Marked(n, x)
  BY <1>1 DEF Marked
<1>3. Steady /\ Homeward(n) => Homeward(r)
  <2>1. SmPort \in Guids
    BY NetFacts
  <2> QED BY <1>2, <2>1 DEF Homeward, OfSm
<1>4. Survives(n) => Survives(r)
  <2>1. \A q : Used(r, q) => Used(n, q)
    BY <1>2 DEF Used, Routed
  <2> QED BY <2>1 DEF Survives
<1> QED
  BY <1>3, <1>4 DEF Guided

(* A command behind what the port sent before *)
LEMMA HasCommand ==
  ASSUME mode \in Cases, mode.multi, up \in UpS, NEW b \in 1..mode.loads,
         NEW cmd \in {"CONNECT", "DISCONNECT"}, NEW k \in Guids
  PROVE  LET x == [t |-> "raw", cmd |-> cmd, guid |-> k, addr |-> b, boot |-> 0, via |-> 0]
         IN \A d : Has(Enqueue(up[k], x), d) => Has(up[k], d) \/ (d.t = "raw" /\ d.cmd = cmd)
<1> DEFINE x == [t |-> "raw", cmd |-> cmd, guid |-> k, addr |-> b, boot |-> 0, via |-> 0]
<1>1. x \in RawSent /\ x.t = "raw" /\ x.cmd = cmd
  BY FewerCommands
<1> HIDE DEF x
<1>2. x \in Sent /\ up[k] \in Seq(Sent)
  BY <1>1 DEF Sent, UpS
<1>3. \A d : Has(Enqueue(up[k], x), d) => d = x \/ Has(up[k], d)
  BY <1>2, PutWire
<1>4. \A d : Has(Enqueue(up[k], x), d) => Has(up[k], d) \/ (d.t = "raw" /\ d.cmd = cmd)
  BY <1>1, <1>3
<1> QED
  BY <1>4 DEF x

LEMMA GuidedAdd ==
  ASSUME FabricInv, NEW h \in Hosts, pib_dev_add(h), Guided(Now)
  PROVE  Guided(Now')
<1> DEFINE b == hca[h].boot + 1
           x == LoadedDev(h, b)
           n == Now
           r == Now'
<1>1. AddDone(h)
  BY AddDoes
<1>2. /\ mode \in Cases /\ up \in UpS /\ hca \in HcaS /\ sw \in SwS
      /\ n.hca = hca /\ n.up = up /\ n.down = down /\ n.sw = sw /\ n.log = log
  BY NowFields
<1>3. r.hca = hca' /\ r.up = up' /\ r.down = down' /\ r.sw = sw' /\ r.log = log'
  BY DEF Now
<1>4. /\ b \in 1..mode.loads /\ hca' = [hca EXCEPT ![h] = x] /\ down' = down /\ log' = log
      /\ \/ mode.multi /\ sw' = sw /\ up' = Connects(h, b)
         \/ ~mode.multi /\ up' = up /\ sw' = [sw EXCEPT !.port = EasyPorts(h, b)]
  BY <1>1 DEF AddDone
<1>5. x.ready = None /\ x.mad = <<>>
  BY <1>2, <1>4, LoadedDevType
<1>6. \A k \in Hosts : hca'[k] = IF k = h THEN x ELSE hca[k]
  BY <1>2, <1>4 DEF HcaS
<1>7. \A d : ~Holds(x, d)
  BY <1>5 DEF Holds, None
<1>8. \A k \in Hosts : \A d : Holds(hca'[k], d) => Holds(hca[k], d)
  BY <1>6, <1>7
<1>9. \A k \in Guids : \A d : Has(up'[k], d) =>
        Has(up[k], d) \/ (sw.run = "running" /\ d.t = "raw" /\ d.cmd = "CONNECT")
  <2>1. CASE up' = up
    BY <2>1
  <2>2. CASE mode.multi /\ up' = Connects(h, b)
    <3> HIDE DEF b
    <3> QED BY <1>2, <1>4, <2>2, HasCommand DEF Connects
  <2> QED BY <1>4, <2>1, <2>2
<1>10. /\ ~sw.easy => sw' = sw
       /\ sw'.run = sw.run /\ sw'.easy = sw.easy /\ sw'.fwd = sw.fwd /\ sw'.mfwd = sw.mfwd
  <2>1. sw.easy <=> ~mode.multi
    BY <1>2, SwFacts
  <2> QED BY <1>2, <1>4, <2>1 DEF SwS
<1>11. \A q \in SwPorts : sw.port[q].addr # 0 => sw'.port[q].addr # 0
  <2>1. CASE sw' = sw
    BY <2>1
  <2>2. CASE sw' = [sw EXCEPT !.port = EasyPorts(h, b)]
    <3>1. sw'.port = EasyPorts(h, b) /\ b # 0
      BY <1>2, <1>4, <2>2 DEF SwS
    <3> HIDE DEF b
    <3> QED BY <3>1 DEF EasyPorts
  <2> QED BY <1>4, <2>1, <2>2
<1>12. /\ r.log = n.log /\ r.down = n.down
       /\ \A k \in Hosts : \A d : Holds(r.hca[k], d) => Holds(n.hca[k], d)
       /\ \A k \in Guids : \A d : Has(r.up[k], d) =>
            Has(n.up[k], d) \/ (n.sw.run = "running" /\ d.t = "raw" /\ d.cmd = "CONNECT")
       /\ ~n.sw.easy => r.sw = n.sw
       /\ r.sw.run = n.sw.run /\ r.sw.easy = n.sw.easy
       /\ r.sw.fwd = n.sw.fwd /\ r.sw.mfwd = n.sw.mfwd
       /\ \A q \in SwPorts : n.sw.port[q].addr # 0 => r.sw.port[q].addr # 0
  BY <1>2, <1>3, <1>4, <1>8, <1>9, <1>10, <1>11
<1>13. Guided(n)
  OBVIOUS
<1> HIDE DEF n, r
<1>14. Guided(r)
  BY <1>12, <1>13, GuidedLoads
<1> QED
  BY <1>14 DEF r

LEMMA GuidedGone ==
  ASSUME FabricInv, NEW h \in Hosts, pib_dev_remove(h) \/ Crash(h), Guided(Now)
  PROVE  Guided(Now')
<1> DEFINE x == GoneDev(hca[h].boot)
           n == Now
           r == Now'
<1>1. GoneDone(h) /\ ((RemoveDone(h) /\ h \in mode.unload) \/ CrashDone(h))
  BY RemoveDoes, CrashDoes DEF RemoveDone, CrashDone, pib_dev_remove
<1>2. /\ mode \in Cases /\ up \in UpS /\ hca \in HcaS /\ sw \in SwS /\ log \in LogS
      /\ n.hca = hca /\ n.up = up /\ n.down = down /\ n.sw = sw /\ n.log = log
  BY NowFields
<1>3. r.hca = hca' /\ r.up = up' /\ r.down = down' /\ r.sw = sw' /\ r.log = log'
  BY DEF Now
<1>4. /\ hca[h].up /\ hca' = [hca EXCEPT ![h] = x] /\ down' = Cleared(h)
  BY <1>1 DEF GoneDone
<1>5. hca[h].boot \in 1..mode.loads
  BY <1>2, <1>4, HcaFacts, ModeFacts DEF HcaRec
<1>6. x.ready = None /\ x.mad = <<>>
  <2>1. hca[h].boot \in 0..mode.loads
    BY <1>5
  <2> QED BY <1>2, <2>1, GoneDevType
<1>7. \A k \in Hosts : hca'[k] = IF k = h THEN x ELSE hca[k]
  BY <1>2, <1>4 DEF HcaS
<1>8. \A d : ~Holds(x, d)
  BY <1>6 DEF Holds, None
<1>9. \A k \in Hosts : \A d : Holds(hca'[k], d) => Holds(hca[k], d)
  BY <1>7, <1>8
<1>10. \A k \in Guids : \A d : Has(down'[k], d) => Has(down[k], d)
  BY <1>4 DEF Cleared, Has
<1>11. /\ \/ sw' = sw /\ mode.multi
          \/ ~mode.multi /\ sw' = [sw EXCEPT !.port = EasyFree(h)] /\ up' = up
       /\ \/ up' = up
          \/ mode.multi /\ up' = Disconnects(h) /\ h \in mode.unload
       /\ (sw' = sw /\ up' = up /\ log'.freed = log.freed) \/ log'.freed
  BY <1>1, <1>2 DEF RemoveDone, CrashDone, LogS
<1>12. /\ ~sw.easy <=> mode.multi
       /\ ~sw.easy => sw' = sw
       /\ sw'.run = sw.run /\ sw'.easy = sw.easy /\ sw'.fwd = sw.fwd /\ sw'.mfwd = sw.mfwd
  <2>1. sw.easy <=> ~mode.multi
    BY <1>2, SwFacts
  <2> QED BY <1>2, <1>11, <2>1 DEF SwS
<1>13. \A k \in Guids : \A d : Has(up'[k], d) =>
         \/ Has(up[k], d)
         \/ /\ sw.run = "running" /\ d.t = "raw" /\ log'.freed
            /\ Steady /\ ~sw.easy => k # SmPort
  <2>1. CASE up' = up
    BY <2>1
  <2>2. CASE mode.multi /\ up' = Disconnects(h) /\ h \in mode.unload /\ up' # up
    <3>1. log'.freed
      BY <1>11, <2>2
    <3>2. Steady => DevOf[SmPort] # h
      BY <2>2 DEF Steady
    <3>3. \A k \in Guids : \A d : Has(up'[k], d) =>
            Has(up[k], d) \/ (sw.run = "running" /\ DevOf[k] = h /\ d.t = "raw")
      BY <1>2, <1>5, <2>2, HasCommand DEF Disconnects
    <3> QED BY <3>1, <3>2, <3>3
  <2> QED BY <1>11, <2>1, <2>2
<1>14. /\ log.freed => log'.freed
       /\ \A q \in SwPorts : sw.port[q].addr # 0 => sw'.port[q].addr # 0 \/ log'.freed
  BY <1>11
<1>15. /\ n.log.freed => r.log.freed
       /\ \A k \in Guids : \A d :
           /\ Has(r.down[k], d) => Has(n.down[k], d)
           /\ Has(r.up[k], d) =>
                \/ Has(n.up[k], d)
                \/ /\ n.sw.run = "running" /\ d.t = "raw" /\ r.log.freed
                   /\ Steady /\ ~n.sw.easy => k # SmPort
       /\ \A k \in Hosts : \A d : Holds(r.hca[k], d) => Holds(n.hca[k], d)
       /\ ~n.sw.easy => r.sw = n.sw
       /\ r.sw.run = n.sw.run /\ r.sw.easy = n.sw.easy
       /\ r.sw.fwd = n.sw.fwd /\ r.sw.mfwd = n.sw.mfwd
       /\ \A q \in SwPorts : n.sw.port[q].addr # 0 => r.sw.port[q].addr # 0 \/ r.log.freed
  BY <1>2, <1>3, <1>9, <1>10, <1>12, <1>13, <1>14
<1>16. Guided(n)
  OBVIOUS
<1> HIDE DEF n, r
<1>17. Guided(r)
  BY <1>15, <1>16, GuidedLoads
<1> QED
  BY <1>17 DEF r

LEMMA GuidedStart ==
  ASSUME FabricInv, NetdStart, Guided(Now)
  PROVE  Guided(Now')
<1> DEFINE n == Now
           r == Now'
           t == init_switch(sw.boot + 1)
<1>1. /\ mode.multi /\ sw.run # "running" /\ sw.boot + 1 <= mode.netd /\ sw.boot \in Nat
      /\ Now' = [Now EXCEPT !.sw = t]
  BY StartDoes
<1>2. /\ mode \in Cases /\ n.hca = hca /\ n.up = up /\ n.down = down /\ n.sw = sw /\ n.log = log
      /\ sw \in SwS
  BY NowFields
<1>3. r.hca = n.hca /\ r.up = n.up /\ r.down = n.down /\ r.log = n.log /\ r.sw = t
  BY <1>1 DEF Now
<1>4. /\ t.run = "running" /\ ~t.easy /\ t.boot = sw.boot + 1 /\ t.mfwd = {}
      /\ \A l \in Lids : t.fwd[l] = 0
  BY DEF init_switch
<1>5. ~sw.easy /\ t.boot # 0
  BY <1>1, <1>2, <1>4, SwFacts
<1>6. Guided(n) /\ n.sw = sw
  BY <1>2
<1>7. Steady => sw.boot = 0
  BY <1>1, <1>2, ModeFacts DEF Steady
<1> HIDE DEF n, r, t
<1>8. \A x : Marked(r, x) => Marked(n, x)
  BY <1>3 DEF Marked, Around
<1>9. Steady => Homeward(r)
  <2> SUFFICES ASSUME Steady PROVE Homeward(r)
    OBVIOUS
  <2>1. Homeward(n)
    BY <1>6 DEF Guided
  <2>2. \A q \in SwPorts : sw.port[q].guid = 0
    BY <1>5, <1>6, <1>7, <2>1 DEF Homeward
  <2>3. SmPort # 0 /\ SmPort \in Guids
    BY NetFacts, LidFacts
  <2>4. \A x : ~Marked(n, x)
    BY <1>5, <1>6, <2>1, <2>2, <2>3 DEF Homeward, OfSm
  <2>5. \A d : Has(n.up[SmPort], d) /\ d.t = "raw" => d.cmd = "CONNECT"
    BY <1>5, <1>6, <2>1 DEF Homeward
  <2> QED BY <1>3, <1>4, <1>5, <1>8, <2>1, <2>4, <2>5 DEF Homeward
<1>10. Survives(r)
  <2>1. \A p \in Guids : \A d : ~Has(n.up[p], d)
    BY <1>1, <1>6 DEF Guided, Survives
  <2>2. \A q \in SwPorts : q # 0
    BY LidFacts DEF SwPorts
  <2>3. \A q \in SwPorts : ~Used(r, q)
    BY <1>3, <1>4, <2>1, <2>2 DEF Used
  <2> QED BY <1>3, <1>4, <2>1, <2>3 DEF Survives
<1>11. Guided(r)
  BY <1>9, <1>10 DEF Guided
<1> QED
  BY <1>11 DEF r

LEMMA GuidedStop ==
  ASSUME FabricInv, NetdStop, Guided(Now)
  PROVE  Guided(Now')
<1> DEFINE n == Now
           r == Now'
           t == [sw EXCEPT !.run = "stopped"]
<1>1. Now' = [Now EXCEPT !.sw = t, !.up = NoneUp]
  BY StopDoes
<1>2. /\ n.hca = hca /\ n.up = up /\ n.down = down /\ n.sw = sw /\ n.log = log /\ sw \in SwS
  BY NowFields
<1>3. r.hca = n.hca /\ r.up = NoneUp /\ r.down = n.down /\ r.log = n.log /\ r.sw = t
  BY <1>1 DEF Now
<1>4. /\ t.run = "stopped" /\ t.easy = sw.easy /\ t.boot = sw.boot /\ t.mfwd = sw.mfwd
      /\ t.fwd = sw.fwd /\ t.port = sw.port
  BY <1>2 DEF SwS
<1>5. Guided(n) /\ n.sw = sw
  BY <1>2
<1>6. \A p \in Guids : \A d : ~Has(NoneUp[p], d)
  BY DEF NoneUp, Has
<1> HIDE DEF n, r, t
<1>7. \A x : Marked(r, x) => Marked(n, x)
  BY <1>3, <1>6 DEF Marked, Around
<1>8. Homeward(n) => Homeward(r)
  <2>1. SmPort \in Guids
    BY NetFacts
  <2> QED BY <1>3, <1>4, <1>5, <1>6, <1>7, <2>1 DEF Homeward, OfSm
<1>9. Survives(n) => Survives(r)
  <2>1. \A q : Used(r, q) => Used(n, q)
    BY <1>3, <1>4, <1>5, <1>6, <1>7 DEF Used
  <2> QED BY <1>3, <1>4, <1>5, <1>6, <2>1 DEF Survives
<1>10. Guided(r)
  BY <1>5, <1>8, <1>9 DEF Guided
<1> QED
  BY <1>10 DEF r

-----------------------------------------------------------------------------
(* Directed routes and the switch *)

(* What receive_packet makes of a datagram keeps return paths to the port  *)
(* of the subnet manager, and its tables name ports with an address only.  *)
LeadsHome(n, r) ==
  /\ \A x : OfSm(n.sw, x) => OfSm(r.sw, x)
  /\ \A i \in 1..Len(r.out) : Routed(r.out[i].d) =>
       OfSm(r.sw, r.out[i].d.in0) /\ (r.out[i].d.dir = 1 => r.out[i].to = SmPort)

LeadsOn(n, r) ==
  \A q \in SwPorts :
    /\ n.sw.port[q].addr # 0 => r.sw.port[q].addr # 0
    /\ (q \in r.sw.mfwd \/ \E l \in Lids : r.sw.fwd[l] = q) => Used(n, q)

Leads(n, r) ==
  /\ r.sw.easy = n.sw.easy /\ r.sw.boot = n.sw.boot
  /\ Steady /\ Homeward(n) => LeadsHome(n, r)
  /\ Survives(n) /\ ~n.log.freed => LeadsOn(n, r)

(* f is the network after the switch went from n.sw to r.sw and sent r.out *)
Switched(n, r, f) ==
  /\ f.hca = n.hca /\ f.log = n.log /\ f.sw = r.sw
  /\ r.sw.run # "running" => \A k \in Guids : \A d : ~Has(f.up[k], d)
  /\ \A k \in Guids : \A d :
       /\ Has(f.up[k], d) => Has(n.up[k], d)
       /\ Has(f.down[k], d) =>
            Has(n.down[k], d) \/ \E i \in 1..Len(r.out) : r.out[i].d = d /\ r.out[i].to = k

LEMMA GuidedLeads ==
  ASSUME NEW n, NEW r, NEW f, Guided(n), n.sw.run = "running", Leads(n, r),
         Switched(n, r, f)
  PROVE  Guided(f)
<1>0. /\ f.hca = n.hca /\ f.log = n.log /\ f.sw = r.sw
      /\ r.sw.run # "running" => \A k \in Guids : \A d : ~Has(f.up[k], d)
      /\ \A k \in Guids : \A d :
           /\ Has(f.up[k], d) => Has(n.up[k], d)
           /\ Has(f.down[k], d) =>
                Has(n.down[k], d) \/ \E i \in 1..Len(r.out) : r.out[i].d = d /\ r.out[i].to = k
  BY DEF Switched
<1>1. \A d : Around(f, d) => Around(n, d) \/ \E i \in 1..Len(r.out) : r.out[i].d = d
  BY <1>0 DEF Around
<1>2. \A x : Marked(f, x) =>
        Marked(n, x) \/ \E i \in 1..Len(r.out) : Routed(r.out[i].d) /\ r.out[i].d.in0 = x
  BY <1>1 DEF Marked
<1>3. ASSUME Steady PROVE Homeward(f)
  <2>1. Homeward(n) /\ LeadsHome(n, r) /\ r.sw.easy = n.sw.easy /\ r.sw.boot = n.sw.boot
    BY <1>3 DEF Guided, Leads
  <2>2. \A x : Marked(f, x) => OfSm(f.sw, x)
    BY <1>0, <1>2, <2>1 DEF Homeward, LeadsHome
  <2>3. \A p \in Guids : \A d : Has(f.down[p], d) /\ Routed(d) /\ d.dir = 1 => p = SmPort
    <3> SUFFICES ASSUME NEW p \in Guids, NEW d, Has(f.down[p], d), Routed(d), d.dir = 1
                 PROVE  p = SmPort
      OBVIOUS
    <3>1. Has(n.down[p], d) \/ \E i \in 1..Len(r.out) : r.out[i].d = d /\ r.out[i].to = p
      BY <1>0
    <3> QED BY <2>1, <3>1 DEF Homeward, LeadsHome
  <2>4. SmPort \in Guids
    BY NetFacts
  <2>5. ~f.sw.easy => f.sw.boot # 0
    BY <1>0, <2>1 DEF Homeward
  <2> QED BY <1>0, <2>1, <2>2, <2>3, <2>4, <2>5 DEF Homeward
<1>4. Survives(f)
  <2>1. Survives(n) /\ (~n.log.freed => LeadsOn(n, r))
    BY DEF Guided, Leads
  <2>3. ASSUME ~n.log.freed, NEW q \in SwPorts, Used(f, q)
        PROVE  Used(n, q)
    <3>1. CASE q \in f.sw.mfwd \/ \E l \in Lids : f.sw.fwd[l] = q
      BY <1>0, <2>1, <2>3, <3>1 DEF LeadsOn
    <3>2. CASE \E p \in Guids : \E d : Has(f.up[p], d) /\ Routed(d) /\ d.dir = 0 /\ Needs(d, q)
      BY <1>0, <3>2 DEF Used
    <3> QED BY <2>3, <3>1, <3>2 DEF Used
  <2>4. ~n.log.freed => \A q \in SwPorts : Used(f, q) => f.sw.port[q].addr # 0
    BY <1>0, <2>1, <2>3 DEF Survives, LeadsOn
  <2> QED BY <1>0, <2>1, <2>4 DEF Survives, LeadsOn
<1> QED
  BY <1>3, <1>4 DEF Guided

LEMMA LeadsDrop ==
  ASSUME NEW n, n.sw.run = "running", NEW r, r.sw = n.sw,
         \A i \in 1..Len(r.out) : ~Routed(r.out[i].d)
  PROVE  Leads(n, r)
BY DEF Leads, LeadsHome, LeadsOn, Used

(* The switch ends with its tables as they are. *)
LEMMA LeadsExit ==
  ASSUME NEW n, n.sw \in SwS, NEW r, r.sw = Exits(n.sw).sw,
         \A i \in 1..Len(r.out) : ~Routed(r.out[i].d)
  PROVE  Leads(n, r)
<1>1. /\ r.sw.easy = n.sw.easy /\ r.sw.boot = n.sw.boot /\ r.sw.port = n.sw.port
      /\ r.sw.fwd = n.sw.fwd /\ r.sw.mfwd = n.sw.mfwd
  BY DEF Exits, SwS
<1>2. LeadsHome(n, r)
  BY <1>1 DEF LeadsHome, OfSm
<1>3. LeadsOn(n, r)
  BY <1>1 DEF LeadsOn, Used
<1> QED
  BY <1>1, <1>2, <1>3 DEF Leads

LEMMA LeadsData ==
  ASSUME NEW n \in Fabric, n.sw.run = "running", NEW d \in Wire
  PROVE  Leads(n, receive_packet(n.sw, d))
<1> DEFINE s == n.sw
           r == receive_packet(s, d)
<1>1. s \in SwS
  BY FabricFields
<1> HIDE DEF s
<1>2. DataDone(s, d, r)
  BY <1>1, DataDoes
<1> SUFFICES Leads(n, r)
  BY DEF s
<1> HIDE DEF r
<1>3. \A i \in 1..Len(r.out) : ~Routed(r.out[i].d)
  BY <1>2 DEF DataDone, Copy, Wire, Data, DataRec, Routed
<1>4. r.sw = s \/ r.sw = Exits(s).sw
  BY <1>2 DEF DataDone
<1> QED
  BY <1>1, <1>3, <1>4, LeadsDrop, LeadsExit DEF s

LEMMA LeadsConnect ==
  ASSUME mode \in Cases, NEW n \in Fabric, n.sw.run = "running", NEW d \in RawSent,
         d.cmd = "CONNECT"
  PROVE  Leads(n, receive_packet(n.sw, d))
<1> DEFINE s == n.sw
           r == receive_packet(s, d)
           p == d.guid
<1>1. s \in SwS /\ p \in Guids /\ d.addr \in 1..mode.loads /\ mode.multi /\ s.run = "running"
  BY FabricFields DEF RawSent, RawRec
<1> HIDE DEF s
<1>2. r = Exits(s) \/ ConnectDone(s, d, r)
  BY <1>1, ConnectDoes
<1> SUFFICES Leads(n, r)
  BY DEF s
<1> HIDE DEF r
<1>3. CASE r = Exits(s)
  <2>1. r.sw = Exits(s).sw /\ r.out = <<>>
    BY <1>3 DEF Exits
  <2> QED BY <1>1, <2>1, LeadsExit DEF s
<1>4. CASE ConnectDone(s, d, r)
  <2>1. PICK q \in SwPorts :
          /\ s.port[q].guid \in {0, p}
          /\ r.sw = [s EXCEPT !.port[q] = [guid |-> p, addr |-> d.addr]]
          /\ \A i \in 1..Len(r.out) :
               r.out[i].d \in Notices \/ IsAck(r.out[i], s, d, "CONNECT_ACK")
    BY <1>4 DEF ConnectDone
  <2>2. /\ r.sw.easy = s.easy /\ r.sw.boot = s.boot /\ r.sw.run = s.run /\ ~s.easy
        /\ r.sw.fwd = s.fwd /\ r.sw.mfwd = s.mfwd
        /\ r.sw.port = [s.port EXCEPT ![q] = [guid |-> p, addr |-> d.addr]]
    BY <1>1, <2>1, SwFacts DEF SwS
  <2>3. /\ \A k \in SwPorts : k # q => r.sw.port[k] = s.port[k]
        /\ r.sw.port[q].guid = p /\ r.sw.port[q].addr # 0
    <3>1. s.port \in [SwPorts -> SwPort] /\ d.addr # 0
      BY <1>1, SwFacts
    <3> HIDE DEF p
    <3> QED BY <2>2, <3>1
  <2>4. \A i \in 1..Len(r.out) : ~Routed(r.out[i].d)
    BY <2>1 DEF Notices, Notice, IsAck, RawCame, RawRec, Routed
  <2>5. SmPort # 0
    BY NetFacts, LidFacts
  <2>6. LeadsHome(n, r)
    <3>1. \A x : OfSm(s, x) => OfSm(r.sw, x)
      BY <2>1, <2>2, <2>3, <2>5 DEF OfSm
    <3> QED BY <2>4, <3>1 DEF LeadsHome, s
  <2>7. LeadsOn(n, r)
    <3>1. \A k \in SwPorts : s.port[k].addr # 0 => r.sw.port[k].addr # 0
      BY <2>3
    <3> QED BY <2>2, <3>1 DEF LeadsOn, Used, s
  <2> QED BY <2>2, <2>6, <2>7 DEF Leads, s
<1> QED
  BY <1>2, <1>3, <1>4

LEMMA LeadsDisconnect ==
  ASSUME mode \in Cases, NEW n \in Fabric, n.sw.run = "running", NEW d \in RawSent,
         d.cmd = "DISCONNECT", Has(n.up[d.guid], d)
  PROVE  Leads(n, receive_packet(n.sw, d))
<1> DEFINE s == n.sw
           r == receive_packet(s, d)
           p == d.guid
<1>1. s \in SwS /\ p \in Guids /\ d.t = "raw" /\ mode.multi /\ s.run = "running"
  BY FabricFields DEF RawSent, RawRec
<1> HIDE DEF s
<1>2. r = Drops(s) \/ DisconnectDone(s, d, r)
  BY <1>1, DisconnectDoes
<1> SUFFICES Leads(n, r)
  BY DEF s
<1> HIDE DEF r
<1>3. CASE r = Drops(s)
  <2>1. r.sw = s /\ r.out = <<>>
    BY <1>3 DEF Drops
  <2> QED BY <2>1, LeadsDrop DEF s
<1>4. CASE DisconnectDone(s, d, r)
  <2>1. PICK q \in SwPorts :
          /\ s.port[q].guid = p
          /\ r.sw = [s EXCEPT !.port[q] = FreePort]
          /\ \A i \in 1..Len(r.out) :
               r.out[i].d \in Notices \/ IsAck(r.out[i], s, d, "DISCONNECT_ACK")
    BY <1>4 DEF DisconnectDone
  <2>2. /\ r.sw.easy = s.easy /\ r.sw.boot = s.boot /\ ~s.easy
        /\ r.sw.port = [s.port EXCEPT ![q] = FreePort]
    BY <1>1, <2>1, SwFacts DEF SwS
  <2>3. \A k \in SwPorts : k # q => r.sw.port[k] = s.port[k]
    <3>1. s.port \in [SwPorts -> SwPort]
      BY <1>1, SwFacts
    <3> QED BY <2>2, <3>1
  <2>4. \A i \in 1..Len(r.out) : ~Routed(r.out[i].d)
    BY <2>1 DEF Notices, Notice, IsAck, RawCame, RawRec, Routed
  <2>5. Homeward(n) => LeadsHome(n, r)
    <3> SUFFICES ASSUME Homeward(n) PROVE LeadsHome(n, r)
      OBVIOUS
    <3>1. p # SmPort
      BY <1>1, <2>2 DEF Homeward, s
    <3>2. \A x : OfSm(s, x) => OfSm(r.sw, x)
      BY <2>1, <2>2, <2>3, <3>1 DEF OfSm
    <3> QED BY <2>4, <3>2 DEF LeadsHome, s
  <2>6. ~(Survives(n) /\ ~n.log.freed)
    BY <1>1 DEF Survives
  <2> QED BY <2>2, <2>5, <2>6 DEF Leads, s
<1> QED
  BY <1>2, <1>3, <1>4

LEMMA LeadsSmp ==
  ASSUME mode \in Cases, NEW n \in Fabric, n.sw.run = "running", NEW d \in SmpSent,
         d.guid \in Guids, Has(n.up[d.guid], d)
  PROVE  Leads(n, receive_packet(n.sw, d))
<1> DEFINE s == n.sw
           r == receive_packet(s, d)
           in == detect_in_port(s, d.guid)
<1>1. s \in SwS /\ s.run = "running" /\ d \in SmpRec /\ d.t = "smp"
  BY FabricFields DEF SmpSent, SmpRec
<1> HIDE DEF s
<1>2. \/ r = Drops(s)
      \/ /\ in \in SwPorts /\ s.port[in].guid = d.guid
         /\ \E t, q, e : Route(s, in, d, t, q, e)
                           /\ r = send_packet([sw |-> t, q |-> q, d |-> e])
  BY <1>1, SmpDoes
<1> SUFFICES Leads(n, r)
  BY DEF s
<1> HIDE DEF r, in
<1>3. CASE r = Drops(s)
  <2>1. r.sw = s /\ r.out = <<>>
    BY <1>3 DEF Drops
  <2> QED BY <2>1, LeadsDrop DEF s
<1>4. CASE r # Drops(s)
  <2>1. in \in SwPorts /\ s.port[in].guid = d.guid
    BY <1>2, <1>4
  <2>2. PICK t, q, e : Route(s, in, d, t, q, e)
                         /\ r = send_packet([sw |-> t, q |-> q, d |-> e])
    BY <1>2, <1>4
  <2> DEFINE v == [e EXCEPT !.via = q]
             Dead == r.out = <<>> /\ r.sw = Exits(t).sw /\ s.easy /\ s.port[q].addr = 0
             Mute == r.out = <<>> /\ r.sw = t
             Told == /\ r.sw = t /\ s.port[q].addr # 0 /\ Len(r.out) = 1
                     /\ r.out[1].d = v /\ r.out[1].to = s.port[q].guid
  <2>3. /\ t \in SwS /\ t.port = s.port /\ t.boot = s.boot /\ t.run = s.run
        /\ t.easy <=> s.easy
        /\ q \in SwPorts /\ v \in SmpCame
    BY <1>1, <2>1, <2>2, RouteType
  <2>4. t.easy = s.easy /\ t.easy \in BOOLEAN
    BY <1>1, <2>3 DEF SwS
  <2>5. Dead \/ Mute \/ Told
    <3>1. \/ /\ t.port[q].addr # 0 /\ r.sw = t /\ r.out = <<Send(t, q, e)>>
             /\ Send(t, q, e).to = t.port[q].guid /\ Send(t, q, e).d = v
          \/ t.port[q].addr = 0 /\ t.easy /\ r = Exits(t)
          \/ t.port[q].addr = 0 /\ ~t.easy /\ r = Drops(t)
      BY <2>2, <2>3, SendPacketDoes
    <3>2. Exits(t).out = <<>> /\ Drops(t).out = <<>> /\ Drops(t).sw = t
      BY DEF Exits, Drops
    <3> HIDE DEF v
    <3>3. CASE t.port[q].addr = 0 /\ t.easy /\ r = Exits(t)
      BY <2>3, <3>2, <3>3
    <3>4. CASE t.port[q].addr = 0 /\ ~t.easy /\ r = Drops(t)
      BY <3>2, <3>4
    <3>5. CASE /\ t.port[q].addr # 0 /\ r.sw = t /\ r.out = <<Send(t, q, e)>>
               /\ Send(t, q, e).to = t.port[q].guid /\ Send(t, q, e).d = v
      <4> DEFINE x == Send(t, q, e)
      <4>1. x.to = t.port[q].guid /\ x.d = v /\ r.out = <<x>> /\ r.sw = t /\ t.port[q].addr # 0
        BY <3>5
      <4> HIDE DEF x
      <4>2. Len(r.out) = 1 /\ r.out[1] = x
        BY <4>1
      <4> QED BY <2>3, <4>1, <4>2
    <3> QED BY <3>1, <3>3, <3>4, <3>5
  <2>6. /\ v.in0 \in SwPorts
        /\ \/ ForSwitch(d) /\ v.in0 = in /\ q = in
           \/ ForPort(d) /\ v.in0 = in /\ v.dir = 0 /\ q = d.out
           \/ Returns(d) /\ v.in0 = q /\ q = d.in0
    BY <1>1, <2>1, <2>2, <2>3 DEF Route, SmpRec, ForSwitch, ForPort, Returns
  <2>7. \/ ForSwitch(d) /\ t = pib_process_smp(s, d.op)
        \/ ~ForSwitch(d) /\ t = s
    BY <2>2 DEF Route, ForSwitch, ForPort, Returns
  <2>8. Routed(d)
    BY <1>1, <2>6 DEF Routed, ForSwitch, ForPort, Returns
  <2> HIDE DEF v
  <2>10. Returns(d) => Marked(n, q)
    <3>1. ASSUME Returns(d) PROVE Marked(n, q)
      <4>1. d.dir = 1 /\ d.in0 = q
        BY <2>6, <3>1 DEF Returns, ForPort, ForSwitch
      <4>2. Around(n, d)
        BY <4>1 DEF Around
      <4> QED BY <2>8, <4>1, <4>2 DEF Marked
    <3> QED BY <3>1
  <2>11. \A k : (ForSwitch(d) \/ ForPort(d)) /\ Needs(d, k) => Used(n, k)
    BY <2>8 DEF Used, ForSwitch, ForPort
  <2>12. ASSUME NEW k \in SwPorts, k \in t.mfwd \/ \E l \in Lids : t.fwd[l] = k
         PROVE  Used(n, k)
    <3>1. CASE t = s
      BY <2>12, <3>1 DEF Used, s
    <3>2. CASE ForSwitch(d) /\ t = pib_process_smp(s, d.op)
      <4>1. /\ t.fwd = IF d.op.attr = "LinearForwardTable" THEN d.op.table ELSE s.fwd
            /\ t.mfwd = IF d.op.attr = "McastForwardTable" THEN d.op.ports ELSE s.mfwd
        BY <1>1, <3>2, SetSwitch DEF ForSwitch
      <4>2. (k \in s.mfwd \/ \E l \in Lids : s.fwd[l] = k) \/ Needs(d, k)
        BY <2>12, <4>1 DEF Needs
      <4> QED BY <2>11, <3>2, <4>2 DEF Used, s
    <3> QED BY <2>7, <3>1, <3>2
  <2>13. r.sw.easy = s.easy /\ r.sw.boot = s.boot /\ r.sw.port = s.port
         /\ r.sw.fwd = t.fwd /\ r.sw.mfwd = t.mfwd
    <3>1. Exits(t).sw.easy = t.easy /\ Exits(t).sw.boot = t.boot /\ Exits(t).sw.port = t.port
          /\ Exits(t).sw.fwd = t.fwd /\ Exits(t).sw.mfwd = t.mfwd
      BY <2>3 DEF Exits, SwS
    <3> QED BY <2>3, <2>4, <2>5, <3>1
  <2>14. Homeward(n) => LeadsHome(n, r)
    <3> SUFFICES ASSUME Homeward(n) PROVE LeadsHome(n, r)
      OBVIOUS
    <3>1. \A x : OfSm(s, x) => OfSm(r.sw, x)
      BY <2>13 DEF OfSm
    <3>2. OfSm(s, v.in0)
      <4>1. CASE ForSwitch(d) \/ ForPort(d)
        <5>1. v.in0 = in /\ d.guid = SmPort
          BY <2>6, <4>1 DEF ForSwitch, ForPort, Returns
        <5>2. s.easy => in = SmPort
          BY <1>1, <2>1, <5>1, SwFacts, NetFacts, LidFacts
        <5> QED BY <2>1, <5>1, <5>2 DEF OfSm
      <4>2. CASE Returns(d)
        <5>1. v.in0 = q
          BY <2>6, <4>2 DEF ForSwitch, ForPort, Returns
        <5>2. \A x : Marked(n, x) => OfSm(s, x)
          BY DEF Homeward, s
        <5> QED BY <2>10, <4>2, <5>1, <5>2
      <4> QED BY <2>6, <4>1, <4>2
    <3>3. Told /\ v.dir = 1 => s.port[q].guid = SmPort
      <4> SUFFICES ASSUME Told, v.dir = 1 PROVE s.port[q].guid = SmPort
        OBVIOUS
      <4>1. OfSm(s, q)
        BY <2>6, <3>2
      <4>2. s.port[q].guid # 0
        BY <1>1, <2>3, SwPortFacts
      <4> QED BY <1>1, <2>3, <4>1, <4>2, SwFacts DEF OfSm
    <3>4. OfSm(r.sw, v.in0)
      BY <3>1, <3>2
    <3>5. ASSUME NEW i \in 1..Len(r.out)
          PROVE  OfSm(r.sw, r.out[i].d.in0) /\ (r.out[i].d.dir = 1 => r.out[i].to = SmPort)
      <4>0. r.out # <<>>
        BY <3>5
      <4>1. Told
        BY <2>5, <4>0, Zenon
      <4>2. r.out[i].d = v /\ r.out[i].to = s.port[q].guid
        BY <3>5, <4>1
      <4> QED BY <3>3, <3>4, <4>1, <4>2
    <3> QED BY <3>1, <3>5 DEF LeadsHome, s
  <2>15. LeadsOn(n, r)
    BY <2>12, <2>13 DEF LeadsOn, s
  <2> QED BY <2>13, <2>14, <2>15 DEF Leads, s
<1> QED
  BY <1>3, <1>4

LEMMA GuidedSwitch ==
  ASSUME FabricInv, NEW p \in Guids, SwitchReceive(p), Guided(Now)
  PROVE  Guided(Now')
<1> DEFINE d == Head(up[p])
           b == Taken(p)
           n == Now
           r == receive_packet(sw, d)
           f == FromSwitch(b, r)
<1>1. up[p] # <<>> /\ Now' = f /\ sw.run = "running"
  BY SwitchDoes
<1>2. /\ mode \in Cases /\ n \in Fabric /\ sw \in SwS /\ up \in UpS
      /\ n.hca = hca /\ n.sw = sw /\ n.up = up /\ n.down = down /\ n.log = log
  BY NowFields
<1>3. /\ b \in Fabric /\ b.hca = hca /\ b.sw = sw /\ b.log = log
      /\ b.up = [up EXCEPT ![p] = Tail(up[p])] /\ b.down = down
      /\ d \in Sent /\ d.guid = p
  BY <1>1, TakenType
<1>4. r.sw \in SwS /\ r.out \in Seq(OutRec)
  BY <1>2, <1>3, ReceiveType
<1>5. up[p] \in Seq(Sent) /\ \A k \in Guids : b.up[k] = IF k = p THEN Tail(up[p]) ELSE up[k]
  BY <1>2, <1>3 DEF UpS
<1>6. Has(up[p], d) /\ \A e : Has(Tail(up[p]), e) => Has(up[p], e)
  BY <1>1, <1>5, FewerTail
<1>7. \A k \in Guids : \A e : Has(b.up[k], e) => Has(up[k], e)
  BY <1>5, <1>6
<1>8. Guided(n)
  OBVIOUS
<1> SUFFICES Guided(f)
  BY <1>1
<1> HIDE DEF b, d, n
<1>9. Leads(n, r)
  <2>1. CASE d \in Wire
    BY <1>1, <1>2, <2>1, LeadsData
  <2>2. CASE d \in SmpSent
    BY <1>1, <1>2, <1>3, <1>6, <2>2, LeadsSmp
  <2>3. CASE d \in RawSent
    <3>1. d.cmd \in {"CONNECT", "DISCONNECT"}
      BY <2>3 DEF RawSent, RawRec
    <3> QED BY <1>1, <1>2, <1>3, <1>6, <2>3, <3>1, LeadsConnect, LeadsDisconnect
  <2> QED BY <1>3, <2>1, <2>2, <2>3 DEF Sent
<1> HIDE DEF r
<1>10. /\ f = [b EXCEPT !.sw = r.sw, !.down = f.down, !.up = f.up]
       /\ f.up = IF r.sw.run = "running" THEN b.up ELSE [k \in Guids |-> <<>>]
       /\ \A k \in Guids : Grows(b, r, k, f.down[k])
  BY <1>2, <1>3, <1>4, FromSwitchDoes
<1> HIDE DEF f
<1>11. f.hca = n.hca /\ f.sw = r.sw /\ f.log = n.log
  BY <1>2, <1>3, <1>10 DEF Fabric
<1>12. ASSUME NEW k \in Guids
       PROVE  \A e : Has(f.down[k], e) =>
                \/ Has(n.down[k], e)
                \/ \E i \in 1..Len(r.out) : r.out[i].d = e /\ r.out[i].to = k
  <2> DEFINE new == f.down[k]
  <2>1. Grows(b, r, k, new)
    BY <1>10
  <2> HIDE DEF new
  <2>2. \A e : Has(new, e) =>
          \/ Has(b.down[k], e)
          \/ \E i \in 1..Len(r.out) : r.out[i].d = e /\ Lands(b, r.out[i], k)
    BY <1>2, <1>3, <1>4, <2>1, GrowsHas
  <2>3. \A x : Lands(b, x, k) => x.to = k
    BY DEF Lands
  <2> QED BY <1>2, <1>3, <2>2, <2>3 DEF new
<1>13. /\ r.sw.run = "running" => f.up = b.up
       /\ r.sw.run # "running" => \A k \in Guids : \A e : ~Has(f.up[k], e)
  BY <1>10 DEF Has
<1>14. \A k \in Guids : \A e : Has(f.up[k], e) => Has(n.up[k], e)
  BY <1>2, <1>7, <1>13
<1>15. n.sw.run = "running"
  BY <1>1, <1>2
<1>16. \A k \in Guids : \A e :
         /\ Has(f.up[k], e) => Has(n.up[k], e)
         /\ Has(f.down[k], e) =>
              Has(n.down[k], e) \/ \E i \in 1..Len(r.out) : r.out[i].d = e /\ r.out[i].to = k
  BY <1>12, <1>14
<1>17. r.sw.run # "running" => \A k \in Guids : \A e : ~Has(f.up[k], e)
  BY <1>13
<1>18. Switched(n, r, f)
  BY <1>11, <1>16, <1>17 DEF Switched
<1> QED
  BY <1>8, <1>9, <1>15, <1>18, GuidedLeads

LEMMA NextGuided ==
  ASSUME FabricInv, [Next]_vars, Guided(Now)
  PROVE  Guided(Now')
<1>1. mode \in Cases /\ Now \in Fabric /\ Now.hca = hca
  BY NowFields
<1>2. ASSUME Now' = Now PROVE Guided(Now')
  BY <1>2
<1>3. ASSUME Quiet(Now, Now') PROVE Guided(Now')
  BY <1>3, SteeredQuiet, SteeredGuided
<1>4. CASE UNCHANGED vars
  BY <1>2, <1>4 DEF vars, Now
<1>5. ASSUME NEW h \in Hosts, \/ pib_dev_add(h) \/ pib_dev_remove(h) \/ Crash(h)
                              \/ DeliverMulticast(h) \/ ThreadHangs(h)
                              \/ SchedulerPass(h) \/ process_mad(h)
      PROVE  Guided(Now')
  <2>1. CASE SchedulerPass(h)
    <3> DEFINE pk == hca[h].ready
    <3>1. pk # None /\ Now' = process_sendmsg(Now, h)
      BY <2>1, PassDoes
    <3>2. pk \in Waiting /\ DevOf[pk.port] = h /\ Sends(Now, h, pk, Now')
      BY <1>1, <3>1, SendmsgDoes
    <3>3. Retries(Now, h, Now')
      BY <1>1, <3>2 DEF Retries
    <3> QED BY <1>1, <3>3, GuidedRetries
  <2> QED BY <1>3, <1>5, <2>1, GuidedAdd, GuidedGone, GuidedMulticast, QuietHang, GuidedMad
<1>6. ASSUME NEW p \in Guids, \/ pib_netd_comm_handler(p) \/ HcaReceive(p)
                              \/ SwitchReceive(p) \/ Lose(p)
      PROVE  Guided(Now')
  BY <1>6, GuidedTimer, GuidedReceive, GuidedSwitch, GuidedLose
<1>7. ASSUME NEW m \in Msgs, pib_process_ud_qp_request(m)
      PROVE  Guided(Now')
  BY <1>7, GuidedPost
<1>8. ASSUME NEW q \in QPs, pib_attach_mcast(q) \/ pib_detach_mcast(q) \/ pib_destroy_qp(q)
      PROVE  Guided(Now')
  BY <1>3, <1>8, QuietGroup
<1>9. CASE SmSend
  BY <1>9, GuidedSmSend
<1>10. CASE SmLocal
  <2>1. SubnDone(Now, SmPort, Now')
    BY <1>10, SmLocalDoes
  <2>2. Steered(Now, Now')
    BY <1>1, <2>1, SteeredSubn, NetFacts
  <2> QED BY <2>2, SteeredGuided
<1>11. CASE SmTimeout
  BY <1>3, <1>11, QuietTimeout
<1>12. CASE NetdStart \/ NetdStop
  BY <1>12, GuidedStart, GuidedStop
<1> QED
  BY <1>4, <1>5, <1>6, <1>7, <1>8, <1>9, <1>10, <1>11, <1>12 DEF Next

LEMMA InitGuided ==
  ASSUME Init
  PROVE  Guided(Now)
<1>1. /\ \A h \in Hosts : hca[h].mad = <<>> /\ hca[h].ready = None
      /\ \A p \in Guids : up[p] = <<>> /\ down[p] = <<>>
  <2>1. FreshHca(0).mad = <<>> /\ FreshHca(0).ready = None
    <3>1. mode \in Cases
      BY DEF Init
    <3>2. 0 \in 0..mode.loads
      BY <3>1, ModeFacts
    <3> QED BY <3>1, <3>2, FreshHcaType
  <2>2. /\ hca = [h \in Hosts |-> FreshHca(0)]
        /\ up = [p \in Guids |-> <<>>] /\ down = [p \in Guids |-> <<>>]
    BY DEF Init
  <2> QED BY <2>1, <2>2
<1>2. /\ sw.fwd = [l \in Lids |-> 0] /\ sw.mfwd = {}
      /\ sw.port = [q \in SwPorts |-> FreePort]
      /\ sw.easy \/ sw.run # "running"
  BY DEF Init, init_switch, pib_create_switch
<1>3. /\ Now.hca = hca /\ Now.up = up /\ Now.down = down /\ Now.sw = sw
  BY DEF Now
<1>4. \A p \in Guids : \A d : ~Has(up[p], d) /\ ~Has(down[p], d)
  BY <1>1 DEF Has
<1>5. \A h \in Hosts : \A d : ~Holds(hca[h], d)
  <2>1. None.src # "QP0"
    BY DEF None
  <2> QED BY <1>1, <2>1 DEF Holds
<1>6. \A x : ~Marked(Now, x)
  BY <1>3, <1>4, <1>5 DEF Marked, Around
<1>7. \A q \in SwPorts : ~Used(Now, q) /\ sw.port[q].guid = 0
  <2>1. 0 \notin SwPorts
    BY LidFacts DEF SwPorts
  <2>2. \A l \in Lids : sw.fwd[l] = 0
    BY <1>2
  <2>3. \A q \in SwPorts : sw.port[q].guid = 0
    BY <1>2 DEF FreePort
  <2> QED BY <1>2, <1>3, <1>4, <1>6, <2>1, <2>2, <2>3 DEF Used
<1>8. Homeward(Now)
  <2>1. SmPort \in Guids
    BY NetFacts
  <2> QED BY <1>2, <1>3, <1>4, <1>6, <1>7, <2>1 DEF Homeward
<1>9. Survives(Now)
  BY <1>2, <1>3, <1>4, <1>7 DEF Survives
<1> QED
  BY <1>8, <1>9 DEF Guided

LEMMA SpecGuided == Spec => [](FabricInv /\ Guided(Now))
<1>1. Init => Guided(Now)
  BY InitGuided
<1>2. FabricInv /\ Guided(Now) /\ [Next]_vars => Guided(Now)'
  <2> SUFFICES ASSUME FabricInv, Guided(Now), [Next]_vars
               PROVE  Guided(Now)'
    OBVIOUS
  <2>1. mode' = mode
    BY NextFabric
  <2>2. Guided(Now')
    BY NextGuided
  <2> QED BY <2>1, <2>2 DEF Guided, Steady, Homeward, Survives, Marked, Around, Holds,
                          Routed, OfSm, Used, Needs, Has, SwPorts, Lids
<1> QED
  BY <1>1, <1>2, SpecFabric, PTL DEF Spec

(* DirectedRouteReturns wherever the subnet manager keeps its switch port, *)
(* that is when pibnetd is started once and the device of the subnet       *)
(* manager is not unloaded (Steady): the return path process_mad_packet    *)
(* writes into an SMP names the port its request came in by, and that port *)
(* stays the one of the subnet manager however many other nodes connect,   *)
(* disconnect or crash while the SMP is under way.  A second pibnetd hands *)
(* out its ports anew, and an old return path may then lead elsewhere.     *)
THEOREM ReturnsHome == Spec => [](Steady => DirectedRouteReturns)
<1>1. FabricInv /\ Guided(Now) => (Steady => DirectedRouteReturns)
  <2> SUFFICES ASSUME FabricInv, Homeward(Now), NEW p \in Guids, NEW i \in DOMAIN down[p],
                      down[p][i].t = "smp", down[p][i].cls = "dr", down[p][i].dir = 1
               PROVE  down[p][i].via = down[p][i].in0 /\ p = SmPort
    BY DEF Guided, DirectedRouteReturns
  <2> DEFINE s == down[p]
             d == s[i]
  <2>1. down \in DownS /\ Now.down = down
    BY NowFields
  <2>2. s \in Seq(Came) /\ i \in DOMAIN s
    BY <2>1 DEF DownS
  <2>3. d \in Came /\ Has(s, d)
    <3> HIDE DEF s
    <3> QED BY <2>2 DEF Has
  <2>4. Has(Now.down[p], d) /\ Routed(d) /\ d.dir = 1
    BY <2>1, <2>3 DEF Routed
  <2> HIDE DEF d
  <2>5. p = SmPort
    BY <2>4 DEF Homeward
  <2>6. d \in SmpCame
    BY <2>3, <2>4 DEF Came, RawCame, RawRec, Wire, Data, DataRec, Routed
  <2>7. d.via = d.in0
    BY <2>4, <2>6 DEF SmpCame, AtPort, Returned, Notice, Routed
  <2> QED BY <2>5, <2>7 DEF d
<1> QED
  BY <1>1, SpecGuided, PTL

(* RoutesAreLive for every fabric: what the forwarding tables name and     *)
(* what a table under way to the switch names has an address until a       *)
(* device is removed, because the subnet manager reads it from the ports   *)
(* in use, a CONNECT only ever fills a port (link_connect), no DISCONNECT  *)
(* is under way, and a pibnetd that starts again finds no request of       *)
(* before.  The switch may still end for other reasons; its tables then    *)
(* stay as they were.                                                      *)
THEOREM RoutesStayLive == Spec => []RoutesAreLive
<1>1. FabricInv /\ Guided(Now) => RoutesAreLive
  <2> SUFFICES ASSUME FabricInv, Survives(Now), ~log.freed, NEW q \in SwPorts,
                      q \in sw.mfwd \/ \E l \in Lids : sw.fwd[l] = q
               PROVE  sw.port[q].addr # 0
    BY DEF Guided, RoutesAreLive
  <2>1. Now.sw = sw /\ Now.log = log
    BY NowFields
  <2>2. Used(Now, q)
    BY <2>1 DEF Used
  <2> QED BY <2>1, <2>2 DEF Survives
<1> QED
  BY <1>1, SpecGuided, PTL
=============================================================================
