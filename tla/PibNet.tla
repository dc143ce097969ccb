-------------------------------- MODULE PibNet --------------------------------
(***************************************************************************)
(* The fabric: the ports of several devices (pib_thread.c, pib_main.c),    *)
(* their subnet management agents (pib_mad.c), multicast groups            *)
(* (pib_multicast.c) and the switch between them (PibSwitch), in           *)
(* multi-host-mode with pibnetd or in single-host-mode with the easy       *)
(* switch.                                                                 *)
(*                                                                         *)
(* Ports exchange UDP datagrams with the switch: up[p] is what port p sent *)
(* and the switch has not received, down[p] the receive buffer of p's      *)
(* socket.  A queue keeps its order, drops what does not fit, and loses    *)
(* what is under way when the socket at its end is closed.  Every handler  *)
(* is an operator from the state "n" of the network to the next.           *)
(***************************************************************************)
EXTENDS PibSwitch

CONSTANTS
  Hosts,      \* the devices, one on each host in multi-host-mode
  DevOf,      \* the device of each port
  QPs,        \* UD queue pairs
  QpPort,     \* the port each of them was moved to INIT with
  QpNum,      \* its number, which is unique on its device only
  Msgs,       \* UD messages, each posted once
  MsgFrom,    \* the queue pair that sends it
  MsgDlid,    \* its destination LID
  MsgQpn,     \* and queue pair number
  SmPort,     \* the port the subnet manager runs on
  Cases       \* the modes, workloads, bounds and budgets of faults to check

(* The steps of a script of the subnet manager; a state of 0 is no change. *)
ScriptSteps ==
  [kind : {"switch", "lft", "mft"}]
    \cup [kind : {"port"}, port : Guids, state : 0..4]
    \cup [kind : {"pkey"}, port : Guids]

ASSUME NetAssumption ==
  /\ DevOf \in [Guids -> Hosts] /\ SmPort \in Guids
  /\ QpPort \in [QPs -> Guids]
  /\ \A q, k \in QPs : QpNum[q] = QpNum[k] /\ DevOf[QpPort[q]] = DevOf[QpPort[k]]
                         => q = k
  /\ MsgFrom \in [Msgs -> QPs] /\ MsgDlid \in [Msgs -> {0, Mlid} \cup Lids]
  /\ MadClass \in [Msgs -> {"perf", "other"}]
  /\ \A m \in Msgs : MsgQpn[m] = PIB_MULTICAST_QPN => MsgDlid[m] = Mlid
  /\ \A c \in Cases :
       /\ c.multi \in BOOLEAN
       /\ {c.loads, c.netd, c.faults, c.sweeps, c.room} \subseteq Nat
       /\ c.members \subseteq QPs /\ c.script \in Seq(ScriptSteps)

VARIABLES
  mode,   \* the case
  hca,    \* each struct pib_dev: its thread, and what its ports share
  port,   \* each struct pib_port
  sw,     \* the switch
  up, down,
  lid_table,  \* pib_lid_table of single-host-mode: the port of each LID, or 0
  sm,     \* the subnet manager (external)
  log     \* history: messages posted, transmissions, deliveries, faults

vars == <<mode, hca, port, sw, up, down, lid_table, sm, log>>

(* enum ib_port_state *)
IB_PORT_DOWN == 1
IB_PORT_INIT == 2
IB_PORT_ARMED == 3
IB_PORT_ACTIVE == 4

None == [src |-> "none"]
Now == [hca |-> hca, port |-> port, sw |-> sw, up |-> up, down |-> down,
        lids |-> lid_table, log |-> log]
Becomes(next) ==
  \E n \in {next} :
    /\ hca' = n.hca /\ port' = n.port /\ sw' = n.sw /\ up' = n.up
    /\ down' = n.down /\ lid_table' = n.lids /\ log' = n.log

PortsOf(h) == {p \in Guids : DevOf[p] = h}

-----------------------------------------------------------------------------
(* Sockets (external) *)

Enqueue(queue, d) == IF Len(queue) < mode.room THEN Append(queue, d) ELSE queue

(* To the switch, if it runs. *)
ToSwitch(n, p, d) ==
  IF n.sw.run # "running" THEN n ELSE [n EXCEPT !.up[p] = Enqueue(@, d)]

(* To the socket of a port on the same host. *)
ToPort(n, p, d) ==
  IF ~n.hca[DevOf[p]].up THEN n ELSE [n EXCEPT !.down[p] = Enqueue(@, d)]

(* What the switch leaves and sends.  A datagram for a socket that was     *)
(* closed since is lost, and so is what waits at a switch that exits.      *)
FromSwitch(n, r) ==
  LET Reaches(x) == n.hca[DevOf[x.to]].up /\ x.addr = n.hca[DevOf[x.to]].boot
      Room(k) == mode.room - Len(n.down[k])
      Mine(k) == {i \in DOMAIN r.out : r.out[i].to = k /\ Reaches(r.out[i])}
      Kept(k) == Min({Room(k), Cardinality(Mine(k))})
  IN [n EXCEPT
       !.sw = r.sw,
       !.down = [k \in Guids |->
                   @[k] \o [i \in 1..Kept(k) |-> r.out[Nth(Mine(k), i)].d]],
       !.up = IF r.sw.run = "running" THEN @ ELSE [k \in Guids |-> <<>>]]

-----------------------------------------------------------------------------
(* Sending *)

(* get_sockaddr_from_dlid, and the sendmsg that uses it *)
SendTo(n, pk) ==
  LET p == pk.port
      near == pk.src = "UD" /\ pib_is_unicast_lid(pk.d.dlid)
  IN IF mode.multi THEN ToSwitch(n, p, pk.d)
     ELSE IF near /\ pk.d.dlid = n.port[p].lid THEN ToPort(n, p, pk.d)
     ELSE IF near /\ n.lids[pk.d.dlid] # 0
     THEN ToPort(n, n.lids[pk.d.dlid], pk.d)
     ELSE ToSwitch(n, p, pk.d)

(* process_sendmsg puts the packet on the wire, and back to its own socket *)
(* if it is for a multicast group.                                         *)
Transmit(n, pk) ==
  LET s == SendTo(n, pk)
      l == IF pk.src = "UD" /\ ~pib_is_unicast_lid(pk.d.dlid)
           THEN ToPort(s, pk.port, pk.d) ELSE s
  IN IF pk.src # "UD" THEN l ELSE [l EXCEPT !.log.sent[pk.d.m] = @ + 1]

(* The link layer of a port that is not active takes few packets. *)
LinkTakes(state, src) ==
  \/ src = "LINK"
  \/ src = "QP0" /\ state # IB_PORT_DOWN
  \/ src = "UD" /\ state = IB_PORT_ACTIVE

(* Mutant: a UD packet stays in the buffer after it was sent. *)
SendAndKeep(n, h) ==
  LET pk == n.hca[h].ready
      left == IF pk.src = "UD" THEN pk ELSE None
  IN IF ~LinkTakes(n.port[pk.port].state, pk.src) THEN n
     ELSE Transmit([n EXCEPT !.hca[h].ready = left], pk)

(* process_sendmsg.  A packet the link layer does not take stays ready. *)
process_sendmsg(n, h) ==
  LET pk == n.hca[h].ready
      done == [n EXCEPT !.hca[h].ready = None]
  IN IF pk.src = "UD" /\ (pk.d.slid = 0 \/ pk.d.dlid = 0) THEN done
     ELSE IF ~LinkTakes(n.port[pk.port].state, pk.src) THEN n
     ELSE Transmit(done, pk)

(* A packet is built in the one buffer of the thread and sent from there.  *)
BuildAndSend(n, h, p, src, d) ==
  process_sendmsg([n EXCEPT !.hca[h].ready =
                     [src |-> src, port |-> p, d |-> d]], h)

(* send_raw_packet_to_pibnetd *)
send_raw_packet_to_pibnetd(n, p, cmd) ==
  BuildAndSend(n, DevOf[p], p, "LINK",
               [t |-> "raw", cmd |-> cmd, guid |-> p,
                addr |-> n.hca[DevOf[p]].boot, boot |-> 0, via |-> 0])

(* Mutant: the timer is set by the first connection only. *)
ConnectOnce(n, p) ==
  [send_raw_packet_to_pibnetd(n, p, "CONNECT") EXCEPT
     !.port[p].work = n.port[p].lid # 0]

(* connect_pibnetd *)
connect_pibnetd(n, p) ==
  [send_raw_packet_to_pibnetd(n, p, "CONNECT") EXCEPT !.port[p].work = TRUE]

(* disconnect_pibnetd *)
disconnect_pibnetd(n, p) ==
  [send_raw_packet_to_pibnetd(n, p, "DISCONNECT") EXCEPT
     !.port[p].connected = FALSE, !.port[p].state = IB_PORT_DOWN]

-----------------------------------------------------------------------------
(* Receiving *)

(* process_raw_packet of the driver; "ack" remembers which run of pibnetd  *)
(* answered.                                                               *)
process_raw_packet_hca(n, p, d) ==
  IF d.cmd = "CONNECT_ACK"
  THEN [n EXCEPT !.port[p].connected = TRUE, !.port[p].state = IB_PORT_INIT,
                 !.port[p].ack = d.boot]
  ELSE [n EXCEPT !.port[p].connected = FALSE, !.port[p].state = IB_PORT_DOWN]

(* pib_util_find_qp *)
pib_util_find_qp(n, h, qpn) ==
  {q \in n.hca[h].qps : QpNum[q] = qpn}

(* Mutant: a UD queue pair takes packets from every port of the device. *)
AnyPort(n, p, q, d) == [n EXCEPT !.log.got[d.m][q] = @ + 1]

(* pib_receive_ud_qp_incoming_message *)
pib_receive_ud_qp(n, p, q, d) ==
  IF QpPort[q] # p THEN n ELSE [n EXCEPT !.log.got[d.m][q] = @ + 1]

(* Mutant: the DLID of an incoming packet is not compared. *)
AnyDlid(n, p, d) == TRUE

(* The check of the port's LID against the packet's. *)
DlidMatches(n, p, d) ==
  ~pib_is_unicast_lid(d.dlid) \/ d.dlid = n.port[p].lid

(* spin_lock and spin_unlock of dev->lock *)
Lock(n, h) == [n EXCEPT !.hca[h].lock = "held"]
Unlock(n, h) == [n EXCEPT !.hca[h].lock = "free"]

(* What follows in the thread once a packet was taken: a packet left in    *)
(* the send buffer is tried again.                                         *)
Retry(n, h) == IF n.hca[h].ready = None THEN n ELSE process_sendmsg(n, h)

(* Mutant: a packet for a LID the port does not have keeps the lock. *)
LeakyDrop(n, h, p, qpn, d) ==
  IF DlidMatches(n, p, d) THEN n ELSE Lock(n, h)

(* process_incoming_message_per_qp for a UD queue pair.  The packet with a *)
(* wrong P_Key is dropped without releasing dev->lock.                     *)
process_incoming_message_per_qp(n, h, p, qpn, d) ==
  LET l == Lock(n, h)
      qs == pib_util_find_qp(l, h, qpn)
  IN IF qs = {} THEN Unlock(l, h)
     ELSE IF ~DlidMatches(l, p, d) THEN Unlock(l, h)
     ELSE IF l.port[p].pkey # d.pkey
     THEN [l EXCEPT !.port[p].bad_pkey_cntr = 1]
     ELSE Retry(pib_receive_ud_qp(Unlock(l, h), p, CHOOSE q \in qs : TRUE, d), h)

(* The same for QP0: the SMP waits for the agent. *)
ReceiveSmp(n, h, p, d) ==
  LET l == Lock(n, h)
      r == [Unlock(l, h) EXCEPT !.hca[h].mad = Enqueue(@, [port |-> p, d |-> d])]
  IN IF ~pib_is_permissive_lid(d.dlid) /\ d.dlid # l.port[p].lid THEN Unlock(l, h)
     ELSE Retry(r, h)

(* The multicast half of process_incoming_message copies the members of    *)
(* the group and the LID of the port, and only then delivers, one at a     *)
(* time.  The queue pair that sent the packet does not get it.             *)
Snapshot(n, h, p, d) ==
  LET l == Lock(n, h)
      copy == [src |-> "mc", port |-> p, d |-> d,
               qpns |-> {QpNum[q] : q \in l.hca[h].mcast}
                          \ IF l.port[p].lid = d.slid THEN {d.sqpn} ELSE {}]
  IN Unlock([l EXCEPT !.hca[h].mc = copy], h)

(* process_incoming_message *)
process_incoming_message(n, h, p, d) ==
  IF d.t = "raw" THEN process_raw_packet_hca(n, p, d)
  ELSE IF n.port[p].state = IB_PORT_DOWN THEN n
  ELSE IF d.t = "smp" THEN ReceiveSmp(n, h, p, d)
  ELSE IF n.port[p].state # IB_PORT_ACTIVE THEN n
  ELSE IF pib_is_unicast_lid(d.dlid)
  THEN process_incoming_message_per_qp(n, h, p, d.dqpn, d)
  ELSE Snapshot(n, h, p, d)

-----------------------------------------------------------------------------
(* Subnet management agent *)

(* pib_subn_set_portinfo on a port record; a state of 0 is no change. *)
pib_subn_set_portinfo(r, op) ==
  [r EXCEPT !.lid = op.lid, !.state = IF op.state = 0 THEN @ ELSE op.state]

(* subn_set_portinfo of the driver *)
subn_set_portinfo(n, p, op) ==
  LET old == n.port[p].lid
      r == pib_subn_set_portinfo(n.port[p], op)
      table == [l \in DOMAIN n.lids |->
                  IF old = op.lid THEN n.lids[l]
                  ELSE IF l = op.lid THEN p ELSE IF l = old THEN 0 ELSE n.lids[l]]
  IN [n EXCEPT !.port[p] = IF r.connected
                           THEN [r EXCEPT !.state = Max({r.state, IB_PORT_INIT})]
                           ELSE r,
               !.lids = IF mode.multi THEN @ ELSE table,
               !.log.misled = @ \/ op.lid # Lid[p]]

(* subn_set_pkey_table *)
subn_set_pkey_table(n, p, op) == [n EXCEPT !.port[p].pkey = op.pkey]

(* process_subn *)
process_subn(n, p, op) ==
  CASE op.attr = "PortInfo" -> subn_set_portinfo(n, p, op)
    [] op.attr = "PKeyTable" -> subn_set_pkey_table(n, p, op)
    [] OTHER -> n

-----------------------------------------------------------------------------
(* The subnet manager (external): one request at a time, down the script,  *)
(* with the topology as it is at that moment.                              *)

SmIdle == ~sm.wait /\ sm.next <= Len(mode.script)
SmStep == mode.script[sm.next]
Remote(step) == step.kind \in {"port", "pkey"}

SmOp(step) ==
  CASE step.kind = "switch" -> [attr |-> "PortInfo", lid |-> SwLid,
                                sm_lid |-> Lid[SmPort], state |-> 0]
    [] step.kind = "lft" ->
         [attr |-> "LinearForwardTable",
          table |-> [l \in Lids |->
                       IF \E g \in Guids : Lid[g] = l
                       THEN detect_in_port(sw, CHOOSE g \in Guids : Lid[g] = l)
                       ELSE 0]]
    [] step.kind = "mft" ->
         [attr |-> "McastForwardTable",
          ports |-> {q \in SwPorts : sw.port[q].guid # 0}]
    [] step.kind = "port" -> [attr |-> "PortInfo", lid |-> Lid[step.port],
                              sm_lid |-> Lid[SmPort], state |-> step.state]
    [] step.kind = "pkey" -> [attr |-> "PKeyTable", pkey |-> 1]

(* The port of the switch on the way to p, 0 if the subnet manager sees    *)
(* none: pibnetd reports a port up when its node connects, the easy switch *)
(* has all its ports up from the start.                                    *)
Towards(p) ==
  IF sw.easy /\ p \in SwPorts THEN p ELSE detect_in_port(sw, p)

(* A directed-route request as it leaves the port of the subnet manager. *)
Request(step) ==
  [t |-> "smp", cls |-> "dr", dir |-> 0, hop |-> 1,
   cnt |-> IF Remote(step) THEN 2 ELSE 1,
   out |-> IF Remote(step) THEN Towards(step.port) ELSE 0,
   ret |-> 0, slid |-> PIB_LID_PERMISSIVE, dlid |-> PIB_LID_PERMISSIVE,
   op |-> SmOp(step), tid |-> sm.next, guid |-> SmPort, in0 |-> 0, via |-> 0]

-----------------------------------------------------------------------------
(* Steps *)

FreshPort ==
  [state |-> IF mode.multi THEN IB_PORT_DOWN ELSE IB_PORT_INIT,
   connected |-> ~mode.multi, lid |-> 0, work |-> FALSE, pkey |-> 0,
   bad_pkey_cntr |-> 0, ack |-> 0]

FreshHca(boot) ==
  [up |-> boot > 0, boot |-> boot, lock |-> "free", ready |-> None,
   mad |-> <<>>, mc |-> None, mcast |-> {}, qps |-> {}]

(* The thread of h is running and between two packets. *)
Idle(h) == hca[h].up /\ hca[h].lock = "free" /\ hca[h].mc = None

(* The sockets of a device are closed with what they hold. *)
Closed(n, h) ==
  [n EXCEPT !.down = [p \in Guids |-> IF DevOf[p] = h THEN <<>> ELSE @[p]],
            !.hca[h] = [FreshHca(0) EXCEPT !.boot = n.hca[h].boot]]

(* The port of the easy switch that belongs to p, when the thread starts   *)
(* and when it ends.                                                       *)
to_udp_port(n, p) == [n EXCEPT !.sw.port[p] =
                        [guid |-> p, addr |-> n.hca[DevOf[p]].boot]]
no_udp_port(n, p) == [n EXCEPT !.sw.port[p] = FreePort]

(* What kthread_routine does for each port before and after its loop, one  *)
(* port after the other.  They share the send buffer only, which is empty  *)
(* again after each of them, so that every port finds what it would find   *)
(* alone.                                                                  *)
EachPort(n, h, at) ==
  [n EXCEPT !.port = [p \in Guids |-> IF DevOf[p] = h THEN at[p].port[p] ELSE @[p]],
            !.up = [p \in Guids |-> IF DevOf[p] = h THEN at[p].up[p] ELSE @[p]],
            !.sw.port = [q \in SwPorts |-> IF q \in PortsOf(h)
                                           THEN at[q].sw.port[q] ELSE @[q]]]
PortsUp(n, h) ==
  EachPort(n, h, [p \in PortsOf(h) |->
    IF mode.multi THEN connect_pibnetd(n, p) ELSE to_udp_port(n, p)])
PortsDown(n, h) ==
  EachPort(n, h, [p \in PortsOf(h) |->
    IF mode.multi THEN disconnect_pibnetd(n, p) ELSE no_udp_port(n, p)])

(* pib_dev_add with init_port and the start of kthread_routine; the        *)
(* applications of the host create their queue pairs.                      *)
pib_dev_add(h) ==
  LET boot == hca[h].boot + 1
      n == [Now EXCEPT
              !.hca[h] = [FreshHca(boot) EXCEPT
                            !.qps = {q \in QPs : DevOf[QpPort[q]] = h},
                            !.mcast = {q \in mode.members : DevOf[QpPort[q]] = h}],
              !.port = [p \in Guids |-> IF DevOf[p] = h THEN FreshPort ELSE @[p]]]
  IN /\ h \in mode.hosts /\ ~hca[h].up /\ hca[h].boot < mode.loads
     /\ Becomes(PortsUp(n, h))
     /\ UNCHANGED <<mode, sm>>

(* pib_dev_remove: kthread_routine ends with a DISCONNECT for each port. *)
pib_dev_remove(h) ==
  /\ Idle(h) /\ h \in mode.unload
  /\ Becomes([Closed(PortsDown(Now, h), h) EXCEPT
                       !.log.freed = TRUE,
                       !.port = [p \in Guids |->
                                   IF DevOf[p] = h THEN FreshPort ELSE @[p]]])
  /\ UNCHANGED <<mode, sm>>

(* The host is shut down abnormally (external). *)
Crash(h) ==
  /\ mode.multi /\ hca[h].up /\ h \in mode.crash
  /\ Becomes([Closed(Now, h) EXCEPT
                !.port = [p \in Guids |->
                            IF DevOf[p] = h THEN FreshPort ELSE @[p]]])
  /\ UNCHANGED <<mode, sm>>

(* pib_netd_comm_handler, 60 seconds after connect_pibnetd.  While a       *)
(* datagram of the port is still on its way it counts as a fault.          *)
pib_netd_comm_handler(p) ==
  LET early == up[p] \o down[p] # <<>>
      n == [Now EXCEPT !.port[p].work = FALSE,
                       !.log.faults = IF early THEN @ + 1 ELSE @]
  IN /\ Idle(DevOf[p]) /\ port[p].work
     /\ early => log.faults < mode.faults
     /\ Becomes(IF port[p].state = IB_PORT_DOWN THEN connect_pibnetd(n, p) ELSE n)
     /\ UNCHANGED <<mode, sm>>

(* receive_packet of the driver and process_incoming_message *)
HcaReceive(p) ==
  LET h == DevOf[p]
      d == Head(down[p])
  IN /\ hca[h].up /\ hca[h].mc = None /\ down[p] # <<>>
     /\ hca[h].lock = "free" \/ (hca[h].lock = "held" /\ d.t = "raw")
     /\ Becomes(process_incoming_message(
                  [Now EXCEPT !.down[p] = Tail(@)], h, p, d))
     /\ UNCHANGED <<mode, sm>>

(* The loop of process_incoming_message over the members it copied *)
DeliverMulticast(h) ==
  LET mc == hca[h].mc
  IN /\ mc # None /\ hca[h].lock = "free"
     /\ IF mc.qpns = {}
        THEN Becomes([Now EXCEPT !.hca[h].mc = None])
        ELSE \E qpn \in mc.qpns :
               Becomes(process_incoming_message_per_qp(
                 [Now EXCEPT !.hca[h].mc.qpns = @ \ {qpn}], h, mc.port, qpn, mc.d))
     /\ UNCHANGED <<mode, sm>>

(* Whoever takes a lock that was not released never gets it. *)
ThreadHangs(h) ==
  /\ hca[h].lock = "held"
  /\ Becomes([Now EXCEPT !.hca[h].lock = "hung"])
  /\ UNCHANGED <<mode, sm>>

(* process_on_qp_scheduler with a UD message: pib_process_ud_qp_request *)
pib_process_ud_qp_request(m) ==
  LET q == MsgFrom[m]
      p == QpPort[q]
      h == DevOf[p]
  IN /\ Idle(h) /\ q \in hca[h].qps /\ m \in mode.msgs \ log.posted
     /\ Becomes(BuildAndSend([Now EXCEPT !.log.posted = @ \cup {m}], h, p, "UD",
                  [t |-> "data", m |-> m, guid |-> p, slid |-> port[p].lid,
                   dlid |-> MsgDlid[m], dqpn |-> MsgQpn[m], sqpn |-> QpNum[q],
                   pkey |-> port[p].pkey, via |-> 0]))
     /\ UNCHANGED <<mode, sm>>

(* process_on_qp_scheduler with a queue pair that has nothing to send *)
SchedulerPass(h) ==
  /\ Idle(h) /\ hca[h].ready # None
  /\ Becomes(process_sendmsg(Now, h))
  /\ UNCHANGED <<mode, sm>>

(* pib_attach_mcast, for the one group of the model: the limit on the      *)
(* groups of a queue pair, PIB_MCAST_QP_ATTACH, is not reached.            *)
pib_attach_mcast(q) ==
  LET h == DevOf[QpPort[q]]
  IN /\ hca[h].up /\ hca[h].lock = "free" /\ q \in hca[h].qps \cap mode.churn
     /\ q \notin hca[h].mcast
     /\ Becomes([Now EXCEPT !.hca[h].mcast = @ \cup {q}])
     /\ UNCHANGED <<mode, sm>>

(* pib_detach_mcast, and pib_detach_all_mcast at the start of              *)
(* pib_destroy_qp, which is a critical section of its own.                 *)
pib_detach_mcast(q) ==
  LET h == DevOf[QpPort[q]]
  IN /\ hca[h].up /\ hca[h].lock = "free" /\ q \in hca[h].mcast \cap mode.churn
     /\ Becomes([Now EXCEPT !.hca[h].mcast = @ \ {q}])
     /\ UNCHANGED <<mode, sm>>

(* Mutant: a queue pair is destroyed while it is attached. *)
DestroyAttached(q) ==
  LET h == DevOf[QpPort[q]]
  IN /\ hca[h].up /\ hca[h].lock = "free" /\ q \in hca[h].qps \cap mode.churn
     /\ Becomes([Now EXCEPT !.hca[h].qps = @ \ {q}])
     /\ UNCHANGED <<mode, sm>>

(* pib_destroy_qp, after pib_detach_all_mcast *)
pib_destroy_qp(q) ==
  LET h == DevOf[QpPort[q]]
  IN /\ hca[h].up /\ hca[h].lock = "free" /\ q \in hca[h].qps \cap mode.churn
     /\ q \notin hca[h].mcast
     /\ Becomes([Now EXCEPT !.hca[h].qps = @ \ {q}])
     /\ UNCHANGED <<mode, sm>>

(* process_mad on the oldest SMP, called by the kernel's MAD layer, which  *)
(* posts the answer on QP0.  At the port of the subnet manager an answer   *)
(* ends its request and a trap starts another sweep.                       *)
process_mad(h) ==
  LET p == Head(hca[h].mad).port
      d == Head(hca[h].mad).d
      n == [Now EXCEPT !.hca[h].mad = Tail(@)]
      answers == d.dir = 1 /\ p = SmPort /\ sm.wait /\ d.tid = sm.next
      resweep == p = SmPort /\ d.op.attr = "Trap" /\ sm.sweeps > 0
  IN /\ Idle(h) /\ hca[h].mad # <<>>
     /\ Becomes(IF d.dir = 1 THEN n
                ELSE IF d.op.attr = "Trap"
                THEN BuildAndSend(n, h, p, "QP0",
                       [d EXCEPT !.slid = port[p].lid, !.dlid = d.slid, !.guid = p,
                                 !.op = [attr |-> "TrapRepress"]])
                ELSE BuildAndSend(process_subn(n, p, d.op), h, p, "QP0",
                       [d EXCEPT !.dir = 1, !.guid = p]))
     /\ sm' = IF answers THEN [sm EXCEPT !.wait = FALSE, !.next = @ + 1]
              ELSE IF resweep
              THEN [wait |-> FALSE, next |-> 1, sweeps |-> sm.sweeps - 1]
              ELSE sm
     /\ UNCHANGED mode

(* The next step of the script, for the switch or for another port. *)
SmSend ==
  LET step == SmStep
      reached == Remote(step) => Towards(step.port) # 0
  IN /\ SmIdle /\ Idle(DevOf[SmPort]) /\ port[SmPort].state # IB_PORT_DOWN
     /\ Remote(step) => step.port # SmPort
     /\ IF reached
        THEN /\ Becomes(BuildAndSend(Now, DevOf[SmPort], SmPort, "QP0", Request(step)))
             /\ sm' = [sm EXCEPT !.wait = TRUE]
        ELSE /\ sm' = [sm EXCEPT !.next = @ + 1]
             /\ UNCHANGED <<hca, port, sw, up, down, lid_table, log>>
     /\ UNCHANGED mode

(* The next step of the script, for the port of the subnet manager. *)
SmLocal ==
  LET step == SmStep
  IN /\ SmIdle /\ Idle(DevOf[SmPort]) /\ port[SmPort].state # IB_PORT_DOWN
     /\ Remote(step) /\ step.port = SmPort
     /\ Becomes(process_subn(Now, SmPort, SmOp(step)))
     /\ sm' = [sm EXCEPT !.next = @ + 1]
     /\ UNCHANGED mode

(* The request, or its answer, is still on its way. *)
OnItsWay ==
  LET Is(d) == d.t = "smp" /\ d.tid = sm.next
  IN \/ \E p \in Guids : \E queue \in {up[p], down[p]} :
          \E i \in DOMAIN queue : Is(queue[i])
     \/ \E h \in Hosts : \/ \E i \in DOMAIN hca[h].mad : Is(hca[h].mad[i].d)
                         \/ hca[h].ready.src = "QP0" /\ Is(hca[h].ready.d)

(* A request that is not answered in time is given up; early, it counts as *)
(* a fault.                                                                *)
SmTimeout ==
  /\ sm.wait /\ hca[DevOf[SmPort]].up
  /\ OnItsWay => log.faults < mode.faults
  /\ sm' = [sm EXCEPT !.wait = FALSE, !.next = @ + 1]
  /\ log' = IF OnItsWay THEN [log EXCEPT !.faults = @ + 1] ELSE log
  /\ UNCHANGED <<mode, hca, port, sw, up, down, lid_table>>

(* do_work of pibnetd, kthread_routine of the easy switch *)
SwitchReceive(p) ==
  /\ sw.run = "running" /\ up[p] # <<>>
  /\ Becomes(FromSwitch([Now EXCEPT !.up[p] = Tail(@)],
                        receive_packet(sw, Head(up[p]))))
  /\ UNCHANGED <<mode, sm>>

(* pibnetd is started, for the first time or again; its init script stops  *)
(* it (external).                                                          *)
NetdStart ==
  /\ mode.multi /\ sw.run # "running" /\ sw.boot < mode.netd
  /\ Becomes([Now EXCEPT !.sw = init_switch(sw.boot + 1)])
  /\ UNCHANGED <<mode, sm>>

NetdStop ==
  /\ mode.multi /\ sw.run = "running" /\ sw.boot < mode.netd
  /\ Becomes([Now EXCEPT !.sw.run = "stopped", !.up = [p \in Guids |-> <<>>]])
  /\ UNCHANGED <<mode, sm>>

(* UDP loses a datagram (external). *)
Lose(p) ==
  /\ log.faults < mode.faults
  /\ \/ up[p] # <<>> /\ up' = [up EXCEPT ![p] = Tail(@)] /\ UNCHANGED down
     \/ down[p] # <<>> /\ down' = [down EXCEPT ![p] = Tail(@)] /\ UNCHANGED up
  /\ log' = [log EXCEPT !.faults = @ + 1]
  /\ UNCHANGED <<mode, hca, port, sw, lid_table, sm>>

Init ==
  /\ mode \in Cases
  /\ hca = [h \in Hosts |-> FreshHca(0)]
  /\ port = [p \in Guids |-> FreshPort]
  /\ sw = IF mode.multi THEN [init_switch(0) EXCEPT !.run = "stopped"]
          ELSE pib_create_switch
  /\ up = [p \in Guids |-> <<>>] /\ down = [p \in Guids |-> <<>>]
  /\ lid_table = [l \in Lids |-> 0]
  /\ sm = [wait |-> FALSE, next |-> 1, sweeps |-> mode.sweeps]
  /\ log = [posted |-> {}, sent |-> [m \in Msgs |-> 0], faults |-> 0,
            freed |-> FALSE, misled |-> FALSE, got |-> [m \in Msgs |-> [q \in QPs |-> 0]]]

Next ==
  \/ \E h \in Hosts : \/ pib_dev_add(h) \/ pib_dev_remove(h) \/ Crash(h)
                      \/ DeliverMulticast(h) \/ ThreadHangs(h)
                      \/ SchedulerPass(h) \/ process_mad(h)
  \/ \E p \in Guids : \/ pib_netd_comm_handler(p) \/ HcaReceive(p)
                      \/ SwitchReceive(p) \/ Lose(p)
  \/ \E m \in Msgs : pib_process_ud_qp_request(m)
  \/ \E q \in QPs : pib_attach_mcast(q) \/ pib_detach_mcast(q) \/ pib_destroy_qp(q)
  \/ SmSend \/ SmLocal \/ SmTimeout \/ NetdStart \/ NetdStop

Spec == Init /\ [][Next]_vars

(* Threads run, timers expire and pibnetd reads its socket.  Nothing is    *)
(* assumed of hosts, applications or the operator.  Fairness is stated for *)
(* the cases without a subnet manager, the ones LinkComesUp is about.      *)
LinkOnly == mode.script = <<>>

Fairness ==
  /\ \A p \in Guids : /\ WF_vars(LinkOnly /\ SwitchReceive(p))
                      /\ WF_vars(LinkOnly /\ HcaReceive(p))
                      /\ WF_vars(LinkOnly /\ pib_netd_comm_handler(p))

FairSpec == Spec /\ Fairness

-----------------------------------------------------------------------------
(* Properties *)

(* The script changes a P_Key table. *)
Rekeyed == \E i \in DOMAIN mode.script : mode.script[i].kind = "pkey"

RawCmds == {"CONNECT", "DISCONNECT", "CONNECT_ACK", "DISCONNECT_ACK"}

DatagramOK(d) ==
  /\ d.via \in 0..NetdPorts /\ d.guid \in Guids \cup {0}
  /\ CASE d.t = "raw" -> d.cmd \in RawCmds /\ d.addr \in 0..mode.loads
       [] d.t = "smp" -> /\ d.cls \in {"dr", "lid"} /\ d.dir \in {0, 1}
                         /\ d.hop \in 0..d.cnt /\ d.cnt \in 0..2
                         /\ {d.ret, d.in0, d.out} \subseteq 0..NetdPorts
       [] d.t = "data" -> d.m \in Msgs /\ d.pkey \in {0, 1}

(* Every variable has its type and every socket keeps to its buffer. *)
TypeOK ==
  /\ mode \in Cases
  /\ \A h \in Hosts :
       /\ hca[h].up \in BOOLEAN /\ hca[h].boot \in 0..mode.loads
       /\ hca[h].lock \in {"free", "held", "hung"}
       /\ hca[h].mcast \subseteq hca[h].qps /\ hca[h].qps \subseteq QPs
       /\ Len(hca[h].mad) <= mode.room
       /\ hca[h].ready.src \in {"none", "LINK", "QP0", "UD"}
       /\ hca[h].mc.src \in {"none", "mc"}
  /\ port \in [Guids -> [state : 1..4, connected : BOOLEAN,
                         lid : {0} \cup Lids, work : BOOLEAN, pkey : {0, 1},
                         bad_pkey_cntr : {0, 1}, ack : 0..mode.netd]]
  /\ sw.run \in {"running", "stopped", "exited"} /\ sw.boot \in Nat
  /\ sw.port \in [SwPorts -> [guid : {0} \cup Guids, addr : 0..mode.loads]]
  /\ sw.fwd \in [Lids -> 0..NetdPorts] /\ sw.mfwd \subseteq SwPorts
  /\ sw.lid \in {0, SwLid} /\ sw.sm_lid \in {0, Lid[SmPort]}
  /\ \A p \in Guids : \A queue \in {up[p], down[p]} :
       Len(queue) <= mode.room /\ \A i \in DOMAIN queue : DatagramOK(queue[i])
  /\ lid_table \in [Lids -> {0} \cup Guids]
  /\ sm.next \in 1..(Len(mode.script) + 1) /\ sm.sweeps \in 0..mode.sweeps
  /\ log.posted \subseteq Msgs

(* A node never has two ports of the switch, however often it connects,    *)
(* restarts or is disconnected (process_raw_packet of pibnetd): a second   *)
(* one would keep the address of a dead socket and receive in its place.   *)
OnePortPerNode ==
  \A q, k \in SwPorts : sw.port[q].guid = sw.port[k].guid /\ q # k
                          => sw.port[q].guid = 0

(* A port that takes itself for connected is in the table of the pibnetd   *)
(* that answered it, with the address of the socket it has now: this is    *)
(* the repair of ChangesLog "pibnetd fails to reconnect to a node that has *)
(* been shut down abnormally".                                             *)
ConnectedIsKnown ==
  \A p \in Guids :
    mode.multi /\ port[p].connected /\ sw.run = "running" /\ port[p].ack = sw.boot
      => \E q \in SwPorts :
           sw.port[q] = [guid |-> p, addr |-> hca[DevOf[p]].boot]

(* An SMP that returns on a directed route leaves the switch by the port   *)
(* its request came in by (C14-9 in process_mad_packet), whatever happened *)
(* to the forwarding tables and to the other ports in between.             *)
DirectedRouteReturns ==
  \A p \in Guids : \A i \in DOMAIN down[p] :
    LET d == down[p][i]
    IN d.t = "smp" /\ d.cls = "dr" /\ d.dir = 1 => d.via = d.in0 /\ p = SmPort

(* A UD message reaches each queue pair at most once, and never the one    *)
(* that sent it, although a multicast packet is looped back to the socket  *)
(* of its own port, replicated to every other port of the same device and  *)
(* offered there to all members the device has.  (The sender is told by    *)
(* the LID of its port, so an SMP whose directed route is out of date and  *)
(* that changes it in between lets the packet come back.)                  *)
DeliveredOnce ==
  \A m \in Msgs : \A q \in QPs :
    log.got[m][q] <= IF q = MsgFrom[m] /\ MsgDlid[m] = Mlid /\ ~log.misled
                     THEN 0 ELSE 1

(* A unicast message only reaches the queue pair it names at the port that *)
(* has its LID, even when the forwarding table of the switch is older than *)
(* the last node that took a port of it and that node has a queue pair of  *)
(* the same number.  (An SMP whose directed route is as old may give a     *)
(* port the LID of another, and then that is the port which has it.)       *)
NoMisdelivery ==
  \A m \in Msgs : \A q \in QPs :
    ~log.misled /\ log.got[m][q] > 0 /\ MsgDlid[m] # Mlid
      => QpNum[q] = MsgQpn[m] /\ Lid[QpPort[q]] = MsgDlid[m]

(* Each message is transmitted at most once and under the LID of its port, *)
(* although process_sendmsg leaves a packet it may not send yet in the     *)
(* buffer, where any later pass or receipt finds it.                       *)
SentOnce ==
  /\ \A m \in Msgs : log.sent[m] <= 1
  /\ \A p \in Guids : \A i \in DOMAIN up[p] :
       up[p][i].t = "data" /\ ~log.misled => up[p][i].slid = Lid[p]

(* Every receipt gives dev->lock back, whatever order packets, sweeps,     *)
(* removals and restarts come in, in a fabric whose P_Key tables the       *)
(* subnet manager leaves alone: only the return for a wrong P_Key in       *)
(* process_incoming_message_per_qp keeps it, and with the tables of        *)
(* init_port no packet gets there.                                         *)
LockIsReleased == ~Rekeyed => \A h \in Hosts : hca[h].lock = "free"

(* As long as no device was removed, a forwarding table never names a port *)
(* of the switch without an address: relay_unicast_packet and              *)
(* relay_multicast_packet, which do not look before they send, only meet   *)
(* one behind a port that was freed, however late the tables, the CONNECTs *)
(* and the restarts of pibnetd are.                                        *)
RoutesAreLive ==
  ~log.freed =>
    \A q \in SwPorts : q \in sw.mfwd \/ (\E l \in Lids : sw.fwd[l] = q)
                        => sw.port[q].addr # 0

(* A device that stays up gets its ports connected for good once pibnetd   *)
(* stays up, however many CONNECTs and answers were lost before: as long   *)
(* as the port is down pib_netd_comm_handler sets its timer again.         *)
LinkComesUp ==
  \A p \in Guids :
    <>[](LinkOnly /\ hca[DevOf[p]].up /\ sw.run = "running")
      => <>[](port[p].connected)

=============================================================================
