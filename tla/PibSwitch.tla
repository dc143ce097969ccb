------------------------------ MODULE PibSwitch ------------------------------
(***************************************************************************)
(* The switch of the fabric: pibnetd, the daemon of multi-host-mode, and   *)
(* the easy switch, the kernel thread of single-host-mode.                 *)
(*                                                                         *)
(* A switch is a record and every routine an operator from a switch and a  *)
(* datagram to [sw, out]: the switch it leaves and what it sends, in       *)
(* order.  A GUID is the number of a driver's port, 0 when the switch port *)
(* is free; an address is the number of the load of the driver whose       *)
(* socket it names, 0 when there is none.  The two switches have the same  *)
(* code for directed routes, SMPs and relaying, once in each source tree;  *)
(* where they differ, s.easy tells them apart.                             *)
(***************************************************************************)
EXTENDS Integers, Sequences, FiniteSets, FiniteSetsExt

CONSTANTS
  Guids,      \* the driver's ports, all of them, numbered from 1
  NetdPorts,  \* the switch has ports 1..NetdPorts
  Lid,        \* the LID the subnet manager gives to each port
  SwLid,      \* and to the switch
  Mlid,       \* the LID of the multicast group
  MadClass    \* the management class of a message, were it a MAD

PIB_LID_PERMISSIVE == 65535
PIB_QP1 == 1
PIB_MULTICAST_QPN == 16777215

ASSUME SwitchAssumption ==
  /\ Guids \subseteq Nat \ {0} /\ NetdPorts \in Nat \ {0}
  /\ Lid \in [Guids -> Nat \ {0, PIB_LID_PERMISSIVE}]
  /\ {SwLid, Mlid} \subseteq Nat \ {0, PIB_LID_PERMISSIVE}
  /\ \A g, k \in Guids : Lid[g] = Lid[k] => g = k
  /\ SwLid # Mlid /\ \A g \in Guids : Lid[g] \notin {SwLid, Mlid}

SwPorts == 1..NetdPorts
Lids == {Lid[g] : g \in Guids} \cup {SwLid}

pib_is_permissive_lid(lid) == lid \in {0, PIB_LID_PERMISSIVE}
pib_is_unicast_lid(lid) == lid # Mlid

FreePort == [guid |-> 0, addr |-> 0]

(* init_switch.  The state of a switch port is only reported to the subnet *)
(* manager, so it is not part of the model.                                *)
init_switch(boot) ==
  [ run |-> "running", easy |-> FALSE, boot |-> boot, lid |-> 0, sm_lid |-> 0,
    port |-> [q \in SwPorts |-> FreePort],
    fwd |-> [l \in Lids |-> 0], mfwd |-> {} ]

(* pib_create_switch: port q of the easy switch is for the driver's port q *)
(* and is filled in when the thread of that device starts.                 *)
pib_create_switch == [init_switch(1) EXCEPT !.easy = TRUE]

(* pibnetd calls exit(); the kernel stops at a BUG or a NULL pointer. *)
Exits(s) == [sw |-> [s EXCEPT !.run = "exited"], out |-> <<>>]
Drops(s) == [sw |-> s, out |-> <<>>]

(* sendmsg to the peer of port q; "via" remembers q. *)
Send(s, q, d) ==
  [to |-> s.port[q].guid, addr |-> s.port[q].addr, d |-> [d EXCEPT !.via = q]]

(* detect_in_port, and get_sw_port_num of the easy switch *)
detect_in_port(s, guid) ==
  LET hits == {q \in SwPorts : s.port[q].guid = guid}
  IN IF hits = {} THEN 0 ELSE Min(hits)

-----------------------------------------------------------------------------
(* Raw packets *)

(* send_trap_ntc128: a notice to the subnet manager, if it can be reached. *)
send_trap_ntc128(s) ==
  LET q == IF s.sm_lid = 0 THEN 0 ELSE s.fwd[s.sm_lid]
  IN IF s.lid = 0 \/ q \notin SwPorts THEN <<>>
     ELSE IF s.port[q].addr = 0 THEN <<>>
     ELSE <<Send(s, q, [t |-> "smp", cls |-> "lid", dir |-> 0, hop |-> 0,
                        cnt |-> 0, out |-> 0, ret |-> 0, slid |-> s.lid,
                        dlid |-> s.sm_lid, op |-> [attr |-> "Trap"],
                        tid |-> 0, guid |-> 0, in0 |-> 0, via |-> 0])>>

(* resend_ack: the command goes back to its sender with another code. *)
resend_ack(s, q, cmd) ==
  <<Send(s, q, [t |-> "raw", cmd |-> cmd, guid |-> s.port[q].guid,
                addr |-> s.port[q].addr, boot |-> s.boot, via |-> 0])>>

(* Mutant: a node that connects again gets a second port. *)
ConnectTwice(s, guid) == detect_in_port(s, 0)

(* Where process_raw_packet puts a node: on the port that has its GUID, on *)
(* the first free one, or nowhere.                                         *)
found_new_port(s, guid) ==
  IF detect_in_port(s, guid) # 0 THEN detect_in_port(s, guid)
  ELSE detect_in_port(s, 0)

(* Mutant: a node that was shut down abnormally keeps its old address. *)
KeepOldAddress(s, d) ==
  LET q == found_new_port(s, d.guid)
      n == [s EXCEPT !.port[q] =
              IF @.guid = 0 THEN [guid |-> d.guid, addr |-> d.addr] ELSE @]
      to == [n EXCEPT !.port[q].addr = d.addr]
  IN [sw |-> n, out |-> resend_ack(to, q, "CONNECT_ACK")]

(* Mutant: a node that connects again is moved to a free port. *)
ReconnectElsewhere(s, d) ==
  LET old == detect_in_port(s, d.guid)
      q == detect_in_port(s, 0)
      n == [s EXCEPT !.port = [k \in SwPorts |->
              IF k = q THEN [guid |-> d.guid, addr |-> d.addr]
              ELSE IF k = old THEN FreePort ELSE @[k]]]
  IN IF q = 0 THEN Exits(s)
     ELSE [sw |-> n, out |-> resend_ack(n, q, "CONNECT_ACK")]

(* process_raw_packet, PIB_LINK_CMD_CONNECT *)
link_connect(s, d) ==
  LET q == found_new_port(s, d.guid)
      n == [s EXCEPT !.port[q] = [guid |-> d.guid, addr |-> d.addr]]
  IN IF q = 0 THEN Exits(s)
     ELSE [sw |-> n,
           out |-> resend_ack(n, q, "CONNECT_ACK") \o send_trap_ntc128(n)]

(* process_raw_packet, PIB_LINK_CMD_DISCONNECT *)
link_disconnect(s, d) ==
  LET q == detect_in_port(s, d.guid)
  IN IF q = 0 THEN Drops(s)
     ELSE [sw |-> [s EXCEPT !.port[q] = FreePort],
           out |-> resend_ack(s, q, "DISCONNECT_ACK") \o send_trap_ntc128(s)]

process_raw_packet(s, d) ==
  CASE d.cmd = "CONNECT" -> link_connect(s, d)
    [] d.cmd = "DISCONNECT" -> link_disconnect(s, d)

-----------------------------------------------------------------------------
(* Subnet management *)

(* subn_set_portinfo of the switch, for its own port 0 *)
subn_set_switch_portinfo(s, op) ==
  [s EXCEPT !.lid = op.lid, !.sm_lid = op.sm_lid]

(* subn_set_linear_forward_table *)
subn_set_linear_forward_table(s, op) == [s EXCEPT !.fwd = op.table]

(* subn_set_mcast_forward_table *)
subn_set_mcast_forward_table(s, op) == [s EXCEPT !.mfwd = op.ports]

(* pib_process_smp: a Set is applied and then read back, a Get only reads. *)
pib_process_smp(s, op) ==
  CASE op.attr = "PortInfo" -> subn_set_switch_portinfo(s, op)
    [] op.attr = "LinearForwardTable" -> subn_set_linear_forward_table(s, op)
    [] op.attr = "McastForwardTable" -> subn_set_mcast_forward_table(s, op)
    [] OTHER -> s

(* Mutant: a returning SMP leaves by the first entry of the wrong path. *)
ReturnByInitialPath(s, in, d) ==
  [sw |-> s, q |-> d.out, d |-> [d EXCEPT !.hop = @ - 1]]

(* A returning SMP leaves by the port its return path names.  The only     *)
(* entry of the path that this switch wrote is the one of its own hop.     *)
returning_smp(s, in, d) ==
  [sw |-> s, q |-> IF d.hop - 1 = 1 THEN d.ret ELSE 0,
   d |-> [d EXCEPT !.hop = @ - 1]]

(* An outgoing directed-route SMP: at hop_ptr < hop_cnt it goes on to the  *)
(* next hop, at hop_ptr = hop_cnt it is for this switch.                   *)
outgoing_smp(s, in, d) ==
  IF d.hop < d.cnt
  THEN [sw |-> s, q |-> d.out,
        d |-> [d EXCEPT !.ret = in, !.in0 = in, !.hop = @ + 1]]
  ELSE [sw |-> pib_process_smp(s, d.op), q |-> in,
        d |-> [d EXCEPT !.ret = in, !.in0 = in, !.hop = @ - 1, !.dir = 1]]

(* send_packet: pibnetd sends nothing to a port without an address; the    *)
(* easy switch has a BUG_ON for the port and reads pib_devs[] unchecked.   *)
send_packet(r) ==
  IF r.q \in {k \in SwPorts : r.sw.port[k].addr # 0}
  THEN [sw |-> r.sw, out |-> <<Send(r.sw, r.q, r.d)>>]
  ELSE IF r.sw.easy THEN Exits(r.sw) ELSE Drops(r.sw)

(* Directed routes that should not reach a switch; one that is beyond them *)
(* is dropped.                                                             *)
WrongRoute(d) ==
  d.hop = 0 \/ (d.dir = 0 /\ (d.cnt = 0 \/ d.hop = d.cnt + 1))
PastRoute(d) == d.dir = 0 /\ d.hop > d.cnt + 1

(* mgmt_class: "lid" and "dr" for the two routings of SMPs, "perf" for     *)
(* performance management, "other" for the rest and for a directed route   *)
(* with a part that is routed by LIDs.                                     *)
Class(d) == IF d.t = "smp" THEN d.cls ELSE MadClass[d.m]

(* process_mad_packet, for the MADs that it does not leave to be relayed.  *)
(* Those it cannot handle end pibnetd; the easy switch reports and drops   *)
(* them.  pib_process_pma_mad reads counters that are not modelled and its *)
(* answer is for QP1 of the sender.                                        *)
process_mad_packet(s, in, d) ==
  CASE Class(d) = "lid" ->
         IF d.op.attr = "TrapRepress" THEN Drops(s)
         ELSE send_packet([sw |-> pib_process_smp(s, d.op), q |-> in,
                           d |-> [d EXCEPT !.dir = 1, !.slid = d.dlid,
                                           !.dlid = d.slid, !.in0 = in]])
    [] Class(d) = "dr" /\ ~WrongRoute(d) ->
         IF PastRoute(d) THEN Drops(s)
         ELSE send_packet(IF d.dir = 1 THEN returning_smp(s, in, d)
                          ELSE outgoing_smp(s, in, d))
    [] Class(d) = "perf" -> Drops(s)
    [] OTHER -> IF s.easy THEN Drops(s) ELSE Exits(s)

-----------------------------------------------------------------------------
(* Relaying *)

(* relay_unicast_packet: the entry may name a port that was freed since.   *)
(* sendmsg without an address fails and pibnetd exits; the easy switch     *)
(* reads the device that was removed.                                      *)
relay_unicast_packet(s, in, d) ==
  LET q == s.fwd[d.dlid]
  IN IF q \notin SwPorts THEN Drops(s)
     ELSE IF s.port[q].addr = 0 THEN Exits(s)
     ELSE [sw |-> s, out |-> <<Send(s, q, d)>>]

(* The i-th of a set of numbers *)
Nth(S, i) == CHOOSE q \in S : Cardinality({k \in S : k <= q}) = i

(* The packet to each of the ports, in order; the first one that was freed *)
(* ends it.                                                                *)
Replicate(s, ports, d) ==
  LET dead == {q \in ports : s.port[q].addr = 0}
      live == {q \in ports : \A k \in dead : q < k}
  IN [sw |-> IF dead = {} THEN s ELSE Exits(s).sw,
      out |-> [i \in 1..Cardinality(live) |-> Send(s, Nth(live, i), d)]]

(* relay_multicast_packet *)
relay_multicast_packet(s, in, d) == Replicate(s, s.mfwd \ {in}, d)

(* The packet is destined for this switch. *)
DestinedHere(s, dlid) == pib_is_permissive_lid(dlid) \/ dlid = s.lid

(* receive_packet of pibnetd, process_incoming_message of the easy switch, *)
(* which takes every packet for QP1 for its own.                           *)
receive_packet(s, d) ==
  LET in == detect_in_port(s, d.guid)
  IN IF d.t = "raw" THEN process_raw_packet(s, d)
     ELSE IF in = 0 THEN Drops(s)
     ELSE IF d.t = "smp"
     THEN IF d.cls = "lid" /\ d.dlid # s.lid
          THEN relay_unicast_packet(s, in, d)
          ELSE process_mad_packet(s, in, d)
     ELSE IF d.dqpn = PIB_QP1 /\ (s.easy \/ DestinedHere(s, d.dlid))
     THEN process_mad_packet(s, in, d)
     ELSE IF DestinedHere(s, d.dlid) THEN Drops(s)
     ELSE IF d.dqpn = PIB_MULTICAST_QPN \/ ~pib_is_unicast_lid(d.dlid)
     THEN relay_multicast_packet(s, in, d)
     ELSE relay_unicast_packet(s, in, d)

=============================================================================
