------------------------------- MODULE MCPibNet -------------------------------
(***************************************************************************)
(* Device a has the ports 1 and 2 and two queue pairs, device b the port 3 *)
(* and one queue pair with the number of a's second.  The subnet manager   *)
(* runs on port 1.                                                         *)
(***************************************************************************)
EXTENDS PibNet

NetLid == [g \in Guids |-> g]
NetDevOf == [g \in Guids |-> IF g = 3 THEN "b" ELSE "a"]
NetQpPort == [q \in QPs |-> q]
NetQpNum == [q \in QPs |-> IF q = 1 THEN 11 ELSE 12]

(* A message to the group, one to the queue pair of b, and a MAD to the    *)
(* switch of a class it does not have.                                     *)
NetMsgFrom == [m \in Msgs |-> 1]
NetMsgDlid ==
  [m \in Msgs |-> CASE m = "group" -> Mlid [] m = "direct" -> 3 [] OTHER -> SwLid]
NetMsgQpn ==
  [m \in Msgs |-> CASE m = "group" -> PIB_MULTICAST_QPN [] m = "direct" -> 12
                    [] OTHER -> PIB_QP1]
NetMadClass == [m \in Msgs |-> "other"]

SetPort(p) == [kind |-> "port", port |-> p, state |-> IB_PORT_ACTIVE]
SetLid(p) == [kind |-> "port", port |-> p, state |-> 0]
Tables == <<[kind |-> "switch"], [kind |-> "lft"], [kind |-> "mft"]>>

Base ==
  [multi |-> TRUE, script |-> <<>>, loads |-> 1, netd |-> 1, faults |-> 0,
   sweeps |-> 0, room |-> 2, hosts |-> Hosts, unload |-> {}, crash |-> {},
   msgs |-> {}, members |-> {}, churn |-> {}]

(* Links: hosts restart or crash, pibnetd restarts, datagrams are lost. *)
Links ==
  { [Base EXCEPT !.loads = 2, !.netd = 2, !.faults = 2, !.hosts = {"a"},
                 !.unload = {"a"}, !.crash = {"a"}],
    [Base EXCEPT !.loads = 2, !.netd = 2, !.faults = 0,
                 !.unload = {"b"}, !.crash = {"b"}] }

(* Multicast: members come and go, a port joins late and is swept again. *)
Groups ==
  { [Base EXCEPT !.script = Tables \o <<SetPort(1), SetPort(2)>>, !.hosts = {"a"},
                 !.sweeps = 1, !.msgs = {"group"}, !.members = QPs, !.churn = {2}],
    [Base EXCEPT !.multi = FALSE, !.msgs = {"group"}, !.members = QPs,
                 !.churn = {2}, !.faults = 1,
                 !.script = Tables \o <<SetPort(1), SetPort(3), SetPort(2)>>] }

(* Unicast to a device that is removed at any moment, or whose P_Key is    *)
(* changed; the sender may post before its port is active.                 *)
Directs ==
  { [Base EXCEPT !.script = SubSeq(Tables, 1, 2) \o
                              <<SetPort(1), SetPort(3), SetPort(2)>>,
                 !.unload = {"b"}, !.msgs = {"direct"}],
    [Base EXCEPT !.multi = FALSE, !.unload = {"b"}, !.msgs = {"group", "direct"},
                 !.members = {1, 3},
                 !.script = Tables \o <<SetLid(1), SetPort(3), SetPort(1),
                                        [kind |-> "pkey", port |-> 3]>>] }

(* CONNECTs are repeated, and a MAD ends pibnetd, which is started again. *)
Mads ==
  { [Base EXCEPT !.script = SubSeq(Tables, 1, 2) \o <<SetPort(1)>>,
                 !.hosts = {"a"}, !.netd = 2, !.faults = 1, !.msgs = {"mad"}] }

NetCases == Links \cup Groups \cup Directs \cup Mads

=============================================================================
