# A TLA+ verification of pib, a software InfiniBand HCA

pib (`src/`) emulates InfiniBand host channel adapters in software: a kernel
module (`driver/`, `pib.ko`) that registers HCAs with the kernel's verbs layer
and carries InfiniBand packets in UDP datagrams, a user-space library
(`libpib/`), and a switch daemon (`pibnetd/`) that joins the HCAs of several
hosts to a subnet.  This directory models the parts of it that carry a
protocol, checks them with TLC on small instances and proves the most
important facts with TLAPS for every value of the parameters.

## 1. Inventory

| Component (source) | State | Operations | Interacts with | What makes it correct |
|---|---|---|---|---|
| RC requester (`pib_rc.c`, `pib_thread.c`) | three WQE lists (submitted, sending, waiting), PSNs, retry counters, `nr_rd_atomic`, `nr_contig_requests` | start, send, retry, timeout, receive ACK / NAK / READ / Atomic response, complete, fail | send CQ, scheduler, peer responder | completions in order and once, only after execution; retries lose and repeat nothing; every WR completes |
| RC responder (`pib_rc.c`) | PSN, last opcode, offset in the message, acknowledge list, READ/Atomic slot table, receive queue | receive SEND, WRITE, READ, Atomic, duplicates; generate acknowledges; fail | receive CQ, memory regions, peer requester | each packet executed once, in order; results returned exactly once |
| Opcode and PSN helpers (`pib_lib.c`) | none | opcode tables, `pib_get_num_of_packets`, `get_psn_diff` | RC, UD | right for every opcode and across PSN wrap |
| Scheduler and thread (`pib_thread.c`) | tree of QPs by time, device flags, send buffer | `pib_kthread_routine`, reschedule, delayed works | everything | no QP with work is forgotten; nothing is sent twice |
| QP verbs (`pib_qp.c`) | QP state, attributes | create, modify, query, destroy, post_send, post_recv, flush | CQ, SRQ, PD, thread | only legal transitions; reset empties everything; SQ drained is reported |
| Completion queues (`pib_cq.c`) | ring of CQEs, notify flag, overrun state | insert, poll, arm, resize-free destroy | QPs, work queue | no completion lost or repeated; one event per arming; overflow fails the QPs |
| Shared receive queues (`pib_srq.c`) | list of WQEs, limit | post, get, modify limit | QPs | limit event once; WQEs conserved |
| Memory regions (`pib_mr.c`) | key table | register, deregister, copy, atomics, invalidate | RC, UD | access checked against the current key |
| UD transport (`pib_ud.c`) | Q_Key, QP lists | send, receive | multicast, CQ | a datagram is delivered at most once to each QP |
| Multicast (`pib_multicast.c`) | group members | attach, detach, deliver | UD, switch | at most once to each member, never to the sender, whoever comes and goes meanwhile |
| Link to pibnetd (`pib_thread.c`, `pib_main.c`) | port state, connection, timer | connect, disconnect, acknowledgements, periodic retry | pibnetd | a port that takes itself for connected is known to the switch by its present address; the link comes up in the end |
| Easy switch (`pib_easy_sw.c`) | forwarding tables | directed routes, relaying, set of tables | ports, SMA | SMPs return where they came from; unrouted packets do no harm |
| SMA, PMA (`pib_mad*.c`) | port LID, state, P_Keys, `pib_lid_table` | get / set of attributes | subnet manager, switch | the LID table and the ports agree |
| pibnetd (`pibnetd/`) | ports (GUID, address), forwarding tables | link commands, traps, directed routes, relaying | HCAs | one port for each node across crashes and restarts; its tables name live ports |
| AH, PD, user contexts, DMA, debugfs, libpib | identifiers | allocate, free, print | - | plain bookkeeping or I/O |

The hard behaviour is in the RC service: two kernel threads on two hosts, the
applications and the network interleave freely; UDP loses, repeats and reorders;
a timer may fire while its answer is on the way; retries replay what may already
have been executed; two flow-control windows and a hand-written wake-up condition
decide whether a queue pair is ever looked at again.  The fabric has its own: nodes
crash and come back from another socket, pibnetd restarts with empty tables, forwarding
tables and directed routes are older than the topology, and one multicast packet reaches
the same device by several ways.  `PROJECT.json` lists the
hazards line by line under `hazards`, each with the properties aimed at it.

## 2. Modules

| Module | What it is |
|---|---|
| `PibLib` | PSN arithmetic (`get_psn_diff`), the opcode tables of `pib_lib.c`, the opcodes of a work request's packets, list helpers |
| `PibRC` | one reliable connection: requester, responder, wires, and the correctness properties |
| `PibService` | the abstract reliable service, with no packets or timers |
| `MCPibRC` | the work requests and receive buffers of the TLC runs |
| `PibQP` | one queue pair as the verbs see it: the state machine, posting, draining, reset, errors, local-only requests, destruction |
| `PibDevice` | what the queue pairs of a device share: completion queues and their consumers, a shared receive queue, the work queue of the thread |
| `PibSwitch` | the switch: pibnetd and the easy switch, as operators from a switch and a datagram to the switch it leaves and what it sends |
| `PibNet` | the fabric: several devices and their ports, links, agents, groups and UD messages, composed with `PibSwitch` |
| `MCPibQP`, `MCPibDevice`, `MCPibNet` | the instances of these that TLC checks |
| `PibRC_proofs` | lemmas about the helpers of `PibLib` and consecutive lists; types and the order of the send queue: the invariant the other proofs about `PibRC` stand on |
| `PibFlow_proofs` | on top of it: PSNs, READ/Atomic counters, fences and errors of the requester, and what the responder never takes back; then the packet counters of every WQE, genuine packets on the wire, and that progress is kept |
| `PibOnce_proofs` | on top of that: the responder's log follows the chain of PSNs, so every packet is executed once and in order; and every answer under way is true, so the requester believes no more than the responder did |
| `PibLists_proofs` | lemmas about induction, minima and lists without repetition, shared by all proofs |
| `PibQP_proofs`, `PibDevice_proofs` | the inductive invariants and theorems about `PibQP` and `PibDevice` |
| `PibNet_proofs` | what every handler of `PibNet` and `PibSwitch` does, and the types of the fabric |
| `PibFabric_proofs` | on top of it: locks, UD messages, links, directed routes |

### PibRC and the code

`req` is the `struct pib_qp` of the requesting node with its send CQ, `rsp` the
one of the responding node with its receive CQ.  Every handler of the driver
changes `*qp` under `qp->lock`, so every handler is an operator from the record
to the record, and a step of a thread composes them, ending as the code does:
`pib_util_reschedule_qp` recomputes `sched.on`, and `process_sendmsg` sends the
packet left in `dev->thread.send_buffer` (`tx`).

| Action | Code |
|---|---|
| `PostSend`, `PostRecv` | `pib_post_send`, `get_ready_to_send`; `pib_post_recv` |
| `RequesterPass` | `process_on_qp_scheduler`: start a submitted WQE, send a packet of the first sending WQE, or complete it in error |
| `TimeoutPass` | the same when the first waiting WQE has waited for its local ACK timeout |
| `ReceiveResponse` | `process_incoming_message_per_qp` → `receive_response`: ACK, RNR and sequence NAKs, fatal NAKs, READ and Atomic responses |
| `ReceiveRequest` | → `receive_request`: SEND, RDMA WRITE, RDMA READ, Atomics, duplicates, CNP, and every refusal |
| `ResponderPass` | `pib_generate_rc_qp_acknowledge` |
| `DeregMr` | `pib_dereg_mr` of the region the requests name |
| `NetworkFault` | UDP (external): lose, repeat or delay the oldest datagram |

Abstractions, and why they lose nothing the properties speak about:

* One direction of the connection: the requester half of one QP and the
  responder half of the other.  The two halves of a QP share only the lock, the
  error state and the scheduler entry.
* Data are packet numbers: a payload is `<<work request, packet>>`, a message
  the sequence of them, a READ result the packets stored.  All work requests are
  signaled and have at least one byte.
* PSNs inside the QP are unmasked u32 in the code.  2^32 is a multiple of 2^24
  and they are only compared through `get_psn_diff`, so the model lets them grow;
  on the wire they are masked to `PsnMod` values, 16 in the runs, starting at 14 so
  that they wrap.
* A timer is a step that may be taken whenever a WQE waits.  If an answer is
  still under way it counts as a fault and is bounded; otherwise it is free.
  The RNR wait has no duration.
* `attr_OpCode[]` is read past its end for SEND with Invalidate
  (`pib_lib.c:413`).  `AttrBeyondTable` is what the build places there; the error
  run gives it a value that lets the message through.  `AttrAssumption` leaves out a
  build in which the bytes say ACKNOWLEDGE: `receive_response` is not written for a
  request, and may resend or reach `BUG()`.
* Every SEND with Invalidate that gets as far as its key fails, since nothing sets
  `is_fast_reg_mr`.  That it also leaves with `pd->lock` held (`pib_rc.c:815`) is not in
  the model: a receipt is one step there.  A shared receive queue, Local Invalidate, Fast Register, SQD
  and malformed packets are not in this module.
* A NAK for a fatal error is pushed and then freed by the flush in the same
  step (`pib_rc.c:1117`, `pib_qp.c:122`): the model does exactly that.

Bounds, all named constants: `MaxWR` and `MaxRecv` (posts), `MaxFaults`
(disturbed datagrams and early timers), `WireCap` (datagrams under way; a thread
does not send while the wire is full), `AckCap` (acknowledges not yet sent; a
request waits in the socket meanwhile).

### PibQP and the code

`PibRC` follows packets and leaves the queue pair in RTS until it fails; `PibQP` is the
opposite cut.  Here the other side may answer, refuse or stay silent at any time,
and what is followed is each of the `MaxSendWr` WQE objects, which the driver
reuses: `free`, `submitted`, `sending` and `waiting` are the four lists of
`struct pib_qp`.  `cq` holds the completions the queue pair left in its CQs, as the number
of its life (`life` counts resets), and `posted` and `done` are history for `PostedOrder`.
A flush empties the three lists in the order of `pib_util_flush_qp`, waiting first, then
sending, then submitted (`Left`), so it is one assignment (`FlushSends`) instead of three loops.

| Action | Code |
|---|---|
| `pib_create_qp`, `pib_destroy_qp`, `pib_modify_qp`, `pib_post_send`, `pib_post_recv`, `pib_poll_cq` | the functions of the same name; `cur` is the state the caller claims with `IB_QP_CUR_STATE`, which the driver believes |
| `LocalOnlyPass` | `process_on_qp_scheduler` with a local-only request first in the waiting list; `halted` is the `BUG()` of `pib_process_local_only_request` |
| `SchedulerPass` | the rest of `process_on_qp_scheduler`, with or without the timeout that resends |
| `receive_response`, `receive_request` | what an acknowledge, a refusal, or a message does to the WQEs, for RC and UD |
| `InjectError` | a CQ, SRQ or injected error that fails the queue pair |

A step may fail to happen (there is no fairness here), so a pass held back by a
window, a fence or an RNR wait is a pass not taken; PSNs, windows and retry counters
are in `PibRC`.  All work requests are signaled.  Fast Register behaves as Local Invalidate does.
`ib_modify_qp_is_ok` belongs to the kernel and is modelled from its table.

### PibDevice and the code

`dev` is the `struct pib_dev`: CQs with their free and used CQEs, the SRQ, the queue pairs
reduced to what they hold, and `works`, the list of `wq_sched`.  Steps that need
`dev->lock` are disabled while the thread holds it (`DevLocked`): from the moment it found a
work (`picked`) until the work has failed every queue pair it has to (`failing`), one step
for each, since only `qp->lock` and the locks of its CQs are taken for it and the consumers go
on meanwhile.  The loops that insert or remove several CQEs are closed forms: `insert_wcs`
inserts what fits and overflows on the rest, `Entries` keeps the CQEs of other queue pairs.
`process_on_wq_scheduler` releases `wq_sched.lock` before it unlinks the first work:
`PickWork` and `RunWork` are the two sides of that window, and a work that an application
queues inside it may be `lost`, with the list `broken` from then on or not, which are the
outcomes of the two unordered list operations.  Writes to memory that was freed meanwhile
are not modelled.  A completion carries two facts: `sol`, what `insert_wc` is told for
"solicited", which for a received message is its pad count (`pib_rc.c:857`, `1062`,
`pib_ud.c:384`), and `owed`, why a consumer that asked for solicited completions expects it:
the solicited bit of the packet (`Solicited` says whose peers set it), or an error.  Only
`owed` stays with the CQE.  The consumer of a CQ is the usual loop (external): wait for the event,
arm, poll until empty.  A CQ is destroyed in the two critical sections of `pib_destroy_cq`.

| Action | Code |
|---|---|
| `pib_post_send`, `ModifyToErr`, `ModifyToReset`, `pib_destroy_qp` | the calls that insert or take back completions |
| `DestroyCqes`, `pib_destroy_cq` | the two halves of `pib_destroy_cq` |
| `pib_post_srq_recv`, `pib_modify_srq`, `inject_err_write` | the functions of the same name |
| `GetEvent`, `pib_req_notify_cq`, `pib_poll_cq` | the consumer's loop |
| `CompleteSend`, `ReceiveFirst`, `ReceiveLast` | completions of the transport, and a WQE taken from the SRQ |
| `PickWork`, `RunWork`, `FailNext` | `process_on_wq_scheduler` with `cq_overflow_handler` and `pib_inject_err_handler`; one turn of their loop over the queue pairs |

### PibSwitch, PibNet and the code

`hca` holds the part of `struct pib_dev` that its ports share: whether the thread runs, the
one send buffer (`ready`, the packet `ready_to_send` announces), the SMPs waiting for the
agent (`mad`), the multicast packet being delivered (`mc`), `dev->lock`, the group and the
queue pairs.  `port` is `struct pib_port`: `ib_port_attr.state`, `is_connected`, the LID, the
link timer (`work`), the first P_Key and its counter.  `sw` is the switch with its ports
(GUID and socket address), `ucast_fwd_table` and `mcast_fwd_table`; `up` and `down` are the
UDP sockets.  A socket address is the number of the load that opened the socket, so an old
address and a new one of the same node differ.

| Action | Code |
|---|---|
| `pib_dev_add`, `pib_dev_remove` | the functions of the same name with `init_port`, `pib_create_kthread` / `pib_release_kthread` and what `kthread_routine` does before and after its loop |
| `pib_netd_comm_handler` | the link timer, 60 s after each `connect_pibnetd` |
| `HcaReceive` | `receive_packet`, `process_incoming_message`: link commands, SMPs, unicast; a multicast packet copies the group |
| `DeliverMulticast` | one turn of the loop over the copied members, after the lock is released |
| `ThreadHangs` | the next `spin_lock(&dev->lock)` after a receipt has left with the lock (`pib_thread.c:964`) |
| `pib_process_ud_qp_request`, `SchedulerPass` | a UD request, and a pass that only finds an old packet in the send buffer |
| `pib_attach_mcast`, `pib_detach_mcast`, `pib_destroy_qp` | the verbs, racing `DeliverMulticast`; a queue pair leaves its group in a critical section of its own before it leaves the table |
| `process_mad` | `process_subn` with `subn_set_portinfo` or `subn_set_pkey_table`, and the answer on QP0 |
| `SwitchReceive` | `receive_packet` of pibnetd, `process_incoming_message` of the easy switch |
| `NetdStart`, `NetdStop` | `main` of pibnetd, and the signal that ends `do_work` |
| `SmSend`, `SmLocal`, `SmTimeout` | external: OpenSM, one request at a time down a script, resolved from the topology at that moment |
| `Crash`, `Lose` | external: a host dies without DISCONNECT; UDP loses a datagram |

Abstractions:

* A queue between a port and the switch keeps its order and drops what does not fit
  (`room`); a datagram for a socket that was closed since is lost.  An early link timer or a
  request given up while its answer is under way counts as a fault.
* Datagrams carry LIDs, GUIDs and queue pair numbers; payloads are names.  Malformed
  packets, Q_Keys, GRHs and the performance agent are left out.  Q_Keys and receive
  buffers can only drop a message (`PibQP` has the WQEs).
* Every receipt of `HcaReceive` takes `dev->lock` and gives it back where the code does
  (`Lock`, `Unlock`); the return for a wrong P_Key is the one that does not.
* The two switches have the same code twice; `s.easy` marks the places where they
  differ: a missing address, a wrong route or a management class it does not have, packets for
  QP1, and who fills the ports.  `Exits` is a call of `exit` in pibnetd and a `BUG`, a NULL
  pointer or a read of freed memory in the easy switch.
* The subnet manager sends to every port the switch reports as up (`Towards`).  pibnetd
  reports one when its node connects; the easy switch reports all of them from its creation
  (`pib_easy_sw.c:99`), so a sweep may reach a device that was not added yet.
* A message of a queue pair may be a MAD: for QP1 at the switch, of the class `MadClass`.
  A packet with the multicast queue pair number goes to the group's LID; with a unicast DLID
  pibnetd would read before its multicast table (`NetAssumption` leaves this out).
* The state of a switch port is only reported to the subnet manager, so it is not kept.
* A send through an entry of `pib_lid_table` whose device is gone is a lost datagram.
* The hop handling of the kernel's MAD layer is external: a request leaves with `hop_ptr` 1.
* There is one multicast group, so the limit on the groups of a queue pair
  (`PIB_MCAST_QP_ATTACH`) is not reached, and each queue pair is on the port it was given at INIT.
* A thread that spins on a lost lock does nothing for ever.

## 3. What TLC checks

| Run | Instance | Properties |
|---|---|---|
| `rc_stream` | two of SEND (2 packets), RDMA WRITE (2), WRITE with immediate (1); one fault; request window of one; PSN wrap | `TypeOK`, `QueueOrder`, `ExactlyOnceInOrder`, `SuccessMeansExecuted`, `ReceivesWholeMessages`, `SurvivesFaults`, `NoProgressLost`, `ImplementsService` |
| `rc_rdatomic` | three of SEND, fenced SEND, READ (2 packets), FETCH_ADD; two outstanding; one fault; READ window of one | `PsnChain`, `RdAtomicCount`, `ResultsAreExact`, `FenceHolds` |
| `rc_errors` | two of ten work requests covering every error path, late and short receive buffers, RNR retries, SEND with Invalidate (which fails) | `ErrorEndsQueue`, `NoStall` |
| `rc_live` | two of SEND, READ, COMPARE_SWAP with one fault, and the region deregistered at any moment | `EveryPostCompletes` |
| `qp_verbs` | an RC or a UD queue pair; two send WQEs and three posts, so that WQEs are reused; one receive WQE; one reset or destruction | `TypeOK`, `WqesConserved`, `PostedOrder`, `ResetForgets`, `ErrorFlushes`, `DrainIsNoticed`, `SqdStartsNothing` |
| `dev_queues` | two queue pairs that share a receive CQ and an SRQ of one WQE; CQs of one entry, so that the second completion overflows and a flush overflows the other CQ; one consumer asks for solicited events, one for all, and one peer sends solicited messages; one reset, limit or injected error | `TypeOK`, `CqesConserved`, `SrqWqesConserved`, `NoLostWakeup`, `WorksAreLive`, `LimitEventOnce`, `OverflowIsReported` |
| `net_fabric` | a device with two ports and two queue pairs, one with one port and a queue pair of the same number, three switch ports; seven cases: crashes, restarts and two faults on the links of one device, crashes and restarts with two devices; a group with members that come and go and a port swept again after a trap, in both modes; unicast to a device that is removed at any moment, or whose P_Key is changed, in both modes; a MAD that ends pibnetd, with CONNECTs repeated and pibnetd started again | `TypeOK`, `OnePortPerNode`, `ConnectedIsKnown`, `DirectedRouteReturns`, `DeliveredOnce`, `NoMisdelivery`, `SentOnce`, `LockIsReleased`, `RoutesAreLive`, `LinkComesUp` |

Two work requests are enough for a second one to start while the first is
retried, two packets for a message to be split by a fault, and one fault for
every single lost, repeated or overtaken datagram; three work requests with two
outstanding READ/Atomic operations fill and free the slot table.  On the fabric two
loads of a device give an old and a new socket, two runs of pibnetd an old and a new table,
two devices a switch port that changes hands, and a device with two ports every way a
multicast packet can take; the cases keep these apart because together they say no more.

`ImplementsService` is the refinement: under the mapping of `Service` in `PibRC`
every step is a step of `PibService` or a stutter.  `posted` are the work requests,
`delivered` counts those whose last packet is in the responder's log, `received`
names the message of every successful receive completion, `completed` is the send
CQ.

**Fairness** (`rc_live`): weak fairness of the two threads' passes, of the
receipt of a datagram that was not lost, and of the free timer.  The code
justifies it: `pib_kthread_routine` loops over its flags, the scheduling tree and
the sockets, and a QP in the tree has a time at which it is served.  Nothing is
assumed of the applications or of the network.

`net_fabric` assumes weak fairness of the receipt of a datagram, by the threads and by
`do_work`, and of the link timer, in the cases about links (`LinkOnly`), the only ones
`LinkComesUp` speaks of.  Loading, removing, crashing, starting and stopping are free, and
the faults are finite.

`CHECK_DEADLOCK FALSE` is set because a finite workload ends.

### Where the code disagrees with its own documentation

Five runs are expected to find a violation; each is a finding in `PROJECT.json`.

* `v_window_stall`: after `PIB_MAX_CONTIG_REQUESTS` unanswered packets the first
  WQE stays on the sending list, which has no timer, and the QP leaves the tree.
  If those packets are lost nothing resends them and no error is ever
  reported.  `03design.txt:81` says the WQE moves to the waiting list.  The same
  happens with no loss at all when the responder is in error.  `NoStall` holds
  in `rc_errors`, where the window never closes.
* `v_read_middle`: `receive_response` skips an AETH that MIDDLE packets of an RDMA
  READ response do not have (`pib_rc.c:1674`, comment at 1682), so a READ of three
  packets or more returns wrong bytes with success.
* `v_lost_read`: if a READ response is lost and a later ACK arrives, the READ
  fails with `BAD_RESP_ERR` (`pib_rc.c:1949`) instead of being retried.
* `v_recycled_wqe`: `pib_post_send` never clears `local_only_request` of a WQE it
  reuses (`pib_qp.c:1057`), so a SEND posted after a Local Invalidate on the same WQE is not sent and
  the thread reaches `BUG()`; `pib.h:891` says the field is for Local Invalidate and Fast
  Register.  A stopped thread is why `Next` of `PibQP` needs `~halted`.
* `v_solicited`: the pad count of the last packet is passed where `insert_wc` expects the
  solicited bit (`pib_rc.c:857`, `1062`, `pib_ud.c:384`), and `pib_packet_bth_get_solicited` is never called.
  A solicited message whose length is a multiple of four leaves a consumer asleep that armed
  its CQ for solicited completions, against `ChangesLog:145` and `DEBUGFS.md:47`.
  `NoLostWakeup` of `dev_queues` is therefore about the other promises of an arming: every
  completion after `IB_CQ_NEXT_COMP`, and every failed one after `IB_CQ_SOLICITED`.

Other behaviour the model showed while it was written, kept in the model because
the code has it: the request window lets one packet more through than
`ChangesLog:83` says; `receive_Atomic_request` compares the wire opcode with a verbs constant
(`pib_rc.c:1165`), so a COMPARE_SWAP is executed as fetch-and-add of its compare data and two of
them can take the same lock; `abort_active_rwqe` fails an untouched receive WQE, since the
offset of the last message is not reset when it completes (`pib_rc.c:2260`); the
requester sees `RETRY_EXC_ERR` instead of the fatal NAK's status; a READ whose
region vanishes stays at the head of the acknowledge list for ever; duplicates
after an early timer can exceed `max_dest_rd_atomic` and then fail the connection
(which is why `SurvivesFaults` is checked for SEND and WRITE only); a failed Local
Invalidate completes twice and a successful one never; a queue pair drained by a local-only
request may not leave SQD until it is reset (which `DrainIsNoticed` excludes);
`pib_post_srq_recv` loses the WQE of a request it refuses as too long
(`SrqWqesConserved` counts them);
a packet with a wrong P_Key leaves with `dev->lock` held and the thread never moves again
(`pib_thread.c:964`; `LockIsReleased` says that with the P_Key tables the ports start with
every receipt releases it);
pibnetd exits, and the easy switch reads a removed device, when a forwarding entry names a
port that was freed (`pibnetd/main.c:834`; `RoutesAreLive` says that the tables name no such
port before a device is removed); pibnetd also exits on a MAD for QP0 or QP1 of a class it does not
have, or a directed route that is routed by LIDs in part (`pibnetd/main.c:671`, `710`), and when its table of
ports is full (`main.c:533`), and the easy switch reads `pib_devs[]` of a device that was
not added yet (`pib_easy_sw.c:552`): the model has these as `Exits`, and the run reaches the
MAD of another class on QP1 and the device not added yet;
a directed route that is older than the topology gives a port the LID of another
(`log.misled`, excluded from `NoMisdelivery` and from the second half of `SentOnce`); a port connected to a
pibnetd that has restarted stays half-open, since its timer is not set again; and
`get_ready_to_send` clears the window after it has rescheduled, so a post does not
by itself reopen a closed window.

## 4. What is proved

| Module | Theorem | Property of a run |
|---|---|---|
| `PibRC_proofs` | `TypeCorrect`, `CompletionsInOrder` | `TypeOK`, `QueueOrder` |
| `PibFlow_proofs` | `ErrorEndsSendQueue`, `PsnsAreChained`, `FencesHold`, `RdAtomicsAreCounted`, `ProgressIsKept` | `ErrorEndsQueue`, `PsnChain`, `FenceHolds`, `RdAtomicCount`, `NoProgressLost` |
| `PibOnce_proofs` | `ExecutedOnceInOrder`, `SuccessIsExecuted` | `ExactlyOnceInOrder`, `SuccessMeansExecuted` |
| `PibQP_proofs` | `TypeCorrect`, `WqesAreConserved`, `SendsInPostedOrder`, `ResetIsClean`, `ErrorStateIsEmpty`, `DrainNoticed`, `DrainingStartsNothing` | `TypeOK`, `WqesConserved`, `PostedOrder`, `ResetForgets`, `ErrorFlushes`, `DrainIsNoticed`, `SqdStartsNothing` |
| `PibDevice_proofs` | `TypeCorrect`, `CqesAreConserved`, `SrqWqesAreConserved`, `NoWakeupIsLost`, `QueuedWorksAreLive`, `LimitIsToldOnce`, `OverflowNotForgotten` | `TypeOK`, `CqesConserved`, `SrqWqesConserved`, `NoLostWakeup`, `WorksAreLive`, `LimitEventOnce`, `OverflowIsReported` |
| `PibNet_proofs` | `TypeCorrect`, `OnePort` | `TypeOK`, `OnePortPerNode` |
| `PibFabric_proofs` | `LockReleased`, `NeverMisdelivered`, `DeliveredAtMostOnce`, `SentAtMostOnce`, `Connected`, `ReturnsHome`, `RoutesStayLive` | `LockIsReleased`, `NoMisdelivery`, `DeliveredOnce`, `SentOnce`, `ConnectedIsKnown`, `DirectedRouteReturns`, `RoutesAreLive` |

Each has the form `Spec => []P` (or `Spec => A` for the two action properties) and holds for
every value of the constants that satisfies the assumptions of its module, all of which TLC
evaluates in the runs.  Three have a hypothesis of their own: `PsnsSuffice` for
`ExecutedOnceInOrder` and `SuccessIsExecuted`, `Steady` for `ReturnsHome`.  The runs satisfy
`PsnsSuffice` everywhere, and `Steady` in every case in which the subnet manager has requests to send
but the one in which pibnetd is started again after a MAD.

### The reliable connection

Assumptions: `RCAssumption`, `PsnModAssumption` and `AttrAssumption`, that is, any set of
work requests of at least one packet, any number of posts and faults, any windows and retry
limits.  There are five layers, each an inductive invariant over the one below.

**Order** (`PibRC_proofs`, `IInv`).  `QueueOrder` is not inductive.  Inside a step work
requests leave their list before they are completed (`receive_ACK_response` takes several,
then perhaps fails the next and flushes the rest), so the invariant of the requester,
`Requester(q, c)`, speaks of lists that hold the work requests *after number c*;
between two steps `c` is the number of completions (`ReqInv`).  It also needs

* the types, so that list operations mean what they should;
* `Drained`: a queue pair in error has empty lists, otherwise a work request posted
  in that state and flushed at once would overtake those left;
* that a failed WQE of the sending list is only completed when the waiting list is
  empty, which is the guard `HeldBack` (`pib_thread.c:465`).

`IInv` adds the responder's record and that a responder in the scheduling tree has
an acknowledge to send, without which `ResponderPass` would read an empty list.
There is one lemma per operator (`<operator>Type`), over the list lemmas
(`InOrder...`) at the head of the module; `NextIInv` has one case per action.

**Flow** (`PibFlow_proofs`, `FlowSafe`).  Since the lists hold consecutive work requests, all
the rest can be said of the numbers `c + 1 .. Begun(q)` of those under way.  `Flow(q, c)`
says that the PSNs of the first `Begun(q)` work requests form a chain from `InitPsn`
(`Psns`, while the queue pair is in RTS), that `nr_rd_atomic` is the number of READ and Atomic
operations among them and at most `MaxRdAtomic` (`Counts`), that none of them precedes a
fenced one (`Fences`), and that an error in the CQ is followed by flushes only and is absent
in RTS (`Errs`).  Most operators move WQEs between the waiting and sending lists or change
counters: for these `SameFlow` is enough, a relation that is reflexive and transitive.  The
others, `process_new_send_wr`, the completions and the flushes, have lemmas of their own.
`Errs` is where order matters: the answers that complete several work requests and fail the
next must complete them first.  The second half of the module is the responder: `Goes(r, s)`
says that its READ/Atomic counter stays right, completions are only added, and the PSN does
not go back.

**Progress** (`PibFlow_proofs`, `ProgSafe`).  The responder advances by the length a READ
request claims (`dmalen`), so that its PSN never goes back is not a fact about the responder.
It needs that every packet on the wire is a packet of the work request it names (`Genuine`),
hence that no counter of a WQE leaves its message (`Windows`: `ack_packets` and `sent_packets`
in range, a packet left to send unless the WQE waits, PSNs assigned exactly from the start
on), and that a step leaves of every WQE the work request, its PSNs and its acknowledged
packets (`Continues`).  `NextProg` shows that `ProgSafe` is kept and that every step is
`Onward`, from which both theorems follow.

**Once** (`PibOnce_proofs`, `OnceSafe`).  A packet carries its PSN modulo `PsnMod`, and
`get_psn_diff` takes the shorter way round: two packets half of the PSNs apart cannot be told
apart, and a datagram delayed for that long would be executed again.  The driver has nothing
against that (InfiniBand assumes that packets do not live that long), so the theorem has the
hypothesis `PsnsSuffice`: the posts, at most `MaxWR` of at most `P` packets each, take fewer
than half of the PSNs.  The runs satisfy it (`rc_stream`: 2 posts of 2 packets, `PsnMod` 16,
starting at 14 so that the PSNs wrap), and so does every connection with fewer than 2^23
packets.  Under it `DiffExact` shows that `get_psn_diff` of two PSNs of the connection is
their distance.  `Line(q, n)` says that the first `n` work requests have PSNs, chained from
`InitPsn`, and the others none; unlike `Psns` it also holds after the queue pair failed.
`Logged(r, q, n)` says that the log is in order and complete up to its last entry and that the
responder's PSN is the one after that entry.  A packet is executed only if its PSN is the
expected one (`receive_packetExecutes`, one lemma per handler); being genuine it is a packet of
the line, and two packets of the line with the same PSN are the same packet (`SamePlace`), so
it is the one the log awaits (`NewIsAwaited`).

**Answers** (`PibOnce_proofs`, `AnswerSafe`).  That a completion tells the truth cannot be
shown of the requester alone.  `Truthful` says that every acknowledge on the responder's list
(`Fine`) and every answer on the wire (`Answers`) is a request to send again or speaks of a PSN
the responder has executed (`Vouched`: equal, modulo `PsnMod`, to one between `InitPsn` and the
PSN expected next), a READ acknowledge for all the packets it is still to send.  The hard cases
are the duplicates: a retried READ is answered again from the middle of its range, a retried
Atomic from its slot, a retried SEND by an acknowledge of its own PSN.  `DuplicateIsPast` shows
that a genuine packet taken for a duplicate lies before the expected PSN, and `GenuineWhole`
that a READ of which one packet lies before it does so as a whole.  No NAK of an error is
`Fine`: the queue pair that sends one goes into the error state and drops its list.  `Backed`
is the other side: the packets counted in `ack_packets` and the PSNs of every successful
completion are before the expected PSN.  Operations that hear nothing (`Unheard`: resending,
timeouts, failing, flushing) keep it; for an answer, `AnswerSpeaks` turns its wire PSN into the
PSN `y` of the line, and the cumulative acknowledge, the partial one (`CONTINUE`), the READ
response and the Atomic response each count nothing beyond `y`.  `PastIsComplete` takes this
from PSNs to the log.

### The queue pair and the device

`PibQP_proofs` assumes `QPAssumption`.  `Sound` is what every helper keeps, also in the
middle of a handler: types, the sum of the receive WQEs, completions of this life only, and
`WrsOK`, that a WQE on a list still says which work request it carries, without which the
order of WQEs would not be an order of work requests.  `QueueOK` adds that each WQE is on one
list once (`Once`) and the line of those done and those open (`Posted`); `StateOK` is what each
state promises between two handlers.  It has two parts no property asks for: a UD queue pair
starts and completes a request in one pass, so its started lists are empty between passes,
and a WQE that once carried a local-only request keeps its mark (the finding
`v_recycled_wqe`), which is why `DrainIsNoticed` speaks of queue pairs without such a mark.

`PibDevice_proofs` assumes `DeviceAssumption`.  `IInv` has the queues (`Queues`), the books of
the SRQ (`Books`), the bounds of the calls and what the thread holds (`ThreadOK`).  Two of
its parts carry the weight.  `Awake` is the handshake of a CQ with its consumer: an armed CQ
with no event under way holds no failed completion, and none at all if the consumer asked for
the next one; and
`has_notified` says whether an event was sent; it must be kept by a flush that inserts several
completions at once.  `Life` ties the memory of a CQ to the work queue: a CQ that a living
queue pair uses is live, a queued work belongs to a CQ that is not gone, and a CQ in error was
reported, or is queued, or was lost in the window of `process_on_wq_scheduler`.  `Unique`
(no work twice on the list) is needed to know that the work the thread unlinks is gone from
the list, so that the memory may be returned.

### The fabric

Both modules assume `SwitchAssumption` and `NetAssumption`: any devices, ports, queue
pairs and messages, numbers of queue pairs that are unique on a device only, LIDs that differ,
and any set of cases, each with its own script of the subnet manager, restarts and faults.
The state of the fabric is one record, `Now`, and every handler an operator on such records; a
handler is described by a lemma (`...Does`) that says which parts of the record it changes,
and the invariants are kept by those descriptions, not by the definitions.

**Types** (`PibNet_proofs`, `FabricInv`).  A type that says what a field may hold by itself is not inductive
here, because a handler trusts what it receives: `process_mad_packet` indexes with the port an
SMP names, `subn_set_portinfo` stores the LID it carries.  `Fabric` therefore lists the
datagrams there are by the place they can be in: a request to the switch, one for a port
before and after the switch, its answer before and after it, a notice and its repression
(`SmpSent`, `SmpCame`), link commands in multi-host-mode only, UD packets that agree with
the message they carry.  It also says that no two switch ports have the same GUID and that a
device holds packets of its own ports only.  `OnePort` follows from it.

**Lock** (`LockReleased`).  The types of the P_Keys and of the lock depend on whether
the script of the subnet manager changes a P_Key table (`PKeys`, `LockStates`).  If it does
not, every port and every packet has the P_Key of `init_port`, so the comparison in
`process_incoming_message_per_qp` does not fail, and each of the other ways through a receipt
is shown to end with the lock free.

**Data** (`DataRight`).  The three properties about UD messages need one invariant of all the
places a packet can be in: the buffer, the queue to the switch, the queues to the ports, the
multicast packet being delivered with the members still to be served, and the counts of the
log.  `SentRight`: a message in the buffer was not sent, and one that is anywhere else was sent
once.  `OneEach`: on its way to a queue pair a message is in one place at most, in the queue to
the switch, in the socket of the port, among the copies to be made or received.
`LidsRight`, unless a stale route misled an SMP: a port with a LID has its own, and
every packet carries it, which is what the check of the source LID in `pib_ud.c` and of the DLID
at `pib_thread.c:943` compare with.

**Links** (`LinkKnown`, in multi-host-mode).  A port that holds an acknowledgement of the
pibnetd that runs, received or still in its queue (`Acked`), is in the table of that pibnetd under the
address of the present load, and no command that would take it away is behind it in the
queue: `InOrder` says that the commands of an earlier load precede those of this one.  An
acknowledgement carries the number of the pibnetd that wrote it, and is delivered to the socket
whose address was in the command, so one for an earlier load reaches no one.

**Routes** (`Guided`).  `Homeward` is the invariant of `ReturnsHome`: the switch
port named by the return path of any SMP that has passed the switch, in a queue, at an agent or in a send buffer, is
the one of the subnet manager.  Its hypothesis `Steady` says that the subnet manager
keeps its switch port: pibnetd is started once and the device of the subnet manager is not
unloaded.  A restarted pibnetd hands out its ports anew and a return path from before may lead to
another node, so this is needed; the other devices come, go and crash as they like, and the
subnet manager's own may crash too.  `Survives` is the invariant of `RoutesStayLive`: until a device is
removed, every switch port that is `Used`, that is, named by a forwarding table or by a table in a
request under way, has an address, and the only link commands under way are CONNECTs.  A
pibnetd that starts again has empty tables, and nothing waits at one that does not run, so a table
resolved for the last one cannot reach it.

### What stays with TLC, and why

* Liveness under fairness (`EveryPostCompletes`, `LinkComesUp`): out of the prover's reach.
* `NoStall`: the state predicate holds only where the flow-control windows never close
  (finding `v_window_stall`), which is a fact about the constants of its run.
* The properties about the data that arrives (`ReceivesWholeMessages`, `ResultsAreExact`):
  they need an invariant of the buffers at both ends on top of `AnswerSafe`.  The refinement
  `ImplementsService` counts the work requests executed and completed with `Cardinality`;
  its steps are not proved yet.
* `SurvivesFaults`: it counts faults against retries, for a workload chosen so that nothing
  else can fail.

What a recursive definition computes for every input is out of reach in general.  The one
lemma that needs induction, `WithoutType`, has it in the form `SetInduction`: a subset of
`Nat` with 0 and closed under successor is `Nat`, which follows from the well-foundedness of
`<`.  Lists that the code builds in loops are closed forms in the modules with proofs.

## 5. Plan

1. Done: `PibLib`, `PibRC`, `PibService`, their runs and the first two theorems.
2. Done: `PibQP`, the verbs state machine.
3. Done: `PibDevice`, completion queues, shared receive queue and work queue.
4. Done: `PibSwitch` and `PibNet`, the fabric with both switches, link, agent, multicast
   and UD delivery, and the send buffer while a port is down.
5. Done: theorems for all safety properties of `PibQP` and `PibDevice`, for the properties of
   `PibRC` that one node can establish, for `ExactlyOnceInOrder` and for `SuccessMeansExecuted`.
6. Done: theorems for all safety properties of `PibNet`.
7. Left: the step simulation of `PibService`; `ReceivesWholeMessages` and `ResultsAreExact`.

### Not modelled

* Memory registration, page tables and the copying of `pib_mr.c`: `PibRC` has regions that
  are valid or not, and the Atomic operations; the rest is address arithmetic.
* The performance agents (`pib_mad_pma.c`, `pibnetd/perf.c`) and every Get of the subnet
  agents: they report and change nothing the protocol reads.
* Several QPs in the scheduling tree and the thread's flag bits: each pass takes one QP, and
  `PibRC` has the condition under which it is in the tree.
* Registration with the kernel, failures of allocation, DMA mapping, debugfs listings,
  tracing, logging, address handles, protection domains, pibping and libpib, which are I/O or
  identifier bookkeeping without behaviour over time.
