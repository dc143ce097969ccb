SPECIFICATION FairSpec
CONSTANTS
  Guids = {1, 2, 3}
  NetdPorts = 3
  Lid <- NetLid
  SwLid = 4
  Mlid = 5
  MadClass <- NetMadClass
  Hosts = {"a", "b"}
  DevOf <- NetDevOf
  QPs = {1, 2, 3}
  QpPort <- NetQpPort
  QpNum <- NetQpNum
  Msgs = {"group", "direct", "mad"}
  MsgFrom <- NetMsgFrom
  MsgDlid <- NetMsgDlid
  MsgQpn <- NetMsgQpn
  SmPort = 1
  Cases <- NetCases
INVARIANTS TypeOK OnePortPerNode ConnectedIsKnown DirectedRouteReturns DeliveredOnce NoMisdelivery SentOnce LockIsReleased RoutesAreLive
PROPERTY LinkComesUp
CHECK_DEADLOCK FALSE
