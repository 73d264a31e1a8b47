SPECIFICATION Spec
CONSTANTS
  h1 = h1
  a1 = a1
  Servers <- MCServers
  Hosts <- MCHosts
  HostOf <- MCHostOf
  IPs <- MCIPs
  MaxPackets = 3
INVARIANTS
  TypeOK
  PacketOnce
  NoRequestLost
  StrandedOnlyInWindow
PROPERTIES
  ShutdownEnds
  AwakeDrains
  ImplementsService
CHECK_DEADLOCK FALSE
