CONSTANTS
  a1 = a1
  a2 = a2
  b1 = b1
  devA = devA
  devB = devB
  Conns <- MCConns
  Devices <- MCDevices
  DeviceOf <- MCDeviceOf
  NoConn = NoConn
  Payload <- MCPayload
  Endings <- MCResets
  StaleAfter = 0
SPECIFICATION MCSpec
INVARIANTS AcceptedIsRegistered
PROPERTIES ImplementsSlot SilentPeerDropped
