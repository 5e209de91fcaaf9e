CONSTANTS
  a1 = a1
  s1 = s1
  s2 = s2
  devA = devA
  Conns <- MCOne
  Devices <- MCDevices
  DeviceOf <- MCOneDeviceOf
  NoConn = NoConn
  Payload <- MCPayload
  Endings <- MCEndings
  StaleAfter = 0
  Adapters <- MCAdapters
  ChanCap = 1
  MaxEnvelopes = 2
SPECIFICATION RelaySpec
INVARIANTS ChannelsCloseOnce NothingLostInSilence
SYMMETRY MCSymmetry
CHECK_DEADLOCK FALSE
