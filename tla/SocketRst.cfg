SPECIFICATION Spec
CONSTANTS
  SEQ_MOD = 16
  WIN_MOD = 4
  MAX_PAYLOAD_SIZE = 2
  MAX_RETX_ATTEMPTS = 2
  Filler = 0
  PipeCapacity = 1
  Elapsed = {10}
  MaxPackets = 3
  MaxFaults = 0
  PeerAddress = PeerAddress
  Nowhere = Nowhere
  Input <- MCInput
  CopyCapacity = 1
  Byte <- MCByte
  Programs = {"abandon"}
  CommandLines <- MCCommandLines
  number <- MCNumber
  DefaultConfig <- MCDefaultConfig
  PeerConfig <- MCPeerConfig
  PeerStream <- MCPeerStream
INVARIANT DestructorSendsRst
CHECK_DEADLOCK FALSE
