SPECIFICATION FairSpec
CONSTANTS
  SEQ_MOD = 16
  WIN_MOD = 4
  MAX_PAYLOAD_SIZE = 2
  MAX_RETX_ATTEMPTS = 2
  Filler = 0
  PipeCapacity = 1
  Elapsed = {10}
  MaxPackets = 3
  MaxFaults = 1
  PeerAddress = PeerAddress
  Nowhere = Nowhere
  Input <- MCInput
  CopyCapacity = 1
  Byte <- MCByte
  Programs = {"tcp_udp", "tcp_ipv4", "webget", "abandon"}
  CommandLines <- MCCommandLines
  number <- MCNumber
  DefaultConfig <- MCDefaultConfig
  PeerConfig <- MCPeerConfig
  PeerStream <- MCPeerStream
INVARIANTS EndToEnd NotBroken LeavesWhenOver
PROPERTIES ProgramEnds
CHECK_DEADLOCK FALSE
