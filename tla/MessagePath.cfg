SPECIFICATION Spec
CONSTANTS
  Malformed = Malformed
  Answers <- MCAnswers
  KeyringFile <- MCKeyringFile
  Peer <- MCPeer
  Calls <- MCCalls
  Cuttable <- MCCuttable
  ChunkSizes = {1, 2, 6, 45}
  Controls <- MCControls
INVARIANTS FramesSurvive TelegramSurvives DiscoveryConverges
CHECK_DEADLOCK FALSE
