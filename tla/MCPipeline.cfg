SPECIFICATION Spec
CONSTANTS
  Pipelines <- MCPipelines
  F <- MCF
INVARIANTS
  TypeOK
  NothingLostOnClose
PROPERTIES
  ReturnsIfAllRead
  HangsOnUnreadValue
  ImplementsSigner
CHECK_DEADLOCK FALSE
