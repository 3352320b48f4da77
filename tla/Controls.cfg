SPECIFICATION ControlsSpec
CONSTANTS
  N = 3
  MaxWaiting = 2
  P = 4
  MaxBackdrops = 4
  MaxHandlers = 4
CHECK_DEADLOCK FALSE
INVARIANTS ControlsTypeOK SubmittedComplete NoStalePrice OneActive PausedStays OneOpen ModalWhole TipFollows
PROPERTIES RequestsServed PanelsSettle ModalCloses TipGoes
