\* One connection that the command line may name, which on_mount() opens, and one
\* from the dialog, of every kind.
CONSTANTS
  Conn = {a, b}
  Startup = {a}
  Kinds = {"Thin", "Thick", "demo"}
  None = None
  ModalMax = 1
  ClickMax = 1
SPECIFICATION FairSpec
INVARIANTS
  TypeOK
  TabsAreSessions
  ActiveIsSelected
PROPERTIES
  ClearOnceUp
  KeepsContracts
  LastTabPrompts
  SignAppears
  QuitEnds
CHECK_DEADLOCK FALSE
