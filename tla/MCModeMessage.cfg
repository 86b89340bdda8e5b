\* Two connections from the dialog, thin or thick.
CONSTANTS
  Conn = {a, b}
  Startup = {}
  Kinds = {"Thin", "Thick"}
  None = None
  ModalMax = 1
  ClickMax = 1
SPECIFICATION Spec
INVARIANT ClearModeMessage
CHECK_DEADLOCK FALSE
