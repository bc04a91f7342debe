CONSTANTS
  Widgets <- MCWidgets
  Root = "tabs"
  Parent <- MCParent
  Above <- MCAbove
  Kind <- MCKind
  Asked = {"label", "overlay"}
SPECIFICATION Spec
INVARIANTS NoLostRedraw NoLostResize
PROPERTY RedrawPaintsAll
CHECK_DEADLOCK FALSE
