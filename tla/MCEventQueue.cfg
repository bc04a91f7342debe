SPECIFICATION Spec
CONSTANTS
  k1 = k1
  Keys <- MCKeys
  QueueSize <- MCQueueSize
  Rels <- MCRels
  AbsMax <- MCAbsMax
  Widths <- MCWidths
INVARIANTS CursorsAreOnScreen CursorCatchesUp KeysCatchUp
PROPERTIES ImplementsFifo ReturnedEventIsStable
