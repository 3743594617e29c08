\* Nine sectors of three fragments, at most nine objects.
SPECIFICATION Spec
CONSTANTS
  Frags = {1, 2, 3}
  FragSize = 3
  Base <- MCBase
  RootFrag = 2
  Placings <- MCPlacings
INVARIANTS TypeOK OffsetsTrue WalkFindsAll SealedWhenDone
PROPERTIES PatchHitsNamed RegularDiscAccepted
\* The hooks end.
CHECK_DEADLOCK FALSE
