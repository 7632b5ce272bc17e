SPECIFICATION MoveSpec
CONSTANTS
  Shown = {q1, q2, q3, q4}
INVARIANTS PinnedStay RelativeOrderKept MovesAsAsked
