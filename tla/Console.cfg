SPECIFICATION Spec
CONSTANTS
  Width = 5
  Pitches = {5, 6}
  Heights = {4, 5}
  GW = 2
  GH = 2
  TAB = 2
  LINE_MOD = 4
  NULL = NULL
INVARIANTS TypeOK TextIntact OnScreen
