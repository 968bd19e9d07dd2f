\* As ArenaNew.cfg, against the documented panics.
SPECIFICATION NewSpec
CONSTANTS
  U32_MAX = 15
INVARIANT PanicsAsDocumented
CHECK_DEADLOCK FALSE
