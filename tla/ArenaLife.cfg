\* Every argument of a small word, in both kinds of build; then three slots:
\* free lists of every length and order, with links written freely.  A
\* constructor that is not for these slots ends.
SPECIFICATION LifeSpec
CONSTANTS
  U32_MAX = 15
  Capacity = 3
INVARIANTS
  TypeOK
  FreeListSound
  CountExact
  BuildsNewArena
PROPERTY ServesPositive
CHECK_DEADLOCK FALSE
