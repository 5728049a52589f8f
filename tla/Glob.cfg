SPECIFICATION FairSpec
CONSTANTS
  a = a
  b = b
  One = One
  Star = Star
  NoStar = NoStar
  Chars <- MCChars
  MaxLen = 4
INVARIANTS
  MatchesOnly
  MissesNothing
PROPERTIES
  Terminates
  WorkBounded
CHECK_DEADLOCK FALSE
