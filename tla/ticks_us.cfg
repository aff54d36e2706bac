\* Calls at any phase of the counter, across the wrap of ticks_ms.
CONSTANTS
  CountsPerUs = 2
  UsPerMs = 8
  Word = 32
  MaxCall = 10
SPECIFICATION Spec
INVARIANT TypeOK
PROPERTY NeverBehind
