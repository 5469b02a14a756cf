SPECIFICATION Spec
CONSTANT MaxLen = 8
INVARIANTS EveryItemOnce EvenlySpread
