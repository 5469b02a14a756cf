SPECIFICATION Spec
CONSTANTS
  MaxBlockSize = 40
  SymbolSizes = {1, 2, 3, 4}
  Redundancies = {0, 1, 30, 50, 99, 100, 101, 150}
  CountValues = 16
  ProductValues = 1024
INVARIANTS SidesAgree RedundancyIsMet
