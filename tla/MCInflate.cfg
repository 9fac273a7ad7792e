SPECIFICATION Spec
CONSTANTS
  NLit = 2
  MAXBITS = 3
  LEN_BASE <- LenBase
  LEN_EXTRA <- LenExtra
  DIST_BASE <- DistBase
  DIST_EXTRA <- DistExtra
  RUN_BASE <- RunBase
  RUN_EXTRA <- RunExtra
  FixedLit <- Fixed6
  FixedDist <- Fixed2
  CodeLengths <- Codes7
  CAP = 3
INVARIANTS SymbolInTable CodeIsCanonical TruncatedRefused
PROPERTIES CompleteCodeDecodes MatchRepeats
CHECK_DEADLOCK FALSE
