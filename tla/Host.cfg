SPECIFICATION HostSpec
CONSTANTS
  Thread = {t1, t2}
  Main = t1
  NoThread = none
  Ctrl = {c1}
  Null = Null
  MaxDepth = 2
  MaxCalls = 2
  Top = 1
  MaxWork = 1
  Import = {added, replaced, stub, saved, crt, fixed, file, probed}
  Table = {replaced, stub, fixed}
  TableCtx = {saved}
  Extra = {added, replaced, fixed}
  Probe = {probed}
  FsProbe = TRUE
  Crt = {crt, fixed}
  Fs = {file}
INVARIANTS
  OverridesServe
  RunsOrEnded
  EveryOffsetValid
PROPERTIES
  RoundsEnd
  OnceReturns
CHECK_DEADLOCK FALSE
