CONSTANTS
  Addrs = {a1, a2}
  Contents = {c0, c1}
  Sizes <- MCSizes
  InitAddr = a1
  InitBytes = 20
  Zero = c0
  MaxQueue = 1
SPECIFICATION Spec
INVARIANT NoUseAfterFree
