CONSTANTS
  Files <- MCFiles
  Fits <- MCFits
  Damages <- MCDamages
  Threads = {t1, t2}
  Capacity = 2
  None = None
  NoData = NoData
  NotFound = NotFound
  Failed = Failed
  MaxPending = 2
SPECIFICATION Spec
SYMMETRY Symmetry
INVARIANTS ShownIsTheme ShownIsBest PageIsServed LastIsServed
