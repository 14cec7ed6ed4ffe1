CONSTANTS
  p1 = p1
  p2 = p2
  p3 = p3
  p4 = p4
  Procs = {p1, p2, p3, p4}
  MaxExpires = 4
SPECIFICATION TimerSpec
SYMMETRY Symmetric
INVARIANTS DifferencesExact OnTime
