\* A launch after an unclean shutdown and an edit.
SPECIFICATION FairSpec
CONSTANTS
  t1 = t1
  t2 = t2
  p1 = p1
  p2 = p2
  Boot = boot
  NoOne = noOne
  Tasks <- OneTask
  Policies <- OnePolicy
  MaxEvents = 3
  MaxFaults = 0
PROPERTY DriftIsShown
