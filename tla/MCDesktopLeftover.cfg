\* Preparing to uninstall when a crash has left a snapshot behind.
SPECIFICATION Spec
CONSTANTS
  t1 = t1
  t2 = t2
  p1 = p1
  p2 = p2
  Boot = boot
  NoOne = noOne
  Tasks <- OneTask
  Policies <- OnePolicy
  MaxEvents = 4
  MaxFaults = 1
INVARIANT PreparedReleasesCodex
