\* Quitting while the CLI connects.
SPECIFICATION Spec
CONSTANTS
  t1 = t1
  t2 = t2
  p1 = p1
  p2 = p2
  Boot = boot
  NoOne = noOne
  Tasks <- MCTasks
  Policies <- OnePolicy
  MaxEvents = 4
  MaxFaults = 0
INVARIANT ExitReleasesCodex
