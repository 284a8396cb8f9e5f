\* Two tasks, two policies, three events and one failing file operation, with
\* fairness.
SPECIFICATION FairSpec
CONSTANTS
  t1 = t1
  t2 = t2
  p1 = p1
  p2 = p2
  Boot = boot
  NoOne = noOne
  Tasks <- MCTasks
  Policies <- MCPolicies
  MaxEvents = 3
  MaxFaults = 1
INVARIANTS ConnectionRemembered TrayMatchesTransport
PROPERTIES TakenDownAfterRestore ImplementsLink StatusSettles CommandsEnd
