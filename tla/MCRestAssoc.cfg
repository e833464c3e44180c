\* Static routes, with a server that may stop between two statements.
SPECIFICATION Spec
CONSTANTS
  r1 = r1
  r2 = r2
  a1 = a1
  a2 = a2
  eth0 = eth0
  Routes = {r1, r2}
  Hops <- MCHops
  Ids = {1, 2, 3}
  MaxStops = 1
INVARIANTS NoDangling PairsDistinct NothingUnused
PROPERTIES PairsAtATime
