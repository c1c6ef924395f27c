\* Any two routes at a time, two connections: each request can hold one and
\* wait for the other's.
SPECIFICATION Spec
CONSTANTS
  Requests = {r1, r2}
  Menus <- OneTableAtATime
  Cedulas = {c1}
  Keys = {k1}
  Capacity = 2
  MaxFaults = 1
  None = None
INVARIANTS TypeOK RepliesAreTrue AuditsAreTrue CedulaTwiceOnlyByOverlap
PROPERTY EveryRequestEnds
CHECK_DEADLOCK FALSE
