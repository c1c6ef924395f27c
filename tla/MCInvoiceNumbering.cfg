\* Concurrent POST /invoices: enough for a holder, waiters, and readers before
\* and after the holder's end.
SPECIFICATION FairSpec
CONSTANT Creators = {c1, c2, c3, c4, c5}
INVARIANTS Gapless IdsFollowNumbers
PROPERTIES IssuesInOrder EveryCreateEnds
\* The requests are finitely many: when all have ended nothing is left to do.
CHECK_DEADLOCK FALSE
