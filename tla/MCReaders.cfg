\* Four rows, three moves: every kind of shift across the pages of one to three.
SPECIFICATION Spec
CONSTANTS
  None = None
  MaxId = 4
  MaxMoves = 3
  Names <- SomeNames
  Unnamed = 99
  FirstName <- FirstNames
  Created <- SomeMoments
  Products <- ProductsOf
  Limits <- SomeLimits
  DefaultLimit = 2
  MaxLimit = 3
  DefaultAuditLimit = 1
  MaxAuditLimit = 4
  Client <- ClientOf
  Seller <- SellerOf
  Day <- DayOf
  TopN = 3
INVARIANTS MissesOnlyWhatMoved RepeatsOnlyWhatMoved TotalIsNearby SheetsDifferByWhatMoved
\* A reading ends.
CHECK_DEADLOCK FALSE
