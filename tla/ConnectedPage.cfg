CONSTANTS
  Sizes = {tiny, narrow, wide}
  Usable = {narrow, wide}
  None = None
  MaxInputs = 1
  MaxChanges = 2
  MaxTaps = 2
  MaxEvents = 4
  Faults = {"storage", "lost", "other_tab"}

SPECIFICATION FairSpec
INVARIANTS TypeOK SentInOrder FailureCostsOne NothingLeftUnsaid
PROPERTIES PageLeaves KeyErased SizeTold
\* The page is left for good.
CHECK_DEADLOCK FALSE
