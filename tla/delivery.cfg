SPECIFICATION MpFairSpec
CONSTANTS
  Jobs = {j1, j2}
  Waiters = {w1}
  MaxStops = 2
INVARIANTS PipelineInv PendingCountsDeliveries WaitersHaveWork RepeatsAreBounded MailsNeedStops
PROPERTIES WaitersReleased QueuedMailIsSettled
CHECK_DEADLOCK FALSE
