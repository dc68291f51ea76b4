\* One delivery with max_attempts 6 (enqueueWebhookDeliveries), a one-minute
\* ticker and requests of up to 30 s.  The row stops changing once it is
\* delivered or failed, so a final state has no successor.
CONSTANTS
    Schedule <- MCSchedule
    MaxAttempts = 6
    PollInterval = 2
    MaxLatency = 1
    MaxClock = 1000
SPECIFICATION Spec
CHECK_DEADLOCK FALSE
INVARIANT TypeOK
INVARIANT DelaysFollowSchedule
PROPERTY EventuallyFinal
