\* One server process, one event, one webhook; one crash, one DB
\* error and one user retry.
CONSTANTS
    e1 = e1  e2 = e2  w1 = w1  w2 = w2  p1 = p1  p2 = p2
    Events = {e1}
    Webhooks = {w1}
    Subscribes <- MCSubscribes
    Processors = {p1}
    ApiServer = p1
    RetryScheduleLen = 6
    EnqueueMaxAttempts = 6
    BatchSize = 50
    MaxCrashes = 1
    MaxDbErrors = 1
    MaxRetries = 1
    MaxVersion = 1
    NoRow = NoRow
    NoDelivery = NoDelivery
    NoUpdate = NoUpdate
SPECIFICATION FairSpec
INVARIANT TypeOK
INVARIANT NeverAbandonedEarly
PROPERTY EventuallySettled
