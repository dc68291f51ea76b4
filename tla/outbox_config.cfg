\* Does a send after UpdateWebhook or DeleteWebhook use the webhook's
\* current configuration?  One event, one webhook, one update.
CONSTANTS
    e1 = e1  e2 = e2  w1 = w1  w2 = w2  p1 = p1  p2 = p2
    Events = {e1}
    Webhooks = {w1}
    Subscribes <- MCSubscribes
    Processors = {p1}
    ApiServer = p1
    RetryScheduleLen = 6
    EnqueueMaxAttempts = 6
    BatchSize = 50
    MaxCrashes = 0
    MaxDbErrors = 0
    MaxRetries = 0
    MaxVersion = 1
    NoRow = NoRow
    NoDelivery = NoDelivery
    NoUpdate = NoUpdate
SPECIFICATION Spec
PROPERTY SendsCurrentConfig
