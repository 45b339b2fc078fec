\* Two requests on one action with two payloads, every threshold crossed, under the
\* fairness of the host.
CONSTANTS
    Requests = {r1, r2}
    Keys = {k1}
    Fingerprints = {f1, f2}
    TTL = 2
    StaleAfter = 1
    RetainFor = 2
    Horizon = 3
    NoRow = NoRow
SPECIFICATION FairSpec
INVARIANTS
    AtMostOnePublisher
    ReceiptsTellTheTruth
PROPERTIES
    RedispatchOnlyAfterRetention
    KeepsPromise
    EveryRecordIsSettled
CHECK_DEADLOCK FALSE
