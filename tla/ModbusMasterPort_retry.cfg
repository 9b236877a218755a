\* With the io_service running timers fairly, a failed connect of an
\* enabled persistent port is never retried.
CONSTANTS
    MaxFail <- MCMaxFail
    MaxPending <- MCMaxPending
SPECIFICATION FairSpec
PROPERTY RetryReconnects
