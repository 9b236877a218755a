\* Every interleaving of Enable, Disable, upstream Event, connection loss
\* and the timer handlers, with Enable and Connect split at their unlocked
\* checks: under fair timers a disabled port's poll timer falls quiet.
CONSTANTS
    MaxFail <- MCMaxFail
    MaxPending <- MCMaxPending
SPECIFICATION FairSpec
INVARIANT TypeOK
PROPERTY PollQuietWhenDisabled
