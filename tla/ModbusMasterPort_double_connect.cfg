\* Two threads both pass the unlocked checks of Enable and Connect, and the
\* second calls modbus_connect on the context the first has opened.
CONSTANTS
    MaxFail <- MCMaxFail
    MaxPending <- MCMaxPending
SPECIFICATION Spec
INVARIANT NoConnectOnOpen
