\* Two handlers race each other and the alarm; a second may pass between a
\* thread's reading of the clock and its use.
SPECIFICATION IdleFairSpec
CONSTANTS
    Workers = {w1, w2}
    Timeout = 2
    MaxStall = 1
    MaxOpen = 2
    NarrowTime = FALSE
    None = None
INVARIANTS
    RefcountTracksHandles
    KillJustified
PROPERTIES
    IdleUnmounts
    AlarmStops
