SPECIFICATION FairSpec
CONSTANTS
    hourly = hourly
    daily = daily
    utc = utc
    cet = cet
    Ticks = {i1, i2}
    Editors = {e1}
    Crons = {hourly, daily}
    Zones = {utc}
    Keep = Keep
    Horizon = 3
    NextFire <- FireTimes
    HasDeps = TRUE
    Faults = TRUE
INVARIANT TypeOK
INVARIANT FiredOnce
INVARIANT NextIsOfRow
PROPERTY DueTickFires
CHECK_DEADLOCK FALSE
