\* Fair scheduling of the main thread; the radio fails, but for its restart.
CONSTANTS
    QLEN = 2
    DAYLEN = 2
    DateFields = {"month", "day"}
    TimeFields = {}
    Calendar <- MCCalendar
    TimeOfDay <- MCNoTime
    MAXCLOCK = 3
    MAXNMEA = 1
    MAXPRESS = 1
    MAXCRASH = 1
    UPLOAD = TRUE
    Faults = {"stop", "connect", "disconnect"}
    Status = Status
    Unread = Unread
    NoFile = NoFile
SPECIFICATION FairSpec
INVARIANT LedTellsLogging
PROPERTY RolloverServed
PROPERTY DayGetsLog
PROPERTY GnssBackOn
