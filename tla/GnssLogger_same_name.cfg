\* Names of logs when nothing is uploaded.
CONSTANTS
    QLEN = 2
    DAYLEN = 2
    DateFields = {"month", "day"}
    TimeFields = {"time"}
    Calendar <- MCCalendar
    TimeOfDay <- MCTimeOfDay
    MAXCLOCK = 3
    MAXNMEA = 3
    MAXPRESS = 1
    MAXCRASH = 0
    UPLOAD = FALSE
    Faults = {}
    Status = Status
    Unread = Unread
    NoFile = NoFile
SPECIFICATION Spec
INVARIANT NewLogIsUnused
