\* Two days, a press, a power loss, logs that cannot be opened and links that fail.
CONSTANTS
    QLEN = 2
    DAYLEN = 2
    DateFields = {"month", "day"}
    TimeFields = {"time"}
    Calendar <- MCCalendar
    TimeOfDay <- MCTimeOfDay
    MAXCLOCK = 3
    MAXNMEA = 2
    MAXPRESS = 1
    MAXCRASH = 1
    UPLOAD = TRUE
    Faults = {"log", "connect"}
    Status = Status
    Unread = Unread
    NoFile = NoFile
SPECIFICATION Spec
INVARIANT DayBoundary
INVARIANT OnceInOrder
INVARIANT RadioHandedOver
