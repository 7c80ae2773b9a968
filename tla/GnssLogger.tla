------------------------------ MODULE GnssLogger -----------------------------
(***************************************************************************)
(* The logging firmware as a whole: the GNSS event handler (gnss.c) and    *)
(* the button handler (led_buttons.c), which run as interrupts, and the    *)
(* poll loop of the main thread with rollover_lz4log and sync_files        *)
(* (main.c), which they interrupt between any two steps.                   *)
(*                                                                         *)
(* The log stream is LogFile, which Lz4Stream implements; one upload is a  *)
(* step that succeeds or fails. Time is counted in PVT periods: time t is  *)
(* period Tod(t) of day Day(t), and 0 is the all-zero datetime of a        *)
(* pvt_data that was never read. Calendar and TimeOfDay say what is in the *)
(* fields of pvt_data.datetime then.                                       *)
(***************************************************************************)
EXTENDS Naturals, Sequences, FiniteSets

CONSTANTS
    QLEN,       \* capacity of nmea_queue (gnss.c:34)
    DAYLEN,     \* PVT periods in a day
    DateFields, \* of pvt_data.datetime: year, month, day
    TimeFields, \* of pvt_data.datetime: hour, minute, seconds
    Calendar,   \* Calendar[d]: the date fields on day d
    TimeOfDay,  \* TimeOfDay[p]: the time fields in period p of a day
    MAXCLOCK,   \* bound: PVT periods
    MAXNMEA,    \* bound: NMEA events
    MAXPRESS,   \* bound: presses of the button
    MAXCRASH,   \* bound: power losses
    UPLOAD,     \* confdata.upload == 1
    Faults,     \* what may fail: lz4open ("log"), stop_gnss ("stop"),
                \* lte_connect ("connect"), lte_disconnect ("disconnect"),
                \* start_gnss ("start")
    Status,     \* the JSON header of a log
    Unread,     \* a field of pvt_data.datetime not read yet
    NoFile      \* no such file on the card

ASSUME ConstantsAssumption ==
    /\ QLEN \in Nat \ {0} /\ DAYLEN \in Nat \ {0}
    /\ MAXCLOCK \in Nat \ {0}
    /\ MAXNMEA \in Nat /\ MAXPRESS \in Nat /\ MAXCRASH \in Nat
    /\ UPLOAD \in BOOLEAN
    /\ Faults \subseteq {"log", "stop", "connect", "disconnect", "start"}

Day(t) == IF t = 0 THEN 0 ELSE 1 + ((t - 1) \div DAYLEN)
Tod(t) == IF t = 0 THEN 0 ELSE (t - 1) % DAYLEN

Days  == 0..Day(MAXCLOCK)
Tods  == 0..(DAYLEN - 1)

\* No two days have the same date.
ASSUME CalendarAssumption ==
    /\ DateFields \cap TimeFields = {}
    /\ Calendar \in [Days -> [DateFields -> Nat]]
    /\ TimeOfDay \in [Tods -> [TimeFields -> Nat]]
    /\ \A d, e \in Days : Calendar[d] = Calendar[e] => d = e

(* pvt_data.datetime at time t, and the names made of such fields:         *)
(* <filebase>_<date>T<time>.lz4                                            *)
Fields == DateFields \cup TimeFields
Datetime(t) ==
    [f \in Fields |-> IF f \in DateFields THEN Calendar[Day(t)][f] ELSE TimeOfDay[Tod(t)][f]]
Values(f) == {Datetime(t)[f] : t \in 0..MAXCLOCK}
Names == {n \in [Fields -> UNION {Values(f) : f \in Fields}] :
              \A f \in Fields : n[f] \in Values(f)}

Sentences == [no : 1..MAXNMEA, day : Days]  \* day: of pvt_data when queued
Data      == Sentences \cup {Status}

VARIABLES
    \* written by the interrupt handlers
    clock,          \* the present time
    pvt,            \* pvt_data.datetime
    lastDay,        \* last_day
    fix,            \* gnss_fixed > 0
    nmeaQueue,      \* nmea_queue
    nmeas,          \* NMEA events so far (bound, and the number of a sentence)
    rolloverSem,    \* rollover_event_sem
    \* written by the main thread
    pc,             \* where the poll loop is
    ready,          \* the events[] that k_poll has marked and main not reset
    read,           \* the fields of pvt_data read so far for a file name
    todo,           \* files lsdir_next still has to return
    prevLed,        \* prev_ledstatus
    \* shared
    led,            \* led status
    gnssOn, lteOn,  \* the modem's receiver and its LTE link
    \* the card
    logs, current,  \* LogFile: the .lz4 files, and the log that is open
    okLogs,         \* the .lz4_ok files
    \* bounds
    presses,        \* presses of the button so far
    crashes         \* power losses so far

isr   == <<clock, pvt, lastDay, fix, nmeaQueue, nmeas>>
poll  == <<ready, read>>
sync  == <<todo, prevLed>>
radio == <<gnssOn, lteOn>>
card  == <<logs, current, okLogs>>
bounds == <<presses, crashes>>
vars  == <<isr, rolloverSem, pc, poll, sync, led, radio, card, bounds>>

Log == INSTANCE LogFile

-----------------------------------------------------------------------------
NothingRead == [f \in Fields |-> Unread]

(* The initial value of last_day is no day of the month.                   *)
FirstOfMonth == 1                                   \* mutant
LastDayAtBoot == 0

(* main, after start_gnss                                                  *)
Init ==
    /\ clock = 1 /\ pvt = 0 /\ lastDay = LastDayAtBoot /\ fix = FALSE
    /\ nmeaQueue = <<>> /\ nmeas = 0 /\ rolloverSem = 0
    /\ pc = "poll" /\ ready = {} /\ read = NothingRead
    /\ todo = {} /\ prevLed = "searching" /\ led = "searching"
    /\ gnssOn = TRUE /\ lteOn = FALSE
    /\ Log!Init
    /\ okLogs = [n \in Names |-> NoFile]
    /\ presses = 0 /\ crashes = 0

-----------------------------------------------------------------------------
(* Interrupts                                                              *)

(* NRF_MODEM_GNSS_EVT_PVT. Before its first fix since power-up the receiver*)
(* need not know the time; a read that fails leaves pvt_data as it was.    *)
PvtEvent ==
    /\ gnssOn
    /\ clock' \in {clock, clock + 1} \cap 1..MAXCLOCK
    /\ \E valid \in BOOLEAN :
          /\ \/ pvt' \in IF valid \/ pvt # 0 THEN {clock'} ELSE {0, clock'}
             \/ pvt' = pvt /\ valid = fix
          /\ fix' = valid
          /\ led' = IF valid THEN "logging" ELSE "searching"
          /\ IF Day(pvt') # lastDay
             THEN rolloverSem' = 1 /\ lastDay' = Day(pvt')
             ELSE UNCHANGED <<rolloverSem, lastDay>>
    /\ UNCHANGED <<nmeaQueue, nmeas, pc, poll, sync, radio, card, bounds>>

(* k_msgq_put with K_NO_WAIT.                                              *)
Room == Len(nmeaQueue) < QLEN

(* NRF_MODEM_GNSS_EVT_NMEA: the sentence is dropped when there is no memory*)
(* for it, reading it fails or the queue is full.                          *)
NmeaEvent ==
    /\ gnssOn /\ nmeas < MAXNMEA
    /\ nmeas' = nmeas + 1
    /\ \/ /\ Room
          /\ nmeaQueue' = Append(nmeaQueue, [no |-> nmeas', day |-> Day(pvt)])
       \/ UNCHANGED nmeaQueue
    /\ UNCHANGED <<clock, pvt, lastDay, fix, rolloverSem, pc, poll, sync, led,
                   radio, card, bounds>>

(* The user button.                                                        *)
ButtonPressed ==
    /\ presses < MAXPRESS /\ presses' = presses + 1
    /\ rolloverSem' = 1
    /\ UNCHANGED <<isr, pc, poll, sync, led, radio, card, crashes>>

-----------------------------------------------------------------------------
(* The poll loop                                                           *)

(* k_poll waits for either event,                                          *)
QueuePolled == nmeaQueue # <<>>                     \* mutant: one event polled
EventPending == rolloverSem = 1 \/ nmeaQueue # <<>>

(* the rollover is handled before a sentence,                              *)
SentenceFirst(events) == IF "nmea" \in events THEN "queue" ELSE "rollover" \* mutant
FirstStage(events) == IF "rollover" \in events THEN "rollover" ELSE "queue"

(* and every event whose condition holds is marked.                        *)
PollReturns ==
    /\ pc = "poll" /\ EventPending
    /\ ready' = ready \cup {e \in {"rollover", "nmea"} :
                              \/ e = "rollover" /\ rolloverSem = 1
                              \/ e = "nmea" /\ nmeaQueue # <<>>}
    /\ pc' = FirstStage(ready')
    /\ UNCHANGED <<isr, rolloverSem, read, sync, led, radio, card, bounds>>

(* rollover_lz4log: close the log, if one is open;                         *)
RolloverClose ==
    /\ pc = "rollover" /\ rolloverSem = 1
    /\ rolloverSem' = 0
    /\ IF current # {} THEN Log!Finish ELSE UNCHANGED <<logs, current>>
    /\ pc' = "name"
    /\ UNCHANGED <<isr, ready, read, sync, led, radio, okLogs, bounds>>

(* make a name of pvt_data, which the PVT handler may write meanwhile: the *)
(* arguments of sprintf are read one after the other, in an order that is  *)
(* the compiler's, each from the update that is there then;                *)
ReadField(f) ==
    /\ pc = "name" /\ read[f] = Unread
    /\ read' = [read EXCEPT ![f] = Datetime(pvt)[f]]
    /\ UNCHANGED <<isr, rolloverSem, pc, ready, sync, led, radio, card, bounds>>

(* open a log of that name and write the status header, or fail and go on. *)
(* Requests made since the semaphore was taken stay.                       *)
SemReset == 0                                       \* mutant: k_sem_reset
SemKept  == rolloverSem

RolloverDone ==
    /\ rolloverSem' = SemKept
    /\ pc' = IF UPLOAD THEN "sync" ELSE "queue"
    /\ ready' = IF UPLOAD THEN ready ELSE ready \ {"rollover"}
    /\ read' = NothingRead
    /\ UNCHANGED <<isr, sync, led, radio, okLogs, bounds>>

AllRead == \A f \in Fields : read[f] # Unread

RolloverOpen ==
    /\ pc = "name" /\ AllRead
    /\ current' = {[name |-> read, data |-> <<Status>>]}
    /\ UNCHANGED logs
    /\ RolloverDone

RolloverFails ==
    /\ pc = "name" /\ AllRead
    /\ "log" \in Faults
    /\ UNCHANGED <<logs, current>>
    /\ RolloverDone

(* sync_files: remember and set the led, list the directory; when there is *)
(* something to upload, the radio changes over before the first file.      *)
ReceiverLeftOn == "connect"                         \* mutant: no stop_gnss
ReceiverFirst  == "stop"

(* The files lsdir_next returns: those of the data directory with the      *)
(* suffix .lz4.                                                            *)
ListedLogs == {n \in Names : logs[n] # NoFile}

SyncStart ==
    /\ pc = "sync"
    /\ prevLed' = led /\ led' = "uploading"
    /\ todo' = ListedLogs
    /\ pc' = IF todo' = {} THEN "done" ELSE ReceiverFirst
    /\ UNCHANGED <<isr, rolloverSem, poll, radio, card, bounds>>

(* What the modem is asked for may fail; main.c does not look at results.  *)
Asked(what, switch, on) ==
    \/ switch' = on
    \/ what \in Faults /\ UNCHANGED switch

SyncStopGnss ==
    /\ pc = "stop" /\ pc' = "connect"
    /\ Asked("stop", gnssOn, FALSE)
    /\ UNCHANGED <<isr, rolloverSem, poll, sync, led, lteOn, card, bounds>>

(* lteOn: LTE is activated. It is, too, when lte_connect gives up waiting  *)
(* for the network; the uploads may then fail, or not if it comes late.    *)
SyncConnect ==
    /\ pc = "connect" /\ pc' = "upload"
    /\ Asked("connect", lteOn, TRUE)
    /\ UNCHANGED <<isr, rolloverSem, poll, sync, led, gnssOn, card, bounds>>

(* Upload each file, and rename it if that succeeded.                      *)
SyncUpload(n) ==
    /\ pc = "upload" /\ n \in todo
    /\ todo' = todo \ {n}
    /\ \/ /\ lteOn
          /\ okLogs' = [okLogs EXCEPT ![n] = logs[n]]
          /\ logs' = [logs EXCEPT ![n] = NoFile]
       \/ UNCHANGED <<logs, okLogs>>
    /\ UNCHANGED <<isr, rolloverSem, pc, poll, prevLed, led, radio, current, bounds>>

(* Disconnect, restart the receiver,                                       *)
ReceiverForgotten == "done"                         \* mutant: no start_gnss
ReceiverNext      == "start"

SyncDisconnect ==
    /\ pc = "upload" /\ todo = {} /\ pc' = ReceiverNext
    /\ Asked("disconnect", lteOn, FALSE)
    /\ UNCHANGED <<isr, rolloverSem, poll, sync, led, gnssOn, card, bounds>>

SyncStartGnss ==
    /\ pc = "start" /\ pc' = "done"
    /\ Asked("start", gnssOn, TRUE)
    /\ UNCHANGED <<isr, rolloverSem, poll, sync, led, lteOn, card, bounds>>

(* and put the led back.                                                   *)
SyncEnd ==
    /\ pc = "done"
    /\ led' = prevLed /\ prevLed' = "searching"        \* out of scope
    /\ ready' = ready \ {"rollover"}
    /\ pc' = "queue"
    /\ UNCHANGED <<isr, rolloverSem, read, todo, radio, card, bounds>>

(* k_msgq_get                                                              *)
Peeked(queue) == queue                              \* mutant: k_msgq_peek
Taken(queue)  == Tail(queue)

(* Take one sentence off the queue; log it if a log is open and there is a *)
(* fix now.                                                                *)
HandleNmea ==
    /\ pc = "queue" /\ "nmea" \in ready /\ nmeaQueue # <<>>
    /\ nmeaQueue' = Taken(nmeaQueue)
    /\ IF current # {} /\ fix THEN Log!Append1(Head(nmeaQueue))
                              ELSE UNCHANGED <<logs, current>>
    /\ ready' = ready \ {"nmea"}
    /\ pc' = "poll"
    /\ UNCHANGED <<clock, pvt, lastDay, fix, nmeas, rolloverSem, read,
                   sync, led, radio, okLogs, bounds>>

NoNmea ==
    /\ pc = "queue" /\ "nmea" \notin ready
    /\ pc' = "poll"
    /\ UNCHANGED <<isr, rolloverSem, poll, sync, led, radio, card, bounds>>

-----------------------------------------------------------------------------
(* The board loses power and boots again: only the card survives, without  *)
(* the log that was open.                                                  *)
PowerLoss ==
    /\ crashes < MAXCRASH /\ crashes' = crashes + 1
    /\ clock' \in clock..MAXCLOCK
    /\ pvt' = 0 /\ lastDay' = LastDayAtBoot /\ fix' = FALSE
    /\ nmeaQueue' = <<>> /\ rolloverSem' = 0
    /\ pc' = "poll" /\ ready' = {} /\ read' = NothingRead
    /\ todo' = {} /\ prevLed' = "searching" /\ led' = "searching"
    /\ gnssOn' = TRUE /\ lteOn' = FALSE
    /\ current' = {}
    /\ UNCHANGED <<nmeas, logs, okLogs, presses>>

Main ==
    \/ PollReturns
    \/ RolloverClose \/ (\E f \in Fields : ReadField(f)) \/ RolloverOpen \/ RolloverFails
    \/ SyncStart \/ SyncStopGnss \/ SyncConnect
    \/ \E n \in Names : SyncUpload(n)
    \/ SyncDisconnect \/ SyncStartGnss \/ SyncEnd
    \/ HandleNmea \/ NoNmea

Interrupt == PvtEvent \/ NmeaEvent \/ ButtonPressed

Next == Main \/ Interrupt \/ PowerLoss

Spec == Init /\ [][Next]_vars

(* The main thread runs whenever it can; interrupts come as they like.     *)
FairSpec == Spec /\ WF_vars(Main)
-----------------------------------------------------------------------------
(* Properties                                                              *)

\* What the files hold: finished, uploaded and open logs.
Files ==
    {<<".lz4", n, logs[n]>> : n \in {m \in Names : logs[m] # NoFile}}
    \cup {<<".lz4_ok", n, okLogs[n]>> : n \in {m \in Names : okLogs[m] # NoFile}}
    \cup {<<".tmp", c.name, c.data>> : c \in current}

SentencesOf(file) == {s \in {file[3][i] : i \in 1..Len(file[3])} : s # Status}

DateOf(name) == [f \in DateFields |-> name[f]]
OnOrAfter(name, day) == \E d \in Days : d >= day /\ DateOf(name) = Calendar[d]

\* No sentence of a new day ends up among those of a day before: whatever the
\* button, the receiver, a slow upload and k_poll do in between, the main loop
\* rolls over before it writes the first sentence that came after midnight
\* (gnss.c:133 gives the semaphore before the sentence is queued, main.c:234
\* looks at the semaphore before the queue). When the date changes while
\* gnss.c:208-213 read it, the name is of neither day (January 1 between
\* January 31 and February 1); such a log is closed after one sentence.
DayBoundary ==
    \A file \in Files : \A s \in SentencesOf(file) :
        OnOrAfter(file[2], s.day) \/ SentencesOf(file) = {s}

\* The files hold sentences in the order they came, each in one file only,
\* and all of them older than what is still queued (k_msgq is the only path
\* from the interrupt to the card, across rollovers and uploads).
OnceInOrder ==
    /\ \A file \in Files : \A i, j \in 1..Len(file[3]) :
          i < j /\ Status \notin {file[3][i], file[3][j]}
              => file[3][i].no < file[3][j].no
    /\ \A f, g \in Files : f # g => SentencesOf(f) \cap SentencesOf(g) = {}
    /\ nmeaQueue # <<>> =>
          \A file \in Files : \A s \in SentencesOf(file) : s.no < Head(nmeaQueue).no

\* The receiver and the LTE link never run at once, and the receiver is on
\* whenever main.c is not in the middle of sync_files.
RadioHandedOver ==
    /\ ~(gnssOn /\ lteOn)
    /\ pc \notin {"connect", "upload", "start"} => gnssOn /\ ~lteOn

\* "Tiny green flash every 10 seconds: the device is logging GNSS messages"
\* (README.md:64): when the loop is at rest with the green led, a log is open.
LedTellsLogging ==
    pc = "poll" /\ rolloverSem = 0 /\ led = "logging" => current # {}

\* rollover_lz4log opens "a new unused logging stream" (main.c:111): no log of
\* that name is open, finished or uploaded yet.
NewLogIsUnused ==
    \A c \in current : logs[c.name] = NoFile /\ okLogs[c.name] = NoFile

\* A request for a rollover, by day change or button, is always taken up,
\* however many sentences are queued and however long uploads go on, unless
\* power is lost.
RolloverServed == (rolloverSem = 1) ~> (rolloverSem = 0)

\* Once the receiver has reported a day, a log with the date of that day or a
\* later one is opened, also when the change is reported in the middle of a
\* rollover, of making the name or of an upload (a power loss starts over).
DayGetsLog ==
    \A d \in Days : (lastDay = d) ~>
        (lastDay = LastDayAtBoot \/ \E c \in current : OnOrAfter(c.name, d))

\* "Closing LTE link and restarting GNSS" (main.c:93): the receiver is always
\* started again after it was stopped for an upload.
GnssBackOn == (~gnssOn) ~> gnssOn
==============================================================================
