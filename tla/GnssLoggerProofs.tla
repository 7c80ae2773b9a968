--------------------------- MODULE GnssLoggerProofs ---------------------------
(***************************************************************************)
(* Theorems about GnssLogger: for any length of queue and day, any number  *)
(* of PVT updates, sentences, presses and power losses.                    *)
(***************************************************************************)
EXTENDS GnssLogger, TLAPS

Stages == {"poll", "rollover", "name", "sync", "stop", "connect", "upload", "start",
           "done", "queue"}

LogData == Seq(Data)

TypeOK ==
    /\ clock \in 1..MAXCLOCK /\ pvt \in 0..clock
    /\ lastDay = Day(pvt)
    /\ fix \in BOOLEAN
    /\ nmeas \in Nat /\ nmeaQueue \in Seq(Sentences)
    /\ rolloverSem \in {0, 1}
    /\ pc \in Stages /\ ready \subseteq {"rollover", "nmea"}
    /\ DOMAIN read = Fields /\ \A f \in Fields : read[f] \in Values(f) \cup {Unread}
    /\ read = [f \in Fields |-> read[f]]
    /\ todo \subseteq Names
    /\ gnssOn \in BOOLEAN /\ lteOn \in BOOLEAN
    /\ logs \in [Names -> LogData \cup {NoFile}]
    /\ okLogs \in [Names -> LogData \cup {NoFile}]
    /\ current \subseteq [name : Names, data : LogData]

-----------------------------------------------------------------------------
(* Time.                                                                   *)

LEMMA DayIsNat ==
    ASSUME NEW t \in Nat
    PROVE  Day(t) \in Nat
<1>1. CASE t = 0 BY <1>1 DEF Day
<1>2. CASE t # 0
  <2>1. t - 1 \in Nat BY <1>2
  <2>2. (t - 1) \div DAYLEN \in Nat BY <2>1, ConstantsAssumption
  <2> QED BY <1>2, <2>2 DEF Day
<1> QED BY <1>1, <1>2

LEMMA DivMonotone ==
    ASSUME NEW a \in Nat, NEW b \in Nat, NEW d \in Nat \ {0}, a <= b
    PROVE  a \div d <= b \div d
OBVIOUS

LEMMA DayMonotone ==
    ASSUME NEW s \in Nat, NEW t \in Nat, s <= t
    PROVE  Day(s) <= Day(t)
<1>1. CASE s = 0 BY <1>1, DayIsNat DEF Day
<1>2. CASE s # 0
  <2>1. s - 1 \in Nat /\ t - 1 \in Nat /\ s - 1 <= t - 1 /\ t # 0 BY <1>2
  <2>2. (s - 1) \div DAYLEN <= (t - 1) \div DAYLEN
    BY <2>1, DivMonotone, ConstantsAssumption
  <2>3. (s - 1) \div DAYLEN \in Nat /\ (t - 1) \div DAYLEN \in Nat
    BY <2>1, ConstantsAssumption
  <2> QED BY <1>2, <2>1, <2>2, <2>3 DEF Day
<1> QED BY <1>1, <1>2

LEMMA TodType ==
    ASSUME NEW t \in Nat
    PROVE  Tod(t) \in Tods
<1>1. CASE t = 0 BY <1>1, ConstantsAssumption DEF Tod, Tods
<1>2. CASE t # 0
  <2>1. t - 1 \in Nat BY <1>2
  <2>2. (t - 1) % DAYLEN \in 0..(DAYLEN - 1) BY <2>1, ConstantsAssumption
  <2> QED BY <1>2, <2>2 DEF Tod, Tods
<1> QED BY <1>1, <1>2

LEMMA DayType ==
    ASSUME NEW t \in 0..MAXCLOCK
    PROVE  Day(t) \in Days
BY DayIsNat, DayMonotone, ConstantsAssumption DEF Days

-----------------------------------------------------------------------------
(* Types.                                                                  *)

LEMMA TypeInit == Init => TypeOK
<1> SUFFICES ASSUME Init PROVE TypeOK
  OBVIOUS
<1>1. nmeaQueue \in Seq(Sentences) BY DEF Init
<1>2. lastDay = Day(pvt) BY DEF Init, LastDayAtBoot, Day
<1>3. /\ logs \in [Names -> LogData \cup {NoFile}] /\ current = {}
      /\ okLogs \in [Names -> LogData \cup {NoFile}]
  BY DEF Init, Log!Init
<1>4. clock \in 1..MAXCLOCK /\ pvt \in 0..clock /\ nmeas \in Nat
  BY ConstantsAssumption DEF Init
<1>5. fix \in BOOLEAN /\ gnssOn \in BOOLEAN /\ lteOn \in BOOLEAN BY DEF Init
<1>6. /\ rolloverSem \in {0, 1} /\ pc \in Stages /\ ready = {} /\ todo = {}
  BY DEF Init, Stages
<1>7. read = NothingRead BY DEF Init
<1> QED BY <1>1, <1>2, <1>3, <1>4, <1>5, <1>6, <1>7 DEF TypeOK, NothingRead

LEMMA PvtDay ==
    ASSUME TypeOK
    PROVE  Day(pvt) \in Days
<1>1. pvt \in 0..MAXCLOCK BY ConstantsAssumption DEF TypeOK
<1> QED BY <1>1, DayType

LEMMA TypeStep == TypeOK /\ [Next]_vars => TypeOK'
<1> SUFFICES ASSUME TypeOK, [Next]_vars PROVE TypeOK'
  OBVIOUS
<1> USE DEF TypeOK, Stages
<1>1. CASE PvtEvent
  <2>1. clock' \in {clock, clock + 1} \cap 1..MAXCLOCK /\ (pvt' \in {0, clock'} \/ pvt' = pvt)
    BY <1>1 DEF PvtEvent
  <2>2. clock' \in 1..MAXCLOCK /\ pvt' \in 0..clock' BY <2>1
  <2>3. lastDay' = Day(pvt') /\ rolloverSem' \in {0, 1} BY <1>1 DEF PvtEvent, Day
  <2> QED BY <1>1, <2>2, <2>3 DEF PvtEvent, poll, sync, radio, card
<1>2. CASE NmeaEvent
  <2>1. Day(pvt) \in Days BY PvtDay
  <2>2. nmeas' \in 1..MAXNMEA BY <1>2, ConstantsAssumption DEF NmeaEvent
  <2>3. [no |-> nmeas', day |-> Day(pvt)] \in Sentences BY <2>1, <2>2 DEF Sentences
  <2>4. nmeaQueue' \in Seq(Sentences) BY <1>2, <2>3 DEF NmeaEvent
  <2>5. nmeas' \in Nat /\ lastDay' = Day(pvt)' BY <1>2 DEF NmeaEvent, Day
  <2> QED BY <1>2, <2>4, <2>5 DEF NmeaEvent, poll, sync, radio, card
<1>3. CASE ButtonPressed
  BY <1>3 DEF ButtonPressed, isr, poll, sync, radio, card, Day
<1>4. CASE PollReturns
  BY <1>4 DEF PollReturns, FirstStage, isr, sync, radio, card, Day
<1>5. CASE RolloverClose
  <2>1. CASE current # {}
    <3>1. PICK c \in current : logs' = [logs EXCEPT ![c.name] = c.data]
      BY <1>5, <2>1 DEF RolloverClose, Log!Finish
    <3>2. c.name \in Names /\ c.data \in LogData OBVIOUS
    <3>3. logs' \in [Names -> LogData \cup {NoFile}] BY <3>1, <3>2
    <3>4. current' = {} BY <1>5, <2>1 DEF RolloverClose, Log!Finish
    <3> QED BY <1>5, <3>3, <3>4 DEF RolloverClose, isr, sync, radio, Day
  <2>2. CASE current = {}
    BY <1>5, <2>2 DEF RolloverClose, isr, sync, radio, Day
  <2> QED BY <2>1, <2>2
<1>6. CASE \E f \in Fields : ReadField(f)
  <2>1. PICK f \in Fields : ReadField(f) BY <1>6
  <2>2. pvt \in 0..MAXCLOCK BY ConstantsAssumption
  <2>3. Datetime(pvt)[f] \in Values(f) BY <2>2 DEF Values
  <2>4. /\ DOMAIN read' = Fields /\ read' = [g \in Fields |-> read'[g]]
        /\ \A g \in Fields : read'[g] = IF g = f THEN Datetime(pvt)[f] ELSE read[g]
    BY <2>1 DEF ReadField
  <2>5. \A g \in Fields : read'[g] \in Values(g) \cup {Unread} BY <2>3, <2>4
  <2> QED BY <2>1, <2>4, <2>5 DEF ReadField, isr, sync, radio, card, Day
<1>8. CASE RolloverOpen
  <2>1. read \in Names
    <3>1. \A f \in Fields : read[f] \in Values(f) BY <1>8 DEF RolloverOpen, AllRead
    <3>2. \A f \in Fields : read[f] \in UNION {Values(g) : g \in Fields} BY <3>1
    <3>3. read \in [Fields -> UNION {Values(g) : g \in Fields}] BY <3>2
    <3> QED BY <3>1, <3>3 DEF Names
  <2>2. <<Status>> \in LogData BY DEF LogData, Data
  <2>3. current' \subseteq [name : Names, data : LogData] BY <1>8, <2>1, <2>2 DEF RolloverOpen
  <2> QED BY <1>8, <2>3
          DEF RolloverOpen, RolloverDone, SemKept, NothingRead, isr, sync, radio, Day
<1>9. CASE RolloverFails
  BY <1>9 DEF RolloverFails, RolloverDone, SemKept, NothingRead, isr, sync, radio, Day
<1>10. CASE SyncStart
  BY <1>10 DEF SyncStart, ReceiverFirst, ListedLogs, isr, poll, radio, card, Day
<1>11. CASE SyncStopGnss \/ SyncConnect \/ SyncDisconnect \/ SyncStartGnss
  BY <1>11 DEF SyncStopGnss, SyncConnect, SyncDisconnect, SyncStartGnss, ReceiverNext,
               Asked, isr, poll, sync, card, Day
<1>12. CASE \E n \in Names : SyncUpload(n)
  <2>1. PICK n \in Names : SyncUpload(n) BY <1>12
  <2>2. /\ logs' \in [Names -> LogData \cup {NoFile}]
        /\ okLogs' \in [Names -> LogData \cup {NoFile}]
    BY <2>1 DEF SyncUpload
  <2> QED BY <2>1, <2>2 DEF SyncUpload, isr, poll, radio, Day
<1>13. CASE SyncEnd
  BY <1>13 DEF SyncEnd, isr, radio, card, Day
<1>14. CASE HandleNmea
  <2>1. Head(nmeaQueue) \in Sentences /\ Tail(nmeaQueue) \in Seq(Sentences)
    BY <1>14 DEF HandleNmea
  <2>2. nmeaQueue' \in Seq(Sentences) BY <1>14, <2>1 DEF HandleNmea, Taken
  <2>3. logs' = logs BY <1>14 DEF HandleNmea, Log!Append1
  <2>4. current' \subseteq [name : Names, data : LogData]
    <3>1. CASE UNCHANGED current BY <3>1
    <3>2. CASE Log!Append1(Head(nmeaQueue))
      <4>1. PICK c \in current :
              current' = {[name |-> c.name, data |-> Append(c.data, Head(nmeaQueue))]}
        BY <3>2 DEF Log!Append1
      <4>2. Append(c.data, Head(nmeaQueue)) \in LogData
        BY <2>1 DEF LogData, Data
      <4> QED BY <4>1, <4>2
    <3> QED BY <1>14, <3>1, <3>2 DEF HandleNmea
  <2> QED BY <1>14, <2>2, <2>3, <2>4 DEF HandleNmea, sync, radio, Day
<1>15. CASE NoNmea
  BY <1>15 DEF NoNmea, isr, poll, sync, radio, card, Day
<1>16. CASE PowerLoss
  <2>1. clock' \in 1..MAXCLOCK /\ pvt' = 0 BY <1>16 DEF PowerLoss
  <2>2. lastDay' = Day(pvt') BY <1>16, <2>1 DEF PowerLoss, LastDayAtBoot, Day
  <2>3. fix' \in BOOLEAN /\ gnssOn' \in BOOLEAN /\ lteOn' \in BOOLEAN
    BY <1>16 DEF PowerLoss
  <2>4. nmeaQueue' \in Seq(Sentences) /\ current' = {} /\ UNCHANGED <<nmeas, logs, okLogs>>
    BY <1>16 DEF PowerLoss
  <2>5. /\ rolloverSem' = 0 /\ pc' = "poll" /\ ready' = {} /\ todo' = {}
        /\ read' = NothingRead
    BY <1>16 DEF PowerLoss
  <2>6. pvt' \in 0..clock' BY <2>1
  <2> QED BY <2>1, <2>2, <2>3, <2>4, <2>5, <2>6 DEF NothingRead
<1>17. CASE UNCHANGED vars
  BY <1>17 DEF vars, isr, poll, sync, radio, card, Day
<1> QED BY <1>1, <1>2, <1>3, <1>4, <1>5, <1>6, <1>8, <1>9, <1>10, <1>11, <1>12,
           <1>13, <1>14, <1>15, <1>16, <1>17 DEF Next, Main, Interrupt

\* Type correctness. lastDay is the day of pvt_data at all times: every update
\* compares the two (gnss.c:133-138).
THEOREM TypeCorrect == Spec => []TypeOK
BY TypeInit, TypeStep, PTL DEF Spec

-----------------------------------------------------------------------------
(* The radio.                                                              *)

RadioObeys == Faults \cap {"stop", "disconnect", "start"} = {}

\* What sync_files has switched so far.
RadioInv ==
    /\ gnssOn \in BOOLEAN /\ lteOn \in BOOLEAN
    /\ pc \in {"connect", "start"} => ~gnssOn /\ ~lteOn
    /\ pc = "upload" => ~gnssOn
    /\ pc \notin {"connect", "start", "upload"} => gnssOn /\ ~lteOn

\* Receiver and LTE link take turns, whatever connecting does, if the modem
\* stops, disconnects and starts when it is told to (main.c:66-98).
THEOREM RadioTakesTurns ==
    ASSUME RadioObeys
    PROVE  Spec => []RadioHandedOver
<1>1. Init => RadioInv BY DEF Init, RadioInv
<1>2. RadioInv /\ [Next]_vars => RadioInv'
  <2> SUFFICES ASSUME RadioInv, [Next]_vars PROVE RadioInv'
    OBVIOUS
  <2> USE DEF RadioInv, radio
  <2>1. CASE Interrupt
    BY <2>1 DEF Interrupt, PvtEvent, NmeaEvent, ButtonPressed
  <2>2. CASE PollReturns
    BY <2>2 DEF PollReturns, FirstStage
  <2>3. CASE RolloverClose \/ \E f \in Fields : ReadField(f)
    BY <2>3 DEF RolloverClose, ReadField
  <2>4. CASE RolloverOpen \/ RolloverFails
    BY <2>4 DEF RolloverOpen, RolloverFails, RolloverDone
  <2>5. CASE SyncStart
    BY <2>5 DEF SyncStart, ReceiverFirst
  <2>6. CASE SyncStopGnss
    <3>1. gnssOn' = FALSE BY <2>6, RadioObeys DEF SyncStopGnss, Asked, RadioObeys
    <3> QED BY <2>6, <3>1 DEF SyncStopGnss
  <2>7. CASE SyncConnect
    <3>1. lteOn' \in BOOLEAN BY <2>7 DEF SyncConnect, Asked
    <3> QED BY <2>7, <3>1 DEF SyncConnect
  <2>8. CASE \E n \in Names : SyncUpload(n)
    BY <2>8 DEF SyncUpload
  <2>9. CASE SyncDisconnect
    <3>1. lteOn' = FALSE BY <2>9, RadioObeys DEF SyncDisconnect, Asked, RadioObeys
    <3> QED BY <2>9, <3>1 DEF SyncDisconnect, ReceiverNext
  <2>10. CASE SyncStartGnss
    <3>1. gnssOn' = TRUE BY <2>10, RadioObeys DEF SyncStartGnss, Asked, RadioObeys
    <3> QED BY <2>10, <3>1 DEF SyncStartGnss
  <2>11. CASE SyncEnd \/ HandleNmea \/ NoNmea
    BY <2>11 DEF SyncEnd, HandleNmea, NoNmea
  <2>12. CASE PowerLoss
    BY <2>12 DEF PowerLoss
  <2>13. CASE UNCHANGED vars
    BY <2>13 DEF vars
  <2> QED BY <2>1, <2>2, <2>3, <2>4, <2>5, <2>6, <2>7, <2>8, <2>9, <2>10, <2>11, <2>12,
             <2>13 DEF Next, Main
<1>3. RadioInv => RadioHandedOver BY DEF RadioInv, RadioHandedOver
<1> QED BY <1>1, <1>2, <1>3, PTL DEF Spec

-----------------------------------------------------------------------------
(* The day boundary.                                                       *)

\* The sentences in the data of a log.
Sents(data) == {data[i] : i \in 1..Len(data)} \ {Status}

\* What DayBoundary says of a file.
Bounded(name, data) ==
    \A s \in Sents(data) : OnOrAfter(name, s.day) \/ Sents(data) = {s}

FilesInv ==
    /\ \A n \in Names : logs[n] # NoFile => Bounded(n, logs[n])
    /\ \A n \in Names : okLogs[n] # NoFile => Bounded(n, okLogs[n])

\* Unless a rollover is asked for, the open log has the date that pvt_data
\* says, and so has what was read of the date for the next one.
RequestInv ==
    /\ \A i \in 1..Len(nmeaQueue) : nmeaQueue[i].day <= lastDay
    /\ rolloverSem = 0 => \A c \in current : DateOf(c.name) = Calendar[lastDay]
    /\ rolloverSem = 0 =>
          \A f \in DateFields : read[f] # Unread => read[f] = Calendar[lastDay][f]
    /\ pc # "name" => read = NothingRead
    /\ pc = "name" => current = {}

\* Once k_poll has marked a sentence, the head of the queue stays.
MarkedInv ==
    /\ pc = "poll" => ready = {}
    /\ pc = "queue" => "rollover" \notin ready
    /\ "nmea" \in ready => nmeaQueue # <<>>

\* A log that may have been given a date of neither day is closed after the
\* sentence that was marked when it was opened. Every other one has the date of
\* its sentences, and of the one marked next, but for the log about to be closed.
DatedWell(c) ==
    /\ \A s \in Sents(c.data) : OnOrAfter(c.name, s.day)
    /\ "nmea" \in ready /\ pc # "rollover" => OnOrAfter(c.name, Head(nmeaQueue).day)

Brief(c) ==
    /\ rolloverSem = 1
    /\ pc \in {"poll", "rollover"} => \A s, t \in Sents(c.data) : s = t
    /\ pc \notin {"poll", "rollover"} => Sents(c.data) = {}

OpenInv == \A c \in current : DatedWell(c) \/ Brief(c)

DayInv == TypeOK /\ FilesInv /\ RequestInv /\ MarkedInv /\ OpenInv

LEMMA DayInit == Init => DayInv
<1> SUFFICES ASSUME Init PROVE DayInv
  OBVIOUS
<1>1. /\ nmeaQueue = <<>> /\ current = {} /\ read = NothingRead /\ ready = {}
      /\ pc = "poll"
  BY DEF Init, Log!Init
<1>2. \A n \in Names : logs[n] = NoFile /\ okLogs[n] = NoFile BY DEF Init, Log!Init
<1>3. \A f \in DateFields : read[f] = Unread BY <1>1 DEF NothingRead, Fields
<1> QED BY <1>1, <1>2, <1>3, TypeInit
        DEF DayInv, FilesInv, RequestInv, MarkedInv, OpenInv

LEMMA SentsAppend ==
    ASSUME NEW data \in LogData, NEW s \in Sentences
    PROVE  Sents(Append(data, s)) \subseteq Sents(data) \cup {s}
<1>1. data \in Seq(Data) /\ s \in Data BY DEF LogData, Data
<1> SUFFICES ASSUME NEW i \in 1..Len(Append(data, s)), Append(data, s)[i] # Status
             PROVE  Append(data, s)[i] \in Sents(data) \cup {s}
  BY DEF Sents
<1>3. CASE i = Len(data) + 1 BY <1>1, <1>3
<1>4. CASE i \in 1..Len(data) BY <1>1, <1>4 DEF Sents
<1> QED BY <1>1, <1>3, <1>4

LEMMA QueueAppend ==
    ASSUME NEW q \in Seq(Sentences), NEW s \in Sentences
    PROVE  /\ Append(q, s) # <<>>
           /\ q # <<>> => Head(Append(q, s)) = Head(q)
           /\ \A i \in 1..Len(Append(q, s)) :
                 Append(q, s)[i] = s \/ (i \in 1..Len(q) /\ Append(q, s)[i] = q[i])
OBVIOUS

LEMMA QueueTail ==
    ASSUME NEW q \in Seq(Sentences), q # <<>>
    PROVE  /\ Tail(q) \in Seq(Sentences) /\ Head(q) = q[1] /\ 1 \in 1..Len(q)
           /\ Len(Tail(q)) = Len(q) - 1
           /\ \A i \in 1..Len(Tail(q)) : i + 1 \in 1..Len(q) /\ Tail(q)[i] = q[i + 1]
OBVIOUS

LEMMA SentenceDay ==
    ASSUME NEW s \in Sentences
    PROVE  s.day \in Nat
BY DEF Sentences, Days

\* Days do not go back while the board has power.
LEMMA PvtAdvances ==
    ASSUME TypeOK, PvtEvent
    PROVE  /\ lastDay \in Nat /\ lastDay' \in Nat /\ lastDay <= lastDay'
           /\ rolloverSem' = 0 => rolloverSem = 0 /\ lastDay' = lastDay
<1>1. clock' \in {clock, clock + 1} BY DEF PvtEvent
<1>2. pvt' = clock' \/ pvt' = pvt \/ (pvt = 0 /\ pvt' = 0) BY DEF PvtEvent
<1>3. pvt \in Nat /\ pvt' \in Nat /\ pvt <= pvt' BY <1>1, <1>2 DEF TypeOK
<1>4. lastDay = Day(pvt) /\ lastDay' = Day(pvt') BY DEF TypeOK, PvtEvent
<1>5. rolloverSem' = 0 => rolloverSem = 0 /\ lastDay' = lastDay
  BY DEF PvtEvent
<1> QED BY <1>3, <1>4, <1>5, DayIsNat, DayMonotone

\* A log with today's date takes the sentence at the head of the queue.
LEMMA HeadInTime ==
    ASSUME TypeOK, RequestInv, nmeaQueue # <<>>,
           NEW name, DateOf(name) = Calendar[lastDay]
    PROVE  OnOrAfter(name, Head(nmeaQueue).day)
<1>1. Head(nmeaQueue) = nmeaQueue[1] /\ 1 \in 1..Len(nmeaQueue)
  BY QueueTail DEF TypeOK
<1>2. Head(nmeaQueue).day <= lastDay BY <1>1 DEF RequestInv
<1>3. Head(nmeaQueue) \in Sentences BY DEF TypeOK
<1>4. lastDay \in Days /\ lastDay \in Nat /\ Head(nmeaQueue).day \in Nat
  BY <1>3, PvtDay, SentenceDay DEF TypeOK, Days
<1> QED BY <1>2, <1>4 DEF OnOrAfter

\* Steps that leave the logs, the queue and the requests alone.
LEMMA OpenKept ==
    ASSUME OpenInv, UNCHANGED <<current, rolloverSem>>,
           "nmea" \in ready' /\ pc' # "rollover" =>
               "nmea" \in ready /\ pc # "rollover" /\ Head(nmeaQueue') = Head(nmeaQueue),
           pc' \notin {"poll", "rollover"} => pc \notin {"poll", "rollover"}
    PROVE  OpenInv'
<1> SUFFICES ASSUME NEW c \in current PROVE DatedWell(c)' \/ Brief(c)'
  BY DEF OpenInv
<1>1. CASE DatedWell(c) BY <1>1 DEF DatedWell
<1>2. CASE Brief(c) BY <1>2 DEF Brief
<1> QED BY <1>1, <1>2 DEF OpenInv

LEMMA DayStep == DayInv /\ [Next]_vars => DayInv'
<1> SUFFICES ASSUME DayInv, [Next]_vars PROVE DayInv'
  OBVIOUS
<1>t. TypeOK /\ TypeOK' BY TypeStep DEF DayInv
<1>d. lastDay \in Nat /\ lastDay \in Days
  BY <1>t, PvtDay, DayIsNat, ConstantsAssumption DEF TypeOK, Days
<1> USE DEF DayInv
<1>1. CASE PvtEvent
  <2>1. UNCHANGED <<nmeaQueue, pc, ready, read, logs, okLogs, current>>
    BY <1>1 DEF PvtEvent, poll, card
  <2>2. FilesInv' /\ MarkedInv' BY <2>1 DEF FilesInv, MarkedInv
  <2>3. RequestInv'
    <3>1. \A i \in 1..Len(nmeaQueue) : nmeaQueue[i].day <= lastDay'
      <4>1. \A i \in 1..Len(nmeaQueue) : nmeaQueue[i].day \in Nat
        BY <1>t, SentenceDay DEF TypeOK
      <4> QED BY <4>1, <1>1, <1>t, PvtAdvances DEF RequestInv
    <3> QED BY <3>1, <2>1, <1>1, <1>t, PvtAdvances DEF RequestInv
  <2>4. rolloverSem = 1 => rolloverSem' = 1 BY <1>1 DEF PvtEvent
  <2>5. OpenInv' BY <2>1, <2>4 DEF OpenInv, DatedWell, Brief
  <2> QED BY <1>t, <2>2, <2>3, <2>5
<1>2. CASE NmeaEvent
  <2>1. UNCHANGED <<lastDay, rolloverSem, pc, ready, read, logs, okLogs, current>>
    BY <1>2 DEF NmeaEvent, poll, card
  <2>f. FilesInv' BY <2>1 DEF FilesInv
  <2>2. CASE UNCHANGED nmeaQueue
    BY <1>t, <2>1, <2>f, <2>2, OpenKept DEF RequestInv, MarkedInv
  <2>3. CASE nmeaQueue' # nmeaQueue
    <3> DEFINE s == [no |-> nmeas', day |-> Day(pvt)]
    <3>1. nmeaQueue' = Append(nmeaQueue, s) BY <1>2, <2>3 DEF NmeaEvent
    <3>2. s \in Sentences /\ s.day = lastDay
      BY <1>2, <1>t, PvtDay, ConstantsAssumption DEF NmeaEvent, Sentences, TypeOK
    <3>3. nmeaQueue \in Seq(Sentences) BY <1>t DEF TypeOK
    <3> HIDE DEF s
    <3>4. /\ nmeaQueue' # <<>> /\ (nmeaQueue # <<>> => Head(nmeaQueue') = Head(nmeaQueue))
          /\ \A i \in 1..Len(nmeaQueue') :
                nmeaQueue'[i] = s \/ (i \in 1..Len(nmeaQueue) /\ nmeaQueue'[i] = nmeaQueue[i])
      BY <3>1, <3>2, <3>3, QueueAppend
    <3>5. \A i \in 1..Len(nmeaQueue') : nmeaQueue'[i].day <= lastDay
      BY <3>2, <3>4, <1>d DEF RequestInv
    <3>6. "nmea" \in ready => Head(nmeaQueue') = Head(nmeaQueue)
      BY <3>4 DEF MarkedInv
    <3>7. OpenInv' BY <2>1, <3>6, OpenKept
    <3> QED BY <1>t, <2>1, <2>f, <3>4, <3>5, <3>7 DEF RequestInv, MarkedInv
  <2> QED BY <2>2, <2>3
<1>3. CASE ButtonPressed
  <2>1. /\ UNCHANGED <<nmeaQueue, lastDay, pc, ready, read, logs, okLogs, current>>
        /\ rolloverSem' = 1
    BY <1>3 DEF ButtonPressed, isr, poll, card
  <2>2. OpenInv' BY <2>1 DEF OpenInv, DatedWell, Brief
  <2> QED BY <1>t, <2>1, <2>2 DEF FilesInv, RequestInv, MarkedInv
<1>4. CASE PollReturns
  <2>1. /\ UNCHANGED <<nmeaQueue, lastDay, rolloverSem, read, logs, okLogs, current>>
        /\ pc = "poll" /\ read = NothingRead
    BY <1>4 DEF PollReturns, isr, card, RequestInv
  <2>2. ready' = {e \in {"rollover", "nmea"} :
                     \/ e = "rollover" /\ rolloverSem = 1
                     \/ e = "nmea" /\ nmeaQueue # <<>>}
    BY <1>4 DEF PollReturns, MarkedInv
  <2>3. pc' = IF rolloverSem = 1 THEN "rollover" ELSE "queue"
    BY <1>4, <2>2 DEF PollReturns, FirstStage
  <2>4. FilesInv' /\ RequestInv' BY <2>1, <2>3 DEF FilesInv, RequestInv
  <2>5. MarkedInv' BY <2>1, <2>2, <2>3 DEF MarkedInv
  <2>6. OpenInv'
    <3> SUFFICES ASSUME NEW c \in current PROVE DatedWell(c)' \/ Brief(c)'
      BY <2>1 DEF OpenInv
    <3>1. CASE Brief(c) BY <3>1, <2>1, <2>3 DEF Brief
    <3>2. CASE DatedWell(c) /\ rolloverSem = 1 BY <3>2, <2>1, <2>3 DEF DatedWell
    <3>3. CASE DatedWell(c) /\ rolloverSem # 1
      <4>1. DateOf(c.name) = Calendar[lastDay] BY <3>3, <1>t DEF RequestInv, TypeOK
      <4>2. nmeaQueue # <<>> => OnOrAfter(c.name, Head(nmeaQueue).day)
        BY <4>1, <1>t, HeadInTime
      <4> QED BY <4>2, <3>3, <2>1, <2>2 DEF DatedWell
    <3> QED BY <3>1, <3>2, <3>3 DEF OpenInv
  <2> QED BY <1>t, <2>4, <2>5, <2>6
<1>5. CASE RolloverClose
  <2>1. /\ UNCHANGED <<nmeaQueue, lastDay, ready, read, okLogs>> /\ current' = {}
        /\ pc = "rollover" /\ pc' = "name" /\ rolloverSem = 1
    BY <1>5 DEF RolloverClose, isr, Log!Finish
  <2>2. \A n \in Names : logs'[n] # NoFile => Bounded(n, logs'[n])
    <3>1. CASE current # {}
      <4>1. PICK c \in current : logs' = [logs EXCEPT ![c.name] = c.data]
        BY <1>5, <3>1 DEF RolloverClose, Log!Finish
      <4>2. Bounded(c.name, c.data)
        <5>1. CASE DatedWell(c) BY <5>1 DEF DatedWell, Bounded
        <5>2. CASE Brief(c) BY <5>2, <2>1 DEF Brief, Bounded
        <5> QED BY <5>1, <5>2 DEF OpenInv
      <4> QED BY <4>1, <4>2, <1>t DEF FilesInv, TypeOK
    <3>2. CASE current = {}
      BY <1>5, <3>2 DEF RolloverClose, FilesInv
    <3> QED BY <3>1, <3>2
  <2>3. read = NothingRead BY <2>1 DEF RequestInv
  <2>4. \A f \in DateFields : read[f] = Unread BY <2>3 DEF NothingRead, Fields
  <2>5. RequestInv' BY <2>1, <2>4 DEF RequestInv
  <2> QED BY <1>t, <2>1, <2>2, <2>5 DEF FilesInv, MarkedInv, OpenInv
<1>6. CASE \E f \in Fields : ReadField(f)
  <2>0. PICK f \in Fields : ReadField(f) BY <1>6
  <2>1. /\ UNCHANGED <<nmeaQueue, lastDay, rolloverSem, ready, pc, logs, okLogs, current>>
        /\ pc = "name" /\ read' = [read EXCEPT ![f] = Datetime(pvt)[f]]
    BY <2>0 DEF ReadField, isr, card
  <2>2. \A g \in Fields : read'[g] = IF g = f THEN Datetime(pvt)[f] ELSE read[g]
    BY <2>1, <1>t DEF TypeOK
  <2>3. f \in DateFields => Datetime(pvt)[f] = Calendar[lastDay][f]
    BY <1>t DEF Datetime, TypeOK
  <2>4. DateFields \subseteq Fields BY DEF Fields
  <2>5. RequestInv' BY <2>1, <2>2, <2>3, <2>4 DEF RequestInv
  <2> QED BY <1>t, <2>1, <2>5, OpenKept DEF FilesInv, MarkedInv
<1>8. CASE RolloverOpen
  <2>1. /\ UNCHANGED <<nmeaQueue, lastDay, rolloverSem, logs, okLogs>>
        /\ current' = {[name |-> read, data |-> <<Status>>]}
        /\ AllRead /\ read' = NothingRead /\ pc = "name" /\ pc' \in {"sync", "queue"}
        /\ ready' \subseteq ready /\ (pc' = "queue" => "rollover" \notin ready')
    BY <1>8 DEF RolloverOpen, RolloverDone, SemKept, isr
  <2>2. \A c \in current' : c.name = read /\ Sents(c.data) = {} BY <2>1 DEF Sents
  <2>3. rolloverSem = 0 => DateOf(read) = Calendar[lastDay]
    <3> SUFFICES ASSUME rolloverSem = 0 PROVE DateOf(read) = Calendar[lastDay]
      OBVIOUS
    <3>1. Calendar[lastDay] \in [DateFields -> Nat] BY <1>d, CalendarAssumption
    <3>2. \A f \in DateFields : read[f] = Calendar[lastDay][f]
      BY <2>1 DEF AllRead, Fields, RequestInv
    <3> QED BY <3>1, <3>2 DEF DateOf
  <2>4. \A f \in DateFields : read'[f] = Unread BY <2>1 DEF NothingRead, Fields
  <2>5. RequestInv' BY <2>1, <2>2, <2>3, <2>4 DEF RequestInv
  <2>6. MarkedInv' BY <2>1 DEF MarkedInv
  <2>7. OpenInv'
    <3> SUFFICES ASSUME NEW c \in current' PROVE DatedWell(c)' \/ Brief(c)'
      BY DEF OpenInv
    <3>1. CASE rolloverSem = 1 BY <3>1, <2>1, <2>2 DEF Brief
    <3>2. CASE rolloverSem = 0
      <4>1. nmeaQueue # <<>> => OnOrAfter(read, Head(nmeaQueue).day)
        BY <3>2, <2>3, <1>t, HeadInTime
      <4>2. "nmea" \in ready' => nmeaQueue # <<>> BY <2>1 DEF MarkedInv
      <4> QED BY <4>1, <4>2, <2>1, <2>2 DEF DatedWell
    <3> QED BY <3>1, <3>2, <1>t DEF TypeOK
  <2> QED BY <1>t, <2>1, <2>5, <2>6, <2>7 DEF FilesInv
<1>9. CASE RolloverFails
  <2>1. /\ UNCHANGED <<nmeaQueue, lastDay, rolloverSem, logs, okLogs, current>>
        /\ read' = NothingRead /\ pc = "name" /\ pc' \in {"sync", "queue"}
        /\ ready' \subseteq ready /\ (pc' = "queue" => "rollover" \notin ready')
    BY <1>9 DEF RolloverFails, RolloverDone, SemKept, isr
  <2>2. current' = {} BY <2>1 DEF RequestInv
  <2>3. \A f \in DateFields : read'[f] = Unread BY <2>1 DEF NothingRead, Fields
  <2> QED BY <1>t, <2>1, <2>2, <2>3 DEF FilesInv, RequestInv, MarkedInv, OpenInv
<1>10. CASE SyncStart \/ SyncStopGnss \/ SyncConnect \/ SyncDisconnect \/ SyncStartGnss
  <2>1. /\ UNCHANGED <<nmeaQueue, lastDay, rolloverSem, ready, read, logs, okLogs, current>>
        /\ pc \notin {"poll", "rollover", "name"}
        /\ pc' \notin {"poll", "rollover", "name", "queue"}
    BY <1>10 DEF SyncStart, SyncStopGnss, SyncConnect, SyncDisconnect, SyncStartGnss,
                 ReceiverFirst, ReceiverNext, isr, poll, card
  <2> QED BY <1>t, <2>1, OpenKept DEF FilesInv, RequestInv, MarkedInv
<1>11. CASE \E n \in Names : SyncUpload(n)
  <2>1. PICK n \in Names : SyncUpload(n) BY <1>11
  <2>2. UNCHANGED <<nmeaQueue, lastDay, rolloverSem, ready, read, pc, current>>
    BY <2>1 DEF SyncUpload, isr, poll
  <2>3. FilesInv' BY <2>1, <2>2, <1>t DEF SyncUpload, FilesInv, TypeOK
  <2> QED BY <1>t, <2>2, <2>3, OpenKept DEF RequestInv, MarkedInv
<1>12. CASE SyncEnd
  <2>1. /\ UNCHANGED <<nmeaQueue, lastDay, rolloverSem, read, logs, okLogs, current>>
        /\ pc = "done" /\ pc' = "queue" /\ ready' = ready \ {"rollover"}
    BY <1>12 DEF SyncEnd, isr, card
  <2> QED BY <1>t, <2>1, OpenKept DEF FilesInv, RequestInv, MarkedInv
<1>13. CASE HandleNmea
  <2>1. /\ UNCHANGED <<lastDay, rolloverSem, read, okLogs>>
        /\ pc = "queue" /\ pc' = "poll" /\ "nmea" \in ready
        /\ ready' = ready \ {"nmea"} /\ nmeaQueue # <<>> /\ nmeaQueue' = Tail(nmeaQueue)
    BY <1>13 DEF HandleNmea, Taken
  <2>2. ready' = {} BY <2>1, <1>t DEF MarkedInv, TypeOK
  <2>3. nmeaQueue \in Seq(Sentences) BY <1>t DEF TypeOK
  <2>4. \A i \in 1..Len(nmeaQueue') : nmeaQueue'[i].day <= lastDay
    BY <2>1, <2>3, QueueTail DEF RequestInv
  <2>5. Head(nmeaQueue) \in Sentences BY <2>1, <2>3
  <2>6. \A c \in current' :
           \E o \in current :
              /\ c.name = o.name
              /\ Sents(c.data) \subseteq Sents(o.data) \cup {Head(nmeaQueue)}
    <3>1. CASE UNCHANGED current BY <3>1
    <3>2. CASE Log!Append1(Head(nmeaQueue))
      <4>1. PICK o \in current :
              current' = {[name |-> o.name, data |-> Append(o.data, Head(nmeaQueue))]}
        BY <3>2 DEF Log!Append1
      <4>2. o.data \in LogData BY <1>t DEF TypeOK
      <4>3. Sents(Append(o.data, Head(nmeaQueue))) \subseteq Sents(o.data) \cup {Head(nmeaQueue)}
        BY <4>2, <2>5, SentsAppend
      <4>4. \A c \in current' : c.name = o.name /\ c.data = Append(o.data, Head(nmeaQueue))
        BY <4>1
      <4> QED BY <4>3, <4>4
    <3> QED BY <1>13, <3>1, <3>2 DEF HandleNmea
  <2>7. logs' = logs BY <1>13 DEF HandleNmea, Log!Append1
  <2>8. FilesInv' BY <2>1, <2>7 DEF FilesInv
  <2>9. RequestInv' BY <2>1, <2>4, <2>6 DEF RequestInv
  <2>10. MarkedInv' BY <2>1, <2>2 DEF MarkedInv
  <2>11. OpenInv'
    <3> SUFFICES ASSUME NEW c \in current' PROVE DatedWell(c)' \/ Brief(c)'
      BY DEF OpenInv
    <3>1. PICK o \in current :
              /\ c.name = o.name
              /\ Sents(c.data) \subseteq Sents(o.data) \cup {Head(nmeaQueue)}
      BY <2>6
    <3>2. CASE DatedWell(o) BY <3>1, <3>2, <2>1, <2>2 DEF DatedWell
    <3>3. CASE Brief(o) BY <3>1, <3>3, <2>1 DEF Brief
    <3> QED BY <3>2, <3>3 DEF OpenInv
  <2> QED BY <1>t, <2>8, <2>9, <2>10, <2>11
<1>14. CASE NoNmea
  <2>1. /\ UNCHANGED <<nmeaQueue, lastDay, rolloverSem, ready, read, logs, okLogs, current>>
        /\ pc = "queue" /\ pc' = "poll" /\ "nmea" \notin ready
    BY <1>14 DEF NoNmea, isr, poll, card
  <2>2. ready = {} BY <2>1, <1>t DEF MarkedInv, TypeOK
  <2> QED BY <1>t, <2>1, <2>2, OpenKept DEF FilesInv, RequestInv, MarkedInv
<1>15. CASE PowerLoss
  <2>1. /\ nmeaQueue' = <<>> /\ current' = {} /\ read' = NothingRead /\ ready' = {}
        /\ pc' = "poll" /\ UNCHANGED <<logs, okLogs>>
    BY <1>15 DEF PowerLoss
  <2>2. \A f \in DateFields : read'[f] = Unread BY <2>1 DEF NothingRead, Fields
  <2> QED BY <1>t, <2>1, <2>2 DEF FilesInv, RequestInv, MarkedInv, OpenInv
<1>16. CASE UNCHANGED vars
  BY <1>16, <1>t, OpenKept DEF vars, isr, poll, card, FilesInv, RequestInv, MarkedInv
<1> QED BY <1>1, <1>2, <1>3, <1>4, <1>5, <1>6, <1>8, <1>9, <1>10, <1>11, <1>12,
           <1>13, <1>14, <1>15, <1>16 DEF Next, Main, Interrupt

\* No log with the date of a day holds a sentence of a later one, whenever the
\* button is pressed, the day changes, logs fail to open or power is lost, and
\* however the PVT handler changes pvt_data between the reads of its fields; a
\* log whose date was read in the middle of such a change holds one sentence at
\* most (gnss.c:133, gnss.c:208, main.c:233-251).
THEOREM DaysStayApart == Spec => []DayBoundary
<1>1. Spec => []DayInv BY DayInit, DayStep, PTL DEF Spec
<1>2. DayInv => DayBoundary
  <2> SUFFICES ASSUME DayInv, NEW file \in Files
               PROVE  Bounded(file[2], file[3])
    BY DEF DayBoundary, Bounded, SentencesOf, Sents
  <2>1. CASE \E n \in Names : logs[n] # NoFile /\ file = <<".lz4", n, logs[n]>>
    BY <2>1 DEF DayInv, FilesInv
  <2>2. CASE \E n \in Names : okLogs[n] # NoFile /\ file = <<".lz4_ok", n, okLogs[n]>>
    BY <2>2 DEF DayInv, FilesInv
  <2>3. CASE \E c \in current : file = <<".tmp", c.name, c.data>>
    <3>1. PICK c \in current : file = <<".tmp", c.name, c.data>> BY <2>3
    <3>2. CASE DatedWell(c) BY <3>1, <3>2 DEF DatedWell, Bounded
    <3>3. CASE Brief(c) BY <3>1, <3>3 DEF Brief, Bounded
    <3> QED BY <3>2, <3>3 DEF DayInv, OpenInv
  <2> QED BY <2>1, <2>2, <2>3 DEF Files
<1> QED BY <1>1, <1>2, PTL

-----------------------------------------------------------------------------
(* The order of sentences. Every sentence on the card is older than those  *)
(* in the queue, and is in one place only.                                 *)

InOrder(data) ==
    \A i, j \in 1..Len(data) :
        i < j /\ Status \notin {data[i], data[j]} => data[i].no < data[j].no

Held(data)  == IF data = NoFile THEN {} ELSE Sents(data)

IsWritten(s) ==
    \/ \E n \in Names : s \in Held(logs[n]) \/ s \in Held(okLogs[n])
    \/ \E c \in current : s \in Sents(c.data)

OrderedInv ==
    /\ \A n \in Names : logs[n] # NoFile => InOrder(logs[n])
    /\ \A n \in Names : okLogs[n] # NoFile => InOrder(okLogs[n])
    /\ \A c \in current : InOrder(c.data)

ApartInv ==
    /\ \A m, n \in Names : m # n => /\ Held(logs[m]) \cap Held(logs[n]) = {}
                                    /\ Held(okLogs[m]) \cap Held(okLogs[n]) = {}
    /\ \A m, n \in Names : Held(logs[m]) \cap Held(okLogs[n]) = {}
    /\ \A c \in current : \A n \in Names : /\ Sents(c.data) \cap Held(logs[n]) = {}
                                           /\ Sents(c.data) \cap Held(okLogs[n]) = {}
    /\ \A c, d \in current : c = d

QueueInv ==
    /\ \A i \in 1..Len(nmeaQueue) : nmeaQueue[i].no <= nmeas
    /\ \A i, j \in 1..Len(nmeaQueue) : i < j => nmeaQueue[i].no < nmeaQueue[j].no

WrittenInv ==
    \A s : IsWritten(s) => /\ s.no \in Nat /\ s.no <= nmeas
                           /\ \A i \in 1..Len(nmeaQueue) : s.no < nmeaQueue[i].no

OrderInv == TypeOK /\ OrderedInv /\ ApartInv /\ QueueInv /\ WrittenInv

LEMMA SentenceNo == \A s \in Sentences : s.no \in Nat
BY ConstantsAssumption DEF Sentences

LEMMA OrderInit == Init => OrderInv
<1> SUFFICES ASSUME Init PROVE OrderInv
  OBVIOUS
<1>1. nmeaQueue = <<>> /\ current = {} BY DEF Init, Log!Init
<1>2. \A n \in Names : logs[n] = NoFile /\ okLogs[n] = NoFile BY DEF Init, Log!Init
<1>3. \A n \in Names : Held(logs[n]) = {} /\ Held(okLogs[n]) = {} BY <1>2 DEF Held
<1>4. \A s : ~IsWritten(s) BY <1>1, <1>3 DEF IsWritten
<1>5. OrderedInv /\ ApartInv BY <1>1, <1>2, <1>3 DEF OrderedInv, ApartInv
<1> QED BY <1>1, <1>4, <1>5, TypeInit DEF OrderInv, QueueInv, WrittenInv

LEMMA AppendSents ==
    ASSUME NEW data \in LogData, NEW s \in Sentences
    PROVE  /\ Sents(Append(data, s)) \subseteq Sents(data) \cup {s}
           /\ InOrder(data) /\ (\A t \in Sents(data) : t.no < s.no)
                 => InOrder(Append(data, s))
<1>1. data \in Seq(Data) /\ s \in Data BY DEF LogData, Data
<1>2. /\ Len(Append(data, s)) = Len(data) + 1
      /\ Append(data, s)[Len(data) + 1] = s
      /\ \A i \in 1..Len(data) : Append(data, s)[i] = data[i]
  BY <1>1
<1>3. Len(data) \in Nat BY <1>1
<1>4. Sents(Append(data, s)) \subseteq Sents(data) \cup {s}
  <2> SUFFICES ASSUME NEW i \in 1..(Len(data) + 1), Append(data, s)[i] # Status
               PROVE  Append(data, s)[i] \in Sents(data) \cup {s}
    BY <1>2 DEF Sents
  <2>1. i = Len(data) + 1 \/ i \in 1..Len(data) BY <1>3
  <2> QED BY <2>1, <1>2 DEF Sents
<1>5. ASSUME InOrder(data), \A t \in Sents(data) : t.no < s.no
      PROVE  InOrder(Append(data, s))
  <2> SUFFICES ASSUME NEW i \in 1..(Len(data) + 1), NEW j \in 1..(Len(data) + 1), i < j,
                      Status \notin {Append(data, s)[i], Append(data, s)[j]}
               PROVE  Append(data, s)[i].no < Append(data, s)[j].no
    BY <1>2 DEF InOrder
  <2>1. i \in 1..Len(data) BY <1>3
  <2>2. CASE j = Len(data) + 1
    <3>1. data[i] \in Sents(data) BY <2>1, <1>2 DEF Sents
    <3> QED BY <2>1, <2>2, <3>1, <1>2, <1>5
  <2>3. CASE j \in 1..Len(data)
    BY <2>1, <2>3, <1>2, <1>5 DEF InOrder
  <2> QED BY <2>2, <2>3, <1>3
<1> QED BY <1>4, <1>5

\* Nothing written, and nothing queued: the invariant is about the rest.
LEMMA OrderUnchanged ==
    ASSUME OrderInv, TypeOK', UNCHANGED <<nmeaQueue, nmeas, logs, okLogs, current>>
    PROVE  OrderInv'
<1>1. \A s : IsWritten(s)' <=> IsWritten(s) BY DEF IsWritten
<1> QED BY <1>1 DEF OrderInv, OrderedInv, ApartInv, QueueInv, WrittenInv

LEMMA OrderStep == OrderInv /\ [Next]_vars => OrderInv'
<1> SUFFICES ASSUME OrderInv, [Next]_vars PROVE OrderInv'
  OBVIOUS
<1>t. TypeOK /\ TypeOK' BY TypeStep DEF OrderInv
<1> USE DEF OrderInv
<1>1. CASE NmeaEvent
  <2>1. UNCHANGED <<logs, okLogs, current>> /\ nmeas' = nmeas + 1
    BY <1>1 DEF NmeaEvent, card
  <2>2. \A s : IsWritten(s)' <=> IsWritten(s) BY <2>1 DEF IsWritten
  <2>3. OrderedInv' /\ ApartInv' BY <2>1 DEF OrderedInv, ApartInv
  <2>n. nmeas \in Nat BY <1>t DEF TypeOK
  <2>q. nmeaQueue \in Seq(Sentences) /\ \A i \in 1..Len(nmeaQueue) : nmeaQueue[i].no \in Nat
    BY <1>t, SentenceNo DEF TypeOK
  <2>4. CASE UNCHANGED nmeaQueue
    BY <1>t, <2>1, <2>2, <2>3, <2>4, <2>n, <2>q DEF QueueInv, WrittenInv
  <2>5. CASE nmeaQueue' # nmeaQueue
    <3> DEFINE s == [no |-> nmeas', day |-> Day(pvt)]
    <3>1. nmeaQueue' = Append(nmeaQueue, s) BY <1>1, <2>5 DEF NmeaEvent
    <3>2. s \in Sentences
      BY <1>1, <1>t, PvtDay, ConstantsAssumption DEF NmeaEvent, Sentences, TypeOK
    <3>3. s.no = nmeas + 1 BY <2>1
    <3> HIDE DEF s
    <3>4. /\ Len(nmeaQueue') = Len(nmeaQueue) + 1 /\ nmeaQueue'[Len(nmeaQueue) + 1] = s
          /\ \A i \in 1..Len(nmeaQueue) : nmeaQueue'[i] = nmeaQueue[i]
      BY <3>1, <3>2, <2>q
    <3>5. \A i \in 1..Len(nmeaQueue') :
             \/ i = Len(nmeaQueue) + 1 /\ nmeaQueue'[i].no = nmeas + 1
             \/ i \in 1..Len(nmeaQueue) /\ nmeaQueue'[i] = nmeaQueue[i]
                   /\ nmeaQueue[i].no \in Nat /\ nmeaQueue[i].no <= nmeas
      <4> TAKE i \in 1..Len(nmeaQueue')
      <4>1. i = Len(nmeaQueue) + 1 \/ i \in 1..Len(nmeaQueue) BY <3>4, <2>q
      <4> QED BY <4>1, <3>3, <3>4, <2>q DEF QueueInv
    <3>6. QueueInv'
      <4>1. \A i \in 1..Len(nmeaQueue') : nmeaQueue'[i].no <= nmeas'
        BY <3>5, <2>1, <2>n
      <4>2. ASSUME NEW i \in 1..Len(nmeaQueue'), NEW j \in 1..Len(nmeaQueue'), i < j
            PROVE  nmeaQueue'[i].no < nmeaQueue'[j].no
        <5>1. i \in 1..Len(nmeaQueue) BY <4>2, <3>4, <2>q
        <5>2. CASE j \in 1..Len(nmeaQueue) BY <4>2, <5>1, <5>2, <3>4 DEF QueueInv
        <5>3. CASE j = Len(nmeaQueue) + 1
          BY <5>1, <5>3, <3>3, <3>4, <2>q, <2>n DEF QueueInv
        <5> QED BY <5>2, <5>3, <3>4, <2>q
      <4> QED BY <4>1, <4>2 DEF QueueInv
    <3>7. WrittenInv' BY <2>1, <2>2, <2>n, <3>5 DEF WrittenInv
    <3> QED BY <1>t, <2>3, <3>6, <3>7
  <2> QED BY <2>4, <2>5
<1>2. CASE RolloverClose
  <2>1. UNCHANGED <<nmeaQueue, nmeas, okLogs>> /\ current' = {}
    BY <1>2 DEF RolloverClose, isr, Log!Finish
  <2>2. CASE current = {}
    BY <1>2, <1>t, <2>1, <2>2, OrderUnchanged DEF RolloverClose
  <2>3. CASE current # {}
    <3>1. PICK c \in current : logs' = [logs EXCEPT ![c.name] = c.data]
      BY <1>2, <2>3 DEF RolloverClose, Log!Finish
    <3>2. /\ logs'[c.name] = c.data
          /\ \A n \in Names : n # c.name => logs'[n] = logs[n]
      BY <3>1, <1>t DEF TypeOK
    <3>3. \A n \in Names : Held(logs'[n]) = IF n = c.name THEN Held(c.data) ELSE Held(logs[n])
      BY <3>2
    <3>4. Held(c.data) \subseteq Sents(c.data) BY DEF Held
    <3>5. OrderedInv' BY <2>1, <3>2 DEF OrderedInv
    <3>6. ApartInv'
      <4>1. \A m, n \in Names : m # n => Held(logs'[m]) \cap Held(logs'[n]) = {}
        BY <3>3, <3>4 DEF ApartInv
      <4>2. \A m, n \in Names : Held(logs'[m]) \cap Held(okLogs[n]) = {}
        BY <3>3, <3>4 DEF ApartInv
      <4> QED BY <4>1, <4>2, <2>1 DEF ApartInv
    <3>7. \A s : IsWritten(s)' => IsWritten(s) BY <2>1, <3>3, <3>4 DEF IsWritten
    <3>8. QueueInv' /\ WrittenInv' BY <2>1, <3>7 DEF QueueInv, WrittenInv
    <3> QED BY <1>t, <3>5, <3>6, <3>8
  <2> QED BY <2>2, <2>3
<1>3. CASE RolloverOpen
  <2> DEFINE c == [name |-> read, data |-> <<Status>>]
  <2>1. UNCHANGED <<nmeaQueue, nmeas, logs, okLogs>> /\ current' = {c}
    BY <1>3 DEF RolloverOpen, RolloverDone, isr
  <2>2. Sents(c.data) = {} /\ InOrder(c.data) BY DEF Sents, InOrder
  <2> HIDE DEF c
  <2>3. \A s : IsWritten(s)' => IsWritten(s) BY <2>1, <2>2 DEF IsWritten
  <2>4. OrderedInv' BY <2>1, <2>2 DEF OrderedInv
  <2>5. ApartInv' BY <2>1, <2>2 DEF ApartInv
  <2>6. QueueInv' /\ WrittenInv' BY <2>1, <2>3 DEF QueueInv, WrittenInv
  <2> QED BY <1>t, <2>4, <2>5, <2>6
<1>4. CASE \E n \in Names : SyncUpload(n)
  <2>1. PICK n \in Names : SyncUpload(n) BY <1>4
  <2>2. UNCHANGED <<nmeaQueue, nmeas, current>> BY <2>1 DEF SyncUpload, isr
  <2>3. CASE UNCHANGED <<logs, okLogs>>
    BY <1>t, <2>2, <2>3, OrderUnchanged
  <2>4. CASE okLogs' = [okLogs EXCEPT ![n] = logs[n]] /\ logs' = [logs EXCEPT ![n] = NoFile]
    <3>1. \A m \in Names : /\ okLogs'[m] = IF m = n THEN logs[n] ELSE okLogs[m]
                           /\ logs'[m] = IF m = n THEN NoFile ELSE logs[m]
      BY <2>4, <1>t DEF TypeOK
    <3>2. \A m \in Names : /\ Held(okLogs'[m]) = IF m = n THEN Held(logs[n]) ELSE Held(okLogs[m])
                           /\ Held(logs'[m]) = IF m = n THEN {} ELSE Held(logs[m])
      BY <3>1 DEF Held
    <3>3. OrderedInv' BY <2>2, <3>1 DEF OrderedInv
    <3>4. ApartInv'
      <4>1. \A m, k \in Names : m # k => /\ Held(logs'[m]) \cap Held(logs'[k]) = {}
                                         /\ Held(okLogs'[m]) \cap Held(okLogs'[k]) = {}
        BY <3>2 DEF ApartInv
      <4>2. \A m, k \in Names : Held(logs'[m]) \cap Held(okLogs'[k]) = {}
        BY <3>2 DEF ApartInv
      <4>3. \A c \in current : \A k \in Names : /\ Sents(c.data) \cap Held(logs'[k]) = {}
                                                /\ Sents(c.data) \cap Held(okLogs'[k]) = {}
        BY <3>2 DEF ApartInv
      <4> QED BY <4>1, <4>2, <4>3, <2>2 DEF ApartInv
    <3>5. \A s : IsWritten(s)' => IsWritten(s) BY <2>2, <3>2 DEF IsWritten
    <3>6. QueueInv' /\ WrittenInv' BY <2>2, <3>5 DEF QueueInv, WrittenInv
    <3> QED BY <1>t, <3>3, <3>4, <3>6
  <2> QED BY <2>1, <2>3, <2>4 DEF SyncUpload
<1>5. CASE HandleNmea
  <2> DEFINE h == Head(nmeaQueue)
  <2>1. /\ nmeaQueue # <<>> /\ nmeaQueue' = Tail(nmeaQueue)
        /\ UNCHANGED <<nmeas, okLogs, logs>>
    BY <1>5 DEF HandleNmea, Taken, Log!Append1
  <2>2. nmeaQueue \in Seq(Sentences) BY <1>t DEF TypeOK
  <2>3. /\ h = nmeaQueue[1] /\ 1 \in 1..Len(nmeaQueue) /\ h \in Sentences
        /\ Len(nmeaQueue') = Len(nmeaQueue) - 1
        /\ \A i \in 1..Len(nmeaQueue') :
              i + 1 \in 1..Len(nmeaQueue) /\ nmeaQueue'[i] = nmeaQueue[i + 1]
    BY <2>1, <2>2, QueueTail
  <2>4. h.no \in Nat /\ h.no <= nmeas BY <2>3 DEF QueueInv, Sentences
  <2> HIDE DEF h
  <2>5. \A i \in 1..Len(nmeaQueue') : h.no < nmeaQueue'[i].no
    <3> TAKE i \in 1..Len(nmeaQueue')
    <3>1. 1 < i + 1 /\ i + 1 \in 1..Len(nmeaQueue) BY <2>3
    <3> QED BY <3>1, <2>3 DEF QueueInv
  <2>6. QueueInv'
    <3>1. \A i \in 1..Len(nmeaQueue') : nmeaQueue'[i].no <= nmeas BY <2>3 DEF QueueInv
    <3>2. ASSUME NEW i \in 1..Len(nmeaQueue'), NEW j \in 1..Len(nmeaQueue'), i < j
          PROVE  nmeaQueue'[i].no < nmeaQueue'[j].no
      BY <3>2, <2>3 DEF QueueInv
    <3> QED BY <3>1, <3>2, <2>1 DEF QueueInv
  <2>7. \A s : IsWritten(s) => s.no \in Nat /\ s.no <= nmeas /\ s.no < h.no
    BY <2>3 DEF WrittenInv
  <2>8. \A s : IsWritten(s) => \A i \in 1..Len(nmeaQueue') : s.no < nmeaQueue'[i].no
    BY <2>3 DEF WrittenInv
  <2>9. CASE UNCHANGED current
    <3>1. \A s : IsWritten(s)' <=> IsWritten(s) BY <2>1, <2>9 DEF IsWritten
    <3>2. OrderedInv' /\ ApartInv' BY <2>1, <2>9 DEF OrderedInv, ApartInv
    <3>3. WrittenInv' BY <3>1, <2>1, <2>7, <2>8 DEF WrittenInv
    <3> QED BY <1>t, <2>6, <3>2, <3>3
  <2>10. CASE Log!Append1(Head(nmeaQueue))
    <3>1. PICK c \in current :
            current' = {[name |-> c.name, data |-> Append(c.data, h)]}
      BY <2>10 DEF Log!Append1, h
    <3> DEFINE data == Append(c.data, h)
    <3>2. c.data \in LogData BY <1>t DEF TypeOK
    <3>3. \A s \in Sents(c.data) : IsWritten(s) BY DEF IsWritten
    <3>4. Sents(data) \subseteq Sents(c.data) \cup {h} /\ InOrder(data)
      BY <3>2, <3>3, <2>3, <2>7, AppendSents DEF OrderedInv
    <3>5. \A d \in current' : d.data = data BY <3>1
    <3>6. ~IsWritten(h) BY <2>4, <2>7
    <3> HIDE DEF data
    <3>7. OrderedInv' BY <2>1, <3>4, <3>5 DEF OrderedInv
    <3>8. \A n \in Names : /\ Sents(data) \cap Held(logs[n]) = {}
                           /\ Sents(data) \cap Held(okLogs[n]) = {}
      <4> TAKE n \in Names
      <4>1. h \notin Held(logs[n]) /\ h \notin Held(okLogs[n]) BY <3>6 DEF IsWritten
      <4> QED BY <4>1, <3>4 DEF ApartInv
    <3>9. ApartInv' BY <2>1, <3>1, <3>5, <3>8 DEF ApartInv
    <3>10. \A s : IsWritten(s)' => IsWritten(s) \/ s = h BY <2>1, <3>3, <3>4, <3>5 DEF IsWritten
    <3>11. WrittenInv' BY <3>10, <2>1, <2>4, <2>5, <2>7, <2>8 DEF WrittenInv
    <3> QED BY <1>t, <2>6, <3>7, <3>9, <3>11
  <2> QED BY <1>5, <2>9, <2>10 DEF HandleNmea
<1>6. CASE PowerLoss
  <2>1. nmeaQueue' = <<>> /\ current' = {} /\ UNCHANGED <<nmeas, logs, okLogs>>
    BY <1>6 DEF PowerLoss
  <2>2. \A s : IsWritten(s)' => IsWritten(s) BY <2>1 DEF IsWritten
  <2>3. OrderedInv' /\ ApartInv' BY <2>1 DEF OrderedInv, ApartInv
  <2>4. QueueInv' /\ WrittenInv' BY <2>1, <2>2 DEF QueueInv, WrittenInv
  <2> QED BY <1>t, <2>3, <2>4
<1>7. CASE \/ PvtEvent \/ ButtonPressed \/ PollReturns \/ (\E f \in Fields : ReadField(f))
           \/ RolloverFails \/ SyncStart \/ SyncStopGnss \/ SyncConnect \/ SyncDisconnect
           \/ SyncStartGnss \/ SyncEnd \/ NoNmea \/ UNCHANGED vars
  <2>1. UNCHANGED <<nmeaQueue, nmeas, logs, okLogs, current>>
    BY <1>7 DEF PvtEvent, ButtonPressed, PollReturns, ReadField, RolloverFails,
                RolloverDone, SyncStart, SyncStopGnss, SyncConnect, SyncDisconnect,
                SyncStartGnss, SyncEnd, NoNmea, vars, isr, card
  <2> QED BY <1>t, <2>1, OrderUnchanged
<1> QED BY <1>1, <1>2, <1>3, <1>4, <1>5, <1>6, <1>7 DEF Next, Main, Interrupt

\* The files hold the sentences in the order they came, each in one file only
\* and all older than what is queued, across rollovers, uploads that replace
\* files and power losses (main.c:251, gnss.c:153).
THEOREM EachOnceInOrder == Spec => []OnceInOrder
<1>1. Spec => []OrderInv BY OrderInit, OrderStep, PTL DEF Spec
<1>2. OrderInv => OnceInOrder
  <2> SUFFICES ASSUME OrderInv PROVE OnceInOrder
    OBVIOUS
  <2> USE DEF OrderInv
  <2>1. \A file \in Files :
          \/ \E n \in Names : logs[n] # NoFile /\ file = <<".lz4", n, logs[n]>>
          \/ \E n \in Names : okLogs[n] # NoFile /\ file = <<".lz4_ok", n, okLogs[n]>>
          \/ \E c \in current : file = <<".tmp", c.name, c.data>>
    BY DEF Files
  <2>2. \A file \in Files : InOrder(file[3]) BY <2>1 DEF OrderedInv
  <2>3. \A file \in Files : SentencesOf(file) = Sents(file[3]) BY DEF SentencesOf, Sents
  <2>4. \A file \in Files : \A s \in SentencesOf(file) : IsWritten(s)
    <3> TAKE file \in Files
    <3>1. CASE \E n \in Names : logs[n] # NoFile /\ file = <<".lz4", n, logs[n]>>
      BY <2>3, <3>1 DEF IsWritten, Held
    <3>2. CASE \E n \in Names : okLogs[n] # NoFile /\ file = <<".lz4_ok", n, okLogs[n]>>
      BY <2>3, <3>2 DEF IsWritten, Held
    <3>3. CASE \E c \in current : file = <<".tmp", c.name, c.data>>
      BY <2>3, <3>3 DEF IsWritten
    <3> QED BY <2>1, <3>1, <3>2, <3>3
  <2>5. ASSUME NEW f \in Files, NEW g \in Files, f # g
        PROVE  SentencesOf(f) \cap SentencesOf(g) = {}
    <3> DEFINE IsLog(x) == \E n \in Names : logs[n] # NoFile /\ x = <<".lz4", n, logs[n]>>
               IsOk(x)  == \E n \in Names :
                               okLogs[n] # NoFile /\ x = <<".lz4_ok", n, okLogs[n]>>
               IsTmp(x) == \E c \in current : x = <<".tmp", c.name, c.data>>
    <3>1. (IsLog(f) \/ IsOk(f) \/ IsTmp(f)) /\ (IsLog(g) \/ IsOk(g) \/ IsTmp(g)) BY <2>1
    <3>2. CASE IsLog(f) /\ IsLog(g)
      <4>1. PICK m \in Names, n \in Names :
              /\ logs[m] # NoFile /\ f = <<".lz4", m, logs[m]>>
              /\ logs[n] # NoFile /\ g = <<".lz4", n, logs[n]>>
        BY <3>2
      <4>2. m # n BY <4>1, <2>5
      <4> QED BY <4>1, <4>2, <2>3 DEF ApartInv, Held
    <3>3. CASE IsOk(f) /\ IsOk(g)
      <4>1. PICK m \in Names, n \in Names :
              /\ okLogs[m] # NoFile /\ f = <<".lz4_ok", m, okLogs[m]>>
              /\ okLogs[n] # NoFile /\ g = <<".lz4_ok", n, okLogs[n]>>
        BY <3>3
      <4>2. m # n BY <4>1, <2>5
      <4> QED BY <4>1, <4>2, <2>3 DEF ApartInv, Held
    <3>4. CASE IsTmp(f) /\ IsTmp(g)
      BY <3>4, <2>5 DEF ApartInv
    <3>5. CASE (IsLog(f) /\ IsOk(g)) \/ (IsOk(f) /\ IsLog(g))
      BY <3>5, <2>3 DEF ApartInv, Held
    <3>6. CASE IsTmp(f) /\ (IsLog(g) \/ IsOk(g))
      <4>1. PICK c \in current : f = <<".tmp", c.name, c.data>> BY <3>6
      <4>2. SentencesOf(f) = Sents(c.data) BY <4>1, <2>3
      <4>3. CASE IsLog(g) BY <4>2, <4>3, <2>3 DEF ApartInv, Held
      <4>4. CASE IsOk(g) BY <4>2, <4>4, <2>3 DEF ApartInv, Held
      <4> QED BY <3>6, <4>3, <4>4
    <3>7. CASE (IsLog(f) \/ IsOk(f)) /\ IsTmp(g)
      <4>1. PICK c \in current : g = <<".tmp", c.name, c.data>> BY <3>7
      <4>2. SentencesOf(g) = Sents(c.data) BY <4>1, <2>3
      <4>3. CASE IsLog(f) BY <4>2, <4>3, <2>3 DEF ApartInv, Held
      <4>4. CASE IsOk(f) BY <4>2, <4>4, <2>3 DEF ApartInv, Held
      <4> QED BY <3>7, <4>3, <4>4
    <3> QED BY <3>1, <3>2, <3>3, <3>4, <3>5, <3>6, <3>7
  <2>6. nmeaQueue # <<>> =>
            \A file \in Files : \A s \in SentencesOf(file) : s.no < Head(nmeaQueue).no
    <3> SUFFICES ASSUME nmeaQueue # <<>>, NEW file \in Files, NEW s \in SentencesOf(file)
                 PROVE  s.no < Head(nmeaQueue).no
      OBVIOUS
    <3>1. Head(nmeaQueue) = nmeaQueue[1] /\ 1 \in 1..Len(nmeaQueue)
      BY QueueTail DEF TypeOK
    <3> QED BY <3>1, <2>4 DEF WrittenInv
  <2> QED BY <2>2, <2>5, <2>6 DEF OnceInOrder, InOrder
<1> QED BY <1>1, <1>2, PTL

-----------------------------------------------------------------------------
(* The led.                                                                *)

\* The green led, now or remembered by sync_files, means that the receiver has
\* told the day; and from then on a log is open but for the time it takes to
\* roll over, because the first day asked for one.
LedInv ==
    /\ fix \/ led = "logging" \/ prevLed = "logging" => pvt # 0
    /\ pvt # 0 /\ rolloverSem = 0 => current # {} \/ pc = "name"

LEMMA DayOfFirst ==
    ASSUME NEW t \in Nat, t # 0
    PROVE  Day(t) # 0
<1>1. (t - 1) \div DAYLEN \in Nat BY t - 1 \in Nat, ConstantsAssumption
<1> QED BY <1>1 DEF Day

LEMMA LedStep ==
    ASSUME "log" \notin Faults, TypeOK, LedInv, [Next]_vars
    PROVE  LedInv'
<1> USE DEF LedInv
<1>1. CASE PvtEvent
  <2>1. PICK valid \in BOOLEAN :
          /\ \/ pvt' \in IF valid \/ pvt # 0 THEN {clock'} ELSE {0, clock'}
             \/ pvt' = pvt /\ valid = fix
          /\ fix' = valid
          /\ led' = IF valid THEN "logging" ELSE "searching"
    BY <1>1 DEF PvtEvent
  <2>2. clock' \in Nat /\ clock' # 0 /\ pvt \in Nat
    BY <1>1, ConstantsAssumption DEF PvtEvent, TypeOK
  <2>3. pvt' \in Nat /\ (valid => pvt' # 0) /\ (pvt # 0 => pvt' # 0) BY <2>1, <2>2
  <2>4. pvt = 0 /\ pvt' # 0 => rolloverSem' = 1
    <3>1. pvt = 0 => lastDay = 0 BY DEF TypeOK, Day
    <3>2. pvt' # 0 => Day(pvt') # 0 BY <2>3, DayOfFirst
    <3> QED BY <1>1, <3>1, <3>2 DEF PvtEvent
  <2>5. rolloverSem' = 0 => rolloverSem = 0 BY <1>1 DEF PvtEvent, TypeOK
  <2>6. UNCHANGED <<current, pc, prevLed>> BY <1>1 DEF PvtEvent, card, sync
  <2> QED BY <2>1, <2>3, <2>4, <2>5, <2>6
<1>2. CASE NmeaEvent \/ ButtonPressed
  BY <1>2 DEF NmeaEvent, ButtonPressed, isr, sync, card
<1>3. CASE PollReturns
  BY <1>3 DEF PollReturns, FirstStage, isr, sync, card
<1>4. CASE RolloverClose \/ \E f \in Fields : ReadField(f)
  BY <1>4 DEF RolloverClose, ReadField, isr, sync, card
<1>5. CASE RolloverOpen
  BY <1>5 DEF RolloverOpen, RolloverDone, SemKept, isr, sync
<1>6. CASE RolloverFails
  BY <1>6 DEF RolloverFails
<1>7. CASE SyncStart
  BY <1>7 DEF SyncStart, ReceiverFirst, isr, card
<1>8. CASE SyncStopGnss \/ SyncConnect \/ SyncDisconnect \/ SyncStartGnss
  <2>1. UNCHANGED <<fix, led, prevLed, pvt, rolloverSem, current>> /\ pc # "name"
    BY <1>8 DEF SyncStopGnss, SyncConnect, SyncDisconnect, SyncStartGnss, isr, sync, card
  <2> QED BY <2>1
<1>9. CASE \E n \in Names : SyncUpload(n)
  BY <1>9 DEF SyncUpload, isr
<1>10. CASE SyncEnd
  BY <1>10 DEF SyncEnd, isr, card
<1>11. CASE HandleNmea
  <2>1. current # {} => current' # {}
    BY <1>11 DEF HandleNmea, Log!Append1
  <2> QED BY <1>11, <2>1 DEF HandleNmea, sync
<1>12. CASE NoNmea
  BY <1>12 DEF NoNmea, isr, sync, card
<1>13. CASE PowerLoss
  BY <1>13 DEF PowerLoss
<1>14. CASE UNCHANGED vars
  BY <1>14 DEF vars, isr, sync, card
<1> QED BY <1>1, <1>2, <1>3, <1>4, <1>5, <1>6, <1>7, <1>8, <1>9, <1>10, <1>11, <1>12,
           <1>13, <1>14 DEF Next, Main, Interrupt

\* What the green flash promises (README.md:64), if logs can be opened: with the
\* loop at rest and the led green a log is open, whatever led sync_files put
\* back, and although the led is set by the interrupt and the log by main.
THEOREM GreenMeansLogging ==
    ASSUME "log" \notin Faults
    PROVE  Spec => []LedTellsLogging
<1>1. Init => TypeOK /\ LedInv
  <2>1. Init => LedInv BY DEF Init, LedInv
  <2> QED BY <2>1, TypeInit
<1>2. TypeOK /\ LedInv /\ [Next]_vars => (TypeOK /\ LedInv)'
  BY TypeStep, LedStep
<1>3. LedInv => LedTellsLogging BY DEF LedInv, LedTellsLogging
<1> QED BY <1>1, <1>2, <1>3, PTL DEF Spec
==============================================================================
