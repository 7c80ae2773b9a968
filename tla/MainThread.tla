------------------------------ MODULE MainThread ------------------------------
(***************************************************************************)
(* Main from power-up into its logging loop, with the blocks of NMEA       *)
(* sentences it gets there: Boot and NmeaQueue together. The event handler *)
(* is installed by init_gnss and runs once start_gnss has succeeded        *)
(* (main.c:216-224); a reset loses the heap and the queue.                 *)
(***************************************************************************)
EXTENDS Boot, NmeaQueue

MainInit == Init /\ QueueInit

Starting == (PowerOn \/ Boot \/ EditConfig) /\ UNCHANGED queueVars

Logging == pc = "logging" /\ QueueNext /\ UNCHANGED vars

Reset ==
    /\ PowerOff
    /\ allocated' = {} /\ nmeaQueue' = <<>>
    /\ handler' = {} /\ nmeaRead' = FALSE /\ held' = {}

MainNext == Starting \/ Logging \/ Reset

MainSpec == MainInit /\ [][MainNext]_<<vars, queueVars>>

(* The main thread runs as long as the board does.                         *)
FairMainSpec == MainSpec /\ WF_vars(Boot)
===============================================================================
