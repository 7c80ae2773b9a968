------------------------------ MODULE NmeaQueue ------------------------------
(***************************************************************************)
(* Who owns the heap block of an NMEA sentence: the GNSS event handler     *)
(* allocates it and either queues or frees it (gnss.c:142-159), the main   *)
(* thread takes it off the queue and frees it (main.c:249-260). The        *)
(* handler interrupts the main thread between any two of its steps and     *)
(* runs to its end; the main thread never runs in the middle of it.        *)
(*                                                                         *)
(* The main thread keeps its block while it is away in lz4write, where it  *)
(* may wait for the card, and does not get to the queue at all during an   *)
(* upload: the queue fills meanwhile.                                      *)
(***************************************************************************)
EXTENDS Naturals, Sequences, FiniteSets

CONSTANTS
    Frames,     \* heap blocks that fit a struct nrf_modem_gnss_nmea_data_frame
    QLEN        \* capacity of nmea_queue (gnss.c:34)

ASSUME FramesAssumption == IsFiniteSet(Frames)
ASSUME QlenAssumption   == QLEN \in Nat \ {0}

VARIABLES
    allocated,  \* blocks k_malloc returned and k_free did not take back
    nmeaQueue,  \* nmea_queue: the pointers in it
    handler,    \* nmea_data in the event handler: {} or {f}
    nmeaRead,   \* nrf_modem_gnss_read has filled the handler's block
    held        \* nmea_data in main: {} or {f}

queueVars == <<allocated, nmeaQueue, handler, nmeaRead, held>>

Pointer == {{}} \cup {{f} : f \in Frames}

QueueTypeOK ==
    /\ allocated \subseteq Frames
    /\ nmeaQueue \in Seq(Frames) /\ Len(nmeaQueue) <= QLEN
    /\ handler \in Pointer
    /\ nmeaRead \in BOOLEAN
    /\ held \in Pointer

QueueInit ==
    /\ allocated = {} /\ nmeaQueue = <<>>
    /\ handler = {} /\ nmeaRead = FALSE /\ held = {}

-----------------------------------------------------------------------------
(* The event handler, NRF_MODEM_GNSS_EVT_NMEA.                             *)

(* k_malloc; without a free block the event is dropped.                    *)
HandlerMalloc ==
    /\ handler = {}
    /\ \E f \in Frames \ allocated :
          /\ allocated' = allocated \cup {f}
          /\ handler' = {f}
    /\ nmeaRead' = FALSE
    /\ UNCHANGED <<nmeaQueue, held>>

(* nrf_modem_gnss_read succeeds.                                           *)
HandlerRead ==
    /\ handler # {} /\ ~nmeaRead
    /\ nmeaRead' = TRUE
    /\ UNCHANGED <<allocated, nmeaQueue, handler, held>>

(* k_msgq_put with K_NO_WAIT                                               *)
Room == Len(nmeaQueue) < QLEN

(* hands the block over to the queue,                                      *)
FreedAfterPut(f)  == allocated \ {f}                \* mutant: retval not looked at
OwnedByQueue(f) == allocated

HandlerPut ==
    /\ nmeaRead /\ Room
    /\ \E f \in handler :
          /\ nmeaQueue' = Append(nmeaQueue, f)
          /\ allocated' = OwnedByQueue(f)
    /\ handler' = {} /\ nmeaRead' = FALSE
    /\ UNCHANGED held

(* or the block is freed: reading failed, or the queue is full.            *)
Leaked(f)   == allocated                            \* mutant: no k_free
Released(f) == allocated \ {f}

HandlerFree ==
    /\ ~nmeaRead \/ ~Room
    /\ \E f \in handler : allocated' = Released(f)
    /\ handler' = {} /\ nmeaRead' = FALSE
    /\ UNCHANGED <<nmeaQueue, held>>

-----------------------------------------------------------------------------
(* The main thread.                                                        *)

(* k_msgq_get                                                              *)
MainGet ==
    /\ handler = {} /\ held = {} /\ nmeaQueue # <<>>
    /\ held' = {Head(nmeaQueue)}
    /\ nmeaQueue' = Tail(nmeaQueue)
    /\ UNCHANGED <<allocated, handler, nmeaRead>>

(* k_free, after lz4write or without it                                    *)
MainFree ==
    /\ handler = {}
    /\ \E f \in held : allocated' = Released(f)
    /\ held' = {}
    /\ UNCHANGED <<nmeaQueue, handler, nmeaRead>>

QueueNext ==
    \/ HandlerMalloc \/ HandlerRead \/ HandlerPut \/ HandlerFree
    \/ MainGet \/ MainFree

-----------------------------------------------------------------------------
(* Properties                                                              *)

Queued == {nmeaQueue[i] : i \in 1..Len(nmeaQueue)}

\* Every allocated block has exactly one owner - a place in the queue, the
\* handler or the main thread - and every block somebody uses is allocated:
\* nothing leaks, nothing is freed twice or while in use, for every
\* interleaving and with the queue full (main.c:256, gnss.c:156).
OneOwner ==
    /\ allocated = Queued \cup handler \cup held
    /\ \A i, j \in 1..Len(nmeaQueue) : nmeaQueue[i] = nmeaQueue[j] => i = j
    /\ Queued \cap handler = {} /\ Queued \cap held = {} /\ handler \cap held = {}

\* The sentences never take more than QLEN + 2 blocks of the heap: the queue,
\* one the handler is about to have refused, one the main thread works on.
HeapDemand == Cardinality(allocated) <= QLEN + 2
==============================================================================
