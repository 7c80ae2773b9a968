----------------------------- MODULE UploadClient ----------------------------
(***************************************************************************)
(* One file after the other to the WebDAV server: the loop of sync_files   *)
(* (main.c:68-96), lte_connect and lte_disconnect with the registration of *)
(* the modem (modem.c), and webdavUploadFile with open_http_socket,        *)
(* upload_cb, response_cb and close_http_socket (uploadclient.c).          *)
(*                                                                         *)
(* The server stores a PUT of a new resource and answers "Created" (201);  *)
(* of a resource it already has it answers "No Content" (204).             *)
(***************************************************************************)
EXTENDS Naturals, FiniteSets

CONSTANTS
    Files,              \* the .lz4 files of the data directory
    Empty,              \* those of size zero
    GAI_ATTEMPT_COUNT,  \* uploadclient.c, attempts to resolve the host
    NADDR,              \* addresses the host resolves to
    NSOCK,              \* sockets the modem has
    NFILES,             \* files the FAT layer can have open at once
    FaultSets,          \* the sets of Troubles to look at
    MAXSYNC             \* bound: calls of sync_files

ASSUME ConstantsAssumption ==
    /\ Empty \subseteq Files /\ IsFiniteSet(Files)
    /\ {GAI_ATTEMPT_COUNT, NADDR, NSOCK, NFILES} \subseteq Nat \ {0}
    /\ MAXSYNC \in Nat

(* What may go wrong outside the board: the modem does not switch LTE on or*)
(* off, registers after 30 seconds, or loses the network again; the host is*)
(* not resolved, an address does not connect, a socket is not closed; the  *)
(* server refuses a file, sending breaks off, the server hangs up without  *)
(* an answer, no answer comes in time; the card fails.                     *)
Troubles == {"modem", "late", "unsteady", "resolve", "connect", "close", "refuse", "send",
             "hangup", "lost", "card"}

ASSUME FaultSetsAssumption == FaultSets \subseteq SUBSET Troubles

VARIABLES
    faults,     \* the troubles of this behaviour, which never change
    pc,         \* where the main thread is in sync_files
    syncs,      \* calls of sync_files so far (bound)
    todo,       \* files lsdir_next still has to return
    file,       \* the file being uploaded: {} or {f}
    lte,        \* the modem: "off", "searching" or "registered"
    lteReady,   \* lte_ready, a semaphore that counts to one
    gaiCnt,     \* gai_cnt
    addrs,      \* addresses not tried yet
    httpFd,     \* http_fd: a socket is in it
    sockets,    \* sockets open in the modem
    handles,    \* files open in the FAT layer
    lastStatus, \* last_http_status: 201 or 404
    okFiles,    \* files renamed to .lz4_ok
    server      \* files the server has stored completely

radio == <<lte, lteReady>>
vars == <<faults, pc, syncs, todo, file, radio, gaiCnt, addrs, httpFd, sockets,
          handles, lastStatus, okFiles, server>>

(* The initial value of last_http_status.                                  *)
StatusAtBoot == 404

Init ==
    /\ faults \in FaultSets
    /\ pc = "idle" /\ syncs = 0
    /\ lte = "off" /\ lteReady = 0
    /\ todo = {} /\ file = {} /\ gaiCnt = 0 /\ addrs = 0
    /\ httpFd = FALSE /\ sockets = 0 /\ handles = 0
    /\ lastStatus = StatusAtBoot
    /\ okFiles = {} /\ server = {}

-----------------------------------------------------------------------------
(* sync_files                                                              *)

\* What lsdir_next returns before the walk ends, or the card breaks it off.
Walks == IF "card" \in faults THEN SUBSET (Files \ okFiles) ELSE {Files \ okFiles}

SyncStart ==
    /\ pc = "idle" /\ syncs < MAXSYNC
    /\ syncs' = syncs + 1
    /\ todo' \in Walks
    /\ pc' = IF todo' = {} THEN "next" ELSE "attach"
    /\ UNCHANGED <<faults, radio, file, gaiCnt, addrs, httpFd, sockets, handles,
                   lastStatus, okFiles, server>>

\* lte_connect; sync_files goes on whatever it returns.
LteConnect ==
    /\ pc = "attach"
    /\ \/ lte' = (IF lte = "off" THEN "searching" ELSE lte) /\ pc' = "wait"
       \/ "modem" \in faults /\ pc' = "next" /\ UNCHANGED lte
    /\ UNCHANGED <<faults, lteReady, syncs, todo, file, gaiCnt, addrs, httpFd, sockets,
                   handles, lastStatus, okFiles, server>>

TokenLeft  == UNCHANGED lteReady                    \* mutant: token not taken
TokenTaken == lteReady' = 0
LteReady ==
    /\ pc = "wait" /\ lteReady = 1
    /\ TokenTaken
    /\ pc' = "next"
    /\ UNCHANGED <<faults, lte, syncs, todo, file, gaiCnt, addrs, httpFd, sockets,
                   handles, lastStatus, okFiles, server>>

\* 30 seconds are over. A modem that was still registered reports nothing new.
LteTimeout ==
    /\ pc = "wait" /\ lteReady = 0 /\ ("late" \in faults \/ lte = "registered")
    /\ pc' = "next"
    /\ UNCHANGED <<faults, radio, syncs, todo, file, gaiCnt, addrs, httpFd, sockets,
                   handles, lastStatus, okFiles, server>>

\* lte_lc_event_handler, in a thread of the modem library.
LteRegisters ==
    /\ lte = "searching"
    /\ lte' = "registered" /\ lteReady' = 1
    /\ UNCHANGED <<faults, pc, syncs, todo, file, gaiCnt, addrs, httpFd, sockets,
                   handles, lastStatus, okFiles, server>>

LteLost ==
    /\ lte = "registered" /\ "unsteady" \in faults
    /\ lte' = "searching"
    /\ UNCHANGED <<faults, lteReady, pc, syncs, todo, file, gaiCnt, addrs, httpFd, sockets,
                   handles, lastStatus, okFiles, server>>

\* lte_disconnect, when there were files.
SyncEnd ==
    /\ pc = "next" /\ todo = {}
    /\ pc' = "idle"
    /\ lte' \in {"off"} \cup (IF "modem" \in faults THEN {lte} ELSE {})
    /\ UNCHANGED <<faults, lteReady, syncs, todo, file, gaiCnt, addrs, httpFd, sockets,
                   handles, lastStatus, okFiles, server>>

(* webdavUploadFile: a file that is empty, or that file_size cannot look   *)
(* at, is refused; otherwise open_http_socket forgets what is in http_fd   *)
(* and resolves the host.                                                  *)
UploadStart(f) ==
    /\ pc = "next" /\ f \in todo
    /\ todo' = todo \ {f}
    /\ \/ /\ f \in Empty \/ "card" \in faults
          /\ UNCHANGED <<pc, file, gaiCnt, httpFd>>
       \/ /\ f \notin Empty
          /\ pc' = "resolve" /\ file' = {f} /\ gaiCnt' = 0 /\ httpFd' = FALSE
    /\ UNCHANGED <<faults, radio, syncs, addrs, sockets, handles, lastStatus, okFiles, server>>

(* webdavUploadFile returns UPLOADCLNT_ERROR: try later.                   *)
Return ==
    /\ pc' = "next" /\ file' = {}

-----------------------------------------------------------------------------
(* open_http_socket                                                        *)

Resolved ==
    /\ pc = "resolve" /\ lte = "registered"
    /\ gaiCnt' = 0 /\ addrs' = NADDR
    /\ pc' = "connect"
    /\ UNCHANGED <<faults, radio, syncs, todo, file, httpFd, sockets, handles, lastStatus,
                   okFiles, server>>

(* Giving up frees info, which was never set: that may be harmless (here)  *)
(* or reset the board (PowerLoss).                                         *)
GiveUpResolving == gaiCnt + 1 = GAI_ATTEMPT_COUNT

ResolveFails ==
    /\ pc = "resolve" /\ ("resolve" \in faults \/ lte # "registered")
    /\ gaiCnt' = gaiCnt + 1
    /\ IF GiveUpResolving THEN Return ELSE UNCHANGED <<pc, file>>
    /\ UNCHANGED <<faults, radio, syncs, todo, addrs, httpFd, sockets, handles, lastStatus,
                   okFiles, server>>

(* close_http_socket; when close() fails, it leaves everything as it was.  *)
CloseNothing == UNCHANGED <<httpFd, sockets>>       \* mutant: not closed
CloseSocket ==
    /\ httpFd' = FALSE
    /\ sockets' = IF httpFd THEN sockets - 1 ELSE sockets

CloseFails == httpFd /\ "close" \in faults /\ UNCHANGED <<httpFd, sockets>>

Connected ==
    /\ pc = "connect" /\ addrs > 0 /\ sockets < NSOCK
    /\ httpFd' = TRUE /\ sockets' = sockets + 1
    /\ addrs' = 0
    /\ pc' = "request"
    /\ UNCHANGED <<faults, radio, syncs, todo, file, gaiCnt, handles, lastStatus, okFiles, server>>

(* addr = addr->ai_next                                                    *)
SameAddress == addrs                                \* mutant: no advance
NextAddress == addrs - 1

(* No socket for this address: http_fd = -1, the next one.                 *)
SocketFails ==
    /\ pc = "connect" /\ addrs > 0
    /\ "connect" \in faults \/ sockets >= NSOCK
    /\ addrs' = NextAddress
    /\ httpFd' = FALSE
    /\ UNCHANGED <<faults, radio, pc, syncs, todo, file, gaiCnt, sockets, handles,
                   lastStatus, okFiles, server>>

(* A socket, but its options, TLS or the connection fail: close it, then   *)
(* the next address.                                                       *)
SocketOpened ==
    /\ pc = "connect" /\ addrs > 0 /\ sockets < NSOCK
    /\ "connect" \in faults
    /\ httpFd' = TRUE /\ sockets' = sockets + 1
    /\ pc' = "refused"
    /\ UNCHANGED <<faults, radio, syncs, todo, file, gaiCnt, addrs, handles, lastStatus, okFiles, server>>

ConnectFails ==
    /\ pc = "refused"
    /\ CloseSocket \/ CloseFails
    /\ addrs' = NextAddress
    /\ pc' = "connect"
    /\ UNCHANGED <<faults, radio, syncs, todo, file, gaiCnt, handles, lastStatus, okFiles, server>>

OpenIgnored == pc' = "answered" /\ UNCHANGED file   \* mutant: result not looked at
NotOpened   == Return

NoAddressLeft ==
    /\ pc = "connect" /\ addrs = 0
    /\ CloseSocket \/ CloseFails
    /\ NotOpened
    /\ UNCHANGED <<faults, radio, syncs, todo, gaiCnt, addrs, handles, lastStatus, okFiles, server>>

-----------------------------------------------------------------------------
(* http_client_req with upload_cb and response_cb                          *)

(* upload_cb: it sends the whole file;                                     *)
BodySent == handles < NFILES /\ UNCHANGED handles

(* or it fails to open it, for want of a handle or of the card, or to read *)
(* or send all of it, and then it stays open. Its UPLOADCLNT_ERROR counts  *)
(* as one byte sent.                                                       *)
BodyCut ==
    \/ (handles >= NFILES \/ "card" \in faults) /\ UNCHANGED handles
    \/ handles < NFILES /\ {"send", "card"} \cap faults # {} /\ handles' = handles + 1

(* response_cb                                                             *)
Response(created) == lastStatus' = IF created THEN 201 ELSE lastStatus

(* The whole file is sent and stored, and the answer comes.                *)
RequestStored ==
    /\ pc = "request" /\ BodySent
    /\ Response(file \cap server = {})
    /\ server' = server \cup file
    /\ pc' = "answered"
    /\ UNCHANGED <<faults, radio, syncs, todo, file, gaiCnt, addrs, httpFd, sockets, okFiles>>

(* The server answers with something else: no access, no room, a body that *)
(* is too short, ...                                                       *)
RequestRefused ==
    /\ pc = "request"
    /\ BodyCut \/ (BodySent /\ "refuse" \in faults)
    /\ Response(FALSE)
    /\ pc' = "answered"
    /\ UNCHANGED <<faults, radio, syncs, todo, file, gaiCnt, addrs, httpFd, sockets, okFiles,
                   server>>

(* It may have stored a file that it does not answer for.                  *)
StoredOrNot ==
    \/ BodySent /\ server' \in {server, server \cup file}
    \/ BodyCut /\ UNCHANGED server

(* The connection is closed before an answer: http_client_req returns 0,   *)
(* which is no error.                                                      *)
RequestUnanswered ==
    /\ pc = "request" /\ "hangup" \in faults
    /\ StoredOrNot
    /\ pc' = "answered"
    /\ UNCHANGED <<faults, radio, syncs, todo, file, gaiCnt, addrs, httpFd, sockets,
                   lastStatus, okFiles>>

(* No answer within the timeout, or the connection is lost:                *)
(* webdavUploadFile returns without closing.                               *)
RequestLost ==
    /\ pc = "request" /\ "lost" \in faults
    /\ StoredOrNot
    /\ Return
    /\ UNCHANGED <<faults, radio, syncs, todo, gaiCnt, addrs, httpFd, sockets, lastStatus,
                   okFiles>>

(* Close the socket, which may fail, and look at last_http_status.         *)
CreatedSeen == lastStatus = 201

RequestDone ==
    /\ pc = "answered"
    /\ \/ /\ CloseSocket
          /\ IF CreatedSeen THEN pc' = "rename" /\ UNCHANGED file ELSE Return
       \/ CloseFails /\ Return
    /\ UNCHANGED <<faults, radio, syncs, todo, gaiCnt, addrs, handles, lastStatus, okFiles, server>>

(* sync_files renames the file, if the card lets it.                       *)
Rename ==
    /\ pc = "rename"
    /\ \/ okFiles' = okFiles \cup file
       \/ "card" \in faults /\ UNCHANGED okFiles
    /\ Return
    /\ UNCHANGED <<faults, radio, syncs, todo, gaiCnt, addrs, httpFd, sockets, handles,
                   lastStatus, server>>

-----------------------------------------------------------------------------
(* The board resets; the card and the server keep what they have.          *)
PowerLoss ==
    /\ pc' = "idle" /\ todo' = {} /\ file' = {} /\ gaiCnt' = 0 /\ addrs' = 0
    /\ httpFd' = FALSE /\ sockets' = 0 /\ handles' = 0
    /\ lastStatus' = StatusAtBoot
    /\ lte' = "off" /\ lteReady' = 0
    /\ UNCHANGED <<faults, syncs, okFiles, server>>

Main ==
    \/ LteConnect \/ LteReady \/ LteTimeout \/ SyncEnd
    \/ (\E f \in Files : UploadStart(f))
    \/ Resolved \/ ResolveFails
    \/ Connected \/ SocketFails \/ SocketOpened \/ ConnectFails \/ NoAddressLeft
    \/ RequestStored \/ RequestRefused \/ RequestUnanswered \/ RequestLost
    \/ RequestDone \/ Rename

Next == SyncStart \/ Main \/ LteRegisters \/ LteLost \/ PowerLoss

Spec == Init /\ [][Next]_vars

(* Calls return: getaddrinfo, connect and http_client_req have timeouts,   *)
(* and so has lte_connect. A modem that is not late registers; one that is *)
(* may never do so.                                                        *)
FairSpec == Spec /\ WF_vars(Main) /\ WF_vars("late" \notin faults /\ LteRegisters)
-----------------------------------------------------------------------------
(* Properties                                                              *)

\* A file is renamed to .lz4_ok only if the server has all of it ("Sucessfully
\* uploaded file %s, renaming", main.c:78): nobody uploads it again after that.
OkMeansStored == okFiles \subseteq server

\* It holds when the card works and requests, once sent, are not refused, broken
\* off or closed without an answer (each of which meets a last_http_status left
\* at 201): no order of failing resolutions, connections and closes, repeated
\* uploads, answers that do not come in time and resets makes webdavUploadFile
\* return success for a file not stored.
OkMeansStoredIfServed ==
    faults \cap {"refuse", "send", "hangup", "card"} = {} => OkMeansStored

\* Between two files every socket of the modem is closed again, whichever of
\* the retries, addresses and calls of the last upload failed ("socket needs
\* to be closed before retrying", uploadclient.c:448): the modem has only NSOCK.
SocketsReturned ==
    /\ sockets = IF httpFd THEN 1 ELSE 0
    /\ pc \in {"idle", "next"} => ~httpFd

\* It holds when close() does not fail and no request ends with an error:
\* webdavUploadFile returns without closing then (uploadclient.c:635).
SocketsReturnedIfAnswered == faults \cap {"lost", "close"} = {} => SocketsReturned

\* lte_connect waits: when the modem does what it is told and registers in time
\* and for good, no host is looked up before it is registered, whatever tokens
\* earlier uploads and registrations left in lte_ready (modem.c:54).
WaitsForNetwork ==
    faults \cap {"modem", "late", "unsteady"} = {} =>
        (pc \notin {"idle", "attach", "wait"} /\ file # {} => lte = "registered")

\* sync_files always returns, so that the receiver is started and logging goes
\* on: when the host cannot be resolved, no address answers, requests are lost,
\* and even when earlier failures have used up every socket or file handle.
SyncReturns == (pc # "idle") ~> (pc = "idle")
==============================================================================
