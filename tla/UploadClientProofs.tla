-------------------------- MODULE UploadClientProofs --------------------------
(***************************************************************************)
(* Theorems about UploadClient: for all files, addresses, sockets, handles *)
(* and attempts, any number of rounds of uploads and every combination of  *)
(* troubles and resets.                                                    *)
(***************************************************************************)
EXTENDS UploadClient, TLAPS

Places == {"idle", "attach", "wait", "next", "resolve", "connect", "refused",
           "request", "answered", "rename"}

TypeOK ==
    /\ faults \subseteq Troubles
    /\ pc \in Places
    /\ todo \subseteq Files /\ file \subseteq Files
    /\ lte \in {"off", "searching", "registered"} /\ lteReady \in {0, 1}
    /\ httpFd \in BOOLEAN /\ sockets \in Nat /\ handles \in Nat
    /\ okFiles \subseteq Files /\ server \subseteq Files

\* A file is taken up when the one before it is done with.
FileInv ==
    /\ pc \in {"idle", "attach", "wait", "next"} => file = {}
    /\ httpFd => sockets > 0

\* Who holds a socket: nobody but a connection that is being made, used or
\* given up.
SocketInv ==
    faults \cap {"lost", "close"} = {} =>
        /\ sockets = IF httpFd THEN 1 ELSE 0
        /\ pc \in {"refused", "request", "answered"} \/ ~httpFd

\* Where a file is taken for stored, it is: an answer comes after all of it,
\* and upload_cb can open it, because no earlier one was left open.
StoredInv ==
    faults \cap {"refuse", "send", "hangup", "card"} = {} =>
        /\ handles = 0
        /\ pc \in {"answered", "rename"} => file \subseteq server
        /\ okFiles \subseteq server

\* The token of lte_ready is there from the registration to the end of
\* lte_connect, and at no other time.
NetworkInv ==
    faults \cap {"modem", "late", "unsteady"} = {} =>
        /\ pc \in {"idle", "attach"} => lte = "off" /\ lteReady = 0
        /\ pc = "wait" => \/ lte = "searching" /\ lteReady = 0
                          \/ lte = "registered" /\ lteReady = 1
        /\ pc = "next" => /\ lteReady = 0
                          /\ lte = "registered" \/ (lte = "off" /\ todo = {})
        /\ pc \notin {"idle", "attach", "wait", "next"} =>
              lte = "registered" /\ lteReady = 0

IInv == TypeOK /\ FileInv /\ SocketInv /\ StoredInv /\ NetworkInv

-----------------------------------------------------------------------------
(* The four parts, each kept by every step.                                *)

LEMMA InitEstablishes == Init => IInv
<1> SUFFICES ASSUME Init PROVE IInv
  OBVIOUS
<1>1. ~httpFd /\ httpFd \in BOOLEAN /\ sockets = 0 BY DEF Init
<1>2. TypeOK BY <1>1, FaultSetsAssumption DEF Init, TypeOK, Places
<1>3. FileInv /\ SocketInv BY <1>1 DEF Init, FileInv, SocketInv
<1>4. StoredInv /\ NetworkInv BY DEF Init, StoredInv, NetworkInv
<1> QED BY <1>2, <1>3, <1>4 DEF IInv

LEMMA ClosingReturnsSocket ==
    ASSUME httpFd \in BOOLEAN, sockets \in Nat, httpFd => sockets > 0, CloseSocket
    PROVE  /\ httpFd' = FALSE /\ sockets' \in Nat
           /\ (sockets = IF httpFd THEN 1 ELSE 0) => sockets' = 0
<1>1. CASE httpFd
  <2>1. sockets' = sockets - 1 BY <1>1 DEF CloseSocket
  <2> QED BY <1>1, <2>1 DEF CloseSocket
<1>2. CASE ~httpFd
  <2>1. sockets' = sockets BY <1>2 DEF CloseSocket
  <2> QED BY <1>2, <2>1 DEF CloseSocket
<1> QED BY <1>1, <1>2

LEMMA Always == Spec => []IInv
<1>1. Init => IInv
  BY InitEstablishes
<1>2. IInv /\ [Next]_vars => IInv'
  <2> SUFFICES ASSUME IInv, [Next]_vars PROVE IInv'
    OBVIOUS
  <2> USE ConstantsAssumption, FaultSetsAssumption DEF IInv, TypeOK, Places, FileInv, SocketInv, StoredInv,
          NetworkInv
  <2>1. CASE SyncStart
    BY <2>1 DEF SyncStart, Walks, radio
  <2>2. CASE LteConnect
    BY <2>2 DEF LteConnect
  <2>3. CASE LteReady
    BY <2>3 DEF LteReady, TokenTaken
  <2>4. CASE LteTimeout
    BY <2>4 DEF LteTimeout, radio
  <2>5. CASE LteRegisters \/ LteLost
    BY <2>5 DEF LteRegisters, LteLost
  <2>6. CASE SyncEnd
    BY <2>6 DEF SyncEnd
  <2>7. CASE \E f \in Files : UploadStart(f)
    <3>1. PICK f \in Files : UploadStart(f) BY <2>7
    <3>2. CASE UNCHANGED <<pc, file, gaiCnt, httpFd>>
      BY <3>1, <3>2 DEF UploadStart, radio
    <3>3. CASE pc' = "resolve" /\ file' = {f} /\ httpFd' = FALSE
      BY <3>1, <3>3 DEF UploadStart, radio
    <3> QED BY <3>1, <3>2, <3>3 DEF UploadStart
  <2>8. CASE Resolved
    BY <2>8 DEF Resolved, radio
  <2>9. CASE ResolveFails
    BY <2>9 DEF ResolveFails, Return, radio
  <2>10. CASE Connected
    BY <2>10 DEF Connected, radio
  <2>11. CASE SocketFails
    BY <2>11 DEF SocketFails, radio
  <2>12. CASE SocketOpened
    BY <2>12 DEF SocketOpened, radio
  <2>13. CASE ConnectFails
    BY <2>13, ClosingReturnsSocket DEF ConnectFails, CloseFails, radio
  <2>14. CASE NoAddressLeft
    BY <2>14, ClosingReturnsSocket DEF NoAddressLeft, CloseFails, NotOpened, Return, radio
  <2>15. CASE RequestStored
    BY <2>15 DEF RequestStored, BodySent, radio
  <2>16. CASE RequestRefused
    BY <2>16 DEF RequestRefused, BodySent, BodyCut, radio
  <2>17. CASE RequestUnanswered
    BY <2>17 DEF RequestUnanswered, StoredOrNot, BodySent, BodyCut, radio
  <2>18. CASE RequestLost
    BY <2>18 DEF RequestLost, StoredOrNot, BodySent, BodyCut, Return, radio
  <2>19. CASE RequestDone
    BY <2>19, ClosingReturnsSocket DEF RequestDone, CloseFails, Return, radio
  <2>20. CASE Rename
    BY <2>20 DEF Rename, Return, radio
  <2>21. CASE PowerLoss
    BY <2>21 DEF PowerLoss
  <2>22. CASE UNCHANGED vars
    BY <2>22 DEF vars, radio
  <2> QED
    BY <2>1, <2>2, <2>3, <2>4, <2>5, <2>6, <2>7, <2>8, <2>9, <2>10, <2>11, <2>12, <2>13,
       <2>14, <2>15, <2>16, <2>17, <2>18, <2>19, <2>20, <2>21, <2>22 DEF Next, Main
<1> QED BY <1>1, <1>2, PTL DEF Spec

-----------------------------------------------------------------------------
\* Type correctness; closing a socket never makes their number negative.
THEOREM TypeCorrect == Spec => []TypeOK
<1>1. IInv => TypeOK BY DEF IInv
<1> QED BY <1>1, Always, PTL

\* A file is renamed to .lz4_ok only if the server has all of it, as long as the
\* card works and no request is refused, broken off or closed without an answer
\* (main.c:76-81, uploadclient.c:647).
THEOREM RenamedIsStored == Spec => []OkMeansStoredIfServed
<1>1. IInv => OkMeansStoredIfServed
  BY DEF IInv, StoredInv, OkMeansStoredIfServed, OkMeansStored
<1> QED BY <1>1, Always, PTL

\* Between two files every socket is closed, as long as no close and no request
\* ends with an error (close_http_socket, uploadclient.c:316-330, 635).
THEOREM NoSocketLost == Spec => []SocketsReturnedIfAnswered
<1>1. IInv => SocketsReturnedIfAnswered
  BY DEF IInv, SocketInv, SocketsReturnedIfAnswered, SocketsReturned
<1> QED BY <1>1, Always, PTL

\* No host is looked up before the modem is registered, if it registers in time
\* and for good (lte_connect, modem.c:42-63).
THEOREM NetworkFirst == Spec => []WaitsForNetwork
<1>1. IInv => WaitsForNetwork
  BY DEF IInv, FileInv, NetworkInv, WaitsForNetwork
<1> QED BY <1>1, Always, PTL
==============================================================================
