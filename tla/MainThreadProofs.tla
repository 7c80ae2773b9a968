--------------------------- MODULE MainThreadProofs ---------------------------
(***************************************************************************)
(* Theorems about MainThread, and about Boot and NmeaQueue, of which it is *)
(* made.                                                                   *)
(*                                                                         *)
(* Boot: what is true of every board that logs, for every set of           *)
(* certificates and faults, with and without TLS in the firmware. The      *)
(* invariant says of each stage of main what the stages before it have     *)
(* established, and that the card does not take it back.                   *)
(*                                                                         *)
(* NmeaQueue: the ownership of NMEA blocks for every heap and every queue  *)
(* length. OneOwner is inductive with the types.                           *)
(***************************************************************************)
EXTENDS MainThread, FiniteSetTheorems, TLAPS

AfterDirectories == {"read_config", "write_defaults", "cert_provision", "cert_write",
                     "gnss", "logging"}
AfterConfig      == {"cert_provision", "cert_write", "gnss", "logging"}

DirectoriesInv == pc \in AfterDirectories => dirs = Directories

SettingsInv ==
    /\ pc = "write_defaults" => /\ conf = Defaults
                                /\ configFile \in Config => "card" \in Faults
    /\ pc \in AfterConfig =>
          /\ conf \in Config
          /\ configFile \in Config =>
                \/ Agrees(conf, configFile)
                \/ {"card", "write"} \subseteq Faults /\ conf = Defaults

CertInv ==
    /\ pc \in {"cert_provision", "cert_write"} => conf.usetls = 1
    /\ pc \in AfterConfig /\ conf.usetls = 1 => conf.tlscert \in TlsCert
    /\ pc \in {"gnss", "logging"} /\ conf.usetls = 1 => modemCert = {conf.tlscert}

IInv == TypeOK /\ DirectoriesInv /\ SettingsInv /\ CertInv

-----------------------------------------------------------------------------
(* The two ways to get a configuration.                                    *)

LEMMA DefaultsAreConfig ==
    /\ Defaults \in Config /\ Defaults.usetls = 1 /\ Defaults.tlscert \in TlsCert
    /\ DefaultsWritten \in Config
    /\ Agrees(Defaults, DefaultsWritten)
BY DEF Defaults, DefaultsWritten, Config, TlsCert, Certs, Agrees

LEMMA FileGivesConfig ==
    ASSUME NEW file \in Config, CertGiven(file)
    PROVE  /\ FromFile(file) \in Config
           /\ Agrees(FromFile(file), file)
           /\ FromFile(file).usetls = 1 => FromFile(file).tlscert \in TlsCert
<1> DEFINE tls  == UsetlsOf(file)
           cert == IF tls = 1 THEN ReplaceLineend(file.tlscert) ELSE NoCert
<1>1. tls \in {0, 1} BY DEF UsetlsOf, Config
<1>2. tls = 1 => cert \in TlsCert
  BY DEF CertGiven, Config, ReplaceLineend, TlsCert, UsetlsOf
<1>3. cert \in TlsCert \cup {NoCert} BY <1>2
<1>4. FromFile(file) = [file EXCEPT !.usetls = tls, !.tlscert = cert]
  BY DEF FromFile, Parsed, Config
<1>5. SOCKOPT_TLS => tls = file.usetls BY DEF UsetlsOf
<1>6. tls = 1 => cert.name = file.tlscert.name
  <2>1. tls = 1 => file.tlscert \in TlsCert
    BY DEF CertGiven, Config, TlsCert, UsetlsOf
  <2> QED BY <2>1 DEF ReplaceLineend, TlsCert
<1> HIDE DEF tls, cert
<1> DEFINE made == FromFile(file)
<1>7. /\ made \in Config /\ made.upload = file.upload /\ made.pvt_low = file.pvt_low
      /\ made.usetls = tls /\ made.tlscert = cert
  BY <1>1, <1>3, <1>4 DEF Config
<1> HIDE DEF made
<1>8. Agrees(made, file) BY <1>5, <1>6, <1>7 DEF Agrees
<1> QED BY <1>2, <1>7, <1>8 DEF made

-----------------------------------------------------------------------------
(* Every step keeps the invariant.                                         *)

LEMMA InitEstablishes == Init => IInv
BY DEF Init, IInv, TypeOK, Stages, DirectoriesInv, SettingsInv, CertInv,
       AfterDirectories, AfterConfig

LEMMA StepKeeps == IInv /\ [Next]_vars => IInv'
<1> SUFFICES ASSUME IInv, [Next]_vars PROVE IInv'
  OBVIOUS
<1> USE DEF IInv, DirectoriesInv, SettingsInv, CertInv, AfterDirectories, AfterConfig,
            TypeOK, Stages
<1>1. CASE PowerOn
  BY <1>1 DEF PowerOn, card
<1>2. CASE SetupModem \/ MountSdcard
  BY <1>2 DEF SetupModem, MountSdcard, GotoOrHalt, Goto, Halt, card
<1>3. CASE MakeDirectory
  BY <1>3 DEF MakeDirectory, Missing, Halt, Directories
<1>4. CASE DirectoriesDone
  <2>1. dirs = Directories
    BY <1>4 DEF DirectoriesDone, NothingIsMissing, Missing, Directories
  <2> QED BY <1>4, <2>1 DEF DirectoriesDone, Goto, card
<1>5. CASE ReadConfig
  <2>1. configFile \in Config /\ CertGiven(configFile) /\ conf' = FromFile(configFile)
    BY <1>5 DEF ReadConfig
  <2>2. pc' = IF conf'.usetls = 1 THEN "cert_provision" ELSE "gnss"
    BY <1>5 DEF ReadConfig, Configured, Goto
  <2>3. UNCHANGED <<led, dirs, configFile, modemCert>>
    BY <1>5 DEF ReadConfig, Configured, Goto, card
  <2> QED BY <1>5, <2>1, <2>2, <2>3, FileGivesConfig DEF ReadConfig
<1>6. CASE ReadConfigFails
  BY <1>6 DEF ReadConfigFails, Halt, card
<1>7. CASE CreateConfig
  BY <1>7, DefaultsAreConfig, NoConfigAssumption DEF CreateConfig, SeemsAbsent, Goto, Halt
<1>8. CASE WriteConfig
  <2>1. conf = Defaults /\ conf' = conf /\ pc' = "cert_provision"
        /\ UNCHANGED <<led, dirs, modemCert>>
    BY <1>8, DefaultsAreConfig DEF WriteConfig, Configured, Goto
  <2>2. \/ configFile' = DefaultsWritten
        \/ configFile' = Unreadable
        \/ configFile' = configFile /\ "write" \in Faults
    BY <1>8 DEF WriteConfig
  <2> QED BY <1>8, <2>1, <2>2, DefaultsAreConfig, NoConfigAssumption DEF WriteConfig
<1>9. CASE CertProvisioned
  BY <1>9 DEF CertProvisioned, CertMatches, Goto, card
<1>10. CASE CertDelete
  BY <1>10 DEF CertDelete, Goto, card
<1>11. CASE CertWrite
  BY <1>11 DEF CertWrite, Goto, card
<1>12. CASE CertFails
  BY <1>12 DEF CertFails, Halt, card
<1>13. CASE StartGnss
  BY <1>13 DEF StartGnss, GotoOrHalt, Goto, Halt, card
<1>14. CASE PowerOff
  BY <1>14 DEF PowerOff, card
<1>15. CASE EditConfig
  <2>1. PICK c \in CertNames, upload \in {0, 1}, pvt_low \in {0, 1}, usetls \in {0, 1} :
          configFile' \in {Unreadable} \cup
              {[upload |-> upload, agps |-> 0, pvt_low |-> pvt_low, usetls |-> usetls,
                tlscert |-> cert] : cert \in {NoCert, [name |-> c, ends |-> "$"]}}
    BY <1>15 DEF EditConfig
  <2>2. [name |-> c, ends |-> "$"] \in TlsCert
    BY DEF TlsCert, Certs
  <2>3. configFile' \in Config \cup {Unreadable}
    BY <2>1, <2>2 DEF Config
  <2> QED BY <1>15, <2>3 DEF EditConfig
<1>16. CASE UNCHANGED vars
  BY <1>16 DEF vars, card
<1> QED BY <1>1, <1>2, <1>3, <1>4, <1>5, <1>6, <1>7, <1>8, <1>9, <1>10, <1>11, <1>12,
           <1>13, <1>14, <1>15, <1>16 DEF Next, Boot

\* What MainThread adds leaves the variables of Boot alone.
LEMMA MainBoots == [MainNext]_<<vars, queueVars>> => [Next]_vars
BY DEF MainNext, Starting, Logging, Reset, Next

LEMMA Invariant == MainSpec => []IInv
<1>1. MainInit => IInv BY InitEstablishes DEF MainInit
<1>2. IInv /\ [MainNext]_<<vars, queueVars>> => IInv' BY MainBoots, StepKeeps
<1> QED BY <1>1, <1>2, PTL DEF MainSpec

-----------------------------------------------------------------------------
\* Type correctness: in particular the modem never gets a certificate that the
\* configuration does not have (config.c:167).
THEOREM TypeCorrect == MainSpec => []TypeOK
<1>1. IInv => TypeOK BY DEF IInv
<1> QED BY <1>1, Invariant, PTL

\* A board that logs has its directories, and the settings of its config.json
\* (what is uploaded and how, the receiver's power mode, TLS and its
\* certificate), after any number of resets, edits, failing looks at the file
\* and failed writes; it may have put the defaults there itself, and has them
\* without the file only if both looking and writing fail.
THEOREM LoggingIsPrepared == MainSpec => []Prepared
<1>1. IInv => Prepared
  BY DEF IInv, DirectoriesInv, SettingsInv, Prepared, AfterDirectories, AfterConfig
<1> QED BY <1>1, Invariant, PTL

\* A board that logs and uses TLS has the right certificate in its modem,
\* however earlier provisionings were cut short.
THEOREM CertificateInModem == MainSpec => []CertInModem
<1>1. IInv => CertInModem BY DEF IInv, CertInv, CertInModem
<1> QED BY <1>1, Invariant, PTL

-----------------------------------------------------------------------------
(* The blocks of the sentences.                                            *)

QueueInv == QueueTypeOK /\ OneOwner

\* Nothing is allocated before the first event.
LEMMA QueueInvInit == QueueInit => QueueInv
  <1> SUFFICES ASSUME QueueInit PROVE QueueInv
    OBVIOUS
  <1>1. <<>> \in Seq(Frames) /\ Len(<<>>) = 0
    OBVIOUS
  <1>2. Queued = {}
    BY <1>1 DEF QueueInit, Queued
  <1>3. QueueTypeOK
    <2>1. Len(nmeaQueue) <= QLEN
      BY <1>1, QlenAssumption DEF QueueInit
    <2> QED BY <1>1, <2>1 DEF QueueInit, QueueTypeOK, Pointer
  <1>4. OneOwner
    BY <1>1, <1>2 DEF QueueInit, OneOwner
  <1> QED BY <1>3, <1>4 DEF QueueInv

\* Every step of the handler and of the loop hands its block on, or frees it.
LEMMA QueueInvStep == QueueInv /\ [QueueNext]_queueVars => QueueInv'
  <1> SUFFICES ASSUME QueueInv, [QueueNext]_queueVars PROVE QueueInv'
    OBVIOUS
  <1> USE DEF QueueInv
  <1>0. QueueTypeOK /\ OneOwner /\ QLEN \in Nat
    BY QlenAssumption
  <1>1. CASE HandlerMalloc
    <2>1. PICK f \in Frames \ allocated : allocated' = allocated \cup {f} /\ handler' = {f}
      BY <1>1 DEF HandlerMalloc
    <2>2. Queued' = Queued
      BY <1>1 DEF HandlerMalloc, Queued
    <2>3. QueueTypeOK'
      BY <1>0, <1>1, <2>1 DEF HandlerMalloc, QueueTypeOK, Pointer
    <2>4. OneOwner'
      BY <1>0, <1>1, <2>1, <2>2 DEF HandlerMalloc, OneOwner
    <2> QED BY <2>3, <2>4
  <1>2. CASE HandlerRead
    BY <1>0, <1>2 DEF HandlerRead, QueueTypeOK, OneOwner, Queued
  <1>3. CASE HandlerPut
    <2>1. PICK f \in handler : nmeaQueue' = Append(nmeaQueue, f) /\ allocated' = allocated
      BY <1>3 DEF HandlerPut, OwnedByQueue
    <2>2. handler = {f} /\ f \in Frames
      BY <1>0, <2>1 DEF QueueTypeOK, Pointer
    <2>3. /\ Len(nmeaQueue') = Len(nmeaQueue) + 1 /\ Len(nmeaQueue) \in Nat
          /\ \A i \in 1..Len(nmeaQueue) : nmeaQueue'[i] = nmeaQueue[i]
          /\ nmeaQueue'[Len(nmeaQueue) + 1] = f
          /\ nmeaQueue' \in Seq(Frames)
      BY <1>0, <2>1, <2>2 DEF QueueTypeOK
    <2>4. Queued' = Queued \cup {f}
      BY <2>3 DEF Queued
    <2>5. f \notin Queued
      BY <1>0, <2>2 DEF OneOwner
    <2>6. ASSUME NEW i \in 1..Len(nmeaQueue'), NEW j \in 1..Len(nmeaQueue'),
                 nmeaQueue'[i] = nmeaQueue'[j]
          PROVE  i = j
      <3>1. CASE i = Len(nmeaQueue) + 1 \/ j = Len(nmeaQueue) + 1
        BY <2>3, <2>5, <2>6, <3>1 DEF Queued
      <3>2. CASE i \in 1..Len(nmeaQueue) /\ j \in 1..Len(nmeaQueue)
        BY <1>0, <2>3, <2>6, <3>2 DEF OneOwner
      <3> QED BY <2>3, <3>1, <3>2
    <2>7. QueueTypeOK'
      <3>1. Len(nmeaQueue') <= QLEN
        BY <1>0, <1>3, <2>3 DEF HandlerPut, Room
      <3> QED BY <1>0, <1>3, <2>1, <2>3, <3>1 DEF HandlerPut, QueueTypeOK, Pointer
    <2>8. OneOwner'
      BY <1>0, <1>3, <2>1, <2>2, <2>4, <2>5, <2>6 DEF HandlerPut, OneOwner
    <2> QED BY <2>7, <2>8
  <1>4. CASE HandlerFree
    <2>1. PICK f \in handler : allocated' = allocated \ {f}
      BY <1>4 DEF HandlerFree, Released
    <2>2. handler = {f}
      BY <1>0, <2>1 DEF QueueTypeOK, Pointer
    <2>3. Queued' = Queued
      BY <1>4 DEF HandlerFree, Queued
    <2> QED BY <1>0, <1>4, <2>1, <2>2, <2>3 DEF HandlerFree, QueueTypeOK, OneOwner, Pointer
  <1>5. CASE MainGet
    <2> DEFINE f == Head(nmeaQueue)
               n == Len(nmeaQueue)
    <2>1. n \in Nat /\ n >= 1 /\ f = nmeaQueue[1] /\ f \in Frames /\ f \in Queued
      BY <1>0, <1>5 DEF MainGet, QueueTypeOK, Queued
    <2>2. /\ Len(nmeaQueue') = n - 1
          /\ \A i \in 1..(n - 1) : nmeaQueue'[i] = nmeaQueue[i + 1]
          /\ nmeaQueue' \in Seq(Frames)
      BY <1>0, <1>5, <2>1 DEF MainGet, QueueTypeOK
    <2>3. Queued' = Queued \ {f}
      <3>1. ASSUME NEW g \in Queued' PROVE g \in Queued \ {f}
        <4>1. PICK i \in 1..(n - 1) : g = nmeaQueue[i + 1]
          BY <2>2, <3>1 DEF Queued
        <4>2. i + 1 \in 1..n /\ i + 1 # 1 /\ 1 \in 1..n
          BY <2>1
        <4> QED BY <1>0, <2>1, <4>1, <4>2 DEF Queued, OneOwner
      <3>2. ASSUME NEW g \in Queued \ {f} PROVE g \in Queued'
        <4>1. PICK i \in 1..n : g = nmeaQueue[i] /\ i # 1
          BY <2>1, <3>2 DEF Queued
        <4>2. i - 1 \in 1..(n - 1) /\ (i - 1) + 1 = i
          BY <2>1, <4>1
        <4>3. g = nmeaQueue'[i - 1]
          BY <2>2, <4>1, <4>2
        <4> QED BY <2>2, <4>2, <4>3 DEF Queued
      <3> QED BY <3>1, <3>2
    <2>4. ASSUME NEW i \in 1..(n - 1), NEW j \in 1..(n - 1), nmeaQueue'[i] = nmeaQueue'[j]
          PROVE  i = j
      <3>1. i + 1 \in 1..n /\ j + 1 \in 1..n /\ nmeaQueue[i + 1] = nmeaQueue[j + 1]
        BY <2>1, <2>2, <2>4
      <3>2. i + 1 = j + 1
        BY <1>0, <3>1 DEF OneOwner
      <3> QED BY <3>2
    <2>5. QueueTypeOK'
      BY <1>0, <1>5, <2>1, <2>2 DEF MainGet, QueueTypeOK, Pointer
    <2>6. OneOwner'
      BY <1>0, <1>5, <2>1, <2>2, <2>3, <2>4 DEF MainGet, OneOwner
    <2> QED BY <2>5, <2>6
  <1>6. CASE MainFree
    <2>1. PICK f \in held : allocated' = allocated \ {f}
      BY <1>6 DEF MainFree, Released
    <2>2. held = {f}
      BY <1>0, <2>1 DEF QueueTypeOK, Pointer
    <2>3. Queued' = Queued
      BY <1>6 DEF MainFree, Queued
    <2> QED BY <1>0, <1>6, <2>1, <2>2, <2>3 DEF MainFree, QueueTypeOK, OneOwner, Pointer
  <1>7. CASE UNCHANGED queueVars
    BY <1>0, <1>7 DEF queueVars, QueueTypeOK, OneOwner, Queued
  <1> QED BY <1>1, <1>2, <1>3, <1>4, <1>5, <1>6, <1>7 DEF QueueNext

LEMMA QueueInvariant == MainSpec => []QueueInv
<1>1. MainInit => QueueInv BY QueueInvInit DEF MainInit
<1>2. QueueInv /\ [MainNext]_<<vars, queueVars>> => QueueInv'
  <2> SUFFICES ASSUME QueueInv, [MainNext]_<<vars, queueVars>> PROVE QueueInv'
    OBVIOUS
  <2>1. CASE [QueueNext]_queueVars BY <2>1, QueueInvStep
  <2>2. CASE Reset
    <3>1. /\ allocated' = {} /\ nmeaQueue' = <<>> /\ handler' = {}
          /\ nmeaRead' = FALSE /\ held' = {}
      BY <2>2 DEF Reset
    <3>2. Queued' = {} BY <3>1 DEF Queued
    <3>3. nmeaQueue' \in Seq(Frames) /\ Len(nmeaQueue') <= QLEN
      BY <3>1, QlenAssumption
    <3>4. QueueTypeOK' BY <3>1, <3>3 DEF QueueTypeOK, Pointer
    <3>5. Len(nmeaQueue') = 0 BY <3>1
    <3>6. OneOwner' BY <3>1, <3>2, <3>5 DEF OneOwner
    <3> QED BY <3>4, <3>6 DEF QueueInv
  <2> QED BY <2>1, <2>2 DEF MainNext, Starting, Logging
<1> QED BY <1>1, <1>2, PTL DEF MainSpec

\* No interleaving of the event handler and the main thread leaks a block,
\* frees one twice or frees one in use, whatever the length of the queue.
THEOREM FramesHaveOneOwner == MainSpec => []OneOwner
  <1>1. QueueInv => OneOwner
    BY DEF QueueInv
  <1> QED BY <1>1, QueueInvariant, PTL

-----------------------------------------------------------------------------

\* The queue holds no more blocks than it has places.
LEMMA QueuedBounded ==
    ASSUME QueueTypeOK
    PROVE  IsFiniteSet(Queued) /\ Cardinality(Queued) \in Nat /\ Cardinality(Queued) <= QLEN
  <1> DEFINE n == Len(nmeaQueue)
             f == [i \in 1..n |-> nmeaQueue[i]]
  <1>1. n \in Nat /\ n <= QLEN /\ QLEN \in Nat
    BY QlenAssumption DEF QueueTypeOK
  <1>2. IsFiniteSet(1..n) /\ Cardinality(1..n) = n
    <2> HIDE DEF n
    <2>1. 1 \in Int /\ n \in Int
      BY <1>1
    <2>2. IsFiniteSet(1..n) /\ Cardinality(1..n) = IF 1 > n THEN 0 ELSE n - 1 + 1
      BY <2>1, FS_Interval
    <2> QED BY <1>1, <2>2
  <1>3. f \in Surjection(1..n, Queued)
    BY DEF Surjection, Queued
  <1>4. IsFiniteSet(Queued) /\ Cardinality(Queued) <= Cardinality(1..n)
    BY <1>2, <1>3, FS_Surjection
  <1>5. Cardinality(Queued) \in Nat
    BY <1>4, FS_CardinalityType
  <1> QED BY <1>1, <1>2, <1>4, <1>5

\* A pointer is to one block or to none.
LEMMA PointerBounded ==
    ASSUME NEW p \in Pointer
    PROVE  IsFiniteSet(p) /\ Cardinality(p) \in {0, 1}
  <1> QED BY FS_EmptySet, FS_Singleton DEF Pointer

\* The heap never has to hold more than QLEN + 2 sentences.
THEOREM HeapDemandBounded == MainSpec => []HeapDemand
  <1>1. QueueInv => HeapDemand
    <2> SUFFICES ASSUME QueueInv PROVE HeapDemand
      OBVIOUS
    <2>1. /\ IsFiniteSet(Queued) /\ Cardinality(Queued) \in Nat /\ Cardinality(Queued) <= QLEN
          /\ IsFiniteSet(handler) /\ Cardinality(handler) \in {0, 1}
          /\ IsFiniteSet(held) /\ Cardinality(held) \in {0, 1}
      BY QueuedBounded, PointerBounded DEF QueueInv, QueueTypeOK
    <2>2. /\ Queued \cap handler = {} /\ (Queued \cup handler) \cap held = {}
          /\ allocated = (Queued \cup handler) \cup held
      BY DEF QueueInv, OneOwner
    <2>3. /\ IsFiniteSet(Queued \cup handler)
          /\ Cardinality(Queued \cup handler) = Cardinality(Queued) + Cardinality(handler) - 0
      BY <2>1, <2>2, FS_Union, FS_EmptySet
    <2>4. Cardinality(allocated) =
            Cardinality(Queued \cup handler) + Cardinality(held) - 0
      BY <2>1, <2>2, <2>3, FS_Union, FS_EmptySet
    <2> QED BY <2>1, <2>3, <2>4, QlenAssumption DEF HeapDemand
  <1> QED BY <1>1, QueueInvariant, PTL
=============================================================================
