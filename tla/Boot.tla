--------------------------------- MODULE Boot ---------------------------------
(***************************************************************************)
(* From power-up to logging: main up to its poll loop (main.c:149-224),    *)
(* with the directories of the card (featherw_datalogger.c), read_config   *)
(* (config.c), cert_provision (uploadclient.c) and init_gnss (gnss.c).     *)
(*                                                                         *)
(* The card and the certificate store of the modem survive a reset, which  *)
(* may come between any two steps; the user may edit config.json while the *)
(* board is off. Settings that are copied both ways unchanged (filebase,   *)
(* host, url, psm_mode) stand behind pvt_low; auth is left out.            *)
(***************************************************************************)
EXTENDS Naturals, FiniteSets

CONSTANTS
    SOCKOPT_TLS,    \* IS_ENABLED(CONFIG_NET_SOCKETS_SOCKOPT_TLS)
    CertNames,      \* certificates a user may put into config.json
    DefaultCert,    \* the certificate of set_defaults
    Faults,         \* subset of Troubles
    NoFile,         \* there is no config.json
    Unreadable,     \* config.json is empty, cut short or longer than jsonbuf
    Unset           \* confdata is all zero

Troubles == {"modem", "card", "write", "delete", "gnss"}

ASSUME ConstantsAssumption ==
    /\ SOCKOPT_TLS \in BOOLEAN
    /\ IsFiniteSet(CertNames) /\ DefaultCert \notin CertNames
    /\ Faults \subseteq Troubles

Directories == {"data", "archive", "config"}

(* A certificate, with "$" or with line ends between its lines.            *)
Certs   == {DefaultCert} \cup CertNames
TlsCert == [name : Certs, ends : {"$", "newline"}]
NoCert  == [name |-> "", ends |-> ""]

Config == [upload : {0, 1}, agps : {0, 1}, pvt_low : {0, 1}, usetls : {0, 1},
           tlscert : TlsCert \cup {NoCert}]

ASSUME NoConfigAssumption ==
    NoFile \notin Config /\ Unreadable \notin Config /\ Unset \notin Config

VARIABLES
    pc,         \* what main does next; "off", "halted" after an error, "logging"
    led,        \* led_status
    dirs,       \* directories on the card
    configFile, \* config_<version>.json
    conf,       \* confdata
    modemCert   \* the certificate under TLS_SEC_TAG: {} or {c}

card == <<dirs, configFile>>
vars == <<pc, led, card, conf, modemCert>>

Stages == {"off", "setup_modem", "mount", "directories", "read_config", "write_defaults",
           "cert_provision", "cert_write", "gnss", "logging", "halted"}

TypeOK ==
    /\ pc \in Stages
    /\ led \in {"booting", "searching", "error"}
    /\ dirs \subseteq Directories
    /\ configFile \in Config \cup {NoFile, Unreadable}
    /\ conf \in Config \cup {Unset}
    /\ modemCert \in {{}} \cup {{c} : c \in TlsCert}

(* A fresh card in a board that is off.                                    *)
Init ==
    /\ pc = "off" /\ led = "booting"
    /\ dirs = {} /\ configFile = NoFile
    /\ conf = Unset /\ modemCert = {}

-----------------------------------------------------------------------------
Goto(stage) == pc' = stage /\ UNCHANGED led

(* set_led_status(LED_ERROR) and return -1: main has ended, until a reset. *)
HaltUnseen == pc' = "halted" /\ UNCHANGED led       \* mutant
Halt       == pc' = "halted" /\ led' = "error"

GotoOrHalt(stage, what) ==
    \/ Goto(stage)
    \/ what \in Faults /\ Halt

PowerOn ==
    /\ pc = "off"
    /\ pc' = "setup_modem" /\ led' = "searching"
    /\ conf' = Unset
    /\ UNCHANGED <<card, modemCert>>

SetupModem ==
    /\ pc = "setup_modem"
    /\ GotoOrHalt("mount", "modem")
    /\ UNCHANGED <<card, conf, modemCert>>

MountSdcard ==
    /\ pc = "mount"
    /\ GotoOrHalt("directories", "card")
    /\ UNCHANGED <<card, conf, modemCert>>

(* initialize_sdcard_files: make those of the directories that do not      *)
(* exist, in this order.                                                   *)
Missing ==
    CASE "data"    \notin dirs -> {"data"}
      [] "archive" \notin dirs -> {"archive"}
      [] "config"  \notin dirs -> {"config"}
      [] OTHER -> {}

NothingIsMissing == Missing = {}

MakeDirectory ==
    /\ pc = "directories" /\ ~NothingIsMissing
    /\ \/ dirs' = dirs \cup Missing /\ UNCHANGED <<pc, led>>
       \/ "card" \in Faults /\ Halt /\ UNCHANGED dirs
    /\ UNCHANGED <<configFile, conf, modemCert>>

DirectoriesDone ==
    /\ pc = "directories" /\ NothingIsMissing
    /\ Goto("read_config")
    /\ UNCHANGED <<card, conf, modemCert>>

-----------------------------------------------------------------------------
(* read_config                                                             *)

Configured(c) == IF c.usetls = 1 THEN Goto("cert_provision") ELSE Goto("gnss")

(* replace_lineend                                                         *)
ReplaceLineend(cert) == [cert EXCEPT !.ends = "newline"]

(* The struct that is filled from the file: without TLS in the firmware    *)
(* usetls is forced to 0, and without TLS no certificate is read.          *)
UsetlsOf(file) == IF SOCKOPT_TLS THEN file.usetls ELSE 0
PvtLowAsUpload(file) == [file EXCEPT !.pvt_low = file.upload]   \* mutant
Parsed(file) == file

FromFile(file) ==
    [Parsed(file) EXCEPT
        !.usetls  = UsetlsOf(file),
        !.tlscert = IF UsetlsOf(file) = 1 THEN ReplaceLineend(@) ELSE NoCert]

CertGiven(file)  == UsetlsOf(file) = 1 => file.tlscert # NoCert

ReadConfig ==
    /\ pc = "read_config" /\ configFile \in Config /\ CertGiven(configFile)
    /\ conf' = FromFile(configFile)
    /\ Configured(conf')
    /\ UNCHANGED <<card, modemCert>>

(* The file cannot be opened or parsed, or TLS is asked for without a      *)
(* certificate.                                                            *)
ReadConfigFails ==
    /\ pc = "read_config" /\ configFile # NoFile
    /\ \/ "card" \in Faults
       \/ configFile = Unreadable
       \/ configFile \in Config /\ ~CertGiven(configFile)
    /\ Halt
    /\ UNCHANGED <<card, conf, modemCert>>

(* set_defaults, with CONFIG_UPLOAD_CLIENT and without CONFIG_SUPL_CLIENT_LIB *)
Defaults ==
    [upload |-> 1, agps |-> 0, pvt_low |-> 1, usetls |-> 1,
     tlscert |-> [name |-> DefaultCert, ends |-> "$"]]

(* What the JSON says of them: agps is written from upload.                *)
DefaultsWritten == [Defaults EXCEPT !.agps = Defaults.upload]

(* file_exists says so, too, when fs_stat fails for another reason.        *)
SeemsAbsent == configFile = NoFile \/ "card" \in Faults

(* There seems to be no file yet: fs_open creates it, or opens the one that*)
(* is there as it is,                                                      *)
CreateConfig ==
    /\ pc = "read_config" /\ SeemsAbsent
    /\ conf' = Defaults
    /\ \/ /\ Goto("write_defaults")
          /\ configFile' = IF configFile = NoFile THEN Unreadable ELSE configFile
       \/ "card" \in Faults /\ Halt /\ UNCHANGED configFile
    /\ UNCHANGED <<dirs, modemCert>>

(* and fs_write writes it from its start, or part of it, or nothing: the   *)
(* results of fs_write and fs_close are not looked at. What is left of an  *)
(* older file after the new text is not parsed, but may be too long still. *)
WriteConfig ==
    /\ pc = "write_defaults"
    /\ \/ configFile' = DefaultsWritten
       \/ configFile = Unreadable /\ "card" \in Faults /\ UNCHANGED configFile
       \/ "write" \in Faults /\ configFile' \in {configFile, Unreadable}
    /\ Configured(conf)
    /\ UNCHANGED <<dirs, conf, modemCert>>

-----------------------------------------------------------------------------
(* cert_provision                                                          *)

AnyCertificate == modemCert # {}                    \* mutant: not compared
CertMatches    == modemCert = {conf.tlscert}

CertProvisioned ==
    /\ pc = "cert_provision" /\ CertMatches
    /\ Goto("gnss")
    /\ UNCHANGED <<card, conf, modemCert>>

(* Another one, or one that could not be compared, is deleted before the   *)
(* new one is written; deleting may fail.                                  *)
CertDelete ==
    /\ pc = "cert_provision" /\ (~CertMatches \/ "modem" \in Faults)
    /\ Goto("cert_write")
    /\ \/ modemCert' = {}
       \/ "delete" \in Faults /\ UNCHANGED modemCert
    /\ UNCHANGED <<card, conf>>

CertWrite ==
    /\ pc = "cert_write"
    /\ Goto("gnss")
    /\ modemCert' = {conf.tlscert}
    /\ UNCHANGED <<card, conf>>

(* modem_key_mgmt_exists or modem_key_mgmt_write fails.                    *)
CertFails ==
    /\ pc \in {"cert_provision", "cert_write"} /\ "modem" \in Faults
    /\ Halt
    /\ UNCHANGED <<card, conf, modemCert>>

-----------------------------------------------------------------------------
(* init_gnss and start_gnss                                                *)
StartGnss ==
    /\ pc = "gnss"
    /\ GotoOrHalt("logging", "gnss")
    /\ UNCHANGED <<card, conf, modemCert>>

(* Power is switched off, lost, or cut by a reset.                         *)
PowerOff ==
    /\ pc # "off"
    /\ pc' = "off" /\ led' = "booting" /\ conf' = Unset
    /\ UNCHANGED <<card, modemCert>>

(* The user edits the file (every key stays, read_config does not look for *)
(* missing ones), or makes it longer than jsonbuf, of which fs_gets then   *)
(* returns the first line only.                                            *)
EditConfig ==
    /\ pc = "off" /\ configFile # NoFile
    /\ \E c \in CertNames, upload, pvt_low, usetls \in {0, 1} :
          configFile' \in {Unreadable} \cup
              {[upload |-> upload, agps |-> 0, pvt_low |-> pvt_low, usetls |-> usetls,
                tlscert |-> cert] : cert \in {NoCert, [name |-> c, ends |-> "$"]}}
    /\ UNCHANGED <<pc, led, dirs, conf, modemCert>>

Boot ==
    \/ SetupModem \/ MountSdcard \/ MakeDirectory \/ DirectoriesDone
    \/ ReadConfig \/ ReadConfigFails \/ CreateConfig \/ WriteConfig
    \/ CertProvisioned \/ CertDelete \/ CertWrite \/ CertFails
    \/ StartGnss

Next == PowerOn \/ Boot \/ PowerOff \/ EditConfig

Spec == Init /\ [][Next]_vars

(* The main thread runs as long as the board does.                         *)
FairSpec == Spec /\ WF_vars(Boot)

-----------------------------------------------------------------------------
(* Properties                                                              *)

\* Settings are those of a file; agps does not count, and without TLS in the
\* firmware neither does usetls.
Agrees(c, file) ==
    /\ c.upload = file.upload /\ c.pvt_low = file.pvt_low
    /\ SOCKOPT_TLS => c.usetls = file.usetls
    /\ c.usetls = 1 => c.tlscert.name = file.tlscert.name

\* A board that logs has its three directories and the settings that the
\* config.json on its card has now, also when it wrote that file itself, over
\* another one perhaps because fs_stat failed, and whatever resets and edits
\* came before. Only a board that could not look at the file, and could not
\* overwrite it either, goes its own way, with the defaults (config.c:79-212).
Prepared ==
    pc = "logging" =>
        /\ dirs = Directories
        /\ configFile \in Config =>
              Agrees(conf, configFile) \/ ({"card", "write"} \subseteq Faults /\ conf = Defaults)

\* A board that logs and uses TLS has the certificate of its configuration in
\* the modem, however often resets, failing deletions and edits of config.json
\* cut earlier boots short (cert_provision deletes before it writes).
CertInModem ==
    pc = "logging" /\ conf.usetls = 1 => modemCert = {conf.tlscert}

\* Every boot comes to an end: the board logs, or shows "blinking red: an
\* error occurred" (README.md:62) and nothing else does.
BootEnds ==
    /\ [](pc = "halted" <=> led = "error")
    /\ (pc = "setup_modem") ~> (pc \in {"logging", "halted", "off"})

==============================================================================
