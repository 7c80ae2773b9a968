\* Everything may fail, power is lost anywhere, the user edits config.json; a
\* queue of three, six blocks: one more than the sentences should need.
CONSTANTS
    own = own
    other = other
    NoFile = NoFile
    Unreadable = Unreadable
    Unset = Unset
    SOCKOPT_TLS = TRUE
    CertNames <- TwoCerts
    DefaultCert = DefaultCert
    Faults = {"modem", "card", "write", "delete", "gnss"}
    f1 = f1
    f2 = f2
    f3 = f3
    f4 = f4
    f5 = f5
    f6 = f6
    Frames <- SixFrames
    QLEN = 3
SPECIFICATION FairMainSpec
INVARIANT Prepared
INVARIANT CertInModem
INVARIANT OneOwner
INVARIANT HeapDemand
PROPERTY BootEnds
