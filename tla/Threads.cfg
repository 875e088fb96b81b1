SPECIFICATION FairSpec
CONSTANTS
    Owners = {"car", "controller"}
    MaxResumes = 2
CHECK_DEADLOCK FALSE
INVARIANTS
    TypeOK
    NoNullSocketInForeground
PROPERTIES
    ReceiversEnd
    KeepsSending
    ListensUnlessStopped
