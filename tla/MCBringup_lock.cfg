SPECIFICATION Spec
CONSTANTS
    Senders <- MCSenders
    main = "main"
    user = "user"
    ic = "ic"
    tq = "tq"
    NumBoxes = 2
    MaxPolls = 2
    Channels = {1, 36}
    Widths = {"20", "40"}
    ChipChannels = {1}
    ChipWidths = {"20", "40"}
    MaxIqkPolls = 2
    Layout <- MCLayout
    MaxLives = 1
    DeviceRfe = 2
    LinkupSkip = {"MEDIA_STATUS", "RSVD_PAGE", "DEFAULT_PORT", "PWR_ACTIVE"}
    Budgets <- OneAttach
    MaxFrames = 1
    DESC = 3
    ALIGN = 2
    FCS = 1
    MCLBYTES = 3
    RxDescs <- MCRxDescs
    MaxActlen = 6
    EfuseDim <- MCEfuseDim
    EfuseBytes = {255}
    EfuseRecords <- MCEfuseRecords
    Device <- MCDevice
    TableConds <- MCConds
    TableBodies <- MCBodies
INVARIANT LockNotRecursed
CHECK_DEADLOCK FALSE
