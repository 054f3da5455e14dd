SPECIFICATION Spec
CONSTANTS
    Senders <- MCSenders
    main = "main"
    user = "user"
    ic = "ic"
    tq = "tq"
    NumBoxes = 2
    MaxPolls = 2
    Channels = {1, 36}
    Widths = {"20", "40"}
    ChipChannels = {1}
    ChipWidths = {"20", "40"}
    MaxIqkPolls = 2
    Layout <- MCLayout
    MaxLives = 2
    DeviceRfe = 2
    LinkupSkip = {"MEDIA_STATUS", "RSVD_PAGE", "DEFAULT_PORT", "PWR_ACTIVE"}
    Budgets <- MCBudgets
    MaxFrames = 1
    DESC = 3
    ALIGN = 2
    FCS = 1
    MCLBYTES = 3
    RxDescs <- MCRxDescs
    MaxActlen = 14
    EfuseDim <- MCEfuseDim
    EfuseBytes = {255, 15, 14, 30}
    EfuseRecords <- MCEfuseRecords
    Device <- MCDevice
    TableConds <- MCConds
    TableBodies <- MCBodies
INVARIANTS
    TypeOK
    ReadyMeansImage
    CommandsWhole
    TunedAsAsked
    CalibrationIsFresh
    LackOnlyUnguarded
    NothingLeft
    EfuseRight
    TablesRight
    AggregatesRight
PROPERTIES
    WrittenInReset
    CallsReturn
CHECK_DEADLOCK FALSE
