SPECIFICATION DrivesSpec
CONSTANTS
    SdObjects = {"SD", "SD2"}
    MmcObjects = {"SDMMC"}
    Files = {"f"}
    VOLUMES = 2
    Cards = {"A", "B"}
    MaxMounts = 2
    Retries = FALSE
INVARIANTS TablesAgree FilesReachTheirCard NewSdCardAllowed
