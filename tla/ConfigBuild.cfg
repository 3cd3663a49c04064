SPECIFICATION ConfigSpec
CONSTANTS
    Names <- MCNames
    StoreNames <- MCStoreNames
    Inherited = {"toString"}
    Blank = {" "}
    Swept <- MCSwept
    Configs <- MCConfigs
    MaxLoads = 1
INVARIANTS
    WorkersWaitForEveryQueue
    AcceptedConfigsBuild
    RowsNotShared
