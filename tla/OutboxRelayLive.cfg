SPECIFICATION FairStorageSpec
CONSTANTS
    Parts = {"relay"}
    Events = {1, 2}
    EntityOf <- MCEntityOf
    HashText <- MCHashText
    Pods = {p1}
    WorkerCount = 1
    BaseBatch = 1
    MaxBatch = 2
    MaxRelayAttempts = 2
    MaxFailures = 1
    MaxRequests = 1
    Retention = 1
    MaxQuarter = 2
    MaxFaults = 1
    StoreRequests = {p1}
    StoreConns = {"c1", "c2"}
    StoreShops = {"shop1", "shop2"}
    StoreIds = {"row"}
    StoreItems = {"i1"}
    MaxStoreValue = 1
    MaxStoreCalls = 2
    MaxStoreFaults = 1
    GateShops = {"shop1", "shop2"}
    GateUsers = {"ann"}
    Nobody = "nobody"
    GateWorkers = {"worker"}
    CustomPerms = {"users.read", "shops.read"}
    MaxGateCalls = 1
    MaxBindingChanges = 1
PROPERTIES DeadRowsKept EverySettled
CHECK_DEADLOCK FALSE
