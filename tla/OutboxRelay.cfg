SPECIFICATION StorageSpec
CONSTANTS
    Parts = {"relay", "subscriptions", "invoices", "family_groups", "plans",
        "payment_records", "remnawave_bindings", "commissions", "platform_users", "gateway"}
    Events = {1, 2}
    EntityOf <- MCEntityOf
    HashText <- MCHashText
    Pods = {p1, p2}
    WorkerCount = 2
    BaseBatch = 1
    MaxBatch = 2
    MaxRelayAttempts = 2
    MaxFailures = 2
    MaxRequests = 1
    Retention = 0
    MaxQuarter = 0
    MaxFaults = 1
    StoreRequests = {p1, p2}
    StoreConns = {"c1", "c2"}
    StoreShops = {"shop1", "shop2"}
    StoreIds = {"row"}
    StoreItems = {"i1", "i2"}
    MaxStoreValue = 1
    MaxStoreCalls = 2
    MaxStoreFaults = 1
    GateShops = {"shop1", "shop2"}
    GateUsers = {"ann"}
    Nobody = "nobody"
    GateWorkers = {"worker"}
    CustomPerms = {"users.read", "shops.read"}
    MaxGateCalls = 1
    MaxBindingChanges = 1
SYMMETRY PodSymmetry
INVARIANTS SettledWasDelivered BatchIsCurrent OneWorkerPerEntity StoreSafe RequestsInBounds
PROPERTIES ImplementsDelivery
CHECK_DEADLOCK FALSE
