SPECIFICATION Spec
CONSTANTS
    c1 = c1
    c2 = c2
    Controllers = {c1, c2}
    Handlers = {r1, r2}
    Host <- HostShared
    Ids = {1, 2, 3}
    Zones = {"", "az-1", "az-2"}
    Types = {"", "__DEFAULT__", "Encrypted-v1", "ssd"}
    Requests <- TwoZones
    ConfigZone = "az-1"
    Attempts = 2
    StableSamples = 2
    Environments = {{"unordered", "lag", "late", "crash"}}
INVARIANTS LockHeld NameNeverLost
PROPERTIES CallsEnd
