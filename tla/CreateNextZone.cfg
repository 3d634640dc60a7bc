SPECIFICATION Spec
CONSTANTS
    c1 = c1
    c2 = c2
    Controllers = {c1, c2}
    Handlers = {c1, c2}
    Host <- HostEach
    Ids = {1, 2, 3}
    Zones = {"", "az-1", "az-2"}
    Types = {"", "__DEFAULT__", "Encrypted-v1", "ssd"}
    Requests <- TwoZones
    ConfigZone = "az-1"
    Attempts = 7
    StableSamples = 3
    Environments = {{}}
PROPERTY FoundInItsZone
