SPECIFICATION Spec
CONSTANTS
    c1 = c1
    c2 = c2
    h1 = h1
    h2 = h2
    MaxInt64 = 7
    bytesPerGiB = 2
    MinimumVolumeBytes = 2
    VolumeGranularityBytes = 2
    Ids = {1, 2, 3}
    Controllers = {c1, c2}
    Handlers = {h1, h2}
    Hosts <- Deployed
    Zones = {"z1", "z2"}
    ConfigZone = "z1"
    Ranges <- SomeRanges
    Topologies <- SomeTopologies
    Parameters = {"", "z2"}
    PageSizes = {0, 1, 2}
    Targets = {1}
    Loads <- SomeLoads
INVARIANTS TypeOK AnsweredIsEnough NodeGrown NoneSkipped NoneTwice
PROPERTIES PlacedAsAsked GrownWithinLimit
