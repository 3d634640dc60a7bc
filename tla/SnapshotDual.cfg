SPECIFICATION Spec
CONSTANTS
    v1 = v1
    v2 = v2
    v3 = v3
    Controllers = {c1, c2, c3}
    Handlers = {c1, c2}
    Host <- HostEach
    ConfigZone <- Zoned
    Ids = {1, 2, 3}
    Registered = {1}
    Volumes = {v1, v2, v3}
    VolumeZone <- VolumesZoned
    Attempts = 2
    StableSamples = 2
    Environments = {{"late", "crash"}, {"unordered", "lag"}}
SYMMETRY Alike
INVARIANTS TypeOK NameNeverLost ReturnedNotReaped ReturnedOfSource DeletedIsDeleted
