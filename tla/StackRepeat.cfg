SPECIFICATION Spec
CONSTANTS
    v1 = v1
    v2 = v2
    s1 = s1
    o1 = o1
    o2 = o2
    o3 = o3
    None = None
    Blank = Blank
    Names = {v1, v2, s1}
    BareOf <- BareOfNames
    Position <- Positions
    DefaultValue = v1
    DefaultZone <- First
    DefaultProject <- First
    FirstName = v1
    FirstId = s1
    Kinds <- AllKinds
    Objects = {o1, o2, o3}
    Environments <- Repeated
    MaxAttempts = 2
    MaxTurns = 2
    MaxTrouble = 2
PROPERTY Converges
