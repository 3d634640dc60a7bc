SPECIFICATION Spec
CONSTANTS
    r1 = r1
    r2 = r2
    r3 = r3
    c1 = c1
    c2 = c2
    None = None
    Controllers = {c1, c2}
    Handlers = {r1, r2, r3}
    Host <- Deployed
    First = c1
    Nodes = {n1, n2}
    Environments = {{"fail", "crash"}, {"fail", "crash", "hidden"}, {"hidden", "slowDetach"},
                    {"replicas", "fail", "crash", "hidden", "slowDetach", "late"}}
INVARIANTS TypeOK LockHeld PublishedIsAttached ReleasedIsDetached DeletedIsGone
PROPERTIES UnpublishCompletes PublishCompletes
