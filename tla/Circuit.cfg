CONSTANTS
    Calls = {c1, c2, c3, c4}
    Threshold = 3
    Cooldown = 3
SPECIFICATION Spec
INVARIANTS
    TypeOK
    OpenIffThreshold
    OvershootBounded
PROPERTY EventuallyProbes
