SPECIFICATION Spec
CONSTANTS
    None = None
    Automatic = {condor}
    Wheel = {}
    Manual = {}
    Price = {p1}
INVARIANT NeverRingsTwice
