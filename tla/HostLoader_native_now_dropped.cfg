CONSTANTS
    Versions = {1, 2, 3}
    Abis = {1}
    Target = "native"
    Mode = "now"
    RemoveMayFail = FALSE
    MaxBoots = 4
    MaxRestarts = 2
SPECIFICATION Spec
INVARIANT DroppedForCause
