CONSTANTS
    Versions = {1, 2, 3}
    Abis = {1, 2}
    Target = "native"
    Mode = "next"
    RemoveMayFail = FALSE
    MaxBoots = 4
    MaxRestarts = 2
SPECIFICATION Spec
INVARIANT DroppedForCause
PROPERTIES FloorNeverFalls TriedOnce CommittedAfterServing
