\* One suite on an empty cluster, in which no call fails of itself.
SPECIFICATION Spec
CONSTANTS
    Runs = 1
    Kinds = {"single"}
    Configs <- Environments
INVARIANT EveryRunCleansUp
