\* All three suites, two of them in any order; every call may fail at any point.
SPECIFICATION FairSpec
CONSTANTS
    Runs = 2
    Kinds = {"bundle", "single", "clusterwide"}
    Configs <- Environments
INVARIANT TypeOK
INVARIANT GreenRunIsClean
INVARIANT SpecsMeetOwnOperator
INVARIANT NamespaceIsFreed
PROPERTY ImplementsProcedure
PROPERTY EverySuiteEnds
