\* The four rows of converters.go:137; two records are expected, so that a poll may
\* end with too few.
SPECIFICATION FairSpec
CONSTANTS
    Others = {"dockercfg", "builder"}
    Own = "pullSecret"
    Changes = 2
    Produced = 4
    Minimum = 2
INVARIANT TypeOK
INVARIANT StartFailureIsReported
INVARIANT NoSecretLost
INVARIANT RecordsAreThere
PROPERTY ProcessEnds
