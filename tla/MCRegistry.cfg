SPECIFICATION FairSpec
CONSTANT Uses = 2
INVARIANT TypeOK
INVARIANT DeletedMeansGone
INVARIANT FreshRegistryIsServed
PROPERTY EverySpecEnds
