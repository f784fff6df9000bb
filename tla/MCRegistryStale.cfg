SPECIFICATION Spec
CONSTANT Uses = 2
INVARIANT UpMeansOwnDeployment
