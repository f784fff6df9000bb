SPECIFICATION FairSpec
CONSTANTS
    Objects <- SuiteObjects
    Scripts <- ScriptNames
    Body <- SuiteBody
    Passive <- AtOnce
    None = "none"
    Maker <- Makers
    Owner <- Owners
    Home <- Homes
    Needs <- Dependencies
    Registries <- RegistryCRs
    Unawaited <- NotAwaited
    Rewritten <- RewrittenFiles
    Specs = {"scram", "tls", "kafkasqlSharedkafka", "clusteredSharedkafka"}
    Suites = {{"scram", "tls"}, {"kafkasqlSharedkafka", "clusteredSharedkafka"}}
    Flaky = {"create", "apply", "attempt", "await", "delete", "deleteQuietly", "deleteIfFound",
             "deleteRegistry", "awaitGone", "finalize", "check", "saveLogs",
             "test"}
INVARIANT NothingInTheWay
INVARIANT DependentsGoFirst
INVARIANT GreenSuiteIsClean
PROPERTY EverySpecEnds
