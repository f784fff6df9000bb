SPECIFICATION Spec
CONSTANTS
    Objects <- SuiteObjects
    Scripts <- ScriptNames
    Body <- SuiteBody
    Passive <- AtOnce
    None = "none"
    Maker <- Makers
    Owner <- Owners
    Home <- Homes
    Needs <- Dependencies
    Registries <- RegistryCRs
    Unawaited <- NotAwaited
    Rewritten <- RewrittenFiles
    Specs = {"storageKafkasql", "convertersSql"}
    Suites = {{"storageKafkasql", "convertersSql"}}
    Flaky = {"create", "apply", "attempt", "await", "delete", "deleteQuietly", "deleteIfFound",
             "deleteRegistry", "awaitGone", "finalize", "check", "saveLogs",
             "test"}
INVARIANT TypeOK
INVARIANT CleanSlate
INVARIANT NothingInTheWay
INVARIANT DependentsGoFirst
INVARIANT StorageOutlivesRegistry
INVARIANT GreenSuiteIsClean
PROPERTY ImplementsContract
