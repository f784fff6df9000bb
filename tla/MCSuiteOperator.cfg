SPECIFICATION Spec
CONSTANTS
    Objects <- SuiteObjects
    Scripts <- ScriptNames
    Body <- SuiteBody
    Passive <- AtOnce
    None = "none"
    Maker <- Makers
    Owner <- Owners
    Home <- Homes
    Needs <- Dependencies
    Registries <- RegistryCRs
    Unawaited <- NotAwaited
    Rewritten <- RewrittenFiles
    Specs = {"keycloak"}
    Suites = {{"keycloak"}}
    Flaky = {"create", "apply", "attempt", "await", "delete", "deleteQuietly", "deleteIfFound",
             "deleteRegistry", "awaitGone", "finalize", "check", "saveLogs",
             "test"}
INVARIANT CleanSlate
INVARIANT NothingInTheWay
INVARIANT DependentsGoFirst
INVARIANT StorageOutlivesRegistry
INVARIANT GreenSuiteIsClean
