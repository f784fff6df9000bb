SPECIFICATION Spec
CONSTANTS
    Objects <- MultinamespaceObjects
    Scripts <- Used
    Body <- Multinamespace
    Passive <- AtOnce
    None = "none"
    Maker <- Makers
    Owner <- Owners
    Home <- Homes
    Needs <- Dependencies
    Registries <- RegistryCRs
    Unawaited = {}
    Rewritten = {}
    Specs = {"multinamespace"}
    Suites = {{"multinamespace"}}
    Flaky = {"create", "await", "deleteIfFound", "deleteRegistry",
             "awaitGone", "check", "saveLogs", "test"}
INVARIANT CleanSlate
INVARIANT DependentsGoFirst
INVARIANT StorageOutlivesRegistry
INVARIANT GreenSuiteIsClean
