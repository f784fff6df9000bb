SPECIFICATION Spec
CONSTANTS
    Objects <- SuiteObjects
    Scripts <- ScriptNames
    Body <- SuiteBody
    Passive <- AtOnce
    None = "none"
    Maker <- Makers
    Owner <- Owners
    Home <- Homes
    Needs <- Dependencies
    Registries <- RegistryCRs
    Unawaited <- NotAwaited
    Rewritten <- RewrittenFiles
    Specs = {"sqlSharedkafka"}
    Suites = {{"sqlSharedkafka"}}
    Flaky = {}
INVARIANT EverySpecDeprovisions
