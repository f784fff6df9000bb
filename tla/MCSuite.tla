------------------------------ MODULE MCSuite ------------------------------
(***************************************************************************)
(* The constants of TestSuite for TLC: the scripts and the objects of      *)
(* SuiteScripts.  Each .cfg chooses the specs of the run and the           *)
(* operations that may fail in it.                                         *)
(***************************************************************************)
EXTENDS TestSuite, SuiteScripts

ScriptNames == DOMAIN SuiteBody
AtOnce == SuiteObjects \ Awaited
Makers == Total(MadeFor, SuiteObjects, "none")
Owners == Total(GoesWith, SuiteObjects, "none")
Homes == Total(LivesIn, SuiteObjects, "none")
Dependencies == Total(WorksWith, SuiteObjects, {})
RegistryCRs == {SqlRegistry.cr, KafkaRegistry.cr}

\* DeleteRegistryAndWait gives up on the Deployment; the bundle is a local file.
NotAwaited == {SqlRegistry.dep, KafkaRegistry.dep, "bundleFile"}
RewrittenFiles == {"bundleFile"}
=============================================================================
