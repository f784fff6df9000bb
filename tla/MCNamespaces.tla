---------------------------- MODULE MCNamespaces ----------------------------
(***************************************************************************)
(* The constants of TestSuite for the multinamespace suite: one spec, two  *)
(* contexts, each in a namespace of its own.                               *)
(***************************************************************************)
EXTENDS TestSuite, SuiteScripts

Used == DOMAIN Multinamespace

AtOnce == MultinamespaceObjects \ Awaited
Makers == Total(MadeFor, MultinamespaceObjects, "none")
Owners == Total(GoesWith, MultinamespaceObjects, "none")
Homes == Total(LivesIn, MultinamespaceObjects, "none")
Dependencies == Total(WorksWith, MultinamespaceObjects, {})
RegistryCRs == {First.registry.cr, Second.registry.cr}
=============================================================================
