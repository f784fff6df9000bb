-------------------------- MODULE MCOperatorSuites --------------------------
(***************************************************************************)
(* Environments of OperatorSuites for TLC.                                 *)
(***************************************************************************)
EXTENDS OperatorSuites

\* On kind, with a catalog image of one's own and its default channel; on OpenShift, with
\* a pull secret; and with selenium, on a catalog source of the cluster.
OnKind == [ownCatalog |-> TRUE, configured |-> FALSE, selenium |-> FALSE, openshift |-> FALSE,
           pullSecret |-> FALSE]
OnOpenshift == [ownCatalog |-> TRUE, configured |-> TRUE, selenium |-> FALSE, openshift |-> TRUE,
                pullSecret |-> TRUE]
WithSelenium == [ownCatalog |-> FALSE, configured |-> TRUE, selenium |-> TRUE, openshift |-> FALSE,
                 pullSecret |-> FALSE]
Environments == {OnKind, OnOpenshift, WithSelenium}
=============================================================================
