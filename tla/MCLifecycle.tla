---------------------------- MODULE MCLifecycle ----------------------------
(* One update of the tables, a counter that tells one from several. *)
EXTENDS Lifecycle

MCVersions == {0, 1}
=============================================================================
