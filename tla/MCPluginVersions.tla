--------------------------- MODULE MCPluginVersions ---------------------------
(* PluginVersions for TLC. *)
EXTENDS PluginVersions
=============================================================================
