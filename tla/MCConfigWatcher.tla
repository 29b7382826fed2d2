--------------------------- MODULE MCConfigWatcher ---------------------------
(* ConfigWatcher for TLC: the configurations give the constants. *)
EXTENDS ConfigWatcher
=============================================================================
