--------------------------- MODULE MCSignalDrain ----------------------------
(***************************************************************************)
(* SignalDrain for TLC: model values come from the configuration.          *)
(***************************************************************************)
EXTENDS SignalDrain
=============================================================================
