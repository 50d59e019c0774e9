------------------------------ MODULE MCTracer ------------------------------
(***************************************************************************)
(* Tracer for TLC: pids and the stride are small numbers.                  *)
(***************************************************************************)
EXTENDS Tracer

MCPids == 1..3
TwoPids == 1..2
MCTracerPid == 9
=============================================================================
