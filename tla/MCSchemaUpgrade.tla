-------------------------- MODULE MCSchemaUpgrade ---------------------------
(***************************************************************************)
(* SchemaUpgrade for TLC: two accesses to different files, and a failure   *)
(* on one of them and on a third.                                          *)
(***************************************************************************)
EXTENDS SchemaUpgrade

MCAccesses == <<"b.h", "a.c">>
MCFailures == <<"a.c", "x.h">>
Symmetry == {[u \in Programs |-> IF swap THEN CHOOSE v \in Programs : v # u ELSE u] :
               swap \in BOOLEAN}
=============================================================================
