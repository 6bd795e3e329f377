------------------------------ MODULE MCTracer ------------------------------
(* Tracer on small instances; the values are in the cfg files.             *)
EXTENDS Tracer
=============================================================================
