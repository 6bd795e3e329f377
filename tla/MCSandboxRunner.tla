-------------------------- MODULE MCSandboxRunner --------------------------
(* SandboxRunner on small instances; the values are in the cfg files.      *)
EXTENDS SandboxRunner
=============================================================================
