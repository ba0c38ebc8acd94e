------------------------ MODULE MCConformanceRunner ------------------------
(* Two scenarios; the second one may be retried. *)
EXTENDS ConformanceRunner
=============================================================================
