---------------------------- MODULE MCHealthSweep ---------------------------
(* HealthSweep with two tenants whose library is sound or has both faults. *)
EXTENDS HealthSweep

Sound == {"installed"}
Broken == {"installed", "resolveFailed", "inconsistent"}
Statuses == {Sound, Broken}
=============================================================================
