------------------------ MODULE MCPendingControllers ------------------------
EXTENDS PendingControllers

CONSTANTS nsautoprop, scheduler, override

(* The scheduler and namespace auto-propagation in parallel, overrides after them. *)
Join == <<{nsautoprop, scheduler}, {override}>>

Override == {override}
NotOverride == {nsautoprop, scheduler}
=============================================================================
