--------------------------- MODULE CapabilityLanesMC ---------------------------
(***************************************************************************)
(* A workflow of two stages, the second of which may write.                *)
(***************************************************************************)
EXTENDS CapabilityLanes, TLC

MCAllowed == "plan" :> {"read"} @@ "implement" :> {"read", "write"}
=============================================================================
