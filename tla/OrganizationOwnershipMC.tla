---------------------- MODULE OrganizationOwnershipMC ----------------------
(***************************************************************************)
(* An owner's account closure, and the platform that suspends and          *)
(* reactivates.                                                            *)
(***************************************************************************)
EXTENDS OrganizationOwnership

ClosureKinds == {"leave", "update"}
=============================================================================
