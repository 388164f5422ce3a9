------------------------- MODULE LearningRecordsMC -------------------------
(***************************************************************************)
(* Small installations for LearningRecords: two students share one, with   *)
(* two sessions of two checkpoints each.                                   *)
(***************************************************************************)
EXTENDS LearningRecords
=============================================================================
