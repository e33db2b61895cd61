----------------------- MODULE MCNotificationPipeline -----------------------
(***************************************************************************)
(* Instances of NotificationPipeline for TLC: the .cfg files choose the    *)
(* faults.                                                                 *)
(***************************************************************************)
EXTENDS NotificationPipeline, TLC

PipelineSymmetry == Permutations(Event) \cup Permutations(Api) \cup Permutations(Copy)
=============================================================================
