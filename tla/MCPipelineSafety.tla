-------------------------- MODULE MCPipelineSafety --------------------------
(***************************************************************************)
(* NotificationPipeline for TLC in two settings, one per behaviour: every  *)
(* fault of the .cfg while only the API process First runs, or all API     *)
(* processes, whose relays compete, with the faults that make duplicates.  *)
(***************************************************************************)
EXTENDS NotificationPipeline, TLC

CONSTANT First
VARIABLE setting

Others == Api \ {First}
FirstAlone ==
    /\ Others \cap connected' = {}
    /\ \A e \in Event : host'[e] \notin Others
    /\ \A i \in Others : failures'[i] = 0

FewFaults == struck' = {} /\ ~\E i \in Api : ApiDisconnect(i) \/ ApiCrash(i)

EitherInit == Init /\ setting \in {"one", "two"}
EitherNext ==
    /\ Next
    /\ UNCHANGED setting
    /\ setting = "one" => FirstAlone
    /\ setting = "two" => FewFaults
EitherSpec == EitherInit /\ [][EitherNext]_<<vars, setting>>

CopySymmetry == Permutations(Copy)
=============================================================================
