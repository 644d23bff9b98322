----------------------------- MODULE MCProductJob -----------------------------
(* Small instances of ProductJob for TLC. *)
EXTENDS ProductJob, TLC

Plan(kind, sink, clean) == [kind |-> kind, sink |-> sink, clean |-> clean]

\* Every way a job can be planned, and the plans that upload.
AllPlans == PlanSpace
UploadPlans == {Plan("catalog", TRUE, TRUE), Plan("local", TRUE, FALSE)}
=============================================================================
