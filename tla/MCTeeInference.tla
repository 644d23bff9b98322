--------------------------- MODULE MCTeeInference ---------------------------
(* A small instance of TeeInference: one stream, with what overlaps it.    *)
(* That callers may share the mask pool is proved (TeeInferenceProofs).    *)
EXTENDS TeeInference

MCVocab == {0, 1, 2}
MCHeadWeight == [t \in MCVocab |-> IF t = 0 THEN 5 ELSE IF t = 1 THEN 4 ELSE -4]
MCWeightStep == [t \in MCVocab |-> IF t = 1 THEN 5 ELSE 4]
MCChecks == {{0, 1}, {1}}
MCHiddens == {-3, 4}
MCSeedRhos == <<12>>
=============================================================================
