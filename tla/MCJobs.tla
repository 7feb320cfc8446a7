--------------------------------- MODULE MCJobs ---------------------------------
(* The background jobs on a small instance: two workers. The OCR, whose jobs  *)
(* may be several at once, gets one fault and one manual retry.               *)
EXTENDS BackgroundJobs

CONSTANTS w1, w2

FaultBound == [s \in Subjects |-> IF s = "ocr" THEN 1 ELSE 2]
ChangeBound == [s \in Subjects |-> IF s = "ocr" THEN 1 ELSE 2]
================================================================================
