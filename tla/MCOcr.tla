------------------------------- MODULE MCOcr -------------------------------
(* Instances of Ocr: one answer, two boxes, two overlapping extractions.   *)
EXTENDS Ocr
=============================================================================
