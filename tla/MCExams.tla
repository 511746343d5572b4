------------------------------ MODULE MCExams ------------------------------
(* Instances of Exams: three requests that have read the same exam.        *)
EXTENDS Exams
=============================================================================
