----------------------------- MODULE MCPdfSplit -----------------------------
(* Instances of PdfSplit: two requests, two overlapping runs of one job.   *)
EXTENDS PdfSplit
=============================================================================
