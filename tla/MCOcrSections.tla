--------------------------- MODULE MCOcrSections ---------------------------
(* A small instance of OcrSections for TLC.                                *)
EXTENDS OcrSections

=============================================================================
