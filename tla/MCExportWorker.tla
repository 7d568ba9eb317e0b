--------------------------- MODULE MCExportWorker ---------------------------
(* Small instances of ExportWorker for TLC. *)
EXTENDS ExportWorker
=============================================================================
