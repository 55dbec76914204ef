------------------------- MODULE MCReceiptUploader -------------------------
(* Values of the constants for model-checking ReceiptUploader.             *)
EXTENDS ReceiptUploader

CONSTANTS r1, r2, r3, r4
=============================================================================
