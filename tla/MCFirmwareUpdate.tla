------------------------- MODULE MCFirmwareUpdate -------------------------
(* Model values for FirmwareUpdate: a firmware of whole pages and a        *)
(* recovery firmware that ends within a page.                              *)
EXTENDS FirmwareUpdate, TLC

CONSTANTS a, r

MCImages == {a, r}
MCLength == (a :> 2) @@ (r :> 3)
===========================================================================
