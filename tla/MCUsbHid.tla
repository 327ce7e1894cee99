------------------------------ MODULE MCUsbHid ------------------------------
(* Instance of UsbHid for TLC: one key of each kind. *)
EXTENDS UsbHid
=============================================================================
