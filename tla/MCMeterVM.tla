------------------------------ MODULE MCMeterVM ------------------------------
(***************************************************************************)
(* MeterVM for TLC: three calls after Initialize, enough for a call to     *)
(* fail, succeed and be refused in one behaviour, over both kinds of VM    *)
(* inside and every failure of Initialize.                                 *)
(***************************************************************************)
EXTENDS MeterVM
==============================================================================
