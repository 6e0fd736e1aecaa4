---------------------------- MODULE MCClearSweep ----------------------------
(***************************************************************************)
(* Instances of ClearSweep for TLC.                                        *)
(***************************************************************************)
EXTENDS ClearSweep

CONSTANTS zgw, dme, oil

GatewayAndEcu == <<zgw, dme>>
SameEcuTwice == <<dme, dme>>
=============================================================================
