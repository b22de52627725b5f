------------------------------- MODULE MCSmoke -------------------------------
(***************************************************************************)
(* The debug smoke tests with short registers: an address has two bits, a  *)
(* data word two, and IDCODE five.                                         *)
(***************************************************************************)
EXTENDS DebugSmoke, IrqCampaign

MCIdcode == <<1, 1, 0, 0, 1>>
MCDtmcsId == <<1>>
MCDmcontrol == <<1, 0>>
MCDmstatus == <<0, 1>>
===============================================================================
