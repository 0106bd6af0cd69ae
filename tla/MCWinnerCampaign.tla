-------------------------- MODULE MCWinnerCampaign --------------------------
(* Instances of WinnerCampaign for TLC. *)
EXTENDS WinnerCampaign
=============================================================================
