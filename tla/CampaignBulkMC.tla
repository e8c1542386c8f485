---------------------------- MODULE CampaignBulkMC ----------------------------
(***************************************************************************)
(* Instances of CampaignBulkDelivery for TLC.                              *)
(***************************************************************************)
EXTENDS CampaignBulkDelivery, TLC

Symmetric == Permutations(Executors) \cup Permutations(Recipients)
===============================================================================
