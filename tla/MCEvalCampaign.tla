---------------------------- MODULE MCEvalCampaign ----------------------------
(***************************************************************************)
(* Two sizes tried on two edges: the smallest campaign in which a process, *)
(* a file or a configuration of one size can outlive it.                   *)
(***************************************************************************)
EXTENDS EvalCampaign

MCCacheSizes == <<2, 1>>
MCMaxEvents == <<2, 1>>
=============================================================================
