-------------------------- MODULE MCProviderHealth --------------------------
(* A small instance of ProviderHealth for TLC.                             *)
EXTENDS ProviderHealth
=============================================================================
