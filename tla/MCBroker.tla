------------------------------ MODULE MCBroker ------------------------------
(***************************************************************************)
(* The instance of Broker for TLC.                                         *)
(***************************************************************************)
EXTENDS Broker
=============================================================================
