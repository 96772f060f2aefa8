-------------------------- MODULE MCGatewaySession --------------------------
(***************************************************************************)
(* An instance of GatewaySession for TLC: two clicks of the owner and a    *)
(* stray one, an inbox that holds one active row, and a budget of one      *)
(* IDENTIFY per hour and two per day.                                      *)
(***************************************************************************)
EXTENDS GatewaySession
=============================================================================
