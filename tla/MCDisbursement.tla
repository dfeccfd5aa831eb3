------------------------------ MODULE MCDisbursement ------------------------------
(***************************************************************************)
(* A PI and an officer, two items and up to three requests.                *)
(***************************************************************************)
EXTENDS DisbursementProps

CONSTANTS pi, officer, equipment, travel

MCItems == {equipment, travel}
MCSubmitters == {pi}
MCOfficers == {officer}
=============================================================================
