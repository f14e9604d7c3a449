-------------------------- MODULE MCCodexExecution --------------------------
(* The composition of the product: mission_composition.create_executor     *)
(* gives every member one service over the ledger of the root.             *)
EXTENDS CodexExecution

CONSTANTS M1, M2, Root

RootLedger == [m \in Member |-> Root]
=============================================================================
