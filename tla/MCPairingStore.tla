-------------------------- MODULE MCPairingStore ---------------------------
(* The instance of PairingStore that TLC checks.                            *)
EXTENDS PairingStore, TLC

(* Servers only take requests.                                              *)
ServerSymmetry == Permutations(Servers)

============================================================================
