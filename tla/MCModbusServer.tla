--------------------------- MODULE MCModbusServer ---------------------------
(* Instances of ModbusServer for TLC.                                      *)
EXTENDS ModbusServerInv, TLC

Symmetry == Permutations(Client)
=============================================================================
