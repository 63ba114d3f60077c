--------------------------- MODULE MCDeviceStore ---------------------------
(***************************************************************************)
(* DeviceStore on an array of three slots and four devices: one more than  *)
(* fit, so that records are matched, added and evicted in every order.     *)
(***************************************************************************)
EXTENDS DeviceStore, TLC

CONSTANTS d1, d2, d3, d4

\* Zeroed memory names one of the devices, so only the others are symmetric.
Symmetry == Permutations({d2, d3, d4})
=============================================================================
