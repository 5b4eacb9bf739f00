-------------------------- MODULE MCAddressManager --------------------------
(* Two addresses and two concurrent requests: enough for an add and a      *)
(* remove of one address to race for the lock, one of them failing at any  *)
(* point, while the other address must keep what was last done to it.      *)
EXTENDS AddressManager
=============================================================================
