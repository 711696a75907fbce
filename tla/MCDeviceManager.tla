--------------------------- MODULE MCDeviceManager ---------------------------
(* DeviceManager on small instances. *)
EXTENDS DeviceManager, TLC
CONSTANTS c1, c2, d1, d2, t1, t2, t3, k1, k2
Symm == Permutations(Client) \cup Permutations(Token) \cup Permutations(Conn)
=============================================================================
