---------------------------- MODULE MCDiscovery -----------------------------
(* Small instances of Discovery: two overlapping subnets of two hosts, and  *)
(* one subnet that ipaddress.ip_network rejects.                            *)
EXTENDS Discovery, TLC

CONSTANTS a1, a2, a3, left, right, bad

MCHostsOf == left :> <<a1, a2>> @@ right :> <<a2, a3>>
=============================================================================
