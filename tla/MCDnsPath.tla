------------------------------ MODULE MCDnsPath ------------------------------
(* DnsPath with interchangeable ports.                                        *)
EXTENDS DnsPath, TLC

Symmetry == Permutations(Ports)
=============================================================================
