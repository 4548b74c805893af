-------------------------------- MODULE MCCerts --------------------------------
(* Certs for TLC: the three regions. *)
EXTENDS Certs

MCRegions == <<"jp", "eu", "us">>
=============================================================================
