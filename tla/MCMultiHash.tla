----------------------------- MODULE MCMultiHash ------------------------------
(* Two values and the six prefixes of the code; the hash keeps them apart.  *)
EXTENDS MultiHash

MCInput == <<1, 2>>
MCCrc32(p, v) == <<"crc32", p, v>>
=============================================================================
