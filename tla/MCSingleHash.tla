----------------------------- MODULE MCSingleHash -----------------------------
(* Three values, two of them equal as in TestSigner's input, with hash     *)
(* functions that keep every value apart.                                  *)
EXTENDS SingleHash

MCInput == <<1, 2, 1>>
MCMd5(v) == v + 10
MCCrc32(v) == v + 100
=============================================================================
