----------------------------- MODULE MCFeltText -----------------------------
(* Base 4 with one letter and three digits: 64 texts, 32 storage keys and 37 *)
(* elements, as 16^63, 2^251 and the prime just above it.                    *)
EXTENDS FeltText
=============================================================================
