--------------------------- MODULE MCSessionTable ---------------------------
(***************************************************************************)
(* SessionTable for TLC: three slots and four keys, three of which hash to *)
(* the same slot, so that probes wrap around, and evictions put keys in    *)
(* foreign slots.                                                          *)
(***************************************************************************)
EXTENDS SessionTable

MCHome == [k \in Keys |-> IF k = "d" THEN 0 ELSE 2]
=============================================================================
