----------------------------- MODULE MCServerApi -----------------------------
(* Values of the constants of ServerApi for TLC. *)
EXTENDS ServerApi

CONSTANTS s1, s2

MCServers == {s1, s2}
=============================================================================
