------------------------------- MODULE MCProxy -------------------------------
(***************************************************************************)
(* Proxy on two connections and three keys.  k1 passes only when the agent *)
(* reports it with the comment "work"; k2 always passes, by its blob; k3   *)
(* never does: it has the right comment and a type that a negated rule     *)
(* excludes.  The agent goes between three holdings, of which the filter   *)
(* admits k1, both k1 and k2, and k2.                                      *)
(***************************************************************************)
EXTENDS Proxy

CONSTANTS k1, k2, k3

MCKeys == {k1, k2, k3}
MCComments == {"", "work", "home"}
MCAlgos == {"ed25519", "rsa"}
MCAlgo == [k \in MCKeys |-> IF k = k3 THEN "rsa" ELSE "ed25519"]

IsRule(kind, arg, negated) == [kind |-> kind, arg |-> arg, negated |-> negated]

MCGroups ==
    {{IsRule("comment", {"work"}, FALSE), IsRule("type", {"rsa"}, TRUE)},
     {IsRule("pubkey", {k2}, FALSE)}}

Id(k, com) == [key |-> k, comment |-> com]

MCHoldings ==
    {{Id(k1, "work")},
     {Id(k1, "work"), Id(k2, "home"), Id(k3, "work")},
     {Id(k1, "home"), Id(k2, "home"), Id(k3, "work")}}
=============================================================================
