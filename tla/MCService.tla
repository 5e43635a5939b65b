------------------------------ MODULE MCService ------------------------------
(***************************************************************************)
(* Service with a version that comes and goes beside a stable path, and in *)
(* MCServiceUnlisted with an unlisted one as well.                         *)
(***************************************************************************)
EXTENDS Service, TLC

CONSTANTS v1, u1, i1, i2

MCInvokers == {i1, i2}

MCOneInvoker == {i1}

MCSymmetry == Permutations(MCInvokers)
=============================================================================
