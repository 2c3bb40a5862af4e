----------------------------- MODULE MCWantList -----------------------------
(***************************************************************************)
(* WantList for TLC: two callers that both want x, by GetBlock, and of     *)
(* whom one also wants y and does not wait for it.                         *)
(***************************************************************************)
EXTENDS WantList

CONSTANTS t1, t2, x, y

MCCallers == {t1, t2}
MCCids == {x, y}
MCDemand == {<<t1, x, FALSE>>, <<t2, x, FALSE>>, <<t1, y, TRUE>>}
=============================================================================
