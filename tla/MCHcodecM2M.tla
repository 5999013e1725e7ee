---------------------------- MODULE MCHcodecM2M -----------------------------
(* HcodecM2M for TLC: the handles, buffers and geometries are given by the  *)
(* configurations; handles are interchangeable in the safety runs.          *)
EXTENDS HcodecM2M, TLC

CtxSymmetry == Permutations(Ctx)
=============================================================================
