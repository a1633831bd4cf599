----------------------------- MODULE MCMuxPool -----------------------------
(* Small instances of MuxPool. Requests, servers and muxes are              *)
(* interchangeable: no definition of MuxPool tells one from another.        *)
EXTENDS MuxPool, TLC

Symmetry ==
    Permutations(Requests) \cup Permutations(Servers) \cup Permutations(Muxes)
============================================================================
