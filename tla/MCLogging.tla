----------------------------- MODULE MCLogging ------------------------------
(* One variable set, a quiet RUST_LOG with the statistics, or none of them. *)
EXTENDS Logging

MCEnv ==
  {[vars |-> {v}, RUST_LOG |-> Unset] : v \in {"TRACE", "REQ_STATS"}}
    \cup {[vars |-> {"APERTURE_STATS"}, RUST_LOG |-> INFO - 1]}
    \cup {[vars |-> {}, RUST_LOG |-> l] : l \in {INFO - 1, TRACE, Unset}}
=============================================================================
