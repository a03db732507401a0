----------------------------- MODULE MCHandlers -----------------------------
(* Two connections and two topics. *)
EXTENDS Handlers

MCConns == {"c1", "c2"}
MCTopics == {"t1", "t2"}
=============================================================================
