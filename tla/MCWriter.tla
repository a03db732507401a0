------------------------------ MODULE MCWriter ------------------------------
(* Two writer goroutines of two messages each, batches of two messages. *)
EXTENDS Writer

MCWriters == {"w1", "w2"}
=============================================================================
