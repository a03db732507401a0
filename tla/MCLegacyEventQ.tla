---------------------------- MODULE MCLegacyEventQ ----------------------------
EXTENDS LegacyEventQ

MCConns == {"c1", "c2"}

(* Well-formed commands: batches of one or two messages, a tailing READ  *)
(* from id 1, a bounded READ, CLOSE.                                     *)
ValidRequests ==
    {[name |-> "MSG", args |-> <<1>>], [name |-> "MSG", args |-> <<1, 1>>],
     [name |-> "READ", args |-> <<1, 0>>], [name |-> "READ", args |-> <<1, 1>>],
     [name |-> "CLOSE", args |-> <<>>]}

(* Every kind of command, malformed ones included. *)
AllRequests ==
    ValidRequests \cup
    {[name |-> "MSG", args |-> <<>>], [name |-> "MSG", args |-> <<1, 0>>],
     [name |-> "READ", args |-> <<1>>], [name |-> "REPLICATE", args |-> <<1>>],
     [name |-> "REPLICATE", args |-> <<>>], [name |-> "RAWMSG", args |-> <<>>],
     [name |-> "HEAD", args |-> <<>>], [name |-> "HEAD", args |-> <<1>>],
     [name |-> "PING", args |-> <<>>], [name |-> "PING", args |-> <<1>>],
     [name |-> "CLOSE", args |-> <<1>>], [name |-> "SLEEP", args |-> <<1>>],
     [name |-> "SLEEP", args |-> <<>>], [name |-> "SHUTDOWN", args |-> <<>>],
     [name |-> "STATS", args |-> <<>>]}
=============================================================================
