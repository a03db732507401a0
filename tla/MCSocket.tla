------------------------------ MODULE MCSocket ------------------------------
(* Instantiates Socket for TLC: two connections, reader channels of two    *)
(* slots, and request sets that make each question of the runs arise.     *)
EXTENDS Socket

MCConns == {"c1", "c2"}

\* Every connection is accepted and served from the start.
NoLateConns == {}

\* c2 connects while the server runs, maybe while it shuts down.
LateC2 == {"c2"}

\* Valid batches of one and two messages, reads from the first id,
\* tailing (limit 0) and bounded (limit 1), and CLOSE.
ValidRequests ==
    { [name |-> "MSG", args |-> <<1>>],
      [name |-> "MSG", args |-> <<1, 1>>],
      [name |-> "READ", args |-> <<1, 0>>],
      [name |-> "READ", args |-> <<2, 0>>],
      [name |-> "CLOSE", args |-> <<>>] }

\* Every handler, each with a well-formed and a malformed request, but for
\* a malformed CLOSE.
AllRequests ==
    ValidRequests \cup
    { [name |-> "MSG", args |-> <<>>],
      [name |-> "MSG", args |-> <<1, 0>>],
      [name |-> "READ", args |-> <<1, 1>>],
      [name |-> "READ", args |-> <<1>>],
      [name |-> "HEAD", args |-> <<>>],
      [name |-> "HEAD", args |-> <<1>>],
      [name |-> "STATS", args |-> <<>>],
      [name |-> "PING", args |-> <<>>],
      [name |-> "RAWMSG", args |-> <<>>],
      [name |-> "SLEEP", args |-> <<1>>],
      [name |-> "SLEEP", args |-> <<>>],
      [name |-> "REPLICATE", args |-> <<1>>],
      [name |-> "REPLICATE", args |-> <<>>] }

\* SHUTDOWN (which may fail), a tailing read and a batch.
ShutdownRequests ==
    { [name |-> "SHUTDOWN", args |-> <<>>],
      [name |-> "READ", args |-> <<1, 0>>],
      [name |-> "MSG", args |-> <<1>>] }

\* The valid requests and a CLOSE with an argument.
MalformedCloseRequests ==
    ValidRequests \cup { [name |-> "CLOSE", args |-> <<1>>] }

\* A valid batch and a batch whose second message is empty.
PartialBatchRequests ==
    { [name |-> "MSG", args |-> <<1>>],
      [name |-> "MSG", args |-> <<1, 0>>] }

\* A bounded read and a valid batch.
BoundedReadRequests ==
    { [name |-> "READ", args |-> <<1, 1>>],
      [name |-> "MSG", args |-> <<1>>] }
=============================================================================
