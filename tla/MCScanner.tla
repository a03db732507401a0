------------------------------ MODULE MCScanner ------------------------------
(* Small inputs for Scanner: envelopes of 1 to 3 bytes, message lines of  *)
(* 1 or 2 bytes that parse or do not, +EOF and an unparsable envelope.   *)
EXTENDS Scanner, SequencesExt

Env(n) == [k |-> "env", n |-> n, ok |-> TRUE]
EOFLine == [k |-> "eof", n |-> 0, ok |-> TRUE]
BadEnv == [k |-> "badenv", n |-> 0, ok |-> FALSE]
MsgLine(n, ok) == [k |-> "msg", n |-> n, ok |-> ok]

Lines == {Env(n) : n \in 1 .. 3} \cup {EOFLine, BadEnv}
         \cup {MsgLine(1, TRUE), MsgLine(2, TRUE), MsgLine(1, FALSE)}

(* A chunk: an envelope of n bytes and message lines adding up to n. *)
Chunks ==
    LET Bodies == BoundedSeq({MsgLine(1, TRUE), MsgLine(2, TRUE)}, 3)
        Bytes(m) == FoldLeft(LAMBDA a, l : a + l.n, 0, m)
    IN  {<<Env(Bytes(m))>> \o m : m \in {m \in Bodies : Bytes(m) \in 1 .. 3}}

(* Framed streams of up to three chunks, the ones a server sends. *)
FramedStreams ==
    {FlattenSeq(cs) \o <<EOFLine>> : cs \in BoundedSeq(Chunks, 3)}

(* Every stream of up to four lines that starts with an envelope and ends *)
(* with +EOF: the server's framing, with sizes or envelopes gone wrong.   *)
ChunkStreams ==
    {s \in BoundedSeq(Lines, 4) :
        Len(s) >= 2 /\ s[1].k = "env" /\ s[Len(s)] = EOFLine}
=============================================================================
