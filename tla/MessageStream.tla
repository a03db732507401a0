---------------------------- MODULE MessageStream ----------------------------
(***************************************************************************)
(* What a reader of a chunked message stream promises (spec section 3,    *)
(* "Response grammar"): each envelope +<N>\r\n introduces exactly N bytes  *)
(* of message lines, and the stream ends with +EOF\r\n.  A reader hands    *)
(* out the messages of the stream in order and ends cleanly exactly when  *)
(* the stream is framed this way; on a malformed stream it fails, after   *)
(* handing out at most the messages that fit in the chunks read so far.  *)
(*                                                                         *)
(* A stream is a sequence of lines [k, n, ok]: an envelope (k = "env",    *)
(* n its declared length), +EOF (k = "eof"), an envelope whose length     *)
(* does not parse (k = "badenv"), or a message line (k = "msg", n its     *)
(* length with \r\n, ok whether it parses and its checksum matches).  A   *)
(* message is identified by its line's position in the stream.           *)
(***************************************************************************)
EXTENDS Naturals, Sequences

CONSTANT Streams    \* the streams a reader may be given

VARIABLES input, out, status

avars == <<input, out, status>>

(* Decode the lines of s from i on, with left bytes of the current chunk  *)
(* still due (0 between chunks): ok says whether the rest of s is framed, *)
(* msgs the positions of the messages a streaming reader may hand out.   *)
RECURSIVE Frame(_, _, _)
Frame(s, i, left) ==
    IF i > Len(s) THEN [ok |-> FALSE, msgs |-> <<>>]
    ELSE IF left = 0
    THEN CASE s[i].k = "eof" -> [ok |-> i = Len(s), msgs |-> <<>>]
           [] s[i].k = "env" /\ s[i].n > 0 -> Frame(s, i + 1, s[i].n)
           [] OTHER -> [ok |-> FALSE, msgs |-> <<>>]
    ELSE IF s[i].k = "msg" /\ s[i].ok /\ s[i].n <= left
    THEN LET rest == Frame(s, i + 1, left - s[i].n)
         IN  [ok |-> rest.ok, msgs |-> <<i>> \o rest.msgs]
    ELSE [ok |-> FALSE, msgs |-> <<>>]

Decoded(s) == Frame(s, 1, 0)

Framed(s) == Decoded(s).ok

AInit ==
    /\ input \in Streams
    /\ out = <<>>
    /\ status = "scanning"

(* The next message of the stream is handed out. *)
Deliver ==
    /\ status = "scanning"
    /\ Len(out) < Len(Decoded(input).msgs)
    /\ out' = Append(out, Decoded(input).msgs[Len(out) + 1])
    /\ UNCHANGED <<input, status>>

(* A framed stream ends cleanly once all its messages are out. *)
End ==
    /\ status = "scanning"
    /\ Framed(input)
    /\ out = Decoded(input).msgs
    /\ status' = "done"
    /\ UNCHANGED <<input, out>>

(* A malformed stream fails once what may be handed out is out. *)
Fail ==
    /\ status = "scanning"
    /\ ~Framed(input)
    /\ out = Decoded(input).msgs
    /\ status' = "failed"
    /\ UNCHANGED <<input, out>>

(* The reader is given a new stream. *)
Restart ==
    /\ \E s \in Streams : input' = s
    /\ out' = <<>>
    /\ status' = "scanning"

ANext == Deliver \/ End \/ Fail \/ Restart

ASpec == AInit /\ [][ANext]_avars
=============================================================================
