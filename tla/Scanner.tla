------------------------------- MODULE Scanner -------------------------------
(***************************************************************************)
(* protocol.Scanner of src/protocol/scanner.go, driven by the usual caller *)
(* loop (for ps.Scan() { use ps.Message() }).  The input is a stream of    *)
(* lines as in MessageStream.tla; bufio's ReadLine, which is not in src/,  *)
(* is modelled by its effect: it returns the next line without its \r\n,   *)
(* or io.EOF at the end of the input.  Peek(1) sees whether the next line *)
(* starts with '+': envelopes, +EOF and bad envelopes do, message lines    *)
(* do not.  Byte counts are abstract: a message line's n is what          *)
(* ReadMessage adds to ChunkPos for it (len(line) + 2).                    *)
(* Errors other than io.EOF are one value, "invalid": the caller only      *)
(* tells io.EOF from the rest.  LastChunkPos is assigned but never read   *)
(* by the scanner and is left out.                                        *)
(***************************************************************************)
EXTENDS Naturals, Sequences

CONSTANTS
    Streams,      \* the inputs the scanner may be given (NewScanner, Reset)
    MaxResets     \* bound on the calls to Reset

VARIABLES
    input,      \* the lines of the underlying reader
    pos,        \* the next line br will return
    chunkEnd,   \* ps.chunkEnd: the declared length of the current chunk
    chunkPos,   \* ps.ChunkPos: bytes of it read so far
    msg,        \* ps.msg: the position of the last message, 0 for nil
    err,        \* ps.err: "none", "EOF" or "invalid"
    out,        \* the messages the caller has taken, in order
    resets

vars == <<input, pos, chunkEnd, chunkPos, msg, err, out, resets>>

IsPlus(l) == l.k \in {"env", "eof", "badenv"}

-----------------------------------------------------------------------------
(* scanEnvelope at line p: io.EOF at the end of the input; a line not      *)
(* starting with '+' is errInvalidFirstByte and is left unread; +EOF is    *)
(* io.EOF; a length that does not parse is an error; otherwise chunkEnd.   *)
scanEnvelope(p) ==
    CASE p > Len(input)      -> [e |-> "EOF", pos |-> p, end |-> chunkEnd]
      [] ~IsPlus(input[p])   -> [e |-> "firstbyte", pos |-> p, end |-> chunkEnd]
      [] input[p].k = "eof"  -> [e |-> "EOF", pos |-> p + 1, end |-> chunkEnd]
      [] input[p].k = "badenv" -> [e |-> "invalid", pos |-> p + 1, end |-> chunkEnd]
      [] OTHER               -> [e |-> "none", pos |-> p + 1, end |-> input[p].n]

(* ReadMessage at line p: the bytes read, the message and the error.  An  *)
(* envelope line read here does not split into four fields; a message    *)
(* line that fails to parse, has the wrong body length or a bad crc is   *)
(* invalid.                                                               *)
ReadMessage(p) ==
    CASE p > Len(input)       -> [read |-> 2, msg |-> 0, e |-> "EOF", pos |-> p]
      [] input[p].k = "eof"   -> [read |-> 6, msg |-> 0, e |-> "EOF", pos |-> p + 1]
      [] input[p].k = "msg" /\ input[p].ok
                              -> [read |-> input[p].n, msg |-> p, e |-> "none", pos |-> p + 1]
      [] OTHER                -> [read |-> input[p].n, msg |-> 0, e |-> "invalid", pos |-> p + 1]

(* mutant: a chunk is over only once ChunkPos has passed chunkEnd *)
ChunkOverLate(cp, end) == end > 0 /\ cp > end

(* The test that ends a chunk: ChunkPos has reached chunkEnd. *)
ChunkOver(cp, end) == end > 0 /\ cp >= end

(***************************************************************************)
(* Scan: outside a chunk, scan an envelope, giving up on any error but     *)
(* errInvalidFirstByte; read a message and add its bytes to ChunkPos; a    *)
(* chunk whose ChunkPos has reached chunkEnd is over.  Scan returns        *)
(* err == nil, and the caller stops at the first false.                    *)
(***************************************************************************)
Scan ==
    /\ err = "none"
    /\ LET se == IF chunkEnd <= 0
                 THEN scanEnvelope(pos)
                 ELSE [e |-> "none", pos |-> pos, end |-> chunkEnd]
       IN \/ /\ se.e \notin {"none", "firstbyte"}
             /\ err' = se.e
             /\ pos' = se.pos
             /\ UNCHANGED <<chunkEnd, chunkPos, msg, out>>
          \/ /\ se.e \in {"none", "firstbyte"}
             /\ LET rm == ReadMessage(se.pos)
                    cp == chunkPos + rm.read
                    over == ChunkOver(cp, se.end)
                IN /\ pos' = rm.pos
                   /\ chunkPos' = IF over THEN 0 ELSE cp
                   /\ chunkEnd' = IF over THEN 0 ELSE se.end
                   /\ err' = rm.e
                   /\ msg' = rm.msg
                   /\ out' = IF rm.e = "none" THEN Append(out, rm.msg) ELSE out
    /\ UNCHANGED <<input, resets>>

(* Reset(r): a new reader and every field back to its zero value; the    *)
(* caller starts over.  It may be called in the middle of a stream.      *)
Reset ==
    /\ resets < MaxResets
    /\ \E s \in Streams : input' = s
    /\ pos' = 1
    /\ chunkEnd' = 0
    /\ chunkPos' = 0
    /\ msg' = 0
    /\ err' = "none"
    /\ out' = <<>>
    /\ resets' = resets + 1

(* The caller has seen Scan return false. *)
Stopped == err # "none" /\ UNCHANGED vars

(* NewScanner: a scanner over a reader, its fields zero. *)
Init ==
    /\ input \in Streams
    /\ pos = 1
    /\ chunkEnd = 0
    /\ chunkPos = 0
    /\ msg = 0
    /\ err = "none"
    /\ out = <<>>
    /\ resets = 0

Next == Scan \/ Reset \/ Stopped

(* The caller keeps calling Scan until it returns false. *)
Spec == Init /\ [][Next]_vars /\ WF_vars(Scan)

-----------------------------------------------------------------------------
(* The scanner implements MessageStream: its status is read from ps.err.  *)
Status == CASE err = "none" -> "scanning"
            [] err = "EOF"  -> "done"
            [] OTHER        -> "failed"

MS == INSTANCE MessageStream WITH status <- Status

(* Scan hands out the messages of a stream in order, ends with io.EOF     *)
(* exactly when the stream is framed as the spec's grammar says, and     *)
(* otherwise fails after at most the messages that fit in their chunks;  *)
(* Reset in the middle of a stream starts the next one afresh.           *)
FollowsFraming == MS!ASpec
=============================================================================
