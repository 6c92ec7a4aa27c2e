----------------------------- MODULE DatagramSocket ----------------------------
(******************************************************************************)
(* JsonDatagramSocket (util/json_datagram_socket.ts): messages over the byte  *)
(* stream of a Unix socket or a pipe, each followed by a newline.  The reader *)
(* gets the bytes in chunks that know nothing of messages, and what is left   *)
(* of a chunk after its last newline is tried as a message, too: the newline  *)
(* is a write of its own and may be late.                                     *)
(*                                                                            *)
(* Message n is two bytes, <<n, 1>> and <<n, 2>>: a message that is cut in    *)
(* two does not parse, since all messages are objects.                        *)
(******************************************************************************)
EXTENDS Naturals, Sequences, FiniteSets

LOCAL INSTANCE SequencesExt

CONSTANTS MaxMessages,  \* bound: messages that are written
          MaxBytes      \* bound: bytes on their way

ASSUME DatagramAssumption == {MaxMessages, MaxBytes} \subseteq Nat

VARIABLES written,          \* the number of messages written
          tail,             \* the write of a newline is still to come
          bytes,            \* on their way
          partialMessage,
          received,         \* messages emitted
          writer, reader    \* "open", "ended" or "destroyed"

datagramVars == <<written, tail, bytes, partialMessage, received, writer, reader>>

Newline == <<0, 0>>
Text(n) == <<<<n, 1>>, <<n, 2>>>>

DatagramInit ==
    /\ written = 0 /\ tail = FALSE /\ bytes = <<>>
    /\ partialMessage = <<>> /\ received = <<>>
    /\ writer = "open" /\ reader = "open"

-----------------------------------------------------------------------------
(* Writing: two writes to the stream, which may be flushed apart.           *)

WriteMessage ==
    /\ writer = "open" /\ ~tail
    /\ written < MaxMessages /\ Len(bytes) + 3 <= MaxBytes
    /\ written' = written + 1
    /\ bytes' = bytes \o Text(written + 1)
    /\ tail' = TRUE
    /\ UNCHANGED <<partialMessage, received, writer, reader>>

WriteNewline ==
    /\ tail /\ tail' = FALSE
    /\ bytes' = Append(bytes, Newline)
    /\ UNCHANGED <<written, partialMessage, received, writer, reader>>

EndSocket ==
    /\ writer = "open" /\ ~tail
    /\ writer' = "ended"
    /\ UNCHANGED <<written, tail, bytes, partialMessage, received, reader>>

\* Of the reader's end: what comes then is ignored.
DestroySocket ==
    /\ reader = "open"
    /\ reader' = "destroyed"
    /\ UNCHANGED <<written, tail, bytes, partialMessage, received, writer>>

-----------------------------------------------------------------------------
(* Reading.                                                                 *)

Parses(text) == \E n \in 1..MaxMessages : text = Text(n)

\* split('\n'): the lines that a newline ends, and the rest.
NewlinesOf(text) == {i \in DOMAIN text : text[i] = Newline}
Line(text, i) ==
    LET before == {j \in NewlinesOf(text) : j < i}
        start == IF before = {} THEN 1 ELSE Max(before) + 1
    IN  SubSeq(text, start, i - 1)
Lines(text) == [k \in 1..Cardinality(NewlinesOf(text)) |->
                   Line(text, SetToSortSeq(NewlinesOf(text), <)[k])]
Rest(text) == IF NewlinesOf(text) = {} THEN text
              ELSE SubSeq(text, Max(NewlinesOf(text)) + 1, Len(text))

\* Lines that are empty, or do not parse, are skipped.
Messages(lines) == LET parsed == SelectSeq(lines, Parses)
                   IN  [k \in DOMAIN parsed |-> parsed[k][1][1]]

\* A bug to detect: what was left of the chunk is tried again with the next.
Left_Kept(rest) == rest
Left(rest) == IF Parses(rest) THEN <<>> ELSE rest

\* reader 'data' and _tryReadMessage
Data(n) ==
    /\ reader = "open" /\ n \in 1..Len(bytes)
    /\ LET text == partialMessage \o SubSeq(bytes, 1, n)
       IN  /\ received' = received \o Messages(Append(Lines(text), Rest(text)))
           /\ partialMessage' = Left(Rest(text))
    /\ bytes' = SubSeq(bytes, n + 1, Len(bytes))
    /\ UNCHANGED <<written, tail, writer, reader>>

-----------------------------------------------------------------------------
DatagramNext == \/ WriteMessage \/ WriteNewline \/ EndSocket \/ DestroySocket
                \/ \E n \in 1..MaxBytes : Data(n)

DatagramSpec == DatagramInit /\ [][DatagramNext]_datagramVars

-----------------------------------------------------------------------------
DatagramTypeOK ==
    /\ written \in 0..MaxMessages
    /\ tail \in BOOLEAN
    /\ Len(bytes) <= MaxBytes
    /\ writer \in {"open", "ended"} /\ reader \in {"open", "destroyed"}

\* "wraps a TCP/Unix stream socket to send and receive JSON payloads": however
\* the bytes are cut into chunks, each message is emitted once, in the order of
\* the writes, and all of them when all bytes have arrived.
MessagesOnceInOrder ==
    /\ received = [n \in 1..Len(received) |-> n]
    /\ bytes = <<>> => Len(received) = written
================================================================================
