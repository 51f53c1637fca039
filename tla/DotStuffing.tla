----------------------------- MODULE DotStuffing -----------------------------
(***************************************************************************)
(* The content of one message on its way to the server: the message is     *)
(* read to its end (types.rs), then the loop of ClientCodec::encode        *)
(* (codec.rs) goes over its bytes, SmtpStream::message (stream.rs) writes  *)
(* the final dot, and a server undoes the dots as RFC 5321, 4.5.2 asks,    *)
(* reading while the client still writes.                                  *)
(*                                                                         *)
(* Only the bytes the codec looks at are told apart; "x" is any other.     *)
(***************************************************************************)
EXTENDS Integers, Sequences, SequencesExt

CONSTANT Messages   \* the contents that may be sent, as sequences of bytes

Bytes == {"CR", "LF", ".", "x"}

ASSUME MessagesAssumption == Messages \subseteq Seq(Bytes)

VARIABLES
    message,       \* the content of the Message the caller hands over
    frame,         \* the bytes of it read so far: `message_bytes`
    phase,         \* where SmtpStream::message is
    escape_count,  \* ClientCodec::escape_count
    idx,           \* the byte of `frame` the loop looks at
    start,         \* the first byte of `frame` not yet written
    wire,          \* bytes on their way to the server
    rstate,        \* the server's place in the current line
    content        \* what the server takes for the message

input == <<message, frame>>
vars == <<input, phase, escape_count, idx, start, wire, rstate, content>>

CRLF == <<"CR", "LF">>
FinalDot == CRLF \o <<".">> \o CRLF

Phases == {"read", "encode", "final", "sent", "broken"}
LineStates == {"line", "text", "cr", "dot", "dotcr", "done"}

\* The count never reaches the arms the codec marks unreachable!(), and the slices
\* it takes of the frame are in bounds (a panic in the code otherwise).
TypeOK ==
    /\ message \in Messages
    /\ IsPrefix(frame, message)
    /\ phase \in Phases
    /\ escape_count \in 0 .. 2
    /\ idx \in 1 .. Len(frame) + 1
    /\ start \in 1 .. idx
    /\ wire \in Seq(Bytes)
    /\ rstate \in LineStates
    /\ content \in Seq(Bytes)

Init ==
    /\ message \in Messages
    /\ frame = <<>>
    /\ phase = "read"
    /\ escape_count = 0
    /\ idx = 1
    /\ start = 1
    /\ wire = <<>>
    /\ rstate = "line"
    /\ content = <<>>

-----------------------------------------------------------------------------
(* The client *)

\* poll_read of the Message returns some more bytes.
ReadChunk ==
    /\ phase = "read"
    /\ \E n \in Len(frame) + 1 .. Len(message) : frame' = SubSeq(message, 1, n)
    /\ UNCHANGED <<message, phase, escape_count, idx, start, wire, rstate, content>>

\* read_to_end returns once poll_read has none left.
ReadToEnd ==
    /\ phase = "read"
    /\ frame = message
    /\ phase' = "encode"
    /\ UNCHANGED <<input, escape_count, idx, start, wire, rstate, content>>

\* A mutant of Escape: an empty line hides the dot that follows it.
EscapeForgetsBlankLine(count, byte) ==
    CASE count = 0 /\ byte = "CR" -> 1
      [] count = 1 /\ byte = "LF" -> 2
      [] count = 2 /\ byte = "."  -> 3
      [] OTHER -> 0

\* The state machine of the codec: 1 after CR, 2 after CR LF, 3 on a dot to double.
Escape(count, byte) ==
    CASE count = 0 /\ byte = "CR" -> 1
      [] count = 1 /\ byte = "LF" -> 2
      [] count = 2 /\ byte = "."  -> 3
      [] count = 2 /\ byte = "CR" -> 1
      [] OTHER -> 0

WriteAll(bytes) == wire' = wire \o bytes

\* A mutant of EncodeByte: the slice that follows a doubled dot starts too late.
EncodeByteDotLost ==
    /\ phase = "encode"
    /\ idx <= Len(frame)
    /\ LET count == Escape(escape_count, frame[idx])
       IN  IF count = 3
             THEN /\ WriteAll(SubSeq(frame, start, idx - 1) \o <<".">>)
                  /\ start' = idx + 1
                  /\ escape_count' = 0
             ELSE /\ escape_count' = count
                  /\ UNCHANGED <<start, wire>>
    /\ idx' = idx + 1
    /\ UNCHANGED <<input, phase, rstate, content>>

\* A mutant of EncodeByte: the count is left at 3, the arm marked unreachable.
EncodeByteNoReset ==
    /\ phase = "encode"
    /\ idx <= Len(frame)
    /\ LET count == Escape(escape_count, frame[idx])
       IN  /\ escape_count' = count
           /\ IF count = 3
                THEN /\ WriteAll(SubSeq(frame, start, idx - 1) \o <<".">>)
                     /\ start' = idx
                ELSE UNCHANGED <<start, wire>>
    /\ idx' = idx + 1
    /\ UNCHANGED <<input, phase, rstate, content>>

\* One turn of the loop.
EncodeByte ==
    /\ phase = "encode"
    /\ idx <= Len(frame)
    /\ LET count == Escape(escape_count, frame[idx])
       IN  IF count = 3
             THEN /\ WriteAll(SubSeq(frame, start, idx - 1) \o <<".">>)
                  /\ start' = idx
                  /\ escape_count' = 0
             ELSE /\ escape_count' = count
                  /\ UNCHANGED <<start, wire>>
    /\ idx' = idx + 1
    /\ UNCHANGED <<input, phase, rstate, content>>

\* The end of `encode`.  A frame without bytes stands for the end of the data, and a
\* message without bytes is such a frame.
EncodeEnd ==
    /\ phase = "encode"
    /\ idx > Len(frame)
    /\ IF frame = <<>>
         THEN WriteAll(SubSeq(FinalDot, escape_count + 1, Len(FinalDot)))
         ELSE WriteAll(SubSeq(frame, start, Len(frame)))
    /\ escape_count' = IF frame = <<>> THEN 0 ELSE escape_count
    /\ start' = idx
    /\ phase' = "final"
    /\ UNCHANGED <<input, idx, rstate, content>>

\* `message` ends the data itself, whatever the codec has written.
WriteFinalDot ==
    /\ phase = "final"
    /\ WriteAll(FinalDot)
    /\ phase' = "sent"
    /\ UNCHANGED <<input, escape_count, idx, start, rstate, content>>

\* The reader of the message fails, the future is dropped at an await or the
\* connection breaks: the server gets a prefix of what was written.
Break ==
    /\ phase \in {"read", "encode", "final", "sent"}
    /\ phase' = "broken"
    /\ \E n \in 0 .. Len(wire) : wire' = SubSeq(wire, 1, n)
    /\ UNCHANGED <<input, escape_count, idx, start, rstate, content>>

-----------------------------------------------------------------------------
(* The server: a lone dot ends the data, another first dot is dropped *)

Keep(bytes) == content' = content \o bytes

\* The state a byte leads to inside a line.
InLine(byte) == IF byte = "CR" THEN "cr" ELSE "text"

Receive ==
    /\ rstate # "done"
    /\ wire # <<>>
    /\ wire' = Tail(wire)
    /\ LET byte == Head(wire)
       IN  \/ /\ rstate = "line" /\ byte = "."
              /\ rstate' = "dot" /\ UNCHANGED content
           \/ /\ rstate = "dot" /\ byte = "CR"
              /\ rstate' = "dotcr" /\ UNCHANGED content
           \/ /\ rstate = "dotcr" /\ byte = "LF"
              /\ rstate' = "done" /\ UNCHANGED content
           \/ /\ rstate = "dotcr" /\ byte # "LF"
              /\ rstate' = InLine(byte) /\ Keep(<<"CR", byte>>)
           \/ /\ rstate = "cr" /\ byte = "LF"
              /\ rstate' = "line" /\ Keep(<<byte>>)
           \/ /\ \/ rstate = "line" /\ byte # "."
                 \/ rstate = "dot" /\ byte # "CR"
                 \/ rstate = "cr" /\ byte # "LF"
                 \/ rstate = "text"
              /\ rstate' = InLine(byte) /\ Keep(<<byte>>)
    /\ UNCHANGED <<input, phase, escape_count, idx, start>>

-----------------------------------------------------------------------------

\* The server has taken the message, or will never have all of it.
Finished ==
    /\ phase \in {"sent", "broken"}
    /\ wire = <<>> \/ rstate = "done"
    /\ UNCHANGED vars

Next ==
    \/ ReadChunk \/ ReadToEnd
    \/ EncodeByte \/ EncodeEnd \/ WriteFinalDot
    \/ Break \/ Receive \/ Finished

Spec == Init /\ [][Next]_vars

-----------------------------------------------------------------------------
(* Properties *)

\* What the server takes is the message, byte for byte, and the line break that
\* `message` always writes before its dot (stream.rs:112): the doubled dots are gone
\* and no other byte is.  Until then it is a prefix of it.
Transparent ==
    /\ IsPrefix(content, message \o CRLF)
    /\ rstate = "done" => content = message \o CRLF

\* The server sees the end of the data when the client has written all of it and
\* at no other point: no line of the message ends it early, a message cut short
\* by an error is never taken, and nothing is left to be read as commands.  A
\* message without a byte ends twice (codec.rs:29, stream.rs:112); see SBody.
EndsOnce ==
  message # <<>> =>
    /\ rstate = "done" => phase \in {"sent", "broken"} /\ start > Len(message) /\ wire = <<>>
    /\ phase = "sent" /\ wire = <<>> => rstate = "done"

=============================================================================
