----------------------------- MODULE DotReader -----------------------------
(***************************************************************************)
(* The reader of the DATA command (internal/smtpsrv/dotreader.go): one step  *)
(* per byte that arrives, until the line with a single dot, a bad line end,  *)
(* or the end of the connection.                                             *)
(***************************************************************************)
EXTENDS Integers, Sequences, SequencesExt

CONSTANTS MaxBytes,   \* bound on the bytes that one run reads
          MaxSize       \* the parameter max of readUntilDot

ASSUME DotReaderAssumption == MaxBytes \in Nat /\ MaxSize \in Nat

VARIABLES in,     \* the bytes taken from the connection; n is Len(in)
          buf,    \* the message read so far
          prev,   \* "other", "CR" or "CRLF"
          got     \* "reading", or the result

dotVars == <<in, buf, prev, got>>

\* The bytes that readUntilDot tells apart.
CR == "r"
LF == "n"
Dot == "."
Byte == {CR, LF, Dot, "x"}
Results == {"message", "too large", "line ending", "eof", "i/o error"}

DotInit == in = <<>> /\ buf = <<>> /\ prev = "CRLF" /\ got = "reading"

----------------------------------------------------------------------------
\* The last bytes before this one, which the code keeps apart in last4.
Before(k) == SubSeq(in, Len(in) - k + 1, Len(in))

Lonely(b) == IF b = LF THEN prev # "CR" ELSE prev = "CR"

\* "\r\n.\r", or ".\r" as the first bytes, come before this LF.
\* Mutant: a final dot is also seen in the middle of a line.
Final_AnyDot == Len(in) >= 2 /\ Before(2) = <<Dot, CR>>
Final == \/ Len(in) >= 4 /\ Before(4) = <<CR, LF, Dot, CR>>
         \/ in = <<Dot, CR>>

Skipped(b) == b = CR \/ (b = Dot /\ prev = "CRLF")

After(b) == IF b = CR THEN "CR" ELSE IF b = LF THEN "CRLF" ELSE "other"

ReadByte(b) ==
    /\ got = "reading" /\ Len(in) < MaxBytes
    /\ in' = Append(in, b)
    /\ \/ Lonely(b) /\ got' = "line ending" /\ UNCHANGED <<buf, prev>>
       \/ /\ ~Lonely(b) /\ b = LF /\ Final
          /\ got' = IF Len(in) + 1 > MaxSize /\ Len(in) # 2
                    THEN "too large" ELSE "message"
          /\ UNCHANGED <<buf, prev>>
       \/ /\ ~Lonely(b) /\ ~(b = LF /\ Final)
          /\ prev' = After(b)
          /\ buf' = IF Len(buf) < MaxSize /\ ~Skipped(b)
                    THEN Append(buf, b) ELSE buf
          /\ UNCHANGED got

\* The client hangs up, or the deadline of the connection passes.
NoByte == /\ got = "reading" /\ got' \in {"eof", "i/o error"}
          /\ UNCHANGED <<in, buf, prev>>

DotNext == NoByte \/ \E b \in Byte : ReadByte(b)

DotSpec == DotInit /\ [][DotNext]_dotVars

----------------------------------------------------------------------------
\* What RFC 5321 says of the bytes s of a message, without a state machine.
Clean(s) == \A i \in DOMAIN s :
               /\ s[i] = LF => i > 1 /\ s[i-1] = CR
               /\ i > 1 /\ s[i-1] = CR => s[i] = LF

Complete(s) == \/ s = <<Dot, CR, LF>>
               \/ Clean(s) /\ IsSuffix(<<CR, LF, Dot, CR, LF>>, s)

LineStart(s, i) == i = 1 \/ s[i-1] = LF

\* The text of the message: the lines without the dots that stuffing added,
\* ended by LF.
Text(s) ==
    FoldLeft(LAMBDA t, i : IF s[i] = CR \/ (s[i] = Dot /\ LineStart(s, i))
                           THEN t ELSE Append(t, s[i]),
             <<>>, [i \in 1..(Len(s) - 3) |-> i])

\* How a client writes the lines of text t (as textproto.DotWriter does).
Wire(t) == FoldLeft(LAMBDA w, b :
                      IF b = LF THEN w \o <<CR, LF>>
                      ELSE IF b = Dot /\ (w = <<>> \/ w[Len(w)] = LF)
                           THEN w \o <<Dot, Dot>> ELSE Append(w, b),
                    <<>>, t) \o <<Dot, CR, LF>>

\* Every line of s that starts with a dot starts with two, but the final one.
Stuffed(s) == \A i \in 1..(Len(s) - 3) :
                 s[i] = Dot /\ LineStart(s, i) => s[i+1] = Dot

----------------------------------------------------------------------------
(* A message ends at the first final dot and nowhere else: while reading no  *)
(* prefix is complete, a result comes with the byte that completes it, so    *)
(* the next command is read from the byte after it even when the message is  *)
(* too large, and what is returned is the text of the message, cut at max.   *)
(* A message with stuffed dots that fits is, written again, the same bytes.  *)
MessageExact ==
    /\ \A k \in 1..(Len(in) - 1) : ~Complete(SubSeq(in, 1, k))
    /\ got = "reading" => Clean(in \o (IF prev = "CR" THEN <<LF>> ELSE <<>>)) /\ ~Complete(in)
    /\ got \in {"message", "too large"} =>
          /\ Complete(in)
          /\ buf = SubSeq(Text(in), 1, Min({Len(Text(in)), MaxSize}))
    /\ got = "line ending" => ~Clean(in)
    /\ got = "message" /\ Stuffed(in) => Wire(buf) = in
============================================================================
