------------------------------ MODULE MCPacket ------------------------------
(***************************************************************************)
(* PacketCodec for TLC.  The other side is GDB, modelled from the remote   *)
(* protocol it speaks: what it writes to the stub (framed packets with    *)
(* $ # } * escaped, acknowledgements, ^C, and the damaged frames a         *)
(* dropped or noisy link leaves) and how it reads the stub's replies      *)
(* (escapes undone, "*" runs expanded, the checksum verified).             *)
(***************************************************************************)
EXTENDS PacketCodec, TLC

\* an in_buffer of 17 bytes (the longest command body) stands for the
\* 1 MiB one; one read_some returns 1 to 3 bytes; two damaged frames in
\* a row exhaust the retries (5 in the code); a u32 is 16 bits
MCMaxBuffer == 17
MCMaxChunk == 3
MCMaxRetry == 2
MCWordLimit == 2^16

a == 97
z == 122
zero == 48

\* GDB's escaping of a packet body, and the frame it writes
GdbEscape(b) == FoldL(LAMBDA acc, c : acc \o (IF c \in EscapeChars THEN <<Brace, c ^^ 32>> ELSE <<c>>), <<>>, b)
Frame(b)     == LET e == GdbEscape(b) IN <<Dollar>> \o e \o <<Hash>> \o LowerHex(Checksum(e))

\* the bodies GDB sends: empty, and two that need escapes
Bodies == {<<>>, <<a, Hash>>, <<Brace, Star, Dollar>>}

\* a unit of traffic and the results the stub should pop for it
Tok(w, r) == [wire |-> w, expect |-> r]
Tokens ==
    {Tok(Frame(b), <<Ok(b)>>) : b \in Bodies}
    \cup {Tok(<<t>>, <<Ok(<<t>>)>>) : t \in {Plus, Minus, CtrlC}}
    \cup { Tok(<<Dollar, a, Hash, zero, zero>>, <<Err("Bad_checksum")>>),          \* damaged body
           Tok(<<Dollar, a, Hash, z, z>>, <<Err("Bad_packet")>>),                  \* damaged checksum
           Tok(<<Dollar, Brace, Brace, Hash>> \o LowerHex(250), <<Err("Bad_packet")>>),
           Tok(<<Dollar>> \o [i \in 1..MCMaxBuffer + 1 |-> a] \o <<Hash, a, zero>>,
               <<Err("Buffer_overflow")>>),
           Tok(<<Dollar, a, Hash, Plus>>, <<Err("Bad_packet"), Ok(<<Plus>>)>>),
           Tok(<<Dollar, a, Hash, zero, Minus>>, <<Err("Bad_packet"), Ok(<<Minus>>)>>) }
    \* a frame cut off (the link dropped) and the next frame GDB sends
    \cup {Tok(cut \o Frame(<<a, Hash>>), <<Err("Bad_packet"), Ok(<<a, Hash>>)>>) :
            cut \in {<<Dollar, a>>, <<Dollar, a, Hash>>, <<Dollar, a, Hash, zero>>}}

-----------------------------------------------------------------------------
(* GDB writing commands (the remote protocol's packet shapes, numbers in  *)
(* hex without leading zeros, register values as spec 4.11 states them:  *)
(* eight digits, most significant first)                                  *)

HexChar(d) == IF d < 10 THEN 48 + d ELSE 87 + d
RECURSIVE HexOf(_)
HexOf(v) == IF v < 16 THEN <<HexChar(v)>> ELSE HexOf(v \div 16) \o <<HexChar(v % 16)>>
Fixed(v, n) == [i \in 1..n |-> HexChar((v \div 16^(n - i)) % 16)]
Bytes(bs) == FoldL(LAMBDA acc, b : acc \o Fixed(b, 2), <<>>, bs)
Pair(x, y) == HexOf(x) \o <<Comma>> \o HexOf(y)
Opt(v) == IF v = Nullopt THEN <<>> ELSE HexOf(v)
KindOf(c) == IF c.cmd \in {"Add_breakpoint", "Remove_breakpoint"}
             THEN IF c.hw THEN Kind[1] ELSE Kind[0]
             ELSE IF c.watch.read /\ c.watch.write THEN Kind[4]
             ELSE IF c.watch.read THEN Kind[3] ELSE Kind[2]
Feature(n, st) == n \o CASE st.property = "Supported"   -> <<Plus>>
                         [] st.property = "Unsupported" -> <<Minus>>
                         [] st.property = "Unknown"     -> <<Query>>
                         [] st.property = "Value"       -> <<Equal>> \o st.value
Joined(seqs) == FoldL(LAMBDA acc, x : IF acc = <<>> THEN x ELSE acc \o <<Semi>> \o x, <<>>, seqs)
Single == [c \in DOMAIN SingleChar |-> SingleChar[c].cmd]

GdbFormat(c) ==
    CASE c.cmd \in {Single[k] : k \in DOMAIN Single} -> <<CHOOSE k \in DOMAIN Single : SingleChar[k] = c>>
      [] c.cmd = "Continue"         -> <<Ch.c>> \o Opt(c.addr)
      [] c.cmd = "Step_single_inst" -> <<Ch.s>> \o Opt(c.addr)
      [] c.cmd = "Step_cycles"      -> <<Ch.i>> \o Opt(c.addr)
                                       \o (IF c.count = Nullopt THEN <<>> ELSE <<Comma>> \o HexOf(c.count))
      [] c.cmd = "Read_memory"      -> <<Ch.m>> \o Pair(c.addr, c.len)
      [] c.cmd = "Write_memory"     -> <<Ch.M>> \o Pair(c.addr, Len(c.data)) \o <<Colon>> \o Bytes(c.data)
      [] c.cmd = "Read_single_register"  -> <<Ch.p>> \o HexOf(c.regno)
      [] c.cmd = "Write_single_register" -> <<Ch.P>> \o HexOf(c.regno) \o <<Equal>> \o Fixed(c.value, 8)
      [] c.cmd = "Write_register" ->
           <<Ch.G>> \o FoldL(LAMBDA acc, r : acc \o (IF r \in DOMAIN c.values THEN Fixed(c.values[r], 8)
                                                   ELSE [j \in 1..8 |-> Ch.x]),
                             <<>>, [k \in 1..Max(DOMAIN c.values) + 1 |-> k - 1])
      [] c.cmd = "Query_supported" ->
           <<Ch.q>> \o SupportedName \o <<Colon>>
           \o Joined([k \in 1..Cardinality(DOMAIN c.features) |->
                        LET n == SetToSortSeq(DOMAIN c.features, LAMBDA x, y : x[1] < y[1])[k]
                        IN Feature(n, c.features[n])])
      [] c.cmd = "Read_feature_xml" ->
           <<Ch.q>> \o XferName \o <<Colon>> \o FeaturesRead \o <<Colon>> \o c.annex \o <<Colon>> \o Pair(c.offset, c.len)
      [] c.cmd = "Read_memory_map_xml" ->
           <<Ch.q>> \o XferName \o <<Colon>> \o MemMapRead \o <<Colon, Colon>> \o Pair(c.offset, c.len)
      [] c.cmd \in {"Add_breakpoint", "Add_watchpoint"} ->
           <<Ch.Z, KindOf(c), Comma>> \o Pair(c.addr, c.len)
           \o (IF c.cmd = "Add_breakpoint" /\ c.cond # Nullopt
               THEN <<Semi, Ch.X>> \o HexOf(Len(c.cond)) \o <<Comma>> \o Bytes(c.cond) ELSE <<>>)
      [] c.cmd \in {"Remove_breakpoint", "Remove_watchpoint"} ->
           <<Ch.z, KindOf(c), Comma>> \o Pair(c.addr, c.len)

\* the commands GDB sends: every parser and every optional part
W(r, w) == [read |-> r, write |-> w]
GdbCommands ==
    {SingleChar[k] : k \in {Bang, Query, Ch.g, Ch.k}}
    \cup {[cmd |-> n, addr |-> ad] : n \in {"Continue", "Step_single_inst"}, ad \in {Nullopt, 31}}
    \cup {[cmd |-> "Step_cycles", addr |-> ad, count |-> n] : <<ad, n>> \in {<<Nullopt, Nullopt>>, <<4, Nullopt>>, <<4, 2>>}}
    \cup { [cmd |-> "Read_memory", addr |-> 31, len |-> 4],
           [cmd |-> "Write_memory", addr |-> 4, data |-> <<161, 178>>],
           [cmd |-> "Read_single_register", regno |-> 32],
           [cmd |-> "Write_single_register", regno |-> 1, value |-> 43981],
           [cmd |-> "Write_register", values |-> (1 :> 10)],
           [cmd |-> "Query_supported", features |-> (<<97>> :> [property |-> "Supported", value |-> Nullopt]
                                        @@ <<98>> :> [property |-> "Value", value |-> <<99>>]
                                        @@ <<100>> :> [property |-> "Unsupported", value |-> Nullopt])],
           [cmd |-> "Read_feature_xml", annex |-> <<116>>, offset |-> 0, len |-> 255],
           [cmd |-> "Read_memory_map_xml", offset |-> 16, len |-> 255],
           [cmd |-> "Add_breakpoint", hw |-> TRUE, addr |-> 4, len |-> 2, cond |-> <<34, 1>>],
           [cmd |-> "Add_breakpoint", hw |-> FALSE, addr |-> 4, len |-> 2, cond |-> Nullopt],
           [cmd |-> "Remove_breakpoint", hw |-> TRUE, addr |-> 4, len |-> 2],
           [cmd |-> "Add_watchpoint", watch |-> W(FALSE, TRUE), addr |-> 8, len |-> 4],
           [cmd |-> "Add_watchpoint", watch |-> W(TRUE, TRUE), addr |-> 8, len |-> 4],
           [cmd |-> "Remove_watchpoint", watch |-> W(TRUE, FALSE), addr |-> 8, len |-> 4] }

\* what GDB means by each body it writes: its commands, the acknowledgement
\* and interrupt tokens; any other body is no command at all
Meaning == [b \in {GdbFormat(c) : c \in GdbCommands} |-> CHOOSE c \in GdbCommands : GdbFormat(c) = b]
           @@ [b \in {<<Plus>>, <<Minus>>, <<CtrlC>>} |-> SingleChar[b[1]]]
Means(b) == IF b \in DOMAIN Meaning THEN Meaning[b] ELSE [cmd |-> "Decode_fail"]

\* each command framed alone, and after a frame cut off by a dropped link
CommandTokens == {Tok(Frame(GdbFormat(c)), <<Ok(GdbFormat(c))>>) : c \in GdbCommands}
MCTraffic == {<<t1, t2>> : t1, t2 \in Tokens} \cup {<<t>> : t \in CommandTokens}
Wire(ts)   == FoldL(LAMBDA acc, t : acc \o t.wire, <<>>, ts)
Expect(ts) == FoldL(LAMBDA acc, t : acc \o t.expect, <<>>, ts)
MCStreams  == {Wire(ts) : ts \in MCTraffic}
\* the results each stream should give, computed once
Expected   == {<<Wire(ts), Expect(ts)>> : ts \in MCTraffic}

\* The stub's decoder, fed GDB's traffic in chunks of any size, returns
\* from pop_packet exactly the packets, acknowledgements, ^Cs and errors
\* that traffic carries, in order: every result so far is a prefix of
\* them, and once every byte is read and the queue drained it is all of
\* them.  It needs push's state machine to resynchronise on "$" in every
\* state, decode_in_buffer to test hex, checksum and escapes in that
\* order, and the overflow reset.
DecodeFaithful ==
    \E e \in Expected :
        /\ e[1] = sent
        /\ IsPrefix(got, e[2])
        /\ (pos = Len(sent) /\ dec.q = <<>>) => got = e[2]

\* The stub acts on exactly what GDB asked for: every packet the decoder
\* delivers intact is acknowledged with "+" and received as the command
\* GDB formatted, the acknowledgement or interrupt it sent, or, for a body
\* that is no command, Decode_fail.  It takes receive()'s order (ack, then
\* parse), parse's dispatch on the first character, and every parser's
\* splitting, hex conversion, length checks and kind tables to agree with
\* the protocol's packet shapes.
ReceiveFaithful ==
    \A i \in DOMAIN recv :
        got[i].ok => recv[i] = [ack |-> "+", ret |-> Means(got[i].data)]

-----------------------------------------------------------------------------
(* GDB reading a reply frame                                               *)

\* GDB's read_frame after the "$": "#" ends the body and is followed by
\* the two checksum digits; "}" x stands for x ^ 0x20; "*" n repeats the
\* previous character n - 29 more times (n is read raw, and a count
\* outside 1..255 or with nothing before it is an error); csum sums every
\* byte between "$" and "#"
RECURSIVE ReadFrame(_, _, _)
ReadFrame(s, out, csum) ==
    IF s = <<>> THEN Err("Bad_packet")
    ELSE LET c == Head(s)
             sum2 == IF Len(s) >= 2 THEN (csum + c + s[2]) % 256 ELSE 0
         IN CASE c = Hash ->
                   IF Len(s) = 3 /\ LowerHex(csum) = Tail(s) THEN Ok(out) ELSE Err("Bad_packet")
              [] c = Star /\ Len(s) >= 2 /\ out # <<>> /\ s[2] - 29 \in 1..255 ->
                   ReadFrame(Tail(Tail(s)), out \o [i \in 1..s[2] - 29 |-> out[Len(out)]], sum2)
              [] c = Star -> Err("Bad_packet")
              [] c = Brace /\ Len(s) >= 2 ->
                   ReadFrame(Tail(Tail(s)), Append(out, s[2] ^^ 32), sum2)
              [] OTHER -> ReadFrame(Tail(s), Append(out, c), (csum + c) % 256)

\* what GDB's getpkt makes of a reply frame the stub writes
GdbRead(f) == IF f # <<>> /\ Head(f) = Dollar THEN ReadFrame(Tail(f), <<>>, 0) ELSE Err("Bad_packet")

\* bodies the stub encodes: short strings of two letters, and runs around
\* the run-length boundaries (4, 6, 7, 97 and the flush at 98) and those
\* whose count character is "+" (15), "-" (17) or "}" (97)
Run(c, n) == [i \in 1..n |-> c]
MCReplies == SeqOf({a, zero}, 5)
             \cup {Run(zero, n) : n \in {6, 7, 8, 15, 17, 96, 97, 98, 99}}
             \cup {<<a>> \o Run(zero, n) \o <<a>> : n \in {4, 6, 7, 98}}
\* bodies holding the characters the encoder escapes, never twice in a
\* row (a repeated one is written raw: see the README's findings)
MCEscReplies == {<<Hash>>, <<a, Hash, a>>, <<Hash, a, Star>>, <<Brace, Dollar>>}

\* the responses the stub sends: qXfer slices carry raw bytes, so they
\* carry the bodies above; and one or more of every other Response
\* (register values have bytes below 0x80, as a word of TLC stays below 2^31)
MCQsupported == <<113, 88, Plus>>
Slice(done, d) == [kind |-> "Qxfer_response", completed |-> done, data |-> d]
MCResponses ==
    {Slice(TRUE, d) : d \in MCReplies} \cup {Slice(FALSE, d) : d \in MCEscReplies}
    \cup { [kind |-> "OK"], [kind |-> "Unsupported_command"], [kind |-> "Qsupported_response"],
           [kind |-> "Error_code", code |-> 0], [kind |-> "Error_code", code |-> 31],
           [kind |-> "Error_message", message |-> <<110, 111>>],
           [kind |-> "Single_register_content", value |-> Nullopt],
           [kind |-> "Single_register_content", value |-> 13398],
           [kind |-> "Register_content", reg_values |-> <<18, Nullopt, 13398>>],
           [kind |-> "Raw_byte_stream", data |-> <<>>],
           [kind |-> "Raw_byte_stream", data |-> <<18, 0, 171>>],
           StopSignal(SIGINT), StopSignal(SIGTRAP), StopBreak(TRUE), StopBreak(FALSE),
           StopWatch(64, TRUE, FALSE), StopWatch(28, FALSE, TRUE), StopWatch(8, TRUE, TRUE) }

-----------------------------------------------------------------------------
(* GDB interpreting a reply body, knowing what it asked for               *)

GdbDigit == [c \in 48..57 |-> c - 48] @@ [c \in 97..102 |-> c - 87]
IsHexText(s) == s # <<>> /\ \A i \in DOMAIN s : s[i] \in DOMAIN GdbDigit
GdbNum(s) == FoldL(LAMBDA acc, c : acc * 16 + GdbDigit[c], 0, s)
GdbBytes(s) == [k \in 1..Len(s) \div 2 |-> GdbNum(SubSeq(s, 2 * k - 1, 2 * k))]
\* a register in target (little-endian) byte order, as g replies carry it
GdbTargetWord(s) == FoldL(LAMBDA acc, b : acc * 256 + b, 0, Reverse(GdbBytes(s)))
GdbSlot(s, k) == SubSeq(s, 8 * k - 7, 8 * k)
IsUnavailable(s) == s = [i \in 1..8 |-> Ch.x]

\* a stop reply "T" sig [name ":" value ";"]
GdbStop(b) ==
    LET rest == SubSeq(b, 4, Len(b))
        col  == SelectInSeq(rest, LAMBDA c : c = Colon)
        name == SubSeq(rest, 1, col - 1)
        val  == SubSeq(rest, col + 1, Len(rest) - 1)
        hit  == CASE rest = <<>> -> [type |-> "none"]
                  [] col = 0 \/ rest[Len(rest)] # Semi -> [type |-> "garbled"]
                  [] name \in {<<104, 119>>, <<115, 119>>} /\ val = <<>> ->
                       [type |-> "break", is_hardware |-> name = <<104, 119>>]
                  [] name \in {<<97, 119>>, <<114, 119>>, <<119>>} /\ IsHexText(val) ->
                       [type |-> "watch", address |-> GdbNum(val),
                        is_write |-> name # <<114, 119>>, is_read |-> name # <<119>>]
                  [] OTHER -> [type |-> "garbled"]
    IN [kind |-> "Stop_reason", signal |-> GdbNum(SubSeq(b, 2, 3)), hit |-> hit]

\* what a reply body tells GDB after a request of class q: "" is an
\* unsupported request, "E." a message and "E" two digits an error code
\* whatever was asked; "p" is read as spec 4.12 states it (eight digits,
\* most significant first)
GdbReply(q, b) ==
    CASE b = <<>> -> [kind |-> "Unsupported_command"]
      [] Len(b) >= 2 /\ b[1] = 69 /\ b[2] = 46 -> [kind |-> "Error_message", message |-> SubSeq(b, 3, Len(b))]
      [] Len(b) = 3 /\ b[1] = 69 /\ IsHexText(Tail(b)) -> [kind |-> "Error_code", code |-> GdbNum(Tail(b))]
      [] q = "ack" /\ b = <<79, 75>> -> [kind |-> "OK"]
      [] q = "m" /\ IsHexText(b) /\ Len(b) % 2 = 0 -> [kind |-> "Raw_byte_stream", data |-> GdbBytes(b)]
      [] q = "g" /\ Len(b) % 8 = 0 ->
           [kind |-> "Register_content",
            reg_values |-> [k \in 1..Len(b) \div 8 |->
                              IF IsUnavailable(GdbSlot(b, k)) THEN Nullopt ELSE GdbTargetWord(GdbSlot(b, k))]]
      [] q = "p" /\ Len(b) = 8 ->
           [kind |-> "Single_register_content", value |-> IF IsUnavailable(b) THEN Nullopt ELSE GdbNum(b)]
      [] q = "stop" /\ Len(b) >= 3 /\ b[1] = 84 -> GdbStop(b)
      [] q = "qxfer" /\ b[1] \in {108, Ch.m} -> Slice(b[1] = 108, Tail(b))
      [] q = "qsupported" /\ b = MCQsupported -> [kind |-> "Qsupported_response"]
      [] OTHER -> [kind |-> "garbled"]

\* the requests emulator-debug answers with each response
ReplyTo(r) ==
    CASE r.kind \in {"OK", "Error_code", "Unsupported_command"} -> {"ack"}
      [] r.kind = "Error_message"           -> {"ack", "qxfer"}
      [] r.kind = "Raw_byte_stream"         -> {"m"}
      [] r.kind = "Register_content"        -> {"g"}
      [] r.kind = "Single_register_content" -> {"p"}
      [] r.kind = "Stop_reason"             -> {"stop"}
      [] r.kind = "Qxfer_response"          -> {"qxfer"}
      [] r.kind = "Qsupported_response"     -> {"qsupported"}
\* an m read whose first word fails has no bytes: "E00", an error (4.12)
Intended(r) == IF r.kind = "Raw_byte_stream" /\ r.data = <<>> THEN [kind |-> "Error_code", code |-> 0] ELSE r

\* Packet_encoder::encode is undone by GDB's reader: for every reply, the
\* frame the stub writes is read back by GDB as exactly the body
\* to_string made (spec 4.10: a run of n <= 97 characters re-expands to n
\* characters).  It takes push's run counting, push_repeat's special cases
\* for 6 and 7 and the flush at 97, and the escapes, to agree.  (A frame
\* is never empty, so wrote = <<>> means nothing was sent yet.)
EncodeRoundTrip == wrote # <<>> => GdbRead(wrote) = Ok(To_string(reply))

\* GDB understands every reply as the response the stub meant: the frame
\* send() writes, read by GDB and interpreted for the request it answers,
\* gives back the response's values: the byte-swapped register slots of
\* g, the hit kind and address of a stop, the completion flag of a qXfer
\* slice.  It takes to_string's conversions and encode together to agree
\* with the protocol's reading of them.
ReplyReadBack ==
    wrote # <<>> =>
        \A q \in ReplyTo(reply) : GdbReply(q, GdbRead(wrote).data) = Intended(reply)
==============================================================================
