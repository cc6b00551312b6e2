----------------------------- MODULE PacketCodec -----------------------------
(***************************************************************************)
(* The remote-serial framing of the debug stub (packet.cpp).  A character *)
(* is its ASCII code.                                                      *)
(*                                                                         *)
(* Packet_encoder is an object local to encode(), so it is a pure          *)
(* function of its input: its push and push_repeat are operators folded   *)
(* over the string.  Packet_decoder lives in the Network_handler and is    *)
(* driven by get_packet_from_decoder (network.cpp), which, on the one      *)
(* network thread, reads a chunk from the socket and pushes it while no   *)
(* packet is available, then pops one: Push is its loop, and Receive is  *)
(* Network_handler::receive around it, ending in command::parse.         *)
(***************************************************************************)
EXTENDS Integers, Sequences, SequencesExt, Bitwise, Response

CONSTANTS
    MaxBuffer,  \* Packet_decoder::max_buffer_size (1048576 in the code)
    MaxChunk,   \* the most bytes one read_some returns to the model
    MaxRetry    \* Network_handler::max_retry_count (5 in the code)

ASSUME MaxBuffer \in Nat \ {0} /\ MaxChunk \in Nat \ {0} /\ MaxRetry \in Nat \ {0}

Dollar == 36
Hash   == 35
Brace  == 125
Star   == 42
Quote  == 34
Char   == 0..127

\* the hex digits std::isxdigit accepts, and their std::stoi(.., 16) value
HexVal == [c \in 48..57 |-> c - 48] @@ [c \in 97..102 |-> c - 87] @@ [c \in 65..70 |-> c - 55]
\* std::format("{:02x}")
LowerHex(v) == LET d(x) == IF x < 10 THEN 48 + x ELSE 87 + x
               IN <<d(v \div 16), d(v % 16)>>

\* a left fold over a sequence; each step's value is computed before the
\* next (TLC passes arguments unevaluated, and a chain of a hundred
\* pending steps, as SequencesExt's FoldLeft builds, exhausts its stack)
RECURSIVE FoldL(_, _, _)
FoldL(op(_, _), acc, s) ==
    IF s = <<>> THEN acc
    ELSE LET next == op(acc, Head(s))
         IN IF next = next THEN FoldL(op, next, Tail(s)) ELSE acc

\* algo::get_checksum: the u8 sum of the bytes
Checksum(s) == FoldL(LAMBDA acc, c : (acc + c) % 256, 0, s)

\* algo::remove_escape: "}" x stands for x ^ 0x20; a "}" at the end or
\* before another "}" makes the body malformed
RECURSIVE RemoveEscape(_)
RemoveEscape(s) ==
    IF s = <<>> THEN [ok |-> TRUE, data |-> <<>>]
    ELSE IF Head(s) # Brace
         THEN LET r == RemoveEscape(Tail(s))
              IN [r EXCEPT !.data = <<Head(s)>> \o @]
    ELSE IF Len(s) = 1 \/ s[2] = Brace THEN [ok |-> FALSE, data |-> <<>>]
    ELSE LET r == RemoveEscape(Tail(Tail(s)))
         IN [r EXCEPT !.data = <<s[2] ^^ 32>> \o @]

-----------------------------------------------------------------------------
(* Packet_encoder                                                          *)

EscapeChars == {Star, Dollar, Brace, Hash}
EncoderInit == [out |-> <<>>, last |-> 0, repeat |-> 0]

\* (mutant) push_repeat writing a run of 7 as "*" '"' and one character
PushRepeat7Short(e) ==
    IF e.repeat = 0 \/ e.last = 0 THEN e.out
    ELSE e.out \o CASE e.repeat <= 2 -> [i \in 1..e.repeat |-> e.last]
                    [] e.repeat = 6 -> <<Star, Quote, e.last>>
                    [] e.repeat = 7 -> <<Star, Quote, e.last>>
                    [] OTHER        -> <<Star, e.repeat + 29>>

\* push_repeat: the pending repeats of last_char, as the run-length rule
\* writes them
PushRepeat(e) ==
    IF e.repeat = 0 \/ e.last = 0 THEN e.out
    ELSE e.out \o CASE e.repeat <= 2 -> [i \in 1..e.repeat |-> e.last]
                    [] e.repeat = 6 -> <<Star, Quote, e.last>>
                    [] e.repeat = 7 -> <<Star, Quote, e.last, e.last>>
                    [] OTHER        -> <<Star, e.repeat + 29>>

\* push(c): a new character (or a full run) flushes the run and is
\* written, escaped if it is one of * $ } #; a repeat is only counted
EncoderPush(e, c) ==
    IF c = 0 THEN e
    ELSE IF c # e.last \/ e.repeat >= 126 - 29
         THEN [out    |-> PushRepeat(e) \o (IF c \in EscapeChars THEN <<Brace, c ^^ 32>> ELSE <<c>>),
               last   |-> c,
               repeat |-> 0]
    ELSE [e EXCEPT !.repeat = @ + 1]

\* encode / internal_encode: "$" body "#" checksum
Encode(str) == LET body == PushRepeat(FoldL(EncoderPush, EncoderInit, str))
               IN <<Dollar>> \o body \o <<Hash>> \o LowerHex(Checksum(body))

-----------------------------------------------------------------------------
(* Packet_decoder                                                          *)

\* what the out_queue holds: a string or an Error
Ok(s)   == [ok |-> TRUE, data |-> s, err |-> "none"]
Err(e)  == [ok |-> FALSE, data |-> <<>>, err |-> e]

\* decode_in_buffer: checksum characters, checksum, then the escapes
DecodeInBuffer(buf, ck) ==
    IF ~(\A i \in 1..2 : ck[i] \in DOMAIN HexVal) THEN Err("Bad_packet")
    ELSE IF HexVal[ck[1]] * 16 + HexVal[ck[2]] # Checksum(buf) THEN Err("Bad_checksum")
    ELSE LET r == RemoveEscape(buf)
         IN IF r.ok THEN Ok(r.data) ELSE Err("Bad_packet")

\* one character of push()'s loop; d is the decoder's state, push_result
\* appends to the queue and clears in_buffer
Emit(d, rs) == [d EXCEPT !.q = @ \o rs, !.buf = <<>>]
\* (mutant) ^C not among the tokens recognised outside a frame
IsTokenNoCtrlC(c) == c \in {Plus, Minus}
IsToken(c)  == c \in {Plus, Minus, CtrlC}
\* (mutant) the overflow test one character late
FullLate(buf) == Len(buf) > MaxBuffer
\* in_buffer.size() >= max_buffer_size
Full(buf)   == Len(buf) >= MaxBuffer

DecodeChar(d, c) ==
    CASE d.state = "Waiting_dollar" ->
           IF c = Dollar THEN [d EXCEPT !.state = "Receiving_body"]
           ELSE IF IsToken(c) THEN Emit(d, <<Ok(<<c>>)>>)
           ELSE d
      [] d.state = "Receiving_body" ->
           IF c = Hash THEN [d EXCEPT !.state = "Receiving_checksum1"]
           ELSE IF c = Dollar THEN [Emit(d, <<Err("Bad_packet")>>) EXCEPT !.state = "Receiving_body"]
           ELSE IF Full(d.buf)
                THEN [Emit(d, <<Err("Buffer_overflow")>>) EXCEPT !.state = "Waiting_dollar"]
           ELSE [d EXCEPT !.buf = Append(@, c)]
      [] d.state \in {"Receiving_checksum1", "Receiving_checksum2"} ->
           IF c = Dollar THEN [Emit(d, <<Err("Bad_packet")>>) EXCEPT !.state = "Receiving_body"]
           ELSE IF IsToken(c)
                THEN [Emit(d, <<Err("Bad_packet"), Ok(<<c>>)>>) EXCEPT !.state = "Waiting_dollar"]
           ELSE IF d.state = "Receiving_checksum1"
                THEN [d EXCEPT !.ck[1] = c, !.state = "Receiving_checksum2"]
           ELSE LET d1 == [d EXCEPT !.ck[2] = c]
                IN [Emit(d1, <<DecodeInBuffer(d1.buf, d1.ck)>>) EXCEPT !.state = "Waiting_dollar"]

\* push(new_input): every character of the chunk in turn
DecoderPush(d, chunk) == FoldL(DecodeChar, d, chunk)

DecoderInit == [state |-> "Waiting_dollar", buf |-> <<>>, ck |-> <<0, 0>>, q |-> <<>>]

-----------------------------------------------------------------------------
(* get_packet_from_decoder over one connection                             *)

CONSTANTS
    Streams,    \* what GDB may write to the socket
    Responses   \* the responses the stub may send

VARIABLES
    sent,   \* the bytes GDB wrote
    pos,    \* how many of them read_some has returned
    dec,    \* the Packet_decoder: state, in_buffer, checksum_buffer, out_queue
    got,    \* the results pop_packet has returned, in order
    recv,   \* for each of them, what receive() wrote back and returned
    naks,   \* the NAKs the current receive() call has sent
    reply,  \* the response send() encoded (NoReply before)
    wrote   \* the frame send() wrote to the socket

NoReply == [kind |-> "none"]

pvars == <<sent, pos, dec, got, recv, naks, reply, wrote>>

DecStates == {"Waiting_dollar", "Receiving_body", "Receiving_checksum1", "Receiving_checksum2"}
IsResult(r) == r.data \in Seq(Char) /\ r.err \in IF r.ok THEN {"none"} ELSE {"Bad_packet", "Bad_checksum", "Buffer_overflow"}

DecoderTypeOK ==
    /\ sent \in Streams /\ pos \in 0..Len(sent)
    /\ dec.state \in DecStates
    /\ dec.buf \in Seq(Char) /\ Len(dec.buf) <= MaxBuffer
    /\ \A i \in DOMAIN dec.q : IsResult(dec.q[i])
    /\ \A i \in DOMAIN got : IsResult(got[i])
    /\ Len(recv) = Len(got)
    /\ \A i \in DOMAIN recv :
         /\ recv[i].ack \in {"+", "-", "none"}
         /\ recv[i].ret.cmd \in {"Decode_fail", "Connection_fault", "retry", "Protocol_fail"}
            \/ IsCommand(recv[i].ret)
    /\ naks \in 0..MaxRetry - 1
    /\ reply \in Responses \cup {NoReply} /\ wrote \in Seq(Char)

PInit == /\ sent \in Streams /\ pos = 0 /\ dec = DecoderInit /\ got = <<>>
         /\ recv = <<>> /\ naks = 0
         /\ reply = NoReply /\ wrote = <<>>

\* while (!new_packet_available()): read_some, then push what it returned
Push ==
    /\ dec.q = <<>>
    /\ \E k \in 1..MaxChunk :
         /\ pos + k <= Len(sent)
         /\ dec' = DecoderPush(dec, SubSeq(sent, pos + 1, pos + k))
         /\ pos' = pos + k
    /\ UNCHANGED <<sent, got, recv, naks, reply, wrote>>

\* pop_packet: take the oldest result off out_queue
PopPacket(d) == [d EXCEPT !.q = Tail(@)]

\* what one popped result makes receive() do: a Bad_packet or Bad_checksum
\* is Protocol_retry, answered with "-" and retried, and after the last
\* retry the call returns Protocol_fail; Buffer_overflow is Protocol_fail
\* at once; a packet is acknowledged with "+" and parsed, an empty parse
\* being Decode_fail and an exception out of parse a closed connection
IsRetry(r) == ~r.ok /\ r.err \in {"Bad_packet", "Bad_checksum"}
ReceiveOutcomes(r, n) ==
    CASE r.ok -> {[ack |-> "+",
                   ret |-> CASE c = Fail  -> [cmd |-> "Decode_fail"]
                             [] c = Throw -> [cmd |-> "Connection_fault"]
                             [] OTHER     -> c] : c \in Parse(r.data)}
      [] IsRetry(r) /\ n + 1 < MaxRetry -> {[ack |-> "-", ret |-> [cmd |-> "retry"]]}
      [] IsRetry(r) -> {[ack |-> "-", ret |-> [cmd |-> "Protocol_fail"]]}
      [] OTHER      -> {[ack |-> "none", ret |-> [cmd |-> "Protocol_fail"]]}

\* one pass of receive()'s retry loop, once a packet is available:
\* pop_packet, the reply, and parse or the retry count
Receive ==
    /\ dec.q # <<>>
    /\ got' = Append(got, Head(dec.q))
    /\ dec' = PopPacket(dec)
    /\ \E o \in ReceiveOutcomes(Head(dec.q), naks) : recv' = Append(recv, o)
    /\ naks' = IF IsRetry(Head(dec.q)) /\ naks + 1 < MaxRetry THEN naks + 1 ELSE 0
    /\ UNCHANGED <<sent, pos, reply, wrote>>

\* send(response), step 1, once the request is handled: encode the
\* response and write the frame
Send ==
    /\ pos = Len(sent) /\ dec.q = <<>> /\ wrote = <<>>
    /\ \E r \in Responses : reply' = r /\ wrote' = Encode(To_string(r))
    /\ UNCHANGED <<sent, pos, dec, got, recv, naks>>

PNext == Push \/ Receive \/ Send

PSpec == PInit /\ [][PNext]_pvars
==============================================================================
