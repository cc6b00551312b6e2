------------------------------ MODULE Response ------------------------------
(***************************************************************************)
(* The stub's replies, gdb_stub::response (response.hpp, response.cpp):   *)
(* each Response subclass as a record with a "kind" field and its         *)
(* members, and to_string as To_string, the unescaped body that            *)
(* Network_handler::send hands to Packet_encoder::encode.  Characters are *)
(* codes, as in Command; std::format's hex conversions are modelled by   *)
(* what they produce.                                                     *)
(***************************************************************************)
EXTENDS Integers, Sequences, SequencesExt, Command

CONSTANT QsupportedString   \* the feature list of stub-feature.inc

\* std::format("{:x}"): lowercase hex without leading zeros
HexDigitChar(d) == IF d < 10 THEN Digit(d) ELSE 87 + d
RECURSIVE FormatHex(_)
FormatHex(v) == IF v < 16 THEN <<HexDigitChar(v)>>
                ELSE FormatHex(v \div 16) \o <<HexDigitChar(v % 16)>>
\* std::format("{:0wx}"): at least w digits, zero-padded
FormatHexW(v, w) == LET h == FormatHex(v)
                    IN [i \in 1..Max({w - Len(h), 0}) |-> Digit(0)] \o h

Unavailable == [i \in 1..8 |-> Ch.x]      \* "xxxxxxxx"

\* std::format("{:08x}", std::byteswap(v)): the four bytes of v, least
\* significant first, each as two digits; the same as the eight digits of
\* v with its byte pairs in reverse order
ByteSwapped(s) == [i \in 1..8 |-> s[7 - 2 * ((i - 1) \div 2) + ((i - 1) % 2)]]

\* Single_register_content::to_string: eight digits, no byte swap
SingleRegisterString(v) == IF v = Nullopt THEN Unavailable ELSE FormatHexW(v, 8)

\* mutant: the slots written without the byte swap
RegisterStringNoSwap(vs) ==
    FoldLeft(LAMBDA acc, v : acc \o (IF v = Nullopt THEN Unavailable ELSE FormatHexW(v, 8)), <<>>, vs)

\* Register_content::to_string: every slot byte-swapped, joined
RegisterString(vs) ==
    FoldLeft(LAMBDA acc, v : acc \o (IF v = Nullopt THEN Unavailable
                                     ELSE ByteSwapped(FormatHexW(v, 8))),
             <<>>, vs)

\* Raw_byte_stream::to_string: two digits a byte, "E00" for no bytes
RawString(data) ==
    IF data = <<>> THEN <<69, Digit(0), Digit(0)>>
    ELSE FoldLeft(LAMBDA acc, b : acc \o FormatHexW(b, 2), <<>>, data)

\* Stop_reason::parse_hit_string for each alternative of the variant
WatchName == [awatch |-> <<97, 119>>, rwatch |-> <<114, 119>>, watch |-> <<119>>]
HitString(h) ==
    CASE h.type = "none"  -> <<>>
      [] h.type = "break" -> (IF h.is_hardware THEN <<104, 119>> ELSE <<115, 119>>) \o <<Colon, Semi>>
      [] h.type = "watch" ->
           LET n == IF h.is_read /\ h.is_write THEN WatchName.awatch
                    ELSE IF h.is_read THEN WatchName.rwatch
                    ELSE IF h.is_write THEN WatchName.watch
                    ELSE <<>>
           IN IF n = <<>> THEN <<>> ELSE n \o <<Colon>> \o FormatHex(h.address) \o <<Semi>>

\* Stop_reason::to_string: "T", the signal in two digits, the hit
StopString(r) == <<84>> \o FormatHexW(r.signal, 2) \o HitString(r.hit)

\* Qxfer_response::to_string: "l" for the last slice, else "m", then the
\* raw bytes
QxferString(completed, data) == <<IF completed THEN 108 ELSE Ch.m>> \o data

\* Response::to_string of every subclass
To_string(r) ==
    CASE r.kind = "OK"                      -> <<79, 75>>
      [] r.kind = "Single_register_content" -> SingleRegisterString(r.value)
      [] r.kind = "Register_content"        -> RegisterString(r.reg_values)
      [] r.kind = "Raw_byte_stream"         -> RawString(r.data)
      [] r.kind = "Unsupported_command"     -> <<>>
      [] r.kind = "Error_code"              -> <<69>> \o FormatHexW(r.code, 2)
      [] r.kind = "Error_message"           -> <<69, 46>> \o r.message
      [] r.kind = "Stop_reason"             -> StopString(r)
      [] r.kind = "Qxfer_response"          -> QxferString(r.completed, r.data)
      [] r.kind = "Qsupported_response"     -> QsupportedString

\* the three Stop_reason constructors: a signal alone, or SIGTRAP with a hit
SIGINT  == 2
SIGTRAP == 5
StopSignal(s)   == [kind |-> "Stop_reason", signal |-> s, hit |-> [type |-> "none"]]
StopWatch(a, w, r) == [kind |-> "Stop_reason", signal |-> SIGTRAP,
                       hit |-> [type |-> "watch", address |-> a, is_write |-> w, is_read |-> r]]
StopBreak(hw)   == [kind |-> "Stop_reason", signal |-> SIGTRAP,
                    hit |-> [type |-> "break", is_hardware |-> hw]]
==============================================================================
