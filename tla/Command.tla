------------------------------- MODULE Command -------------------------------
(***************************************************************************)
(* gdb_stub::command::parse (command.cpp): a decoded packet body, as its  *)
(* ASCII codes, to the typed command it asks for.  A command is a record  *)
(* whose "cmd" field names the struct of command.hpp; the empty std::any  *)
(* is Fail, and an exception thrown out of parse is Throw.                *)
(*                                                                         *)
(* A u32 is scaled: WordLimit stands for 2^32.  std::from_chars leaves its *)
(* output unassigned when the digits exceed it, and parse_hex then returns *)
(* that uninitialised u32: the value Junk, any value at all.  A parse is  *)
(* therefore a set of outcomes; it has one element unless a Junk length   *)
(* is compared.  The literal names of the q packets ("Supported", "Xfer", *)
(* "features:read", "memory-map:read") are each stood for by a short code *)
(* sequence, with the colon of the last two kept.                          *)
(***************************************************************************)
EXTENDS Integers, Sequences, SequencesExt

CONSTANTS
    WordLimit,  \* 2^32, the range of a u32 (scaled)
    Nullopt,    \* std::nullopt (a model value)
    Junk        \* an uninitialised u32 (a model value)

\* four hex digits (a register number) always fit
ASSUME WordLimit >= 2^16

Plus  == 43
Minus == 45
CtrlC == 3
Comma == 44
Colon == 58
Semi  == 59
Equal == 61
Query == 63
Bang  == 33
Ch    == [c |-> 99, g |-> 103, i |-> 105, k |-> 107, m |-> 109, p |-> 112, q |-> 113,
          s |-> 115, x |-> 120, z |-> 122, G |-> 71, M |-> 77, P |-> 80, X |-> 88, Z |-> 90]
Digit(n) == 48 + n

\* the literals parse_q and parse_qxfer compare with
SupportedName == <<83>>                 \* "Supported"
XferName      == <<88>>                 \* "Xfer"
FeaturesRead  == <<102, Colon, 114>>    \* "features:read"
MemMapRead    == <<109, Colon, 114>>    \* "memory-map:read"

Fail    == [cmd |-> "fail"]
Throw   == [cmd |-> "throw"]

\* the characters std::from_chars accepts in base 16, and their values
FromCharsDigit == [c \in 48..57 |-> c - 48] @@ [c \in 97..102 |-> c - 87] @@ [c \in 65..70 |-> c - 55]

\* parse_hex: nullopt for an empty string or one from_chars does not
\* consume to the end; Junk when the value does not fit a u32
ParseHex(s) ==
    IF s = <<>> \/ \E i \in DOMAIN s : s[i] \notin DOMAIN FromCharsDigit THEN Nullopt
    ELSE LET RECURSIVE Acc(_, _)
             Acc(i, v) == IF i > Len(s) \/ v = Junk THEN v
                          ELSE LET n == v * 16 + FromCharsDigit[s[i]]
                               IN Acc(i + 1, IF n >= WordLimit THEN Junk ELSE n)
         IN Acc(1, 0)

\* std::ranges::find: the index of the first d, 0 if there is none
Find(s, d) == SelectInSeq(s, LAMBDA c : c = d)

\* split_once: both halves empty when d does not occur
SplitOnce(s, d) ==
    LET i == Find(s, d)
    IN IF i = 0 THEN <<<<>>, <<>>>> ELSE <<SubSeq(s, 1, i - 1), SubSeq(s, i + 1, Len(s))>>

\* std::views::split: no piece for an empty string, an empty last piece
\* after a trailing d
RECURSIVE SplitAll(_, _)
SplitAll(s, d) ==
    IF s = <<>> THEN <<>>
    ELSE LET h == SplitOnce(s, d)
         IN IF Find(s, d) = 0 THEN <<s>>
            ELSE <<h[1]>> \o (IF h[2] = <<>> THEN <<<<>>>> ELSE SplitAll(h[2], d))

\* std::views::chunk(n): pieces of n characters, the last one shorter
Chunks(s, n) == [k \in 1..(Len(s) + n - 1) \div n |->
                    SubSeq(s, (k - 1) * n + 1, IF k * n > Len(s) THEN Len(s) ELSE k * n)]

\* parse_u32_pair: "a,b", both hex
ParseU32Pair(s) ==
    LET i == Find(s, Comma)
        a == ParseHex(SubSeq(s, 1, i - 1))
        b == ParseHex(SubSeq(s, i + 1, Len(s)))
    IN IF i = 0 \/ a = Nullopt \/ b = Nullopt THEN Nullopt ELSE <<a, b>>

\* data_str.size() != length * 2, the product in u32; an uninitialised
\* length may or may not pass
LengthMatches(n, len) ==
    IF len = Junk THEN {TRUE, FALSE} ELSE {n = (len * 2) % WordLimit}

\* the hex byte pairs of a string, or nullopt if one is not hex
HexBytes(s) ==
    LET bs == [k \in DOMAIN Chunks(s, 2) |-> ParseHex(Chunks(s, 2)[k])]
    IN IF \E k \in DOMAIN bs : bs[k] = Nullopt THEN Nullopt ELSE bs

\* parse_continue and parse_step_single: an optional hex address
OptAddress(name, p) ==
    IF p = <<>> THEN {[cmd |-> name, addr |-> Nullopt]}
    ELSE IF ParseHex(p) = Nullopt THEN {Fail} ELSE {[cmd |-> name, addr |-> ParseHex(p)]}

\* parse_write_registers: 8-character groups, "xxxxxxxx" skipped; a group
\* that is not hex throws inside the pipeline and the catch returns fail
ParseWriteRegisters(p) ==
    LET gs   == Chunks(p, 8)
        skip == [k \in DOMAIN gs |-> gs[k] = [j \in 1..8 |-> Ch.x]]
        vals == [k \in DOMAIN gs |-> IF skip[k] THEN Nullopt ELSE ParseHex(gs[k])]
    IN IF p = <<>> \/ Len(p) % 8 # 0 THEN {Fail}
       ELSE IF \E k \in DOMAIN gs : ~skip[k] /\ vals[k] = Nullopt THEN {Fail}
       ELSE {[cmd |-> "Write_register",
              values |-> [r \in {k - 1 : k \in {j \in DOMAIN gs : ~skip[j]}} |-> vals[r + 1]]]}

\* parse_step_single_cycle: up to two comma-separated hex numbers
ParseStepCycles(p) ==
    LET subs == SplitAll(p, Comma)
        vs   == [k \in DOMAIN subs |-> ParseHex(subs[k])]
    IN IF \E k \in DOMAIN vs : vs[k] = Nullopt THEN {Fail}
       ELSE CASE Len(vs) = 0 -> {[cmd |-> "Step_cycles", addr |-> Nullopt, count |-> Nullopt]}
              [] Len(vs) = 1 -> {[cmd |-> "Step_cycles", addr |-> vs[1], count |-> Nullopt]}
              [] Len(vs) = 2 -> {[cmd |-> "Step_cycles", addr |-> vs[1], count |-> vs[2]]}
              [] OTHER       -> {Fail}

\* parse_read_memory
ParseReadMemory(p) ==
    LET r == ParseU32Pair(p)
    IN IF r = Nullopt THEN {Fail} ELSE {[cmd |-> "Read_memory", addr |-> r[1], len |-> r[2]]}

\* parse_write_memory: "addr,length:XX..", exactly length bytes of hex
ParseWriteMemory(p) ==
    LET h  == SplitOnce(p, Colon)
        r  == ParseU32Pair(h[1])
        bs == HexBytes(h[2])
    IN IF h[1] = <<>> \/ h[2] = <<>> \/ r = Nullopt THEN {Fail}
       ELSE UNION {IF ~ok THEN {Fail}
                   ELSE IF bs = Nullopt THEN {Fail}
                   ELSE {[cmd |-> "Write_memory", addr |-> r[1], data |-> bs]}
                   : ok \in LengthMatches(Len(h[2]), r[2])}

\* parse_read_single_register: at most four hex digits, below 65536
ParseReadSingleRegister(p) ==
    LET n == ParseHex(p)
    IN IF p = <<>> \/ Len(p) > 4 \/ n = Nullopt THEN {Fail}
       ELSE IF n >= 65536 THEN {Fail}
       ELSE {[cmd |-> "Read_single_register", regno |-> n]}

\* parse_write_single_register: "regno=value", value of eight characters
ParseWriteSingleRegister(p) ==
    LET h == SplitOnce(p, Equal)
        n == ParseHex(h[1])
        v == ParseHex(h[2])
    IN IF p = <<>> \/ h[1] = <<>> \/ h[2] = <<>> \/ Len(h[1]) > 4 \/ Len(h[2]) # 8 THEN {Fail}
       ELSE IF n = Nullopt \/ n >= 65536 \/ v = Nullopt THEN {Fail}
       ELSE {[cmd |-> "Write_single_register", regno |-> n, value |-> v]}

\* parse_q_supported: each ";" piece is a name and its last + - ? = and,
\* for =, a value.  A piece with none of them is not filtered out (the
\* filter compares the found position with the piece's end, which a
\* reversed find never returns): the "separator" read is the character
\* before the piece, ":" or ";", and the switch's default throws.
FeatureSep(f) == SelectLastInSeq(f, LAMBDA c : c \in {Plus, Minus, Query, Equal})
FeatureStatus == [c \in {Plus, Minus, Query, Equal} |->
                    CASE c = Plus -> "Supported" [] c = Minus -> "Unsupported"
                      [] c = Query -> "Unknown"  [] c = Equal -> "Value"]
ParseQSupported(p) ==
    LET fs    == SplitAll(p, Semi)
        name  == [k \in DOMAIN fs |-> SubSeq(fs[k], 1, FeatureSep(fs[k]) - 1)]
        first == [n \in {name[k] : k \in DOMAIN fs} |-> CHOOSE k \in DOMAIN fs :
                     name[k] = n /\ \A j \in 1..k - 1 : name[j] # n]
        stat(k) == LET f == fs[k]  i == FeatureSep(f)
                   IN [property |-> FeatureStatus[f[i]],
                       value |-> IF f[i] = Equal THEN SubSeq(f, i + 1, Len(f)) ELSE Nullopt]
    IN IF \E k \in DOMAIN fs : FeatureSep(fs[k]) = 0 THEN {Throw}
       ELSE {[cmd |-> "Query_supported", features |-> [n \in DOMAIN first |-> stat(first[n])]]}

\* parse_qxfer: after the literal, substr skips one more character
\* (std::out_of_range when there is none); then "annex:offset,length"
ParseQxfer(p) ==
    LET read(lit) == SplitOnce(SubSeq(p, Len(lit) + 2, Len(p)), Colon)
        starts(lit) == IsPrefix(lit, p)
        r(lit) == ParseU32Pair(read(lit)[2])
    IN CASE starts(FeaturesRead) /\ Len(p) = Len(FeaturesRead) -> {Throw}
         [] starts(FeaturesRead) ->
              IF r(FeaturesRead) = Nullopt THEN {Fail}
              ELSE {[cmd |-> "Read_feature_xml", annex |-> read(FeaturesRead)[1],
                     offset |-> r(FeaturesRead)[1], len |-> r(FeaturesRead)[2]]}
         [] starts(MemMapRead) /\ Len(p) = Len(MemMapRead) -> {Throw}
         [] starts(MemMapRead) ->
              IF r(MemMapRead) = Nullopt THEN {Fail}
              ELSE {[cmd |-> "Read_memory_map_xml", offset |-> r(MemMapRead)[1], len |-> r(MemMapRead)[2]]}
         [] OTHER -> {Fail}

\* parse_q: "Name:params"
ParseQ(p) ==
    LET h == SplitOnce(p, Colon)
    IN CASE h[1] = <<>> \/ h[2] = <<>> -> {Fail}
         [] h[1] = SupportedName        -> ParseQSupported(h[2])
         [] h[1] = XferName             -> ParseQxfer(h[2])
         [] OTHER                       -> {Fail}

\* parse_bytecode: "X" length "," and exactly length bytes of hex; a set
\* of outcomes, each nullopt or the bytes
ParseBytecode(s) ==
    LET h  == SplitOnce(Tail(s), Comma)
        n  == ParseHex(h[1])
        bs == HexBytes(h[2])
    IN IF s = <<>> THEN {Nullopt}
       ELSE IF s[1] # Ch.X \/ h[1] = <<>> \/ h[2] = <<>> \/ n = Nullopt THEN {Nullopt}
       ELSE {IF ok THEN bs ELSE Nullopt : ok \in LengthMatches(Len(h[2]), n)}

\* the kind character of z and Z: breakpoints 0 (software) and 1
\* (hardware), watchpoints 2 (write), 3 (read) and 4 (access)
Kind == [k \in 0..4 |-> Digit(k)]
\* mutant: the write and read watchpoint kinds taken for each other
WatchSwapped(k) == [write |-> k \in {Kind[3], Kind[4]}, read |-> k \in {Kind[2], Kind[4]}]
Watch(k) == [write |-> k \in {Kind[2], Kind[4]}, read |-> k \in {Kind[3], Kind[4]}]

\* parse_z: "k,addr,length"
ParseRemove(p) ==
    LET r == ParseU32Pair(SubSeq(p, 3, Len(p)))
    IN CASE Len(p) <= 2 \/ p[2] # Comma \/ r = Nullopt -> {Fail}
         [] p[1] \in {Kind[0], Kind[1]} ->
              {[cmd |-> "Remove_breakpoint", hw |-> p[1] = Kind[1], addr |-> r[1], len |-> r[2]]}
         [] p[1] \in {Kind[2], Kind[3], Kind[4]} ->
              {[cmd |-> "Remove_watchpoint", watch |-> Watch(p[1]), addr |-> r[1], len |-> r[2]]}
         [] OTHER -> {Fail}

\* parse_Z: "k,addr,length", a breakpoint with up to two ";" pieces after
\* it, the first of which is its condition's bytecode
ParseAdd(p) ==
    LET sub  == SubSeq(p, 3, Len(p))
        list == SplitAll(sub, Semi)
        bp   == ParseU32Pair(list[1])
        wp   == ParseU32Pair(sub)
        conds == IF Len(list) >= 2 THEN ParseBytecode(list[2]) ELSE {Nullopt}
    IN CASE Len(p) <= 2 \/ p[2] # Comma -> {Fail}
         [] p[1] \in {Kind[0], Kind[1]} ->
              IF Len(list) > 3 \/ list = <<>> \/ bp = Nullopt THEN {Fail}
              ELSE {IF Len(list) >= 2 /\ c = Nullopt THEN Fail
                    ELSE [cmd |-> "Add_breakpoint", hw |-> p[1] = Kind[1], addr |-> bp[1],
                          len |-> bp[2], cond |-> c] : c \in conds}
         [] p[1] \in {Kind[2], Kind[3], Kind[4]} ->
              IF wp = Nullopt THEN {Fail}
              ELSE {[cmd |-> "Add_watchpoint", watch |-> Watch(p[1]), addr |-> wp[1], len |-> wp[2]]}
         [] OTHER -> {Fail}

\* the command structs of command.hpp (and special-packet.hpp): which
\* members each has and what they hold; a u32 member may hold the
\* uninitialised value of an overflowed field
U32(v)    == v = Junk \/ v \in 0..WordLimit - 1
OptU32(v) == v = Nullopt \/ U32(v)
ByteSeq(s) == \A i \in DOMAIN s : s[i] \in 0..255
IsCommand(c) ==
    LET has(fs) == DOMAIN c = {"cmd"} \cup fs
        span == U32(c.addr) /\ U32(c.len)
    IN CASE c.cmd \in {"Enable_persistant", "Ask_halt_reason", "Read_register", "Stop",
                       "Restart", "Interrupt_packet"} -> has({})
         [] c.cmd = "Acknowledge_packet" -> has({"success"}) /\ c.success \in BOOLEAN
         [] c.cmd \in {"Continue", "Step_single_inst"} -> has({"addr"}) /\ OptU32(c.addr)
         [] c.cmd = "Step_cycles" -> has({"addr", "count"}) /\ OptU32(c.addr) /\ OptU32(c.count)
         [] c.cmd = "Write_register" ->
              has({"values"}) /\ DOMAIN c.values \subseteq 0..65535
              /\ \A r \in DOMAIN c.values : U32(c.values[r])
         [] c.cmd = "Read_memory" -> has({"addr", "len"}) /\ span
         [] c.cmd = "Write_memory" -> has({"addr", "data"}) /\ U32(c.addr) /\ ByteSeq(c.data)
         [] c.cmd = "Read_single_register" -> has({"regno"}) /\ U32(c.regno)
         [] c.cmd = "Write_single_register" -> has({"regno", "value"}) /\ U32(c.regno) /\ U32(c.value)
         [] c.cmd = "Query_supported" ->
              has({"features"})
              /\ \A n \in DOMAIN c.features :
                   /\ c.features[n].property \in {"Value", "Supported", "Unsupported", "Unknown"}
                   /\ c.features[n].value = Nullopt <=> c.features[n].property # "Value"
         [] c.cmd = "Read_feature_xml" -> has({"annex", "offset", "len"}) /\ U32(c.offset) /\ U32(c.len)
         [] c.cmd = "Read_memory_map_xml" -> has({"offset", "len"}) /\ U32(c.offset) /\ U32(c.len)
         [] c.cmd = "Add_breakpoint" ->
              has({"hw", "addr", "len", "cond"}) /\ c.hw \in BOOLEAN /\ span
              /\ (c.cond = Nullopt \/ ByteSeq(c.cond))
         [] c.cmd = "Remove_breakpoint" -> has({"hw", "addr", "len"}) /\ c.hw \in BOOLEAN /\ span
         [] c.cmd \in {"Add_watchpoint", "Remove_watchpoint"} ->
              has({"watch", "addr", "len"}) /\ c.watch \in [write : BOOLEAN, read : BOOLEAN] /\ span
         [] OTHER -> FALSE

\* single_char_command: the whole body is one of these characters
SingleChar == [c \in {Plus, Minus, CtrlC, Bang, Query, Ch.g, Ch.k} |->
                 CASE c = Plus  -> [cmd |-> "Acknowledge_packet", success |-> TRUE]
                   [] c = Minus -> [cmd |-> "Acknowledge_packet", success |-> FALSE]
                   [] c = CtrlC -> [cmd |-> "Interrupt_packet"]
                   [] c = Bang  -> [cmd |-> "Enable_persistant"]
                   [] c = Query -> [cmd |-> "Ask_halt_reason"]
                   [] c = Ch.g  -> [cmd |-> "Read_register"]
                   [] c = Ch.k  -> [cmd |-> "Stop"]]

\* param_char_command_parsers, applied to the body after its first character
ParamParse(c, p) ==
    CASE c = Ch.c -> OptAddress("Continue", p)
      [] c = Ch.G -> ParseWriteRegisters(p)
      [] c = Ch.i -> ParseStepCycles(p)
      [] c = Ch.m -> ParseReadMemory(p)
      [] c = Ch.M -> ParseWriteMemory(p)
      [] c = Ch.p -> ParseReadSingleRegister(p)
      [] c = Ch.P -> ParseWriteSingleRegister(p)
      [] c = Ch.s -> OptAddress("Step_single_inst", p)
      [] c = Ch.q -> ParseQ(p)
      [] c = Ch.z -> ParseRemove(p)
      [] c = Ch.Z -> ParseAdd(p)
      [] OTHER    -> {Fail}

\* parse: a one-character body of the single-character table, else the
\* parser its first character selects, else fail
Parse(s) ==
    CASE s = <<>>                                    -> {Fail}
      [] Len(s) = 1 /\ s[1] \in DOMAIN SingleChar   -> {SingleChar[s[1]]}
      [] OTHER                                       -> ParamParse(s[1], Tail(s))
==============================================================================
