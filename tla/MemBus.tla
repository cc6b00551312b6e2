------------------------------- MODULE MemBus -------------------------------
(***************************************************************************)
(* The platform's memory bus at byte level: Platform::Memory::get_memory  *)
(* and the Interconnect forward a read or a masked write to the RAM or   *)
(* the locked ROM (Block_memory) or to the Clock; the CPU reaches it      *)
(* through Load_store_module, one load or store per cycle followed by     *)
(* Clock::tick, and the debugger, while the hart is stopped, through the  *)
(* m and M handlers of Emulator_debug.                                     *)
(*                                                                         *)
(* An address is [dev, off]: the device get_memory selects and the offset *)
(* within it (every device starts on a 4 KiB boundary, so the alignment   *)
(* of off is that of the address).  A word is the tuple of its four bytes, *)
(* least significant first.  The clock's 32-bit halves wrap at ClockLo,    *)
(* which stands for 2^32.  The RAM uses the Zero fill policy, under which *)
(* touch_page's lazy allocation is invisible, so RAM words start at zero. *)
(***************************************************************************)
EXTENDS Integers, Sequences, SequencesExt

CONSTANTS
    RamWords,   \* words of the RAM Block_memory (2 GiB in the code)
    RomImage,   \* the ROM's first word (the ROM is 128 KiB)
    ClockLo,    \* the modulus standing for 2^32 in a clock half (<= 256)
    NoVal       \* model value: an empty std::optional

Byte  == 0..255
Word  == [1..4 -> Byte]
Zero4 == <<0, 0, 0, 0>>

\* Platform::Memory::get_memory: the devices and their sizes
Size(d) == CASE d = "ram"   -> 4 * RamWords
             [] d = "rom"   -> 4
             [] d = "clock" -> 256
             [] OTHER       -> 0

\* the little-endian value of a word modulo ClockLo, without overflow
ModLo(w) == LET step(acc, x) == (acc * 256 + x) % ClockLo
            IN step(step(step(step(0, w[4]), w[3]), w[2]), w[1])

\* mask.expand_byte_mask().choose_bits(data, old): the bytes the mask
\* selects from data, the others from old
ChooseBytes(mask, data, old) == [i \in 1..4 |-> IF i - 1 \in mask THEN data[i] ELSE old[i]]

\* what a read or a write of the bus returns, with the bus after it
Fail(e, b)   == [ok |-> FALSE, err |-> e, val |-> Zero4, bus |-> b]
Done(v, b)   == [ok |-> TRUE, err |-> "none", val |-> v, bus |-> b]

-----------------------------------------------------------------------------
(* The devices                                                             *)

\* Block_memory::read of the RAM or the ROM
BlockRead(b, a) ==
    IF a.off % 4 # 0 THEN Fail("Unaligned", b)
    ELSE Done(IF a.dev = "rom" THEN RomImage ELSE b.ram[a.off \div 4], b)

\* Block_memory::write: the ROM is locked, an empty mask writes nothing
BlockWrite(b, a, data, mask) ==
    CASE a.dev = "rom"  -> Fail("Access_fault", b)
      [] mask = {}      -> Done(Zero4, b)
      [] a.off % 4 # 0  -> Fail("Unaligned", b)
      [] OTHER -> LET w == a.off \div 4
                  IN Done(Zero4, [b EXCEPT !.ram[w] = ChooseBytes(mask, data, @)])

\* a clock half as a word
HalfWord(v) == <<v, 0, 0, 0>>

\* (mutant) Clock::read without the staging of the low half
ClockReadNoStage(b, a) ==
    LET r == a.off \div 4
    IN CASE a.off % 4 # 0 -> Fail("Unaligned", b)
         [] r = 0 -> Done(HalfWord(b.ctr % ClockLo), b)
         [] r = 1 -> Done(HalfWord(b.ctr \div ClockLo), b)
         [] r = 2 -> Done(HalfWord(b.cmp % ClockLo), b)
         [] r = 3 -> Done(HalfWord(b.cmp \div ClockLo), b)
         [] OTHER -> Fail("Access_fault", b)

\* (mutant) Clock::read staging the whole counter instead of its low half
ClockReadStagesWhole(b, a) ==
    IF a.off = 4 THEN Done(HalfWord(b.ctr \div ClockLo), [b EXCEPT !.ctl = b.ctr])
    ELSE ClockReadNoStage(b, a)

\* Clock::read: reading a high half stages the low half, which the next
\* read of the low half returns once
ClockRead(b, a) ==
    LET r == a.off \div 4
        ctrLo == b.ctr % ClockLo
        cmpLo == b.cmp % ClockLo
    IN CASE a.off % 4 # 0 -> Fail("Unaligned", b)
         [] r = 0 -> IF b.ctl # NoVal THEN Done(HalfWord(b.ctl), [b EXCEPT !.ctl = NoVal])
                     ELSE Done(HalfWord(ctrLo), b)
         [] r = 1 -> Done(HalfWord(b.ctr \div ClockLo), [b EXCEPT !.ctl = ctrLo])
         [] r = 2 -> IF b.cml # NoVal THEN Done(HalfWord(b.cml), [b EXCEPT !.cml = NoVal])
                     ELSE Done(HalfWord(cmpLo), b)
         [] r = 3 -> Done(HalfWord(b.cmp \div ClockLo), [b EXCEPT !.cml = cmpLo])
         [] OTHER -> Fail("Access_fault", b)

\* Clock::write: a write of a half clears that register's staged half
ClockWrite(b, a, data, mask) ==
    LET r == a.off \div 4
        lo(v) == v % ClockLo
        hi(v) == v \div ClockLo
        half(v) == ModLo(ChooseBytes(mask, data, HalfWord(v)))
    IN CASE a.off % 4 # 0 -> Fail("Unaligned", b)
         [] r = 0 -> Done(Zero4, [b EXCEPT !.ctr = hi(@) * ClockLo + half(lo(@)), !.ctl = NoVal])
         [] r = 1 -> Done(Zero4, [b EXCEPT !.ctr = half(hi(@)) * ClockLo + lo(@), !.ctl = NoVal])
         [] r = 2 -> Done(Zero4, [b EXCEPT !.cmp = hi(@) * ClockLo + half(lo(@)), !.cml = NoVal])
         [] r = 3 -> Done(Zero4, [b EXCEPT !.cmp = half(hi(@)) * ClockLo + lo(@), !.cml = NoVal])
         [] OTHER -> Fail("Access_fault", b)

\* Interconnect::read and ::write after get_memory: an address outside
\* every device is Out_of_range, as is one past the end of a Block_memory
BusRead(b, a) ==
    CASE a.off >= Size(a.dev) -> Fail("Out_of_range", b)
      [] a.dev = "clock"      -> ClockRead(b, a)
      [] OTHER                -> BlockRead(b, a)

BusWrite(b, a, data, mask) ==
    CASE a.off >= Size(a.dev) -> Fail("Out_of_range", b)
      [] a.dev = "clock"      -> ClockWrite(b, a, data, mask)
      [] OTHER                -> BlockWrite(b, a, data, mask)

\* Clock::tick: set_64(get_64() + 1), which wraps at 2^64 (the MTIP side
\* is Hart's)
Tick(b) == [b EXCEPT !.ctr = (@ + 1) % (ClockLo * ClockLo)]

BusInit == [ram |-> [w \in 0..RamWords - 1 |-> Zero4],
            ctr |-> 0, cmp |-> 0, ctl |-> NoVal, cml |-> NoVal]

-----------------------------------------------------------------------------
(* Load_store_module::operator() (memory.cpp)                              *)

\* a load or store funct: its width in bytes and, for loads, the sign
Functs == [n : {1, 2, 4}, signed : BOOLEAN]
\* lb, lh, lw, lbu, lhu (RV32 has no lwu)
LoadFuncts == Functs \ {[n |-> 4, signed |-> FALSE]}
\* is_aligned
Aligned(a, f) == a.off % f.n = 0
WordOf(a) == [a EXCEPT !.off = @ - (@ % 4)]

\* value >> (byte_offset * 8), then static_cast to the funct's width and
\* extension back to 32 bits
ShiftDown(w, k) == [i \in 1..4 |-> IF i + k <= 4 THEN w[i + k] ELSE 0]
Extend(w, f) == LET fill == IF f.signed /\ w[f.n] >= 128 THEN 255 ELSE 0
                IN [i \in 1..4 |-> IF i <= f.n THEN w[i] ELSE fill]
\* store_value << (byte_offset * 8), and the mask 0b0001/0b0011/0b1111 << byte_offset
ShiftUp(w, k)  == [i \in 1..4 |-> IF i > k THEN w[i - k] ELSE 0]
\* (mutant) the mask not shifted by the byte offset
StoreMaskUnshifted(f, k) == 0..f.n - 1
StoreMask(f, k) == k..k + f.n - 1

\* the trap or the value of a load
LoadOp(b, f, a) ==
    IF ~Aligned(a, f) THEN Fail("Load_address_misaligned", b)
    ELSE LET r == BusRead(b, WordOf(a))
         IN IF ~r.ok THEN Fail("Load_access_fault", r.bus)
            ELSE Done(Extend(ShiftDown(r.val, a.off % 4), f), r.bus)

\* the trap of a store, or its completion
StoreOp(b, f, a, v) ==
    IF ~Aligned(a, f) THEN Fail("Store_address_misaligned", b)
    ELSE LET k == a.off % 4
             r == BusWrite(b, WordOf(a), ShiftUp(v, k), StoreMask(f, k))
         IN CASE r.ok                  -> r
              [] r.err = "Unaligned"   -> Fail("Store_address_misaligned", r.bus)
              [] OTHER                 -> Fail("Store_access_fault", r.bus)

-----------------------------------------------------------------------------
(* Emulator_debug::handle_mem_read and handle_mem_write                    *)

\* the addresses of an m packet cut by chunk_by where prev % 4 = 3 and
\* next % 4 = 0: the chunks are the runs within one word
Chunks(a, len) ==
    LET offs   == [i \in 1..len |-> a.off + i - 1]
        starts == SetToSortSeq({i \in 1..len : i = 1 \/ ~(offs[i - 1] % 4 # 3 \/ offs[i] % 4 # 0)}, <)
        last(k) == IF k = Len(starts) THEN len ELSE starts[k + 1] - 1
    IN [k \in 1..Len(starts) |-> SubSeq(offs, starts[k], last(k))]

\* (mutant) the bytes of a chunk taken most significant first
ReadChunkBigEndian(acc, c) ==
    IF ~acc.more THEN acc
    ELSE LET r == BusRead(acc.bus, [dev |-> acc.dev, off |-> c[1]])
         IN IF ~r.ok THEN [acc EXCEPT !.more = FALSE, !.bus = r.bus]
            ELSE [acc EXCEPT !.bus = r.bus,
                             !.reply = @ \o [i \in 1..Len(c) |-> r.val[4 - (c[i] % 4)]]]

\* one chunk: read the word at the chunk's first address and take the
\* byte addr % 4 of it for each address; a failed read ends the reply
ReadChunk(acc, c) ==
    IF ~acc.more THEN acc
    ELSE LET r == BusRead(acc.bus, [dev |-> acc.dev, off |-> c[1]])
         IN IF ~r.ok THEN [acc EXCEPT !.more = FALSE, !.bus = r.bus]
            ELSE [acc EXCEPT !.bus = r.bus,
                             !.reply = @ \o [i \in 1..Len(c) |-> r.val[(c[i] % 4) + 1]]]

MemRead(b, a, len) ==
    FoldLeft(ReadChunk, [bus |-> b, dev |-> a.dev, reply |-> <<>>, more |-> TRUE], Chunks(a, len))

\* one byte of an M packet: a write of data[i] << ((addr % 4) * 8) with
\* byte enable 1 << (addr % 4) at the byte's own address; a failure ends
\* the packet with E00, the bytes before it written
WriteByte(acc, i) ==
    IF ~acc.ok THEN acc
    ELSE LET a == [dev |-> acc.dev, off |-> acc.off + i - 1]
             k == a.off % 4
             r == BusWrite(acc.bus, a, ShiftUp(<<acc.data[i], 0, 0, 0>>, k), {k})
         IN [acc EXCEPT !.bus = r.bus, !.ok = r.ok, !.written = IF r.ok THEN @ + 1 ELSE @]

MemWrite(b, a, data) ==
    FoldLeft(WriteByte, [bus |-> b, dev |-> a.dev, off |-> a.off, data |-> data,
                         ok |-> TRUE, written |-> 0], [i \in 1..Len(data) |-> i])

-----------------------------------------------------------------------------
(* The hart's loads and stores and the debugger's m and M packets          *)

CONSTANTS
    Addrs,      \* addresses the program and the debugger use
    StoreVals,  \* rs2 values of stores
    MLens,      \* lengths of m packets
    MData,      \* byte strings of M packets
    MaxOps      \* bound on cycles and packets together

VARIABLES
    bus,    \* RAM words, clock counter and cmp, and the two staged halves
    ref,    \* ghost: the RAM as bytes, written the way RISC-V defines it
    last,   \* the last operation and its outcome
    pair,   \* ghost: an open high-then-low read of a clock register
    ops     \* cycles and packets so far

vars == <<bus, ref, last, pair, ops>>

RefInit == [i \in 0..4 * RamWords - 1 |-> 0]
NoPair  == [on |-> FALSE, reg |-> 0, hi |-> 0, val |-> 0, clean |-> FALSE]

Outcome == [op : {"init", "load", "store", "m", "M"}, f : Functs \cup {NoVal},
            a : Addrs \cup {NoVal}, n : Nat, ok : BOOLEAN, val : Word \cup Seq(Byte)]

TypeOK ==
    /\ bus.ram \in [0..RamWords - 1 -> Word]
    /\ bus.ctr \in Nat /\ bus.cmp \in Nat
    /\ bus.ctl \in (0..ClockLo - 1) \cup {NoVal} /\ bus.cml \in (0..ClockLo - 1) \cup {NoVal}
    /\ ref \in [0..4 * RamWords - 1 -> Byte]
    /\ last \in Outcome
    /\ pair \in [on : BOOLEAN, reg : 0..3, hi : Nat, val : Nat, clean : BOOLEAN]
    /\ ops \in 0..MaxOps

Init ==
    /\ bus = BusInit /\ ref = RefInit /\ pair = NoPair /\ ops = 0
    /\ last = [op |-> "init", f |-> NoVal, a |-> NoVal, n |-> 0, ok |-> TRUE, val |-> Zero4]

\* the byte at RAM or ROM offset o, as RISC-V's byte-addressed memory holds it
RefByte(d, o) == IF d = "rom" THEN RomImage[o + 1] ELSE ref[o]

\* a clock access by anything but the program's read of the low half
\* that a high-half read opened leaves the pair unclean
Touches(a) == a.dev = "clock"
Disturb(p, touched) == IF p.on /\ touched THEN [p EXCEPT !.clean = FALSE] ELSE p

\* one cycle, Emulator::tick_one_cycle, for a load: the load, then tick
Load ==
    /\ ops < MaxOps
    /\ \E f \in LoadFuncts, a \in Addrs :
         LET r == LoadOp(bus, f, a)
             reg == a.off \div 4
             opens == r.ok /\ a.dev = "clock" /\ f.n = 4 /\ reg \in {1, 3}
             closes == pair.on /\ a.dev = "clock" /\ f.n = 4 /\ reg = pair.reg - 1
         IN /\ bus' = Tick(r.bus)
            /\ last' = [op |-> "load", f |-> f, a |-> a, n |-> f.n, ok |-> r.ok, val |-> r.val]
            /\ pair' = CASE opens  -> [on |-> TRUE, reg |-> reg, hi |-> r.val[1],
                                       val |-> IF reg = 1 THEN bus.ctr ELSE bus.cmp, clean |-> TRUE]
                        [] closes -> NoPair
                        [] OTHER  -> Disturb(pair, Touches(a))
    /\ ops' = ops + 1
    /\ UNCHANGED ref

\* one cycle for a store: the store, then tick
Store ==
    /\ ops < MaxOps
    /\ \E f \in {g \in Functs : ~g.signed}, a \in Addrs, v \in StoreVals :
         LET r == StoreOp(bus, f, a, v)
         IN /\ bus' = Tick(r.bus)
            /\ ref' = IF r.ok /\ a.dev = "ram"
                      THEN [o \in DOMAIN ref |-> IF o - a.off \in 0..f.n - 1 THEN v[o - a.off + 1] ELSE ref[o]]
                      ELSE ref
            /\ last' = [op |-> "store", f |-> f, a |-> a, n |-> f.n, ok |-> r.ok, val |-> Zero4]
            /\ pair' = Disturb(pair, Touches(a))
    /\ ops' = ops + 1

\* handle_mem_read, while the hart is stopped
DebugRead ==
    /\ ops < MaxOps
    /\ \E a \in Addrs, len \in MLens :
         LET r == MemRead(bus, a, len)
         IN /\ bus' = r.bus
            /\ last' = [op |-> "m", f |-> NoVal, a |-> a, n |-> len, ok |-> TRUE, val |-> r.reply]
            /\ pair' = Disturb(pair, Touches(a))
    /\ ops' = ops + 1
    /\ UNCHANGED ref

\* handle_mem_write, while the hart is stopped: OK, or E00 after the bytes
\* before the failing one were written
DebugWrite ==
    /\ ops < MaxOps
    /\ \E a \in Addrs, d \in MData :
         LET r == MemWrite(bus, a, d)
         IN /\ bus' = r.bus
            /\ ref' = IF a.dev = "ram"
                      THEN [o \in DOMAIN ref |-> IF o - a.off \in 0..r.written - 1 THEN d[o - a.off + 1] ELSE ref[o]]
                      ELSE ref
            /\ last' = [op |-> "M", f |-> NoVal, a |-> a, n |-> Len(d), ok |-> r.ok, val |-> <<>>]
            /\ pair' = Disturb(pair, Touches(a))
    /\ ops' = ops + 1

Next == Load \/ Store \/ DebugRead \/ DebugWrite

Spec == Init /\ [][Next]_vars

-----------------------------------------------------------------------------
(* Properties                                                              *)

\* what RISC-V's lb/lh/lw/lbu/lhu return from byte-addressed memory
RefLoad(f, a) ==
    LET b(i) == RefByte(a.dev, a.off + i - 1)
        fill == IF f.signed /\ b(f.n) >= 128 THEN 255 ELSE 0
    IN [i \in 1..4 |-> IF i <= f.n THEN b(i) ELSE fill]

\* the bytes of RAM or ROM an m packet of len bytes at a covers
RefRange(a, len) ==
    LET n == IF a.off >= Size(a.dev) THEN 0
             ELSE IF len <= Size(a.dev) - a.off THEN len ELSE Size(a.dev) - a.off
    IN [i \in 1..n |-> RefByte(a.dev, a.off + i - 1)]

\* A load from RAM or ROM, naturally aligned and in range, succeeds and
\* returns the bytes the program's stores and the debugger's M writes
\* (even one that failed part way) left there, shifted and extended as
\* RISC-V defines: the word fetch at address & ~3, the shift by the byte
\* offset, the store's mask and shifted data and the byte enables of
\* handle_mem_write have to agree.
LoadReturnsMemory ==
    [][ (last'.op = "load" /\ last'.a.dev \in {"ram", "rom"}
         /\ Aligned(last'.a, last'.f) /\ last'.a.off < Size(last'.a.dev))
        => (last'.ok /\ last'.val = RefLoad(last'.f, last'.a)) ]_vars

\* The reply to an m packet on RAM or ROM is the memory's bytes from the
\* start address, cut short only by a failed read, and complete up to
\* the device's end when the start is word aligned: handle_mem_read's
\* chunking by word, the word read at each chunk's first address and the
\* byte addr % 4 taken from it must agree.
DebugReadFaithful ==
    [][ (last'.op = "m" /\ last'.a.dev \in {"ram", "rom"})
        => /\ IsPrefix(last'.val, RefRange(last'.a, last'.n))
           /\ last'.a.off % 4 = 0 => last'.val = RefRange(last'.a, last'.n) ]_vars

\* A program that reads a clock register's high half and then its low
\* half with lw, with cycles in between but no other access to the clock,
\* gets the 64-bit value the register had at the high read, although the
\* counter ticked meanwhile: the staging of Clock::read.
ClockPairAtomic ==
    [][ (pair.on /\ pair.clean /\ last'.op = "load" /\ last'.ok /\ last'.f.n = 4
         /\ last'.a.dev = "clock" /\ last'.a.off \div 4 = pair.reg - 1)
        => pair.hi * ClockLo + last'.val[1] = pair.val ]_vars
==============================================================================
