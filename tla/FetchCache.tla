------------------------------ MODULE FetchCache ------------------------------
(***************************************************************************)
(* The instruction-fetch page cache of Inst_fetch_module (memory.cpp) over *)
(* the platform's memory: the RAM Block_memory with its lazily allocated,  *)
(* fill-policy initialised pages, the locked ROM, a peripheral page and    *)
(* unmapped space.  Besides fetches, memory changes through the program's  *)
(* stores, the debugger's M packets (handle_mem_write) and the debugger's  *)
(* Restart (reset_content of the RAM).  A page is abstracted to its page   *)
(* number and one representative word; the cache index is the page number *)
(* modulo the number of entries, as (pc >> 12) % cache_num is.             *)
(***************************************************************************)
EXTENDS Naturals, FiniteSets

CONSTANTS
    RamPages,     \* page numbers backed by the RAM
    RomPages,     \* page numbers backed by the locked ROM
    PeriphPages,  \* page numbers of the UART and clock (256 B devices)
    NoPages,      \* page numbers no device maps
    NumEntries,   \* cache_num
    Values,       \* the words a page can hold
    FillVals,     \* the words Fill_policy can produce on first touch
    RomImage,     \* [RomPages -> Values]: the flash file
    MaxWrites,    \* bound on stores, M packets and restarts together
    None          \* model value: a Block_memory page not yet allocated

Pages == RamPages \cup RomPages \cup PeriphPages \cup NoPages

ASSUME /\ NumEntries \in Nat \ {0}
       /\ FillVals \subseteq Values /\ 0 \in Values
       /\ RomImage \in [RomPages -> Values]

\* Inst_fetch_module::operator(): (pc >> 12) % cache_num
Index(p) == p % NumEntries

VARIABLES
    ram,     \* [RamPages -> Values \cup {None}]: Block_memory::storage
    cache,   \* [0..NumEntries-1 -> [valid, address, data]]
    thrown,  \* a std::logic_error escaped from the fetch unit
    last,    \* the outcome of the last step: [op, page, val]
    writes,  \* stores, M packets and restarts so far
    held,    \* ghost: [Pages -> every word the page has held]
    recent   \* ghost: [RamPages -> the words held since the last fence.i]

vars == <<ram, cache, thrown, last, writes, held, recent>>

Entry == [valid : BOOLEAN, address : Pages \cup {0}, data : Values]
Outcomes == [op : {"init", "store", "mwrite", "restart", "fencei"},
             page : Pages \cup {None}, val : Values \cup {None}]
            \cup [op : {"fetch"}, page : Pages, val : Values]
            \cup [op : {"trap"}, page : Pages, val : {"inst_access_fault"}]

TypeOK ==
    /\ ram \in [RamPages -> Values \cup {None}]
    /\ cache \in [0..NumEntries-1 -> Entry]
    /\ thrown \in BOOLEAN
    /\ last \in Outcomes
    /\ writes \in 0..MaxWrites
    /\ held \in [Pages -> SUBSET Values]
    /\ recent \in [RamPages -> SUBSET Values]

\* Platform construction: RAM pages unallocated, the cache value-initialised
\* (invalid, address and data zero), the ROM filled and locked.
Init ==
    /\ ram = [p \in RamPages |-> None]
    /\ cache = [i \in 0..NumEntries-1 |-> [valid |-> FALSE, address |-> 0, data |-> 0]]
    /\ thrown = FALSE
    /\ last = [op |-> "init", page |-> None, val |-> None]
    /\ writes = 0
    /\ held = [p \in Pages |-> IF p \in RomPages THEN {RomImage[p]} ELSE {}]
    /\ recent = [p \in RamPages |-> {}]

\* the words a RAM page may hold after Block_memory::touch_page
Touched(p) == IF ram[p] = None THEN FillVals ELSE {ram[p]}

-----------------------------------------------------------------------------
(* Inst_fetch_module::operator() for an aligned pc in page p               *)

FillTrapAsDevice(p) == "illegal_instruction"

\* the trap a failed page read becomes: Out_of_range and Access_fault give
\* Inst_access_fault (Device_error, Illegal_instruction, is not produced
\* by any device of the platform)
FillTrap(p) == "inst_access_fault"

FetchHitAnyTag(p) == cache[Index(p)].valid

FetchHit(p) == cache[Index(p)].valid /\ cache[Index(p)].address = p

\* a hit returns the cached word and changes nothing else
FetchCached(p) ==
    /\ FetchHit(p)
    /\ last' = [op |-> "fetch", page |-> p, val |-> cache[Index(p)].data]
    /\ UNCHANGED <<ram, cache, thrown, writes, held, recent>>

\* a miss reads the page through the interconnect: RAM and ROM install it;
\* an unmapped page (Out_of_range) invalidates the entry and traps
FetchFill(p) ==
    /\ ~FetchHit(p)
    /\ p \notin PeriphPages
    /\ IF p \in NoPages
       THEN /\ cache' = [cache EXCEPT ![Index(p)].valid = FALSE]
            /\ last' = [op |-> "trap", page |-> p, val |-> FillTrap(p)]
            /\ UNCHANGED <<ram, held, recent>>
       ELSE \E v \in IF p \in RamPages THEN Touched(p) ELSE {RomImage[p]} :
              /\ cache' = [cache EXCEPT ![Index(p)] =
                             [valid |-> TRUE, address |-> p, data |-> v]]
              /\ last' = [op |-> "fetch", page |-> p, val |-> v]
              /\ IF p \in RamPages
                 THEN /\ ram' = [ram EXCEPT ![p] = v]
                      /\ held' = [held EXCEPT ![p] = @ \cup {v}]
                      /\ recent' = [recent EXCEPT ![p] = @ \cup {v}]
                 ELSE UNCHANGED <<ram, held, recent>>
    /\ UNCHANGED <<thrown, writes>>

\* a peripheral's read_page is Not_supported, which the switch of the
\* fetch unit does not list: it throws std::logic_error
FetchThrow(p) ==
    /\ ~FetchHit(p)
    /\ p \in PeriphPages
    /\ cache' = [cache EXCEPT ![Index(p)].valid = FALSE]
    /\ thrown' = TRUE
    /\ UNCHANGED <<ram, last, writes, held, recent>>

Fetch(p) == FetchCached(p) \/ FetchFill(p) \/ FetchThrow(p)

-----------------------------------------------------------------------------
(* Writers of memory                                                       *)

\* a word written to a RAM page (touch_page, then the masked write)
WriteRam(p, v, op) ==
    /\ writes < MaxWrites
    /\ ram' = [ram EXCEPT ![p] = v]
    /\ held' = [held EXCEPT ![p] = @ \cup {v}]
    /\ recent' = [recent EXCEPT ![p] = @ \cup {v}]
    /\ writes' = writes + 1
    /\ last' = [op |-> op, page |-> p, val |-> v]
    /\ UNCHANGED <<cache, thrown>>

\* Load_store_module store word to RAM; the ROM refuses (Access_fault)
\* and leaves everything as it was, which Hart models
Store(p, v) == p \in RamPages /\ WriteRam(p, v, "store")

\* Emulator_debug::handle_mem_write: a debugger M packet writing RAM
MemWrite(p, v) == p \in RamPages /\ WriteRam(p, v, "mwrite")

\* handle_special_commands, Restart: Block_memory::reset_content drops
\* every RAM page; the fetch cache is left as it is
Restart ==
    /\ writes < MaxWrites
    /\ ram' = [p \in RamPages |-> None]
    /\ held' = [p \in Pages |-> IF p \in RamPages THEN held[p] \cup FillVals ELSE held[p]]
    /\ recent' = [p \in RamPages |-> recent[p] \cup FillVals]
    /\ writes' = writes + 1
    /\ last' = [op |-> "restart", page |-> None, val |-> None]
    /\ UNCHANGED <<cache, thrown>>

\* fence.i: decoded (decode_misc_mem) and then ignored by execute, which
\* never calls Inst_fetch_module::fencei
FenceI ==
    /\ recent' = [p \in RamPages |-> IF ram[p] = None THEN {} ELSE {ram[p]}]
    /\ last' = [op |-> "fencei", page |-> None, val |-> None]
    /\ UNCHANGED <<ram, cache, thrown, writes, held>>

Next ==
    /\ ~thrown
    /\ \/ \E p \in Pages : Fetch(p)
       \/ \E p \in RamPages, v \in Values : Store(p, v) \/ MemWrite(p, v)
       \/ Restart
       \/ FenceI

Spec == Init /\ [][Next]_vars

-----------------------------------------------------------------------------
(* Properties                                                              *)

\* A fetch returns a word of the page it fetched, never one of another page
\* that shares its cache entry: the tag compare of Inst_fetch_module
\* (cache[idx].address != (pc & 0xFFFFF000)) tells aliased pages apart.
FetchOwnPage ==
    last.op = "fetch" => last.val \in held[last.page]

\* After a fence.i, a fetch from RAM returns what the page held at the
\* fence.i or was written to it later (spec 4.5: fence.i marks every cache
\* entry invalid).
FetchAfterFence ==
    (last.op = "fetch" /\ last.page \in RamPages) => last.val \in recent[last.page]

\* A fetch never lets a memory error escape as a C++ exception: errors are
\* mapped to traps at the fetch boundary (spec 5).
FetchNeverThrows == ~thrown
==============================================================================
