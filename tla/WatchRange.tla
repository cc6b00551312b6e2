------------------------------ MODULE WatchRange ------------------------------
(***************************************************************************)
(* The debugger's watchpoints: std::map<Address_range, Watchpoint> with    *)
(* the partial-order comparator of Address_range (addr-range.hpp), the Z2- *)
(* Z4 / z2-z4 handlers that insert and erase, and check_watchpoint, which  *)
(* looks up every cycle's load or store.  The map is its in-order key      *)
(* sequence; its red-black tree, of at most MaxWatch nodes, is any         *)
(* balanced tree over that sequence, and lookups and inserts walk it as    *)
(* libstdc++'s _M_lower_bound and _M_get_insert_unique_pos do.  Addresses  *)
(* are u32 words scaled down to Mod = 2^w, so that start + size wraps as   *)
(* it does at 2^32.                                                        *)
(***************************************************************************)
EXTENDS Naturals, Sequences, FiniteSets, SequencesExt

CONSTANTS
    Mod,          \* the word size 2^w standing for 2^32
    WatchStarts,  \* addresses GDB sets watchpoints at
    WatchLens,    \* their lengths
    AccessAddrs,  \* effective addresses of the program's loads and stores
    AccessLens,   \* their sizes: core::get_size is 1, 2 or 4
    MaxWatch,     \* bound on the number of watchpoints
    MaxOps        \* bound on Z/z packets

ASSUME /\ Mod \in Nat \ {0}
       /\ WatchStarts \subseteq 0..Mod-1 /\ AccessAddrs \subseteq 0..Mod-1
       /\ WatchLens \subseteq 0..Mod-1 /\ AccessLens \subseteq {1, 2, 4}
       /\ MaxWatch \in 1..3

\* Address_range::operator<=>: containment either way is equivalent, a
\* range wholly below (end < other.start) is less, the rest is unordered;
\* end = start + size in u32 arithmetic
End(r) == (r.start + r.size) % Mod
Compare(a, b) ==
    CASE a.start <= b.start /\ End(b) <= End(a) -> "equivalent"
      [] b.start <= a.start /\ End(a) <= End(b) -> "equivalent"
      [] End(b) < a.start -> "greater"
      [] End(a) < b.start -> "less"
      [] OTHER -> "unordered"

\* std::less<Address_range>: a < b iff (a <=> b) == less
Less(a, b) == Compare(a, b) = "less"

\* the roots a red-black tree over n in-order nodes can have (n <= 3)
Roots(n) == IF n = 2 THEN {1, 2} ELSE {(n + 1) \div 2}

\* _M_lower_bound: descend, keeping the last node that is not less than k;
\* the in-order position of the result, or Len(s) + 1 for end()
RECURSIVE LowerBound(_, _)
LowerBound(s, k) ==
    IF s = <<>> THEN {1}
    ELSE UNION {IF ~Less(s[i], k)
                THEN {IF j = i THEN i ELSE j : j \in LowerBound(SubSeq(s, 1, i - 1), k)}
                ELSE {i + j : j \in LowerBound(SubSeq(s, i + 1, Len(s)), k)}
                : i \in Roots(Len(s))}

\* std::map::find: lower_bound, then end() if k < *it
Find(s, k) ==
    {IF j > Len(s) THEN 0 ELSE IF Less(k, s[j]) THEN 0 ELSE j : j \in LowerBound(s, k)}

\* _M_get_insert_unique_pos, first part: go left when k < node; the gap
\* (in-order position) where the walk falls off the tree
RECURSIVE Gap(_, _)
Gap(s, k) ==
    IF s = <<>> THEN {1}
    ELSE UNION {IF Less(k, s[i])
                THEN Gap(SubSeq(s, 1, i - 1), k)
                ELSE {i + j : j \in Gap(SubSeq(s, i + 1, Len(s)), k)}
                : i \in Roots(Len(s))}

\* second part: insert unless the in-order predecessor is not less than k
InsertsAt(s, k, g) == g = 1 \/ Less(s[g - 1], k)

AddrRange(st, sz) == [start |-> st, size |-> sz]
Watch == [start : 0..Mod-1, size : 1..Mod-1, r : BOOLEAN, w : BOOLEAN]

VARIABLES
    wps,       \* Emulator_debug::watchpoints, in key order
    believed,  \* ghost: the watchpoints GDB was told are set
    last,      \* the last check_watchpoint: the access and what it found
    ops        \* Z/z packets handled

vars == <<wps, believed, last, ops>>

NoCheck == [kind |-> "none"]
Checks == [kind : {"load", "store"}, addr : 0..Mod-1, size : AccessLens,
           ran : BOOLEAN, hit : BOOLEAN, found : Watch \cup {NoCheck}, at : 0..MaxOps]

TypeOK ==
    /\ wps \in Seq(Watch) /\ Len(wps) <= MaxWatch
    /\ believed \subseteq Watch
    /\ last \in Checks \cup {NoCheck}
    /\ ops \in 0..MaxOps

Init ==
    /\ wps = <<>>
    /\ believed = {}
    /\ last = NoCheck
    /\ ops = 0

-----------------------------------------------------------------------------
(* Emulator_debug handlers                                                 *)

RefusedNoLenCheck(len, rd, wr) == ~(rd \/ wr)

\* handle_add_watchpoint refuses a zero length or no direction
Refused(len, rd, wr) == len = 0 \/ ~(rd \/ wr)

\* otherwise watchpoints.emplace, and OK whether or not it inserted
AddWatch(st, len, rd, wr) ==
    /\ ops < MaxOps
    /\ ~Refused(len, rd, wr)
    /\ LET e == [start |-> st, size |-> len, r |-> rd, w |-> wr]
       IN /\ \E g \in Gap(wps, AddrRange(st, len)) :
               wps' = IF InsertsAt(wps, AddrRange(st, len), g)
                      THEN InsertAt(wps, g, e) ELSE wps
          /\ Len(wps') <= MaxWatch
          /\ believed' = believed \cup {e}
    /\ ops' = ops + 1
    /\ UNCHANGED last

\* the refused Z packets: an error reply and no state change
AddRefused(st, len, rd, wr) ==
    /\ ops < MaxOps
    /\ Refused(len, rd, wr)
    /\ ops' = ops + 1
    /\ UNCHANGED <<wps, believed, last>>

\* handle_remove_watchpoint: find, error if end(), else erase what it found
RemoveWatch(st, len) ==
    /\ ops < MaxOps
    /\ \E j \in Find(wps, AddrRange(st, len)) :
          /\ wps' = IF j = 0 THEN wps ELSE RemoveAt(wps, j)
          /\ believed' = IF j = 0 THEN believed
                         ELSE {b \in believed : b.start # st \/ b.size # len}
    /\ ops' = ops + 1
    /\ UNCHANGED last

\* a cycle of run_until_trap / run_steps with a load or store, then
\* check_watchpoint(result).  The access ran, or the cycle trapped before
\* the memory stage (a timer interrupt: alu_result is still 0) while the
\* step record keeps the decoded memory opcode.  last.addr is the address
\* looked up and reported, result.alu_result.
CheckWatchpoint(kind, a, sz, ran) ==
    LET addr == IF ran THEN a ELSE 0
        wr   == kind = "store"
        rd   == kind = "load"
    IN \E j \in Find(wps, AddrRange(addr, sz)) :
         LET hit == j # 0 /\ ((wr /\ wps[j].w) \/ (rd /\ wps[j].r))
         IN last' = [kind |-> kind, addr |-> addr, size |-> sz, ran |-> ran, hit |-> hit,
                     found |-> IF j = 0 THEN NoCheck ELSE wps[j], at |-> ops]
    /\ UNCHANGED <<wps, believed, ops>>

Next ==
    \/ \E st \in WatchStarts, len \in WatchLens, rd, wr \in BOOLEAN :
          AddWatch(st, len, rd, wr) \/ AddRefused(st, len, rd, wr)
    \/ \E st \in WatchStarts, len \in WatchLens : RemoveWatch(st, len)
    \/ \E kind \in {"load", "store"}, a \in AccessAddrs, sz \in AccessLens, ran \in BOOLEAN :
          CheckWatchpoint(kind, a, sz, ran)

Spec == Init /\ [][Next]_vars

-----------------------------------------------------------------------------
(* Properties                                                              *)

Overlaps(x, y) == \E b \in 0..Mod-1 :
    /\ (b - x.start + Mod) % Mod < x.size
    /\ (b - y.start + Mod) % Mod < y.size

\* A reported watchpoint hit is one the access touches: the access range
\* and the watched range share a byte (spec 4.15: lookup by address).
WatchHitOverlaps ==
    last # NoCheck /\ last.hit => Overlaps(AddrRange(last.addr, last.size), last.found)

\* A watchpoint hit is reported only for a load or store that ran.
WatchHitRan == last # NoCheck /\ last.hit => last.ran

\* A load or store that ran and touches a watchpoint GDB was told is set,
\* in a direction it watches, is reported.
BelievedWatchReported ==
    (last # NoCheck /\ last.ran /\ last.at = ops) =>
        ((\E b \in believed :
            /\ Overlaps(AddrRange(last.addr, last.size), b)
            /\ (IF last.kind = "store" THEN b.w ELSE b.r)) => last.hit)
==============================================================================
