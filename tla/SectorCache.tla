---------------------------- MODULE SectorCache ----------------------------
(***************************************************************************)
(* tag_array and sector_cache_block (cache.h, cache.cpp): the tags of a    *)
(* set-associative cache whose lines are divided into sectors.  The module *)
(* has no state: a tag array is a value, an operation of the code is an    *)
(* operator that returns what it finds or the array it leaves.             *)
(*                                                                         *)
(* A configuration c is a record                                           *)
(*   [m_assoc, m_replacement_policy, set_index, sectors]                   *)
(* where set_index maps a line address to its set (linear and polynomial   *)
(* hash alike) and sectors is the set of sector numbers of a line.         *)
(* A tag array t maps a set to its ways and a way to a line                *)
(*   [m_tag, m_status, last_access, alloc_time].                           *)
(* The times nobody reads (sector times, fill times) are left out, as is   *)
(* m_readable, which is never made false.                                  *)
(***************************************************************************)
EXTENDS Naturals, FiniteSets, FiniteSetsExt

\* enum cache_block_state.
INVALID  == "INVALID"
RESERVED == "RESERVED"
VALID    == "VALID"
MODIFIED == "MODIFIED"
BlockStates == {INVALID, RESERVED, VALID, MODIFIED}

\* enum cache_request_status, what a probe returns.
HIT              == "HIT"
HIT_RESERVED     == "HIT_RESERVED"
MISS             == "MISS"
RESERVATION_FAIL == "RESERVATION_FAIL"
SECTOR_MISS      == "SECTOR_MISS"

Ways(c) == 0 .. c.m_assoc - 1
Sets(c) == {c.set_index[a] : a \in DOMAIN c.set_index}

-----------------------------------------------------------------------------
(* sector_cache_block: one line.                                           *)

\* The tag of a line never allocated, m_tag = 0, is the tag of address 0 (no
\* request of a kernel is for the first 128 bytes of the memory).
NoTag == 0

NewLine(c) == [m_tag       |-> NoTag,
               m_status    |-> [x \in c.sectors |-> INVALID],
               last_access |-> 0,
               alloc_time  |-> 0]

is_invalid_line(l)  == \A x \in DOMAIN l.m_status : l.m_status[x] = INVALID
is_reserved_line(l) == \E x \in DOMAIN l.m_status : l.m_status[x] = RESERVED

\* Mutant: every sector of the line is reserved.
allocate_line_Whole(l, a, time, x) ==
    [m_tag       |-> a,
     m_status    |-> [y \in DOMAIN l.m_status |-> RESERVED],
     last_access |-> time,
     alloc_time  |-> time]

allocate_line(l, a, time, x) ==
    [m_tag       |-> a,
     m_status    |-> [y \in DOMAIN l.m_status |-> IF y = x THEN RESERVED ELSE INVALID],
     last_access |-> time,
     alloc_time  |-> time]

\* Neither the tag nor the allocation time of the line changes.
allocate_sector(l, time, x) ==
    [l EXCEPT !.m_status[x] = RESERVED, !.last_access = time]

set_status(l, status, x)       == [l EXCEPT !.m_status[x] = status]
set_last_access_time(l, time)  == [l EXCEPT !.last_access = time]

\* Mutant: an enumerator of the wrong enum (both are plain integers in C++).
fill_WrongEnum(l, x) == set_status(l, HIT, x)

fill(l, x) == set_status(l, VALID, x)

-----------------------------------------------------------------------------
(* tag_array.                                                              *)

NewTagArray(c) == [s \in Sets(c) |-> [w \in Ways(c) |-> NewLine(c)]]

Line(c, t, a, w) == t[c.set_index[a]][w]

\* m_lines[idx] with idx the way w of the set of address a.
WithLine(c, t, a, w, l) == [t EXCEPT ![c.set_index[a]][w] = l]

\* Mutant: the youngest one.
Victim_Youngest(c, t, a, candidates) ==
    LET age(w) == IF c.m_replacement_policy = "LRU"
                  THEN Line(c, t, a, w).last_access
                  ELSE Line(c, t, a, w).alloc_time
    IN  CHOOSE w \in candidates : \A v \in candidates :
            age(w) > age(v) \/ (age(w) = age(v) /\ w <= v)

\* The replacement candidate among the valid lines: the oldest access (LRU)
\* or allocation (FIFO), the first of them in way order on a tie.
Victim(c, t, a, candidates) ==
    LET age(w) == IF c.m_replacement_policy = "LRU"
                  THEN Line(c, t, a, w).last_access
                  ELSE Line(c, t, a, w).alloc_time
    IN  CHOOSE w \in candidates : \A v \in candidates :
            age(w) < age(v) \/ (age(w) = age(v) /\ w <= v)

\* tag_array_probe: what the lookup of sector x of line a finds, and the way
\* it leaves in idx.  A line answers when its tag matches and it is not
\* invalid as a whole; the first one in way order decides.
tag_array_probe(c, t, a, x) ==
    LET line(w)    == Line(c, t, a, w)
        matching   == {w \in Ways(c) : line(w).m_tag = a /\ ~is_invalid_line(line(w))}
        unreserved == {w \in Ways(c) : ~is_reserved_line(line(w))}
        invalid    == {w \in Ways(c) : is_invalid_line(line(w))}
    IN  IF matching # {}
        THEN LET w == Min(matching) IN
             [status |-> CASE line(w).m_status[x] = RESERVED -> HIT_RESERVED
                           [] line(w).m_status[x] = INVALID  -> SECTOR_MISS
                           [] OTHER                          -> HIT,
              idx |-> w]
        ELSE IF unreserved = {}
        THEN [status |-> RESERVATION_FAIL, idx |-> 0]
        ELSE [status |-> MISS,
              idx    |-> IF invalid # {} THEN Max(invalid)
                         ELSE Victim(c, t, a, unreserved)]

\* tag_array_probe_idle: the ways that were never allocated; the code takes
\* the first one.
IdleWays(c, t, a) == {w \in Ways(c) : is_invalid_line(Line(c, t, a, w))}

\* tag_array_access: only a hit changes anything, the time of the last access.
tag_array_access(c, t, a, x, time) ==
    LET p == tag_array_probe(c, t, a, x)
    IN  IF p.status \in {HIT, HIT_RESERVED}
        THEN WithLine(c, t, a, p.idx,
                      set_last_access_time(Line(c, t, a, p.idx), time))
        ELSE t

\* tag_array_fill: allocate what is missing, then mark the sector VALID,
\* whatever it was before.
tag_array_fill(c, t, a, x, time) ==
    LET p == tag_array_probe(c, t, a, x)
        l == Line(c, t, a, p.idx)
        allocated == CASE p.status = MISS        -> allocate_line(l, a, time, x)
                       [] p.status = SECTOR_MISS -> allocate_sector(l, time, x)
                       [] OTHER                  -> l
    IN  WithLine(c, t, a, p.idx, fill(allocated, x))

-----------------------------------------------------------------------------
\* A sector the cache holds, and how many lines hold it.
Holders(c, t, a, x) ==
    {w \in Ways(c) : /\ Line(c, t, a, w).m_tag = a
                     /\ Line(c, t, a, w).m_status[x] \in {VALID, MODIFIED}}

TagArrayOK(c, t) ==
    /\ DOMAIN t = Sets(c)
    /\ \A s \in Sets(c) :
         /\ DOMAIN t[s] = Ways(c)
         /\ \A w \in Ways(c) :
              /\ t[s][w].m_tag \in DOMAIN c.set_index \cup {NoTag}
              /\ t[s][w].m_status \in [c.sectors -> BlockStates]
              /\ t[s][w].last_access \in Nat
              /\ t[s][w].alloc_time \in Nat
=============================================================================
