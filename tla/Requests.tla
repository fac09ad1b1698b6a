------------------------------ MODULE Requests ------------------------------
(***************************************************************************)
(* mem_fetch (mem_fetch.h): a memory request of one warp for one sector of *)
(* one cache line.  The fields that never change after the constructor are *)
(* constants here.  An address is the address of a line.                   *)
(***************************************************************************)
EXTENDS Naturals

CONSTANTS
    MemFetch,           \* the requests
    LineAddr,           \* the lines they are for
    Sector,             \* sector numbers, 0 .. SECTOR_CHUNCK_SIZE - 1
    m_address,          \* the line of a request
    m_sector_mask,      \* its sector (a number, despite the name)
    is_write            \* m_access_type: a store

VARIABLE m_tlb_hit      \* set by the L1 cache on a miss, read by the L2 cache

ASSUME RequestsAssumption ==
    /\ LineAddr \subseteq Nat \ {0}
    /\ m_address     \in [MemFetch -> LineAddr]
    /\ m_sector_mask \in [MemFetch -> Sector]
    /\ is_write      \in [MemFetch -> BOOLEAN]

\* m_sector_address, what an MSHR is indexed by.
SectorAddr       == LineAddr \X Sector
m_sector_address(mf) == <<m_address[mf], m_sector_mask[mf]>>
=============================================================================
