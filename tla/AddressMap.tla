----------------------------- MODULE AddressMap -----------------------------
(***************************************************************************)
(* What the simulator makes of an address: the requests of a warp          *)
(* (block::read_mem), the L2 slice of a request                            *)
(* (mem_fetch::get_mem_sub_partition_id), the set of a cache               *)
(* (cache_config::set_index).                                              *)
(*                                                                         *)
(* Shifts and masks by powers of two are divisions and remainders here.    *)
(* Every address the caches see is the address of a line; set_index takes  *)
(* the number of the line, addr >> LOGB2(m_line_size).                     *)
(***************************************************************************)
EXTENDS Integers, Sequences, FiniteSets, SequencesExt

SECTOR_SIZE == 32
line_size   == 128          \* l1_cache_line_size and l2_cache_line_size

-----------------------------------------------------------------------------
(* read_mem: the requests of one memory instruction, for the addresses of  *)
(* its threads: a list of <<line address, sector>> without duplicates.     *)

LineOf(a)   == line_size * (a \div line_size)
SectorIn(a) == (a - LineOf(a)) \div SECTOR_SIZE

Coalesce(list, a) ==
    LET r == <<LineOf(a), SectorIn(a)>>
    IN  IF r \in Range(list) THEN list ELSE Append(list, r)

coalesced_address(addresses) == FoldLeft(Coalesce, <<>>, addresses)

m_sector_address(r) == r[1] + r[2] * SECTOR_SIZE

-----------------------------------------------------------------------------
(* The slice: 22 channels by address bits 10 and up, two slices in each by *)
(* bit 8.  Slices follow the SMs, whose number is 68 here.                 *)

\* Mutant: the slice within the channel is chosen by the lowest bit of the
\* channel's address.
get_mem_sub_partition_id_SameBit(addr) ==
    LET chip == (addr \div 2^10) % 22
        bk   == (addr \div 2^10) % 4
    IN  chip * 2 + (bk % 2) + 68

\* Mutant: both bits of bk are used.
get_mem_sub_partition_id_TwoBits(addr) ==
    LET chip == (addr \div 2^10) % 22
        bk   == (addr \div 2^8) % 4
    IN  chip * 2 + bk + 68

get_mem_sub_partition_id(addr) ==
    LET chip == (addr \div 2^10) % 22
        bk   == (addr \div 2^8) % 4
    IN  chip * 2 + (bk % 2) + 68

-----------------------------------------------------------------------------
(* set_index, for 2^bits sets.                                             *)

Bit(n, i) == (n \div 2^i) % 2

\* The bits of the number above the index that each index bit is the
\* exclusive or of.
Taps == <<{18, 17, 16, 15, 12, 10, 6, 5, 0},
          {15, 13, 12, 11, 10, 7, 5, 1, 0},
          {16, 14, 13, 12, 11, 8, 6, 2, 1},
          {17, 15, 14, 13, 12, 9, 7, 3, 2},
          {18, 16, 15, 14, 13, 10, 8, 4, 3},
          {17, 16, 15, 14, 11, 9, 5, 4}>>

\* The exclusive or of some bits.
Parity(n, bits) == Cardinality({i \in bits : Bit(n, i) = 1}) % 2

\* Mutant: without the bits above the index.
set_index_ipoly_Linear(line) == line % 64

\* HASH_IPOLY_FUNCTION, for 64 sets.
set_index_ipoly(line) ==
    LET high == line \div 64
        new_index == [i \in 0 .. 5 |-> (Bit(line, i) + Parity(high, Taps[i + 1])) % 2]
    IN  new_index[0] + 2 * new_index[1] + 4 * new_index[2]
          + 8 * new_index[3] + 16 * new_index[4] + 32 * new_index[5]
=============================================================================
