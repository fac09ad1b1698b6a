-------------------------------- MODULE Tlb --------------------------------
(***************************************************************************)
(* tlb (tlb.h, tlb.cpp): one window of addresses around the last address   *)
(* that missed.  The arithmetic is that of unsigned long long: AddrSpace   *)
(* is 2^64 in the program, small in a model.                               *)
(***************************************************************************)
EXTENDS Integers

CONSTANTS
    AddrSpace,      \* number of addresses
    tlb_size,       \* m_size, 32 * 1024 * 1024
    tlb_start       \* the initial m_start_addr, LONG_LONG_MAX

ASSUME TlbAssumption ==
    /\ AddrSpace \in Nat \ {0}
    /\ tlb_size \in 1 .. AddrSpace - 1
    /\ tlb_start \in 0 .. AddrSpace - 1

\* is_hit: m_start_addr - m_size <= addr && addr < m_start_addr + m_size.
is_hit(start, addr) ==
    /\ (start - tlb_size) % AddrSpace <= addr
    /\ addr < (start + tlb_size) % AddrSpace

\* A miss moves the window to the address.
start_after(start, addr) == IF is_hit(start, addr) THEN start ELSE addr
=============================================================================
