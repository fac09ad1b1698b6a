----------------------------- MODULE MshrTable -----------------------------
(***************************************************************************)
(* mshr_table (cache.h, cache.cpp): the sectors a cache waits for, each    *)
(* with the requests that wait for it.  std::map<address, list> is a total *)
(* function from sectors to sequences; the empty sequence stands for "no   *)
(* entry" (the code erases an entry with its last request).  m_has_atomic  *)
(* is never read.                                                          *)
(***************************************************************************)
EXTENDS Naturals, Sequences, FiniteSets

EmptyMshr(Sectors) == [x \in Sectors |-> <<>>]

mshr_probe(m, x) == m[x] # <<>>

Entries(m) == {x \in DOMAIN m : m[x] # <<>>}

\* Mutant: one entry too many.
mshr_full_OffByOne(m, x, num_entries, max_merged) ==
    IF mshr_probe(m, x) THEN Len(m[x]) >= max_merged
    ELSE Cardinality(Entries(m)) > num_entries

mshr_full(m, x, num_entries, max_merged) ==
    IF mshr_probe(m, x) THEN Len(m[x]) >= max_merged
    ELSE Cardinality(Entries(m)) >= num_entries

mshr_add(m, x, mf) == [m EXCEPT ![x] = Append(@, mf)]

\* next_access called until probe fails: the whole entry is released.
mshr_release(m, x) == [m EXCEPT ![x] = <<>>]
=============================================================================
