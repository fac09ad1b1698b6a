----------------------------- MODULE Algorithms -----------------------------
(***************************************************************************)
(* The computations of the simulator that have no state of their own, one  *)
(* at a time: reading a configuration, the occupancy of an SM, the         *)
(* requests of a warp, the slice and the set of a line.  A behaviour takes  *)
(* one task and does it; the properties compare the result with what it    *)
(* stands for.                                                             *)
(***************************************************************************)
EXTENDS ConfigReader, Occupancy, AddressMap, FiniteSets

CONSTANTS
    Files,          \* configuration files
    Kernels,        \* kernel_info records
    Accesses,       \* sequences of thread addresses
    n_shader, n_mem,
    MaxLine         \* bound: lines below it are looked at for a slice

ASSUME AlgorithmsAssumption ==
    /\ n_shader \in Nat /\ n_mem \in Nat
    /\ Kernels \subseteq KernelInfo
    /\ Accesses \subseteq Seq(Nat)
    /\ Files \subseteq Seq(FileLines)

VARIABLES task, result, done

vars == <<task, result, done>>

Tasks ==
    ({"config"} \X Files) \cup ({"occupancy"} \X Kernels) \cup ({"requests"} \X Accesses)
      \cup ({"slice"} \X (n_shader .. n_shader + n_mem - 1)) \cup ({"stride"} \X (0 .. 19))

Init == task \in Tasks /\ result = "none" /\ done = FALSE

Do(name, value) ==
    /\ task[1] = name /\ ~done
    /\ result' = value
    /\ done' = TRUE
    /\ UNCHANGED task

SliceOf(line) == get_mem_sub_partition_id(line_size * line)

ReadConfig == Do("config", read_config(task[2]))
Occupy     == Do("occupancy", max_block_per_sm(task[2]))
MakeRequests == Do("requests", coalesced_address(task[2]))
\* The sets of a slice that its lines use, and those of 64 lines a power of
\* two apart.
UseSlice == Do("slice", {set_index_ipoly(line) : line \in {l \in 0 .. MaxLine - 1 : SliceOf(l) = task[2]}})
Stride   == Do("stride", {set_index_ipoly(i * 2^task[2]) : i \in 0 .. 63})

Next == ReadConfig \/ Occupy \/ MakeRequests \/ UseSlice \/ Stride

Spec == Init /\ [][Next]_vars

Done(name) == done /\ task[1] = name

-----------------------------------------------------------------------------
(* Properties.                                                             *)

\* A file of the form of gpu.config is read to its end, and every map holds
\* what the file says: each section its own pairs, the first one for a key,
\* although key, value and single_line are shared by all the loops and one
\* section may follow another without "####".
ConfigAsWritten ==
    Done("config") /\ WellFormed(task[2]) =>
        /\ ~Stuck(result)
        /\ result.section # Failed
        /\ \A m \in Header \cup {Top} : result.maps[m] = Meaning(task[2], m)

\* max_block_per_sm is the number of blocks that fit, neither more nor
\* less: it is 0, and gpu_cycle then never ends, just when not even one
\* block fits.
OccupancyExact ==
    Done("occupancy") =>
        \A n \in 0 .. max_active_blocks_per_SM + 1 : Fits(task[2], n) <=> n <= result

\* Every thread of the warp is served by exactly one request, however the
\* threads share lines and sectors, and the request goes to an L2 slice (the
\* devices behind those of the SMs), the same one for all sectors of a line:
\* only there can a load find what a fill of the line brought.
RoutedToSlice ==
    Done("requests") =>
        \A a \in Range(task[2]) :
            LET Start(k)  == m_sector_address(result[k])
                serving   == {k \in DOMAIN result : Start(k) <= a /\ a < Start(k) + SECTOR_SIZE}
            IN  /\ Cardinality(serving) = 1
                /\ \A k \in serving :
                      /\ get_mem_sub_partition_id(Start(k)) \in n_shader .. n_shader + n_mem - 1
                      /\ get_mem_sub_partition_id(Start(k)) = SliceOf(a \div line_size)

\* Every slice gets lines, and they use all its sets: the bits that choose
\* the slice do not leave sets of it unused.
SliceUsesAllSets == Done("slice") => result = 0 .. 63

\* The hash is a polynomial remainder, so 64 lines at any distance that is a
\* power of two are in 64 different sets.
StridesSpread == Done("stride") => Cardinality(result) = 64

=============================================================================
