---------------------------- MODULE MCAlgorithms ----------------------------
(* Inputs for Algorithms.                                                  *)
EXTENDS Algorithms

\* Files of up to five lines: two sections of numbers and one of strings,
\* the latency table, "####", another mark, a comment, two pairs of one key,
\* and one without a value.
Alphabet == {Comment("//"), Pair("k", "1"), Pair("k", "2"), Pair("j", ""), Mark("##pipeline_units"),
             Mark("##l2_cache_config"), Mark("##gpu_isa_latency"), Mark("####"), Mark("##other")}
ShortFiles == UNION {[1 .. n -> Alphabet] : n \in 0 .. 5}

\* Kernels around the limits of a small SM: partial warps, registers and
\* shared memory from none to more than there are.
SmallKernels == [m_block_size : 1 .. 18, m_num_registers : 0 .. 9, m_shared_mem_bytes : 0 .. 9]

\* Threads of a warp: neighbours, duplicates, other lines, the last channel.
FewThreads == UNION {[1 .. n -> {0, 31, 32, 127, 128, 300, 1023, 21 * 1024 + 768}] : n \in 0 .. 4}
=============================================================================
