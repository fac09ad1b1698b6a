----------------------------- MODULE MCStartUp -----------------------------
(* Instances of StartUp for TLC: the files the tracing tool may leave for  *)
(* a few kernels.  A kernel gives, for each block and warp, the sequence   *)
(* of instructions the warp executes.                                      *)
EXTENDS StartUp

LD(a)  == [pc |-> a, memory |-> TRUE]
ALU(a) == [pc |-> a, memory |-> FALSE]

\* One program for all blocks: warp 0 runs a loop of two rounds, warp 1
\* has the same pc once.
Loop  == [b \in {0, 1} |-> [w \in {0, 1} |->
             IF w = 0 THEN <<LD(1), ALU(2), LD(1)>> ELSE <<LD(1)>>]]

\* Block 0 makes no access; the warps of block 1 share a loop.
Silent == [b \in {0, 1} |-> [w \in {0, 1} |->
             IF b = 0 THEN <<ALU(2)>> ELSE <<LD(1), LD(1)>>]]

\* More blocks than the SMs take at first.
Wide  == [b \in 0 .. 5 |-> [w \in {0} |-> <<LD(1)>>]]

Pairs(kernel) == UNION {{b} \X DOMAIN kernel[b] : b \in DOMAIN kernel}

\* All interleavings of the warps in W, each as often as it has instructions
\* in T: sequences of warps.
Orders(W, Len_(_)) ==
    {s \in [1 .. FoldSet(LAMBDA w, sum : sum + Len_(w), 0, W) -> W] :
        \A w \in W : Cardinality({k \in DOMAIN s : s[k] = w}) = Len_(w)}

\* The lines in the order s, the j-th line of a warp being positions[w][j] of
\* what it executed.
Written(kernel, s, Positions(_)) ==
    [k \in DOMAIN s |->
        LET w == s[k]
            n == Positions(w)[Cardinality({j \in 1 .. k : s[j] = w})]
        IN  [header |-> "", block |-> w[1], warp |-> w[2], n |-> n,
             pc |-> kernel[w[1]][w[2]][n].pc, memory |-> kernel[w[1]][w[2]][n].memory]]

MemFiles(kernel) ==
    LET Accessing(w) == SetToSortSeq({n \in DOMAIN kernel[w[1]][w[2]] :
                                        kernel[w[1]][w[2]][n].memory}, <)
        Count(w) == Len(Accessing(w))
    IN  {Written(kernel, s, Accessing) : s \in Orders(Pairs(kernel), Count)}

\* The instruction file of the blocks B: warp by warp, and in turn.
SassFile(kernel, B) ==
    LET W      == SetToSeq({w \in Pairs(kernel) : w[1] \in B})
        All(w) == [n \in DOMAIN kernel[w[1]][w[2]] |-> n]
        one    == FlattenSeq([i \in DOMAIN W |-> [n \in DOMAIN All(W[i]) |-> W[i]]])
    IN  <<[header |-> "grid_size", value |-> 1],
          [header |-> "grid_size", value |-> Cardinality(DOMAIN kernel)]>>
            \o Written(kernel, one, All)

Kernel(mode, kernel, mems) ==
    {[block_sim_mode |-> mode, mem |-> mem,
      sass |-> SassFile(kernel, IF mode = 0 THEN {0} ELSE DOMAIN kernel)] : mem \in mems}

InBlockOrder(kernel) == {m \in MemFiles(kernel) :
                            \A j, k \in DOMAIN m : j < k => m[j].block <= m[k].block}

Kernels ==
    Kernel(0, Loop, MemFiles(Loop))
        \cup Kernel(1, Loop, {m \in MemFiles(Loop) : m[1].block # m[2].block})
        \cup Kernel(1, Silent, MemFiles(Silent))
        \cup Kernel(0, Wide, InBlockOrder(Wide))
=============================================================================
