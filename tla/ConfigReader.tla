---------------------------- MODULE ConfigReader ----------------------------
(***************************************************************************)
(* gpu_config::read_config (config_reader.cpp): a configuration file into  *)
(* maps.  A line is a comment ("//"), a pair "key:value" (in the table of  *)
(* instruction latencies "opcode latency unit"), or a mark: a line that    *)
(* begins with "##" and names a section, "####", or something else.        *)
(*                                                                         *)
(* The code is four nested loops that share the variables single_line, key *)
(* and value; here it is one step per line, and a fold over the file.      *)
(***************************************************************************)
EXTENDS Naturals, Sequences, FiniteSets, SequencesExt

\* The sections in the order in which read_config tests for them.
SectionNames == <<"##pipeline_units", "##compute_capability",
                  "##l1_cache_config", "##l2_cache_config", "##gpu_isa_latency">>
Header == Range(SectionNames)
EndMark == "####"
IsaTable == "##gpu_isa_latency"
Top     == "m_gpu_config"           \* outside of all sections
Failed  == "stoi fails"             \* an exception nobody catches

Position(name) == CHOOSE i \in 1 .. 5 : SectionNames[i] = name

Comment(text)    == [kind |-> "comment", key |-> text, value |-> ""]
Pair(key, value) == [kind |-> "pair", key |-> key, value |-> value]
Mark(name)       == [kind |-> "mark", key |-> name, value |-> ""]
FileLines        == [kind : {"comment", "pair", "mark"}, key : STRING, value : STRING]

\* What the reader carries from line to line: the section it is in, the
\* variable value, which keeps its value when a line has no ":", and the
\* maps, m_gpu_config under Top.
NewReader == [section |-> Top, value |-> "",
              maps |-> [m \in Header \cup {Top} |-> <<>>]]

\* std::map::insert does nothing when the key is there.
insert(r, m, key, value) ==
    [r EXCEPT !.maps[m] = [k \in DOMAIN @ \cup {key} |-> IF k \in DOMAIN @ THEN @[k] ELSE value]]

\* A section begins: its lines are next.
Enter(r, name) == [r EXCEPT !.section = name]

\* A line outside the sections; key and value are new variables there.
TopMark(r, name) ==
    IF name = EndMark THEN r
    ELSE IF name \in Header THEN Enter([r EXCEPT !.value = ""], name)
    ELSE insert(r, Top, name, "")

TopLine(r, line) ==
    CASE line.kind = "comment" -> r
      [] line.kind = "pair"    -> insert(r, Top, line.key, line.value)
      [] line.kind = "mark"    -> TopMark(r, line.key)

\* Mutant: a section is left and never another one opened.
Leave_NoNext(r, name) ==
    IF name = EndMark THEN Enter(r, Top) ELSE insert(Enter(r, Top), Top, name, r.value)

\* A mark ends one of the first four sections.  Only the tests further down
\* are still to come: the header of a later section opens it, that of an
\* earlier one is taken for a pair without a value.
Leave(r, name) ==
    CASE name = EndMark -> Enter(r, Top)
      [] name \in Header /\ Position(name) > Position(r.section) -> Enter(r, name)
      [] OTHER -> insert(Enter(r, Top), Top, name, r.value)

\* The value of a line in a section; a line without ":" leaves the last one.
ValueAfter(r, line) == IF line.kind = "pair" THEN line.value ELSE r.value

\* A line in one of the first four sections; a comment is no exception.
\* The first two sections are of numbers.
SectionLine(r, line) ==
    LET value == ValueAfter(r, line)
    IN  IF line.kind = "mark" THEN Leave(r, line.key)
        ELSE IF value = "" /\ Position(r.section) <= 2 THEN Enter(r, Failed)
        ELSE insert([r EXCEPT !.value = value], r.section, line.key, value)

\* A line of the latency table: only "####" ends it.
IsaLine(r, line) ==
    CASE line.kind = "pair"  -> insert(r, IsaTable, line.key, line.value)
      [] line.kind = "mark" /\ line.key = EndMark -> Enter(r, Top)
      [] OTHER -> r

ReadLine(r, line) ==
    CASE r.section = Failed   -> r
      [] r.section = Top      -> TopLine(r, line)
      [] r.section = IsaTable -> IsaLine(r, line)
      [] OTHER                -> SectionLine(r, line)

read_config(file) == FoldLeft(ReadLine, NewReader, file)

\* The loop of a section ends only at a mark.  At the end of the file it
\* goes on for ever.
Stuck(r) == r.section \in Header \ {IsaTable}

-----------------------------------------------------------------------------
(* What the file says, without the reader.                                 *)

\* The section line k is in: that of the last mark before it that begins or
\* ends one, where the latency table is closed by "####" only.
Marks(file) == {k \in DOMAIN file : file[k].kind = "mark"}

Closing(file, j) ==
    LET isas == {k \in Marks(file) : k < j /\ file[k].key = IsaTable}
        ends == {k \in Marks(file) : k < j /\ file[k].key = EndMark}
        InTable == \E k \in isas : \A e \in ends : e < k
    IN  file[j].key = EndMark \/ (file[j].key \in Header /\ ~InTable)

SectionOf(file, k) ==
    LET before == {j \in Marks(file) : j < k /\ Closing(file, j)}
    IN  IF before = {} THEN Top
        ELSE LET name == file[CHOOSE j \in before : \A i \in before : i <= j].key
             IN  IF name = EndMark THEN Top ELSE name

\* The pair for a key that a section holds is the first one.
Meaning(file, m) ==
    LET here == {k \in DOMAIN file : file[k].kind = "pair" /\ SectionOf(file, k) = m}
        First(key) == CHOOSE k \in here : /\ file[k].key = key
                                          /\ \A j \in here : file[j].key = key => k <= j
    IN  [key \in {file[k].key : k \in here} |-> file[First(key)].value]

\* A file like gpu.config and gpu_isa_latency.config: no comment inside the
\* first four sections, other marks in the latency table only, sections that
\* follow each other without "####" in the order of the code, a value for
\* every key of the two sections of numbers, and the last section closed.
WellFormed(file) ==
    /\ \A k \in DOMAIN file :
         LET m == SectionOf(file, k) IN
         /\ file[k].kind = "comment" => m \in {Top, IsaTable}
         /\ file[k].kind = "mark" /\ file[k].key \notin Header \cup {EndMark} => m = IsaTable
         /\ file[k].kind = "mark" /\ file[k].key \in Header /\ m \in Header \ {IsaTable}
              => Position(file[k].key) > Position(m)
         /\ file[k].kind = "pair" /\ m \in Header \ {IsaTable} /\ Position(m) <= 2
              => file[k].value # ""
    /\ SectionOf(Append(file, Mark("")), Len(file) + 1) \in {Top, IsaTable}
=============================================================================
