--------------------------- MODULE DepthAnalysis ---------------------------
(***************************************************************************)
(* The result of ver_chunk's depth analysis (source/compiler/xbc.c, pass   *)
(* 3) as a function of the chunk: the least intervals closed under every   *)
(* edge, by as many rounds as the chunk has instructions.  A state of the  *)
(* analysis is the set of the reached instructions with their intervals.   *)
(***************************************************************************)
EXTENDS Bytecode, FiniteSetsExt, SequencesExt

At(pc, lo, hi) == [pc |-> pc, lo |-> lo, hi |-> hi]

Carried(code, reached) ==
    UNION {{At(e.to, r.lo + e.min, r.hi + e.max) : e \in Edges(code[r.pc], r.pc)} :
              r \in reached}

Joined(all) ==
    {At(pc, Min({r.lo : r \in {x \in all : x.pc = pc}}),
            Max({r.hi : r \in {x \in all : x.pc = pc}})) : pc \in {r.pc : r \in all}}

Depths(code) ==
    LET after[n \in 0..(Len(code) + 1)] ==
          IF n = 0 THEN {At(1, 0, 0)}
          ELSE LET reached == after[n - 1]
               IN Joined(reached \cup Carried(code, reached))
    IN after[Len(code) + 1]

\* dmin and dmax, -1 where no path leads
AsSeq(f) == SubSeq(f, 1, Len(f))
LoOf(code) == LET d == Depths(code) IN
    AsSeq([pc \in 1..Len(code) |-> Max({r.lo : r \in {x \in d : x.pc = pc}} \cup {-1})])
HiOf(code) == LET d == Depths(code) IN
    AsSeq([pc \in 1..Len(code) |-> Max({r.hi : r \in {x \in d : x.pc = pc}} \cup {-1})])
PeakOf(code) == Max({r.hi : r \in Depths(code)})
=============================================================================
