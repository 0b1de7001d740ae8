------------------------------ MODULE MC_MSHR ------------------------------
(* Three entries besides the one that is tied off, for three misses at once. *)
(* The data never decide what an entry does next, so that two states that    *)
(* differ only in data that stand in the same relation to the reference      *)
(* memory have the same future: View keeps that relation. Once a block is    *)
(* spoiled, the run goes no further (NoneSpoiled).                           *)
EXTENDS MSHR, TLC

Swaps == Permutations(Blocks)

Agrees(b, d) == IF d = NoData THEN {} ELSE {<<l, d[l] = ref[b][l]>> : l \in Lanes}

AgreesIn(e, v) ==
    IF v = NoValue THEN "none"
    ELSE IF v = ref[mshr[e].blk][mshr[e].lane] THEN "latest" ELSE "other"

\* Only the entries that wait for e read its cp_data.
CpAgrees(e) ==
    {Agrees(mshr[f].blk, cp_data[e]) :
        f \in {f \in In("WAIT_DEPEND") : mshr[f].link_idx = e}}

EntryView(e) ==
    <<[mshr[e] EXCEPT !.value = "", !.data = "", !.evict_data = ""],
      AgreesIn(e, mshr[e].value), AgreesIn(e, expect[e]),
      Agrees(mshr[e].blk, mshr[e].data), Agrees(mshr[e].blk, loaded[e]),
      Agrees(mshr[e].evict_blk, mshr[e].evict_data), CpFlag(e), CpAgrees(e)>>

View ==
    <<[e \in Entries |-> EntryView(e)],
      [i \in DOMAIN cache |-> <<cache[i].blk, Agrees(cache[i].blk, cache[i].data)>>],
      [b \in Blocks |-> Agrees(b, memory[b])], top, spoiled>>

NoneSpoiled == spoiled = {}
=============================================================================
