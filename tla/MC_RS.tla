------------------------------- MODULE MC_RS --------------------------------
(* A small station: tags, threads and classes of unit are only compared.     *)
EXTENDS RS, TLC

Swaps ==
    Permutations(Tags) \cup Permutations(RSThreads) \cup Permutations(UnitClasses)

\* Of what was issued, only whether it carries its operands matters from then on.
View ==
    <<rs_array, valid_cnt, cod, registers, owner, flying, strays, struck,
      ReadsItsProducer>>

\* MaxStrays results are under way of instructions that are gone, and no thread is
\* struck: what follows when one is, is left to the proofs.
MaxStrays == 1

FewStrays == Cardinality(strays) <= MaxStrays

Harmless ==
    \E late \in SUBSET strays : \E hit \in SUBSET {r.thread_idx : r \in late} :
        Struck(late, hit) = {} /\ Cycle(late, hit)

UnstruckSpec == RSInit /\ [][Harmless]_rsVars
=============================================================================
