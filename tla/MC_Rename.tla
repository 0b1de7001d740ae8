----------------------------- MODULE MC_Rename -----------------------------
(***************************************************************************)
(* Renaming with few registers: every register is hot, so that several     *)
(* writers of one register are in flight and retire together.              *)
(*                                                                         *)
(* The code compares tags only for equality. TLC therefore tells states    *)
(* apart by View, which replaces every tag by the places that name it, in  *)
(* the tables, the free list and the strays: a tag lost or held twice      *)
(* still gives a state of its own.                                         *)
(***************************************************************************)
EXTENDS RenameProps, Sequences

\* Every instruction may write any register, or none.
MCDecoded == [rd : Regs, wfi : {FALSE}]

\* The places that name a tag.
Places ==
    ({"amt", "mt"} \X Threads \X Regs) \cup ({"tag", "old"} \X Threads \X Entries)

TagAt(p) ==
    CASE p[1] = "amt" -> amt[p[2]][p[3]]
      [] p[1] = "mt"  -> mt[p[2]][p[3]].tag
      [] p[1] = "tag" -> rob[p[2]].array[p[3]].inst.tag
      [] p[1] = "old" -> rob[p[2]].array[p[3]].inst.tag_old

TagView ==
    LET at == [p \in Places |-> TagAt(p)]
        listed == {fl[f].tag : f \in FLEntries} \cup {r.tag : r \in strays}
    IN  [x \in {at[p] : p \in Places} \cup listed \cup {0} |->
           [zero |-> x = 0,
            names |-> {p \in Places : at[p] = x},
            listed |-> {f \in FLEntries : fl[f].tag = x},
            strays |-> NamedBy({r \in strays : r.tag = x})]]

\* The rollover bits are only compared, and a result is only read when complete.
EntryView(e) ==
    <<e.valid, e.complete, e.complete /\ e.br_result, e.inst.rd>>

View ==
    LET tv == TagView
    IN  <<{tv[x] : x \in DOMAIN tv},
          [f \in FLEntries |-> IF fl[f].valid THEN Threads ELSE {fl[f].thread_idx}],
          struck,
          avail_num,
          [t \in Threads |-> [r \in Regs |-> mt[t][r].tag_ready]],
          [t \in Threads |->
             <<rob[t].head, rob[t].tail, rob[t].head_rollover = rob[t].tail_rollover,
               [i \in Entries |-> EntryView(rob[t].array[i])]>>]>>

\* Bounds: strays under way at a time; instructions in flight while one is, of which
\* the free list's two entries let two have a tag. The strays are loads of thread 0.
\* What becomes of a struck thread is left to the proofs.
MaxStrays == 1
MaxBusy == 2

InBounds ==
    /\ Cardinality(strays) <= MaxStrays
    /\ \A r \in strays : r.thread_idx = 0
    /\ strays # {} => Cardinality({p \in Threads \X Entries :
                                     rob[p[1]].array[p[2]].valid}) <= MaxBusy
    /\ struck = {}
=============================================================================
