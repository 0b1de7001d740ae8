---------------------------- MODULE CommitQueue ----------------------------
(***************************************************************************)
(* What a reorder buffer promises, without its ring: the instructions of a *)
(* thread wait in program order, complete in any order, and leave only     *)
(* from the front and only once complete. The first one that leaves with a *)
(* wrong prediction takes all the younger ones with it; nothing leaves     *)
(* after a WFI has.                                                        *)
(***************************************************************************)
EXTENDS Integers, Sequences

CONSTANTS CAPACITY, DP_NUM, RT_NUM, Result

VARIABLES
    queue,   \* program order: records [inst, br_predict, wfi, done, result]
    halted   \* a WFI has retired

cqVars == <<queue, halted>>

Wrong(q) == q.br_predict # q.result.br_result

\* k instructions may leave from the front of the queue together.
MayCommit(k) ==
    /\ k <= Len(queue)
    /\ k > 0 => ~halted
    /\ \A i \in 1..k : queue[i].done
    /\ \A i \in 1..(k - 1) : ~Wrong(queue[i]) /\ ~queue[i].wfi

CQInit == queue = <<>> /\ halted = FALSE

\* One clock: the k oldest leave, some of the others complete, new ones enter.
Clock ==
    \E k \in 0..RT_NUM :
        /\ MayCommit(k)
        /\ halted' = (halted \/ (k > 0 /\ queue[k].wfi))
        /\ IF k > 0 /\ Wrong(queue[k])
           THEN queue' = <<>>
           ELSE /\ Len(queue') <= CAPACITY
                /\ Len(queue') - (Len(queue) - k) \in 0..DP_NUM
                /\ \A i \in DOMAIN queue' :
                     IF i <= Len(queue) - k
                     THEN \/ queue'[i] = queue[i + k]
                          \/ /\ ~queue[i + k].done
                             /\ \E r \in Result : queue'[i] =
                                  [queue[i + k] EXCEPT !.done = TRUE,
                                                       !.result = r]
                     ELSE ~queue'[i].done

CQSpec == CQInit /\ [][Clock]_cqVars
=============================================================================
