---------------------------- MODULE MC_Programs -----------------------------
(* All arrays of four numbers, all graphs of four vertices, instruction words *)
(* of every opcode, function code and sign.                                   *)
EXTENDS Programs, SequencesExt

\* bound: what happens to a heap in which a block was cut or joined is not followed
Intact == intact

MCArrays == UNION {[0..k -> 0..2] : k \in 0..4}

MCVertices == 0..3

AllEdges == {<<u, v>> \in MCVertices \X MCVertices : u < v}

EdgesInOrder(set) == SetToSortSeq(set, LAMBDA e, f : 4 * e[1] + e[2] < 4 * f[1] + f[2])

\* every graph, its edges added in one order and in the reverse
MCGraphs == {EdgesInOrder(s) : s \in SUBSET AllEdges}
              \cup {Reverse(EdgesInOrder(s)) : s \in SUBSET AllEdges}

MCFactors == {0, 1, 2, 3, 16, 17, 23, 85, 128, 255}

MCMatrices == [0..1 -> [0..1 -> 0..1]] \cup {[i \in 0..1 |-> [j \in 0..1 |-> 2 * i + j + 1]]}

Opcodes == {3, 15, 19, 23, 35, 51, 55, 99, 103, 111, 115, 127}

Compose(op, f3, f7, rs2, rd) ==
  Is!BitsOf(op) \cup Is!Shift(Is!BitsOf(f3), 12) \cup Is!Shift(Is!BitsOf(f7), 25)
    \cup Is!Shift(Is!BitsOf(rs2), 20) \cup Is!Shift(Is!BitsOf(rd), 7)

MCWords == {Compose(op, f3, f7, rs2, rd) : op \in Opcodes, f3 \in 0..7,
              f7 \in {0, 1, 8, 32, 64, 85}, rs2 \in {0, 1, 5, 31}, rd \in {0, 1, 30}}

MCOperands == [rd : {{}, {0, 4}}, rs1 : {{}, {1, 3}}, rs2 : {{}, {2}},
               imm : {{}, {0, 2, 4, 5}, {1, 3, 10}, 1..31, {1} \cup 11..31, {4} \cup 12..31}]
=============================================================================
