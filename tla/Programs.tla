------------------------------ MODULE Programs ------------------------------
(***************************************************************************)
(* The programs that the processor is tested with, and the tools' knowledge*)
(* of its instructions, one job each: a job gets an input and leaves a     *)
(* result.  The priority queue and the use of the heap go on for ever.      *)
(***************************************************************************)
EXTENDS PriorityQueue

CONSTANTS Arrays,     \* the arrays to be sorted
          Graphs,     \* records [edges], a sequence of pairs
          Vertices,   \* 0 and more
          Factors,    \* what mult multiplies
          Matrices,   \* square, functions of functions on 0..1
          Words,      \* instruction words to decode
          Operands    \* for encode: records [rd, rs1, rs2, imm]

VARIABLES job, in, out

vars == <<job, in, out, pqVars>>

So == INSTANCE Sorting
Gr == INSTANCE GraphSearch
Ar == INSTANCE Arithmetic
Is == INSTANCE Isa

Jobs == {"sort", "graph", "mult", "matrix", "decode", "encode"}

Inputs(j) ==
  CASE j = "sort"   -> Arrays
    [] j = "graph"  -> Graphs
    [] j = "mult"   -> Factors \X Factors
    [] j = "matrix" -> Matrices \X Matrices
    [] j = "decode" -> Words
    [] j = "encode" -> Is!Forms \X Operands

Init == /\ PQInit
        /\ out = {}
        /\ \/ job \in {"queue", "heap"} /\ in = {}
           \/ \E j \in Jobs : job = j /\ in \in Inputs(j)

Final(arr) == Cardinality(DOMAIN arr) - 1

\* Each sorting program's array, and where the searches find each element.
SortAll(arr) ==
  LET bubbled == So!Bubble(arr, Final(arr) + 1)
  IN  [sorted |-> {So!Insertion(arr, Final(arr) + 1), bubbled,
                   So!BubbleSort(arr, Final(arr) + 1),
                   So!MergeSort(arr, 0, Final(arr)), So!QuickSort(arr, 0, Final(arr))},
       found |-> [x \in 0..Final(arr) + 1 |-> So!BinarySearch(bubbled, 0, Final(arr), x)]]

Neighbours(edges) ==
  [v \in Vertices |-> {u \in Vertices : <<u, v>> \in Range(edges) \/ <<v, u>> \in Range(edges)}]

Search(edges) ==
  LET adj == Neighbours(edges)
  IN  [breadth |-> Gr!Breadth(adj, Gr!Start(0)),
       depth |-> Gr!Depth(adj, Gr!Start(0)),
       lists |-> Gr!BreadthOfLists(Gr!Lists(Vertices, edges), Gr!Start(0))]

\* What the debugger, print_stage and the processor make of a word.
Decode(word) ==
  [str |-> Is!OpcodeStr(word), stage |-> Is!StageName(word), op |-> Is!Op(word),
   imm |-> Is!Analyze(word), hardware |-> Is!Decoded(word),
   extended |-> Is!SignExtended(word)]

EncodeOperands(form, o) == Is!Encode(form, o.rd, o.rs1, o.rs2, o.imm)

Result(j, x) ==
  CASE j = "sort"   -> SortAll(x)
    [] j = "graph"  -> Search(x)
    [] j = "mult"   -> Ar!mult(x[1], x[2])
    [] j = "matrix" -> Ar!multiplyMatrix(2, 2, x[1], 2, x[2])
    [] j = "decode" -> Decode(x)
    [] j = "encode" -> EncodeOperands(x[1], x[2])

Run == /\ job \in Jobs
       /\ out = {}
       /\ out' = {Result(job, in)}
       /\ UNCHANGED <<job, in, pqVars>>

Serve == /\ job = "queue"
         /\ PQNext
         /\ UNCHANGED <<job, in, out>>

Use == /\ job = "heap"
       /\ HeapNext
       /\ UNCHANGED <<job, in, out, node, head, held>>

Next == Run \/ Serve \/ Use

Spec == Init /\ [][Next]_vars
-----------------------------------------------------------------------------
\* The sorting programs agree on the sorted array, with every element as often as
\* before, and the search finds exactly what is in it; the searches of a graph visit
\* each vertex that can be reached once, so that their fixed arrays are long enough,
\* the breadth-first ones by distance and the depth-first one from the deepest; mult
\* multiplies modulo 17 and the recursion multiplies matrices.
ComputesItsReference ==
  \A r \in out :
    /\ job = "sort" =>
         /\ \A s \in r.sorted : So!IsSorted(s, in)
         /\ \A x \in DOMAIN r.found :
              IF x \in Range(in)
              THEN \A s \in r.sorted : s[r.found[x]] = x
              ELSE r.found[x] = -1
    /\ job = "graph" =>
         LET adj == Neighbours(in)
         IN  /\ \A k \in DOMAIN r : Gr!VisitsAll(adj, 0, r[k])
             /\ Gr!NearestFirst(adj, 0, r.breadth) /\ Gr!NearestFirst(adj, 0, r.lists)
             /\ Gr!DeepestFirst(adj, r.depth)
    /\ job = "mult" => r = (in[1] * in[2]) % 17
    /\ job = "matrix" => r = Ar!Product(2, 2, in[1], 2, in[2])

\* What the processor executes, the debugger and print_stage call by its name and
\* inst_t knows as an operation with the immediate that the processor uses (the upper
\* ones not yet shifted); debugger and print_stage call every word the same, but that
\* one of them writes LUI in capitals (riscv_inst.h l.142).
SameMeaning(word, r) ==
  /\ r.str = IF r.stage = "lui" THEN "LUI" ELSE r.stage
  /\ r.hardware # {"illegal"} =>
       /\ r.hardware = IF r.stage = "nop" THEN {"addi"} ELSE {r.stage}
       /\ r.op # "INVALID" \/ Is!Opcode(word) = 115
       /\ IF Is!ImmOf(word) = "Uimm" THEN Is!Shift(r.imm, 12) = r.extended
          ELSE IF r.str \in {"slli", "srli", "srai"} THEN r.imm = r.extended \cap 0..4
          ELSE r.imm = r.extended

\* The immediate as far as the instruction has room for it.
Fitted(form, imm) ==
  LET signed(b) == Is!Field(imm, 0, b) \cup (IF b \in imm THEN b..31 ELSE {})
  IN  CASE form[1] \in {"slli", "srli", "srai"} -> Is!Field(imm, 0, 5)
        [] form[3] \in {"Iimm", "Simm"} -> signed(11)
        [] form[3] = "Bimm" -> signed(12) \ {0}
        [] form[3] = "Uimm" -> Is!Field(imm, 0, 20)
        [] OTHER -> {}

\* What encode writes, the processor decodes as the instruction that was selected, with
\* its registers and immediate; but for jal, for which select gives the wrong kind of
\* immediate, and the sign of a store's offset, which encode drops (see the README).
RoundTrip(form, o, word) ==
  \/ form[1] = "jal"
  \/ form[3] = "Simm" /\ 11 \in o.imm
  \/ form[1] = "wfi" /\ o.rd \cup o.rs1 # {}
  \/ /\ Is!Decoded(word) = {form[1]}
     /\ Is!Analyze(word) = Fitted(form, o.imm)
     /\ form[2] # "S" => Is!Field(word, 7, 5) = o.rd
     /\ form[2] # "U" => Is!Field(word, 15, 5) = o.rs1
     /\ form[2] \in {"R", "S"} => Is!Field(word, 20, 5) = o.rs2

\* The four tables of instructions mean the same (riscv_inst.h, pipe_print.c,
\* visual_c_hooks.cpp l.1096-1115, ISA.svh with DP_lsq.sv).
TablesAgree ==
  \A r \in out : /\ job = "decode" => SameMeaning(in, r)
                 /\ job = "encode" => RoundTrip(in[1], in[2], r)
=============================================================================
