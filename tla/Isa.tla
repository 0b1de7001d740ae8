-------------------------------- MODULE Isa --------------------------------
(***************************************************************************)
(* The instruction set as the repository writes it down four times: the    *)
(* patterns of ISA.svh with the decoder of DP_lsq.sv, the debugger's inst_t*)
(* (testbench/riscv_inst.h), which also encodes, and print_stage           *)
(* (testbench/pipe_print.c).  An instruction word is the set of its bits   *)
(* that are one, so that shifts and masks are what they are in the code.   *)
(***************************************************************************)
EXTENDS Integers, Sequences, FiniteSetsExt

WordBits == 0..31

\* (w >> lo) & ((1 << len) - 1)
Field(w, lo, len) == {b - lo : b \in w \cap (lo..lo + len - 1)}

\* w << k, in 32 bits
Shift(w, k) == {b + k : b \in w} \cap WordBits

Value(w) == MapThenSumSet(LAMBDA b : 2 ^ b, w)

BitsOf(n) == {b \in 0..11 : (n \div 2 ^ b) % 2 = 1}

Opcode(w)  == Value(Field(w, 0, 7))
Funct3(w)  == Value(Field(w, 12, 3))
Funct7(w)  == Value(Field(w, 25, 7))
Funct12(w) == Value(Field(w, 20, 12))

IsNop(w) == w = BitsOf(19)
-----------------------------------------------------------------------------
(* inst_t::decode.  Tables are indexed by funct3.                          *)

BranchNames == <<"beq", "bne", "invalid", "invalid", "blt", "bge", "bltu", "bgeu">>
LoadNames == <<"lb", "lh", "lw", "invalid", "lbu", "lhu", "invalid", "invalid">>
StoreNames == <<"sb", "sh", "sw", "invalid", "invalid", "invalid", "invalid", "invalid">>

ImmediateName(f3, f7) ==
  CASE f3 = 1 -> IF f7 = 0 THEN "slli" ELSE "invalid"
    [] f3 = 5 -> IF f7 = 0 THEN "srli" ELSE IF f7 = 32 THEN "srai" ELSE "invalid"
    [] OTHER  -> <<"addi", "", "slti", "sltiu", "xori", "", "ori", "andi">>[f3 + 1]

ArithmeticName(f3, f7) ==
  CASE f7 = 0  -> <<"add", "sll", "slt", "sltu", "xor", "srl", "or", "and">>[f3 + 1]
    [] f7 = 1  -> <<"mul", "mulh", "mulhsu", "mulhu",
                    "div", "divu", "rem", "remu">>[f3 + 1]
    [] f7 = 32 -> CASE f3 = 0 -> "sub" [] f3 = 5 -> "sra" [] OTHER -> "invalid"
    [] OTHER   -> "invalid"

SystemName(f3, f12) ==
  IF f3 = 0
  THEN CASE f12 = 0 -> "ecall" [] f12 = 1 -> "ebreak"
         [] f12 = 261 -> "wfi" [] OTHER -> "system"
  ELSE <<"csrrw", "csrrs", "csrrc", "invalid", "csrrwi", "csrrsi", "csrrci">>[f3]

Str(w) ==
  LET op == Opcode(w)
      f3 == Funct3(w)
  IN  CASE op = 55  -> "LUI"
        [] op = 23  -> "auipc"
        [] op = 111 -> "jal"
        [] op = 103 -> "jalr"
        [] op = 99  -> BranchNames[f3 + 1]
        [] op = 3   -> LoadNames[f3 + 1]
        [] op = 35  -> StoreNames[f3 + 1]
        [] op = 19  -> ImmediateName(f3, Funct7(w))
        [] op = 51  -> ArithmeticName(f3, Funct7(w))
        [] op = 15  -> "fence"
        [] op = 115 -> SystemName(f3, Funct12(w))
        [] OTHER    -> "invalid"

\* names that decode gives with op = INVALID
NoOp == {"invalid", "div", "divu", "rem", "remu", "fence", "ecall", "ebreak",
         "system", "csrrw", "csrrs", "csrrc", "csrrwi", "csrrsi", "csrrci"}

Op(w) == IF Str(w) \in NoOp THEN "INVALID" ELSE IF Str(w) = "LUI" THEN "lui" ELSE Str(w)

\* the kind of immediate that decode sets before analyze
ImmOf(w) ==
  CASE Opcode(w) \in {55, 23}    -> "Uimm"
    [] Opcode(w) = 111           -> "Jimm"
    [] Opcode(w) \in {103, 3, 19} -> "Iimm"
    [] Opcode(w) = 99            -> "Bimm"
    [] Opcode(w) = 35            -> "Simm"
    [] OTHER                     -> "Rimm"

\* inst_t::analyze: the immediate
Analyze(w) ==
  LET sign(mask) == IF 31 \in w THEN mask ELSE {}
      imm == ImmOf(w)
  IN  CASE imm = "Iimm" ->
             IF Opcode(w) = 19 /\ Funct3(w) \in {1, 5} THEN Field(w, 20, 5)
             ELSE Field(w, 20, 11) \cup sign(11..31)
        [] imm = "Simm" ->
             Field(w, 7, 5) \cup Shift(Field(w, 25, 6), 5) \cup sign(11..31)
        [] imm = "Bimm" ->
             Shift(Field(w, 8, 4) \cup Shift(Field(w, 25, 6), 4)
                     \cup Shift(Field(w, 7, 1), 10), 1) \cup sign(12..31)
        [] imm = "Uimm" -> Field(w, 12, 20)
        [] imm = "Jimm" ->
             Shift(Field(w, 21, 10) \cup Shift(Field(w, 20, 1), 10)
                     \cup Shift(Field(w, 12, 8), 11), 1) \cup sign(20..31)
        [] OTHER -> {}
-----------------------------------------------------------------------------
(* inst_t::select: how an instruction is written, as                       *)
(* <<name, format, immediate, opcode, funct3, funct7 or funct12>>.         *)

ImmediateForms ==
  {<<"addi", "I", "Iimm", 19, 0, 0>>, <<"slti", "I", "Iimm", 19, 2, 0>>,
   <<"sltiu", "I", "Iimm", 19, 3, 0>>, <<"andi", "I", "Iimm", 19, 7, 0>>,
   <<"ori", "I", "Iimm", 19, 6, 0>>, <<"xori", "I", "Iimm", 19, 4, 0>>,
   <<"slli", "I", "Iimm", 19, 1, 0>>, <<"srli", "I", "Iimm", 19, 5, 0>>,
   <<"srai", "I", "Iimm", 19, 5, 32>>}

UpperForms == {<<"lui", "U", "Uimm", 55, 0, 0>>, <<"auipc", "U", "Uimm", 23, 0, 0>>}

RegisterForms ==
  {<<"add", "R", "Rimm", 51, 0, 0>>, <<"slt", "R", "Rimm", 51, 2, 0>>,
   <<"sltu", "R", "Rimm", 51, 3, 0>>, <<"and", "R", "Rimm", 51, 7, 0>>,
   <<"or", "R", "Rimm", 51, 6, 0>>, <<"xor", "R", "Rimm", 51, 4, 0>>,
   <<"sll", "R", "Rimm", 51, 1, 0>>, <<"srl", "R", "Rimm", 51, 5, 0>>,
   <<"sra", "R", "Rimm", 51, 5, 32>>, <<"sub", "R", "Rimm", 51, 0, 32>>}

JumpForms == {<<"jal", "U", "Uimm", 111, 0, 0>>, <<"jalr", "I", "Iimm", 103, 0, 0>>}

BranchForms ==
  {<<"beq", "S", "Bimm", 99, 0, 0>>, <<"bne", "S", "Bimm", 99, 1, 0>>,
   <<"blt", "S", "Bimm", 99, 4, 0>>, <<"bltu", "S", "Bimm", 99, 6, 0>>,
   <<"bge", "S", "Bimm", 99, 5, 0>>, <<"bgeu", "S", "Bimm", 99, 7, 0>>}

MemoryForms ==
  {<<"lb", "I", "Iimm", 3, 0, 0>>, <<"lh", "I", "Iimm", 3, 1, 0>>,
   <<"lw", "I", "Iimm", 3, 2, 0>>, <<"lbu", "I", "Iimm", 3, 4, 0>>,
   <<"lhu", "I", "Iimm", 3, 5, 0>>, <<"sb", "S", "Simm", 35, 0, 0>>,
   <<"sh", "S", "Simm", 35, 1, 0>>, <<"sw", "S", "Simm", 35, 2, 0>>}

MultiplyForms ==
  {<<"mul", "R", "Rimm", 51, 0, 1>>, <<"mulh", "R", "Rimm", 51, 1, 1>>,
   <<"mulhu", "R", "Rimm", 51, 3, 1>>, <<"mulhsu", "R", "Rimm", 51, 2, 1>>}

WfiForm == {<<"wfi", "P", "Rimm", 115, 0, 261>>}

Forms == ImmediateForms \cup UpperForms \cup RegisterForms \cup JumpForms
           \cup BranchForms \cup MemoryForms \cup MultiplyForms \cup WfiForm

\* mutant: bits 11 and 12 of a branch offset change places
EncodedImmSwapped(form, imm) ==
  IF form[3] = "Bimm"
  THEN Shift(Field(imm, 12, 1), 7) \cup Shift(Field(imm, 1, 4), 8)
         \cup Shift(Field(imm, 5, 6), 25) \cup Shift(Field(imm, 11, 1), 31)
  ELSE {}

\* inst_t::encode: where the immediate and the function codes go
EncodedImm(form, imm) ==
  CASE form[2] = "R" -> Shift(BitsOf(form[6]), 25)
    [] form[2] = "P" -> Shift(BitsOf(form[6]), 20)
    [] form[2] = "I" ->
         IF form[1] \in {"slli", "srli", "srai"}
         THEN Shift(Field(imm, 0, 5), 20) \cup Shift(BitsOf(form[6]), 25)
         ELSE Shift(imm, 20)
    [] form[3] = "Simm" ->
         Shift(Field(imm, 0, 5), 7) \cup Shift(Field(imm, 5, 6), 25)
    [] form[3] = "Bimm" ->
         Shift(Field(imm, 11, 1), 7) \cup Shift(Field(imm, 1, 4), 8)
           \cup Shift(Field(imm, 5, 6), 25) \cup Shift(Field(imm, 12, 1), 31)
    [] OTHER -> Shift(Field(imm, 0, 20), 12)

\* inst_t::encode: registers and codes by format
Encode(form, rd, rs1, rs2, imm) ==
  BitsOf(form[4]) \cup EncodedImm(form, imm)
    \cup (IF form[2] # "S" THEN Shift(rd, 7) ELSE {})
    \cup (IF form[2] # "U" THEN Shift(BitsOf(form[5]), 12) \cup Shift(rs1, 15)
          ELSE {})
    \cup (IF form[2] \in {"R", "S"} THEN Shift(rs2, 20) ELSE {})
-----------------------------------------------------------------------------
(* print_stage.  inst is an int there and the shifts keep its sign; a word  *)
(* with bit 31 has a funct7 above 63 or below 0, which no case matches.     *)

StageBranch == <<"beq", "bne", "invalid", "invalid", "blt", "bge", "bltu", "bgeu">>
StageLoad == <<"lb", "lh", "lw", "invalid", "lbu", "lhu", "invalid", "invalid">>
StageStore == <<"sb", "sh", "sw", "invalid", "invalid", "invalid", "invalid", "invalid">>

\* funct7 << 4 | funct3
StageArithmetic(key) ==
  CASE key \in 0..7 -> <<"add", "sll", "slt", "sltu", "xor", "srl", "or", "and">>[key + 1]
    [] key \in 16..23 -> <<"mul", "mulh", "mulhsu", "mulhu",
                           "div", "divu", "rem", "remu">>[key - 15]
    [] key = 512 -> "sub"
    [] key = 517 -> "sra"
    [] OTHER -> "invalid"

StageImmediate(f3, f7) ==
  CASE f3 = 1 -> IF f7 = 0 THEN "slli" ELSE "invalid"
    [] f3 = 5 -> IF f7 = 0 THEN "srli" ELSE IF f7 = 32 THEN "srai" ELSE "invalid"
    [] OTHER -> <<"addi", "", "slti", "sltiu", "xori", "", "ori", "andi">>[f3 + 1]

StageSystem(f3, f12) ==
  IF f3 = 0
  THEN CASE f12 = 0 -> "ecall" [] f12 = 1 -> "ebreak"
         [] f12 = 261 -> "wfi" [] OTHER -> "system"
  ELSE <<"csrrw", "csrrs", "csrrc", "invalid", "csrrwi", "csrrsi", "csrrci">>[f3]

StageName(w) ==
  LET op == Opcode(w)
      f3 == Funct3(w)
  IN  CASE IsNop(w)  -> "nop"
        [] op = 55  -> "lui"
        [] op = 23  -> "auipc"
        [] op = 111 -> "jal"
        [] op = 103 -> "jalr"
        [] op = 99  -> StageBranch[f3 + 1]
        [] op = 3   -> StageLoad[f3 + 1]
        [] op = 35  -> StageStore[f3 + 1]
        [] op = 19 /\ ~IsNop(w) -> StageImmediate(f3, Funct7(w))
        [] op = 51  -> StageArithmetic(Funct7(w) * 16 + f3)
        [] op = 15  -> "fence"
        [] op = 115 -> StageSystem(f3, Funct12(w))
        [] OTHER    -> "invalid"

\* get_opcode_str, which the debugger shows for a valid instruction
OpcodeStr(w) == IF IsNop(w) THEN "nop" ELSE Str(w)
-----------------------------------------------------------------------------
(* The processor: the patterns of ISA.svh, <<name, opcode, funct3, funct7>>*)
(* with -1 where a pattern does not look.                                  *)

Patterns ==
  {<<"lui", 55, -1, -1>>, <<"auipc", 23, -1, -1>>, <<"jal", 111, -1, -1>>,
   <<"jalr", 103, 0, -1>>, <<"beq", 99, 0, -1>>, <<"bne", 99, 1, -1>>,
   <<"blt", 99, 4, -1>>, <<"bge", 99, 5, -1>>, <<"bltu", 99, 6, -1>>,
   <<"bgeu", 99, 7, -1>>, <<"lb", 3, 0, -1>>, <<"lh", 3, 1, -1>>,
   <<"lw", 3, 2, -1>>, <<"lbu", 3, 4, -1>>, <<"lhu", 3, 5, -1>>,
   <<"sb", 35, 0, -1>>, <<"sh", 35, 1, -1>>, <<"sw", 35, 2, -1>>,
   <<"addi", 19, 0, -1>>, <<"slti", 19, 2, -1>>, <<"sltiu", 19, 3, -1>>,
   <<"xori", 19, 4, -1>>, <<"ori", 19, 6, -1>>, <<"andi", 19, 7, -1>>,
   <<"slli", 19, 1, 0>>, <<"srli", 19, 5, 0>>, <<"srai", 19, 5, 32>>,
   <<"add", 51, 0, 0>>, <<"sub", 51, 0, 32>>, <<"sll", 51, 1, 0>>,
   <<"slt", 51, 2, 0>>, <<"sltu", 51, 3, 0>>, <<"xor", 51, 4, 0>>,
   <<"srl", 51, 5, 0>>, <<"sra", 51, 5, 32>>, <<"or", 51, 6, 0>>,
   <<"and", 51, 7, 0>>, <<"mul", 51, 0, 1>>, <<"mulh", 51, 1, 1>>,
   <<"mulhsu", 51, 2, 1>>, <<"mulhu", 51, 3, 1>>,
   <<"csrrw", 115, 1, -1>>, <<"csrrs", 115, 2, -1>>, <<"csrrc", 115, 3, -1>>}

Matches(p, w) ==
  /\ p[2] = Opcode(w)
  /\ p[3] \in {-1, Funct3(w)}
  /\ p[4] \in {-1, Funct7(w)}

\* the decoder of DP_lsq.sv: everything else is illegal
Decoded(w) ==
  LET hits == {p \in Patterns : Matches(p, w)} IN
  IF hits # {} THEN {p[1] : p \in hits}
  ELSE IF w = BitsOf(115) \cup Shift(BitsOf(261), 20) THEN {"wfi"}
  ELSE {"illegal"}

\* the sign-extended immediates of ISA.svh
SignExtended(w) ==
  LET sign(lo) == IF 31 \in w THEN lo..31 ELSE {}
      imm == ImmOf(w)
  IN  CASE imm = "Iimm" -> Field(w, 20, 11) \cup sign(11)
        [] imm = "Simm" -> Field(w, 7, 5) \cup Shift(Field(w, 25, 6), 5) \cup sign(11)
        [] imm = "Bimm" -> Shift(Field(w, 8, 4), 1) \cup Shift(Field(w, 25, 6), 5)
                             \cup Shift(Field(w, 7, 1), 11) \cup sign(12)
        [] imm = "Uimm" -> Shift(Field(w, 12, 20), 12)
        [] imm = "Jimm" -> Shift(Field(w, 21, 10), 1) \cup Shift(Field(w, 20, 1), 11)
                             \cup Shift(Field(w, 12, 8), 12) \cup sign(20)
        [] OTHER -> {}
=============================================================================
