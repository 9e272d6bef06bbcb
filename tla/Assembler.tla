----------------------------- MODULE Assembler -----------------------------
(***************************************************************************)
(* al.cpp, the two-pass assembler.  The first pass adds up the sizes of    *)
(* the instructions to find the address of each label, the second emits    *)
(* the machine code.                                                       *)
(***************************************************************************)
EXTENDS Integers, Sequences, SequencesExt, AssemblerLines

CONSTANTS
  MAX_CODE,    \* bytes of each section buffer (4096)
  MAX_LABELS,  \* entries of the label table (256)
  Library,     \* names in the jump table of libc.o
  AsmFile      \* source files the assembler is started on

SEGMENT_PAGE == 4096
CODE_VADDR == 4202496     \* 0x00402000

VARIABLES
  lines,               \* the file al is started on
  pass,                \* what main has done so far
  labels,              \* name, address and section of each label
  codeSectionOffset,   \* sizes the first pass added up
  dataSectionOffset,
  codeSection,         \* codeSectionBuffer, codeSectionLength bytes of it
  dataSection,
  hasExternalLabel

alVars == <<lines, pass, labels, codeSectionOffset, dataSectionOffset,
            codeSection, dataSection, hasExternalLabel>>

-----------------------------------------------------------------------------
(* Parsing *)

\* A quoted argument is taken with its quotes; one of 64 or more characters
\* is left empty.
parseLine(line) ==
  IF IsText(line.a) /\ line.a.text + 2 >= 64 THEN [line EXCEPT !.a = NoArg]
                                             ELSE line

\* Text that does not start with a digit counts as zero.
parseImmediateValue(a) == IF "imm" \in DOMAIN a THEN a.imm ELSE 0

FitsByte(v) == v \in -128 .. 127

getDispBytes(m) == IF m.offset = 0 /\ m.base # "ebp" THEN 0
                   ELSE IF FitsByte(m.offset) THEN 1 ELSE 4

\* Mutant: the sign bit is forgotten.
getImmBytes_Unsigned(v) == IF v \in 0 .. 255 THEN 1 ELSE 4

getImmBytes(v) == IF FitsByte(v) THEN 1 ELSE 4

\* What the processor reads of a number emitted in as many bytes.
Short(v) == IF getImmBytes(v) = 1 THEN Imm(((v + 128) % 256) - 128) ELSE Imm(v)

findLabelIndex(table, name) ==
  IF \E i \in DOMAIN table : table[i].name = name
  THEN CHOOSE i \in DOMAIN table :
         /\ table[i].name = name
         /\ \A j \in 1 .. i - 1 : table[j].name # name
  ELSE 0

addLabel(table, name, address, section) ==
  IF Len(table) < MAX_LABELS
  THEN Append(table, [name |-> name, address |-> address, section |-> section])
  ELSE table

-----------------------------------------------------------------------------
(* First pass *)

\* Mutant: a displacement is counted as four bytes.
getInstructionSize_WideDisp(i) ==
  IF i.op = "cmp" /\ IsMem(i.a)
  THEN 2 + 4 + getImmBytes(parseImmediateValue(i.b))
  ELSE IF i.op \in {"mov", "add", "sub"} /\ IsMem(i.a) /\ IsReg(i.b) THEN 2 + 4
  ELSE 5

getInstructionSize(i) ==
  LET imm == getImmBytes(parseImmediateValue(i.b))
  IN CASE i.op = "db" -> IF IsText(i.a) THEN i.a.text + 1 ELSE 0
     [] i.op \in {"mov", "add", "sub"} ->
          IF IsReg(i.a) THEN IF IsReg(i.b) THEN 2
                             ELSE IF IsMem(i.b) THEN 2 + getDispBytes(i.b)
                             ELSE IF i.op = "mov" THEN 5
                             ELSE IF imm = 1 THEN 3 ELSE 6
          ELSE IF IsMem(i.a)
               THEN 2 + getDispBytes(i.a) + (IF IsReg(i.b) THEN 0
                                             ELSE IF i.op = "mov" THEN 4 ELSE imm)
          ELSE 0
     [] i.op = "cmp" ->
          IF IsReg(i.a) THEN IF IsReg(i.b) THEN 2 ELSE IF imm = 1 THEN 3 ELSE 6
          ELSE IF IsMem(i.a) THEN 2 + getDispBytes(i.a) + imm
          ELSE 0
     [] i.op = "jmp" /\ IsArg(i.a) -> 5
     [] i.op = "call" /\ IsArg(i.a) -> IF IsReg(i.a) THEN 2 ELSE 5
     [] i.op \in {"jne", "jle", "jge"} /\ IsArg(i.a) -> 6
     [] i.op = "int" /\ IsArg(i.a) -> 2
     [] i.op \in {"pusha", "popa", "push", "pop", "ret"} -> 1
     [] OTHER -> 0

\* One line of the first pass: at is the section and the two offsets so far.
FirstPassLine(at, line) ==
  LET i == parseLine(line)
      here == IF at.section = 0 THEN at.code ELSE at.data
  IN CASE i.op = "label" ->
            IF findLabelIndex(at.labels, i.a.name) # 0 THEN at
            ELSE [at EXCEPT !.labels = addLabel(@, i.a.name, here, at.section)]
     [] i.op = ".data" -> [at EXCEPT !.section = 1]
     [] i.op = ".text" -> [at EXCEPT !.section = 0]
     [] OTHER -> IF at.section = 0
                 THEN [at EXCEPT !.code = @ + getInstructionSize(i)]
                 ELSE [at EXCEPT !.data = @ + getInstructionSize(i)]

\* Where the first pass is behind each line of the file.
FirstPass ==
  LET behind[k \in 0 .. Len(lines)] ==
        IF k = 0 THEN [section |-> 0, code |-> 0, data |-> 0, labels |-> <<>>]
                 ELSE FirstPassLine(behind[k - 1], lines[k])
  IN  behind

firstPass ==
  /\ pass = "start"
  /\ LET end == FirstPass[Len(lines)]
     IN /\ labels' = end.labels
        /\ codeSectionOffset' = end.code
        /\ dataSectionOffset' = end.data
  /\ pass' = "first"
  /\ UNCHANGED <<lines, codeSection, dataSection, hasExternalLabel>>

-----------------------------------------------------------------------------
(* Second pass *)

Aligned(n) == ((n + SEGMENT_PAGE - 1) \div SEGMENT_PAGE) * SEGMENT_PAGE

\* An instruction of n bytes that decodes as i.
Encoded(i, n) == [k \in 1 .. n |-> IF k = 1 THEN i ELSE OperandByte]

\* mov to a register takes the address of a label, or of a library function
\* (which is not modelled: no program here takes one).
Immediate(b) ==
  LET l == IF "name" \in DOMAIN b THEN findLabelIndex(labels, b.name) ELSE 0
  IN IF l = 0 THEN parseImmediateValue(b)
     ELSE labels[l].address + CODE_VADDR +
            (IF labels[l].section = 0 THEN 0 ELSE Aligned(codeSectionOffset))

\* A move, sum or difference: the bytes the second pass emits.
EmittedArithmetic(i) ==
  LET v == parseImmediateValue(i.b)
  IN IF ~IsArg(i.a) \/ ~IsArg(i.b) THEN <<>>
     ELSE IF IsReg(i.a)
     THEN IF IsReg(i.b) THEN Encoded(i, 2)
          ELSE IF IsMem(i.b) THEN Encoded(i, 2 + getDispBytes(i.b))
          ELSE IF i.op = "mov" THEN Encoded(Ins("mov", i.a, Imm(Immediate(i.b))), 5)
          ELSE Encoded(Ins(i.op, i.a, Short(v)), 2 + getImmBytes(v))
     ELSE IF ~IsMem(i.a) THEN <<>>
     ELSE IF i.op = "mov" /\ IsReg(i.b) THEN Encoded(i, 2 + getDispBytes(i.a))
     \* A small number is stored as one byte, which the first pass counts as four: of
     \* mov of a number to memory, which the compiler does not write, they disagree.
     ELSE Encoded(Ins(IF i.op = "mov" /\ getImmBytes(v) = 1 THEN "movb" ELSE i.op,
                      i.a, Short(v)),
                  2 + getDispBytes(i.a) + getImmBytes(v))

\* The number of a register and a byte is 3 bytes long and else 6.
EmittedCmp(i) ==
  LET v == parseImmediateValue(i.b)
  IN IF ~IsArg(i.a) \/ ~IsArg(i.b) THEN <<>>
     ELSE IF IsReg(i.a) /\ IsReg(i.b) THEN Encoded(i, 2)
     \* A memory operand on the right counts as the number zero.
     ELSE IF IsReg(i.a) THEN Encoded(Ins("cmp", i.a, Short(v)), 2 + getImmBytes(v))
     ELSE IF IsMem(i.a)
     THEN Encoded(Ins("cmp", i.a, Short(v)), 2 + getDispBytes(i.a) + getImmBytes(v))
     ELSE <<>>

\* A jump to a label that is not there is left out.
EmittedJump(i, here) ==
  LET l == findLabelIndex(labels, i.a.name)
      n == IF i.op = "jmp" THEN 5 ELSE 6
  IN IF l = 0 THEN <<>>
     ELSE Encoded(Ins(i.op, Imm(labels[l].address - (here + n)), NoArg), n)

\* A call of a name that is neither a label nor in the library is left out.
EmittedCall(i, here) ==
  IF IsReg(i.a) THEN Encoded(i, 2)
  ELSE LET l == findLabelIndex(labels, i.a.name)
       IN IF l # 0
          THEN Encoded(Ins("call", Imm(labels[l].address - (here + 5)), NoArg), 5)
          ELSE IF i.a.name \in Library THEN Encoded(i, 5)
          ELSE <<>>

\* The bytes of one line at the address here of its section.
Emitted(i, section, here) ==
  CASE i.op = "db" -> IF section = 1 /\ IsText(i.a) THEN Encoded(i, i.a.text + 1)
                                                    ELSE <<>>
  [] i.op \in {"mov", "add", "sub"} -> EmittedArithmetic(i)
  [] i.op = "cmp" -> EmittedCmp(i)
  [] i.op \in {"jmp", "jne", "jle", "jge"} /\ IsArg(i.a) -> EmittedJump(i, here)
  [] i.op = "call" /\ IsArg(i.a) -> EmittedCall(i, here)
  [] i.op = "int" /\ IsArg(i.a) -> Encoded(i, 2)
  [] i.op \in {"pusha", "popa", "ret"} -> Encoded(i, 1)
  [] i.op \in {"push", "pop"} -> IF IsReg(i.a) THEN Encoded(i, 1) ELSE <<>>
  [] OTHER -> <<>>

\* emitByte stops at the end of the buffer.
emitBytes(buffer, bytes) ==
  LET all == buffer \o bytes
  IN IF Len(all) > MAX_CODE THEN SubSeq(all, 1, MAX_CODE) ELSE all

\* One line of the second pass.
SecondPassLine(at, line) ==
  LET i == parseLine(line)
      bytes == Emitted(i, at.section, Len(at.code))
  IN CASE i.op = ".data" -> [at EXCEPT !.section = 1]
     [] i.op = ".text" -> [at EXCEPT !.section = 0]
     [] OTHER -> IF at.section = 0 THEN [at EXCEPT !.code = emitBytes(@, bytes)]
                                   ELSE [at EXCEPT !.data = emitBytes(@, bytes)]

\* Whether a call goes to no label of the program.
CallsOut(line) ==
  /\ line.op = "call"
  /\ "name" \in DOMAIN line.a
  /\ findLabelIndex(labels, line.a.name) = 0

\* Where the second pass is behind each line of the file.
SecondPass ==
  LET behind[k \in 0 .. Len(lines)] ==
        IF k = 0 THEN [section |-> 0, code |-> <<>>, data |-> <<>>]
                 ELSE SecondPassLine(behind[k - 1], lines[k])
  IN  behind

secondPass ==
  /\ pass = "first"
  /\ LET end == SecondPass[Len(lines)]
     IN codeSection' = end.code /\ dataSection' = end.data
  /\ hasExternalLabel' = (\E k \in DOMAIN lines : CallsOut(lines[k]))
  /\ pass' = "second"
  /\ UNCHANGED <<lines, labels, codeSectionOffset, dataSectionOffset>>

-----------------------------------------------------------------------------
(* The file that is written *)

\* Where writeElf puts the data: behind the code, on a page of its own.
DataVaddr == CODE_VADDR + Aligned(Len(codeSection))

\* main looks for the label "start".
EntryPoint ==
  LET l == findLabelIndex(labels, <<"start">>)
  IN IF l = 0 THEN 0 ELSE labels[l].address

\* The assembler is started on a file.
InitOn(files) ==
  /\ lines \in files
  /\ pass = "start"
  /\ labels = <<>>
  /\ codeSectionOffset = 0
  /\ dataSectionOffset = 0
  /\ codeSection = <<>>
  /\ dataSection = <<>>
  /\ hasExternalLabel = FALSE

Init == InitOn(AsmFile)

Next == firstPass \/ secondPass

Spec == Init /\ [][Next]_alVars

-----------------------------------------------------------------------------
(* Properties *)

CallsResolve ==
  \A k \in DOMAIN lines : CallsOut(lines[k]) => lines[k].a.name \in Library

\* The file fits the two section buffers and the label table: what is over is
\* dropped without a word.
Fits ==
  /\ codeSectionOffset <= MAX_CODE /\ dataSectionOffset <= MAX_CODE
  /\ Len(labels) < MAX_LABELS

\* In a file that fits and whose calls are all of its own labels or of library
\* functions, the position of each label in the code that is emitted is the
\* address the first pass gave it; jumps and calls are computed from that
\* address.
LabelsArePositions ==
  pass = "second" /\ Fits /\ CallsResolve =>
    \A k \in DOMAIN lines :
      lines[k].op = "label" =>
        LET l == findLabelIndex(labels, lines[k].a.name)
            before == SecondPass[k - 1]
        IN (\A j \in 1 .. k - 1 : lines[j] # lines[k]) =>
             labels[l].address = IF before.section = 0 THEN Len(before.code)
                                                       ELSE Len(before.data)
=============================================================================
