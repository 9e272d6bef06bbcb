--------------------------- MODULE AssemblerLines ---------------------------
(***************************************************************************)
(* The lines of an assembler file, which cc writes and al reads.  A line   *)
(* is a record; what is written as text in it (registers, operands,        *)
(* numbers) is parsed already.                                             *)
(***************************************************************************)
EXTENDS Integers

\* Operands, by what parseRegisterIndex, isMemoryOperand and
\* parseImmediateValue make of their text.
Reg(r) == [reg |-> r]
Mem(b, o) == [base |-> b, offset |-> o]
Imm(v) == [imm |-> v]
Name(n) == [name |-> n]        \* a label or a library function
Text(n) == [text |-> n]        \* a quoted string of n characters
NoArg == [none |-> 0]

IsReg(a) == "reg" \in DOMAIN a
IsMem(a) == "base" \in DOMAIN a
IsText(a) == "text" \in DOMAIN a
IsArg(a) == "none" \notin DOMAIN a

\* Lines: an instruction, a label, or the start of a section.
Ins(op, a, b) == [op |-> op, a |-> a, b |-> b]
Label(n) == Ins("label", Name(n), NoArg)
Section(s) == Ins(s, NoArg, NoArg)

\* Machine code: the first byte of an instruction holds what the processor
\* decodes there, the other ones are its operand.
OperandByte == Ins("operand", NoArg, NoArg)
=============================================================================
