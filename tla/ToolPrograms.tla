---------------------------- MODULE ToolPrograms ----------------------------
(***************************************************************************)
(* The compiler and the assembler, with the program they write, run by     *)
(* Programs.                                                               *)
(***************************************************************************)
EXTENDS Integers, Sequences

CONSTANTS
  Statement, Condition, FunctionName, MAX_SYMBOLS, MAX_ASM_OUTPUT,  \* see Toolchain
  MAX_TOKEN_VALUE, MAX_EXPR_CODE, MAX_ARGS, MAX_CODE, MAX_LABELS, Arity, Fuel

VARIABLES
  source, definedFunctions, symbolTable, dataSymbols, asmCode, dataLines,
  bodyStart, blocks, ifCount, whileCount, output,
  lines, pass, labels, codeSectionOffset, dataSectionOffset, codeSection,
  dataSection, hasExternalLabel

toolVars == <<source, definedFunctions, symbolTable, dataSymbols, asmCode,
  dataLines, bodyStart, blocks, ifCount, whileCount, output, lines, pass, labels,
  codeSectionOffset, dataSectionOffset, codeSection, dataSection, hasExternalLabel>>

TC == INSTANCE Toolchain

\* Buffers have some room, each place in a source file has its statements and its
\* conditions, and statements are parsed.
ASSUME ToolAssumption ==
  /\ {MAX_CODE, MAX_LABELS} \subseteq Nat \ {0}
  /\ DOMAIN Statement = DOMAIN Condition
  /\ TC!CC!StatementsParsed

\* al: a label is emitted where the first pass said it would be (Assembler).
LabelsArePositions == TC!LabelsArePositions

\* cc and al together: what the program they write does is what the source
\* says (Toolchain).
RunsAsWritten == TC!RunsAsWritten
=============================================================================
