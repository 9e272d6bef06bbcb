----------------------------- MODULE Toolchain -----------------------------
(***************************************************************************)
(* cc and al one after the other (code/compiler.sh): a source file is      *)
(* compiled, the assembler file is assembled, and the program that results *)
(* is run.  What it does is compared with what the source says.            *)
(***************************************************************************)
EXTENDS Integers, Sequences, FiniteSets, SequencesExt

CONSTANTS
  Statement, Condition, FunctionName, MAX_SYMBOLS,               \* see Compiler
  MAX_ASM_OUTPUT, MAX_TOKEN_VALUE, MAX_EXPR_CODE, MAX_ARGS,
  MAX_CODE, MAX_LABELS,                                          \* see Assembler
  Arity, Fuel                                                    \* see Processor

VARIABLES source, definedFunctions, symbolTable, dataSymbols, asmCode,
          dataLines, bodyStart, blocks, ifCount, whileCount, output,
          lines, pass, labels, codeSectionOffset, dataSectionOffset,
          codeSection, dataSection, hasExternalLabel

CC == INSTANCE Compiler
AL == INSTANCE Assembler WITH Library <- { <<f>> : f \in DOMAIN Arity }, AsmFile <- {<<>>}
CPU == INSTANCE Processor WITH code <- codeSection, entry <- AL!EntryPoint

ccVars == <<source, definedFunctions, symbolTable, dataSymbols, asmCode,
            dataLines, bodyStart, blocks, ifCount, whileCount, output>>
alVars == <<lines, pass, labels, codeSectionOffset, dataSectionOffset,
            codeSection, dataSection, hasExternalLabel>>
toolVars == <<ccVars, alVars>>

Init == CC!Init /\ AL!Init

\* al is started on the file cc has written.  A file without a string in it is
\* not followed further (see TextIsWritten).
assemble ==
  /\ output # CC!NoOutput
  /\ dataLines # <<>>
  /\ lines = <<>>
  /\ lines' = output
  /\ UNCHANGED <<ccVars, pass, labels, codeSectionOffset, dataSectionOffset,
                 codeSection, dataSection, hasExternalLabel>>

Next ==
  \/ CC!Next /\ UNCHANGED alVars
  \/ assemble
  \/ lines # <<>> /\ AL!Next /\ UNCHANGED ccVars

Spec == Init /\ [][Next]_toolVars

-----------------------------------------------------------------------------
(* What a source file means: its statements run one after the other. *)

Opens(i) == source[i].stmt \in {"function", "while"}
Closes(i) == source[i].stmt = "close"
Balance(i, j) == Cardinality({ k \in i .. j : Opens(k) })
                   - Cardinality({ k \in i .. j : Closes(k) })
MatchingClose(i) == CHOOSE j \in i .. Len(source) :
                      Balance(i, j) = 0 /\ \A k \in i .. j - 1 : Balance(i, k) # 0
MatchingOpen(j) == CHOOSE i \in 1 .. j : Opens(i) /\ MatchingClose(i) = j
BodyOf(f) == CHOOSE i \in DOMAIN source : source[i].stmt = "function" /\ source[i].name = f

StringsBefore(i) == SelectSeq(SubSeq(source, 1, i - 1), LAMBDA s : s.stmt = "string")
IsString(x, i) == \E k \in 1 .. i - 1 : source[k].stmt = "string" /\ source[k].name = x

\* A string lies behind the ones declared before it, each with its zero byte.
StringAddress(x) ==
  LET d == CHOOSE k \in DOMAIN source : source[k].stmt = "string" /\ source[k].name = x
  IN AL!DataVaddr + FoldLeft(LAMBDA n, s : n + s.length + 1, 0, StringsBefore(d))

ValueOf(p, e) ==
  LET first == IF "number" \in DOMAIN e.first THEN e.first.number
               ELSE IF IsString(e.first.var, p.at) THEN StringAddress(e.first.var)
               ELSE p.env[e.first.var]
  IN FoldLeft(LAMBDA n, k : n + k, first, e.plus)

Meant(p, event, halts) == [p EXCEPT !.trace = Append(@, event), !.halted = halts,
                                    !.at = @ + 1]

Assigns(p, x, v) == [p EXCEPT !.env = (x :> v) @@ @, !.at = @ + 1]

Closed(p) ==
  LET i == MatchingOpen(p.at)
  IN IF source[i].stmt = "while" THEN [p EXCEPT !.at = i]
     ELSE IF p.callers = <<>> THEN Meant(p, CPU!Event("fell off", "", <<>>), TRUE)
     ELSE [p EXCEPT !.at = Last(p.callers).at + 1, !.env = Last(p.callers).env,
                    !.callers = Front(p.callers)]

Means(p, s) ==
  CASE s.stmt \in {"string", "function"} -> [p EXCEPT !.at = @ + 1]
    [] s.stmt = "declare" -> IF "value" \in DOMAIN s
                             THEN Assigns(p, s.name, ValueOf(p, s.value))
                             ELSE [p EXCEPT !.at = @ + 1]
    [] s.stmt = "assign" -> Assigns(p, s.name, ValueOf(p, s.value))
    [] s.stmt = "deref" ->
         Meant(p, CPU!Event("store", "", <<p.env[s.name], ValueOf(p, s.value)>>), FALSE)
    [] s.stmt = "return" -> Meant(p, CPU!Event("exit", "", <<ValueOf(p, s.value)>>), TRUE)
    [] s.stmt = "syscall" ->
         Meant(p, CPU!Event("syscall", "",
                   <<s.number, ValueOf(p, s.args[1]), ValueOf(p, s.args[2])>>), FALSE)
    [] s.stmt = "call" ->
         IF s.name \in definedFunctions
         THEN [p EXCEPT !.callers = Append(@, [at |-> p.at, env |-> p.env]),
                        !.at = BodyOf(s.name), !.env = <<>>]
         ELSE Meant(p, CPU!Event("call", s.name,
                         [k \in DOMAIN s.args |-> ValueOf(p, s.args[k])]), FALSE)
    [] s.stmt = "while" -> IF p.env[s.cond.name] < s.cond.below
                           THEN [p EXCEPT !.at = @ + 1]
                           ELSE [p EXCEPT !.at = MatchingClose(@) + 1]
    [] s.stmt = "close" -> Closed(p)

\* The names a statement reads.
ReadBy(e) == IF "var" \in DOMAIN e.first THEN {e.first.var} ELSE {}

Reads(s) ==
  CASE s.stmt \in {"assign", "return"} -> ReadBy(s.value)
    [] s.stmt = "declare" -> IF "value" \in DOMAIN s THEN ReadBy(s.value) ELSE {}
    [] s.stmt = "deref" -> {s.name} \cup ReadBy(s.value)
    [] s.stmt \in {"syscall", "call"} -> UNION { ReadBy(s.args[k]) : k \in DOMAIN s.args }
    [] s.stmt = "while" -> {s.cond.name}
    [] OTHER -> {}

\* A statement that reads a local without a value has no meaning.
Defined(p) ==
  \A x \in Reads(source[p.at]) : x \in DOMAIN p.env \/ IsString(x, p.at)

SourceRun ==
  LET run[n \in 0 .. Fuel] ==
        IF n = 0 THEN [at |-> BodyOf("main"), env |-> <<>>, callers |-> <<>>,
                       trace |-> <<>>, halted |-> FALSE]
        ELSE LET p == run[n - 1]
             IN IF p.halted \/ ~Defined(p) THEN p ELSE Means(p, source[p.at])
  IN  run[Fuel]

\* The statements the compiler is known to translate wrongly: if, a syscall
\* with a sum in it or whose result is used.
Untranslated(s) ==
  \/ s.stmt \in {"if", "else"}
  \/ s.stmt \in {"assign", "deref"} /\ "number" \in DOMAIN s.value
  \/ s.stmt = "declare" /\ "value" \in DOMAIN s /\ "number" \in DOMAIN s.value
  \/ s.stmt = "syscall" /\ \E k \in DOMAIN s.args : s.args[k].plus # <<>>

\* A program starts with its first function, whatever its name, and calls of
\* functions that are nowhere are left out of it.
Translated ==
  /\ pass = "second"
  /\ AL!CallsResolve
  /\ source[1].name = "main"
  /\ \A i \in DOMAIN source : ~Untranslated(source[i])

-----------------------------------------------------------------------------
(* Properties *)

TypeOK ==
  /\ pass \in {"start", "first", "second"}
  /\ lines \in {<<>>, output}
  /\ blocks # <<>> => bodyStart \in DOMAIN asmCode
  /\ Len(dataLines) = 2 * Len(dataSymbols)
  /\ Len(codeSection) <= MAX_CODE /\ Len(dataSection) <= MAX_CODE
  /\ Len(labels) <= MAX_LABELS

\* compileSource "assembles the output with data and text sections"
\* (cc.cpp:1392): the text that was generated ends the assembler file.
TextIsWritten == CC!TextIsWritten

\* Jumps, calls and the addresses of strings are computed from the addresses
\* the first pass of al gives to labels: in what cc writes, each label is where
\* the second pass puts it.
LabelsArePositions == AL!LabelsArePositions

\* cc and al together keep the meaning of the source: the program makes the
\* calls, the syscalls and the stores through pointers the source says, in the
\* same order and with the same values, and ends as the source does.
RunsAsWritten ==
  Translated /\ SourceRun.halted => CPU!Run.halted /\ CPU!Run.trace = SourceRun.trace
=============================================================================
