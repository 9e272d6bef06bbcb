------------------------------ MODULE Compiler ------------------------------
(***************************************************************************)
(* cc.cpp, the compiler of the small C language: the recursive descent     *)
(* parser that emits assembler lines as it goes.                           *)
(*                                                                         *)
(* The source is consumed one statement (or brace) at a time; which one    *)
(* comes next is a choice among those allowed at its place in the file, so *)
(* the behaviours are source files.  The tokens of a statement are parsed  *)
(* already.  What the parser does with a source it reports as wrong is     *)
(* left out: it never moves past such a token.                             *)
(*                                                                         *)
(* cc tests none of its arrays, or prints that one is full and writes on.  *)
(* The sources followed are those that fit: where a statement has written  *)
(* behind the end of an array (InArrays), the behaviour ends.  Names are   *)
(* shorter than 30 characters and numbers than 20, and are written as they *)
(* stand, numbers in decimal.                                              *)
(***************************************************************************)
EXTENDS Integers, Sequences, FiniteSets, SequencesExt, AssemblerLines

CONSTANTS
  Statement,       \* bound: the simple statements at each place of a file
  Condition,       \* bound: what stands behind if and while at each place,
                   \* as many as Statement has
  FunctionName,    \* functions a file may define beside main
  MAX_SYMBOLS,     \* locals of a function, strings, functions (64)
  MAX_ASM_OUTPUT,  \* characters of the text and of the data (4096)
  MAX_TOKEN_VALUE, \* characters of a token (50)
  MAX_EXPR_CODE,   \* characters of the code of an expression (200)
  MAX_ARGS         \* arguments of a library function (5)

eax == Reg("eax")
ebx == Reg("ebx")
ecx == Reg("ecx")
edx == Reg("edx")
esp == Reg("esp")
ebp == Reg("ebp")
Mov(a, b) == Ins("mov", a, b)
Op(op, a) == Ins(op, a, NoArg)

VARIABLES
  source,              \* history: the statements parsed so far
  definedFunctions,    \* definedFunctionNames, found by the pre-pass
  symbolTable,         \* name and type of each local, in slots of four bytes
  dataSymbols,         \* dataSymbolTable
  asmCode,             \* asmCodeBuffer
  dataLines,           \* dataSectionBuffer
  bodyStart,           \* where the body of this function starts in asmCode
  blocks,              \* the statements the parser is inside of
  ifCount, whileCount, \* the two static labelCounts
  output               \* the assembler file, when it is written

ccVars == <<source, definedFunctions, symbolTable, dataSymbols, asmCode,
            dataLines, bodyStart, blocks, ifCount, whileCount, output>>

NoOutput == <<>>

-----------------------------------------------------------------------------
(* Symbols *)

Declared(table, x) == \E i \in DOMAIN table : table[i].name = x

addSymbol(table, x, type) == Append(table, [name |-> x, type |-> type])

\* getSymbolOffset adds a name it does not find.
WithSymbol(table, x) == IF Declared(table, x) THEN table
                                              ELSE addSymbol(table, x, "INT")

SlotOf(table, x) ==
  CHOOSE i \in DOMAIN table :
    table[i].name = x /\ \A j \in 1 .. i - 1 : table[j].name # x

\* Where a local is on the stack.
Local(table, x) == Mem("ebp", -4 * SlotOf(table, x))

-----------------------------------------------------------------------------
(* Expressions: a number or a name, plus any numbers *)

IsVar(e) == "var" \in DOMAIN e.first
IsData(x) == \E i \in DOMAIN dataSymbols : dataSymbols[i] = x

SymbolsOf(table, e) ==
  IF IsVar(e) /\ ~IsData(e.first.var) THEN WithSymbol(table, e.first.var) ELSE table

Primary(table, e) ==
  IF ~IsVar(e) THEN Imm(e.first.number)
  ELSE IF IsData(e.first.var) THEN Name(<<e.first.var>>)
  ELSE Local(table, e.first.var)

\* parseExpressionInfo: the code that computes a sum, and where the value is.
ExprCode(table, e) ==
  IF e.plus = <<>> THEN <<>>
  ELSE <<Mov(eax, Primary(table, e))>> \o
       [i \in DOMAIN e.plus |-> Ins("add", eax, Imm(e.plus[i]))]

ExprResult(table, e) == IF e.plus = <<>> THEN Primary(table, e) ELSE eax

Load(register, table, e) ==
  ExprCode(table, e) \o <<Mov(register, ExprResult(table, e))>>

\* syscall(number, e1, e2)
SymbolsOfSyscall(table, s) == SymbolsOf(SymbolsOf(table, s.args[1]), s.args[2])

SyscallCode(table, s) ==
  LET table1 == SymbolsOf(table, s.args[1])
      table2 == SymbolsOf(table1, s.args[2])
  IN <<Mov(eax, Imm(s.number))>> \o Load(ebx, table1, s.args[1])
       \o Load(ecx, table2, s.args[2])
       \o <<Op("pusha", NoArg), Op("int", Imm(128)), Op("popa", NoArg)>>

IsSyscall(value) == "number" \in DOMAIN value

\* What may stand to the right of an equals sign, a syscall or an expression.
SymbolsOfValue(table, value) == IF IsSyscall(value) THEN SymbolsOfSyscall(table, value)
                                                    ELSE SymbolsOf(table, value)

\* An expression is a sum, a string has a length, and the arguments of a call are
\* a list: what is assumed of the statements.
IsSum(e) == e.plus \in Seq(Int)

IsValue(value) == IF IsSyscall(value) THEN \A k \in 1 .. 2 : IsSum(value.args[k])
                                      ELSE IsSum(value)

IsParsed(s) ==
  /\ s.stmt = "string" => s.length \in Nat
  /\ s.stmt = "return" => IsSum(s.value)
  /\ s.stmt = "syscall" => \A k \in 1 .. 2 : IsSum(s.args[k])
  /\ s.stmt = "call" => /\ s.args \in Seq({ s.args[k] : k \in DOMAIN s.args })
                        /\ \A k \in DOMAIN s.args : IsSum(s.args[k])
  /\ s.stmt \in {"assign", "deref"} => IsValue(s.value)
  /\ s.stmt = "declare" /\ "value" \in DOMAIN s => IsValue(s.value)

StatementsParsed == \A p \in DOMAIN Statement : \A s \in Statement[p] : IsParsed(s)

-----------------------------------------------------------------------------
(* The arrays *)

\* Decimal digits of a number, its sign included.
Digits(n) ==
  Cardinality({ k \in 1 .. 9 : 10^k <= (IF n < 0 THEN -n ELSE n) })
    + (IF n < 0 THEN 2 ELSE 1)

\* Characters of a name, or of a label: a word, an underscore and a number.
NameSize(n) == Len(n[1]) + (IF Len(n) = 2 THEN 1 + Digits(n[2]) ELSE 0)

\* Those of [eax] and [ebp-4].
MemSize(a) == 5 + (IF a.offset = 0 THEN 0 ELSE Digits(a.offset))

OperandSize(a) ==
  IF IsReg(a) THEN Len(a.reg)
  ELSE IF IsMem(a) THEN MemSize(a)
  ELSE IF "name" \in DOMAIN a THEN NameSize(a.name)
  ELSE Digits(a.imm)

\* Characters of a line as it is emitted, newlines included.
LineSize(line) ==
  IF line.op = "label" THEN NameSize(line.a.name) + 2
  ELSE IF line.op = "db" THEN line.a.text + 11
  ELSE IF line.op = ".data" THEN 14
  ELSE IF line.op = ".text" THEN 15
  ELSE IF line.op = "int" THEN 10   \* 0x80 is written so
  ELSE Len(line.op) + 2
         + (IF IsArg(line.a) THEN 1 + OperandSize(line.a) ELSE 0)
         + (IF IsArg(line.b) THEN 2 + OperandSize(line.b) ELSE 0)

TextSize(text) == FoldLeft(LAMBDA n, line : n + LineSize(line), 0, text)

\* The expressions of a statement.
Sums(s) ==
  LET sumsOf(value) == IF IsSyscall(value) THEN { value.args[k] : k \in 1 .. 2 } ELSE {value}
  IN IF s.stmt \in {"syscall", "call"} THEN { s.args[k] : k \in DOMAIN s.args }
     ELSE IF "value" \in DOMAIN s THEN sumsOf(s.value) ELSE {}

\* The statement parsed last fitted into the arrays of the parser.
StatementFits(s) ==
  /\ s.stmt = "string" => s.length < MAX_TOKEN_VALUE
  /\ s.stmt = "call" /\ s.name \notin definedFunctions => Len(s.args) <= MAX_ARGS
  /\ \A e \in Sums(s) : TextSize(ExprCode(symbolTable, e)) < MAX_EXPR_CODE

InArrays ==
  /\ Len(symbolTable) <= MAX_SYMBOLS
  /\ Len(dataSymbols) <= MAX_SYMBOLS
  /\ Cardinality(definedFunctions) <= MAX_SYMBOLS
  /\ TextSize(asmCode) < MAX_ASM_OUTPUT
  /\ TextSize(dataLines) < MAX_ASM_OUTPUT
  /\ source # <<>> => StatementFits(Last(source))

-----------------------------------------------------------------------------
(* Statements *)

InBody == output = NoOutput /\ blocks # <<>>

\* The place of the next statement in the file.
Place == Len(source) + 1
InFile == Place \in DOMAIN Statement

\* A statement is parsed, its code emitted and its names entered.
Emit(statement, table, code) ==
  /\ source' = Append(source, statement)
  /\ symbolTable' = table
  /\ asmCode' = asmCode \o code
  /\ UNCHANGED <<definedFunctions, bodyStart, blocks, ifCount, whileCount, output>>

\* Mutant: dataSymbolCount is not moved on.
parseStringDeclaration_NotCounted(s) ==
  /\ InBody
  /\ s.stmt = "string"
  /\ dataLines' = dataLines \o
       <<Label(<<s.name>>), Ins("db", Text(s.length), NoArg)>>
  /\ Emit(s, symbolTable, <<>>)
  /\ UNCHANGED dataSymbols

\* char *x = "..."; the string gets a label in the data section.
parseStringDeclaration(s) ==
  /\ InBody
  /\ s.stmt = "string"
  /\ dataSymbols' = Append(dataSymbols, s.name)
  /\ dataLines' = dataLines \o
       <<Label(<<s.name>>), Ins("db", Text(s.length), NoArg)>>
  /\ Emit(s, symbolTable, <<>>)

\* The value of an assignment goes through eax to the local x.
Assigned(table, x, value) ==
  (IF IsSyscall(value) THEN SyscallCode(symbolTable, value)
                       ELSE Load(eax, table, value))
    \o <<Mov(Local(table, x), eax)>>

\* A declaration with a value enters its name twice: getSymbolOffset adds it,
\* with type INT, and then addSymbol.
parseDeclaration(s) ==
  /\ InBody
  /\ s.stmt = "declare"
  /\ IF "value" \in DOMAIN s
     THEN LET table == WithSymbol(SymbolsOfValue(symbolTable, s.value), s.name)
          IN Emit(s, addSymbol(table, s.name, s.type), Assigned(table, s.name, s.value))
     ELSE Emit(s, addSymbol(symbolTable, s.name, s.type), <<>>)
  /\ UNCHANGED <<dataSymbols, dataLines>>

parseAssignment(s) ==
  /\ InBody
  /\ s.stmt = "assign"
  /\ LET table == WithSymbol(SymbolsOfValue(symbolTable, s.value), s.name)
     IN Emit(s, table, Assigned(table, s.name, s.value))
  /\ UNCHANGED <<dataSymbols, dataLines>>

\* *x = value: the value is kept in ebx while eax takes the pointer.
parseDerefAssignment(s) ==
  /\ InBody
  /\ s.stmt = "deref"
  /\ LET withName == WithSymbol(symbolTable, s.name)
         table == SymbolsOfValue(withName, s.value)
     IN Emit(s, table,
             (IF IsSyscall(s.value) THEN SyscallCode(withName, s.value) \o <<Mov(ebx, eax)>>
                                    ELSE Load(ebx, table, s.value))
               \o <<Mov(eax, Local(table, s.name)), Mov(Mem("eax", 0), ebx)>>)
  /\ UNCHANGED <<dataSymbols, dataLines>>

\* return leaves the process, in any function.
parseReturnStatement(s) ==
  /\ InBody
  /\ s.stmt = "return"
  /\ LET table == SymbolsOf(symbolTable, s.value)
     IN Emit(s, table, Load(ebx, table, s.value)
                         \o <<Mov(eax, Imm(1)), Op("int", Imm(128))>>)
  /\ UNCHANGED <<dataSymbols, dataLines>>

parseSyscallStatement(s) ==
  /\ InBody
  /\ s.stmt = "syscall"
  /\ Emit(s, SymbolsOfSyscall(symbolTable, s), SyscallCode(symbolTable, s))
  /\ UNCHANGED <<dataSymbols, dataLines>>

SymbolsOfArgs(table, args) == FoldLeft(SymbolsOf, table, args)

\* The last argument is pushed first.
PushedArgs(table, args) ==
  LET pushed[k \in 0 .. Len(args)] ==
        IF k = 0 THEN <<>>
        ELSE pushed[k - 1] \o Load(eax, table, args[Len(args) + 1 - k])
               \o <<Op("push", eax)>>
  IN  pushed[Len(args)]

\* A function of the file is called without arguments, one of the library
\* with the registers it may change saved around the call.
parseFunctionCall(s) ==
  /\ InBody
  /\ s.stmt = "call"
  /\ IF s.name \in definedFunctions
     THEN /\ s.args = <<>>
          /\ Emit(s, symbolTable, <<Op("call", Name(<<s.name>>))>>)
     ELSE LET table == SymbolsOfArgs(symbolTable, s.args)
          IN Emit(s, table,
               <<Op("push", eax), Op("push", ecx), Op("push", edx)>>
               \o PushedArgs(table, s.args)
               \o <<Op("call", Name(<<s.name>>)),
                    Ins("add", esp, Imm(4 * Len(s.args))),
                    Op("pop", edx), Op("pop", ecx), Op("pop", eax)>>)
  /\ UNCHANGED <<dataSymbols, dataLines>>

-----------------------------------------------------------------------------
(* Blocks *)

\* Opens or closes a block of the function that is being parsed.
Block(statement, table, code, stack) ==
  /\ source' = Append(source, statement)
  /\ symbolTable' = table
  /\ asmCode' = asmCode \o code
  /\ blocks' = stack
  /\ UNCHANGED <<definedFunctions, dataSymbols, dataLines, bodyStart, output>>

Inside == Last(blocks)
Outside == Front(blocks)

\* if (x != y) {
parseIfStatement(c) ==
  /\ InBody
  /\ "other" \in DOMAIN c
  /\ LET table == WithSymbol(WithSymbol(symbolTable, c.name), c.other)
     IN Block([stmt |-> "if", cond |-> c], table,
              <<Mov(eax, Local(table, c.name)),
                Ins("cmp", eax, Local(table, c.other)),
                Op("je", Name(<<"else", ifCount>>))>>,
              Append(blocks, [block |-> "then", label |-> ifCount]))
  /\ ifCount' = ifCount + 1
  /\ UNCHANGED whileCount

\* } or } else {
CloseThen(hasElse) ==
  /\ InBody
  /\ Inside.block = "then"
  /\ LET n == Inside.label
     IN Block([stmt |-> IF hasElse THEN "else" ELSE "close"], symbolTable,
              <<Op("jmp", Name(<<"end", n>>)), Label(<<"else", n>>)>>
                \o (IF hasElse THEN <<>> ELSE <<Label(<<"end", n>>)>>),
              IF hasElse THEN Append(Outside, [block |-> "else", label |-> n])
                         ELSE Outside)
  /\ UNCHANGED <<ifCount, whileCount>>

CloseElse ==
  /\ InBody
  /\ Inside.block = "else"
  /\ Block([stmt |-> "close"], symbolTable, <<Label(<<"end", Inside.label>>)>>,
           Outside)
  /\ UNCHANGED <<ifCount, whileCount>>

\* while (x < number) {
parseWhileStatement(c) ==
  /\ InBody
  /\ "below" \in DOMAIN c
  /\ LET table == WithSymbol(symbolTable, c.name)
     IN Block([stmt |-> "while", cond |-> c], table,
              <<Label(<<"loop", whileCount>>),
                Ins("cmp", Local(table, c.name), Imm(c.below)),
                Op("jge", Name(<<"end", whileCount>>))>>,
              Append(blocks, [block |-> "while", label |-> whileCount]))
  /\ whileCount' = whileCount + 1
  /\ UNCHANGED ifCount

CloseWhile ==
  /\ InBody
  /\ Inside.block = "while"
  /\ LET n == Inside.label
     IN Block([stmt |-> "close"], symbolTable,
              <<Op("jmp", Name(<<"loop", n>>)), Label(<<"end", n>>)>>, Outside)
  /\ UNCHANGED <<ifCount, whileCount>>

-----------------------------------------------------------------------------
(* Functions and the file *)

\* The functions whose bodies are in the source.
Bodies == { source[i].name : i \in { j \in DOMAIN source : source[j].stmt = "function" } }

\* generateMainCode and parseFunctionDefinition, up to the opening brace.
Open(name, label) ==
  /\ output = NoOutput
  /\ blocks = <<>>
  /\ name \notin Bodies
  /\ source' = Append(source, [stmt |-> "function", name |-> name])
  /\ symbolTable' = <<>>
  /\ asmCode' = Append(asmCode, Label(<<label>>))
  /\ bodyStart' = Len(asmCode) + 1
  /\ blocks' = <<[block |-> "function", label |-> 0]>>
  /\ UNCHANGED <<definedFunctions, dataSymbols, dataLines, ifCount, whileCount, output>>

parseFunctionDefinition(f) == f \in definedFunctions \ {"main"} /\ Open(f, f)

generateMainCode == Open("main", "_start")

\* The body of a function with locals is shifted to make room for its
\* prologue.
Framed(size) ==
  SubSeq(asmCode, 1, bodyStart)
    \o <<Op("push", ebp), Mov(ebp, esp), Ins("sub", esp, Imm(size))>>
    \o SubSeq(asmCode, bodyStart + 1, Len(asmCode))
    \o <<Mov(esp, ebp), Op("pop", ebp)>>

CloseFunction ==
  /\ output = NoOutput
  /\ blocks # <<>>
  /\ Inside.block = "function"
  /\ source' = Append(source, [stmt |-> "close"])
  /\ asmCode' = (IF symbolTable # <<>> THEN Framed(4 * Len(symbolTable)) ELSE asmCode)
                  \o <<Op("ret", NoArg)>>
  /\ blocks' = <<>>
  /\ UNCHANGED <<definedFunctions, symbolTable, dataSymbols, dataLines, bodyStart,
                 ifCount, whileCount, output>>

\* The two sections of a file with a string in it.
Sections == <<Section(".data")>> \o dataLines \o <<Section(".text")>> \o asmCode

\* With no string the header of the data section is left out, but the text is
\* moved to make room for it: fourteen characters of the text stand in front of
\* it, which spoil its first line, and fourteen are cut off its end, which are
\* ret and one or two lines before it, or all of it.
Misplaced ==
  { <<Section(".text"), Op("fragment", NoArg)>> \o SubSeq(asmCode, 2, Len(asmCode) - n)
      : n \in 2 .. 3 }

\* The end of the file; compileSource puts the two sections together, in the
\* array of the text.
compileSource ==
  /\ output = NoOutput
  /\ blocks = <<>>
  /\ Bodies = definedFunctions
  /\ TextSize(Sections) <= MAX_ASM_OUTPUT
  /\ output' \in IF dataLines = <<>> THEN Misplaced ELSE {Sections}
  /\ UNCHANGED <<source, definedFunctions, symbolTable, dataSymbols, asmCode,
                 dataLines, bodyStart, blocks, ifCount, whileCount>>

\* collectDefinedFunctions has run.
Init ==
  /\ source = <<>>
  /\ definedFunctions \in { fs \cup {"main"} : fs \in SUBSET FunctionName }
  /\ symbolTable = <<>>
  /\ dataSymbols = <<>>
  /\ asmCode = <<>>
  /\ dataLines = <<>>
  /\ bodyStart = 0
  /\ blocks = <<>>
  /\ ifCount = 0
  /\ whileCount = 0
  /\ output = NoOutput

parseStatement ==
  \/ \E s \in IF InFile THEN Statement[Place] ELSE {} :
       \/ parseStringDeclaration(s)
       \/ parseDeclaration(s)
       \/ parseAssignment(s)
       \/ parseDerefAssignment(s)
       \/ parseReturnStatement(s)
       \/ parseSyscallStatement(s)
       \/ parseFunctionCall(s)
  \/ \E c \in IF InFile THEN Condition[Place] ELSE {} : parseIfStatement(c) \/ parseWhileStatement(c)
  \/ \E hasElse \in BOOLEAN : CloseThen(hasElse)
  \/ CloseElse
  \/ CloseWhile

Next ==
  /\ InArrays
  /\ \/ parseStatement
     \/ \E f \in FunctionName : parseFunctionDefinition(f)
     \/ generateMainCode
     \/ CloseFunction
     \/ compileSource

Spec == Init /\ [][Next]_ccVars

-----------------------------------------------------------------------------
(* Properties *)

\* compileSource "assembles the output with data and text sections"
\* (cc.cpp:1392): the text that was generated ends the file.
TextIsWritten == output # NoOutput => IsSuffix(asmCode, output)
=============================================================================
