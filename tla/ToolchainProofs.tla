-------------------------- MODULE ToolchainProofs --------------------------
(***************************************************************************)
(* Proofs about the compiler and the assembler: the compiler writes only   *)
(* lines of a few forms, with a label for every jump; for a file of these  *)
(* the two passes of the assembler agree on where every label is.          *)
(***************************************************************************)
EXTENDS ToolPrograms, ScanProofs, SequenceTheorems

-----------------------------------------------------------------------------
(* cc and al: the lines cc writes are of a few forms, and for lines of these *)
(* forms the two passes of al agree on the sizes.                            *)

\* A sequence, whatever its elements are, and its elements.
LinesOf(s) == { s[k] : k \in 1 .. Len(s) }
IsSeq(s) == s \in Seq(LinesOf(s))

\* A sequence over some set is one over its own elements.
LEMMA SeqIsSeq ==
  ASSUME NEW S, NEW s \in Seq(S)
  PROVE  IsSeq(s) /\ LinesOf(s) \subseteq S
<1>1. Len(s) \in Nat /\ \A k \in 1 .. Len(s) : s[k] \in S
  OBVIOUS
<1>2. s = [k \in 1 .. Len(s) |-> s[k]]
  OBVIOUS
<1>3. s \in [1 .. Len(s) -> LinesOf(s)]
  BY <1>1, <1>2 DEF LinesOf
<1>4. s \in Seq(LinesOf(s))
  BY <1>1, <1>3, SeqDef
<1> QED
  BY <1>1, <1>4 DEF IsSeq, LinesOf

\* The elements of two sequences one behind the other are those of both.
LEMMA LinesOfBoth ==
  ASSUME NEW s, NEW t, IsSeq(s), IsSeq(t)
  PROVE  /\ IsSeq(s \o t) /\ LinesOf(s \o t) = LinesOf(s) \cup LinesOf(t)
         /\ Len(s \o t) = Len(s) + Len(t)
         /\ \A k \in 1 .. Len(s) : (s \o t)[k] = s[k]
         /\ \A k \in 1 .. Len(t) : (s \o t)[Len(s) + k] = t[k]
<1> DEFINE S == LinesOf(s) \cup LinesOf(t)
<1>1. s \in Seq(S) /\ t \in Seq(S)
  <2>1. s \in Seq(LinesOf(s)) /\ t \in Seq(LinesOf(t))
    BY DEF IsSeq
  <2> HIDE DEF S
  <2>2. LinesOf(s) \subseteq S /\ LinesOf(t) \subseteq S
    BY DEF S
  <2> QED
    BY <2>1, <2>2
<1> HIDE DEF S
<1>2. /\ s \o t \in Seq(S) /\ Len(s \o t) = Len(s) + Len(t)
      /\ \A k \in 1 .. Len(s) : (s \o t)[k] = s[k]
      /\ \A k \in 1 .. Len(t) : (s \o t)[Len(s) + k] = t[k]
      /\ Len(s) \in Nat /\ Len(t) \in Nat
  BY <1>1
<1>3. IsSeq(s \o t) /\ LinesOf(s \o t) \subseteq S
  BY <1>2, SeqIsSeq
<1>4. ASSUME NEW x \in LinesOf(s)
      PROVE  x \in LinesOf(s \o t)
  <2>1. PICK k \in 1 .. Len(s) : x = s[k]
    BY DEF LinesOf
  <2>2. k \in 1 .. Len(s \o t) /\ (s \o t)[k] = x
    BY <1>2, <2>1
  <2> QED
    BY <2>2 DEF LinesOf
<1>5. ASSUME NEW x \in LinesOf(t)
      PROVE  x \in LinesOf(s \o t)
  <2>1. PICK k \in 1 .. Len(t) : x = t[k]
    BY DEF LinesOf
  <2>2. Len(s) + k \in 1 .. Len(s \o t) /\ (s \o t)[Len(s) + k] = x
    BY <1>2, <2>1
  <2> QED
    BY <2>2 DEF LinesOf
<1> QED
  BY <1>2, <1>3, <1>4, <1>5 DEF S

\* The elements of a part of a sequence are among its own.
LEMMA LinesOfPart ==
  ASSUME NEW s, IsSeq(s), NEW m \in 1 .. Len(s) + 1, NEW n \in m - 1 .. Len(s)
  PROVE  /\ IsSeq(SubSeq(s, m, n)) /\ Len(SubSeq(s, m, n)) = n + 1 - m
         /\ LinesOf(SubSeq(s, m, n)) = { s[k] : k \in m .. n }
<1>1. s \in Seq(LinesOf(s)) /\ Len(s) \in Nat
  BY DEF IsSeq
<1>2. /\ SubSeq(s, m, n) \in Seq(LinesOf(s)) /\ Len(SubSeq(s, m, n)) = n + 1 - m
      /\ \A k \in 1 .. n + 1 - m : SubSeq(s, m, n)[k] = s[m + k - 1]
  BY <1>1
<1>3. IsSeq(SubSeq(s, m, n))
  BY <1>2, SeqIsSeq
<1>4. ASSUME NEW k \in m .. n
      PROVE  s[k] \in LinesOf(SubSeq(s, m, n))
  <2>1. k + 1 - m \in 1 .. Len(SubSeq(s, m, n)) /\ SubSeq(s, m, n)[k + 1 - m] = s[k]
    BY <1>1, <1>2
  <2> QED
    BY <2>1 DEF LinesOf
<1>5. ASSUME NEW k \in 1 .. Len(SubSeq(s, m, n))
      PROVE  SubSeq(s, m, n)[k] \in { s[j] : j \in m .. n }
  <2>1. m + k - 1 \in m .. n /\ SubSeq(s, m, n)[k] = s[m + k - 1]
    BY <1>1, <1>2
  <2> QED
    BY <2>1
<1> QED
  BY <1>2, <1>3, <1>4, <1>5 DEF LinesOf

\* The elements of sequences of none to three elements.
LEMMA LinesOfNone == IsSeq(<<>>) /\ LinesOf(<<>>) = {} /\ Len(<<>>) = 0
<1>1. PICK s : s = <<>>
  OBVIOUS
<1>2. s \in Seq({}) /\ Len(s) = 0
  BY <1>1
<1>3. LinesOf(s) = {}
  BY <1>2 DEF LinesOf
<1>4. IsSeq(s)
  BY <1>2, <1>3 DEF IsSeq
<1> QED
  BY <1>1, <1>2, <1>3, <1>4

LEMMA LinesOfOne ==
  ASSUME NEW a
  PROVE  IsSeq(<<a>>) /\ LinesOf(<<a>>) = {a} /\ Len(<<a>>) = 1
<1>1. PICK s : s = <<a>>
  OBVIOUS
<1>2. /\ s \in Seq({a}) /\ Len(s) = 1
      /\ s[1] = a
  BY <1>1
<1>3. {a} \subseteq LinesOf(s)
  <2>1. 1 \in 1 .. 1
    OBVIOUS
  <2> QED
    BY ONLY <1>2, <2>1 DEF LinesOf
<1>4. IsSeq(s) /\ LinesOf(s) = {a} /\ Len(s) = 1
  BY ONLY <1>2, <1>3, SeqIsSeq
<1> QED
  BY <1>1, <1>4

LEMMA LinesOfTwo ==
  ASSUME NEW a, NEW b
  PROVE  IsSeq(<<a, b>>) /\ LinesOf(<<a, b>>) = {a, b} /\ Len(<<a, b>>) = 2
<1>1. PICK s : s = <<a, b>>
  OBVIOUS
<1>2. /\ s \in Seq({a, b}) /\ Len(s) = 2
      /\ s[1] = a /\ s[2] = b
  BY <1>1
<1>3. {a, b} \subseteq LinesOf(s)
  <2>1. 1 \in 1 .. 2 /\ 2 \in 1 .. 2
    OBVIOUS
  <2> QED
    BY ONLY <1>2, <2>1 DEF LinesOf
<1>4. IsSeq(s) /\ LinesOf(s) = {a, b} /\ Len(s) = 2
  BY ONLY <1>2, <1>3, SeqIsSeq
<1> QED
  BY <1>1, <1>4

LEMMA LinesOfThree ==
  ASSUME NEW a, NEW b, NEW c
  PROVE  IsSeq(<<a, b, c>>) /\ LinesOf(<<a, b, c>>) = {a, b, c} /\ Len(<<a, b, c>>) = 3
<1>1. PICK s : s = <<a, b, c>>
  OBVIOUS
<1>2. /\ s \in Seq({a, b, c}) /\ Len(s) = 3
      /\ s[1] = a /\ s[2] = b /\ s[3] = c
  BY <1>1
<1>3. {a, b, c} \subseteq LinesOf(s)
  <2>1. 1 \in 1 .. 3 /\ 2 \in 1 .. 3 /\ 3 \in 1 .. 3
    OBVIOUS
  <2> QED
    BY ONLY <1>2, <2>1 DEF LinesOf
<1>4. IsSeq(s) /\ LinesOf(s) = {a, b, c} /\ Len(s) = 3
  BY ONLY <1>2, <1>3, SeqIsSeq
<1> QED
  BY <1>1, <1>4

\* What cc writes into the text section: instructions with the operands they
\* need, calls, jumps and labels.
CodeLine(l) ==
  /\ "text" \notin DOMAIN l.a
  /\ \/ /\ l.op \in {"mov", "add", "sub"}
        /\ TC!AL!IsReg(l.a) /\ TC!AL!IsArg(l.a) /\ TC!AL!IsArg(l.b)
     \/ /\ l.op = "mov" /\ TC!AL!IsMem(l.a) /\ ~TC!AL!IsReg(l.a) /\ TC!AL!IsArg(l.a)
        /\ TC!AL!IsReg(l.b) /\ TC!AL!IsArg(l.b)
     \/ l.op = "cmp" /\ TC!AL!IsArg(l.a) /\ TC!AL!IsArg(l.b)
     \/ l.op \in {"jmp", "jge", "call"} /\ l.a = TC!AL!Name(l.a.name)
     \/ l.op = "int" /\ TC!AL!IsArg(l.a)
     \/ l.op \in {"pusha", "popa", "ret", "je"}
     \/ l.op \in {"push", "pop"} /\ TC!AL!IsReg(l.a)
     \/ l.op = "label" /\ l = TC!AL!Label(l.a.name)

\* Those that go on to the next line or into a function.
PlainLine(l) == CodeLine(l) /\ l.op \notin {"jmp", "jge", "label"}
PlainCode(s) == IsSeq(s) /\ \A l \in LinesOf(s) : PlainLine(l)

\* Plain code behind plain code is plain.
LEMMA PlainBoth ==
  ASSUME NEW s, NEW t, PlainCode(s), PlainCode(t)
  PROVE  PlainCode(s \o t)
BY LinesOfBoth DEF PlainCode

LEMMA PlainNone == PlainCode(<<>>)
BY LinesOfNone DEF PlainCode

LEMMA PlainOne == ASSUME NEW a, PlainLine(a) PROVE PlainCode(<<a>>)
BY LinesOfOne DEF PlainCode

LEMMA PlainTwo == ASSUME NEW a, NEW b, PlainLine(a), PlainLine(b) PROVE PlainCode(<<a, b>>)
BY LinesOfTwo DEF PlainCode

LEMMA PlainThree ==
  ASSUME NEW a, NEW b, NEW c, PlainLine(a), PlainLine(b), PlainLine(c)
  PROVE  PlainCode(<<a, b, c>>)
BY LinesOfThree DEF PlainCode

\* The lines cc puts together (Mov, Op, Ins).
LEMMA MovToRegister ==
  ASSUME NEW op \in {"mov", "add", "sub"}, NEW r, NEW b, "none" \notin DOMAIN b
  PROVE  PlainLine(TC!CC!Ins(op, TC!CC!Reg(r), b))
BY DEF PlainLine, CodeLine, TC!CC!Ins, TC!CC!Reg, TC!AL!IsReg, TC!AL!IsArg

LEMMA MovToMemory ==
  ASSUME NEW base, NEW offset, NEW r
  PROVE  PlainLine(TC!CC!Ins("mov", TC!CC!Mem(base, offset), TC!CC!Reg(r)))
BY DEF PlainLine, CodeLine, TC!CC!Ins, TC!CC!Reg, TC!CC!Mem, TC!AL!IsReg, TC!AL!IsArg,
       TC!AL!IsMem

LEMMA OtherLines ==
  ASSUME NEW r, NEW n
  PROVE  /\ PlainLine(TC!CC!Op("push", TC!CC!Reg(r))) /\ PlainLine(TC!CC!Op("pop", TC!CC!Reg(r)))
         /\ PlainLine(TC!CC!Op("pusha", TC!CC!NoArg)) /\ PlainLine(TC!CC!Op("popa", TC!CC!NoArg))
         /\ PlainLine(TC!CC!Op("ret", TC!CC!NoArg)) /\ PlainLine(TC!CC!Op("int", TC!CC!Imm(n)))
         /\ PlainLine(TC!CC!Op("call", TC!CC!Name(n))) /\ PlainLine(TC!CC!Op("je", TC!CC!Name(n)))
<1> USE DEF PlainLine, CodeLine, TC!CC!Op, TC!CC!Ins, TC!CC!Reg, TC!CC!NoArg, TC!CC!Imm,
            TC!CC!Name, TC!AL!Name, TC!AL!IsReg, TC!AL!IsArg
<1>1. PlainLine(TC!CC!Op("push", TC!CC!Reg(r)))
  OBVIOUS
<1>2. PlainLine(TC!CC!Op("pop", TC!CC!Reg(r)))
  OBVIOUS
<1>3. PlainLine(TC!CC!Op("pusha", TC!CC!NoArg)) /\ PlainLine(TC!CC!Op("popa", TC!CC!NoArg))
  OBVIOUS
<1>4. PlainLine(TC!CC!Op("ret", TC!CC!NoArg)) /\ PlainLine(TC!CC!Op("int", TC!CC!Imm(n)))
  OBVIOUS
<1>5. PlainLine(TC!CC!Op("call", TC!CC!Name(n))) /\ PlainLine(TC!CC!Op("je", TC!CC!Name(n)))
  OBVIOUS
<1> QED
  BY <1>1, <1>2, <1>3, <1>4, <1>5

\* The value of an expression is an operand (Primary, ExprResult).
LEMMA ResultIsArg ==
  ASSUME NEW table, NEW e
  PROVE  /\ "none" \notin DOMAIN TC!CC!Primary(table, e)
         /\ "none" \notin DOMAIN TC!CC!ExprResult(table, e)
<1>1. "none" \notin DOMAIN TC!CC!Primary(table, e)
  BY DEF TC!CC!Primary, TC!CC!Imm, TC!CC!Name, TC!CC!Local, TC!CC!Mem
<1> QED
  BY <1>1 DEF TC!CC!ExprResult, TC!CC!eax, TC!CC!Reg

\* The code that leaves the value of an expression in a register (Load).
LEMMA LoadIsPlain ==
  ASSUME NEW r, NEW table, NEW e, TC!CC!IsSum(e)
  PROVE  PlainCode(TC!CC!Load(TC!CC!Reg(r), table, e))
<1> DEFINE first == TC!CC!Mov(TC!CC!eax, TC!CC!Primary(table, e))
           adds == [i \in DOMAIN e.plus |-> TC!CC!Ins("add", TC!CC!eax, TC!CC!Imm(e.plus[i]))]
           last == TC!CC!Mov(TC!CC!Reg(r), TC!CC!ExprResult(table, e))
<1>1. PlainLine(first) /\ PlainLine(last)
  BY ResultIsArg, MovToRegister DEF TC!CC!Mov, TC!CC!eax
<1>2. PlainCode(adds)
  <2>1. e.plus \in Seq(Int) /\ Len(e.plus) \in Nat /\ DOMAIN e.plus = 1 .. Len(e.plus)
    BY DEF TC!CC!IsSum
  <2>2. ASSUME NEW n
        PROVE  PlainLine(TC!CC!Ins("add", TC!CC!eax, TC!CC!Imm(n)))
    <3>1. "none" \notin DOMAIN TC!CC!Imm(n)
      BY DEF TC!CC!Imm
    <3> QED
      BY <3>1, MovToRegister DEF TC!CC!eax
  <2>3. PICK n, L : /\ n = Len(e.plus)
                    /\ L = { TC!CC!Ins("add", TC!CC!eax, TC!CC!Imm(e.plus[i])) : i \in 1 .. n }
    OBVIOUS
  <2>4. adds \in [1 .. n -> L] /\ n \in Nat
    BY <2>1, <2>3
  <2>5. \A l \in L : PlainLine(l)
    BY <2>2, <2>3
  <2> HIDE DEF adds
  <2>6. adds \in Seq(L)
    BY ONLY <2>4, SeqDef
  <2> QED
    BY <2>5, <2>6, SeqIsSeq DEF PlainCode
<1>3. PlainCode(TC!CC!ExprCode(table, e))
  <2>1. PlainCode(<<>>) /\ PlainCode(<<first>>)
    BY <1>1, PlainNone, PlainOne
  <2>2. PlainCode(<<first>> \o adds)
    <3> HIDE DEF first, adds
    <3> QED
      BY <1>2, <2>1, PlainBoth
  <2> QED
    BY <2>1, <2>2 DEF TC!CC!ExprCode
<1>4. PlainCode(<<last>>)
  BY <1>1, PlainOne
<1> QED
  BY <1>3, <1>4, PlainBoth DEF TC!CC!Load

\* The code of a syscall (SyscallCode), and of an assignment through eax (Assigned).
LEMMA SyscallIsPlain ==
  ASSUME NEW table, NEW s, TC!CC!IsSum(s.args[1]), TC!CC!IsSum(s.args[2])
  PROVE  PlainCode(TC!CC!SyscallCode(table, s))
<1> DEFINE table1 == TC!CC!SymbolsOf(table, s.args[1])
           table2 == TC!CC!SymbolsOf(table1, s.args[2])
           number == TC!CC!Mov(TC!CC!eax, TC!CC!Imm(s.number))
           load1 == TC!CC!Load(TC!CC!ebx, table1, s.args[1])
           load2 == TC!CC!Load(TC!CC!ecx, table2, s.args[2])
           call == <<TC!CC!Op("pusha", TC!CC!NoArg), TC!CC!Op("int", TC!CC!Imm(128)),
                     TC!CC!Op("popa", TC!CC!NoArg)>>
<1>1. PlainCode(<<number>>)
  <2>1. "none" \notin DOMAIN TC!CC!Imm(s.number)
    BY DEF TC!CC!Imm
  <2> QED
    BY <2>1, MovToRegister, PlainOne DEF TC!CC!Mov, TC!CC!eax
<1>2. PlainCode(load1) /\ PlainCode(load2)
  BY LoadIsPlain DEF TC!CC!ebx, TC!CC!ecx
<1>3. PlainCode(call)
  BY OtherLines, PlainThree
<1>4. TC!CC!SyscallCode(table, s) = ((<<number>> \o load1) \o load2) \o call
  BY DEF TC!CC!SyscallCode
<1> HIDE DEF number, load1, load2, call
<1>5. PlainCode(<<number>> \o load1)
  BY <1>1, <1>2, PlainBoth
<1>6. PlainCode((<<number>> \o load1) \o load2)
  BY <1>2, <1>5, PlainBoth
<1> QED
  BY <1>3, <1>4, <1>6, PlainBoth

LEMMA AssignedIsPlain ==
  ASSUME NEW table, NEW x, NEW value, TC!CC!IsValue(value)
  PROVE  PlainCode(TC!CC!Assigned(table, x, value))
<1> DEFINE code == IF TC!CC!IsSyscall(value) THEN TC!CC!SyscallCode(symbolTable, value)
                                             ELSE TC!CC!Load(TC!CC!eax, table, value)
           last == TC!CC!Mov(TC!CC!Local(table, x), TC!CC!eax)
<1>1. PlainCode(code)
  <2>1. CASE TC!CC!IsSyscall(value)
    <3>1. TC!CC!IsSum(value.args[1]) /\ TC!CC!IsSum(value.args[2])
      BY <2>1 DEF TC!CC!IsValue
    <3> QED
      BY <2>1, <3>1, SyscallIsPlain
  <2>2. CASE ~TC!CC!IsSyscall(value)
    BY <2>2, LoadIsPlain DEF TC!CC!IsValue, TC!CC!eax
  <2> QED
    BY <2>1, <2>2
<1>2. PlainCode(<<last>>)
  BY MovToMemory, PlainOne DEF TC!CC!Mov, TC!CC!Local, TC!CC!eax
<1>3. TC!CC!Assigned(table, x, value) = code \o <<last>>
  BY DEF TC!CC!Assigned
<1> HIDE DEF code, last
<1> QED
  BY <1>1, <1>2, <1>3, PlainBoth

\* The arguments of a call are loaded and pushed one by one (PushedArgs).
LEMMA PushedIsPlain ==
  ASSUME NEW table, NEW args, args \in Seq({ args[k] : k \in DOMAIN args }),
         \A k \in DOMAIN args : TC!CC!IsSum(args[k])
  PROVE  PlainCode(TC!CC!PushedArgs(table, args))
<1> DEFINE n == Len(args)
           load(k) == TC!CC!Load(TC!CC!eax, table, args[n + 1 - k])
           push == TC!CC!Op("push", TC!CC!eax)
           L == {push} \cup UNION { LinesOf(load(k)) : k \in 1 .. n }
           Pushes(f) == f = [k \in 0 .. n |->
             IF k = 0 THEN <<>> ELSE f[k - 1] \o load(k) \o <<push>>]
<1>1. n \in Nat /\ DOMAIN args = 1 .. n
  OBVIOUS
<1>2. ASSUME NEW k \in 1 .. n
      PROVE  PlainCode(load(k)) /\ LinesOf(load(k)) \subseteq L
  <2>1. n + 1 - k \in DOMAIN args
    BY <1>1
  <2> QED
    BY <2>1, LoadIsPlain DEF TC!CC!eax
<1>3. \A l \in L : PlainLine(l)
  BY <1>2, OtherLines DEF PlainCode, TC!CC!eax
<1>4. ASSUME NEW k \in 1 .. n, NEW c \in Seq(L)
      PROVE  (c \o load(k)) \o <<push>> \in Seq(L)
  <2>1. load(k) \in Seq(LinesOf(load(k))) /\ LinesOf(load(k)) \subseteq L /\ push \in L
    BY <1>2 DEF PlainCode, IsSeq
  <2> HIDE DEF L, load, push
  <2>2. load(k) \in Seq(L) /\ <<push>> \in Seq(L)
    BY <2>1
  <2> QED
    BY <2>2
<1> DEFINE codes == Seq(L)
<1>5. PICK step \in [(1 .. n) \X codes -> codes] :
        \A k \in 1 .. n, c \in codes : step[<<k, c>>] = c \o load(k) \o <<push>>
  <2> DEFINE s == [x \in (1 .. n) \X codes |-> x[2] \o load(x[1]) \o <<push>>]
  <2>1. s \in [(1 .. n) \X codes -> codes]
    <3> HIDE DEF L, load, push, n
    <3> QED
      BY <1>4
  <2>2. \A k \in 1 .. n, c \in codes : s[<<k, c>>] = c \o load(k) \o <<push>>
    <3> HIDE DEF L, load, push, n, codes
    <3> QED
      OBVIOUS
  <2> HIDE DEF s, codes
  <2> QED
    BY <2>1, <2>2
<1>6. <<>> \in codes
  <2> HIDE DEF L
  <2> QED
    OBVIOUS
<1>7. PICK f : Solves(f, n, codes, <<>>, step)
  <2> HIDE DEF codes, n
  <2> QED
    BY <1>1, <1>5, <1>6, SolutionExists
<1> HIDE DEF n, load, push, L
<1>8. Pushes(f)
  <2>1. ASSUME NEW k \in 0 .. n, k # 0
        PROVE  f[k] = f[k - 1] \o load(k) \o <<push>>
    <3>1. k \in 1 .. n /\ k - 1 \in 0 .. n
      BY <1>1, <2>1
    <3>2. f[k - 1] \in codes
      BY <1>7, <3>1 DEF Solves
    <3> QED
      BY <1>5, <1>7, <3>1, <3>2 DEF Solves
  <2> QED
    BY <1>7, <2>1 DEF Solves
<1>9. PICK g : g = CHOOSE h : Pushes(h)
  OBVIOUS
<1>10. Pushes(g)
  BY <1>8, <1>9
<1>11. TC!CC!PushedArgs(table, args) = g[n]
  <2>1. TC!CC!PushedArgs(table, args) = (CHOOSE h : Pushes(h))[n]
    BY DEF TC!CC!PushedArgs, n, load, push
  <2> QED
    BY <1>9, <2>1
<1>12. \A k \in 0 .. n : g[k] \in codes
  <2> DEFINE typed == { k \in 0 .. n : g[k] \in codes }
  <2>1. 0 \in 0 .. n /\ g[0] = <<>>
    BY <1>1, <1>10
  <2>2. 0 \in typed
    BY <1>6, <2>1
  <2>3. ASSUME NEW k \in 1 .. n, k - 1 \in typed
        PROVE  k \in typed
    <3>1. k \in 0 .. n /\ k # 0
      BY <1>1
    <3>2. g[k] = g[k - 1] \o load(k) \o <<push>>
      BY <1>10, <3>1
    <3> QED
      BY <1>4, <2>3, <3>1, <3>2
  <2>4. 0 .. n \subseteq typed
    <3> HIDE DEF typed
    <3> QED
      BY ONLY <1>1, <2>2, <2>3, AllPlaces
  <2> QED
    BY <2>4
<1>13. g[n] \in Seq(L)
  BY <1>1, <1>12
<1> QED
  BY <1>3, <1>11, <1>13, SeqIsSeq DEF PlainCode

\* A label stands in the code, or will: a block that is open ends with it.
Placed(s, n) == TC!AL!Label(n) \in LinesOf(s)
EndsIn(stack, n) == \E b \in 1 .. Len(stack) :
                      stack[b].block \in {"else", "while"} /\ n = <<"end", stack[b].label>>

\* The code cc has written so far, with the blocks it is in: every jump has its
\* label.
CodeInv ==
  /\ IsSeq(asmCode) /\ \A l \in LinesOf(asmCode) : CodeLine(l)
  /\ \A l \in LinesOf(asmCode) :
       l.op \in {"jmp", "jge"} => Placed(asmCode, l.a.name) \/ EndsIn(blocks, l.a.name)

OpenBlock == [block : {"function", "then", "else", "while"}, label : Nat]

\* The function is the outermost block, and a while has begun with its label.
Nested(stack, code) ==
  /\ stack \in Seq(OpenBlock)
  /\ \A b \in 1 .. Len(stack) : stack[b].block = "function" => b = 1
  /\ \A b \in 1 .. Len(stack) :
       stack[b].block = "while" => Placed(code, <<"loop", stack[b].label>>)

BlocksInv ==
  /\ ifCount \in Nat /\ whileCount \in Nat
  /\ Nested(blocks, asmCode)
  /\ blocks # <<>> => bodyStart \in 1 .. Len(asmCode)

DataLine(l) == \/ l = TC!AL!Label(l.a.name)
               \/ \E n \in Nat : l = TC!AL!Ins("db", TC!AL!Text(n), TC!AL!NoArg)

StringsInv ==
  /\ IsSeq(dataLines) /\ \A l \in LinesOf(dataLines) : DataLine(l)
  /\ IsSeq(dataSymbols) /\ Len(dataLines) = 2 * Len(dataSymbols)

OutputInv ==
  output # TC!CC!NoOutput =>
    /\ blocks = <<>>
    /\ dataLines # <<>> => output = TC!CC!Sections

CompilerInv == CodeInv /\ BlocksInv /\ StringsInv /\ OutputInv

LEMMA CompilerStarts == TC!CC!Init => CompilerInv
<1> SUFFICES ASSUME TC!CC!Init PROVE CompilerInv
  OBVIOUS
<1> USE DEF TC!CC!Init
<1>1. IsSeq(<<>>) /\ LinesOf(<<>>) = {} /\ Len(<<>>) = 0
  BY LinesOfNone
<1>2. CodeInv
  BY <1>1 DEF CodeInv
<1>3. BlocksInv
  BY <1>1 DEF BlocksInv, Nested
<1>4. StringsInv
  BY <1>1 DEF StringsInv
<1> QED
  BY <1>2, <1>3, <1>4 DEF CompilerInv, OutputInv, TC!CC!NoOutput

\* More code: the lines and labels there stay, at their places.
LEMMA MoreCode ==
  ASSUME CodeInv, NEW code, IsSeq(code), \A l \in LinesOf(code) : CodeLine(l),
         asmCode' = asmCode \o code
  PROVE  /\ IsSeq(asmCode') /\ LinesOf(asmCode') = LinesOf(asmCode) \cup LinesOf(code)
         /\ \A l \in LinesOf(asmCode') : CodeLine(l)
         /\ Len(asmCode) \in Nat /\ Len(code) \in Nat
         /\ Len(asmCode') = Len(asmCode) + Len(code)
         /\ \A n : Placed(asmCode, n) => Placed(asmCode', n)
<1>1. /\ IsSeq(asmCode') /\ LinesOf(asmCode') = LinesOf(asmCode) \cup LinesOf(code)
      /\ Len(asmCode') = Len(asmCode) + Len(code)
  BY LinesOfBoth DEF CodeInv
<1>2. Len(asmCode) \in Nat /\ Len(code) \in Nat
  BY DEF IsSeq, CodeInv
<1> QED
  BY <1>1, <1>2 DEF CodeInv, Placed

\* A simple statement adds plain code (Emit).
LEMMA EmitKeeps ==
  ASSUME CodeInv, BlocksInv, OutputInv, NEW s, NEW table, NEW code, PlainCode(code),
         TC!CC!Emit(s, table, code), TC!CC!InBody
  PROVE  CodeInv' /\ BlocksInv' /\ OutputInv'
<1> USE DEF TC!CC!Emit
<1>1. \A l \in LinesOf(code) : CodeLine(l) /\ l.op \notin {"jmp", "jge"}
  BY DEF PlainCode, PlainLine
<1>2. IsSeq(code)
  BY DEF PlainCode
<1>3. /\ IsSeq(asmCode') /\ LinesOf(asmCode') = LinesOf(asmCode) \cup LinesOf(code)
      /\ \A l \in LinesOf(asmCode') : CodeLine(l)
      /\ Len(asmCode) \in Nat /\ Len(code) \in Nat
      /\ Len(asmCode') = Len(asmCode) + Len(code)
      /\ \A n : Placed(asmCode, n) => Placed(asmCode', n)
  BY <1>1, <1>2, MoreCode
<1>4. blocks' = blocks /\ ifCount' = ifCount /\ whileCount' = whileCount
      /\ bodyStart' = bodyStart /\ output' = output
  OBVIOUS
<1>5. CodeInv'
  <2>1. ASSUME NEW l \in LinesOf(asmCode'), l.op \in {"jmp", "jge"}
        PROVE  Placed(asmCode', l.a.name) \/ EndsIn(blocks', l.a.name)
    <3>1. l \in LinesOf(asmCode)
      BY <1>1, <1>3, <2>1
    <3>2. Placed(asmCode, l.a.name) \/ EndsIn(blocks, l.a.name)
      BY <2>1, <3>1 DEF CodeInv
    <3> QED
      BY <1>3, <1>4, <3>2
  <2> QED
    BY <1>3, <2>1 DEF CodeInv
<1>6. BlocksInv'
  BY <1>3, <1>4 DEF BlocksInv, Nested
<1>7. OutputInv'
  BY <1>4 DEF OutputInv, TC!CC!InBody, TC!CC!NoOutput
<1> QED
  BY <1>5, <1>6, <1>7

\* The simple statements (parseStringDeclaration to parseFunctionCall).
LEMMA StringKeeps ==
  ASSUME CompilerInv, NEW s, TC!CC!IsParsed(s), TC!CC!parseStringDeclaration(s)
  PROVE  CompilerInv'
<1> DEFINE more == <<TC!CC!Label(<<s.name>>),
                     TC!CC!Ins("db", TC!CC!Text(s.length), TC!CC!NoArg)>>
<1>1. /\ TC!CC!InBody /\ TC!CC!Emit(s, symbolTable, <<>>)
      /\ dataSymbols' = Append(dataSymbols, s.name) /\ dataLines' = dataLines \o more
      /\ s.length \in Nat
  BY DEF TC!CC!parseStringDeclaration, TC!CC!IsParsed
<1>2. CodeInv' /\ BlocksInv' /\ OutputInv'
  BY <1>1, PlainNone, EmitKeeps DEF CompilerInv
<1>3. IsSeq(more) /\ Len(more) = 2 /\ \A l \in LinesOf(more) : DataLine(l)
  <2>1. DataLine(TC!CC!Label(<<s.name>>))
    BY DEF DataLine, TC!CC!Label, TC!AL!Label, TC!CC!Ins, TC!AL!Ins, TC!CC!Name, TC!AL!Name,
           TC!CC!NoArg, TC!AL!NoArg
  <2>2. DataLine(TC!CC!Ins("db", TC!CC!Text(s.length), TC!CC!NoArg))
    BY <1>1 DEF DataLine, TC!CC!Ins, TC!AL!Ins, TC!CC!Text, TC!AL!Text, TC!CC!NoArg, TC!AL!NoArg
  <2>3. PICK a, b : a = TC!CC!Label(<<s.name>>)
                      /\ b = TC!CC!Ins("db", TC!CC!Text(s.length), TC!CC!NoArg)
    OBVIOUS
  <2>4. IsSeq(<<a, b>>) /\ LinesOf(<<a, b>>) = {a, b} /\ Len(<<a, b>>) = 2
    BY LinesOfTwo
  <2> QED
    BY <2>1, <2>2, <2>3, <2>4
<1>4. StringsInv'
  <2> HIDE DEF more
  <2>1. IsSeq(dataLines) /\ IsSeq(dataSymbols) /\ Len(dataLines) = 2 * Len(dataSymbols)
        /\ \A l \in LinesOf(dataLines) : DataLine(l)
    BY DEF CompilerInv, StringsInv
  <2>2. /\ IsSeq(dataLines') /\ LinesOf(dataLines') = LinesOf(dataLines) \cup LinesOf(more)
        /\ Len(dataLines') = Len(dataLines) + Len(more)
    BY <1>1, <1>3, <2>1, LinesOfBoth
  <2>3. IsSeq(dataSymbols') /\ Len(dataSymbols') = Len(dataSymbols) + 1
        /\ Len(dataSymbols) \in Nat
    <3>1. dataSymbols \in Seq(LinesOf(dataSymbols) \cup {s.name})
      <4>1. PICK S : S = LinesOf(dataSymbols)
        OBVIOUS
      <4>2. dataSymbols \in Seq(S)
        BY <2>1, <4>1 DEF IsSeq
      <4> QED
        BY <4>1, <4>2
    <3>2. PICK S : S = LinesOf(dataSymbols) \cup {s.name}
      OBVIOUS
    <3>3. dataSymbols' \in Seq(S) /\ Len(dataSymbols') = Len(dataSymbols) + 1
          /\ Len(dataSymbols) \in Nat
      BY <1>1, <3>1, <3>2
    <3> QED
      BY <3>3, SeqIsSeq
  <2> QED
    BY <1>3, <2>1, <2>2, <2>3 DEF StringsInv
<1> QED
  BY <1>2, <1>4 DEF CompilerInv

\* What the other statements leave alone.
LEMMA OthersKeep ==
  ASSUME CompilerInv, NEW s, NEW table, NEW code, PlainCode(code),
         TC!CC!Emit(s, table, code), TC!CC!InBody, UNCHANGED <<dataSymbols, dataLines>>
  PROVE  CompilerInv'
<1>1. CodeInv' /\ BlocksInv' /\ OutputInv'
  BY EmitKeeps DEF CompilerInv
<1>2. StringsInv'
  BY DEF CompilerInv, StringsInv
<1> QED
  BY <1>1, <1>2 DEF CompilerInv

LEMMA AssignmentsKeep ==
  ASSUME CompilerInv, NEW s, TC!CC!IsParsed(s),
         TC!CC!parseDeclaration(s) \/ TC!CC!parseAssignment(s)
  PROVE  CompilerInv'
<1>1. CASE TC!CC!parseDeclaration(s)
  <2> USE DEF TC!CC!parseDeclaration
  <2>1. CASE "value" \in DOMAIN s
    <3>1. PICK table, more :
            /\ TC!CC!Emit(s, more, TC!CC!Assigned(table, s.name, s.value)) /\ TC!CC!InBody
            /\ UNCHANGED <<dataSymbols, dataLines>> /\ TC!CC!IsValue(s.value)
      BY <1>1, <2>1 DEF TC!CC!IsParsed
    <3> QED
      BY <3>1, AssignedIsPlain, OthersKeep
  <2>2. CASE "value" \notin DOMAIN s
    <3>1. PICK more : /\ TC!CC!Emit(s, more, <<>>) /\ TC!CC!InBody
                      /\ UNCHANGED <<dataSymbols, dataLines>>
      BY <1>1, <2>2
    <3> QED
      BY <3>1, PlainNone, OthersKeep
  <2> QED
    BY <2>1, <2>2
<1>2. CASE TC!CC!parseAssignment(s)
  <2>1. PICK table :
          /\ TC!CC!Emit(s, table, TC!CC!Assigned(table, s.name, s.value)) /\ TC!CC!InBody
          /\ UNCHANGED <<dataSymbols, dataLines>> /\ TC!CC!IsValue(s.value)
    BY <1>2 DEF TC!CC!IsParsed, TC!CC!parseAssignment
  <2> QED
    BY <2>1, AssignedIsPlain, OthersKeep
<1> QED
  BY <1>1, <1>2

LEMMA DerefKeeps ==
  ASSUME CompilerInv, NEW s, TC!CC!IsParsed(s), TC!CC!parseDerefAssignment(s)
  PROVE  CompilerInv'
<1> DEFINE saved == TC!CC!Mov(TC!CC!ebx, TC!CC!eax)
           stored(t) == <<TC!CC!Mov(TC!CC!eax, TC!CC!Local(t, s.name)),
                          TC!CC!Mov(TC!CC!Mem("eax", 0), TC!CC!ebx)>>
           value(w, t) == IF TC!CC!IsSyscall(s.value)
                          THEN TC!CC!SyscallCode(w, s.value) \o <<saved>>
                          ELSE TC!CC!Load(TC!CC!ebx, t, s.value)
<1>1. PICK w, t : /\ TC!CC!Emit(s, t, value(w, t) \o stored(t)) /\ TC!CC!InBody
                  /\ UNCHANGED <<dataSymbols, dataLines>> /\ TC!CC!IsValue(s.value)
  BY DEF TC!CC!IsParsed, TC!CC!parseDerefAssignment
<1>2. PlainCode(<<saved>>)
  <2>1. "none" \notin DOMAIN TC!CC!eax
    BY DEF TC!CC!eax, TC!CC!Reg
  <2> QED
    BY <2>1, MovToRegister, PlainOne DEF TC!CC!Mov, TC!CC!ebx
<1>3. PlainCode(stored(t))
  <2>1. "none" \notin DOMAIN TC!CC!Local(t, s.name)
    BY DEF TC!CC!Local, TC!CC!Mem
  <2>2. PlainLine(TC!CC!Mov(TC!CC!eax, TC!CC!Local(t, s.name)))
    BY <2>1, MovToRegister DEF TC!CC!Mov, TC!CC!eax
  <2>3. PlainLine(TC!CC!Mov(TC!CC!Mem("eax", 0), TC!CC!ebx))
    BY MovToMemory DEF TC!CC!Mov, TC!CC!ebx
  <2> QED
    BY <2>2, <2>3, PlainTwo
<1>4. PlainCode(value(w, t))
  <2>1. CASE TC!CC!IsSyscall(s.value)
    <3>1. PlainCode(TC!CC!SyscallCode(w, s.value))
      BY <1>1, <2>1, SyscallIsPlain DEF TC!CC!IsValue
    <3> HIDE DEF saved
    <3> QED
      BY <1>2, <2>1, <3>1, PlainBoth
  <2>2. CASE ~TC!CC!IsSyscall(s.value)
    BY <1>1, <2>2, LoadIsPlain DEF TC!CC!IsValue, TC!CC!ebx
  <2> QED
    BY <2>1, <2>2
<1>5. PlainCode(value(w, t) \o stored(t))
  <2> HIDE DEF value, stored
  <2> QED
    BY <1>3, <1>4, PlainBoth
<1> QED
  BY <1>1, <1>5, OthersKeep

LEMMA ReturnKeeps ==
  ASSUME CompilerInv, NEW s, TC!CC!IsParsed(s), TC!CC!parseReturnStatement(s)
  PROVE  CompilerInv'
<1> DEFINE leave == <<TC!CC!Mov(TC!CC!eax, TC!CC!Imm(1)), TC!CC!Op("int", TC!CC!Imm(128))>>
<1>1. PICK t : /\ TC!CC!Emit(s, t, TC!CC!Load(TC!CC!ebx, t, s.value) \o leave) /\ TC!CC!InBody
               /\ UNCHANGED <<dataSymbols, dataLines>> /\ TC!CC!IsSum(s.value)
  BY DEF TC!CC!IsParsed, TC!CC!parseReturnStatement
<1>2. PlainCode(leave)
  <2>1. "none" \notin DOMAIN TC!CC!Imm(1)
    BY DEF TC!CC!Imm
  <2>2. PlainLine(TC!CC!Mov(TC!CC!eax, TC!CC!Imm(1)))
    BY <2>1, MovToRegister DEF TC!CC!Mov, TC!CC!eax
  <2>3. PlainLine(TC!CC!Op("int", TC!CC!Imm(128)))
    BY OtherLines
  <2> QED
    BY <2>2, <2>3, PlainTwo
<1>3. PlainCode(TC!CC!Load(TC!CC!ebx, t, s.value))
  BY <1>1, LoadIsPlain DEF TC!CC!ebx
<1>4. PlainCode(TC!CC!Load(TC!CC!ebx, t, s.value) \o leave)
  <2> HIDE DEF leave
  <2> QED
    BY <1>2, <1>3, PlainBoth
<1> QED
  BY <1>1, <1>4, OthersKeep

LEMMA SyscallKeeps ==
  ASSUME CompilerInv, NEW s, TC!CC!IsParsed(s), TC!CC!parseSyscallStatement(s)
  PROVE  CompilerInv'
<1>1. /\ TC!CC!Emit(s, TC!CC!SymbolsOfSyscall(symbolTable, s), TC!CC!SyscallCode(symbolTable, s))
      /\ TC!CC!InBody /\ UNCHANGED <<dataSymbols, dataLines>>
      /\ TC!CC!IsSum(s.args[1]) /\ TC!CC!IsSum(s.args[2])
  BY DEF TC!CC!IsParsed, TC!CC!parseSyscallStatement
<1> QED
  BY <1>1, SyscallIsPlain, OthersKeep

LEMMA CallKeeps ==
  ASSUME CompilerInv, NEW s, TC!CC!IsParsed(s), TC!CC!parseFunctionCall(s)
  PROVE  CompilerInv'
<1> USE DEF TC!CC!parseFunctionCall
<1>1. CASE s.name \in definedFunctions
  <2>1. /\ TC!CC!Emit(s, symbolTable, <<TC!CC!Op("call", TC!CC!Name(<<s.name>>))>>)
        /\ TC!CC!InBody /\ UNCHANGED <<dataSymbols, dataLines>>
    BY <1>1
  <2> QED
    BY <2>1, OtherLines, PlainOne, OthersKeep
<1>2. CASE s.name \notin definedFunctions
  <2> DEFINE before == <<TC!CC!Op("push", TC!CC!eax), TC!CC!Op("push", TC!CC!ecx),
                         TC!CC!Op("push", TC!CC!edx)>>
             call == TC!CC!Op("call", TC!CC!Name(<<s.name>>))
             freed == TC!CC!Ins("add", TC!CC!esp, TC!CC!Imm(4 * Len(s.args)))
             pop1 == TC!CC!Op("pop", TC!CC!edx)
             pop2 == TC!CC!Op("pop", TC!CC!ecx)
             pop3 == TC!CC!Op("pop", TC!CC!eax)
  <2>1. PICK t : /\ TC!CC!Emit(s, t, (before \o TC!CC!PushedArgs(t, s.args))
                                       \o <<call, freed, pop1, pop2, pop3>>)
                 /\ TC!CC!InBody /\ UNCHANGED <<dataSymbols, dataLines>>
    BY <1>2
  <2>2. PlainCode(TC!CC!PushedArgs(t, s.args))
    BY PushedIsPlain DEF TC!CC!IsParsed
  <2>3. PlainCode(before)
    BY OtherLines, PlainThree DEF TC!CC!eax, TC!CC!ecx, TC!CC!edx
  <2>4. PlainCode(<<call, freed, pop1, pop2, pop3>>)
    <3>1. "none" \notin DOMAIN TC!CC!Imm(4 * Len(s.args))
      BY DEF TC!CC!Imm
    <3>2. PlainLine(freed)
      BY <3>1, MovToRegister DEF TC!CC!esp
    <3>3. PlainLine(call) /\ PlainLine(pop1) /\ PlainLine(pop2) /\ PlainLine(pop3)
      BY OtherLines DEF TC!CC!eax, TC!CC!ecx, TC!CC!edx
    <3> HIDE DEF call, freed, pop1, pop2, pop3
    <3>4. PlainCode(<<call, freed, pop1>>) /\ PlainCode(<<pop2, pop3>>)
      BY <3>2, <3>3, PlainTwo, PlainThree
    <3>5. <<call, freed, pop1, pop2, pop3>> = <<call, freed, pop1>> \o <<pop2, pop3>>
      OBVIOUS
    <3> QED
      BY <3>4, <3>5, PlainBoth
  <2> HIDE DEF before, call, freed, pop1, pop2, pop3
  <2>5. PlainCode((before \o TC!CC!PushedArgs(t, s.args)) \o <<call, freed, pop1, pop2, pop3>>)
    <3>1. PlainCode(before \o TC!CC!PushedArgs(t, s.args))
      BY <2>2, <2>3, PlainBoth
    <3> QED
      BY <2>4, <3>1, PlainBoth
  <2> QED
    BY <2>1, <2>5, OthersKeep
<1> QED
  BY <1>1, <1>2

\* What is nested stays nested when code is added.
LEMMA NestedMore ==
  ASSUME NEW stack, NEW s, NEW code, IsSeq(s), IsSeq(code),
         Nested(stack, s)
  PROVE  Nested(stack, s \o code)
BY LinesOfBoth DEF Nested, Placed

\* A block begins or ends (Block): some code and labels, and with it the blocks.
LEMMA BlockKeeps ==
  ASSUME CompilerInv, TC!CC!InBody, NEW s, NEW table, NEW code, NEW stack,
         TC!CC!Block(s, table, code, stack),
         ifCount' \in Nat, whileCount' \in Nat,
         IsSeq(code), \A l \in LinesOf(code) : CodeLine(l),
         Nested(stack, asmCode \o code),
         \A n : EndsIn(blocks, n) => EndsIn(stack, n) \/ Placed(code, n),
         \A l \in LinesOf(code) : l.op \in {"jmp", "jge"} =>
           Placed(asmCode, l.a.name) \/ Placed(code, l.a.name) \/ EndsIn(stack, l.a.name)
  PROVE  CompilerInv'
<1>1. /\ asmCode' = asmCode \o code /\ blocks' = stack /\ bodyStart' = bodyStart
      /\ output' = output /\ dataLines' = dataLines /\ dataSymbols' = dataSymbols
  BY DEF TC!CC!Block
<1>2. /\ IsSeq(asmCode') /\ LinesOf(asmCode') = LinesOf(asmCode) \cup LinesOf(code)
      /\ \A l \in LinesOf(asmCode') : CodeLine(l)
      /\ Len(asmCode) \in Nat /\ Len(code) \in Nat
      /\ Len(asmCode') = Len(asmCode) + Len(code)
      /\ \A n : Placed(asmCode, n) => Placed(asmCode', n)
  BY <1>1, MoreCode DEF CompilerInv
<1>3. \A n : Placed(code, n) => Placed(asmCode', n)
  BY <1>2 DEF Placed
<1>4. CodeInv'
  <2>1. ASSUME NEW l \in LinesOf(asmCode'), l.op \in {"jmp", "jge"}
        PROVE  Placed(asmCode', l.a.name) \/ EndsIn(blocks', l.a.name)
    <3>1. CASE l \in LinesOf(code)
      BY <1>1, <1>2, <1>3, <2>1, <3>1
    <3>2. CASE l \in LinesOf(asmCode)
      <4>1. Placed(asmCode, l.a.name) \/ EndsIn(blocks, l.a.name)
        BY <2>1, <3>2 DEF CompilerInv, CodeInv
      <4> QED
        BY <1>1, <1>2, <1>3, <4>1
    <3> QED
      BY <1>2, <2>1, <3>1, <3>2
  <2> QED
    BY <1>2, <2>1 DEF CodeInv
<1>5. BlocksInv'
  <2>1. bodyStart' \in 1 .. Len(asmCode')
    BY <1>1, <1>2 DEF CompilerInv, BlocksInv, TC!CC!InBody
  <2> QED
    BY <1>1, <2>1 DEF BlocksInv
<1>6. StringsInv'
  BY <1>1 DEF CompilerInv, StringsInv
<1>7. OutputInv'
  BY <1>1 DEF OutputInv, TC!CC!InBody, TC!CC!NoOutput
<1> QED
  BY <1>4, <1>5, <1>6, <1>7 DEF CompilerInv

\* The innermost block and the ones around it (Inside, Outside).
LEMMA BlocksAround ==
  ASSUME CompilerInv, TC!CC!InBody
  PROVE  /\ Nested(TC!CC!Outside, asmCode) /\ TC!CC!Inside.label \in Nat
         /\ TC!CC!Inside.block = "while" => Placed(asmCode, <<"loop", TC!CC!Inside.label>>)
         /\ TC!CC!Inside.block = "function" => Len(blocks) = 1
         /\ \A n : EndsIn(blocks, n) =>
              \/ EndsIn(TC!CC!Outside, n)
              \/ TC!CC!Inside.block \in {"else", "while"} /\ n = <<"end", TC!CC!Inside.label>>
<1>1. /\ Nested(blocks, asmCode) /\ blocks \in Seq(OpenBlock) /\ Len(blocks) \in Nat \ {0}
  BY DEF CompilerInv, BlocksInv, Nested, TC!CC!InBody
<1>2. TC!CC!Inside = blocks[Len(blocks)]
  BY DEF TC!CC!Inside, TC!CC!Last
<1>3. TC!CC!Outside = SubSeq(blocks, 1, Len(blocks) - 1)
  BY DEF TC!CC!Outside, TC!CC!Front
<1>4. TC!CC!Inside.label \in Nat
  <2>1. blocks[Len(blocks)] \in OpenBlock
    BY <1>1
  <2> QED
    BY <1>2, <2>1 DEF OpenBlock
<1>5. /\ TC!CC!Outside \in Seq(OpenBlock) /\ Len(TC!CC!Outside) = Len(blocks) - 1
      /\ \A b \in 1 .. Len(blocks) - 1 : TC!CC!Outside[b] = blocks[b]
  <2>1. PICK B, k : B = OpenBlock /\ k = Len(blocks) - 1
    OBVIOUS
  <2>2. blocks \in Seq(B) /\ Len(blocks) \in Nat /\ k \in 0 .. Len(blocks)
    BY <1>1, <2>1
  <2>3. /\ SubSeq(blocks, 1, k) \in Seq(B) /\ Len(SubSeq(blocks, 1, k)) = k
        /\ \A b \in 1 .. k : SubSeq(blocks, 1, k)[b] = blocks[b]
    BY ONLY <2>2
  <2> QED
    BY <1>3, <2>1, <2>3
<1>6. Nested(TC!CC!Outside, asmCode)
  BY <1>1, <1>5 DEF Nested
<1>7. /\ TC!CC!Inside.block = "while" => Placed(asmCode, <<"loop", TC!CC!Inside.label>>)
      /\ TC!CC!Inside.block = "function" => Len(blocks) = 1
  BY <1>1, <1>2 DEF Nested
<1>8. ASSUME NEW n, EndsIn(blocks, n)
      PROVE  \/ EndsIn(TC!CC!Outside, n)
             \/ TC!CC!Inside.block \in {"else", "while"} /\ n = <<"end", TC!CC!Inside.label>>
  <2>1. PICK b \in 1 .. Len(blocks) :
          blocks[b].block \in {"else", "while"} /\ n = <<"end", blocks[b].label>>
    BY <1>8 DEF EndsIn
  <2>2. CASE b = Len(blocks)
    BY <1>2, <2>1, <2>2
  <2>3. CASE b # Len(blocks)
    <3>1. b \in 1 .. Len(TC!CC!Outside) /\ TC!CC!Outside[b] = blocks[b]
      BY <1>1, <1>5, <2>3
    <3> QED
      BY <2>1, <3>1 DEF EndsIn
  <2> QED
    BY <2>2, <2>3
<1> QED
  BY <1>4, <1>6, <1>7, <1>8

\* One more block inside (Append).
LEMMA OneMoreBlock ==
  ASSUME NEW stack, NEW code, Nested(stack, code),
         NEW kind \in {"then", "else", "while"}, NEW n \in Nat,
         kind = "while" => Placed(code, <<"loop", n>>)
  PROVE  /\ Nested(Append(stack, [block |-> kind, label |-> n]), code)
         /\ \A m : EndsIn(stack, m) => EndsIn(Append(stack, [block |-> kind, label |-> n]), m)
         /\ kind # "then" =>
              EndsIn(Append(stack, [block |-> kind, label |-> n]), <<"end", n>>)
<1>1. PICK e : e = [block |-> kind, label |-> n]
  OBVIOUS
<1>2. e \in OpenBlock /\ e.block = kind /\ e.label = n
  BY <1>1 DEF OpenBlock
<1>3. PICK E, more : E = OpenBlock /\ more = Append(stack, e)
  OBVIOUS
<1>4. stack \in Seq(E) /\ e \in E
  BY <1>2, <1>3 DEF Nested
<1>5. /\ more \in Seq(E) /\ Len(more) = Len(stack) + 1 /\ Len(stack) \in Nat
      /\ \A b \in 1 .. Len(stack) : more[b] = stack[b]
      /\ more[Len(stack) + 1] = e
  BY ONLY <1>3, <1>4
<1>6. Nested(more, code)
  <2>1. ASSUME NEW b \in 1 .. Len(more)
        PROVE  /\ more[b].block = "function" => b = 1
               /\ more[b].block = "while" => Placed(code, <<"loop", more[b].label>>)
    <3>1. CASE b = Len(stack) + 1
      BY <1>2, <1>5, <3>1
    <3>2. CASE b # Len(stack) + 1
      <4>1. b \in 1 .. Len(stack) /\ more[b] = stack[b]
        BY <1>5, <3>2
      <4> QED
        BY <4>1 DEF Nested
    <3> QED
      BY <3>1, <3>2
  <2> QED
    BY <1>3, <1>5, <2>1 DEF Nested
<1>7. ASSUME NEW m, EndsIn(stack, m)
      PROVE  EndsIn(more, m)
  <2>1. PICK b \in 1 .. Len(stack) :
          stack[b].block \in {"else", "while"} /\ m = <<"end", stack[b].label>>
    BY <1>7 DEF EndsIn
  <2>2. b \in 1 .. Len(more) /\ more[b] = stack[b]
    BY <1>5
  <2> QED
    BY <2>1, <2>2 DEF EndsIn
<1>8. kind # "then" => EndsIn(more, <<"end", n>>)
  <2>1. Len(stack) + 1 \in 1 .. Len(more)
    BY <1>5
  <2> QED
    BY <1>2, <1>5, <2>1 DEF EndsIn
<1> QED
  BY <1>1, <1>3, <1>6, <1>7, <1>8

\* The lines that begin and end blocks are code lines.
LEMMA BlockLines ==
  ASSUME NEW n
  PROVE  /\ CodeLine(TC!CC!Op("je", TC!CC!Name(n))) /\ CodeLine(TC!CC!Op("jmp", TC!CC!Name(n)))
         /\ CodeLine(TC!CC!Op("jge", TC!CC!Name(n))) /\ CodeLine(TC!CC!Label(n))
         /\ TC!CC!Label(n) = TC!AL!Label(n)
         /\ TC!CC!Op("je", TC!CC!Name(n)).op = "je" /\ TC!CC!Label(n).op = "label"
         /\ TC!CC!Op("jmp", TC!CC!Name(n)).a.name = n
         /\ TC!CC!Op("jge", TC!CC!Name(n)).a.name = n
<1> USE DEF TC!CC!Op, TC!CC!Ins, TC!CC!Name, TC!AL!Name, TC!CC!Label, TC!AL!Label, TC!AL!Ins,
            TC!CC!NoArg, TC!AL!NoArg
<1>1. TC!CC!Label(n) = TC!AL!Label(n)
  OBVIOUS
<1>2. CodeLine(TC!CC!Label(n))
  BY DEF CodeLine
<1>3. CodeLine(TC!CC!Op("jmp", TC!CC!Name(n))) /\ CodeLine(TC!CC!Op("jge", TC!CC!Name(n)))
  BY DEF CodeLine
<1>4. CodeLine(TC!CC!Op("je", TC!CC!Name(n)))
  BY DEF CodeLine
<1> QED
  BY <1>1, <1>2, <1>3, <1>4

\* A comparison, whatever is compared.
LEMMA CmpLine ==
  ASSUME NEW a, NEW b, "none" \notin DOMAIN a, "none" \notin DOMAIN b, "text" \notin DOMAIN a
  PROVE  CodeLine(TC!CC!Ins("cmp", a, b)) /\ TC!CC!Ins("cmp", a, b).op = "cmp"
BY DEF CodeLine, TC!CC!Ins, TC!AL!IsArg

\* if (x != y) { (parseIfStatement)
LEMMA IfKeeps ==
  ASSUME CompilerInv, NEW c, TC!CC!parseIfStatement(c)
  PROVE  CompilerInv'
<1> DEFINE n == ifCount
           stack == Append(blocks, [block |-> "then", label |-> n])
           lines1(t) == TC!CC!Mov(TC!CC!eax, TC!CC!Local(t, c.name))
           lines2(t) == TC!CC!Ins("cmp", TC!CC!eax, TC!CC!Local(t, c.other))
           lines3 == TC!CC!Op("je", TC!CC!Name(<<"else", n>>))
<1>1. PICK table, l1, l2, l3 :
        /\ TC!CC!InBody /\ ifCount' = n + 1 /\ whileCount' = whileCount
        /\ l1 = lines1(table) /\ l2 = lines2(table) /\ l3 = lines3
        /\ TC!CC!Block([stmt |-> "if", cond |-> c], table, <<l1, l2, l3>>, stack)
  BY DEF TC!CC!parseIfStatement
<1>2. IsSeq(<<l1, l2, l3>>) /\ LinesOf(<<l1, l2, l3>>) = {l1, l2, l3}
  BY LinesOfThree
<1>3. CodeLine(l1) /\ CodeLine(l2) /\ CodeLine(l3)
      /\ l1.op \notin {"jmp", "jge"} /\ l2.op = "cmp" /\ l3.op = "je"
  <2>1. \A x : "none" \notin DOMAIN TC!CC!Local(table, x)
    BY DEF TC!CC!Local, TC!CC!Mem
  <2>2. "none" \notin DOMAIN TC!CC!eax /\ "text" \notin DOMAIN TC!CC!eax
    BY DEF TC!CC!eax, TC!CC!Reg
  <2>3. CodeLine(l1) /\ l1.op \notin {"jmp", "jge"}
    BY <1>1, <2>1, MovToRegister DEF PlainLine, TC!CC!Mov, TC!CC!eax
  <2>4. CodeLine(l2) /\ l2.op = "cmp"
    BY <1>1, <2>1, <2>2, CmpLine
  <2>5. CodeLine(l3) /\ l3.op = "je"
    BY <1>1, BlockLines
  <2> QED
    BY <2>3, <2>4, <2>5
<1>4. PICK code : code = <<l1, l2, l3>>
  OBVIOUS
<1>5. IsSeq(code) /\ \A l \in LinesOf(code) : CodeLine(l) /\ l.op \notin {"jmp", "jge"}
  BY <1>2, <1>3, <1>4
<1>6. n \in Nat /\ whileCount \in Nat /\ Nested(blocks, asmCode) /\ IsSeq(asmCode)
  BY DEF CompilerInv, BlocksInv, CodeInv
<1>7. Nested(stack, asmCode) /\ \A m : EndsIn(blocks, m) => EndsIn(stack, m)
  BY <1>6, OneMoreBlock
<1> HIDE DEF stack
<1>8. Nested(stack, asmCode \o code)
  BY <1>5, <1>6, <1>7, NestedMore
<1> QED
  BY <1>1, <1>4, <1>5, <1>6, <1>7, <1>8, BlockKeeps

\* } or } else { after if (CloseThen)
LEMMA CloseThenKeeps ==
  ASSUME CompilerInv, NEW hasElse \in BOOLEAN, TC!CC!CloseThen(hasElse)
  PROVE  CompilerInv'
<1> DEFINE n == TC!CC!Inside.label
<1>1. PICK s, jump, else, end, code, stack :
        /\ TC!CC!InBody /\ TC!CC!Inside.block = "then"
        /\ ifCount' = ifCount /\ whileCount' = whileCount
        /\ jump = TC!CC!Op("jmp", TC!CC!Name(<<"end", n>>))
        /\ else = TC!CC!Label(<<"else", n>>) /\ end = TC!CC!Label(<<"end", n>>)
        /\ code = <<jump, else>> \o (IF hasElse THEN <<>> ELSE <<end>>)
        /\ stack = IF hasElse THEN Append(TC!CC!Outside, [block |-> "else", label |-> n])
                              ELSE TC!CC!Outside
        /\ TC!CC!Block(s, symbolTable, code, stack)
  BY DEF TC!CC!CloseThen
<1>2. CodeLine(jump) /\ CodeLine(else) /\ CodeLine(end) /\ jump.a.name = <<"end", n>>
      /\ else.op = "label" /\ end.op = "label" /\ end = TC!AL!Label(<<"end", n>>)
  BY <1>1, BlockLines
<1>3. /\ IsSeq(code)
      /\ LinesOf(code) = IF hasElse THEN {jump, else} ELSE {jump, else, end}
  <2>1. IsSeq(<<jump, else>>) /\ LinesOf(<<jump, else>>) = {jump, else}
    BY LinesOfTwo
  <2>2. CASE hasElse
    <3>1. IsSeq(<<>>) /\ LinesOf(<<>>) = {}
      BY LinesOfNone
    <3>2. IsSeq(<<jump, else>> \o <<>>) /\ LinesOf(<<jump, else>> \o <<>>) = {jump, else}
      BY <2>1, <3>1, LinesOfBoth
    <3> QED
      BY <1>1, <2>2, <3>2
  <2>3. CASE ~hasElse
    <3>1. IsSeq(<<end>>) /\ LinesOf(<<end>>) = {end}
      BY LinesOfOne
    <3>2. /\ IsSeq(<<jump, else>> \o <<end>>)
          /\ LinesOf(<<jump, else>> \o <<end>>) = {jump, else, end}
      BY <2>1, <3>1, LinesOfBoth
    <3> QED
      BY <1>1, <2>3, <3>2
  <2> QED
    BY <2>2, <2>3
<1>4. /\ Nested(TC!CC!Outside, asmCode) /\ n \in Nat
      /\ \A m : EndsIn(blocks, m) => EndsIn(TC!CC!Outside, m)
  BY <1>1, BlocksAround
<1>5. /\ Nested(stack, asmCode) /\ \A m : EndsIn(blocks, m) => EndsIn(stack, m)
      /\ hasElse => EndsIn(stack, <<"end", n>>)
  <2> HIDE DEF n
  <2>1. CASE hasElse
    BY <1>1, <1>4, <2>1, OneMoreBlock
  <2>2. CASE ~hasElse
    BY <1>1, <1>4, <2>2
  <2> QED
    BY <2>1, <2>2
<1>6. ifCount \in Nat /\ whileCount \in Nat /\ IsSeq(asmCode)
  BY DEF CompilerInv, BlocksInv, CodeInv
<1>7. Nested(stack, asmCode \o code)
  BY <1>3, <1>5, <1>6, NestedMore
<1>8. ~hasElse => Placed(code, <<"end", n>>)
  BY <1>2, <1>3 DEF Placed
<1>9. \A l \in LinesOf(code) : CodeLine(l)
  BY <1>2, <1>3
<1>10. \A l \in LinesOf(code) : l.op \in {"jmp", "jge"} =>
         Placed(code, l.a.name) \/ EndsIn(stack, l.a.name)
  BY <1>2, <1>3, <1>5, <1>8
<1> HIDE DEF n
<1> QED
  BY <1>1, <1>3, <1>5, <1>6, <1>7, <1>9, <1>10, BlockKeeps

\* } after else (CloseElse)
LEMMA CloseElseKeeps == ASSUME CompilerInv, TC!CC!CloseElse PROVE CompilerInv'
<1> DEFINE n == TC!CC!Inside.label
<1>1. PICK s, end, code :
        /\ TC!CC!InBody /\ TC!CC!Inside.block = "else"
        /\ ifCount' = ifCount /\ whileCount' = whileCount
        /\ end = TC!CC!Label(<<"end", n>>) /\ code = <<end>>
        /\ TC!CC!Block(s, symbolTable, code, TC!CC!Outside)
  BY DEF TC!CC!CloseElse
<1>2. IsSeq(code) /\ LinesOf(code) = {end}
  BY <1>1, LinesOfOne
<1>3. CodeLine(end) /\ end.op = "label" /\ end = TC!AL!Label(<<"end", n>>)
  BY <1>1, BlockLines
<1>4. /\ Nested(TC!CC!Outside, asmCode)
      /\ \A m : EndsIn(blocks, m) => EndsIn(TC!CC!Outside, m) \/ m = <<"end", n>>
  BY <1>1, BlocksAround
<1>5. ifCount \in Nat /\ whileCount \in Nat /\ IsSeq(asmCode)
  BY DEF CompilerInv, BlocksInv, CodeInv
<1>6. Nested(TC!CC!Outside, asmCode \o code)
  BY <1>2, <1>4, <1>5, NestedMore
<1>7. Placed(code, <<"end", n>>)
  BY <1>2, <1>3 DEF Placed
<1> HIDE DEF n
<1>8. \A m : EndsIn(blocks, m) => EndsIn(TC!CC!Outside, m) \/ Placed(code, m)
  BY <1>4, <1>7
<1>9. \A l \in LinesOf(code) : CodeLine(l) /\ l.op \notin {"jmp", "jge"}
  BY <1>2, <1>3
<1> QED
  BY <1>1, <1>2, <1>5, <1>6, <1>8, <1>9, BlockKeeps

\* while (x < number) { (parseWhileStatement)
LEMMA WhileKeeps ==
  ASSUME CompilerInv, NEW c, TC!CC!parseWhileStatement(c)
  PROVE  CompilerInv'
<1> DEFINE n == whileCount
           top == Append(blocks, [block |-> "while", label |-> n])
<1>1. PICK s, table, l1, l2, l3, stack :
        /\ TC!CC!InBody /\ whileCount' = n + 1 /\ ifCount' = ifCount
        /\ l1 = TC!CC!Label(<<"loop", n>>)
        /\ l2 = TC!CC!Ins("cmp", TC!CC!Local(table, c.name), TC!CC!Imm(c.below))
        /\ l3 = TC!CC!Op("jge", TC!CC!Name(<<"end", n>>))
        /\ stack = top
        /\ TC!CC!Block(s, table, <<l1, l2, l3>>, stack)
  BY DEF TC!CC!parseWhileStatement
<1>2. IsSeq(<<l1, l2, l3>>) /\ LinesOf(<<l1, l2, l3>>) = {l1, l2, l3}
  BY LinesOfThree
<1>3. /\ CodeLine(l1) /\ l1.op = "label" /\ l1 = TC!AL!Label(<<"loop", n>>)
      /\ CodeLine(l2) /\ l2.op = "cmp"
      /\ CodeLine(l3) /\ l3.a.name = <<"end", n>>
  <2>1. /\ "none" \notin DOMAIN TC!CC!Local(table, c.name)
        /\ "text" \notin DOMAIN TC!CC!Local(table, c.name)
        /\ "none" \notin DOMAIN TC!CC!Imm(c.below)
    BY DEF TC!CC!Local, TC!CC!Mem, TC!CC!Imm
  <2>2. CodeLine(l2) /\ l2.op = "cmp"
    BY <1>1, <2>1, CmpLine
  <2>3. CodeLine(l1) /\ l1.op = "label" /\ l1 = TC!AL!Label(<<"loop", n>>)
    BY <1>1, BlockLines
  <2>4. CodeLine(l3) /\ l3.a.name = <<"end", n>>
    BY <1>1, BlockLines
  <2> QED
    BY <2>2, <2>3, <2>4
<1>4. PICK code : code = <<l1, l2, l3>>
  OBVIOUS
<1>5. IsSeq(code) /\ LinesOf(code) = {l1, l2, l3} /\ \A l \in LinesOf(code) : CodeLine(l)
  BY <1>2, <1>3, <1>4
<1>6. n \in Nat /\ ifCount \in Nat /\ Nested(blocks, asmCode) /\ IsSeq(asmCode)
  BY DEF CompilerInv, BlocksInv, CodeInv
<1>7. Nested(blocks, asmCode \o code)
  BY <1>5, <1>6, NestedMore
<1>8. Placed(asmCode \o code, <<"loop", n>>)
  BY <1>3, <1>5, <1>6, LinesOfBoth DEF Placed
<1>9. /\ Nested(stack, asmCode \o code) /\ \A m : EndsIn(blocks, m) => EndsIn(stack, m)
      /\ EndsIn(stack, <<"end", n>>)
  <2> HIDE DEF n
  <2> QED
    BY <1>1, <1>6, <1>7, <1>8, OneMoreBlock
<1>10. \A l \in LinesOf(code) : l.op \in {"jmp", "jge"} => EndsIn(stack, l.a.name)
  BY <1>3, <1>5, <1>9
<1>11. /\ TC!CC!Block(s, table, code, stack) /\ TC!CC!InBody
       /\ ifCount' \in Nat /\ whileCount' \in Nat
  BY <1>1, <1>4, <1>6
<1> HIDE DEF n, top
<1> QED
  BY <1>5, <1>9, <1>10, <1>11, BlockKeeps

\* } after while (CloseWhile)
LEMMA CloseWhileKeeps == ASSUME CompilerInv, TC!CC!CloseWhile PROVE CompilerInv'
<1> DEFINE n == TC!CC!Inside.label
<1>1. PICK s, jump, end, code :
        /\ TC!CC!InBody /\ TC!CC!Inside.block = "while"
        /\ ifCount' = ifCount /\ whileCount' = whileCount
        /\ jump = TC!CC!Op("jmp", TC!CC!Name(<<"loop", n>>))
        /\ end = TC!CC!Label(<<"end", n>>) /\ code = <<jump, end>>
        /\ TC!CC!Block(s, symbolTable, code, TC!CC!Outside)
  BY DEF TC!CC!CloseWhile
<1>2. IsSeq(code) /\ LinesOf(code) = {jump, end}
  BY <1>1, LinesOfTwo
<1>3. CodeLine(end) /\ end.op = "label" /\ end = TC!AL!Label(<<"end", n>>)
      /\ CodeLine(jump) /\ jump.a.name = <<"loop", n>>
  BY <1>1, BlockLines
<1>4. /\ Nested(TC!CC!Outside, asmCode) /\ Placed(asmCode, <<"loop", n>>)
      /\ \A m : EndsIn(blocks, m) => EndsIn(TC!CC!Outside, m) \/ m = <<"end", n>>
  BY <1>1, BlocksAround
<1>5. ifCount \in Nat /\ whileCount \in Nat /\ IsSeq(asmCode)
  BY DEF CompilerInv, BlocksInv, CodeInv
<1>6. Nested(TC!CC!Outside, asmCode \o code)
  BY <1>2, <1>4, <1>5, NestedMore
<1>7. Placed(code, <<"end", n>>)
  BY <1>2, <1>3 DEF Placed
<1> HIDE DEF n
<1>8. \A m : EndsIn(blocks, m) => EndsIn(TC!CC!Outside, m) \/ Placed(code, m)
  BY <1>4, <1>7
<1>9. \A l \in LinesOf(code) : CodeLine(l) /\ (l.op \in {"jmp", "jge"} => Placed(asmCode, l.a.name))
  BY <1>2, <1>3, <1>4
<1> QED
  BY <1>1, <1>2, <1>5, <1>6, <1>8, <1>9, BlockKeeps

LEMMA AppendIsBehind ==
  ASSUME NEW s, IsSeq(s), NEW x
  PROVE  Append(s, x) = s \o <<x>>
<1>1. PICK S : S = LinesOf(s) \cup {x}
  OBVIOUS
<1>2. s \in Seq(S)
  <2>1. PICK R : R = LinesOf(s)
    OBVIOUS
  <2>2. s \in Seq(R) /\ R \subseteq S
    BY <1>1, <2>1 DEF IsSeq
  <2> QED
    BY ONLY <2>2
<1>3. x \in S
  BY <1>1
<1> QED
  BY <1>2, <1>3

\* A function begins (generateMainCode, parseFunctionDefinition).
LEMMA OpenKeeps ==
  ASSUME CompilerInv, NEW name, NEW label, TC!CC!Open(name, label)
  PROVE  CompilerInv'
<1>1. PICK l, code :
        /\ output = TC!CC!NoOutput /\ blocks = <<>>
        /\ l = TC!CC!Label(<<label>>) /\ code = <<l>>
        /\ asmCode' = Append(asmCode, l) /\ bodyStart' = Len(asmCode) + 1
        /\ blocks' = <<[block |-> "function", label |-> 0]>>
        /\ UNCHANGED <<dataSymbols, dataLines, ifCount, whileCount, output>>
  BY DEF TC!CC!Open
<1>2. IsSeq(code) /\ LinesOf(code) = {l} /\ Len(code) = 1
  BY <1>1, LinesOfOne
<1>3. CodeLine(l) /\ l.op = "label"
  BY <1>1, BlockLines
<1>4. asmCode' = asmCode \o code
  BY <1>1, AppendIsBehind DEF CompilerInv, CodeInv
<1>5. /\ IsSeq(asmCode') /\ LinesOf(asmCode') = LinesOf(asmCode) \cup LinesOf(code)
      /\ \A k \in LinesOf(asmCode') : CodeLine(k)
      /\ Len(asmCode) \in Nat /\ Len(asmCode') = Len(asmCode) + 1
      /\ \A n : Placed(asmCode, n) => Placed(asmCode', n)
  BY <1>2, <1>3, <1>4, MoreCode DEF CompilerInv
<1>6. \A n : ~EndsIn(blocks, n)
  BY <1>1 DEF EndsIn
<1>7. CodeInv'
  BY <1>2, <1>3, <1>5, <1>6 DEF CompilerInv, CodeInv
<1>8. BlocksInv'
  <2>1. PICK e : e = [block |-> "function", label |-> 0]
    OBVIOUS
  <2>2. e \in OpenBlock /\ e.block = "function"
    BY <2>1 DEF OpenBlock
  <2>3. blocks' = <<e>>
    BY <1>1, <2>1
  <2>4. Nested(<<e>>, asmCode')
    BY <2>2 DEF Nested
  <2>5. bodyStart' \in 1 .. Len(asmCode')
    BY <1>1, <1>5
  <2>6. ifCount' \in Nat /\ whileCount' \in Nat
    BY <1>1 DEF CompilerInv, BlocksInv
  <2> QED
    BY <2>3, <2>4, <2>5, <2>6 DEF BlocksInv
<1>9. StringsInv'
  BY <1>1 DEF CompilerInv, StringsInv
<1> QED
  BY <1>1, <1>7, <1>8, <1>9 DEF CompilerInv, OutputInv

\* The body with its prologue and epilogue has all the lines it had (Framed).
LEMMA FramedIs ==
  ASSUME CompilerInv, TC!CC!InBody, NEW size
  PROVE  /\ IsSeq(TC!CC!Framed(size)) /\ LinesOf(asmCode) \subseteq LinesOf(TC!CC!Framed(size))
         /\ \A l \in LinesOf(TC!CC!Framed(size)) \ LinesOf(asmCode) : PlainLine(l)
<1> DEFINE front == SubSeq(asmCode, 1, bodyStart)
           back == SubSeq(asmCode, bodyStart + 1, Len(asmCode))
           prologue == <<TC!CC!Op("push", TC!CC!ebp), TC!CC!Mov(TC!CC!ebp, TC!CC!esp),
                         TC!CC!Ins("sub", TC!CC!esp, TC!CC!Imm(size))>>
           epilogue == <<TC!CC!Mov(TC!CC!esp, TC!CC!ebp), TC!CC!Op("pop", TC!CC!ebp)>>
<1>1. IsSeq(asmCode) /\ bodyStart \in 1 .. Len(asmCode) /\ Len(asmCode) \in Nat
  BY DEF CompilerInv, CodeInv, BlocksInv, TC!CC!InBody, IsSeq
<1>2. IsSeq(front) /\ LinesOf(front) = { asmCode[k] : k \in 1 .. bodyStart }
  <2>1. 1 \in 1 .. Len(asmCode) + 1 /\ bodyStart \in 1 - 1 .. Len(asmCode)
    BY <1>1
  <2> QED
    BY <1>1, <2>1, LinesOfPart
<1>3. IsSeq(back) /\ LinesOf(back) = { asmCode[k] : k \in bodyStart + 1 .. Len(asmCode) }
  <2>1. /\ bodyStart + 1 \in 1 .. Len(asmCode) + 1
        /\ Len(asmCode) \in (bodyStart + 1) - 1 .. Len(asmCode)
    BY <1>1
  <2> QED
    BY <1>1, <2>1, LinesOfPart
<1>4. LinesOf(asmCode) = LinesOf(front) \cup LinesOf(back)
  <2>1. 1 .. Len(asmCode) = (1 .. bodyStart) \cup (bodyStart + 1 .. Len(asmCode))
    BY <1>1
  <2> QED
    BY <1>2, <1>3, <2>1 DEF LinesOf
<1>5. PlainCode(prologue) /\ PlainCode(epilogue)
  <2>1. "none" \notin DOMAIN TC!CC!esp /\ "none" \notin DOMAIN TC!CC!ebp
        /\ "none" \notin DOMAIN TC!CC!Imm(size)
    BY DEF TC!CC!esp, TC!CC!ebp, TC!CC!Reg, TC!CC!Imm
  <2>2. PlainLine(TC!CC!Mov(TC!CC!ebp, TC!CC!esp)) /\ PlainLine(TC!CC!Mov(TC!CC!esp, TC!CC!ebp))
        /\ PlainLine(TC!CC!Ins("sub", TC!CC!esp, TC!CC!Imm(size)))
    <3>1. TC!CC!esp = TC!CC!Reg("esp") /\ TC!CC!ebp = TC!CC!Reg("ebp")
      BY DEF TC!CC!esp, TC!CC!ebp
    <3> QED
      BY <2>1, <3>1, MovToRegister DEF TC!CC!Mov
  <2>3. PlainLine(TC!CC!Op("push", TC!CC!ebp)) /\ PlainLine(TC!CC!Op("pop", TC!CC!ebp))
    BY OtherLines DEF TC!CC!ebp
  <2> QED
    BY <2>2, <2>3, PlainTwo, PlainThree
<1>6. TC!CC!Framed(size) = ((front \o prologue) \o back) \o epilogue
  BY DEF TC!CC!Framed
<1> HIDE DEF front, back, prologue, epilogue
<1>7. /\ IsSeq(front \o prologue)
      /\ LinesOf(front \o prologue) = LinesOf(front) \cup LinesOf(prologue)
  BY <1>2, <1>5, LinesOfBoth DEF PlainCode
<1>8. /\ IsSeq((front \o prologue) \o back)
      /\ LinesOf((front \o prologue) \o back) = LinesOf(asmCode) \cup LinesOf(prologue)
  BY <1>3, <1>4, <1>7, LinesOfBoth
<1>9. /\ IsSeq(TC!CC!Framed(size))
      /\ LinesOf(TC!CC!Framed(size)) = LinesOf(asmCode) \cup LinesOf(prologue) \cup LinesOf(epilogue)
  BY <1>5, <1>6, <1>8, LinesOfBoth DEF PlainCode
<1> QED
  BY <1>5, <1>9 DEF PlainCode

\* } of a function (CloseFunction)
LEMMA CloseFunctionKeeps == ASSUME CompilerInv, TC!CC!CloseFunction PROVE CompilerInv'
<1>1. PICK body, ret :
        /\ TC!CC!InBody /\ TC!CC!Inside.block = "function"
        /\ body = IF symbolTable # <<>> THEN TC!CC!Framed(4 * Len(symbolTable)) ELSE asmCode
        /\ ret = TC!CC!Op("ret", TC!CC!NoArg) /\ asmCode' = body \o <<ret>>
        /\ blocks' = <<>> /\ output' = output
        /\ UNCHANGED <<dataSymbols, dataLines, ifCount, whileCount>>
  BY DEF TC!CC!CloseFunction, TC!CC!InBody
<1>2. IsSeq(asmCode) /\ \A l \in LinesOf(asmCode) : CodeLine(l)
  BY DEF CompilerInv, CodeInv
<1>3. /\ IsSeq(body) /\ LinesOf(asmCode) \subseteq LinesOf(body)
      /\ \A l \in LinesOf(body) \ LinesOf(asmCode) : PlainLine(l)
  <2>1. CASE symbolTable = <<>>
    BY <1>1, <1>2, <2>1
  <2>2. CASE symbolTable # <<>>
    BY <1>1, <2>2, FramedIs
  <2> QED
    BY <2>1, <2>2
<1>4. IsSeq(<<ret>>) /\ LinesOf(<<ret>>) = {ret} /\ PlainLine(ret)
  BY <1>1, LinesOfOne, OtherLines
<1>5. IsSeq(asmCode') /\ LinesOf(asmCode') = LinesOf(body) \cup {ret}
  BY <1>1, <1>3, <1>4, LinesOfBoth
<1>6. \A n : Placed(asmCode, n) => Placed(asmCode', n)
  BY <1>3, <1>5 DEF Placed
<1>7. \A n : ~EndsIn(blocks, n)
  <2>1. Len(blocks) = 1 /\ TC!CC!Inside = blocks[Len(blocks)]
    BY <1>1, BlocksAround DEF TC!CC!Inside, TC!CC!Last
  <2> QED
    BY <1>1, <2>1 DEF EndsIn
<1>8. CodeInv'
  <2>1. ASSUME NEW l \in LinesOf(asmCode')
        PROVE  CodeLine(l) /\ (l.op \in {"jmp", "jge"} => Placed(asmCode', l.a.name))
    <3>1. CASE l \in LinesOf(asmCode)
      BY <1>2, <1>6, <1>7, <3>1 DEF CompilerInv, CodeInv
    <3>2. CASE l \notin LinesOf(asmCode)
      BY <1>3, <1>4, <1>5, <2>1, <3>2 DEF PlainLine
    <3> QED
      BY <3>1, <3>2
  <2> QED
    BY <1>5, <2>1 DEF CodeInv
<1>9. BlocksInv'
  <2>1. Nested(<<>>, asmCode')
    BY DEF Nested
  <2> QED
    BY <1>1, <2>1 DEF CompilerInv, BlocksInv
<1>10. StringsInv'
  BY <1>1 DEF CompilerInv, StringsInv
<1>11. OutputInv'
  BY <1>1 DEF OutputInv, TC!CC!InBody
<1> QED
  BY <1>8, <1>9, <1>10, <1>11 DEF CompilerInv

\* The end of the file (compileSource).
LEMMA CompileSourceKeeps == ASSUME CompilerInv, TC!CC!compileSource PROVE CompilerInv'
<1>1. /\ blocks = <<>>
      /\ dataLines # <<>> => output' = TC!CC!Sections
      /\ UNCHANGED <<asmCode, dataLines, dataSymbols, bodyStart, blocks, ifCount, whileCount>>
  BY DEF TC!CC!compileSource
<1>2. TC!CC!Sections' = TC!CC!Sections
  BY <1>1 DEF TC!CC!Sections
<1>3. OutputInv'
  BY <1>1, <1>2 DEF OutputInv
<1>4. CodeInv' /\ BlocksInv' /\ StringsInv'
  BY <1>1 DEF CompilerInv, CodeInv, BlocksInv, StringsInv
<1> QED
  BY <1>3, <1>4 DEF CompilerInv

LEMMA CompilerGoesOn == CompilerInv /\ [TC!CC!Next]_(TC!CC!ccVars) => CompilerInv'
<1> SUFFICES ASSUME CompilerInv, [TC!CC!Next]_(TC!CC!ccVars) PROVE CompilerInv'
  OBVIOUS
<1>1. CASE TC!CC!parseStatement
  <2>1. ASSUME NEW s \in IF TC!CC!InFile THEN Statement[TC!CC!Place] ELSE {},
               \/ TC!CC!parseStringDeclaration(s) \/ TC!CC!parseDeclaration(s)
               \/ TC!CC!parseAssignment(s) \/ TC!CC!parseDerefAssignment(s)
               \/ TC!CC!parseReturnStatement(s) \/ TC!CC!parseSyscallStatement(s)
               \/ TC!CC!parseFunctionCall(s)
        PROVE  CompilerInv'
    <3>1. TC!CC!IsParsed(s)
      BY <2>1, ToolAssumption DEF TC!CC!StatementsParsed, TC!CC!InFile
    <3> QED
      BY <2>1, <3>1, StringKeeps, AssignmentsKeep, DerefKeeps, ReturnKeeps, SyscallKeeps, CallKeeps
  <2>2. ASSUME NEW c, TC!CC!parseIfStatement(c) \/ TC!CC!parseWhileStatement(c)
        PROVE  CompilerInv'
    BY <2>2, IfKeeps, WhileKeeps
  <2>3. ASSUME NEW hasElse \in BOOLEAN, TC!CC!CloseThen(hasElse)
        PROVE  CompilerInv'
    BY <2>3, CloseThenKeeps
  <2> QED
    BY <1>1, <2>1, <2>2, <2>3, CloseElseKeeps, CloseWhileKeeps DEF TC!CC!parseStatement
<1>2. CASE (\E f \in FunctionName : TC!CC!parseFunctionDefinition(f)) \/ TC!CC!generateMainCode
  BY <1>2, OpenKeeps DEF TC!CC!parseFunctionDefinition, TC!CC!generateMainCode
<1>3. CASE UNCHANGED TC!CC!ccVars
  <2>1. UNCHANGED <<asmCode, dataLines, dataSymbols, bodyStart, blocks, ifCount, whileCount, output>>
    BY <1>3 DEF TC!CC!ccVars
  <2>2. TC!CC!Sections' = TC!CC!Sections
    BY <2>1 DEF TC!CC!Sections
  <2> QED
    BY <2>1, <2>2 DEF CompilerInv, CodeInv, BlocksInv, StringsInv, OutputInv
<1> QED
  BY <1>1, <1>2, <1>3, CloseFunctionKeeps, CompileSourceKeeps DEF TC!CC!Next

-----------------------------------------------------------------------------
(* What al makes of one line: how long the first pass takes it to be, and what *)
(* the second pass emits.                                                     *)

LineSize(l) == TC!AL!getInstructionSize(TC!AL!parseLine(l))
LineBytes(l, section, here) == TC!AL!Emitted(TC!AL!parseLine(l), section, here)

\* A section starts.
SectionLine(l) == \E s \in {".data", ".text"} : l = TC!AL!Section(s)
FileLine(l) == CodeLine(l) \/ DataLine(l) \/ SectionLine(l)

\* The labels of the jumps are there, and calls are of labels or of the library.
Resolved(l) ==
  /\ l.op \in {"jmp", "jge"} => TC!AL!findLabelIndex(labels, l.a.name) # 0
  /\ TC!AL!CallsOut(l) => l.a.name \in { <<f>> : f \in DOMAIN Arity }

Sized(bytes, n) == IsSeq(bytes) /\ n \in Nat /\ Len(bytes) = n

LEMMA EncodedIs ==
  ASSUME NEW i, NEW n \in Nat
  PROVE  Sized(TC!AL!Encoded(i, n), n)
<1>1. PICK s : s = TC!AL!Encoded(i, n)
  OBVIOUS
<1>2. s \in [1 .. n -> {i, TC!AL!OperandByte}]
  BY <1>1 DEF TC!AL!Encoded
<1>3. s \in Seq({i, TC!AL!OperandByte}) /\ Len(s) = n
  <2>1. PICK B : B = {i, TC!AL!OperandByte}
    OBVIOUS
  <2>2. s \in Seq(B)
    BY ONLY n \in Nat, <1>2, <2>1, SeqDef
  <2>3. DOMAIN s = 1 .. n
    BY <1>2
  <2> QED
    BY <2>1, <2>2, <2>3
<1> QED
  BY <1>1, <1>3, SeqIsSeq DEF Sized

LEMMA NoBytes == Sized(<<>>, 0)
BY LinesOfNone DEF Sized

\* The operands of an instruction take bytes of their own.
LEMMA OperandBytes ==
  /\ \A m : TC!AL!getDispBytes(m) \in {0, 1, 4}
  /\ \A v : TC!AL!getImmBytes(v) \in {1, 4}
BY DEF TC!AL!getDispBytes, TC!AL!getImmBytes

LEMMA ArithmeticBytes ==
  ASSUME NEW l, l.op \in {"mov", "add", "sub"}, TC!AL!IsArg(l.a), TC!AL!IsArg(l.b),
         \/ TC!AL!IsReg(l.a)
         \/ l.op = "mov" /\ TC!AL!IsMem(l.a) /\ ~TC!AL!IsReg(l.a) /\ TC!AL!IsReg(l.b)
  PROVE  Sized(TC!AL!EmittedArithmetic(l), TC!AL!getInstructionSize(l))
<1> DEFINE v == TC!AL!parseImmediateValue(l.b)
<1>1. CASE TC!AL!IsReg(l.a) /\ TC!AL!IsReg(l.b)
  <2>1. TC!AL!EmittedArithmetic(l) = TC!AL!Encoded(l, 2)
    BY <1>1 DEF TC!AL!EmittedArithmetic
  <2>2. TC!AL!getInstructionSize(l) = 2
    BY <1>1 DEF TC!AL!getInstructionSize
  <2> QED
    BY <2>1, <2>2, EncodedIs
<1>2. CASE TC!AL!IsReg(l.a) /\ ~TC!AL!IsReg(l.b) /\ TC!AL!IsMem(l.b)
  <2>1. TC!AL!EmittedArithmetic(l) = TC!AL!Encoded(l, 2 + TC!AL!getDispBytes(l.b))
    BY <1>2 DEF TC!AL!EmittedArithmetic
  <2>2. TC!AL!getInstructionSize(l) = 2 + TC!AL!getDispBytes(l.b)
    BY <1>2 DEF TC!AL!getInstructionSize
  <2>3. 2 + TC!AL!getDispBytes(l.b) \in Nat
    BY OperandBytes
  <2> QED
    BY <2>1, <2>2, <2>3, EncodedIs
<1>3. CASE TC!AL!IsReg(l.a) /\ ~TC!AL!IsReg(l.b) /\ ~TC!AL!IsMem(l.b) /\ l.op = "mov"
  <2>1. PICK i : TC!AL!EmittedArithmetic(l) = TC!AL!Encoded(i, 5)
    BY <1>3 DEF TC!AL!EmittedArithmetic
  <2>2. TC!AL!getInstructionSize(l) = 5
    BY <1>3 DEF TC!AL!getInstructionSize
  <2> QED
    BY <2>1, <2>2, EncodedIs
<1>4. CASE TC!AL!IsReg(l.a) /\ ~TC!AL!IsReg(l.b) /\ ~TC!AL!IsMem(l.b) /\ l.op # "mov"
  <2>1. PICK i : TC!AL!EmittedArithmetic(l) = TC!AL!Encoded(i, 2 + TC!AL!getImmBytes(v))
    BY <1>4 DEF TC!AL!EmittedArithmetic
  <2>2. TC!AL!getInstructionSize(l) = IF TC!AL!getImmBytes(v) = 1 THEN 3 ELSE 6
    BY <1>4 DEF TC!AL!getInstructionSize
  <2>3. TC!AL!getImmBytes(v) \in {1, 4}
    BY OperandBytes
  <2>4. 2 + TC!AL!getImmBytes(v) = IF TC!AL!getImmBytes(v) = 1 THEN 3 ELSE 6
    BY <2>3
  <2>5. 2 + TC!AL!getImmBytes(v) \in Nat
    BY <2>3
  <2> QED
    BY <2>1, <2>2, <2>4, <2>5, EncodedIs
<1>5. CASE ~TC!AL!IsReg(l.a)
  <2>1. TC!AL!EmittedArithmetic(l) = TC!AL!Encoded(l, 2 + TC!AL!getDispBytes(l.a))
    BY <1>5 DEF TC!AL!EmittedArithmetic
  <2>2. TC!AL!getInstructionSize(l) = 2 + TC!AL!getDispBytes(l.a) + 0
    BY <1>5 DEF TC!AL!getInstructionSize
  <2>3. TC!AL!getDispBytes(l.a) \in {0, 1, 4}
    BY OperandBytes
  <2>4. 2 + TC!AL!getDispBytes(l.a) + 0 = 2 + TC!AL!getDispBytes(l.a)
        /\ 2 + TC!AL!getDispBytes(l.a) \in Nat
    BY <2>3
  <2> QED
    BY <2>1, <2>2, <2>4, EncodedIs
<1> QED
  BY <1>1, <1>2, <1>3, <1>4, <1>5

LEMMA CmpBytes ==
  ASSUME NEW l, l.op = "cmp", TC!AL!IsArg(l.a), TC!AL!IsArg(l.b)
  PROVE  Sized(TC!AL!EmittedCmp(l), TC!AL!getInstructionSize(l))
<1> DEFINE v == TC!AL!parseImmediateValue(l.b)
<1>1. CASE TC!AL!IsReg(l.a) /\ TC!AL!IsReg(l.b)
  <2>1. TC!AL!EmittedCmp(l) = TC!AL!Encoded(l, 2)
    BY <1>1 DEF TC!AL!EmittedCmp
  <2>2. TC!AL!getInstructionSize(l) = 2
    BY <1>1 DEF TC!AL!getInstructionSize
  <2> QED
    BY <2>1, <2>2, EncodedIs
<1>2. CASE TC!AL!IsReg(l.a) /\ ~TC!AL!IsReg(l.b)
  <2>1. PICK i : TC!AL!EmittedCmp(l) = TC!AL!Encoded(i, 2 + TC!AL!getImmBytes(v))
    BY <1>2 DEF TC!AL!EmittedCmp
  <2>2. TC!AL!getInstructionSize(l) = IF TC!AL!getImmBytes(v) = 1 THEN 3 ELSE 6
    BY <1>2 DEF TC!AL!getInstructionSize
  <2>3. TC!AL!getImmBytes(v) \in {1, 4}
    BY OperandBytes
  <2>4. 2 + TC!AL!getImmBytes(v) = IF TC!AL!getImmBytes(v) = 1 THEN 3 ELSE 6
    BY <2>3
  <2>5. 2 + TC!AL!getImmBytes(v) \in Nat
    BY <2>3
  <2> QED
    BY <2>1, <2>2, <2>4, <2>5, EncodedIs
<1>3. CASE ~TC!AL!IsReg(l.a) /\ TC!AL!IsMem(l.a)
  <2> DEFINE n == 2 + TC!AL!getDispBytes(l.a) + TC!AL!getImmBytes(v)
  <2>1. PICK i : TC!AL!EmittedCmp(l) = TC!AL!Encoded(i, n)
    BY <1>3 DEF TC!AL!EmittedCmp
  <2>2. TC!AL!getInstructionSize(l) = n
    BY <1>3 DEF TC!AL!getInstructionSize
  <2>3. TC!AL!getImmBytes(v) \in {1, 4} /\ TC!AL!getDispBytes(l.a) \in {0, 1, 4}
    BY OperandBytes
  <2>4. n \in Nat
    BY <2>3
  <2> QED
    BY <2>1, <2>2, <2>4, EncodedIs
<1>4. CASE ~TC!AL!IsReg(l.a) /\ ~TC!AL!IsMem(l.a)
  <2>1. TC!AL!EmittedCmp(l) = <<>>
    BY <1>4 DEF TC!AL!EmittedCmp
  <2>2. TC!AL!getInstructionSize(l) = 0
    BY <1>4 DEF TC!AL!getInstructionSize
  <2> QED
    BY <2>1, <2>2, NoBytes
<1> QED
  BY <1>1, <1>2, <1>3, <1>4

LEMMA JumpBytes ==
  ASSUME NEW l, l.op \in {"jmp", "jge"}, TC!AL!IsArg(l.a), NEW here
  PROVE  /\ IsSeq(TC!AL!EmittedJump(l, here)) /\ TC!AL!getInstructionSize(l) \in Nat
         /\ TC!AL!findLabelIndex(labels, l.a.name) # 0
              => Sized(TC!AL!EmittedJump(l, here), TC!AL!getInstructionSize(l))
<1> DEFINE n == IF l.op = "jmp" THEN 5 ELSE 6
<1>1. TC!AL!getInstructionSize(l) = n
  BY DEF TC!AL!getInstructionSize
<1>2. n \in Nat
  OBVIOUS
<1>3. CASE TC!AL!findLabelIndex(labels, l.a.name) = 0
  <2>1. TC!AL!EmittedJump(l, here) = <<>>
    BY <1>3 DEF TC!AL!EmittedJump
  <2> QED
    BY <1>1, <1>2, <1>3, <2>1, NoBytes DEF Sized
<1>4. CASE TC!AL!findLabelIndex(labels, l.a.name) # 0
  <2>1. PICK i : TC!AL!EmittedJump(l, here) = TC!AL!Encoded(i, n)
    BY <1>4 DEF TC!AL!EmittedJump
  <2>2. Sized(TC!AL!EmittedJump(l, here), n)
    BY <1>2, <2>1, EncodedIs
  <2> QED
    BY <1>1, <2>2 DEF Sized
<1> QED
  BY <1>3, <1>4

LEMMA CallBytes ==
  ASSUME NEW l, l.op = "call", l.a = TC!AL!Name(l.a.name), NEW here
  PROVE  /\ IsSeq(TC!AL!EmittedCall(l, here)) /\ TC!AL!getInstructionSize(l) \in Nat
         /\ Resolved(l) => Sized(TC!AL!EmittedCall(l, here), TC!AL!getInstructionSize(l))
<1>1. ~TC!AL!IsReg(l.a) /\ TC!AL!IsArg(l.a) /\ "name" \in DOMAIN l.a
  BY DEF TC!AL!Name, TC!AL!IsReg, TC!AL!IsArg
<1>2. TC!AL!getInstructionSize(l) = 5
  BY <1>1 DEF TC!AL!getInstructionSize
<1>3. CASE TC!AL!findLabelIndex(labels, l.a.name) # 0
  <2>1. PICK i : TC!AL!EmittedCall(l, here) = TC!AL!Encoded(i, 5)
    BY <1>1, <1>3 DEF TC!AL!EmittedCall
  <2> QED
    BY <1>2, <2>1, EncodedIs DEF Sized
<1>4. CASE TC!AL!findLabelIndex(labels, l.a.name) = 0 /\ l.a.name \in { <<f>> : f \in DOMAIN Arity }
  <2>1. TC!AL!EmittedCall(l, here) = TC!AL!Encoded(l, 5)
    BY <1>1, <1>4 DEF TC!AL!EmittedCall
  <2> QED
    BY <1>2, <2>1, EncodedIs DEF Sized
<1>5. CASE TC!AL!findLabelIndex(labels, l.a.name) = 0 /\ l.a.name \notin { <<f>> : f \in DOMAIN Arity }
  <2>1. TC!AL!EmittedCall(l, here) = <<>>
    BY <1>1, <1>5 DEF TC!AL!EmittedCall
  <2>2. ~Resolved(l)
    BY <1>1, <1>5 DEF Resolved, TC!AL!CallsOut
  <2> QED
    BY <1>2, <2>1, <2>2, NoBytes DEF Sized
<1> QED
  BY <1>3, <1>4, <1>5

\* A line of the text section.
LEMMA CodeLineBytes ==
  ASSUME NEW l, CodeLine(l), NEW section, NEW here
  PROVE  /\ TC!AL!parseLine(l) = l /\ LineSize(l) \in Nat
         /\ IsSeq(LineBytes(l, section, here))
         /\ Resolved(l) => Sized(LineBytes(l, section, here), LineSize(l))
<1> DEFINE size == TC!AL!getInstructionSize(l)
           bytes == TC!AL!Emitted(l, section, here)
<1>1. TC!AL!parseLine(l) = l
  BY DEF CodeLine, TC!AL!parseLine, TC!AL!IsText
<1> SUFFICES size \in Nat /\ IsSeq(bytes) /\ (Resolved(l) => Sized(bytes, size))
  BY <1>1 DEF LineSize, LineBytes
<1>2. CASE /\ l.op \in {"mov", "add", "sub"} /\ TC!AL!IsArg(l.a) /\ TC!AL!IsArg(l.b)
           /\ \/ TC!AL!IsReg(l.a)
              \/ l.op = "mov" /\ TC!AL!IsMem(l.a) /\ ~TC!AL!IsReg(l.a) /\ TC!AL!IsReg(l.b)
  <2>1. bytes = TC!AL!EmittedArithmetic(l)
    BY <1>2 DEF TC!AL!Emitted
  <2> QED
    BY <1>2, <2>1, ArithmeticBytes DEF Sized
<1>3. CASE l.op = "cmp" /\ TC!AL!IsArg(l.a) /\ TC!AL!IsArg(l.b)
  <2>1. bytes = TC!AL!EmittedCmp(l)
    BY <1>3 DEF TC!AL!Emitted
  <2> QED
    BY <1>3, <2>1, CmpBytes DEF Sized
<1>4. CASE l.op \in {"jmp", "jge"} /\ l.a = TC!AL!Name(l.a.name)
  <2>1. TC!AL!IsArg(l.a)
    BY <1>4 DEF TC!AL!Name, TC!AL!IsArg
  <2>2. bytes = TC!AL!EmittedJump(l, here)
    BY <1>4, <2>1 DEF TC!AL!Emitted
  <2> QED
    BY <1>4, <2>1, <2>2, JumpBytes DEF Resolved
<1>5. CASE l.op = "call" /\ l.a = TC!AL!Name(l.a.name)
  <2>1. TC!AL!IsArg(l.a)
    BY <1>5 DEF TC!AL!Name, TC!AL!IsArg
  <2>2. bytes = TC!AL!EmittedCall(l, here)
    BY <1>5, <2>1 DEF TC!AL!Emitted
  <2> QED
    BY <1>5, <2>2, CallBytes
<1>6. CASE l.op = "int" /\ TC!AL!IsArg(l.a)
  <2>1. bytes = TC!AL!Encoded(l, 2) /\ size = 2
    BY <1>6 DEF TC!AL!Emitted, TC!AL!getInstructionSize
  <2> QED
    BY <2>1, EncodedIs DEF Sized
<1>7. CASE \/ l.op \in {"pusha", "popa", "ret"}
           \/ l.op \in {"push", "pop"} /\ TC!AL!IsReg(l.a)
  <2>1. bytes = TC!AL!Encoded(l, 1)
    BY <1>7 DEF TC!AL!Emitted
  <2>2. size = 1
    BY <1>7 DEF TC!AL!getInstructionSize
  <2> QED
    BY <2>1, <2>2, EncodedIs DEF Sized
<1>8. CASE l.op \in {"je", "label"}
  <2>1. bytes = <<>>
    BY <1>8 DEF TC!AL!Emitted
  <2>2. size = 0
    BY <1>8 DEF TC!AL!getInstructionSize
  <2> QED
    BY <2>1, <2>2, NoBytes DEF Sized
<1> QED
  BY <1>2, <1>3, <1>4, <1>5, <1>6, <1>7, <1>8 DEF CodeLine


\* A string in the data section; one too long to be parsed is none for both passes.
LEMMA StringBytes ==
  ASSUME NEW l, NEW n \in Nat, l = TC!AL!Ins("db", TC!AL!Text(n), TC!AL!NoArg), NEW here
  PROVE  /\ TC!AL!parseLine(l).op = "db" /\ l.op = "db" /\ LineSize(l) \in Nat
         /\ Sized(LineBytes(l, 1, here), LineSize(l)) /\ LineBytes(l, 0, here) = <<>>
<1> DEFINE i == TC!AL!parseLine(l)
<1>1. l.op = "db" /\ l.a = TC!AL!Text(n)
  BY DEF TC!AL!Ins
<1>2. "text" \in DOMAIN l.a /\ l.a.text = n
  BY <1>1 DEF TC!AL!Text
<1>3. CASE n + 2 >= 64
  <2>1. i = [l EXCEPT !.a = TC!AL!NoArg]
    BY <1>2, <1>3 DEF TC!AL!parseLine, TC!AL!IsText
  <2>2. i.op = "db" /\ i.a = TC!AL!NoArg
    BY <2>1 DEF TC!AL!Ins
  <2>3. ~TC!AL!IsText(i.a)
    BY <2>2 DEF TC!AL!NoArg, TC!AL!IsText
  <2> HIDE DEF i
  <2>4. TC!AL!getInstructionSize(i) = 0 /\ TC!AL!Emitted(i, 1, here) = <<>>
        /\ TC!AL!Emitted(i, 0, here) = <<>>
    BY <2>2, <2>3 DEF TC!AL!getInstructionSize, TC!AL!Emitted
  <2> QED
    BY <1>1, <2>2, <2>4, NoBytes DEF LineSize, LineBytes, i
<1>4. CASE ~(n + 2 >= 64)
  <2>1. i = l
    BY <1>2, <1>4 DEF TC!AL!parseLine, TC!AL!IsText
  <2>2. TC!AL!IsText(l.a)
    BY <1>2 DEF TC!AL!IsText
  <2>3. TC!AL!getInstructionSize(l) = n + 1
        /\ TC!AL!Emitted(l, 1, here) = TC!AL!Encoded(l, n + 1)
        /\ TC!AL!Emitted(l, 0, here) = <<>>
    BY <1>1, <1>2, <2>2 DEF TC!AL!getInstructionSize, TC!AL!Emitted
  <2>4. n + 1 \in Nat
    OBVIOUS
  <2> QED
    BY <1>1, <2>1, <2>3, <2>4, EncodedIs DEF LineSize, LineBytes
<1> QED
  BY <1>3, <1>4

\* A line of the data section.
LEMMA DataLineKinds ==
  ASSUME NEW l, DataLine(l)
  PROVE  \/ CodeLine(l) /\ l.op = "label"
         \/ \E n \in Nat : l = TC!AL!Ins("db", TC!AL!Text(n), TC!AL!NoArg)
<1>1. CASE l = TC!AL!Label(l.a.name)
  <2>1. PICK n : l = TC!AL!Label(n)
    BY <1>1
  <2>2. l.op = "label" /\ "text" \notin DOMAIN l.a
    BY <2>1 DEF TC!AL!Label, TC!AL!Ins, TC!AL!Name
  <2> QED
    BY <1>1, <2>2 DEF CodeLine
<1> QED
  BY <1>1 DEF DataLine

\* Any line of the file.
LEMMA LineKinds ==
  ASSUME NEW l, FileLine(l), NEW section \in {0, 1}, NEW here
  PROVE  /\ TC!AL!parseLine(l).op = l.op /\ LineSize(l) \in Nat
         /\ IsSeq(LineBytes(l, section, here))
         /\ l.op = "label" => l = TC!AL!Label(l.a.name) /\ TC!AL!parseLine(l) = l
<1>1. CASE CodeLine(l)
  <2>1. l.op = "label" => l = TC!AL!Label(l.a.name)
    BY <1>1 DEF CodeLine
  <2> QED
    BY <1>1, <2>1, CodeLineBytes
<1>2. CASE \E n \in Nat : l = TC!AL!Ins("db", TC!AL!Text(n), TC!AL!NoArg)
  BY <1>2, StringBytes, NoBytes DEF Sized
<1>3. CASE SectionLine(l)
  <2>1. l.op \in {".data", ".text"} /\ l.a = TC!AL!NoArg
    BY <1>3 DEF SectionLine, TC!AL!Section, TC!AL!Ins
  <2>2. TC!AL!parseLine(l) = l
    BY <2>1 DEF TC!AL!parseLine, TC!AL!IsText, TC!AL!NoArg
  <2>3. TC!AL!getInstructionSize(l) = 0 /\ TC!AL!Emitted(l, section, here) = <<>>
    BY <2>1 DEF TC!AL!getInstructionSize, TC!AL!Emitted
  <2> QED
    BY <2>1, <2>2, <2>3, NoBytes DEF LineSize, LineBytes, Sized
<1> QED
  BY <1>1, <1>2, <1>3, DataLineKinds DEF FileLine

\* One line of the first pass (FirstPassLine).
LEMMA FirstLine ==
  ASSUME NEW at, NEW l, FileLine(l)
  PROVE  /\ l.op = ".data" => TC!AL!FirstPassLine(at, l) = [at EXCEPT !.section = 1]
         /\ l.op = ".text" => TC!AL!FirstPassLine(at, l) = [at EXCEPT !.section = 0]
         /\ l.op = "label" =>
              TC!AL!FirstPassLine(at, l) =
                IF TC!AL!findLabelIndex(at.labels, l.a.name) # 0 THEN at
                ELSE [at EXCEPT !.labels = TC!AL!addLabel(@, l.a.name,
                        IF at.section = 0 THEN at.code ELSE at.data, at.section)]
         /\ l.op \notin {".data", ".text", "label"} =>
              TC!AL!FirstPassLine(at, l) =
                IF at.section = 0 THEN [at EXCEPT !.code = @ + LineSize(l)]
                                  ELSE [at EXCEPT !.data = @ + LineSize(l)]
<1>1. /\ TC!AL!parseLine(l).op = l.op
      /\ l.op = "label" => TC!AL!parseLine(l) = l
  BY LineKinds
<1>2. l.op = ".data" => TC!AL!FirstPassLine(at, l) = [at EXCEPT !.section = 1]
  BY <1>1 DEF TC!AL!FirstPassLine
<1>3. l.op = ".text" => TC!AL!FirstPassLine(at, l) = [at EXCEPT !.section = 0]
  BY <1>1 DEF TC!AL!FirstPassLine
<1>4. CASE l.op = "label"
  BY <1>1, <1>4 DEF TC!AL!FirstPassLine
<1>5. CASE l.op \notin {".data", ".text", "label"}
  BY <1>1, <1>5 DEF TC!AL!FirstPassLine, LineSize
<1> QED
  BY <1>2, <1>3, <1>4, <1>5

\* One line of the second pass (SecondPassLine).
LEMMA SecondLine ==
  ASSUME NEW at, at.section \in {0, 1}, NEW l, FileLine(l)
  PROVE  /\ l.op = ".data" => TC!AL!SecondPassLine(at, l) = [at EXCEPT !.section = 1]
         /\ l.op = ".text" => TC!AL!SecondPassLine(at, l) = [at EXCEPT !.section = 0]
         /\ l.op \notin {".data", ".text"} /\ at.section = 0 =>
              TC!AL!SecondPassLine(at, l) =
                [at EXCEPT !.code = TC!AL!emitBytes(@, LineBytes(l, 0, Len(at.code)))]
         /\ l.op \notin {".data", ".text"} /\ at.section = 1 =>
              TC!AL!SecondPassLine(at, l) =
                [at EXCEPT !.data = TC!AL!emitBytes(@, LineBytes(l, 1, Len(at.code)))]
<1>1. TC!AL!parseLine(l).op = l.op
  BY LineKinds
<1>2. CASE l.op = ".data"
  BY <1>1, <1>2 DEF TC!AL!SecondPassLine
<1>3. CASE l.op = ".text"
  BY <1>1, <1>3 DEF TC!AL!SecondPassLine
<1>4. CASE l.op \notin {".data", ".text"} /\ at.section = 0
  BY <1>1, <1>4 DEF TC!AL!SecondPassLine, LineBytes
<1>5. CASE l.op \notin {".data", ".text"} /\ at.section = 1
  BY <1>1, <1>5 DEF TC!AL!SecondPassLine, LineBytes
<1> QED
  BY <1>2, <1>3, <1>4, <1>5

\* A label is no byte.
LEMMA LabelBytes ==
  ASSUME NEW l, FileLine(l), l.op = "label", NEW section, NEW here
  PROVE  LineBytes(l, section, here) = <<>>
<1>1. TC!AL!parseLine(l) = l
  <2>1. 0 \in {0, 1}
    OBVIOUS
  <2> QED
    BY <2>1, LineKinds
<1>2. TC!AL!Emitted(l, section, here) = <<>>
  BY DEF TC!AL!Emitted
<1> QED
  BY <1>1, <1>2 DEF LineBytes

\* The end of the buffer is its last byte (emitBytes).
LEMMA EmitIs ==
  ASSUME NEW S, NEW buffer \in Seq(S), NEW bytes \in Seq(S)
  PROVE  /\ TC!AL!emitBytes(buffer, bytes) \in Seq(S)
         /\ Len(TC!AL!emitBytes(buffer, bytes)) =
              IF Len(buffer) + Len(bytes) > MAX_CODE THEN MAX_CODE
                                                     ELSE Len(buffer) + Len(bytes)
<1> DEFINE all == buffer \o bytes
<1>1. MAX_CODE \in Nat /\ MAX_CODE > 0
  BY ToolAssumption
<1>2. all \in Seq(S) /\ Len(all) = Len(buffer) + Len(bytes) /\ Len(all) \in Nat
  OBVIOUS
<1>3. CASE Len(all) > MAX_CODE
  <2> HIDE DEF all
  <2>1. SubSeq(all, 1, MAX_CODE) \in Seq(S) /\ Len(SubSeq(all, 1, MAX_CODE)) = MAX_CODE
    BY <1>1, <1>2, <1>3
  <2>2. TC!AL!emitBytes(buffer, bytes) = SubSeq(all, 1, MAX_CODE)
    BY <1>3 DEF TC!AL!emitBytes, all
  <2> QED
    BY <1>2, <1>3, <2>1, <2>2
<1>4. CASE ~(Len(all) > MAX_CODE)
  <2>1. TC!AL!emitBytes(buffer, bytes) = all
    BY <1>4 DEF TC!AL!emitBytes
  <2> QED
    BY <1>2, <1>4, <2>1
<1> QED
  BY <1>3, <1>4

-----------------------------------------------------------------------------
(* A file with a string in it, as cc writes it: d lines of data, then the text. *)

Layout(d) ==
  /\ IsSeq(lines) /\ d \in Nat /\ d + 2 <= Len(lines)
  /\ lines[1] = TC!AL!Section(".data") /\ lines[d + 2] = TC!AL!Section(".text")
  /\ \A k \in 2 .. d + 1 : DataLine(lines[k])
  /\ \A k \in d + 3 .. Len(lines) : CodeLine(lines[k])
  /\ \A k \in 1 .. Len(lines) : lines[k].op \in {"jmp", "jge"} =>
       \E j \in 1 .. Len(lines) : lines[j] = TC!AL!Label(lines[k].a.name)

\* The section of a line.
SectionOf(d, k) == IF k \in 1 .. d + 1 THEN 1 ELSE 0

LEMMA LayoutLines ==
  ASSUME NEW d, Layout(d)
  PROVE  /\ Len(lines) \in Nat
         /\ \A k \in 1 .. Len(lines) :
              /\ FileLine(lines[k])
              /\ lines[k].op = ".data" <=> k = 1
              /\ lines[k].op = ".text" <=> k = d + 2
<1>1. Len(lines) \in Nat /\ d \in Nat /\ d + 2 <= Len(lines)
  BY DEF Layout, IsSeq
<1>2. ASSUME NEW k \in 1 .. Len(lines)
      PROVE  /\ FileLine(lines[k])
             /\ lines[k].op = ".data" <=> k = 1
             /\ lines[k].op = ".text" <=> k = d + 2
  <2>1. k = 1 \/ k \in 2 .. d + 1 \/ k = d + 2 \/ k \in d + 3 .. Len(lines)
    BY <1>1
  <2>2. CASE k = 1
    <3>1. lines[k] = TC!AL!Section(".data")
      BY <2>2 DEF Layout
    <3>2. SectionLine(lines[k]) /\ lines[k].op = ".data"
      BY <3>1 DEF SectionLine, TC!AL!Section, TC!AL!Ins
    <3> QED
      BY <1>1, <2>2, <3>2 DEF FileLine
  <2>3. CASE k = d + 2
    <3>1. lines[k] = TC!AL!Section(".text")
      BY <2>3 DEF Layout
    <3>2. SectionLine(lines[k]) /\ lines[k].op = ".text"
      BY <3>1 DEF SectionLine, TC!AL!Section, TC!AL!Ins
    <3> QED
      BY <1>1, <2>3, <3>2 DEF FileLine
  <2>4. CASE k \in 2 .. d + 1
    <3>1. DataLine(lines[k])
      BY <2>4 DEF Layout
    <3>2. lines[k].op \in {"label", "db"}
      BY <3>1, DataLineKinds DEF TC!AL!Ins
    <3> QED
      BY <1>1, <2>4, <3>1, <3>2 DEF FileLine
  <2>5. CASE k \in d + 3 .. Len(lines)
    <3>1. CodeLine(lines[k])
      BY <2>5 DEF Layout
    <3>2. lines[k].op \notin {".data", ".text"}
      BY <3>1 DEF CodeLine
    <3> QED
      BY <1>1, <2>5, <3>1, <3>2 DEF FileLine
  <2> QED
    BY <2>1, <2>2, <2>3, <2>4, <2>5
<1> QED
  BY <1>1, <1>2

\* What the first pass keeps from line to line.
LabelNames == { lines[k].a.name : k \in 1 .. Len(lines) }
LabelTable == Seq([name : LabelNames, address : Nat, section : {0, 1}])
Behind == [section : {0, 1}, code : Nat, data : Nat, labels : LabelTable]
FirstStart == [section |-> 0, code |-> 0, data |-> 0, labels |-> <<>>]

LEMMA FirstLineTyped ==
  ASSUME NEW d, Layout(d), NEW k \in 1 .. Len(lines), NEW at \in Behind
  PROVE  TC!AL!FirstPassLine(at, lines[k]) \in Behind
<1> DEFINE l == lines[k]
           here == IF at.section = 0 THEN at.code ELSE at.data
<1>1. FileLine(l) /\ LineSize(l) \in Nat
  <2>1. FileLine(l)
    BY LayoutLines
  <2>2. 0 \in {0, 1}
    OBVIOUS
  <2> QED
    BY <2>1, <2>2, LineKinds
<1>2. at.section \in {0, 1} /\ at.code \in Nat /\ at.data \in Nat /\ at.labels \in LabelTable
      /\ here \in Nat
  BY DEF Behind
<1>3. CASE l.op = ".data"
  BY <1>1, <1>3, FirstLine DEF Behind
<1>4. CASE l.op = ".text"
  BY <1>1, <1>4, FirstLine DEF Behind
<1>5. CASE l.op = "label"
  <2>1. TC!AL!addLabel(at.labels, l.a.name, here, at.section) \in LabelTable
    <3> DEFINE E == [name : LabelNames, address : Nat, section : {0, 1}]
               e == [name |-> l.a.name, address |-> here, section |-> at.section]
    <3>1. e \in E
      BY <1>2 DEF LabelNames
    <3>2. at.labels \in Seq(E)
      BY <1>2 DEF LabelTable
    <3> HIDE DEF E, e
    <3>3. Append(at.labels, e) \in Seq(E)
      BY <3>1, <3>2
    <3> QED
      BY <1>2, <3>3 DEF TC!AL!addLabel, LabelTable, E, e
  <2>2. CASE TC!AL!findLabelIndex(at.labels, l.a.name) # 0
    <3>1. TC!AL!FirstPassLine(at, l) = at
      BY <1>1, <1>5, <2>2, FirstLine
    <3> QED
      BY <3>1
  <2>3. CASE TC!AL!findLabelIndex(at.labels, l.a.name) = 0
    <3>1. PICK t \in LabelTable : TC!AL!FirstPassLine(at, l) = [at EXCEPT !.labels = t]
      BY <1>1, <1>5, <2>1, <2>3, FirstLine
    <3> QED
      BY <3>1 DEF Behind
  <2> QED
    BY <2>2, <2>3
<1>6. CASE l.op \notin {".data", ".text", "label"}
  <2>1. CASE at.section = 0
    <3>1. TC!AL!FirstPassLine(at, l) = [at EXCEPT !.code = at.code + LineSize(l)]
      BY <1>1, <1>6, <2>1, FirstLine
    <3>2. at.code + LineSize(l) \in Nat
      BY <1>1, <1>2
    <3> QED
      BY <3>1, <3>2 DEF Behind
  <2>2. CASE at.section # 0
    <3>1. TC!AL!FirstPassLine(at, l) = [at EXCEPT !.data = at.data + LineSize(l)]
      BY <1>1, <1>6, <2>2, FirstLine
    <3>2. at.data + LineSize(l) \in Nat
      BY <1>1, <1>2
    <3> QED
      BY <3>1, <3>2 DEF Behind
  <2> QED
    BY <2>1, <2>2
<1> QED
  BY <1>3, <1>4, <1>5, <1>6

\* The first pass goes line by line (FirstPass).
FirstGoes(f) == /\ f[0] = FirstStart
                /\ \A k \in 1 .. Len(lines) : f[k] = TC!AL!FirstPassLine(f[k - 1], lines[k])

LEMMA FirstPassIs ==
  ASSUME NEW d, Layout(d)
  PROVE  /\ FirstGoes(TC!AL!FirstPass)
         /\ \A k \in 0 .. Len(lines) : TC!AL!FirstPass[k] \in Behind
<1> DEFINE n == Len(lines)
           Passes(f) == f = [k \in 0 .. n |->
             IF k = 0 THEN FirstStart ELSE TC!AL!FirstPassLine(f[k - 1], lines[k])]
<1>1. n \in Nat
  BY LayoutLines
<1>2. FirstStart \in Behind
  BY DEF FirstStart, Behind, LabelTable
<1>3. PICK step \in [(1 .. n) \X Behind -> Behind] :
        \A k \in 1 .. n, at \in Behind : step[<<k, at>>] = TC!AL!FirstPassLine(at, lines[k])
  <2> DEFINE s == [x \in (1 .. n) \X Behind |-> TC!AL!FirstPassLine(x[2], lines[x[1]])]
  <2>1. s \in [(1 .. n) \X Behind -> Behind]
    BY FirstLineTyped
  <2>2. \A k \in 1 .. n, at \in Behind : s[<<k, at>>] = TC!AL!FirstPassLine(at, lines[k])
    <3> HIDE DEF n
    <3> QED
      OBVIOUS
  <2> HIDE DEF s
  <2> QED
    BY <2>1, <2>2
<1>4. PICK f : Solves(f, n, Behind, FirstStart, step)
  <2> HIDE DEF n
  <2> QED
    BY <1>1, <1>2, <1>3, SolutionExists
<1>5. Passes(f)
  <2>1. ASSUME NEW k \in 0 .. n, k # 0
        PROVE  f[k] = TC!AL!FirstPassLine(f[k - 1], lines[k])
    <3> HIDE DEF n
    <3>1. k \in 1 .. n /\ k - 1 \in 0 .. n
      BY <1>1, <2>1
    <3>2. f[k - 1] \in Behind
      BY <1>4, <3>1 DEF Solves
    <3> QED
      BY <1>3, <1>4, <3>1, <3>2 DEF Solves
  <2> HIDE DEF n
  <2> QED
    BY <1>4, <2>1 DEF Solves
<1>6. PICK g : g = CHOOSE h : Passes(h)
  OBVIOUS
<1>7. Passes(g)
  BY <1>5, <1>6
<1>8. TC!AL!FirstPass = g
  BY <1>6 DEF TC!AL!FirstPass, FirstStart
<1>9. FirstGoes(g)
  <2> HIDE DEF n
  <2>1. 0 \in 0 .. n /\ \A k \in 1 .. n : k \in 0 .. n /\ k # 0
    BY <1>1
  <2> QED
    BY <1>7, <2>1 DEF FirstGoes, n
<1>10. \A k \in 0 .. n : g[k] \in Behind
  <2> DEFINE typed == { k \in 0 .. n : g[k] \in Behind }
  <2>1. 0 \in typed
    <3>1. g[0] \in Behind
      BY <1>2, <1>9 DEF FirstGoes
    <3> HIDE DEF n
    <3> QED
      BY <1>1, <3>1
  <2>2. ASSUME NEW k \in 1 .. n, k - 1 \in typed
        PROVE  k \in typed
    <3>1. g[k] \in Behind
      BY <1>9, <2>2, FirstLineTyped DEF FirstGoes
    <3> HIDE DEF n
    <3> QED
      BY <1>1, <3>1
  <2>3. 0 .. n \subseteq typed
    <3> HIDE DEF typed, n
    <3> QED
      BY ONLY <1>1, <2>1, <2>2, AllPlaces
  <2> QED
    BY <2>3
<1> QED
  BY <1>8, <1>9, <1>10

\* What the second pass keeps from line to line.
FileBytes == { LineBytes(lines[k], section, here)[j] :
                 k \in 1 .. Len(lines), section \in {0, 1}, here \in Nat, j \in Nat }
Written == [section : {0, 1}, code : Seq(FileBytes), data : Seq(FileBytes)]
SecondStart == [section |-> 0, code |-> <<>>, data |-> <<>>]

LEMMA BytesOfLine ==
  ASSUME NEW d, Layout(d), NEW k \in 1 .. Len(lines), NEW section \in {0, 1}, NEW here \in Nat
  PROVE  LineBytes(lines[k], section, here) \in Seq(FileBytes)
<1>1. PICK b : b = LineBytes(lines[k], section, here)
  OBVIOUS
<1>2. IsSeq(b)
  BY <1>1, LayoutLines, LineKinds
<1>3. LinesOf(b) \subseteq FileBytes
  <2>1. ASSUME NEW j \in 1 .. Len(b)
        PROVE  b[j] \in FileBytes
    <3>1. j \in Nat
      BY <1>2 DEF IsSeq
    <3> QED
      BY <1>1, <3>1 DEF FileBytes
  <2> QED
    BY <2>1 DEF LinesOf
<1>4. PICK B, C : B = LinesOf(b) /\ C = FileBytes
  OBVIOUS
<1>5. b \in Seq(B)
  BY <1>2, <1>4 DEF IsSeq
<1>6. b \in Seq(C)
  BY <1>3, <1>4, <1>5
<1> QED
  BY <1>1, <1>4, <1>6

LEMMA SecondLineTyped ==
  ASSUME NEW d, Layout(d), NEW k \in 1 .. Len(lines), NEW at \in Written
  PROVE  TC!AL!SecondPassLine(at, lines[k]) \in Written
<1> DEFINE l == lines[k]
           here == Len(at.code)
<1>1. FileLine(l)
  BY LayoutLines
<1>2. at.section \in {0, 1} /\ at.code \in Seq(FileBytes) /\ at.data \in Seq(FileBytes)
  BY DEF Written
<1>3. here \in Nat
  BY <1>2
<1>4. CASE l.op = ".data"
  BY <1>1, <1>2, <1>4, SecondLine DEF Written
<1>5. CASE l.op = ".text"
  BY <1>1, <1>2, <1>5, SecondLine DEF Written
<1>6. CASE l.op \notin {".data", ".text"} /\ at.section = 0
  <2>1. LineBytes(l, 0, here) \in Seq(FileBytes)
    BY <1>3, BytesOfLine
  <2>2. TC!AL!emitBytes(at.code, LineBytes(l, 0, here)) \in Seq(FileBytes)
    BY <1>2, <2>1, EmitIs
  <2>3. PICK c : c = TC!AL!emitBytes(at.code, LineBytes(l, 0, here))
    OBVIOUS
  <2>4. TC!AL!SecondPassLine(at, l) = [at EXCEPT !.code = c]
    BY <1>1, <1>2, <1>6, <2>3, SecondLine
  <2> QED
    BY <2>2, <2>3, <2>4 DEF Written
<1>7. CASE l.op \notin {".data", ".text"} /\ at.section = 1
  <2>1. LineBytes(l, 1, here) \in Seq(FileBytes)
    BY <1>3, BytesOfLine
  <2>2. TC!AL!emitBytes(at.data, LineBytes(l, 1, here)) \in Seq(FileBytes)
    BY <1>2, <2>1, EmitIs
  <2>3. PICK c : c = TC!AL!emitBytes(at.data, LineBytes(l, 1, here))
    OBVIOUS
  <2>4. TC!AL!SecondPassLine(at, l) = [at EXCEPT !.data = c]
    BY <1>1, <1>2, <1>7, <2>3, SecondLine
  <2> QED
    BY <2>2, <2>3, <2>4 DEF Written
<1> QED
  BY <1>2, <1>4, <1>5, <1>6, <1>7

\* The second pass goes line by line (SecondPass).
SecondGoes(f) == /\ f[0] = SecondStart
                 /\ \A k \in 1 .. Len(lines) : f[k] = TC!AL!SecondPassLine(f[k - 1], lines[k])

LEMMA SecondPassIs ==
  ASSUME NEW d, Layout(d)
  PROVE  /\ SecondGoes(TC!AL!SecondPass)
         /\ \A k \in 0 .. Len(lines) : TC!AL!SecondPass[k] \in Written
<1> DEFINE n == Len(lines)
           Passes(f) == f = [k \in 0 .. n |->
             IF k = 0 THEN SecondStart ELSE TC!AL!SecondPassLine(f[k - 1], lines[k])]
<1>1. n \in Nat
  BY LayoutLines
<1>2. SecondStart \in Written
  <2>1. PICK B : B = FileBytes
    OBVIOUS
  <2>2. <<>> \in Seq(B)
    OBVIOUS
  <2> QED
    BY <2>1, <2>2 DEF SecondStart, Written
<1>3. PICK step \in [(1 .. n) \X Written -> Written] :
        \A k \in 1 .. n, at \in Written : step[<<k, at>>] = TC!AL!SecondPassLine(at, lines[k])
  <2> DEFINE s == [x \in (1 .. n) \X Written |-> TC!AL!SecondPassLine(x[2], lines[x[1]])]
  <2>1. s \in [(1 .. n) \X Written -> Written]
    BY SecondLineTyped
  <2>2. \A k \in 1 .. n, at \in Written : s[<<k, at>>] = TC!AL!SecondPassLine(at, lines[k])
    <3> HIDE DEF n
    <3> QED
      OBVIOUS
  <2> HIDE DEF s
  <2> QED
    BY <2>1, <2>2
<1>4. PICK f : Solves(f, n, Written, SecondStart, step)
  <2> HIDE DEF n
  <2> QED
    BY <1>1, <1>2, <1>3, SolutionExists
<1>5. Passes(f)
  <2>1. ASSUME NEW k \in 0 .. n, k # 0
        PROVE  f[k] = TC!AL!SecondPassLine(f[k - 1], lines[k])
    <3> HIDE DEF n
    <3>1. k \in 1 .. n /\ k - 1 \in 0 .. n
      BY <1>1, <2>1
    <3>2. f[k - 1] \in Written
      BY <1>4, <3>1 DEF Solves
    <3> QED
      BY <1>3, <1>4, <3>1, <3>2 DEF Solves
  <2> HIDE DEF n
  <2> QED
    BY <1>4, <2>1 DEF Solves
<1>6. PICK g : g = CHOOSE h : Passes(h)
  OBVIOUS
<1>7. Passes(g)
  BY <1>5, <1>6
<1>8. TC!AL!SecondPass = g
  BY <1>6 DEF TC!AL!SecondPass, SecondStart
<1>9. SecondGoes(g)
  <2> HIDE DEF n
  <2>1. 0 \in 0 .. n /\ \A k \in 1 .. n : k \in 0 .. n /\ k # 0
    BY <1>1
  <2> QED
    BY <1>7, <2>1 DEF SecondGoes, n
<1>10. \A k \in 0 .. n : g[k] \in Written
  <2> DEFINE typed == { k \in 0 .. n : g[k] \in Written }
  <2>1. 0 \in typed
    <3>1. g[0] \in Written
      BY <1>2, <1>9 DEF SecondGoes
    <3> HIDE DEF n
    <3> QED
      BY <1>1, <3>1
  <2>2. ASSUME NEW k \in 1 .. n, k - 1 \in typed
        PROVE  k \in typed
    <3>1. g[k] \in Written
      BY <1>9, <2>2, SecondLineTyped DEF SecondGoes
    <3> HIDE DEF n
    <3> QED
      BY <1>1, <3>1
  <2>3. 0 .. n \subseteq typed
    <3> HIDE DEF typed, n
    <3> QED
      BY ONLY <1>1, <2>1, <2>2, AllPlaces
  <2> QED
    BY <2>3
<1> QED
  BY <1>8, <1>9, <1>10

First(k) == TC!AL!FirstPass[k]
Second(k) == TC!AL!SecondPass[k]
Here(at) == IF at.section = 0 THEN at.code ELSE at.data

LEMMA FirstTyped ==
  ASSUME NEW d, Layout(d), NEW k \in 0 .. Len(lines)
  PROVE  /\ First(k).section \in {0, 1} /\ First(k).code \in Nat /\ First(k).data \in Nat
         /\ Here(First(k)) \in Nat
         /\ Len(First(k).labels) \in Nat /\ DOMAIN First(k).labels = 1 .. Len(First(k).labels)
         /\ First(k).labels \in LabelTable
<1>1. First(k) \in Behind
  BY FirstPassIs DEF First
<1>2. First(k).labels \in LabelTable
  BY <1>1 DEF Behind
<1>3. Len(First(k).labels) \in Nat /\ DOMAIN First(k).labels = 1 .. Len(First(k).labels)
  <2>1. PICK E, s : E = [name : LabelNames, address : Nat, section : {0, 1}]
                    /\ s = First(k).labels
    OBVIOUS
  <2>2. s \in Seq(E)
    BY <1>2, <2>1 DEF LabelTable
  <2> QED
    BY <2>1, <2>2
<1> QED
  BY <1>1, <1>2, <1>3 DEF Behind, Here

\* A label that is looked up (findLabelIndex).
LEMMA LabelFoundIs ==
  ASSUME NEW table, Len(table) \in Nat, DOMAIN table = 1 .. Len(table), NEW name
  PROVE  /\ (\E i \in 1 .. Len(table) : table[i].name = name) =>
              /\ TC!AL!findLabelIndex(table, name) \in 1 .. Len(table)
              /\ table[TC!AL!findLabelIndex(table, name)].name = name
              /\ \A j \in 1 .. Len(table) : table[j].name = name =>
                   TC!AL!findLabelIndex(table, name) <= j
         /\ (\A i \in 1 .. Len(table) : table[i].name # name) =>
              TC!AL!findLabelIndex(table, name) = 0
<1>1. ASSUME NEW i \in 1 .. Len(table), table[i].name = name
      PROVE  \E l \in 1 .. Len(table) :
               /\ l = TC!AL!findLabelIndex(table, name) /\ table[l].name = name
               /\ \A j \in 1 .. Len(table) : table[j].name = name => l <= j
  <2> DEFINE Named == { j \in 1 .. Len(table) : table[j].name = name }
             Least(l) == /\ table[l].name = name
                         /\ \A j \in 1 .. l - 1 : table[j].name # name
  <2>1. Named \in SUBSET Nat /\ Named # {}
    BY <1>1
  <2>2. PICK m \in Named : \A j \in Named : m <= j
    <3> HIDE DEF Named
    <3> QED
      BY <2>1, LeastExists
  <2>3. m \in 1 .. Len(table) /\ Least(m)
    BY <2>2
  <2>4. TC!AL!findLabelIndex(table, name) = CHOOSE l \in DOMAIN table : Least(l)
    BY <1>1 DEF TC!AL!findLabelIndex
  <2>5. PICK l : l = CHOOSE j \in DOMAIN table : Least(j)
    OBVIOUS
  <2>6. l \in 1 .. Len(table) /\ Least(l)
    BY <2>3, <2>5
  <2>7. \A j \in 1 .. Len(table) : table[j].name = name => l <= j
    BY <2>6
  <2> QED
    BY <2>4, <2>5, <2>6, <2>7
<1>2. ASSUME \A i \in 1 .. Len(table) : table[i].name # name
      PROVE  TC!AL!findLabelIndex(table, name) = 0
  BY <1>2 DEF TC!AL!findLabelIndex
<1> QED
  BY <1>1, <1>2

\* What a line does in the first pass, if it is no label and if it is one.
LEMMA FirstCounts ==
  ASSUME NEW d, Layout(d), NEW k \in 1 .. Len(lines)
  PROVE  /\ First(k).section = IF k = 1 THEN 1 ELSE IF k = d + 2 THEN 0 ELSE First(k - 1).section
         /\ First(k).code = IF k \in {1, d + 2} \/ lines[k].op = "label" \/ First(k - 1).section # 0
                            THEN First(k - 1).code ELSE First(k - 1).code + LineSize(lines[k])
         /\ First(k).data = IF k \in {1, d + 2} \/ lines[k].op = "label" \/ First(k - 1).section = 0
                            THEN First(k - 1).data ELSE First(k - 1).data + LineSize(lines[k])
         /\ lines[k].op # "label" => First(k).labels = First(k - 1).labels
<1>1. /\ First(k) = TC!AL!FirstPassLine(First(k - 1), lines[k]) /\ First(k - 1) \in Behind
  <2>1. k - 1 \in 0 .. Len(lines)
    BY LayoutLines
  <2> QED
    BY <2>1, FirstPassIs DEF First, FirstGoes
<1>2. /\ FileLine(lines[k]) /\ d \in Nat
      /\ lines[k].op = ".data" <=> k = 1
      /\ lines[k].op = ".text" <=> k = d + 2
  BY LayoutLines DEF Layout
<1>3. PICK at, l : at = First(k - 1) /\ l = lines[k]
  OBVIOUS
<1>4. CASE k = 1
  BY <1>1, <1>2, <1>4, FirstLine DEF Behind
<1>5. CASE k = d + 2
  BY <1>1, <1>2, <1>5, FirstLine DEF Behind
<1>6. CASE k \notin {1, d + 2} /\ lines[k].op = "label"
  <2>1. PICK t : t = TC!AL!addLabel(at.labels, l.a.name,
                       IF at.section = 0 THEN at.code ELSE at.data, at.section)
    OBVIOUS
  <2>2. First(k) = IF TC!AL!findLabelIndex(at.labels, l.a.name) # 0 THEN at
                   ELSE [at EXCEPT !.labels = t]
    BY <1>1, <1>2, <1>3, <1>6, <2>1, FirstLine
  <2>3. First(k) = at \/ First(k) = [at EXCEPT !.labels = t]
    BY <2>2
  <2> QED
    BY <1>1, <1>3, <1>6, <2>3 DEF Behind
<1>7. CASE k \notin {1, d + 2} /\ lines[k].op # "label"
  <2>1. l.op \notin {".data", ".text", "label"} /\ FileLine(l) /\ at \in Behind
    BY <1>1, <1>2, <1>3, <1>7
  <2>2. First(k) = IF at.section = 0 THEN [at EXCEPT !.code = @ + LineSize(l)]
                                     ELSE [at EXCEPT !.data = @ + LineSize(l)]
    BY <1>1, <1>3, <2>1, FirstLine
  <2>3. CASE at.section = 0
    <3>1. First(k) = [at EXCEPT !.code = at.code + LineSize(l)]
      BY <2>2, <2>3
    <3>2. /\ First(k).section = at.section /\ First(k).code = at.code + LineSize(l)
          /\ First(k).data = at.data /\ First(k).labels = at.labels
      BY <2>1, <3>1 DEF Behind
    <3> QED
      BY <1>3, <1>7, <2>3, <3>2
  <2>4. CASE at.section # 0
    <3>1. First(k) = [at EXCEPT !.data = at.data + LineSize(l)]
      BY <2>2, <2>4
    <3>2. /\ First(k).section = at.section /\ First(k).data = at.data + LineSize(l)
          /\ First(k).code = at.code /\ First(k).labels = at.labels
      BY <2>1, <3>1 DEF Behind
    <3> QED
      BY <1>3, <1>7, <2>4, <3>2
  <2> QED
    BY <2>3, <2>4
<1> QED
  BY <1>4, <1>5, <1>6, <1>7

LEMMA FirstLabels ==
  ASSUME NEW d, Layout(d), NEW k \in 1 .. Len(lines), lines[k].op = "label"
  PROVE  First(k).labels =
           IF /\ TC!AL!findLabelIndex(First(k - 1).labels, lines[k].a.name) = 0
              /\ Len(First(k - 1).labels) < MAX_LABELS
           THEN Append(First(k - 1).labels,
                       [name |-> lines[k].a.name, address |-> Here(First(k - 1)),
                        section |-> First(k - 1).section])
           ELSE First(k - 1).labels
<1>1. /\ First(k) = TC!AL!FirstPassLine(First(k - 1), lines[k]) /\ First(k - 1) \in Behind
  <2>1. k - 1 \in 0 .. Len(lines)
    BY LayoutLines
  <2> QED
    BY <2>1, FirstPassIs DEF First, FirstGoes
<1>2. FileLine(lines[k])
  BY LayoutLines
<1>3. PICK at, l : at = First(k - 1) /\ l = lines[k]
  OBVIOUS
<1>4. PICK t : t = TC!AL!addLabel(at.labels, l.a.name, Here(at), at.section)
  OBVIOUS
<1>5. First(k) = IF TC!AL!findLabelIndex(at.labels, l.a.name) # 0 THEN at
                 ELSE [at EXCEPT !.labels = t]
  BY <1>1, <1>2, <1>3, <1>4, FirstLine DEF Here
<1>6. First(k).labels = IF TC!AL!findLabelIndex(at.labels, l.a.name) # 0 THEN at.labels ELSE t
  BY <1>1, <1>3, <1>5 DEF Behind
<1> QED
  BY <1>3, <1>4, <1>6 DEF TC!AL!addLabel

\* The table of labels grows at its end, by the label of the line.
NewEntry(k, i) ==
  /\ lines[k].op = "label" /\ i = Len(First(k - 1).labels) + 1
  /\ First(k).labels[i].name = lines[k].a.name
  /\ First(k).labels[i].address = Here(First(k - 1))

LEMMA TableGrows ==
  ASSUME NEW d, Layout(d), NEW k \in 1 .. Len(lines)
  PROVE  /\ Len(First(k - 1).labels) <= Len(First(k).labels)
         /\ \A i \in 1 .. Len(First(k - 1).labels) :
              First(k).labels[i] = First(k - 1).labels[i]
         /\ \A i \in 1 .. Len(First(k).labels) :
              i \in 1 .. Len(First(k - 1).labels) \/ NewEntry(k, i)
<1>1. PICK t, u : t = First(k - 1).labels /\ u = First(k).labels
  OBVIOUS
<1>2. t \in LabelTable /\ Len(t) \in Nat
  <2>1. k - 1 \in 0 .. Len(lines)
    BY LayoutLines
  <2> QED
    BY <1>1, <2>1, FirstTyped
<1>3. CASE u = t
  BY <1>1, <1>2, <1>3
<1>4. CASE u # t
  <2>1. PICK e : /\ e.name = lines[k].a.name /\ e.address = Here(First(k - 1))
                 /\ u = Append(t, e) /\ lines[k].op = "label"
                 /\ e = [name |-> lines[k].a.name, address |-> Here(First(k - 1)),
                         section |-> First(k - 1).section]
    BY <1>1, <1>4, FirstCounts, FirstLabels
  <2>2. PICK E : t \in Seq(E)
    BY <1>2 DEF LabelTable
  <2>3. PICK S : S = E \cup {e}
    OBVIOUS
  <2>4. t \in Seq(S) /\ e \in S
    BY <2>2, <2>3
  <2>5. /\ Len(u) = Len(t) + 1 /\ u[Len(t) + 1] = e
        /\ \A i \in 1 .. Len(t) : u[i] = t[i]
    BY ONLY <2>1, <2>4
  <2>6. ASSUME NEW i \in 1 .. Len(u), i \notin 1 .. Len(t)
        PROVE  NewEntry(k, i)
    <3>1. i = Len(t) + 1
      BY <1>2, <2>5, <2>6
    <3> QED
      BY <1>1, <2>1, <2>5, <3>1 DEF NewEntry
  <2> QED
    BY <1>1, <1>2, <2>5, <2>6
<1> QED
  BY <1>3, <1>4

\* Sections, offsets and labels from line to line.
LEMMA SectionsAre ==
  ASSUME NEW d, Layout(d), NEW k \in 1 .. Len(lines)
  PROVE  First(k).section = SectionOf(d, k)
<1> DEFINE good == { n \in 0 .. Len(lines) : n # 0 => First(n).section = SectionOf(d, n) }
<1>1. Len(lines) \in Nat /\ d \in Nat
  BY LayoutLines DEF Layout
<1>2. 0 \in good
  BY <1>1
<1>3. ASSUME NEW n \in 1 .. Len(lines), n - 1 \in good
      PROVE  n \in good
  <2>1. First(n).section = IF n = 1 THEN 1 ELSE IF n = d + 2 THEN 0 ELSE First(n - 1).section
    BY FirstCounts
  <2>2. n # 1 => First(n - 1).section = SectionOf(d, n - 1)
    BY <1>3
  <2>3. First(n).section = SectionOf(d, n)
    BY <1>1, <2>1, <2>2 DEF SectionOf
  <2> QED
    BY <1>1, <2>3
<1>4. 0 .. Len(lines) \subseteq good
  <2> HIDE DEF good
  <2> QED
    BY ONLY <1>1, <1>2, <1>3, AllPlaces
<1> QED
  BY <1>1, <1>4

\* What is counted and entered stays.
LEMMA FirstGrows ==
  ASSUME NEW d, Layout(d), NEW n \in 0 .. Len(lines), NEW m \in 0 .. n
  PROVE  /\ First(m).code <= First(n).code /\ First(m).data <= First(n).data
         /\ Len(First(m).labels) <= Len(First(n).labels)
         /\ \A i \in 1 .. Len(First(m).labels) : First(n).labels[i] = First(m).labels[i]
<1> DEFINE Goes(k) == /\ First(m).code <= First(k).code /\ First(m).data <= First(k).data
                      /\ Len(First(m).labels) <= Len(First(k).labels)
                      /\ \A i \in 1 .. Len(First(m).labels) :
                           First(k).labels[i] = First(m).labels[i]
           good == { k \in 0 .. Len(lines) : k >= m => Goes(k) }
<1>1. Len(lines) \in Nat /\ m \in 0 .. Len(lines)
  BY LayoutLines
<1>2. \A k \in 0 .. Len(lines) :
        First(k).code \in Nat /\ First(k).data \in Nat /\ Len(First(k).labels) \in Nat
  BY FirstTyped
<1>3. 0 \in good
  BY <1>1, <1>2
<1>4. ASSUME NEW k \in 1 .. Len(lines), k - 1 \in good
      PROVE  k \in good
  <2>1. k \in 0 .. Len(lines) /\ k - 1 \in 0 .. Len(lines)
    BY <1>1
  <2>2. CASE k = m
    BY <1>1, <1>2, <2>2
  <2>3. CASE k < m
    BY <1>1, <2>1, <2>3
  <2>4. CASE k > m
    <3>1. Goes(k - 1)
      BY <1>1, <1>4, <2>1, <2>4
    <3>2. LineSize(lines[k]) \in Nat
      <4>1. 0 \in {0, 1}
        OBVIOUS
      <4> QED
        BY <4>1, LayoutLines, LineKinds
    <3>3. First(k - 1).code <= First(k).code /\ First(k - 1).data <= First(k).data
      <4>1. /\ \/ First(k).code = First(k - 1).code
               \/ First(k).code = First(k - 1).code + LineSize(lines[k])
            /\ \/ First(k).data = First(k - 1).data
               \/ First(k).data = First(k - 1).data + LineSize(lines[k])
        BY FirstCounts
      <4>2. First(k - 1).code \in Nat /\ First(k - 1).data \in Nat
        BY <1>2, <2>1
      <4> QED
        BY <3>2, <4>1, <4>2
    <3>4. /\ Len(First(k - 1).labels) <= Len(First(k).labels)
          /\ \A i \in 1 .. Len(First(k - 1).labels) :
               First(k).labels[i] = First(k - 1).labels[i]
      BY TableGrows
    <3> HIDE DEF good
    <3>5. First(m).code <= First(k).code /\ First(m).data <= First(k).data
      <4>1. /\ First(m).code \in Nat /\ First(k - 1).code \in Nat /\ First(k).code \in Nat
            /\ First(m).data \in Nat /\ First(k - 1).data \in Nat /\ First(k).data \in Nat
        BY <1>1, <1>2, <2>1
      <4> QED
        BY <3>1, <3>3, <4>1
    <3>6. /\ Len(First(m).labels) <= Len(First(k).labels)
          /\ \A i \in 1 .. Len(First(m).labels) : First(k).labels[i] = First(m).labels[i]
      BY <1>1, <1>2, <2>1, <3>1, <3>4
    <3> QED
      BY <2>1, <3>5, <3>6 DEF good
  <2> QED
    BY <1>1, <2>1, <2>2, <2>3, <2>4
<1>5. 0 .. Len(lines) \subseteq good
  <2> HIDE DEF good
  <2> QED
    BY ONLY <1>1, <1>3, <1>4, AllPlaces
<1>6. Goes(n)
  <2> HIDE DEF Goes
  <2> QED
    BY <1>1, <1>5
<1> QED
  BY <1>6

\* The labels entered are those of lines before.
LEMMA EntriesAreLines ==
  ASSUME NEW d, Layout(d), NEW n \in 0 .. Len(lines), NEW i \in 1 .. Len(First(n).labels)
  PROVE  \E j \in 1 .. n : lines[j].op = "label" /\ lines[j].a.name = First(n).labels[i].name
<1> DEFINE Entered(k) ==
             \A e \in 1 .. Len(First(k).labels) :
               \E j \in 1 .. k : lines[j].op = "label" /\ lines[j].a.name = First(k).labels[e].name
           good == { k \in 0 .. Len(lines) : Entered(k) }
<1>1. Len(lines) \in Nat
  BY LayoutLines
<1>2. 0 \in good
  <2>1. First(0).labels = <<>>
    BY FirstPassIs DEF First, FirstGoes, FirstStart
  <2>2. Len(First(0).labels) = 0
    BY <2>1, LinesOfNone
  <2> QED
    BY <1>1, <2>2
<1>3. ASSUME NEW k \in 1 .. Len(lines), k - 1 \in good
      PROVE  k \in good
  <2>1. ASSUME NEW e \in 1 .. Len(First(k).labels)
        PROVE  \E j \in 1 .. k : lines[j].op = "label" /\ lines[j].a.name = First(k).labels[e].name
    <3>1. CASE e \in 1 .. Len(First(k - 1).labels)
      <4>1. PICK j \in 1 .. k - 1 :
              lines[j].op = "label" /\ lines[j].a.name = First(k - 1).labels[e].name
        BY <1>3, <3>1
      <4>2. First(k).labels[e] = First(k - 1).labels[e]
        BY <3>1, TableGrows
      <4>3. j \in 1 .. k
        BY <1>1
      <4> QED
        BY <4>1, <4>2, <4>3
    <3>2. CASE NewEntry(k, e)
      <4>1. k \in 1 .. k
        BY <1>1
      <4> QED
        BY <3>2, <4>1 DEF NewEntry
    <3> QED
      BY <2>1, <3>1, <3>2, TableGrows
  <2> QED
    BY <1>1, <2>1
<1>4. 0 .. Len(lines) \subseteq good
  <2> HIDE DEF good
  <2> QED
    BY ONLY <1>1, <1>2, <1>3, AllPlaces
<1> QED
  BY <1>4

\* The first pass has run (firstPass).
Passed == /\ labels = First(Len(lines)).labels
          /\ codeSectionOffset = First(Len(lines)).code
          /\ dataSectionOffset = First(Len(lines)).data

\* In a file that fits every label is found.
LEMMA LabelsAreFound ==
  ASSUME NEW d, Layout(d), Passed, TC!AL!Fits, NEW k \in 1 .. Len(lines), lines[k].op = "label"
  PROVE  \E i \in 1 .. Len(labels) : labels[i].name = lines[k].a.name
<1>1. /\ Len(lines) \in Nat /\ Len(lines) \in 0 .. Len(lines)
      /\ k \in 0 .. Len(lines) /\ k - 1 \in 0 .. Len(lines) /\ k - 1 \in 0 .. k
  BY LayoutLines
<1>2. PICK name : name = lines[k].a.name
  OBVIOUS
<1>3. \A n \in 0 .. Len(lines) :
        Len(First(n).labels) \in Nat /\ DOMAIN First(n).labels = 1 .. Len(First(n).labels)
  BY FirstTyped
<1>4. \E i \in 1 .. Len(First(k).labels) : First(k).labels[i].name = name
  <2>1. Len(First(k - 1).labels) < MAX_LABELS
    <3>1. Len(First(k - 1).labels) <= Len(labels) /\ Len(labels) < MAX_LABELS
      BY <1>1, FirstGrows DEF Passed, TC!AL!Fits
    <3>2. MAX_LABELS \in Nat /\ Len(First(k - 1).labels) \in Nat /\ Len(labels) \in Nat
      BY <1>1, <1>3, ToolAssumption DEF Passed
    <3> QED
      BY <3>1, <3>2
  <2>2. CASE \E i \in 1 .. Len(First(k - 1).labels) : First(k - 1).labels[i].name = name
    <3>1. PICK i \in 1 .. Len(First(k - 1).labels) : First(k - 1).labels[i].name = name
      BY <2>2
    <3>2. First(k).labels[i] = First(k - 1).labels[i] /\ i \in 1 .. Len(First(k).labels)
      <4>1. First(k).labels[i] = First(k - 1).labels[i]
        BY TableGrows
      <4>2. /\ Len(First(k - 1).labels) <= Len(First(k).labels)
            /\ Len(First(k - 1).labels) \in Nat /\ Len(First(k).labels) \in Nat
        BY <1>1, <1>3, TableGrows
      <4> QED
        BY <4>1, <4>2
    <3> QED
      BY <3>1, <3>2
  <2>3. CASE \A i \in 1 .. Len(First(k - 1).labels) : First(k - 1).labels[i].name # name
    <3>1. TC!AL!findLabelIndex(First(k - 1).labels, name) = 0
      <4>1. PICK t : t = First(k - 1).labels
        OBVIOUS
      <4>2. Len(t) \in Nat /\ DOMAIN t = 1 .. Len(t)
        BY <1>1, <1>3, <4>1
      <4>3. \A i \in 1 .. Len(t) : t[i].name # name
        BY <2>3, <4>1
      <4>4. TC!AL!findLabelIndex(t, name) = 0
        BY <4>2, <4>3, LabelFoundIs
      <4> QED
        BY <4>1, <4>4
    <3>2. PICK t, e : /\ t = First(k - 1).labels /\ e.name = name
                      /\ First(k).labels = Append(t, e)
                      /\ e = [name |-> name, address |-> Here(First(k - 1)),
                              section |-> First(k - 1).section]
      BY <1>2, <2>1, <3>1, FirstLabels
    <3>3. PICK E : t \in Seq(E)
      BY <1>1, <3>2, FirstTyped DEF LabelTable
    <3>4. PICK S : S = E \cup {e}
      OBVIOUS
    <3>5. t \in Seq(S) /\ e \in S
      BY <3>3, <3>4
    <3>6. Len(First(k).labels) = Len(t) + 1 /\ First(k).labels[Len(t) + 1] = e /\ Len(t) \in Nat
      BY ONLY <3>2, <3>5
    <3>7. Len(t) + 1 \in 1 .. Len(First(k).labels)
      BY <3>6
    <3> QED
      BY <3>2, <3>6, <3>7
  <2> QED
    BY <2>2, <2>3
<1>5. PICK i \in 1 .. Len(First(k).labels) : First(k).labels[i].name = name
  BY <1>4
<1>6. labels[i] = First(k).labels[i] /\ Len(First(k).labels) <= Len(labels)
  BY <1>1, FirstGrows DEF Passed
<1>7. i \in 1 .. Len(labels)
  BY <1>1, <1>3, <1>6 DEF Passed
<1> QED
  BY <1>2, <1>5, <1>6, <1>7

LEMMA LinesResolved ==
  ASSUME NEW d, Layout(d), Passed, TC!AL!Fits, TC!AL!CallsResolve, NEW k \in 1 .. Len(lines)
  PROVE  Resolved(lines[k])
<1>1. lines[k].op \in {"jmp", "jge"} => TC!AL!findLabelIndex(labels, lines[k].a.name) # 0
  <2>1. SUFFICES ASSUME lines[k].op \in {"jmp", "jge"}
                 PROVE  TC!AL!findLabelIndex(labels, lines[k].a.name) # 0
    OBVIOUS
  <2>2. PICK name : name = lines[k].a.name
    OBVIOUS
  <2>3. PICK j \in 1 .. Len(lines) : lines[j] = TC!AL!Label(name)
    BY <2>1, <2>2 DEF Layout
  <2>4. lines[j].op = "label" /\ lines[j].a.name = name
    BY <2>3 DEF TC!AL!Label, TC!AL!Ins, TC!AL!Name
  <2>5. \E i \in 1 .. Len(labels) : labels[i].name = name
    BY <2>4, LabelsAreFound
  <2>6. Len(labels) \in Nat /\ DOMAIN labels = 1 .. Len(labels)
    <3>1. Len(lines) \in 0 .. Len(lines)
      BY LayoutLines
    <3> QED
      BY <3>1, FirstTyped DEF Passed
  <2>7. TC!AL!findLabelIndex(labels, name) \in 1 .. Len(labels)
    BY <2>5, <2>6, LabelFoundIs
  <2> QED
    BY <2>2, <2>6, <2>7
<1>2. TC!AL!CallsOut(lines[k]) => lines[k].a.name \in { <<f>> : f \in DOMAIN Arity }
  <2>1. k \in DOMAIN lines
    BY DEF Layout, IsSeq
  <2> QED
    BY <2>1 DEF TC!AL!CallsResolve
<1> QED
  BY <1>1, <1>2 DEF Resolved

\* What the second pass emits for a line is as long as the first took it to be.
LEMMA LinesSized ==
  ASSUME NEW d, Layout(d), Passed, TC!AL!Fits, TC!AL!CallsResolve, NEW k \in 1 .. Len(lines),
         k \notin {1, d + 2}, NEW here
  PROVE  Sized(LineBytes(lines[k], SectionOf(d, k), here),
               IF lines[k].op = "label" THEN 0 ELSE LineSize(lines[k]))
<1>1. FileLine(lines[k]) /\ Resolved(lines[k]) /\ d \in Nat
  BY LayoutLines, LinesResolved DEF Layout
<1>2. CASE lines[k].op = "label"
  BY <1>1, <1>2, LabelBytes, NoBytes
<1>3. CASE lines[k].op # "label" /\ k \in 2 .. d + 1
  <2>1. PICK n \in Nat : lines[k] = TC!AL!Ins("db", TC!AL!Text(n), TC!AL!NoArg)
    BY <1>3, DataLineKinds DEF Layout
  <2>2. SectionOf(d, k) = 1
    BY <1>1, <1>3 DEF SectionOf
  <2> QED
    BY <1>3, <2>1, <2>2, StringBytes
<1>4. CASE lines[k].op # "label" /\ k \in d + 3 .. Len(lines)
  BY <1>1, <1>4, CodeLineBytes DEF Layout
<1> QED
  BY <1>1, <1>2, <1>3, <1>4

\* Both passes are at the same place behind each line.
Agree(k) == /\ Second(k).section = First(k).section
            /\ Len(Second(k).code) = First(k).code
            /\ Len(Second(k).data) = First(k).data

LEMMA PassesAgree ==
  ASSUME NEW d, Layout(d), Passed, TC!AL!Fits, TC!AL!CallsResolve, NEW n \in 0 .. Len(lines)
  PROVE  Agree(n)
<1> DEFINE good == { k \in 0 .. Len(lines) : Agree(k) }
<1>1. Len(lines) \in Nat /\ d \in Nat
  BY LayoutLines DEF Layout
<1>2. 0 \in good
  <2>1. First(0) = FirstStart /\ Second(0) = SecondStart
    BY FirstPassIs, SecondPassIs DEF First, FirstGoes, Second, SecondGoes
  <2>2. Agree(0)
    BY <2>1, LinesOfNone DEF Agree, FirstStart, SecondStart
  <2> QED
    BY <1>1, <2>2
<1>3. ASSUME NEW k \in 1 .. Len(lines), k - 1 \in good
      PROVE  k \in good
  <2>1. k - 1 \in 0 .. Len(lines) /\ k \in 0 .. Len(lines) /\ Len(lines) \in 0 .. Len(lines)
    BY <1>1
  <2>2. PICK at, l : at = Second(k - 1) /\ l = lines[k]
    OBVIOUS
  <2>3. /\ Second(k) = TC!AL!SecondPassLine(at, l) /\ at \in Written
        /\ FileLine(l)
        /\ l.op = ".data" <=> k = 1
        /\ l.op = ".text" <=> k = d + 2
    BY <2>1, <2>2, SecondPassIs, LayoutLines DEF Second, SecondGoes
  <2>4. Agree(k - 1)
    BY <1>3
  <2>5. at.section \in {0, 1} /\ at.code \in Seq(FileBytes) /\ at.data \in Seq(FileBytes)
    BY <2>3 DEF Written
  <2>6. First(k).code <= MAX_CODE /\ First(k).data <= MAX_CODE
    <3>1. First(k).code <= codeSectionOffset /\ First(k).data <= dataSectionOffset
      BY <2>1, FirstGrows DEF Passed
    <3>2. /\ First(k).code \in Nat /\ First(k).data \in Nat /\ MAX_CODE \in Nat
          /\ codeSectionOffset \in Nat /\ dataSectionOffset \in Nat
      BY <2>1, FirstTyped, ToolAssumption DEF Passed
    <3> QED
      BY <3>1, <3>2 DEF TC!AL!Fits
  <2>7. CASE k = 1
    <3>1. Second(k) = [at EXCEPT !.section = 1]
      BY <2>3, <2>5, <2>7, SecondLine
    <3>2. /\ First(k).section = 1
          /\ First(k).code = First(k - 1).code /\ First(k).data = First(k - 1).data
      BY <1>1, <2>7, FirstCounts
    <3>3. /\ Second(k).section = 1
          /\ Second(k).code = at.code /\ Second(k).data = at.data
      BY <2>3, <3>1 DEF Written
    <3>4. Agree(k)
      BY <2>2, <2>4, <3>2, <3>3 DEF Agree
    <3> QED
      BY <2>1, <3>4
  <2>8. CASE k = d + 2
    <3>1. Second(k) = [at EXCEPT !.section = 0]
      BY <2>3, <2>5, <2>8, SecondLine
    <3>2. /\ First(k).section = 0
          /\ First(k).code = First(k - 1).code /\ First(k).data = First(k - 1).data
      BY <1>1, <2>8, FirstCounts
    <3>3. /\ Second(k).section = 0
          /\ Second(k).code = at.code /\ Second(k).data = at.data
      BY <2>3, <3>1 DEF Written
    <3>4. Agree(k)
      BY <2>2, <2>4, <3>2, <3>3 DEF Agree
    <3> QED
      BY <2>1, <3>4
  <2>9. CASE k \notin {1, d + 2}
    <3> DEFINE size == IF l.op = "label" THEN 0 ELSE LineSize(l)
               bytes == LineBytes(l, at.section, Len(at.code))
    <3>1. at.section = SectionOf(d, k) /\ First(k - 1).section = at.section
          /\ First(k).section = at.section
      <4>1. First(k - 1).section = SectionOf(d, k - 1)
        <5>1. k - 1 \in 1 .. Len(lines)
          BY <1>1, <2>9
        <5> QED
          BY <5>1, SectionsAre
      <4>2. SectionOf(d, k - 1) = SectionOf(d, k)
        BY <1>1, <2>9 DEF SectionOf
      <4> QED
        BY <2>2, <2>4, <2>9, <4>1, <4>2, FirstCounts DEF Agree
    <3>2. Sized(bytes, size)
      BY <2>2, <2>9, <3>1, LinesSized
    <3>3. Len(at.code) \in Nat /\ Len(at.data) \in Nat
      BY <2>5
    <3>4. bytes \in Seq(FileBytes) /\ Len(bytes) = size /\ size \in Nat
      BY <2>2, <2>5, <3>2, <3>3, BytesOfLine DEF Sized
    <3>5. l.op \notin {".data", ".text"}
      BY <2>3, <2>9
    <3> HIDE DEF size, bytes
    <3>6. CASE at.section = 0
      <4>1. First(k).code = First(k - 1).code + size /\ First(k).data = First(k - 1).data
        BY <2>2, <2>4, <2>9, <3>1, <3>3, <3>6, FirstCounts DEF size, Agree
      <4>2. PICK c : /\ c = TC!AL!emitBytes(at.code, bytes)
                     /\ Second(k) = [at EXCEPT !.code = c]
        BY <2>3, <2>5, <3>5, <3>6, SecondLine DEF bytes
      <4>3. Len(c) = IF Len(at.code) + Len(bytes) > MAX_CODE THEN MAX_CODE
                     ELSE Len(at.code) + Len(bytes)
        BY <2>5, <3>4, <4>2, EmitIs
      <4>4. Len(c) = First(k).code
        BY <2>2, <2>4, <2>6, <3>3, <3>4, <4>1, <4>3 DEF Agree
      <4> QED
        BY <2>1, <2>2, <2>3, <2>4, <3>1, <4>1, <4>2, <4>4 DEF Agree, Written
    <3>7. CASE at.section = 1
      <4>1. First(k).data = First(k - 1).data + size /\ First(k).code = First(k - 1).code
        BY <2>2, <2>4, <2>9, <3>1, <3>3, <3>7, FirstCounts DEF size, Agree
      <4>2. PICK c : /\ c = TC!AL!emitBytes(at.data, bytes)
                     /\ Second(k) = [at EXCEPT !.data = c]
        BY <2>3, <2>5, <3>5, <3>7, SecondLine DEF bytes
      <4>3. Len(c) = IF Len(at.data) + Len(bytes) > MAX_CODE THEN MAX_CODE
                     ELSE Len(at.data) + Len(bytes)
        BY <2>5, <3>4, <4>2, EmitIs
      <4>4. Len(c) = First(k).data
        BY <2>2, <2>4, <2>6, <3>3, <3>4, <4>1, <4>3 DEF Agree
      <4> QED
        BY <2>1, <2>2, <2>3, <2>4, <3>1, <4>1, <4>2, <4>4 DEF Agree, Written
    <3> QED
      BY <2>5, <3>6, <3>7
  <2> QED
    BY <2>7, <2>8, <2>9, <2>1
<1>4. 0 .. Len(lines) \subseteq good
  <2> HIDE DEF good
  <2> QED
    BY ONLY <1>1, <1>2, <1>3, AllPlaces
<1> QED
  BY <1>4

\* A label's address is where the second pass is when it comes to it: the label is
\* entered at its first line, behind the ones of lines before, where it is found.
LEMMA LabelIsPosition ==
  ASSUME NEW d, Layout(d), Passed, TC!AL!Fits, TC!AL!CallsResolve,
         NEW k \in 1 .. Len(lines), lines[k].op = "label",
         \A j \in 1 .. k - 1 : lines[j] # lines[k]
  PROVE  labels[TC!AL!findLabelIndex(labels, lines[k].a.name)].address =
           IF Second(k - 1).section = 0 THEN Len(Second(k - 1).code) ELSE Len(Second(k - 1).data)
<1>1. /\ Len(lines) \in Nat /\ k \in 0 .. Len(lines) /\ k - 1 \in 0 .. Len(lines)
      /\ Len(lines) \in 0 .. Len(lines)
  BY LayoutLines
<1>2. PICK name, t, l : name = lines[k].a.name /\ t = First(k - 1).labels
                        /\ l = TC!AL!findLabelIndex(labels, name)
  OBVIOUS
<1>3. /\ Len(t) \in Nat /\ DOMAIN t = 1 .. Len(t)
      /\ Len(labels) \in Nat /\ DOMAIN labels = 1 .. Len(labels)
  BY <1>1, <1>2, FirstTyped DEF Passed
<1>4. \A i \in 1 .. Len(t) : t[i].name # name
  <2>1. SUFFICES ASSUME NEW i \in 1 .. Len(t), t[i].name = name
                 PROVE  FALSE
    OBVIOUS
  <2>2. PICK j \in 1 .. k - 1 : lines[j].op = "label" /\ lines[j].a.name = name
    BY <1>1, <1>2, <2>1, EntriesAreLines
  <2>3. j \in 1 .. Len(lines) /\ 0 \in {0, 1}
    BY <1>1
  <2>4. lines[j] = TC!AL!Label(lines[j].a.name) /\ lines[k] = TC!AL!Label(lines[k].a.name)
    BY <2>2, <2>3, LayoutLines, LineKinds
  <2>5. lines[j] = lines[k]
    BY <1>2, <2>2, <2>4
  <2> QED
    BY <2>5
<1>5. Len(t) < Len(First(k).labels) /\ First(k).labels[Len(t) + 1].name = name
      /\ First(k).labels[Len(t) + 1].address = Here(First(k - 1))
  <2>1. PICK i \in 1 .. Len(labels) : labels[i].name = name
    BY <1>2, LabelsAreFound
  <2>2. TC!AL!findLabelIndex(t, name) = 0
    BY <1>3, <1>4, LabelFoundIs
  <2>3. Len(t) <= Len(labels) /\ Len(labels) < MAX_LABELS
    BY <1>1, <1>2, FirstGrows DEF Passed, TC!AL!Fits
  <2>4. Len(t) < MAX_LABELS
    BY <1>3, <2>3, ToolAssumption
  <2>5. PICK e : /\ e = [name |-> name, address |-> Here(First(k - 1)),
                         section |-> First(k - 1).section]
                 /\ First(k).labels = Append(t, e)
    BY <1>2, <2>2, <2>4, FirstLabels
  <2>6. PICK E : t \in Seq(E)
    BY <1>1, <1>2, FirstTyped DEF LabelTable
  <2>7. PICK S : S = E \cup {e}
    OBVIOUS
  <2>8. t \in Seq(S) /\ e \in S
    BY <2>6, <2>7
  <2>9. Len(First(k).labels) = Len(t) + 1 /\ First(k).labels[Len(t) + 1] = e
    BY ONLY <2>5, <2>8
  <2> QED
    BY <1>3, <2>5, <2>9
<1>6. /\ Len(First(k).labels) <= Len(labels)
      /\ \A i \in 1 .. Len(First(k).labels) : labels[i] = First(k).labels[i]
      /\ \A i \in 1 .. Len(t) : labels[i] = t[i]
      /\ Len(First(k).labels) \in Nat
  BY <1>1, <1>2, FirstGrows, FirstTyped DEF Passed
<1>7. Len(t) + 1 \in 1 .. Len(labels) /\ Len(t) + 1 \in 1 .. Len(First(k).labels)
  BY <1>3, <1>5, <1>6
<1>8. labels[Len(t) + 1].name = name /\ labels[Len(t) + 1].address = Here(First(k - 1))
  BY <1>5, <1>6, <1>7
<1>9. l = Len(t) + 1
  <2>1. /\ l \in 1 .. Len(labels) /\ labels[l].name = name
        /\ \A j \in 1 .. Len(labels) : labels[j].name = name => l <= j
    BY <1>2, <1>3, <1>7, <1>8, LabelFoundIs
  <2>2. l <= Len(t) + 1
    BY <1>7, <1>8, <2>1
  <2>3. l \notin 1 .. Len(t)
    BY <1>4, <1>6, <2>1
  <2> QED
    BY <1>3, <2>1, <2>2, <2>3
<1>10. Agree(k - 1)
  BY <1>1, PassesAgree
<1> QED
  BY <1>2, <1>8, <1>9, <1>10 DEF Here, Agree

LEMMA PassesMakePositions ==
  ASSUME NEW d, Layout(d), pass \in {"first", "second"} => Passed
  PROVE  TC!LabelsArePositions
<1>1. SUFFICES ASSUME pass = "second", TC!AL!Fits, TC!AL!CallsResolve,
                      NEW k \in DOMAIN lines, lines[k].op = "label",
                      \A j \in 1 .. k - 1 : lines[j] # lines[k]
               PROVE  labels[TC!AL!findLabelIndex(labels, lines[k].a.name)].address =
                        IF TC!AL!SecondPass[k - 1].section = 0
                        THEN Len(TC!AL!SecondPass[k - 1].code)
                        ELSE Len(TC!AL!SecondPass[k - 1].data)
  BY DEF TC!LabelsArePositions, TC!AL!LabelsArePositions
<1>2. k \in 1 .. Len(lines)
  BY DEF Layout, IsSeq
<1> QED
  BY <1>1, <1>2, LabelIsPosition DEF Second


\* The table of labels and the section buffers of al are never past their ends.
LEMMA TableHolds ==
  ASSUME NEW d, Layout(d), NEW n \in 0 .. Len(lines)
  PROVE  Len(First(n).labels) <= MAX_LABELS
<1> DEFINE good == { k \in 0 .. Len(lines) : Len(First(k).labels) <= MAX_LABELS }
<1>1. Len(lines) \in Nat /\ MAX_LABELS \in Nat
  BY LayoutLines, ToolAssumption
<1>2. 0 \in good
  <2>1. First(0).labels = <<>>
    BY FirstPassIs DEF First, FirstGoes, FirstStart
  <2>2. Len(First(0).labels) = 0
    BY <2>1, LinesOfNone
  <2> QED
    BY <1>1, <2>2
<1>3. ASSUME NEW k \in 1 .. Len(lines), k - 1 \in good
      PROVE  k \in good
  <2>1. PICK t, u : t = First(k - 1).labels /\ u = First(k).labels
    OBVIOUS
  <2>2. Len(t) \in Nat /\ t \in LabelTable /\ Len(t) <= MAX_LABELS
    <3>1. k - 1 \in 0 .. Len(lines)
      BY <1>1
    <3> QED
      BY <1>3, <2>1, <3>1, FirstTyped
  <2>3. CASE u = t
    <3>1. Len(First(k).labels) <= MAX_LABELS
      BY <2>1, <2>2, <2>3
    <3> QED
      BY <1>1, <3>1
  <2>4. CASE u # t
    <3>1. PICK e : u = Append(t, e) /\ Len(t) < MAX_LABELS
      BY <2>1, <2>4, FirstCounts, FirstLabels
    <3>2. PICK E : t \in Seq(E)
      BY <2>2 DEF LabelTable
    <3>3. PICK S : S = E \cup {e}
      OBVIOUS
    <3>4. t \in Seq(S) /\ e \in S
      BY <3>2, <3>3
    <3>5. Len(u) = Len(t) + 1
      BY ONLY <3>1, <3>4
    <3>6. Len(u) <= MAX_LABELS
      BY <1>1, <2>2, <3>1, <3>5
    <3> QED
      BY <1>1, <2>1, <3>6
  <2> QED
    BY <2>3, <2>4
<1>4. 0 .. Len(lines) \subseteq good
  <2> HIDE DEF good
  <2> QED
    BY ONLY <1>1, <1>2, <1>3, AllPlaces
<1> QED
  BY <1>4

LEMMA BuffersHold ==
  ASSUME NEW d, Layout(d), NEW n \in 0 .. Len(lines)
  PROVE  Len(Second(n).code) <= MAX_CODE /\ Len(Second(n).data) <= MAX_CODE
<1> DEFINE Holds(k) == Len(Second(k).code) <= MAX_CODE /\ Len(Second(k).data) <= MAX_CODE
           good == { k \in 0 .. Len(lines) : Holds(k) }
<1>1. Len(lines) \in Nat /\ MAX_CODE \in Nat
  BY LayoutLines, ToolAssumption
<1>2. 0 \in good
  <2>1. Second(0) = SecondStart
    BY SecondPassIs DEF Second, SecondGoes
  <2>2. Len(Second(0).code) = 0 /\ Len(Second(0).data) = 0
    BY <2>1, LinesOfNone DEF SecondStart
  <2> QED
    BY <1>1, <2>2
<1>3. ASSUME NEW k \in 1 .. Len(lines), k - 1 \in good
      PROVE  k \in good
  <2>1. k - 1 \in 0 .. Len(lines)
    BY <1>1
  <2>2. PICK at, l : at = Second(k - 1) /\ l = lines[k]
    OBVIOUS
  <2>3. Second(k) = TC!AL!SecondPassLine(at, l) /\ at \in Written /\ FileLine(l)
    BY <2>1, <2>2, SecondPassIs, LayoutLines DEF Second, SecondGoes
  <2>4. /\ at.section \in {0, 1} /\ at.code \in Seq(FileBytes) /\ at.data \in Seq(FileBytes)
        /\ Len(at.code) <= MAX_CODE /\ Len(at.data) <= MAX_CODE /\ Len(at.code) \in Nat
    BY <1>3, <2>2, <2>3 DEF Written
  <2>5. CASE l.op \in {".data", ".text"}
    BY <2>3, <2>4, <2>5, SecondLine DEF Written
  <2>6. CASE l.op \notin {".data", ".text"} /\ at.section = 0
    <3>1. LineBytes(l, 0, Len(at.code)) \in Seq(FileBytes)
      BY <2>2, <2>4, BytesOfLine
    <3>2. PICK c : /\ Second(k) = [at EXCEPT !.code = c]
                   /\ c = TC!AL!emitBytes(at.code, LineBytes(l, 0, Len(at.code)))
      BY <2>3, <2>4, <2>6, SecondLine
    <3>3. Len(c) <= MAX_CODE
      <4>1. PICK b : b = LineBytes(l, 0, Len(at.code))
        OBVIOUS
      <4>2. b \in Seq(FileBytes) /\ Len(b) \in Nat /\ Len(at.code) \in Nat
        BY <2>4, <3>1, <4>1
      <4>3. Len(c) = IF Len(at.code) + Len(b) > MAX_CODE THEN MAX_CODE
                     ELSE Len(at.code) + Len(b)
        BY <2>4, <3>2, <4>1, <4>2, EmitIs
      <4> QED
        BY <1>1, <4>2, <4>3, SMTT(20)
    <3> QED
      BY <2>3, <2>4, <3>2, <3>3 DEF Written
  <2>7. CASE l.op \notin {".data", ".text"} /\ at.section = 1
    <3>1. LineBytes(l, 1, Len(at.code)) \in Seq(FileBytes)
      BY <2>2, <2>4, BytesOfLine
    <3>2. PICK c : /\ Second(k) = [at EXCEPT !.data = c]
                   /\ c = TC!AL!emitBytes(at.data, LineBytes(l, 1, Len(at.code)))
      BY <2>3, <2>4, <2>7, SecondLine
    <3>3. Len(c) <= MAX_CODE
      <4>1. PICK b : b = LineBytes(l, 1, Len(at.code))
        OBVIOUS
      <4>2. b \in Seq(FileBytes) /\ Len(b) \in Nat /\ Len(at.data) \in Nat
        BY <2>4, <3>1, <4>1
      <4>3. Len(c) = IF Len(at.data) + Len(b) > MAX_CODE THEN MAX_CODE
                     ELSE Len(at.data) + Len(b)
        BY <2>4, <3>2, <4>1, <4>2, EmitIs
      <4> QED
        BY <1>1, <4>2, <4>3, SMTT(20)
    <3> QED
      BY <2>3, <2>4, <3>2, <3>3 DEF Written
  <2> QED
    BY <2>4, <2>5, <2>6, <2>7
<1>4. 0 .. Len(lines) \subseteq good
  <2> HIDE DEF good
  <2> QED
    BY ONLY <1>1, <1>2, <1>3, AllPlaces
<1> QED
  BY <1>4

-----------------------------------------------------------------------------
(* cc and al one after the other.                                            *)

\* A finished file with a string in it is laid out in two sections, and its jumps
\* have their labels: no block is open.
LEMMA CompilerLaysOut ==
  ASSUME CompilerInv, output # TC!CC!NoOutput, dataLines # <<>>, lines = output
  PROVE  Layout(Len(dataLines)) /\ lines # <<>>
<1> DEFINE data == TC!CC!Section(".data")
           text == TC!CC!Section(".text")
           d == Len(dataLines)
<1>1. /\ lines = ((<<data>> \o dataLines) \o <<text>>) \o asmCode /\ blocks = <<>>
      /\ IsSeq(dataLines) /\ IsSeq(asmCode)
      /\ \A l \in LinesOf(dataLines) : DataLine(l)
      /\ \A l \in LinesOf(asmCode) : CodeLine(l)
      /\ \A l \in LinesOf(asmCode) :
           l.op \in {"jmp", "jge"} => Placed(asmCode, l.a.name) \/ EndsIn(blocks, l.a.name)
  BY DEF CompilerInv, OutputInv, StringsInv, CodeInv, TC!CC!Sections
<1>2. data = TC!AL!Section(".data") /\ text = TC!AL!Section(".text")
  BY DEF TC!CC!Section, TC!AL!Section, TC!CC!Ins, TC!AL!Ins, TC!CC!NoArg, TC!AL!NoArg
<1> HIDE DEF data, text
<1>3. IsSeq(<<data>>) /\ Len(<<data>>) = 1 /\ <<data>>[1] = data
      /\ IsSeq(<<text>>) /\ Len(<<text>>) = 1 /\ <<text>>[1] = text
  BY LinesOfOne
<1>4. PICK one : one = <<data>> \o dataLines
  OBVIOUS
<1>5. /\ IsSeq(one) /\ Len(one) = 1 + d /\ one[1] = data
      /\ \A k \in 1 .. d : one[1 + k] = dataLines[k]
  BY <1>1, <1>3, <1>4, LinesOfBoth
<1>6. PICK two : two = one \o <<text>>
  OBVIOUS
<1>7. d \in Nat /\ Len(asmCode) \in Nat /\ 1 \in 1 .. 1
  BY <1>1 DEF IsSeq
<1>8. /\ IsSeq(two) /\ Len(two) = d + 2
      /\ \A k \in 1 .. d + 1 : two[k] = one[k]
      /\ two[d + 2] = text
  BY <1>3, <1>5, <1>6, <1>7, LinesOfBoth
<1>9. /\ IsSeq(lines) /\ Len(lines) = d + 2 + Len(asmCode)
      /\ LinesOf(asmCode) \subseteq LinesOf(lines)
      /\ \A k \in 1 .. d + 2 : lines[k] = two[k]
      /\ \A k \in 1 .. Len(asmCode) : lines[d + 2 + k] = asmCode[k]
  BY <1>1, <1>4, <1>6, <1>8, LinesOfBoth
<1> HIDE DEF d
<1>10. lines[1] = data /\ lines[d + 2] = text
  BY <1>5, <1>7, <1>8, <1>9
<1>11. ASSUME NEW k \in 2 .. d + 1
       PROVE  DataLine(lines[k])
  <2>1. PICK i \in 1 .. d : k = 1 + i
    <3>1. k - 1 \in 1 .. d /\ k = 1 + (k - 1)
      BY <1>7
    <3> QED
      BY <3>1
  <2>2. lines[k] = dataLines[i]
    BY <1>5, <1>7, <1>8, <1>9, <2>1
  <2> QED
    BY <1>1, <2>2 DEF LinesOf, d
<1>12. ASSUME NEW k \in d + 3 .. Len(lines)
       PROVE  lines[k] \in LinesOf(asmCode)
  <2>1. PICK i \in 1 .. Len(asmCode) : k = d + 2 + i
    <3>1. k - (d + 2) \in 1 .. Len(asmCode) /\ k = d + 2 + (k - (d + 2))
      BY <1>7, <1>9
    <3> QED
      BY <3>1
  <2> QED
    BY <1>9, <2>1 DEF LinesOf
<1>13. ASSUME NEW k \in 1 .. Len(lines), lines[k].op \in {"jmp", "jge"}
       PROVE  \E j \in 1 .. Len(lines) : lines[j] = TC!AL!Label(lines[k].a.name)
  <2>1. lines[1].op = ".data" /\ lines[d + 2].op = ".text"
    BY <1>2, <1>10 DEF TC!AL!Section, TC!AL!Ins
  <2>2. \A i \in 2 .. d + 1 : lines[i].op \in {"label", "db"}
    BY <1>11, DataLineKinds DEF TC!AL!Ins
  <2>3. k \in d + 3 .. Len(lines)
    BY <1>7, <1>9, <1>13, <2>1, <2>2
  <2>4. lines[k] \in LinesOf(asmCode)
    BY <1>12, <2>3
  <2>5. ~EndsIn(blocks, lines[k].a.name)
    BY <1>1, LinesOfNone DEF EndsIn
  <2>6. TC!AL!Label(lines[k].a.name) \in LinesOf(lines)
    BY <1>1, <1>9, <1>13, <2>4, <2>5 DEF Placed
  <2> QED
    BY <2>6 DEF LinesOf
<1>14. lines # <<>>
  BY <1>7, <1>9, LinesOfNone
<1>15. d + 2 <= Len(lines)
  BY <1>7, <1>9
<1>16. Layout(d)
  BY <1>1, <1>2, <1>7, <1>9, <1>10, <1>11, <1>12, <1>13, <1>15 DEF Layout
<1> QED
  BY <1>14, <1>16 DEF d

\* al works on the file cc has written.
ToolInv ==
  /\ CompilerInv
  /\ lines # <<>> => output # TC!CC!NoOutput /\ dataLines # <<>> /\ lines = output
  /\ pass \in {"start", "first", "second"}
  /\ pass # "start" => lines # <<>> /\ Passed
  /\ Len(labels) <= MAX_LABELS /\ Len(codeSection) <= MAX_CODE /\ Len(dataSection) <= MAX_CODE

LEMMA PassedStays ==
  ASSUME UNCHANGED <<lines, labels, codeSectionOffset, dataSectionOffset>>, Passed
  PROVE  Passed'
<1>1. First(Len(lines))' = First(Len(lines))
  BY DEF First, TC!AL!FirstPass
<1> QED
  BY <1>1 DEF Passed

LEMMA ToolStarts == TC!Init => ToolInv
<1> SUFFICES ASSUME TC!Init PROVE ToolInv
  OBVIOUS
<1>1. CompilerInv
  BY CompilerStarts DEF TC!Init
<1>2. /\ lines = <<>> /\ pass = "start" /\ labels = <<>> /\ codeSection = <<>> /\ dataSection = <<>>
  BY DEF TC!Init, TC!AL!Init, TC!AL!InitOn
<1>3. Len(<<>>) <= MAX_LABELS /\ Len(<<>>) <= MAX_CODE
  BY ToolAssumption, LinesOfNone
<1> QED
  BY <1>1, <1>2, <1>3 DEF ToolInv

\* While cc works, al has not been started.
LEMMA CompilingKeeps ==
  ASSUME ToolInv, TC!CC!Next, UNCHANGED TC!alVars
  PROVE  ToolInv'
<1>1. output = TC!CC!NoOutput
  <2>1. CASE TC!CC!parseStatement
    BY <2>1 DEF TC!CC!parseStatement, TC!CC!parseStringDeclaration, TC!CC!parseDeclaration,
         TC!CC!parseAssignment, TC!CC!parseDerefAssignment, TC!CC!parseReturnStatement,
         TC!CC!parseSyscallStatement, TC!CC!parseFunctionCall, TC!CC!parseIfStatement,
         TC!CC!parseWhileStatement, TC!CC!CloseThen, TC!CC!CloseElse, TC!CC!CloseWhile,
         TC!CC!InBody
  <2> QED
    BY <2>1 DEF TC!CC!Next, TC!CC!parseFunctionDefinition, TC!CC!generateMainCode, TC!CC!Open,
         TC!CC!CloseFunction, TC!CC!compileSource
<1>2. lines = <<>> /\ pass = "start"
  BY <1>1 DEF ToolInv
<1>3. CompilerInv'
  BY CompilerGoesOn DEF ToolInv
<1>4. UNCHANGED <<lines, pass, labels, codeSection, dataSection>>
  BY DEF TC!alVars
<1> QED
  BY <1>2, <1>3, <1>4 DEF ToolInv

LEMMA AssembleKeeps == ASSUME ToolInv, TC!assemble PROVE ToolInv'
<1>1. /\ output # TC!CC!NoOutput /\ dataLines # <<>> /\ lines = <<>> /\ lines' = output
      /\ UNCHANGED TC!ccVars
      /\ UNCHANGED <<pass, labels, codeSection, dataSection>>
  BY DEF TC!assemble
<1>2. pass = "start"
  BY <1>1 DEF ToolInv
<1>3. output' = output /\ dataLines' = dataLines /\ UNCHANGED TC!CC!ccVars
  BY <1>1 DEF TC!ccVars, TC!CC!ccVars
<1>4. CompilerInv' /\ TC!CC!NoOutput' = TC!CC!NoOutput
  BY <1>3, CompilerGoesOn DEF ToolInv, TC!CC!NoOutput
<1> QED
  BY <1>1, <1>2, <1>3, <1>4 DEF ToolInv

LEMMA AssemblingKeeps ==
  ASSUME ToolInv, lines # <<>>, TC!AL!Next, UNCHANGED TC!ccVars
  PROVE  ToolInv'
<1>1. output' = output /\ dataLines' = dataLines /\ UNCHANGED TC!CC!ccVars
  BY DEF TC!ccVars, TC!CC!ccVars
<1>2. CompilerInv' /\ TC!CC!NoOutput' = TC!CC!NoOutput
  BY <1>1, CompilerGoesOn DEF ToolInv, TC!CC!NoOutput
<1>3. Layout(Len(dataLines)) /\ Len(lines) \in 0 .. Len(lines)
  <2>1. Layout(Len(dataLines))
    BY CompilerLaysOut DEF ToolInv
  <2> QED
    BY <2>1, LayoutLines
<1>4. CASE TC!AL!firstPass
  <2>1. /\ labels' = First(Len(lines)).labels /\ codeSectionOffset' = First(Len(lines)).code
        /\ dataSectionOffset' = First(Len(lines)).data /\ pass' = "first"
        /\ UNCHANGED <<lines, codeSection, dataSection>>
    BY <1>4 DEF TC!AL!firstPass, First
  <2>2. First(Len(lines))' = First(Len(lines))
    BY <2>1 DEF First, TC!AL!FirstPass
  <2>3. Passed'
    BY <2>1, <2>2 DEF Passed
  <2>4. Len(labels') <= MAX_LABELS
    BY <1>3, <2>1, TableHolds
  <2> QED
    BY <1>1, <1>2, <2>1, <2>3, <2>4 DEF ToolInv
<1>5. CASE TC!AL!secondPass
  <2>1. /\ codeSection' = Second(Len(lines)).code /\ dataSection' = Second(Len(lines)).data
        /\ pass = "first" /\ pass' = "second"
        /\ UNCHANGED <<lines, labels, codeSectionOffset, dataSectionOffset>>
    BY <1>5 DEF TC!AL!secondPass, Second
  <2>2. Passed'
    BY <2>1, PassedStays DEF ToolInv
  <2>3. Len(codeSection') <= MAX_CODE /\ Len(dataSection') <= MAX_CODE
    BY <1>3, <2>1, BuffersHold
  <2> QED
    BY <1>1, <1>2, <2>1, <2>2, <2>3 DEF ToolInv
<1> QED
  BY <1>4, <1>5 DEF TC!AL!Next

LEMMA ToolGoesOn == ToolInv /\ [TC!Next]_(TC!toolVars) => ToolInv'
<1> SUFFICES ASSUME ToolInv, [TC!Next]_(TC!toolVars) PROVE ToolInv'
  OBVIOUS
<1>1. CASE UNCHANGED TC!toolVars
  <2>1. /\ UNCHANGED <<lines, pass, labels, codeSectionOffset, dataSectionOffset, codeSection,
                       dataSection, output, dataLines>>
        /\ UNCHANGED TC!CC!ccVars
    BY <1>1 DEF TC!toolVars, TC!ccVars, TC!alVars, TC!CC!ccVars
  <2>2. CompilerInv' /\ TC!CC!NoOutput' = TC!CC!NoOutput
    BY <2>1, CompilerGoesOn DEF ToolInv, TC!CC!NoOutput
  <2>3. Passed => Passed'
    BY <2>1, PassedStays
  <2> QED
    BY <2>1, <2>2, <2>3 DEF ToolInv
<1>2. CASE TC!Next
  BY <1>2, CompilingKeeps, AssembleKeeps, AssemblingKeeps DEF TC!Next
<1> QED
  BY <1>1, <1>2

\* What the runs check of it.
LEMMA ToolKeepsItsBounds == ToolInv => TC!TypeOK
<1> SUFFICES ASSUME ToolInv PROVE TC!TypeOK
  OBVIOUS
<1>1. blocks # <<>> => bodyStart \in DOMAIN asmCode
  BY DEF ToolInv, CompilerInv, BlocksInv, CodeInv, IsSeq
<1>2. Len(dataLines) = 2 * Len(dataSymbols)
  BY DEF ToolInv, CompilerInv, StringsInv
<1> QED
  BY <1>1, <1>2 DEF ToolInv, TC!TypeOK

LEMMA ToolKeepsPositions == ToolInv => TC!LabelsArePositions
<1> SUFFICES ASSUME ToolInv PROVE TC!LabelsArePositions
  OBVIOUS
<1>1. CASE pass # "second"
  BY <1>1 DEF TC!LabelsArePositions, TC!AL!LabelsArePositions
<1>2. CASE pass = "second"
  <2>1. Layout(Len(dataLines)) /\ Passed
    BY <1>2, CompilerLaysOut DEF ToolInv
  <2> QED
    BY <2>1, PassesMakePositions
<1> QED
  BY <1>1, <1>2

\* cc and al keep their variables within bounds, whatever source cc is given and
\* whatever the sizes of al's buffers and of its table of labels (al.cpp).
THEOREM ToolchainTyped == TC!Spec => []TC!TypeOK
BY ToolStarts, ToolGoesOn, ToolKeepsItsBounds, PTL DEF TC!Spec

\* Every label of a file that cc has written is emitted at the address the first
\* pass gave it, as long as the table of labels and the buffers are not full and
\* every function that is called is there (al.cpp).
THEOREM LabelsAreTruePositions == TC!Spec => []LabelsArePositions
<1>1. ToolInv => LabelsArePositions
  BY ToolKeepsPositions DEF LabelsArePositions
<1> QED
  BY <1>1, ToolStarts, ToolGoesOn, PTL DEF TC!Spec
=============================================================================
