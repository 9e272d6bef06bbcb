----------------------------- MODULE Processor -----------------------------
(***************************************************************************)
(* The processor that runs what al writes, as far as its programs need it: *)
(* the instructions al encodes, a stack, and the calls that leave the      *)
(* program (the library in libc.o and int 0x80), which end up in a trace.  *)
(***************************************************************************)
EXTENDS Integers, Sequences, SequencesExt, AssemblerLines

CONSTANTS
  Arity,   \* how many arguments each library function takes off the stack
  Fuel     \* bound: instructions executed

VARIABLES code, entry    \* the text segment, and where the program starts

Registers == {"eax", "ebx", "ecx", "edx", "esp", "ebp"}
Garbage == -999          \* what a register or a word of memory holds unset
StackTop == 0

Event(kind, name, values) == [kind |-> kind, name |-> name, values |-> values]

Fresh ==
  [ip |-> entry,
   regs |-> [[r \in Registers |-> Garbage] EXCEPT !["esp"] = StackTop],
   mem |-> <<>>, flags |-> <<0, 0>>, trace |-> <<>>, halted |-> FALSE]

Value(m, a) ==
  IF "reg" \in DOMAIN a THEN m.regs[a.reg]
  ELSE IF "imm" \in DOMAIN a THEN a.imm
  ELSE LET address == m.regs[a.base] + a.offset
       IN IF address \in DOMAIN m.mem THEN m.mem[address] ELSE Garbage

\* A store above the stack is one of the program's pointers; it is an event.
Store(m, a, v) ==
  IF "reg" \in DOMAIN a THEN [m EXCEPT !.regs[a.reg] = v]
  ELSE LET address == m.regs[a.base] + a.offset
           stored == [m EXCEPT !.mem = (address :> v) @@ @]
       IN IF address < StackTop THEN stored
          ELSE [stored EXCEPT !.trace = Append(@, Event("store", "", <<address, v>>))]

Push(m, v) ==
  LET esp == m.regs["esp"] - 4
  IN [m EXCEPT !.regs["esp"] = esp, !.mem = (esp :> v) @@ @]

Pop(m, r) ==
  LET top == m.regs["esp"]
  IN [m EXCEPT !.regs = [@ EXCEPT !["esp"] = top + 4, ![r] = m.mem[top]]]

Halt(m, event) == [m EXCEPT !.trace = Append(@, event), !.halted = TRUE]

\* A call of a function in libc.o may change every register the caller saves.
LibraryCall(m, f) ==
  [m EXCEPT
     !.trace = Append(@, Event("call", f,
                 [k \in 1 .. Arity[f] |-> Value(m, [base |-> "esp", offset |-> 4 * (k - 1)])])),
     !.regs = [@ EXCEPT !["eax"] = Garbage, !["ecx"] = Garbage, !["edx"] = Garbage]]

Interrupt(m) ==
  IF m.regs["eax"] = 1 THEN Halt(m, Event("exit", "", <<m.regs["ebx"]>>))
  ELSE [m EXCEPT !.trace = Append(@, Event("syscall", "",
                              <<m.regs["eax"], m.regs["ebx"], m.regs["ecx"]>>)),
                 !.regs["eax"] = Garbage]

Jumps(m, op) == CASE op = "jmp" -> TRUE
                  [] op = "jge" -> m.flags[1] >= m.flags[2]
                  [] op = "jle" -> m.flags[1] <= m.flags[2]
                  [] op = "jne" -> m.flags[1] # m.flags[2]

\* The instruction at ip, with ip moved behind it.
Executed(m, i) ==
  CASE i.op \in {"mov", "movb"} -> Store(m, i.a, Value(m, i.b))
    [] i.op = "add" -> Store(m, i.a, Value(m, i.a) + Value(m, i.b))
    [] i.op = "sub" -> Store(m, i.a, Value(m, i.a) - Value(m, i.b))
    [] i.op = "cmp" -> [m EXCEPT !.flags = <<Value(m, i.a), Value(m, i.b)>>]
    [] i.op \in {"jmp", "jge", "jle", "jne"} ->
         IF Jumps(m, i.op) THEN [m EXCEPT !.ip = @ + i.a.imm] ELSE m
    [] i.op = "push" -> Push(m, Value(m, i.a))
    [] i.op = "pop" -> Pop(m, i.a.reg)
    [] i.op = "pusha" -> [Push(m, 0) EXCEPT !.mem = (m.regs["esp"] - 4 :> m.regs) @@ m.mem]
    [] i.op = "popa" -> [m EXCEPT !.regs = [m.mem[m.regs["esp"]] EXCEPT !["esp"] = m.regs["esp"] + 4]]
    [] i.op = "call" -> IF "name" \in DOMAIN i.a THEN LibraryCall(m, i.a.name[1])
                        ELSE [Push(m, m.ip) EXCEPT !.ip = @ + i.a.imm]
    [] i.op = "int" -> Interrupt(m)
    [] i.op = "ret" -> IF m.regs["esp"] = StackTop THEN Halt(m, Event("fell off", "", <<>>))
                       ELSE [m EXCEPT !.ip = m.mem[m.regs["esp"]], !.regs["esp"] = @ + 4]

\* An address no instruction starts at runs into whatever is there.
Step(m) ==
  IF m.ip + 1 \notin DOMAIN code \/ code[m.ip + 1] = OperandByte
  THEN Halt(m, Event("astray", "", <<>>))
  ELSE LET end == { k \in m.ip + 2 .. Len(code) : code[k] # OperandByte }
           next == IF end = {} THEN Len(code)
                   ELSE (CHOOSE k \in end : \A j \in end : k <= j) - 1
       IN Executed([m EXCEPT !.ip = next], code[m.ip + 1])

\* As many instructions as there is fuel.
Run ==
  LET run[n \in 0 .. Fuel] ==
        IF n = 0 THEN Fresh
        ELSE LET m == run[n - 1] IN IF m.halted THEN m ELSE Step(m)
  IN  run[Fuel]
=============================================================================
