-------------------------- MODULE ToolchainInputs --------------------------
(***************************************************************************)
(* The source files the compiler is given: a choice of statements, and of  *)
(* conditions, for each place in the file.                                 *)
(***************************************************************************)
EXTENDS Sequences
N(n) == [first |-> [number |-> n], plus |-> <<>>]
V(x) == [first |-> [var |-> x], plus |-> <<>>]
Sum(x, n) == [first |-> [var |-> x], plus |-> <<n>>]
MCStatement ==
  LET string == [stmt |-> "string", name |-> "s", length |-> 2]
      string2 == [stmt |-> "string", name |-> "t", length |-> 3]
      x0 == [stmt |-> "assign", name |-> "x", value |-> N(0)]
      xbig == [stmt |-> "declare", name |-> "x", type |-> "INT", value |-> N(200)]
      y == [stmt |-> "declare", name |-> "y", type |-> "INT"]
      yx == [stmt |-> "assign", name |-> "y", value |-> Sum("x", 200)]
      xx == [stmt |-> "assign", name |-> "x", value |-> Sum("x", 1)]
      store == [stmt |-> "deref", name |-> "x", value |-> V("s")]
      storey == [stmt |-> "deref", name |-> "x", value |-> Sum("y", 1)]
      fd == [stmt |-> "assign", name |-> "y", value |-> [number |-> 5, args |-> <<V("s"), N(0)>>]]
      print == [stmt |-> "call", name |-> "print", args |-> <<V("s"), Sum("x", 127)>>]
      printy == [stmt |-> "call", name |-> "print", args |-> <<V("y"), V("t")>>]
      f == [stmt |-> "call", name |-> "f", args |-> <<>>]
      sys == [stmt |-> "syscall", number |-> 4, args |-> <<V("x"), V("s")>>]
      ret == [stmt |-> "return", value |-> V("x")]
      ret2 == [stmt |-> "return", value |-> Sum("y", 3)]
  IN << {}, {string, y}, {x0, xbig, string2}, {yx, f, x0}, {xx, store, print}, {f, sys, printy, fd}, {ret, storey}, {ret2} >>
MCCondition == LET w == [name |-> "x", below |-> 2]
                   i == [name |-> "x", other |-> "y"]
               IN << {}, {}, {}, {w}, {w}, {i}, {}, {} >>
MCArity == [print |-> 2]
=============================================================================
