----------------------------- MODULE MCPrograms -----------------------------
EXTENDS Programs, ToolchainInputs
MCInitialFile == [name |-> "old", content |-> <<"a", "b", "b", "b", "\n">>]
MCTypedLine == {<<"a">>}
MCCommand ==
  { <<>>, <<" ">>, <<"h">>, <<"c", "d">>, <<"f", "r", "e", "e">>, <<"q", " ", "x">> }
=============================================================================
