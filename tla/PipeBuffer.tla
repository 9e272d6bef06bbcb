----------------------------- MODULE PipeBuffer -----------------------------
(***************************************************************************)
(* What a named pipe promises the processes that use it: a pipe holds at   *)
(* most one block.  A write is accepted only when the pipe is empty and    *)
(* puts the writer's block into it; a read is accepted only when there is  *)
(* a block, and takes it out.  No block is lost, overwritten or delivered  *)
(* twice.  OpenObjects implements this specification.                      *)
(***************************************************************************)
CONSTANTS
  Descriptor,   \* places a block can be written from and read into
  Pipe,         \* pipes
  Data,         \* contents of a block
  Zero,         \* contents of a block never written
  Empty         \* no block

VARIABLES
  block,        \* the block each descriptor's user sees
  delivered,    \* the block was put there by a read
  unread        \* the block in each pipe, or Empty

bufferVars == <<block, delivered, unread>>

Init ==
  /\ block = [d \in Descriptor |-> Zero]
  /\ delivered = [d \in Descriptor |-> FALSE]
  /\ unread = [p \in Pipe |-> Empty]

\* The user changes its block; a pipe's block is zeroed when it is opened.
Store(d) ==
  /\ \E x \in Data : block' = [block EXCEPT ![d] = x]
  /\ delivered' = [delivered EXCEPT ![d] = FALSE]
  /\ UNCHANGED unread

Write(d, p) ==
  /\ unread[p] = Empty
  /\ unread' = [unread EXCEPT ![p] = block[d]]
  /\ UNCHANGED <<block, delivered>>

Read(d, p) ==
  /\ unread[p] # Empty
  /\ block' = [block EXCEPT ![d] = unread[p]]
  /\ delivered' = [delivered EXCEPT ![d] = TRUE]
  /\ unread' = [unread EXCEPT ![p] = Empty]

Next ==
  \E d \in Descriptor :
    \/ Store(d)
    \/ \E p \in Pipe : Write(d, p) \/ Read(d, p)

Spec == Init /\ [][Next]_bufferVars
=============================================================================
