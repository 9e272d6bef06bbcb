----------------------------- MODULE NetReceive -----------------------------
(***************************************************************************)
(* netUDPRcv (net.cpp:133-422): the driver drains the receive ring of the  *)
(* NE2000 card while the card goes on filling it.                          *)
(*                                                                         *)
(* The card is external.  Its ring is the pages PSTART .. PSTOP - 1; it    *)
(* stores a packet from page CURR on, wraps at PSTOP, and leaves in the    *)
(* packet's header the page of the next one.  The driver owns BOUND, the   *)
(* page before the first that it has not taken yet.                        *)
(*                                                                         *)
(* A packet is a number of pages and a kind: UDP, an ARP request for this  *)
(* machine (its answer leaves from a page in front of the ring), other     *)
(* traffic, which the driver ignores, and bad (the header's status or      *)
(* length is invalid).                                                     *)
(***************************************************************************)
EXTENDS Integers, Sequences, SequencesExt

CONSTANTS
  PSTART, PSTOP,        \* the ring: 0x46 and 0x80
  MaxPages,             \* pages of the largest packet (6 of 256 bytes)
  MAX_QUEUED_PACKETS,   \* payloads queued in one call (10)
  Ids,                  \* bound of the model: UDP packets are told apart modulo Ids
  Requests              \* bound of the model: ARP requests are counted modulo Requests

ASSUME NetAssumption ==
  /\ PSTART \in Nat \ {0} /\ PSTOP \in Nat /\ PSTART < PSTOP
  /\ MaxPages \in 1 .. PSTOP - PSTART - 1
  /\ MAX_QUEUED_PACKETS \in Nat \ {0}
  /\ Ids \in Nat \ {0} /\ Ids >= PSTOP - PSTART - 2  \* those in the ring are told apart
  /\ Requests \in Nat \ {0}

Pages == PSTOP - PSTART

Page == PSTART .. PSTOP - 1

Kind == {"udp", "arp", "other", "bad"}

\* What the card leaves in a page of a packet: its first page also holds the header.
Content == [id : 0 .. Ids - 1, kind : Kind, part : 1 .. MaxPages,
            size : 1 .. MaxPages, nextPage : Page]

VARIABLES
  ring,         \* the card's memory
  CURR,         \* where the card stores the next packet
  BOUND,        \* where the driver has told it to stop
  pc,           \* where netUDPRcv is; "idle" between its calls
  currentPage, receivePage, header, frame, payloadQueue,  \* its variables
  payload,      \* NETWORK_INCOMING_PAYLOAD_BUFFER: the payloads in it
  received,     \* NETWORK_PACKETS_RECEIVED, modulo Ids
  transmitted,  \* NETWORK_PACKETS_TRANSMITTED, modulo Requests
  arrived,      \* history: UDP packets that the card accepted, modulo Ids
  pending,      \* history: accepted packets that are not taken, with their first page
  expected      \* history: UDP packets pending when CURR was read

card == <<ring, CURR, arrived>>
driver == <<BOUND, pc, currentPage, receivePage, header, frame, payloadQueue,
            payload, received, transmitted, expected>>
netVars == <<card, driver, pending>>

NoContent == [id |-> 0, kind |-> "bad", part |-> 1, size |-> 1, nextPage |-> PSTART]

\* netInit: BOUND starts one page in front of the ring.
NetInit ==
  /\ ring = [p \in Page |-> NoContent]
  /\ CURR = PSTART /\ BOUND = PSTART - 1
  /\ pc = "idle"
  /\ currentPage = PSTART /\ receivePage = PSTART
  /\ header = NoContent /\ frame = <<>>
  /\ payloadQueue = <<>> /\ payload = <<>>
  /\ received = 0 /\ arrived = 0 /\ transmitted = 0
  /\ pending = <<>> /\ expected = <<>>

-----------------------------------------------------------------------------
(* The card *)

\* The page that lies i pages behind p, round the ring.
Behind(p, i) == PSTART + ((p - PSTART + i) % Pages)

\* The pages that the card may still fill: from CURR to BOUND, which it compares
\* as plain numbers.
FreePages == IF CURR < BOUND THEN BOUND - CURR ELSE Pages - (CURR - BOUND)

\* How many pages `to' lies behind `from', round the ring.
Distance(from, to) == (to - from + Pages) % Pages

\* The pages that the card may fill.  What it leaves in them is never read, so an
\* arrival clears those it does not need.
Unused(p) == Distance(CURR, p) < FreePages

\* A packet arrives.  The card accepts it only if that does not bring CURR to BOUND,
\* and drops it otherwise.
Arrives(size, kind) ==
  /\ size < FreePages
  /\ ring' = [p \in Page |->
       IF Distance(CURR, p) < size
       THEN [id |-> arrived, kind |-> kind, part |-> Distance(CURR, p) + 1, size |-> size,
             nextPage |-> Behind(CURR, size)]
       ELSE IF Unused(p) THEN NoContent ELSE ring[p]]
  /\ CURR' = Behind(CURR, size)
  /\ pending' = Append(pending, [id |-> arrived, kind |-> kind, size |-> size, page |-> CURR])
  /\ arrived' = IF kind = "udp" THEN (arrived + 1) % Ids ELSE arrived
  /\ UNCHANGED driver

-----------------------------------------------------------------------------
(* The driver *)

\* receivePage for a boundary.
Following(boundary) == IF boundary + 1 = PSTOP THEN PSTART ELSE boundary + 1

\* Mutant: the boundary is put on the next packet instead of in front of it.
NewBoundary_Next(nextPage) == nextPage

\* The boundary that releases all pages in front of nextPage.
NewBoundary(nextPage) == IF nextPage - 1 < PSTART THEN PSTOP - 1 ELSE nextPage - 1

\* The UDP packets among packets, in their order.
UdpIds(packets) ==
  LET ids[n \in 0 .. Len(packets)] ==
        IF n = 0 THEN <<>>
        ELSE IF packets[n].kind = "udp" THEN Append(ids[n - 1], packets[n].id)
        ELSE ids[n - 1]
  IN  ids[Len(packets)]

\* The buffers are cleared and the boundary is read.
Begin ==
  /\ pc = "idle"
  /\ pc' = "current"
  /\ payload' = <<>>
  /\ receivePage' = Following(BOUND)
  /\ UNCHANGED <<card, pending, BOUND, currentPage, header, frame, payloadQueue,
                 received, transmitted, expected>>

\* CURR is read, once for the whole call.
ReadCurrent ==
  /\ pc = "current"
  /\ pc' = "loop"
  /\ currentPage' = CURR
  /\ expected' = UdpIds(pending)
  /\ UNCHANGED <<card, pending, BOUND, receivePage, header, frame, payloadQueue,
                 payload, received, transmitted>>

\* Mutant: the loop runs as long as the card has anything.
More_Live == receivePage # CURR

\* Packets are left that had arrived when CURR was read.
More == receivePage # currentPage

\* The pages up to the next packet go back to the card.
Release(nextPage) ==
  /\ BOUND' = NewBoundary(nextPage)
  /\ receivePage' = Following(BOUND')
  /\ pending' = Tail(pending)

\* Mutant: the pages are released as soon as the header has been read.
ReadHeader_Releases ==
  /\ pc = "loop" /\ More
  /\ ring[receivePage].kind # "bad"
  /\ header' = ring[receivePage]
  /\ pc' = "data"
  /\ BOUND' = NewBoundary(ring[receivePage].nextPage)
  /\ UNCHANGED <<card, pending, currentPage, receivePage, frame, payloadQueue, payload,
                 received, transmitted, expected>>

\* The packet's header is read and is valid.
ReadHeader ==
  /\ pc = "loop" /\ More
  /\ ring[receivePage].kind # "bad"
  /\ header' = ring[receivePage]
  /\ pc' = "data"
  /\ UNCHANGED <<card, pending, BOUND, currentPage, receivePage, frame, payloadQueue,
                 payload, received, transmitted, expected>>

\* The header is invalid: the packet is skipped.
SkipBad ==
  /\ pc = "loop" /\ More
  /\ ring[receivePage].kind = "bad"
  /\ Release(ring[receivePage].nextPage)
  /\ UNCHANGED <<card, pc, currentPage, header, frame, payloadQueue, payload, received,
                 transmitted, expected>>

\* The packet is copied out; the card wraps the transfer at the ring's end.
ReadData ==
  /\ pc = "data"
  /\ frame' = [i \in 1 .. header.size |-> ring[Behind(receivePage, i - 1)]]
  /\ pc' = "release"
  /\ UNCHANGED <<card, pending, BOUND, currentPage, receivePage, header, payloadQueue,
                 payload, received, transmitted, expected>>

\* Mutant: the queue takes one payload more than it has room for.
Queued_OneMore(queue, id) ==
  IF Len(queue) <= MAX_QUEUED_PACKETS THEN Append(queue, id) ELSE queue

\* A payload is queued, or dropped when the queue is full.
Queued(queue, id) ==
  IF Len(queue) < MAX_QUEUED_PACKETS THEN Append(queue, id) ELSE queue

\* The packet's pages are released and the copy is processed: UDP is queued and
\* counted, queued or not, and an ARP request is answered.
Process ==
  /\ pc = "release"
  /\ pc' = "loop"
  /\ Release(header.nextPage)
  /\ IF header.kind = "udp"
     THEN /\ payloadQueue' = Queued(payloadQueue, frame[1].id)
          /\ received' = (received + 1) % Ids
     ELSE UNCHANGED <<payloadQueue, received>>
  /\ transmitted' = IF header.kind = "arp" THEN (transmitted + 1) % Requests ELSE transmitted
  /\ header' = NoContent /\ frame' = <<>>
  /\ UNCHANGED <<card, currentPage, payload, expected>>

\* The queued payloads go to the payload buffer, and the queue is emptied.
Finish ==
  /\ pc = "loop" /\ ~More
  /\ pc' = "idle"
  /\ payload' = payloadQueue
  /\ payloadQueue' = <<>>
  /\ UNCHANGED <<card, pending, BOUND, currentPage, receivePage, header, frame, received,
                 transmitted, expected>>

netUDPRcv == Begin \/ ReadCurrent \/ ReadHeader \/ SkipBad \/ ReadData \/ Process \/ Finish

NetNext ==
  \/ \E size \in 1 .. MaxPages, kind \in Kind : Arrives(size, kind)
  \/ netUDPRcv

NetSpec == NetInit /\ [][NetNext]_netVars

\* A call runs to its end with interrupts off, and each of its waits for the card
\* gives up after 100000 polls.  When a call is made is up to the programs.
NetFairSpec == NetSpec /\ WF_netVars(pc # "idle" /\ netUDPRcv)

-----------------------------------------------------------------------------
(* Properties *)

\* How many pages the first packets of a sequence fill.
PagesBefore(packets) ==
  LET pages[n \in 0 .. Len(packets)] ==
        IF n = 0 THEN 0 ELSE pages[n - 1] + packets[n].size
  IN  pages

\* The driver's page and the boundary are at the oldest packet that it has not
\* taken, and from there the packets that arrived follow each other to CURR: the
\* driver never skips one, takes one twice or hands its pages back too early
\* (net.cpp:192-206 and 231-236 compute both from the header's next page).
RingHoldsPending ==
  LET before == PagesBefore(pending)
      first == Following(BOUND)
  IN  /\ pc # "idle" => receivePage = first
      /\ CURR = Behind(first, before[Len(pending)])
      /\ \A i \in 1 .. Len(pending) : pending[i].page = Behind(first, before[i - 1])

\* The copy of a packet is one packet from its first page to its last, also when
\* it lies round the end of the ring and others arrive meanwhile (net.cpp:210-236
\* reads the data before it moves the boundary).
ReadsIntactPacket ==
  pc = "release" =>
    \A i \in 1 .. Len(frame) :
      frame[i] = [header EXCEPT !.part = i]

\* After a call the payload buffer holds the UDP packets that lay in the ring when
\* CURR was read, in the order of their arrival, as many as the queue has room
\* for, and none of an earlier call (net.cpp:371-416).
DeliversWhatArrived ==
  pc = "idle" => payload = SubSeq(expected, 1, Min({Len(expected), MAX_QUEUED_PACKETS}))

\* A call ends, however fast packets arrive (net.cpp:164 compares with the CURR
\* that was read once).
ReceiveEnds == pc # "idle" ~> pc = "idle"
=============================================================================
