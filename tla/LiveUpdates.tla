---------------------------- MODULE LiveUpdates ----------------------------
(***************************************************************************)
(* The WebSocket stream of the risk map.  The forecast sends an update for *)
(* each partition whose scores are stored, into a broadcast channel that   *)
(* keeps the last few; each connection reads the channel at its own pace,  *)
(* cuts an update to the box its client last asked for, and answers a      *)
(* request it cannot read with an error.                                   *)
(*                                                                         *)
(* An update is named by its place among all that were sent.  The channel  *)
(* (tokio::sync::broadcast) is external.                                   *)
(*                                                                         *)
(* An operator defined just before another, with a longer form of its name *)
(* (BoxForMalformed, BoxFor), is that operator with a mistake in it.       *)
(***************************************************************************)
EXTENDS Integers, Sequences, FiniteSets

CONSTANTS
  Areas,        \* the cells of each partition, a sequence of sets
  Boxes,        \* the boxes clients ask for, sets of cells
  Malformed,    \* a request that cannot be read
  Capacity,     \* updates the channel keeps
  MaxUpdates,   \* bound on the updates sent
  MaxRequests   \* bound on the requests of a client

ASSUME CapacityAssumption == Capacity \in Nat \ {0}

VARIABLES
  sent,    \* number of updates sent
  inbox,   \* requests of the client that were not read yet
  conn     \* the connection

live == <<sent, inbox, conn>>

Everywhere == UNION {Areas[p] : p \in DOMAIN Areas}
CellsOf(n) == Areas[((n - 1) % Len(Areas)) + 1]

Closed == [open |-> FALSE, joined |-> 0, next |-> 1, skipped |-> 0, box |-> Everywhere,
           asked |-> <<>>, got |-> <<>>]

LiveInit == sent = 0 /\ inbox = <<>> /\ conn = Closed

-----------------------------------------------------------------------------
\* The scores of a partition are stored: its update is sent, to no one if
\* there is no connection.
Send ==
  /\ sent < MaxUpdates
  /\ sent' = sent + 1
  /\ UNCHANGED <<inbox, conn>>

Connect ==
  /\ ~conn.open
  /\ inbox' = <<>>
  /\ conn' = [Closed EXCEPT !.open = TRUE, !.joined = sent, !.next = sent + 1]
  /\ UNCHANGED sent

Ask(request) ==
  /\ conn.open /\ Len(conn.asked) + Len(inbox) < MaxRequests
  /\ inbox' = Append(inbox, request)
  /\ UNCHANGED <<sent, conn>>

BoxForMalformed(request) == IF request = Malformed THEN Everywhere ELSE request

\* A request that cannot be read leaves the box as it is.
BoxFor(request) == IF request = Malformed THEN conn.box ELSE request

\* The connection takes a request or an update, whichever it finds first.
TakeRequest ==
  /\ conn.open /\ inbox # <<>>
  /\ inbox' = Tail(inbox)
  /\ conn' = [conn EXCEPT !.box = BoxFor(Head(inbox)), !.asked = Append(@, Head(inbox))]
  /\ UNCHANGED sent

Oldest == IF sent > Capacity THEN sent - Capacity + 1 ELSE 1

Filtered(n) == CellsOf(n) \cap conn.box

TakeUpdate ==
  /\ conn.open /\ conn.next \in Oldest..sent
  /\ conn' = [conn EXCEPT !.next = @ + 1,
       !.got = Append(@, [update |-> conn.next, cells |-> Filtered(conn.next),
                          asked |-> Len(conn.asked)])]
  /\ UNCHANGED <<sent, inbox>>

\* RecvError::Lagged: the connection goes on with the oldest update kept.
Skipped == [conn EXCEPT !.next = Oldest, !.skipped = @ + Oldest - conn.next]

Lag ==
  /\ conn.open /\ conn.next < Oldest
  /\ conn' = Skipped
  /\ UNCHANGED <<sent, inbox>>

\* The client closes the socket, or an answer or update cannot be sent.
Disconnect ==
  /\ conn.open
  /\ conn' = Closed
  /\ inbox' = <<>>
  /\ UNCHANGED sent

LiveNext ==
  \/ Send
  \/ Connect
  \/ \E request \in Boxes \cup {Malformed} : Ask(request)
  \/ TakeRequest
  \/ TakeUpdate
  \/ Lag
  \/ Disconnect

LiveSpec == LiveInit /\ [][LiveNext]_live

-----------------------------------------------------------------------------
LastReadable(requests) ==
  LET after(i) == (i + 1)..Len(requests)
      last == {requests[i] : i \in {i \in DOMAIN requests :
                 requests[i] # Malformed /\ \A j \in after(i) : requests[j] = Malformed}}
  IN IF last = {} THEN Everywhere ELSE CHOOSE box \in last : TRUE

(* A connection gets every update sent since it was opened, in order and   *)
(* once, but for those the channel had dropped before it could read them,  *)
(* which are counted; and of each the cells of the box it had last asked   *)
(* for, whatever unreadable requests came since (stream_socket).           *)
StreamFaithful ==
  /\ \A i \in DOMAIN conn.got :
       /\ conn.got[i].update > (IF i = 1 THEN conn.joined ELSE conn.got[i - 1].update)
       /\ conn.got[i].cells =
            CellsOf(conn.got[i].update) \cap LastReadable(SubSeq(conn.asked, 1, conn.got[i].asked))
  /\ conn.open => conn.joined + Len(conn.got) + conn.skipped = conn.next - 1
  /\ conn.skipped > 0 => conn.skipped <= sent - conn.joined - Capacity
=============================================================================
