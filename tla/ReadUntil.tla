------------------------------- MODULE ReadUntil -------------------------------
(***************************************************************************)
(* Socket::readUntil of server.cpp, called round after round with one      *)
(* buffer as the loop of a connection does: read what has come, until the  *)
(* bytes received contain a delimiter; double the buffer when it is full.  *)
(* The buffer is set back to its first size before a call but not cleared, *)
(* so behind the bytes of this call it holds bytes of earlier ones.        *)
(***************************************************************************)
EXTENDS Integers, Sequences

CONSTANTS Byte,          \* what a client sends
          Zero,          \* what resize fills with
          until,         \* the delimiter
          BufferSize,    \* the size the caller gives the buffer
          MaxRequest     \* bound: bytes received in one call

ASSUME ByteAssumption  == Zero \notin Byte /\ until \in Seq(Byte)
ASSUME UntilAssumption == BufferSize >= Len(until) /\ Len(until) > 0
ASSUME BoundAssumption == BufferSize \in Nat /\ MaxRequest \in Nat

VARIABLES buffer,        \* its contents, all of its size
          offset,        \* how many bytes of it this call has read
          status,        \* "idle", "reading", "found" or "failed"
          received,      \* history: the bytes of this call,
          chunk          \* and how many of them came last

vars == <<buffer, offset, status, received, chunk>>

TypeOK ==
  /\ buffer \in Seq(Byte \cup {Zero})
  /\ offset \in 0 .. Len(buffer)
  /\ status \in {"idle", "reading", "found", "failed"}
  /\ received \in Seq(Byte) /\ Len(received) <= MaxRequest
  /\ chunk \in 0 .. Len(received)

Init ==
  /\ buffer = <<>> /\ offset = 0
  /\ status = "idle"
  /\ received = <<>> /\ chunk = 0

resize(b, n) == [i \in 1 .. n |-> IF i <= Len(b) THEN b[i] ELSE Zero]

\* Whether end occurs in b, starting at one of these places (from 0).
OccursAt(b, end, places) ==
  \E p \in places : p + Len(end) <= Len(b) /\ SubSeq(b, p + 1, p + Len(end)) = end

\* mutant: the last place is where the received bytes end
hasEndStale(posEnd, b, end) == OccursAt(b, end, 0 .. posEnd)
hasEnd(posEnd, b, end) ==
  posEnd >= Len(end) /\ OccursAt(b, end, 0 .. posEnd - Len(end))

GrownLate(b, used) ==                 \* mutant: off by one
  IF used > Len(b) THEN resize(b, 2 * Len(b)) ELSE b
\* A full buffer is doubled.
Grown(b, used) == IF used = Len(b) THEN resize(b, 2 * Len(b)) ELSE b

\* mutant: the next call goes on where the last one ended
CallAtEnd ==
  /\ status \in {"idle", "found"}
  /\ buffer' = resize(buffer, BufferSize)
  /\ UNCHANGED offset
  /\ status' = "reading"
  /\ received' = <<>> /\ chunk' = 0
\* The caller: the next request, into the same buffer.
Call ==
  /\ status \in {"idle", "found"}
  /\ buffer' = resize(buffer, BufferSize)
  /\ offset' = 0
  /\ status' = "reading"
  /\ received' = <<>> /\ chunk' = 0

FilledAtStart(bytes) ==               \* mutant: always from the start
  [i \in 1 .. Len(buffer) |-> IF i <= Len(bytes) THEN bytes[i] ELSE buffer[i]]
Filled(bytes) ==
  [i \in 1 .. Len(buffer) |->
     IF i \in offset + 1 .. offset + Len(bytes) THEN bytes[i - offset] ELSE buffer[i]]

\* Some bytes arrive, at most as many as there is room for.
ReadSome(bytes) ==
  /\ status = "reading"
  /\ Len(bytes) \in 1 .. Len(buffer) - offset
  /\ Len(received) + Len(bytes) <= MaxRequest
  /\ offset' = offset + Len(bytes)
  /\ LET b == Filled(bytes)
         found == hasEnd(offset', b, until)
     IN /\ buffer' = IF found THEN resize(b, offset') ELSE Grown(b, offset')
        /\ status' = IF found THEN "found" ELSE "reading"
  /\ received' = received \o bytes
  /\ chunk' = Len(bytes)

\* The connection fails, and with it the call.
ReadFails ==
  /\ status = "reading"
  /\ status' = "failed"
  /\ UNCHANGED <<buffer, offset, received, chunk>>

Chunks == UNION {[1 .. n -> Byte] : n \in 1 .. MaxRequest}

Next == Call \/ ReadFails \/ \E bytes \in Chunks : ReadSome(bytes)

Spec == Init /\ [][Next]_vars

-----------------------------------------------------------------------------
(* Properties                                                              *)

\* Some request ends within s.
Ends(s) == OccursAt(s, until, 0 .. Len(s))

\* What readUntil has read lies in the buffer, in the order it came and at its
\* start, however often the buffer was resized.
BufferHoldsStream ==
  /\ offset = Len(received)
  /\ SubSeq(buffer, 1, offset) = received

\* It returns with the first piece that completes a delimiter, wherever the
\* pieces were cut and whatever earlier requests left in the buffer: never
\* before, and it does not wait for more once it has one.  So all it can read
\* beyond the delimiter came in the same piece.
ReturnsInTime ==
  /\ status = "reading" => ~Ends(received)
  /\ status = "found" =>
       /\ Ends(received) /\ ~Ends(SubSeq(received, 1, Len(received) - chunk))
       /\ buffer = received

\* It never asks for bytes without room for one: such a read would complete at
\* once, and for ever.  And it takes no more memory than a client makes it take:
\* the buffer is never more than twice what has been sent.
RoomAsNeeded ==
  /\ status = "reading" => offset < Len(buffer)
  /\ Len(buffer) <= BufferSize \/ Len(buffer) <= 2 * offset
=============================================================================
