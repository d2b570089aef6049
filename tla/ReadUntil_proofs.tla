--------------------------- MODULE ReadUntil_proofs ---------------------------
(***************************************************************************)
(* What ReadUntil promises, for every delimiter, buffer size and bound.    *)
(***************************************************************************)
EXTENDS ReadUntil, TLAPS

IInv == TypeOK /\ BufferHoldsStream /\ ReturnsInTime /\ RoomAsNeeded

USE UntilAssumption, BoundAssumption, ByteAssumption

\* resize gives a buffer of the size asked for, which keeps what fits.
LEMMA ResizeKeeps ==
  ASSUME NEW b \in Seq(Byte \cup {Zero}), NEW n \in Nat
  PROVE  /\ resize(b, n) \in Seq(Byte \cup {Zero})
         /\ Len(resize(b, n)) = n
         /\ \A i \in 1 .. n : i <= Len(b) => resize(b, n)[i] = b[i]
BY DEF resize

\* A piece that fits is stored behind the bytes read before, which stay.
LEMMA FilledKeeps ==
  ASSUME TypeOK, NEW bytes \in Seq(Byte), Len(bytes) <= Len(buffer) - offset
  PROVE  /\ Filled(bytes) \in Seq(Byte \cup {Zero})
         /\ Len(Filled(bytes)) = Len(buffer)
         /\ \A i \in 1 .. Len(buffer) :
              Filled(bytes)[i] = IF i \in offset + 1 .. offset + Len(bytes)
                                 THEN bytes[i - offset] ELSE buffer[i]
<1>1. \A i \in 1 .. Len(buffer) : buffer[i] \in Byte \cup {Zero}
  BY DEF TypeOK
<1>2. offset \in Nat /\ Len(buffer) \in Nat /\ Len(bytes) \in Nat
  BY DEF TypeOK
<1>3. \A i \in offset + 1 .. offset + Len(bytes) : bytes[i - offset] \in Byte
  BY <1>2
<1>4. Filled(bytes) \in [1 .. Len(buffer) -> Byte \cup {Zero}]
  BY <1>1, <1>3 DEF Filled
<1> QED
  BY <1>2, <1>4 DEF Filled

\* The search through the buffer sees the received bytes only: whatever lies
\* behind them, it finds a delimiter exactly when one is in what was received.
LEMMA SearchExact ==
  ASSUME NEW b \in Seq(Byte \cup {Zero}), NEW r \in Seq(Byte),
         Len(r) <= Len(b), \A i \in 1 .. Len(r) : b[i] = r[i]
  PROVE  hasEnd(Len(r), b, until) <=> Ends(r)
<1> DEFINE L == Len(until)
<1>1. L \in Nat /\ Len(r) \in Nat /\ Len(b) \in Nat /\ L > 0
  OBVIOUS
<1>2. ASSUME NEW p \in Nat, p + L <= Len(r)
      PROVE  SubSeq(b, p + 1, p + L) = SubSeq(r, p + 1, p + L)
  <2>1. SubSeq(b, p + 1, p + L) = [i \in 1 .. L |-> b[i + p]]
    BY <1>1, <1>2
  <2>2. SubSeq(r, p + 1, p + L) = [i \in 1 .. L |-> r[i + p]]
    BY <1>1, <1>2
  <2>3. \A i \in 1 .. L : b[i + p] = r[i + p]
    BY <1>1, <1>2
  <2> QED
    BY <2>1, <2>2, <2>3
<1>3. ASSUME hasEnd(Len(r), b, until)
      PROVE  Ends(r)
  <2>1. PICK p \in 0 .. Len(r) - L : SubSeq(b, p + 1, p + L) = until
    BY <1>3 DEF hasEnd, OccursAt
  <2>2. p \in Nat /\ p \in 0 .. Len(r) /\ p + L <= Len(r)
    BY <1>1, <2>1
  <2>3. SubSeq(r, p + 1, p + L) = until
    BY <1>2, <2>1, <2>2
  <2> QED
    BY <2>2, <2>3 DEF Ends, OccursAt
<1>4. ASSUME Ends(r)
      PROVE  hasEnd(Len(r), b, until)
  <2>1. PICK p \in 0 .. Len(r) : p + L <= Len(r) /\ SubSeq(r, p + 1, p + L) = until
    BY <1>4 DEF Ends, OccursAt
  <2>2. p \in Nat /\ p \in 0 .. Len(r) - L /\ Len(r) >= L /\ p + L <= Len(b)
    BY <1>1, <2>1
  <2>3. SubSeq(b, p + 1, p + L) = until
    BY <1>2, <2>1, <2>2
  <2> QED
    BY <2>2, <2>3 DEF hasEnd, OccursAt
<1> QED
  BY <1>3, <1>4

-----------------------------------------------------------------------------
LEMMA InitHolds == Init => IInv
<1> SUFFICES ASSUME Init PROVE IInv
  OBVIOUS
<1>1. TypeOK /\ BufferHoldsStream /\ RoomAsNeeded
  BY DEF Init, TypeOK, BufferHoldsStream, RoomAsNeeded
<1>2. ReturnsInTime
  BY DEF Init, ReturnsInTime
<1> QED
  BY <1>1, <1>2 DEF IInv

LEMMA CallHolds == ASSUME IInv, Call PROVE IInv'
<1>1. /\ buffer' \in Seq(Byte \cup {Zero}) /\ Len(buffer') = BufferSize
      /\ offset' = 0 /\ status' = "reading" /\ received' = <<>> /\ chunk' = 0
  BY ResizeKeeps DEF IInv, TypeOK, Call
<1>2. TypeOK'
  BY <1>1 DEF TypeOK
<1>3. BufferHoldsStream'
  BY <1>1 DEF BufferHoldsStream
<1>4. RoomAsNeeded'
  BY <1>1 DEF RoomAsNeeded
<1>5. ReturnsInTime'
  BY <1>1 DEF ReturnsInTime, Ends, OccursAt
<1> QED
  BY <1>2, <1>3, <1>4, <1>5 DEF IInv

LEMMA ReadSomeHolds ==
  ASSUME IInv, NEW bytes \in Seq(Byte), ReadSome(bytes)
  PROVE  IInv'
<1> DEFINE b == Filled(bytes)
           end == offset + Len(bytes)
           found == hasEnd(end, b, until)
<1>1. /\ TypeOK /\ BufferHoldsStream /\ RoomAsNeeded
      /\ status = "reading" /\ ~Ends(received)
  BY DEF IInv, ReturnsInTime, ReadSome
<1>2. /\ offset \in Nat /\ Len(buffer) \in Nat /\ Len(bytes) \in Nat \ {0}
      /\ end \in Nat /\ end <= Len(buffer) /\ offset < end
  BY <1>1 DEF TypeOK, ReadSome
<1>3. /\ b \in Seq(Byte \cup {Zero}) /\ Len(b) = Len(buffer)
      /\ \A i \in 1 .. Len(buffer) :
           b[i] = IF i \in offset + 1 .. end THEN bytes[i - offset] ELSE buffer[i]
  BY <1>1, <1>2, FilledKeeps
<1>4. /\ offset' = end /\ received' = received \o bytes /\ chunk' = Len(bytes)
      /\ buffer' = IF found THEN resize(b, end) ELSE Grown(b, end)
      /\ status' = IF found THEN "found" ELSE "reading"
  BY DEF ReadSome
<1>a. end = offset + Len(bytes)
  OBVIOUS
<1> HIDE DEF b, end, found
<1>5. /\ received \in Seq(Byte) /\ received' \in Seq(Byte)
      /\ Len(received) = offset /\ Len(received') = end
      /\ \A i \in 1 .. end : received'[i] = IF i <= offset THEN received[i] ELSE bytes[i - offset]
  BY <1>1, <1>2, <1>4, <1>a DEF TypeOK, BufferHoldsStream
<1>6. \A i \in 1 .. offset : buffer[i] = received[i]
  <2>1. SubSeq(buffer, 1, offset) = [i \in 1 .. offset |-> buffer[i]]
    BY <1>1, <1>2 DEF TypeOK
  <2> QED
    BY <1>1, <1>2, <2>1 DEF BufferHoldsStream
<1>7. \A i \in 1 .. end : b[i] = received'[i]
  <2> SUFFICES ASSUME NEW i \in 1 .. end PROVE b[i] = received'[i]
    OBVIOUS
  <2>1. i \in 1 .. Len(buffer)
    BY <1>2
  <2>2. b[i] = IF i \in offset + 1 .. end THEN bytes[i - offset] ELSE buffer[i]
    BY <1>3, <2>1
  <2>3. received'[i] = IF i <= offset THEN received[i] ELSE bytes[i - offset]
    BY <1>5
  <2>4. CASE i <= offset
    BY <1>2, <1>6, <2>2, <2>3, <2>4
  <2>5. CASE ~(i <= offset)
    BY <1>2, <2>2, <2>3, <2>5
  <2> QED
    BY <2>4, <2>5
<1>8. found <=> Ends(received')
  BY <1>2, <1>3, <1>5, <1>7, SearchExact DEF found
<1>9. /\ buffer' \in Seq(Byte \cup {Zero})
      /\ Len(buffer') = IF found THEN end ELSE IF end = Len(b) THEN 2 * Len(b) ELSE Len(b)
      /\ \A i \in 1 .. end : buffer'[i] = b[i]
  <2>1. CASE found
    <3>1. /\ resize(b, end) \in Seq(Byte \cup {Zero}) /\ Len(resize(b, end)) = end
          /\ \A i \in 1 .. end : i <= Len(b) => resize(b, end)[i] = b[i]
      BY <1>2, <1>3, ResizeKeeps
    <3>2. buffer' = resize(b, end)
      BY <1>4, <2>1
    <3> QED
      BY <1>2, <1>3, <2>1, <3>1, <3>2
  <2>2. CASE ~found /\ end = Len(b)
    <3>1. 2 * Len(b) \in Nat
      BY <1>2, <1>3
    <3>2. /\ resize(b, 2 * Len(b)) \in Seq(Byte \cup {Zero})
          /\ Len(resize(b, 2 * Len(b))) = 2 * Len(b)
          /\ \A i \in 1 .. 2 * Len(b) : i <= Len(b) => resize(b, 2 * Len(b))[i] = b[i]
      BY <1>3, <3>1, ResizeKeeps
    <3>3. buffer' = resize(b, 2 * Len(b))
      BY <1>4, <2>2 DEF Grown
    <3> QED
      BY <1>2, <1>3, <2>2, <3>2, <3>3
  <2>3. CASE ~found /\ end # Len(b)
    BY <1>2, <1>3, <1>4, <2>3 DEF Grown
  <2> QED
    BY <2>1, <2>2, <2>3
<1>10. TypeOK'
  BY <1>2, <1>3, <1>4, <1>5, <1>9, <1>a DEF TypeOK, ReadSome
<1>11. SubSeq(buffer', 1, end) = received'
  <2>1. end <= Len(buffer')
    BY <1>2, <1>3, <1>9
  <2>2. SubSeq(buffer', 1, end) = [i \in 1 .. end |-> buffer'[i]]
    BY <1>2, <1>9, <2>1
  <2>3. received' = [i \in 1 .. end |-> received'[i]]
    BY <1>5
  <2> QED
    BY <1>7, <1>9, <2>2, <2>3
<1>12. BufferHoldsStream'
  BY <1>4, <1>5, <1>11 DEF BufferHoldsStream
<1>13. RoomAsNeeded'
  BY <1>1, <1>2, <1>3, <1>4, <1>9 DEF RoomAsNeeded
<1>14. SubSeq(received', 1, Len(received') - chunk') = received
  <2>1. SubSeq(received', 1, Len(received') - chunk') = [i \in 1 .. offset |-> received'[i]]
    BY <1>2, <1>4, <1>5, <1>a
  <2>2. received = [i \in 1 .. offset |-> received[i]]
    BY <1>5
  <2>3. \A i \in 1 .. offset : received'[i] = received[i]
    BY <1>2, <1>5
  <2> QED
    BY <2>1, <2>2, <2>3
<1>15. found => buffer' = received'
  <2> SUFFICES ASSUME found PROVE buffer' = received'
    OBVIOUS
  <2>1. buffer' = [i \in 1 .. end |-> buffer'[i]] /\ received' = [i \in 1 .. end |-> received'[i]]
    BY <1>5, <1>9
  <2> QED
    BY <1>7, <1>9, <2>1
<1>16. ReturnsInTime'
  BY <1>1, <1>4, <1>8, <1>14, <1>15 DEF ReturnsInTime
<1> QED
  BY <1>10, <1>12, <1>13, <1>16 DEF IInv

LEMMA StepHolds == IInv /\ [Next]_vars => IInv'
<1> SUFFICES ASSUME IInv, [Next]_vars PROVE IInv'
  OBVIOUS
<1>1. CASE Call
  BY <1>1, CallHolds
<1>2. CASE ReadFails
  BY <1>2 DEF ReadFails, IInv, TypeOK, BufferHoldsStream, ReturnsInTime, RoomAsNeeded
<1>3. ASSUME NEW bytes \in Chunks, ReadSome(bytes) PROVE IInv'
  <2>1. bytes \in Seq(Byte)
    BY DEF Chunks
  <2> QED
    BY <1>3, <2>1, ReadSomeHolds
<1>4. CASE UNCHANGED vars
  BY <1>4 DEF vars, IInv, TypeOK, BufferHoldsStream, ReturnsInTime, RoomAsNeeded
<1> QED
  BY <1>1, <1>2, <1>3, <1>4 DEF Next

LEMMA InvariantHolds == Spec => []IInv
BY InitHolds, StepHolds, PTL DEF Spec

-----------------------------------------------------------------------------
\* The buffer, the offset into it and the bookkeeping keep their types: the
\* VERIFY of UntilHandler, offset <= buffer.size(), among them.
THEOREM TypeCorrect == Spec => []TypeOK
BY InvariantHolds, PTL DEF IInv

\* What was received lies at the start of the buffer, through every resize.
THEOREM StreamKept == Spec => []BufferHoldsStream
BY InvariantHolds, PTL DEF IInv

\* readUntil returns with the piece that completes the first delimiter, and
\* with what was received, for every delimiter and every cut into pieces.
THEOREM DelimiterFoundInTime == Spec => []ReturnsInTime
BY InvariantHolds, PTL DEF IInv

\* No read without room, no buffer larger than twice what was sent.
THEOREM RoomIsAsNeeded == Spec => []RoomAsNeeded
BY InvariantHolds, PTL DEF IInv
=============================================================================
