--------------------------- MODULE MainLoopProofs ---------------------------
(***************************************************************************)
(* The framing of Connection.reader_async is a channel, whatever the       *)
(* messages, their lengths, the segments they come in and the moments the  *)
(* read timer fires: whole and exact until a read is cancelled inside a    *)
(* message, and after that still in order and of whole messages only.      *)
(* Then the two timers of the loop, for any hold time and any messages:    *)
(* what can make ours end a session whose remote speaker keeps to its own, *)
(* and that the remote speaker is written to often enough for its timer    *)
(* not to end it.                                                          *)
(***************************************************************************)
EXTENDS MainLoop, TLAPS

Boundary == End[Len(read)]
InMessage == IF stage = "body" THEN HeaderLen ELSE 0

\* What a read has taken since it began is in its two buffers.
ReadInv ==
    /\ taken = first + InMessage + offset + woken
    /\ stage = "header" => offset + woken <= HeaderLen
    /\ stage = "body" => \E k \in Starting : offset + woken <= BodyLen(k)

\* The messages given are in the order they were sent, and behind the octets
\* taken or being read.
OrderInv ==
    /\ \A i, j \in 1..Len(read) : i < j => read[i] < read[j]
    /\ \A i \in 1..Len(read) : /\ End[read[i]] <= taken
                               /\ stage \in Reading => End[read[i]] <= first

\* Before any read was cancelled inside a message none was missed, and a read
\* begins at the end of the last one given.
KeptInv ==
    /\ Len(read) <= N
    /\ \A i \in 1..Len(read) : read[i] = i
    /\ stage \in Reading => first = Boundary
    /\ stage = "away" => taken = Boundary

FramingInv ==
    /\ FramingTypeOK
    /\ NoFramingError
    /\ OrderInv
    /\ stage \in Reading => ReadInv
    /\ stage = "away" => offset = 0 /\ woken = 0
    /\ ~torn => KeptInv

---------------------------------------------------------------------------

LEMMA ElementIs ==
    ASSUME NEW S, NEW s \in Seq(S), NEW i \in 1..Len(s)
    PROVE  s[i] \in S
OBVIOUS

\* The ends of messages are in order.
LEMMA EndsInOrder ==
    ASSUME NEW j \in 0..N, NEW k \in 0..N
    PROVE  /\ End[j] \in Nat /\ End[k] \in Nat
           /\ End[j] <= End[k] <=> j <= k
<1>1. /\ N \in Nat /\ HeaderLen \in Nat /\ HeaderLen > 0
      /\ End[j] \in Nat /\ End[k] \in Nat /\ j \in Nat /\ k \in Nat
  BY FramingAssumption
<1>2. /\ j < k => End[j] + HeaderLen <= End[k]
      /\ k < j => End[k] + HeaderLen <= End[j]
  BY FramingAssumption
<1>3. j = k => End[j] = End[k]
  OBVIOUS
<1> QED BY <1>1, <1>2, <1>3

\* A message that begins where a read began has the lengths its boundaries say.
LEMMA StartingIs ==
    ASSUME NEW k \in Starting
    PROVE  /\ k \in 1..N /\ k - 1 \in 0..N /\ k \in 0..N
           /\ first = End[k - 1] /\ first \in Nat /\ End[k] \in Nat
           /\ BodyLen(k) \in Nat
           /\ End[k] = first + HeaderLen + BodyLen(k)
BY FramingAssumption DEF Starting, BodyLen

\* No two messages begin at the same octet.
LEMMA OneStart ==
    ASSUME NEW j \in Starting, NEW k \in Starting
    PROVE  j = k
<1>1. /\ j \in 1..N /\ k \in 1..N /\ j - 1 \in 0..N /\ k - 1 \in 0..N
      /\ End[j - 1] = End[k - 1]
  BY StartingIs
<1>2. j - 1 <= k - 1 /\ k - 1 <= j - 1
  BY <1>1, EndsInOrder
<1> QED BY <1>1, <1>2

LEMMA Bounds ==
    ASSUME FramingTypeOK
    PROVE  /\ arrived \in Nat /\ taken \in Nat /\ first \in Nat
           /\ taken <= arrived /\ first <= taken /\ arrived <= End[N]
           /\ End[0] = 0 /\ End[N] \in Nat
           /\ HeaderLen \in Nat /\ HeaderLen > 0 /\ N \in Nat
BY FramingAssumption DEF FramingTypeOK

\* What the current buffer is to hold.
LEMMA NumberIs ==
    ASSUME FramingInv, stage \in Reading
    PROVE  /\ stage = "header" => Number = HeaderLen
           /\ stage = "body" => \A k \in Starting : Number = BodyLen(k)
           /\ Number \in Nat
           /\ offset + woken <= Number
<1>1. CASE stage = "header"
  BY <1>1, FramingAssumption DEF FramingInv, ReadInv, Number
<1>2. CASE stage = "body"
  <2>1. PICK k \in Starting : offset + woken <= BodyLen(k)
    BY <1>2 DEF FramingInv, ReadInv, Reading
  <2>2. \A j \in Starting : j = k
    BY OneStart
  <2>3. Number = BodyLen(k)
    BY <1>2, <2>2 DEF Number
  <2> QED BY <1>2, <2>1, <2>2, <2>3, StartingIs
<1> QED BY <1>1, <1>2 DEF Reading

LEMMA InitInv == FramingInit => FramingInv
<1> SUFFICES ASSUME FramingInit PROVE FramingInv
  OBVIOUS
<1> USE DEF FramingInit
<1>1. Len(read) = 0 /\ read \in Seq(1..N)
  OBVIOUS
<1>2. End[N] \in Nat /\ End[0] = 0 /\ N \in Nat
  BY FramingAssumption
<1>3. FramingTypeOK
  <2>1. fin \in BOOLEAN /\ stage \in Stage /\ torn \in BOOLEAN
    BY DEF Stage
  <2> QED BY <1>1, <1>2, <2>1 DEF FramingTypeOK
<1>4. taken = Boundary
  BY <1>1, <1>2 DEF Boundary
<1>5. OrderInv /\ KeptInv
  BY <1>1, <1>2, <1>4 DEF OrderInv, KeptInv, Reading
<1> QED BY <1>3, <1>5 DEF FramingInv, NoFramingError, Reading

\* A read that copies octets keeps within its buffer and within what arrived.
LEMMA RecvInv == FramingInv /\ Recv => FramingInv'
<1> SUFFICES ASSUME FramingInv, Recv PROVE FramingInv'
  OBVIOUS
<1> DEFINE n == IF arrived - taken < Number - offset
                THEN arrived - taken
                ELSE Number - offset
<1>1. /\ stage \in Reading /\ stage' = stage /\ read' = read /\ first' = first
      /\ offset' = offset /\ arrived' = arrived /\ fin' = fin /\ torn' = torn
      /\ woken = 0 /\ taken < arrived /\ woken' = n /\ taken' = taken + n
  BY DEF Recv
<1>2. /\ Number \in Nat /\ offset <= Number
      /\ stage = "header" => Number = HeaderLen
      /\ stage = "body" => \A k \in Starting : Number = BodyLen(k)
  BY <1>1, NumberIs DEF FramingInv, FramingTypeOK
<1>3. /\ arrived \in Nat /\ taken \in Nat /\ offset \in Nat /\ first \in Nat
      /\ first <= taken /\ arrived <= End[N] /\ End[N] \in Nat
  BY Bounds DEF FramingInv, FramingTypeOK
<1>4. n \in Nat /\ taken + n <= arrived /\ offset + n <= Number
  BY <1>1, <1>2, <1>3
<1> HIDE DEF n
<1>5. FramingTypeOK'
  <2>1. /\ arrived' \in 0..End[N] /\ taken' \in 0..arrived' /\ first' \in 0..taken'
        /\ offset' \in Nat /\ woken' \in Nat
    BY <1>1, <1>3, <1>4
  <2>2. fin' \in BOOLEAN /\ stage' \in Stage /\ read' \in Seq(1..N) /\ torn' \in BOOLEAN
    BY <1>1 DEF FramingInv, FramingTypeOK
  <2> QED BY <2>1, <2>2 DEF FramingTypeOK
<1>6. ReadInv'
  <2>1. ReadInv /\ InMessage' = InMessage /\ Starting' = Starting
    BY <1>1 DEF FramingInv, InMessage, Starting
  <2>2. InMessage \in Nat
    BY FramingAssumption DEF InMessage
  <2>3. taken' = (first + InMessage + offset + woken)'
    BY <1>1, <1>3, <1>4, <2>1, <2>2 DEF ReadInv
  <2>4. stage' = "body" => \E k \in Starting' : (offset + woken)' <= BodyLen(k)
    BY <1>1, <1>2, <1>4, <2>1 DEF ReadInv
  <2>5. stage' = "header" => (offset + woken)' <= HeaderLen
    BY <1>1, <1>2, <1>4
  <2> QED BY <2>3, <2>4, <2>5 DEF ReadInv, BodyLen
<1>7. OrderInv'
  <2>1. \A i \in 1..Len(read) : read[i] \in 1..N
    BY ElementIs DEF FramingInv, FramingTypeOK
  <2>2. \A j \in 1..N : End[j] \in Nat
    BY FramingAssumption
  <2>3. \A i \in 1..Len(read) : End[read[i]] \in Nat
    BY <2>1, <2>2
  <2> QED BY <1>1, <1>3, <1>4, <2>3 DEF FramingInv, OrderInv
<1>8. ~torn' => KeptInv'
  BY <1>1 DEF FramingInv, KeptInv, Boundary, Reading
<1> QED BY <1>1, <1>5, <1>6, <1>7, <1>8 DEF FramingInv, NoFramingError, Reading

\* A message whose last octet was taken comes after those given before, and is
\* the next one while none was missed.
LEMMA GivenInv ==
    ASSUME FramingInv, stage \in Reading, NEW k \in Starting, taken = End[k], Deliver(k),
           offset' = 0, woken' = 0, UNCHANGED <<arrived, fin, taken, first, torn>>
    PROVE  FramingInv'
<1>1. read' = Append(read, k) /\ stage' = "away" /\ read \in Seq(1..N)
  BY DEF Deliver, FramingInv, FramingTypeOK
<1>2. k \in 1..N /\ k - 1 \in 0..N /\ first = End[k - 1] /\ End[k] \in Nat
  BY StartingIs
<1>3. /\ read' \in Seq(1..N) /\ Len(read') = Len(read) + 1 /\ Len(read) \in Nat
      /\ read'[Len(read) + 1] = k
      /\ \A i \in 1..Len(read) : read'[i] = read[i] /\ read[i] \in 1..N /\ read[i] \in 0..N
  <2>1. N \in Nat
    BY FramingAssumption
  <2>2. \A i \in 1..Len(read) : read[i] \in 1..N
    BY <1>1, ElementIs
  <2>3. \A i \in 1..Len(read) : read[i] \in 0..N
    BY <2>1, <2>2
  <2> QED BY <1>1, <1>2, <2>2, <2>3
<1>4. FramingTypeOK'
  BY <1>1, <1>3 DEF FramingInv, FramingTypeOK, Stage
<1>5. \A i \in 1..Len(read) : End[read[i]] <= first /\ End[read[i]] <= taken
  BY DEF FramingInv, OrderInv
<1>6. \A i \in 1..Len(read) : read[i] < k
  <2> SUFFICES ASSUME NEW i \in 1..Len(read) PROVE read[i] < k
    OBVIOUS
  <2>1. read[i] <= k - 1
    BY <1>2, <1>3, <1>5, EndsInOrder
  <2> QED BY <1>2, <1>3, <2>1
<1>7. OrderInv'
  <2>1. \A i, j \in 1..Len(read') : i < j => read'[i] < read'[j]
    BY <1>3, <1>6 DEF FramingInv, OrderInv
  <2>2. \A i \in 1..Len(read') : End[read'[i]] <= taken'
    BY <1>2, <1>3, <1>5
  <2> QED BY <1>1, <2>1, <2>2 DEF OrderInv, Reading
<1>8. ASSUME ~torn PROVE KeptInv'
  <2>1. /\ Len(read) \in 0..N /\ first = End[Len(read)]
        /\ \A i \in 1..Len(read) : read[i] = i
    BY <1>3, <1>8, FramingAssumption DEF FramingInv, KeptInv, Boundary
  <2>2. k - 1 = Len(read)
    <3>1. End[k - 1] <= End[Len(read)] /\ End[Len(read)] <= End[k - 1]
      BY <1>2, <2>1, FramingAssumption
    <3>2. k - 1 <= Len(read) /\ Len(read) <= k - 1
      BY <1>2, <2>1, <3>1, EndsInOrder
    <3> QED BY <1>2, <1>3, <3>2
  <2>3. k = Len(read) + 1 /\ Len(read') = k /\ k <= N
    BY <1>2, <1>3, <2>2
  <2>4. \A i \in 1..Len(read') : read'[i] = i
    BY <1>3, <2>1, <2>3
  <2>5. taken' = Boundary'
    BY <2>3 DEF Boundary
  <2> QED BY <1>1, <2>3, <2>4, <2>5 DEF KeptInv, Reading
<1> QED BY <1>1, <1>4, <1>7, <1>8 DEF FramingInv, NoFramingError, Reading

\* A header that is complete is that of a message, or a read was cancelled
\* inside one.
LEMMA WakeHeaderInv == FramingInv /\ WakeHeader => FramingInv'
<1> SUFFICES ASSUME FramingInv, WakeHeader PROVE FramingInv'
  OBVIOUS
<1>1. /\ stage = "header" /\ stage \in Reading /\ woken > 0 /\ first' = first
      /\ offset + woken = Number /\ offset' = 0 /\ woken' = 0 /\ torn' = torn
      /\ arrived' = arrived /\ fin' = fin /\ taken' = taken
  BY DEF WakeHeader, Full
<1>2. /\ taken = first + HeaderLen /\ HeaderLen \in Nat /\ HeaderLen > 0
      /\ first \in Nat /\ taken \in Nat /\ taken <= End[N] /\ N \in Nat
  <2>1. taken = first + 0 + offset + woken
    BY <1>1 DEF FramingInv, ReadInv, InMessage
  <2>2. offset + woken = HeaderLen /\ offset \in Nat /\ woken \in Nat
    BY <1>1, NumberIs DEF FramingInv, FramingTypeOK
  <2>3. /\ first \in Nat /\ taken \in Nat /\ arrived \in Nat /\ taken <= arrived
        /\ arrived <= End[N] /\ End[N] \in Nat /\ N \in Nat
        /\ HeaderLen \in Nat /\ HeaderLen > 0
    BY Bounds DEF FramingInv
  <2> QED BY <2>1, <2>2, <2>3
<1>3. CASE Starting = {} /\ stage' = "refused" /\ read' = read
  <2>1. torn
    <3> SUFFICES ASSUME ~torn PROVE FALSE
      OBVIOUS
    <3>1. Len(read) \in 0..N /\ first = End[Len(read)]
      BY <1>1, <1>2 DEF FramingInv, KeptInv, Boundary, FramingTypeOK
    <3>2. Len(read) # N
      BY <1>2, <3>1
    <3>3. Len(read) + 1 \in Starting
      BY <1>2, <3>1, <3>2 DEF Starting
    <3> QED BY <1>3, <3>3
  <2>2. FramingTypeOK'
    BY <1>1, <1>2, <1>3 DEF FramingInv, FramingTypeOK, Stage
  <2>3. OrderInv'
    BY <1>1, <1>3 DEF FramingInv, OrderInv, Reading
  <2> QED BY <1>1, <1>3, <2>1, <2>2, <2>3 DEF FramingInv, NoFramingError, Reading
<1>4. ASSUME NEW k \in Starting, BodyLen(k) = 0, Deliver(k)
      PROVE  FramingInv'
  <2>1. taken = End[k]
    BY <1>2, <1>4, StartingIs
  <2> QED BY <1>1, <1>4, <2>1, GivenInv
<1>5. ASSUME NEW k \in Starting, stage' = "body", read' = read
      PROVE  FramingInv'
  <2>1. FramingTypeOK'
    BY <1>1, <1>5 DEF FramingInv, FramingTypeOK, Stage, Reading
  <2>2. BodyLen(k) \in Nat
    BY StartingIs
  <2>3. ReadInv'
    <3>1. InMessage' = HeaderLen /\ Starting' = Starting
      BY <1>1, <1>5 DEF InMessage, Starting
    <3>2. taken' = (first + InMessage + offset + woken)'
      BY <1>1, <1>2, <3>1
    <3>3. (offset + woken)' <= BodyLen(k)
      BY <1>1, <2>2
    <3>4. \E j \in Starting' : (offset + woken)' <= BodyLen(j)
      BY <1>5, <3>1, <3>3
    <3> QED BY <1>5, <3>2, <3>4 DEF ReadInv, BodyLen
  <2>4. OrderInv'
    BY <1>1, <1>5 DEF FramingInv, OrderInv
  <2>5. ~torn' => KeptInv'
    BY <1>1, <1>5 DEF FramingInv, KeptInv, Boundary
  <2> QED BY <1>5, <2>1, <2>3, <2>4, <2>5 DEF FramingInv, NoFramingError, Reading
<1> QED BY <1>3, <1>4, <1>5 DEF WakeHeader

\* A body that is complete ends its message.
LEMMA WakeBodyInv == FramingInv /\ WakeBody => FramingInv'
<1> SUFFICES ASSUME FramingInv, WakeBody PROVE FramingInv'
  OBVIOUS
<1>1. /\ stage = "body" /\ stage \in Reading /\ offset + woken = Number
      /\ offset' = 0 /\ woken' = 0 /\ UNCHANGED <<arrived, fin, taken, first, torn>>
  BY DEF WakeBody, Full
<1>2. PICK k \in Starting : Deliver(k)
  BY DEF WakeBody
<1>3. taken = End[k]
  <2>1. taken = first + HeaderLen + offset + woken
    BY <1>1 DEF FramingInv, ReadInv, InMessage
  <2>2. offset + woken = BodyLen(k)
    BY <1>1, NumberIs
  <2>3. /\ first \in Nat /\ HeaderLen \in Nat /\ offset \in Nat /\ woken \in Nat
        /\ BodyLen(k) \in Nat /\ End[k] = first + HeaderLen + BodyLen(k)
    BY StartingIs, FramingAssumption DEF FramingInv, FramingTypeOK
  <2> QED BY <2>1, <2>2, <2>3
<1> QED BY <1>1, <1>2, <1>3, GivenInv

\* A read cancelled with nothing taken leaves no trace; with something taken it
\* is what torn remembers.
LEMMA TimeoutInv == FramingInv /\ Timeout => FramingInv'
<1> SUFFICES ASSUME FramingInv, Timeout PROVE FramingInv'
  OBVIOUS
<1>1. /\ stage \in Reading /\ stage' = "away" /\ offset' = 0 /\ woken' = 0
      /\ torn' = (torn \/ taken # first)
      /\ UNCHANGED <<arrived, fin, taken, first, read>>
  BY DEF Timeout, Tear
<1>2. FramingTypeOK'
  BY <1>1 DEF FramingInv, FramingTypeOK, Stage
<1>3. OrderInv'
  BY <1>1 DEF FramingInv, OrderInv, Reading
<1>4. ~torn' => KeptInv'
  BY <1>1 DEF FramingInv, KeptInv, Boundary, Reading
<1> QED BY <1>1, <1>2, <1>3, <1>4 DEF FramingInv, NoFramingError, Reading

LEMMA ArriveInv == FramingInv /\ Arrive => FramingInv'
<1> SUFFICES ASSUME FramingInv, Arrive PROVE FramingInv'
  OBVIOUS
<1>1. /\ arrived' \in arrived + 1 .. End[N]
      /\ UNCHANGED <<fin, taken, stage, first, offset, woken, read, torn>>
  BY DEF Arrive
<1>2. FramingTypeOK'
  <2>1. arrived \in Nat /\ taken \in 0..arrived /\ End[N] \in Nat
    BY Bounds DEF FramingInv, FramingTypeOK
  <2>2. arrived' \in 0..End[N] /\ taken' \in 0..arrived'
    BY <1>1, <2>1
  <2> QED BY <1>1, <2>2 DEF FramingInv, FramingTypeOK
<1> QED BY <1>1, <1>2 DEF FramingInv, NoFramingError, OrderInv, ReadInv, KeptInv, Boundary,
                          InMessage, Starting, BodyLen

LEMMA CallInv == FramingInv /\ Call => FramingInv'
<1> SUFFICES ASSUME FramingInv, Call PROVE FramingInv'
  OBVIOUS
<1>1. /\ stage = "away" /\ stage' = "header" /\ first' = taken /\ offset' = 0 /\ woken = 0
      /\ UNCHANGED <<arrived, fin, taken, woken, read, torn>>
  BY DEF Call, FramingInv
<1>2. taken \in Nat /\ HeaderLen \in Nat
  BY Bounds DEF FramingInv
<1>3. FramingTypeOK'
  BY <1>1, <1>2 DEF FramingInv, FramingTypeOK, Stage, Reading
<1>4. ReadInv'
  BY <1>1, <1>2 DEF ReadInv, InMessage
<1>5. OrderInv' /\ (~torn' => KeptInv')
  BY <1>1 DEF FramingInv, OrderInv, KeptInv, Boundary, Reading
<1> QED BY <1>1, <1>3, <1>4, <1>5 DEF FramingInv, NoFramingError

LEMMA WakeShortInv == FramingInv /\ WakeShort => FramingInv'
<1> SUFFICES ASSUME FramingInv, WakeShort PROVE FramingInv'
  OBVIOUS
<1>1. /\ stage \in Reading /\ offset' = offset + woken /\ woken' = 0
      /\ offset + woken < Number
      /\ UNCHANGED <<arrived, fin, taken, stage, first, read, torn>>
  BY DEF WakeShort
<1>2. offset \in Nat /\ woken \in Nat /\ first \in Nat /\ InMessage \in Nat
  BY FramingAssumption, Bounds DEF FramingInv, FramingTypeOK, InMessage
<1>3. FramingTypeOK'
  BY <1>1, <1>2 DEF FramingInv, FramingTypeOK
<1>4. ReadInv'
  <2>1. InMessage' = InMessage /\ Starting' = Starting /\ ReadInv
    BY <1>1 DEF InMessage, Starting, FramingInv
  <2>2. (offset + woken)' = offset + woken
    BY <1>1, <1>2
  <2>3. taken' = (first + InMessage + offset + woken)'
    BY <1>1, <1>2, <2>1 DEF ReadInv
  <2> QED BY <1>1, <2>1, <2>2, <2>3 DEF ReadInv, BodyLen
<1>5. OrderInv' /\ (~torn' => KeptInv')
  BY <1>1 DEF FramingInv, OrderInv, KeptInv, Boundary
<1> QED BY <1>1, <1>3, <1>4, <1>5 DEF FramingInv, NoFramingError, Reading

\* A session that ends, or a step that is not the reader's, leaves it as it was.
LEMMA EndedInv ==
    ASSUME FramingInv, stage' = "lost", UNCHANGED readVars, torn' \in BOOLEAN, torn => torn'
    PROVE  FramingInv'
<1>1. FramingTypeOK' /\ OrderInv'
  BY DEF FramingInv, FramingTypeOK, OrderInv, Stage, Reading, readVars
<1>2. ~torn' => KeptInv'
  BY DEF FramingInv, KeptInv, Reading, readVars
<1> QED BY <1>1, <1>2 DEF FramingInv, NoFramingError, Reading

LEMMA SameInv ==
    ASSUME FramingInv, UNCHANGED <<taken, stage, first, offset, woken, read, torn>>,
           arrived' = arrived, fin' \in BOOLEAN
    PROVE  FramingInv'
BY DEF FramingInv, FramingTypeOK, NoFramingError, OrderInv, KeptInv, ReadInv, Boundary,
       InMessage, Starting, BodyLen

LEMMA StepInv == FramingInv /\ [FramingNext]_framingVars => FramingInv'
<1> SUFFICES ASSUME FramingInv, [FramingNext]_framingVars PROVE FramingInv'
  OBVIOUS
<1>1. CASE RemoteClose
  BY <1>1, SameInv DEF RemoteClose
<1>2. CASE RecvNothing
  BY <1>2, EndedInv DEF RecvNothing, readVars, FramingInv, FramingTypeOK
<1>3. CASE UNCHANGED framingVars
  BY <1>3, SameInv DEF framingVars, readVars, FramingInv, FramingTypeOK
<1> QED
  BY <1>1, <1>2, <1>3, ArriveInv, CallInv, RecvInv, WakeShortInv, WakeHeaderInv, WakeBodyInv,
     TimeoutInv
  DEF FramingNext, Read

---------------------------------------------------------------------------

\* Every step keeps the invariant.
LEMMA AlwaysInv == FramingSpec => []FramingInv
<1>1. FramingInv /\ [FramingNext]_framingVars => FramingInv'
  BY StepInv
<1> QED BY InitInv, <1>1, PTL DEF FramingSpec

\* Every variable of the connection and of the read under way keeps its type,
\* wherever the octets are cut and the read is cancelled.
THEOREM FramingTypeCorrect == FramingSpec => []FramingTypeOK
<1>1. FramingInv => FramingTypeOK
  BY DEF FramingInv
<1> QED BY AlwaysInv, <1>1, PTL

\* A remote speaker that frames its messages well is sent a framing error only
\* after a read was cancelled inside a message, whatever the lengths of the
\* messages and the segments they come in.
THEOREM FramingCorrect == FramingSpec => []NoFramingError
<1>1. FramingInv => NoFramingError
  BY DEF FramingInv
<1> QED BY AlwaysInv, <1>1, PTL

\* No octet is lost but by a read cancelled inside a message.
THEOREM OctetsKept == FramingSpec => []NothingDropped
<1>1. FramingInv => NothingDropped
  <2> SUFFICES ASSUME FramingInv, ~torn, stage # "lost"
               PROVE  taken = End[Len(read)] + (IF stage \in Reading
                          THEN offset + woken + (IF stage = "body" THEN HeaderLen ELSE 0)
                          ELSE 0)
    BY DEF NothingDropped
  <2>1. Len(read) \in 0..N /\ End[Len(read)] \in Nat /\ offset \in Nat /\ woken \in Nat
        /\ HeaderLen \in Nat
    BY FramingAssumption DEF FramingInv, FramingTypeOK, KeptInv
  <2>2. CASE stage \in Reading
    BY <2>1, <2>2 DEF FramingInv, ReadInv, KeptInv, Boundary, InMessage
  <2>3. CASE stage \notin Reading
    <3>1. stage = "away"
      BY <2>3 DEF FramingInv, FramingTypeOK, Stage, NoFramingError
    <3> QED BY <2>1, <2>3, <3>1 DEF FramingInv, KeptInv, Boundary
  <2> QED BY <2>2, <2>3
<1> QED BY AlwaysInv, <1>1, PTL

\* What a read gives is a later message of the channel.
LEMMA GivesLater ==
    ASSUME FramingInv, FramingInv', stage \in Reading, NEW k \in 1..N, Deliver(k),
           arrived' = arrived, torn' = torn
    PROVE  Transport!Receive
<1>1. /\ read' = Append(read, k) /\ stage' = "away" /\ read \in Seq(1..N)
      /\ taken' \in Nat /\ arrived' \in Nat /\ taken' <= arrived'
  BY Bounds DEF Deliver, FramingInv, FramingTypeOK
<1>2. /\ Len(read) \in Nat /\ Len(read') = Len(read) + 1 /\ read'[Len(read) + 1] = k
      /\ \A i \in 1..Len(read) : read'[i] = read[i]
  BY <1>1
<1>3. \A i \in 1..Len(read) : read[i] < k
  <2> SUFFICES ASSUME NEW i \in 1..Len(read) PROVE read[i] < k
    OBVIOUS
  <2>1. i \in 1..Len(read') /\ Len(read') \in 1..Len(read') /\ i < Len(read')
    BY <1>2
  <2>2. read'[i] < read'[Len(read')]
    BY <2>1 DEF FramingInv, OrderInv
  <2> QED BY <1>2, <2>2
<1>4. k \in Whole /\ Whole' = Whole
  <2>1. End[k] <= taken' /\ End[k] \in Nat
    BY <1>2, FramingAssumption DEF FramingInv, OrderInv
  <2> QED BY <1>1, <2>1 DEF Whole
<1>5. ~torn => k = Len(read) + 1
  <2>1. Len(read) + 1 \in 1..Len(read')
    BY <1>2
  <2> QED BY <1>2, <2>1 DEF FramingInv, KeptInv
<1>6. stage \notin {"lost", "refused"} /\ stage' \notin {"lost", "refused"}
  BY <1>1 DEF Reading
<1> QED BY <1>1, <1>3, <1>4, <1>5, <1>6 DEF Transport!Receive

\* The framing implements the channel: what arrived complete is what was sent,
\* what the task was given is what was received, and a read cancelled inside a
\* message is what cuts something out.
THEOREM FramingImplements == FramingSpec => Implements
<1>1. FramingInit => Transport!ChannelInit
  <2> SUFFICES ASSUME FramingInit PROVE Transport!ChannelInit
    OBVIOUS
  <2>1. Whole = {}
    <3> SUFFICES ASSUME NEW k \in 1..N PROVE ~(End[k] <= arrived)
      BY DEF Whole
    <3>1. End[k] \in Nat /\ End[k] >= HeaderLen /\ HeaderLen \in Nat /\ HeaderLen > 0
      BY FramingAssumption
    <3> QED BY <3>1 DEF FramingInit
  <2>2. stage \notin {"lost", "refused"} /\ torn = FALSE
    BY DEF FramingInit
  <2> QED BY <2>1, <2>2 DEF Transport!ChannelInit, FramingInit
<1>2. FramingInv /\ FramingInv' /\ [FramingNext]_framingVars
      => [Transport!ChannelNext]_Transport!channelVars
  <2> SUFFICES ASSUME FramingInv, FramingInv', [FramingNext]_framingVars
               PROVE  Transport!ChannelNext \/ UNCHANGED Transport!channelVars
    OBVIOUS
  <2> DEFINE lost == {"lost", "refused"}
  <2>1. CASE Arrive
    <3>1. arrived \in Nat /\ arrived' \in Nat /\ arrived <= arrived'
      BY <2>1, Bounds DEF Arrive, FramingInv
    <3>2. \A k \in 1..N : End[k] \in Nat
      BY FramingAssumption
    <3>3. \A k \in Whole : k \in Whole'
      BY <3>1, <3>2 DEF Whole
    <3>4. Whole' \in SUBSET (1..N) /\ Whole' = Whole \cup Whole'
      BY <3>3 DEF Whole
    <3>5. read' = read /\ stage' = stage /\ torn' = torn
      BY <2>1 DEF Arrive
    <3> QED BY <3>4, <3>5 DEF Transport!ChannelNext, Transport!Transmit
  <2>2. ASSUME arrived' = arrived, read' = read, stage' \in lost, torn' = torn
        PROVE  Transport!Lose
    <3>1. (stage' \notin lost) = FALSE /\ Whole' = Whole /\ (~torn') = (~torn)
      BY <2>2 DEF Whole
    <3> QED BY <2>2, <3>1 DEF Transport!Lose
  <2>3. ASSUME arrived' = arrived, read' = read, stage \notin lost, stage' \notin lost,
               torn' = torn
        PROVE  UNCHANGED Transport!channelVars
    <3>1. Whole' = Whole
      BY <2>3 DEF Whole
    <3> QED BY <2>3, <3>1 DEF Transport!channelVars
  <2>4. CASE WakeHeader
    <3>1. stage = "header" /\ arrived' = arrived /\ torn' = torn
      BY <2>4 DEF WakeHeader, Full
    <3>2. CASE stage' = "refused" /\ read' = read
      BY <2>2, <3>1, <3>2 DEF Transport!ChannelNext
    <3>3. CASE stage' = "body" /\ read' = read
      BY <2>3, <3>1, <3>3
    <3>4. CASE \E k \in Starting : Deliver(k)
      BY <3>1, <3>4, GivesLater DEF Starting, Reading, Transport!ChannelNext
    <3> QED BY <2>4, <3>2, <3>3, <3>4 DEF WakeHeader
  <2>5. CASE WakeBody
    BY <2>5, GivesLater DEF WakeBody, Full, Starting, Transport!ChannelNext
  <2>6. CASE RemoteClose \/ UNCHANGED framingVars
    <3>1. arrived' = arrived /\ read' = read /\ stage' = stage /\ torn' = torn
      BY <2>6 DEF RemoteClose, framingVars, readVars
    <3>2. Whole' = Whole
      BY <3>1 DEF Whole
    <3> QED BY <3>1, <3>2 DEF Transport!channelVars
  <2>7. CASE Call \/ Recv \/ WakeShort
    BY <2>7, <2>3 DEF Call, Recv, WakeShort, Reading
  <2>8. CASE RecvNothing
    BY <2>8, <2>2 DEF RecvNothing, Transport!ChannelNext
  <2>9. CASE Timeout
    <3>1. /\ arrived' = arrived /\ read' = read /\ stage \notin lost /\ stage' \notin lost
          /\ torn' = (torn \/ taken # first)
      BY <2>9 DEF Timeout, Tear, Reading
    <3>2. CASE torn' = torn
      BY <2>3, <3>1, <3>2
    <3>3. CASE torn'
      <4>1. Whole' = Whole /\ (~torn') = FALSE
        BY <3>1, <3>3 DEF Whole
      <4> QED BY <3>1, <4>1 DEF Transport!ChannelNext, Transport!Cut
    <3> QED BY <3>1, <3>2, <3>3 DEF FramingInv, FramingTypeOK
  <2> QED
    BY <2>1, <2>4, <2>5, <2>6, <2>7, <2>8, <2>9 DEF FramingNext, Read
<1> QED BY <1>1, <1>2, AlwaysInv, PTL DEF FramingSpec, Implements, Transport!ChannelSpec

---------------------------------------------------------------------------
(* The timers.                                                             *)

LoopTypes ==
    /\ hold \in Holds
    /\ turn \in Turn
    /\ elapsed \in Nat /\ unsent \in Nat /\ silence \in Nat /\ waited \in Nat

\* Every message that arrived complete and counts has been read.
NoneLeft == \A k \in Counted : k <= Len(read)

\* The last message read has not renewed the timer yet.
ToRenew == turn = "check" /\ Last \notin Discards

\* What a timer of ours that ends the session means.
Why == torn \/ silence > hold \/ Hidden

\* last_read is no older than the last message that counts when none of those is
\* left to read.
SilenceInv ==
    /\ cause = "expired" => Over /\ Why
    /\ hold # 0 /\ ~Over /\ ~torn /\ NoneLeft /\ ~ToRenew => elapsed <= silence

CheckInv == turn = "check" => stage = "away" /\ Len(read) > 0

\* The timer of KEEPALIVEs restarts before one is written, and is looked at once
\* in every iteration.
WaitedInv ==
    hold # 0 /\ ~Over =>
        /\ turn # "keepalive" => waited <= unsent
        /\ turn \in {"read", "wait", "check", "routes"} => waited < KeepAlive
        /\ turn = "timer" => waited <= KeepAlive

LoopInv == FramingInv /\ LoopTypes /\ SilenceInv /\ CheckInv /\ WaitedInv

---------------------------------------------------------------------------

\* A hold time is none, or long enough for a KEEPALIVE every second.
LEMMA HoldIs ==
    ASSUME hold \in Holds
    PROVE  /\ hold \in Nat
           /\ KeepAlive \in Nat
           /\ hold # 0 => KeepAlive >= 1
           /\ 3 * KeepAlive <= hold
<1>1. hold \in Nat /\ hold \notin {1, 2}
  BY MainLoopAssumption
<1> QED BY <1>1 DEF KeepAlive

LEMMA OlderIs ==
    ASSUME hold \in Nat, NEW a \in Nat, NEW b \in Nat, a <= b
    PROVE  /\ Older(a) \in Nat /\ Older(a) <= a + 1 /\ a <= Older(a)
           /\ Older(a) <= Older(b)
BY DEF Older

\* What arrives complete is added to what had.
LEMMA WholeGrows ==
    ASSUME FramingInv, Arrive
    PROVE  /\ \A k \in Whole : k \in Whole'
           /\ \A k \in Counted : k \in Counted'
           /\ read' = read
<1>1. arrived \in Nat /\ arrived' \in Nat /\ arrived <= arrived' /\ read' = read
  BY Bounds DEF Arrive, FramingInv
<1>2. \A k \in 1..N : End[k] \in Nat
  BY FramingAssumption
<1>3. \A k \in Whole : k \in Whole'
  BY <1>1, <1>2 DEF Whole
<1> QED BY <1>1, <1>3 DEF Counted

\* A message that arrives complete is one that has not been read.
LEMMA ArrivesUnread ==
    ASSUME FramingInv, ~torn, Arrive, Counted' # Counted
    PROVE  ~NoneLeft'
<1>1. PICK k \in Counted' : k \notin Counted
  BY WholeGrows
<1>2. k \in 1..N /\ k \notin Whole /\ N \in Nat /\ Len(read) \in Nat
  BY <1>1, FramingAssumption DEF Counted, Whole, FramingInv, FramingTypeOK
<1>3. ASSUME k <= Len(read) PROVE FALSE
  <2>1. k \in 1..Len(read) /\ read[k] = k
    BY <1>2, <1>3 DEF FramingInv, KeptInv
  <2>2. End[k] <= taken
    BY <2>1 DEF FramingInv, OrderInv
  <2>3. End[k] <= arrived
    BY <1>2, <2>2, Bounds, FramingAssumption DEF FramingInv
  <2> QED BY <1>2, <2>3 DEF Whole
<1> QED BY <1>1, <1>3, WholeGrows DEF NoneLeft

\* Nothing is left to read when a read waits that has taken nothing.
LEMMA QuietIs ==
    ASSUME FramingInv, Quiet, ~torn, taken = first
    PROVE  NoneLeft
<1>1. arrived = End[Len(read)]
  BY DEF Quiet, FramingInv, KeptInv, Boundary
<1>2. Len(read) \in 0..N
  BY FramingAssumption DEF FramingInv, FramingTypeOK, KeptInv
<1>3. ASSUME NEW k \in Whole PROVE k <= Len(read)
  <2>1. k \in 0..N /\ End[k] <= End[Len(read)]
    BY <1>1, FramingAssumption DEF Whole
  <2> QED BY <1>2, <2>1, EndsInOrder
<1> QED BY <1>3 DEF NoneLeft, Counted

\* What a step that leaves the reader alone keeps.
LEMMA SameLoop ==
    ASSUME FramingInv, UNCHANGED framingVars
    PROVE  /\ FramingInv' /\ (Over' <=> Over) /\ (NoneLeft' <=> NoneLeft)
           /\ (Hidden' <=> Hidden) /\ Last' = Last /\ read' = read /\ (torn' <=> torn)
<1>1. FramingInv'
  BY SameInv DEF framingVars, readVars, FramingInv, FramingTypeOK
<1> QED BY <1>1 DEF framingVars, readVars, Over, NoneLeft, Hidden, Last, Counted, Whole

---------------------------------------------------------------------------

LEMMA InitLoop == MainInit => LoopInv
<1> SUFFICES ASSUME MainInit PROVE LoopInv
  OBVIOUS
<1>1. FramingInv
  BY InitInv DEF MainInit
<1>2. LoopTypes
  BY DEF MainInit, LoopTypes, Turn
<1>3. SilenceInv
  BY DEF MainInit, SilenceInv
<1>4. CheckInv
  BY DEF MainInit, CheckInv
<1>5. WaitedInv
  BY HoldIs DEF MainInit, WaitedInv
<1> QED BY <1>1, <1>2, <1>3, <1>4, <1>5 DEF LoopInv

\* The network only touches the reader and the age of the last message.
LEMMA NetworkStep ==
    ASSUME LoopInv, Network
    PROVE  LoopInv'
<1>1. /\ Arrive \/ RemoteClose
      /\ hold' = hold /\ turn' = turn /\ cause' = cause /\ stage' = stage /\ read' = read
      /\ elapsed' = elapsed /\ unsent' = unsent /\ waited' = waited
      /\ torn' = torn
      /\ silence' = IF Over \/ Counted' = Counted THEN silence ELSE 0
  BY DEF Network, Arrive, RemoteClose
<1>2. FramingInv'
  BY <1>1, StepInv DEF LoopInv, FramingNext
<1>3. LoopTypes' /\ (Over' <=> Over)
  BY <1>1 DEF LoopInv, LoopTypes, Over
<1>4. WaitedInv'
  BY <1>1, <1>3 DEF LoopInv, WaitedInv, KeepAlive
<1>5. CheckInv'
  BY <1>1 DEF LoopInv, CheckInv
<1>6. /\ \A k \in Counted : k \in Counted'
      /\ RemoteClose => Counted' = Counted
  BY <1>1, WholeGrows DEF LoopInv, RemoteClose, Counted, Whole
<1>7. Hidden => Hidden'
  BY <1>1, <1>6 DEF Hidden, Last
<1>8. SilenceInv'
  <2>1. CASE Over
    <3>1. silence' = silence
      BY <1>1, <2>1
    <3> QED BY <1>1, <1>3, <1>7, <2>1, <3>1 DEF LoopInv, SilenceInv, Why
  <2>2. CASE ~Over /\ Counted' = Counted
    <3>1. silence' = silence
      BY <1>1, <2>2
    <3>2. NoneLeft' <=> NoneLeft
      BY <1>1, <2>2 DEF NoneLeft
    <3>3. ToRenew' <=> ToRenew
      BY <1>1 DEF ToRenew, Last
    <3> QED BY <1>1, <1>3, <2>2, <3>1, <3>2, <3>3 DEF LoopInv, SilenceInv
  <2>3. CASE ~Over /\ Counted' # Counted
    <3>1. torn \/ ~NoneLeft'
      BY <1>1, <1>6, <2>3, ArrivesUnread DEF LoopInv
    <3> QED BY <1>1, <1>3, <2>3, <3>1 DEF LoopInv, SilenceInv
  <2> QED BY <2>1, <2>2, <2>3
<1> QED BY <1>2, <1>3, <1>4, <1>5, <1>8 DEF LoopInv

\* Reading a message, up to its end or to that of the connection.
LEMMA ReadStep ==
    ASSUME LoopInv, ReadOn \/ ReadEnd
    PROVE  LoopInv'
<1>1. /\ turn \in {"read", "wait"} /\ stage \notin {"lost", "refused"} /\ arrived' = arrived
      /\ hold' = hold /\ cause' = cause /\ elapsed' = elapsed /\ torn' = torn
      /\ unsent' = unsent /\ waited' = waited /\ silence' = silence
      /\ \/ turn' \in {"read", "wait"} /\ read' = read
         \/ /\ turn' = "check" /\ stage' = "away"
            /\ \E k \in 1..N : read' = Append(read, k)
  <2>1. CASE ReadOn
    BY <2>1 DEF ReadOn, Call, Recv, RecvNothing, WakeShort, Reading, ages
  <2>2. CASE ReadEnd
    <3>1. /\ turn \in {"read", "wait"} /\ stage \in Reading /\ arrived' = arrived
          /\ hold' = hold /\ cause' = cause /\ elapsed' = elapsed /\ torn' = torn
          /\ unsent' = unsent /\ waited' = waited /\ silence' = silence
          /\ turn' = IF read' = read THEN "read" ELSE "check"
          /\ \/ read' = read
             \/ \E k \in 1..N : Deliver(k)
      BY <2>2 DEF ReadEnd, WakeHeader, WakeBody, Full, Starting, ages
    <3>2. CASE read' = read
      BY <3>1, <3>2 DEF Reading
    <3>3. CASE read' # read
      BY <3>1, <3>3 DEF Reading, Deliver
    <3> QED BY <3>2, <3>3
  <2> QED BY <2>1, <2>2
<1>2. FramingInv'
  BY StepInv DEF LoopInv, ReadOn, ReadEnd, FramingNext, Read
<1>3. LoopTypes'
  BY <1>1 DEF LoopInv, LoopTypes, Turn
<1>4. ~Over /\ read \in Seq(1..N)
  BY <1>1 DEF Over, LoopInv, FramingInv, FramingTypeOK
<1>5. WaitedInv'
  BY <1>1, <1>4 DEF LoopInv, WaitedInv, KeepAlive
<1>6. CheckInv'
  BY <1>1, <1>4 DEF CheckInv
<1>7. Counted' = Counted /\ cause' # "expired"
  BY <1>1, <1>4 DEF Counted, Whole, LoopInv, SilenceInv
<1>8. SilenceInv'
  <2>1. CASE turn' \in {"read", "wait"} /\ read' = read
    <3>1. NoneLeft' <=> NoneLeft
      BY <1>7, <2>1 DEF NoneLeft
    <3> QED BY <1>1, <1>4, <1>7, <2>1, <3>1 DEF LoopInv, SilenceInv, ToRenew
  <2>2. ASSUME NEW k \in 1..N, turn' = "check", read' = Append(read, k)
        PROVE  SilenceInv'
    <3>1. /\ Len(read) \in Nat /\ Len(read') = Len(read) + 1 /\ Last' = k
          /\ read'[Len(read')] = k /\ Len(read') \in 1..Len(read')
      BY <1>4, <2>2 DEF Last
    <3>2. ASSUME ~torn', NoneLeft', ~ToRenew' PROVE NoneLeft
      <4>1. k \in Discards
        BY <2>2, <3>1, <3>2 DEF ToRenew
      <4>2. k = Len(read) + 1
        BY <1>2, <3>1, <3>2 DEF FramingInv, KeptInv
      <4>3. \A j \in Counted : j <= Len(read) + 1 /\ j # k /\ j \in 1..N
        BY <1>7, <3>1, <3>2, <4>1 DEF NoneLeft, Counted, Whole
      <4>4. \A j \in 1..N : j <= Len(read) + 1 /\ j # Len(read) + 1 => j <= Len(read)
        BY <3>1, FramingAssumption
      <4> QED BY <4>2, <4>3, <4>4 DEF NoneLeft
    <3> QED BY <1>1, <1>4, <1>7, <3>2 DEF LoopInv, SilenceInv, ToRenew
  <2> QED BY <1>1, <2>1, <2>2
<1> QED BY <1>2, <1>3, <1>5, <1>6, <1>8 DEF LoopInv

\* The task goes to sleep.
LEMMA SleepStep ==
    ASSUME LoopInv, Sleep
    PROVE  LoopInv'
<1>1. /\ turn = "read" /\ turn' = "wait" /\ UNCHANGED framingVars
      /\ hold' = hold /\ cause' = cause /\ elapsed' = elapsed
      /\ unsent' = unsent /\ waited' = waited /\ silence' = silence
  BY DEF Sleep, ages
<1>2. /\ FramingInv' /\ (Over' <=> Over) /\ (NoneLeft' <=> NoneLeft)
      /\ (Hidden' <=> Hidden) /\ (torn' <=> torn)
  BY <1>1, SameLoop DEF LoopInv
<1>3. ~ToRenew /\ ~ToRenew'
  BY <1>1 DEF ToRenew
<1>4. LoopTypes' /\ CheckInv'
  BY <1>1 DEF LoopInv, LoopTypes, CheckInv, Turn
<1>5. WaitedInv'
  BY <1>1, <1>2 DEF LoopInv, WaitedInv, KeepAlive
<1>6. SilenceInv'
  BY <1>1, <1>2, <1>3 DEF LoopInv, SilenceInv, Why
<1> QED BY <1>2, <1>4, <1>5, <1>6 DEF LoopInv

\* The timer is looked at with a message: it was just renewed, or the message is
\* one that does not count.
LEMMA CheckStep ==
    ASSUME LoopInv, CheckMessage
    PROVE  LoopInv'
<1>1. /\ turn = "check" /\ turn' = "timer" /\ UNCHANGED readVars /\ torn' = torn
      /\ hold' = hold /\ unsent' = unsent /\ waited' = waited /\ silence' = silence
      /\ \/ stage' = stage /\ cause' = cause
         \/ stage' = "lost" /\ cause' = "unwanted"
         \/ stage' = "lost" /\ cause' = "expired" /\ Expired(elapsed')
      /\ \/ hold = 0 /\ elapsed' = elapsed /\ cause' \in {cause, "unwanted"}
         \/ Last \notin Discards /\ elapsed' = 0
         \/ Last \in Discards /\ elapsed' = elapsed
  BY DEF CheckMessage, CheckAge, Renewed
<1>2. stage = "away" /\ Len(read) > 0 /\ ~Over /\ cause # "expired"
  BY <1>1 DEF LoopInv, CheckInv, Over, SilenceInv
<1>3. /\ read' = read /\ arrived' = arrived /\ Last' = Last /\ (Hidden' <=> Hidden)
      /\ (NoneLeft' <=> NoneLeft)
  BY <1>1 DEF readVars, Last, Hidden, NoneLeft, Counted, Whole
<1>4. FramingInv'
  <2>1. CASE stage' = stage
    BY <1>1, <2>1, SameLoop DEF LoopInv, framingVars
  <2>2. CASE stage' = "lost"
    BY <1>1, <2>2, EndedInv DEF LoopInv, FramingInv, FramingTypeOK
  <2> QED BY <1>1, <2>1, <2>2
<1>5. LoopTypes' /\ CheckInv'
  BY <1>1 DEF LoopInv, LoopTypes, CheckInv, Turn
<1>6. KeepAlive \in Nat /\ waited \in Nat /\ hold \in Nat /\ elapsed \in Nat /\ silence \in Nat
  BY HoldIs DEF LoopInv, LoopTypes
<1>7. WaitedInv'
  BY <1>1, <1>2, <1>6 DEF LoopInv, WaitedInv, KeepAlive
<1>8. hold # 0 /\ ~torn /\ NoneLeft /\ Last \in Discards => elapsed <= silence
  BY <1>2 DEF LoopInv, SilenceInv, ToRenew
<1>9. SilenceInv'
  <2>1. ASSUME cause' = "expired" PROVE Over' /\ Why'
    <3>1. /\ stage' = "lost" /\ Expired(elapsed')
      BY <1>1, <1>2, <2>1
    <3>2. hold # 0 /\ elapsed' > hold
      BY <3>1 DEF Expired
    <3>3. Last \in Discards /\ elapsed' = elapsed
      BY <1>1, <1>6, <3>2
    <3>4. torn \/ silence > hold \/ ~NoneLeft
      BY <1>6, <1>8, <3>2, <3>3
    <3>5. \A k \in Counted : k \in Nat
      BY DEF Counted, Whole
    <3>6. ~NoneLeft => Hidden
      <4>1. Len(read) \in Nat /\ read # <<>>
        BY <1>2 DEF LoopInv, FramingInv, FramingTypeOK
      <4> QED BY <3>3, <3>5, <4>1 DEF NoneLeft, Hidden
    <3>7. Over'
      BY <3>1 DEF Over
    <3> QED BY <1>1, <1>3, <3>4, <3>6, <3>7 DEF Why
  <2>2. ASSUME hold' # 0, ~torn', NoneLeft' PROVE elapsed' <= silence'
    BY <1>1, <1>3, <1>6, <1>8, <2>2
  <2> QED BY <1>1, <2>1, <2>2 DEF SilenceInv
<1> QED BY <1>4, <1>5, <1>7, <1>9 DEF LoopInv

\* Whatever time a read waits for nothing, both ages grow alike.
LEMMA IdleStep ==
    ASSUME LoopInv, NEW second \in BOOLEAN, Idle(second)
    PROVE  LoopInv'
<1>1. /\ turn = "wait" /\ turn' = "timer" /\ hold' = hold /\ Quiet /\ Wait(second)
      /\ torn' = (torn \/ taken # first)
      /\ \/ stage' = "lost" /\ cause' = "expired" /\ Expired(elapsed') /\ UNCHANGED readVars
         \/ Timeout /\ cause' = cause
  BY DEF Idle, Quiet, Timeout, Tear
<1>2. hold \in Nat /\ elapsed \in Nat /\ unsent \in Nat /\ silence \in Nat /\ waited \in Nat
  BY HoldIs DEF LoopInv, LoopTypes
<1>3. ~Over /\ (~torn' => ~torn /\ NoneLeft)
  <2>1. ~Over
    BY <1>1 DEF Quiet, Reading, Over
  <2>2. ASSUME ~torn' PROVE ~torn /\ taken = first
    BY <1>1, <2>2
  <2> QED BY <1>1, <2>1, <2>2, QuietIs DEF LoopInv
<1>4. FramingInv'
  <2>1. CASE stage' = "lost" /\ UNCHANGED readVars
    BY <1>1, <2>1, EndedInv DEF LoopInv
  <2>2. CASE Timeout
    BY <2>2, TimeoutInv DEF LoopInv
  <2> QED BY <1>1, <2>1, <2>2
<1>5. /\ elapsed' \in Nat /\ unsent' \in Nat /\ silence' \in Nat /\ waited' \in Nat
      /\ silence <= silence' /\ waited' <= waited + 1
      /\ elapsed <= silence => elapsed' <= silence'
      /\ waited <= unsent => waited' <= unsent'
  BY <1>1, <1>2, OlderIs DEF Wait, Renewed
<1>6. LoopTypes' /\ CheckInv'
  BY <1>1, <1>5 DEF LoopInv, LoopTypes, CheckInv, Turn
<1>7. WaitedInv'
  <2>1. KeepAlive' = KeepAlive /\ KeepAlive \in Nat
    BY <1>1, HoldIs DEF KeepAlive, LoopInv, LoopTypes
  <2>2. hold # 0 => waited <= unsent /\ waited < KeepAlive
    BY <1>1, <1>3 DEF LoopInv, WaitedInv
  <2>3. hold # 0 => waited' <= unsent' /\ waited' <= KeepAlive
    BY <1>2, <1>5, <2>1, <2>2
  <2> QED BY <1>1, <2>1, <2>3 DEF WaitedInv
<1>8. SilenceInv'
  <2>1. hold # 0 /\ ~torn' => elapsed' <= silence'
    BY <1>1, <1>3, <1>5 DEF LoopInv, SilenceInv, ToRenew
  <2>2. cause # "expired"
    BY <1>3 DEF LoopInv, SilenceInv
  <2>3. cause' = "expired" => stage' = "lost" /\ Expired(elapsed')
    BY <1>1, <2>2
  <2>4. Expired(elapsed') => torn' \/ silence' > hold
    BY <1>2, <1>5, <2>1 DEF Expired
  <2> QED BY <1>1, <2>1, <2>3, <2>4 DEF SilenceInv, Over, Why
<1> QED BY <1>4, <1>6, <1>7, <1>8 DEF LoopInv

\* The writing half leaves the reader alone, or ends the session.
LEMMA WriteStep ==
    ASSUME LoopInv, SendIfNeeded \/ Routes \/ Written \/ Blocked \/ StopOrGo
    PROVE  LoopInv'
<1>1. UNCHANGED framingVars /\ hold' = hold /\ cause' = cause
  BY DEF SendIfNeeded, Routes, Written, Blocked, StopOrGo
<1>2. /\ FramingInv' /\ (Over' <=> Over) /\ (NoneLeft' <=> NoneLeft)
      /\ (Hidden' <=> Hidden) /\ Last' = Last /\ read' = read /\ (torn' <=> torn)
      /\ stage' = stage
  BY <1>1, SameLoop DEF LoopInv, framingVars
<1>3. /\ hold \in Nat /\ elapsed \in Nat /\ unsent \in Nat /\ silence \in Nat /\ waited \in Nat
      /\ KeepAlive \in Nat /\ KeepAlive' = KeepAlive /\ (hold # 0 => KeepAlive >= 1)
  BY <1>1, HoldIs DEF LoopInv, LoopTypes, KeepAlive
<1>4. CASE SendIfNeeded
  <2>1. /\ turn = "timer" /\ elapsed' = elapsed /\ silence' = silence /\ waited' = waited
        /\ \/ turn' = "keepalive" /\ unsent' = 0
           \/ turn' = "routes" /\ unsent' = unsent /\ ~NeedKeepAlive
    BY <1>4 DEF SendIfNeeded
  <2>2. LoopTypes' /\ CheckInv'
    BY <1>1, <1>3, <2>1 DEF LoopInv, LoopTypes, CheckInv, Turn
  <2>3. SilenceInv'
    BY <1>1, <1>2, <2>1 DEF LoopInv, SilenceInv, ToRenew, Why
  <2>4. WaitedInv'
    BY <1>1, <1>2, <1>3, <2>1 DEF LoopInv, WaitedInv, NeedKeepAlive
  <2> QED BY <1>2, <2>2, <2>3, <2>4 DEF LoopInv
<1>5. CASE Routes
  <2>1. /\ turn = "routes" /\ turn' \in {"update", "read"} /\ elapsed' = elapsed
        /\ silence' = silence /\ waited' = waited /\ unsent' = unsent
    BY <1>5 DEF Routes, ages
  <2> QED BY <1>1, <1>2, <1>3, <2>1 DEF LoopInv, LoopTypes, Turn, SilenceInv, CheckInv, ToRenew, Why, WaitedInv
<1>6. CASE Written
  <2>1. /\ turn \in Writing /\ turn' \in {"routes", "read"} /\ elapsed' = elapsed
        /\ silence' = silence /\ waited' = 0 /\ unsent' = unsent
    BY <1>6 DEF Written
  <2> QED BY <1>1, <1>2, <1>3, <2>1 DEF LoopInv, LoopTypes, Turn, SilenceInv, CheckInv, ToRenew, Why, WaitedInv, Writing
<1>7. CASE Blocked
  <2>1. /\ turn \in Writing /\ turn' = turn /\ ~Over
        /\ elapsed' = Older(elapsed) /\ silence' = Older(silence)
        /\ waited' = Older(waited) /\ unsent' = Older(unsent)
    BY <1>7 DEF Blocked
  <2>2. /\ elapsed' \in Nat /\ silence' \in Nat /\ waited' \in Nat /\ unsent' \in Nat
        /\ elapsed <= silence => elapsed' <= silence'
        /\ waited <= unsent => waited' <= unsent'
    BY <1>3, <2>1, OlderIs
  <2>3. LoopTypes' /\ CheckInv'
    BY <1>1, <1>2, <2>1, <2>2 DEF LoopInv, LoopTypes, CheckInv, Writing
  <2>4. SilenceInv'
    BY <1>1, <1>2, <2>1, <2>2 DEF LoopInv, SilenceInv, ToRenew, Why, Writing
  <2>5. WaitedInv'
    BY <1>1, <1>2, <2>1, <2>2 DEF LoopInv, WaitedInv, Writing
  <2> QED BY <1>2, <2>3, <2>4, <2>5 DEF LoopInv
<1>8. CASE StopOrGo
  <2>1. /\ turn' = turn /\ elapsed' = elapsed /\ silence' = silence
        /\ waited' = waited /\ unsent' = unsent
    BY <1>8 DEF StopOrGo, ages
  <2> QED BY <1>1, <1>2, <1>3, <2>1 DEF LoopInv, LoopTypes, SilenceInv, CheckInv, ToRenew, Why, WaitedInv
<1> QED BY <1>4, <1>5, <1>6, <1>7, <1>8

LEMMA FailStep ==
    ASSUME LoopInv, WriteFails
    PROVE  LoopInv'
<1>1. /\ stage' = "lost" /\ turn' = turn /\ hold' = hold /\ cause' = cause /\ ~Over
      /\ elapsed' = elapsed /\ unsent' = unsent /\ silence' = silence /\ waited' = waited
      /\ turn \in Writing /\ UNCHANGED readVars /\ torn' = torn
  BY DEF WriteFails, loopVars, ages
<1>2. Over' /\ CheckInv'
  BY <1>1 DEF Over, CheckInv, Writing
<1>3. FramingInv'
  BY <1>1, EndedInv DEF LoopInv, FramingInv, FramingTypeOK
<1> QED BY <1>1, <1>2, <1>3 DEF LoopInv, LoopTypes, SilenceInv, WaitedInv

LEMMA LoopStep == LoopInv /\ [MainNext]_mainVars => LoopInv'
<1> SUFFICES ASSUME LoopInv, [MainNext]_mainVars PROVE LoopInv'
  OBVIOUS
<1>1. CASE UNCHANGED mainVars
  <2>1. /\ UNCHANGED framingVars /\ hold' = hold /\ turn' = turn /\ cause' = cause
        /\ elapsed' = elapsed /\ unsent' = unsent /\ silence' = silence /\ waited' = waited
    BY <1>1 DEF mainVars, loopVars, ages
  <2>2. /\ FramingInv' /\ (Over' <=> Over) /\ (NoneLeft' <=> NoneLeft)
        /\ (Hidden' <=> Hidden) /\ Last' = Last /\ read' = read /\ (torn' <=> torn)
        /\ stage' = stage
    BY <2>1, SameLoop DEF LoopInv, framingVars
  <2>3. KeepAlive' = KeepAlive
    BY <2>1 DEF KeepAlive
  <2> QED BY <2>1, <2>2, <2>3
          DEF LoopInv, LoopTypes, SilenceInv, CheckInv, ToRenew, Why, WaitedInv
<1> QED
  BY <1>1, NetworkStep, ReadStep, SleepStep, CheckStep, IdleStep, WriteStep, FailStep
  DEF MainNext, Task

LEMMA AlwaysLoop == MainSpec => []LoopInv
<1>1. LoopInv /\ [MainNext]_mainVars => LoopInv'
  BY LoopStep
<1> QED BY InitLoop, <1>1, PTL DEF MainSpec

\* Our hold timer ends a session only when no message that counts arrived for a
\* hold time, or when a read was cancelled inside a message, or when such a message
\* waits behind a discarded UPDATE; whatever the hold time, the messages and the
\* time writes are blocked.
THEOREM HoldTimeKept == MainSpec => []NotExpired
<1>1. LoopInv => NotExpired
  BY DEF LoopInv, SilenceInv, Why, NotExpired
<1> QED BY AlwaysLoop, <1>1, PTL

\* The remote speaker hears from us within a third of the hold time, unless it
\* does not read.
THEOREM KeepAliveKept == MainSpec => []KeepsAlive
<1>1. LoopInv => KeepsAlive
  <2> SUFFICES ASSUME LoopInv, ~Over, hold # 0, turn \notin Writing
               PROVE  3 * waited <= hold
    BY DEF KeepsAlive
  <2>1. /\ hold \in Nat /\ KeepAlive \in Nat /\ waited \in Nat /\ 3 * KeepAlive <= hold
    BY HoldIs DEF LoopInv, LoopTypes
  <2>2. waited <= KeepAlive
    BY <2>1 DEF LoopInv, LoopTypes, Turn, Writing, WaitedInv
  <2> QED BY <2>1, <2>2
<1> QED BY AlwaysLoop, <1>1, PTL
=============================================================================
