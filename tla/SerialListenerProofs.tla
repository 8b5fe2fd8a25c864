------------------------ MODULE SerialListenerProofs ------------------------
(***************************************************************************)
(* Theorems about SerialListener, for every layout of head and tail, every *)
(* stream of frames and everything the line may lose or garble.            *)
(***************************************************************************)
EXTENDS SerialListener, TLAPS

LineInv == line \in Lines

(* What is still to be scanned comes after all that was delivered.  Bytes  *)
(* already passed by the loop matter again once they stay in rxBuffer.     *)
Ahead ==
  \A a \in 1 .. Len(delivered), k \in base + 1 .. Len(line) :
    /\ pc = "read" \/ k > base + i \/ k > base + eraseSize
    /\ line[k] # Noise
    => delivered[a] < line[k]

(* A handled frame that is complete in rxBuffer.                           *)
Due(k) == Whole(k) /\ line[k] \in Handled /\ k + SizeAt(line[k]) - 1 <= read

(* The loop leaves no complete frame behind.                               *)
PassedDelivered ==
  pc = "scan" => \A k \in base + 1 .. base + i : Due(k) => IsDelivered(line[k])

(* An incomplete frame found is within a frame's length of the end of what *)
(* is kept; without one the loop marks every byte it passes.               *)
EraseKeepsUp ==
  pc = "scan" =>
    IF okHeadFound THEN \E b \in DOMAIN HeadLen : RxSize - eraseSize < SizeAt(b)
    ELSE eraseSize >= i

(* A frame that is not yet complete in rxBuffer.                           *)
Arrival(k) == Whole(k) /\ k + SizeAt(line[k]) - 1 > read

(* okHeadFound stands for a place with a head and no end of its frame.     *)
HeadFound ==
  pc = "scan" /\ okHeadFound =>
    \E h \in base + 1 .. base + i :
      /\ line[h] \in DOMAIN HeadLen
      /\ h + HeadChecked - 1 <= read
      /\ Untouched(h, HeadChecked)
      /\ h + SizeAt(line[h]) - 1 > read

(* A frame that is arriving is not marked for erasing, except between a    *)
(* delivery and the next byte, unless a broken head came before it.        *)
ArrivalKept ==
  pc = "scan" =>
    \A k \in base + 1 .. read :
      Arrival(k) =>
        \/ BrokenHeadBefore(k)
        \/ k > base + eraseSize
        \/ /\ ~okHeadFound /\ i > 0 /\ k > base + i
           /\ Whole(base + i) /\ base + i + SizeAt(line[base + i]) - 1 <= read

(* Of the frames whose first byte was erased none is forgotten.            *)
ErasedAccounted ==
  \A k \in 1 .. base :
    Whole(k) /\ line[k] \in Handled
      => IsDelivered(line[k]) \/ BrokenHeadBefore(k)

(* Between scans no frame is complete in rxBuffer and undelivered.         *)
NoneWaiting ==
  pc = "read" => \A k \in base + 1 .. read : Due(k) => IsDelivered(line[k])

-----------------------------------------------------------------------------
(* A head with its tail around it is longer than the two alone.            *)
LEMMA SizeAtBounds ==
  /\ \A b \in DOMAIN HeadLen : SizeAt(b) \in Nat /\ SizeAt(b) >= HeadSize + TailSize
  /\ \A f \in Frames : f \in Nat \ {0} /\ SizeAt(f) > HeadSize + TailSize
BY SizesAssumption, StreamAssumption DEF SizeAt

(* The line is what it was at the start.                                   *)
LEMMA LineNeverChanges == Spec => []LineInv
<1>1. Init => LineInv
  BY DEF Init, LineInv
<1>2. LineInv /\ [Next]_vars => LineInv'
  BY DEF LineInv, Next, vars, ReadBytes, ScanBadHead, ScanIncomplete,
         ScanBadTail, SkipByte, ScanFrame, ScanEnd
<1> QED BY <1>1, <1>2, PTL DEF Spec

(* Every reachable state has its types; in particular no step of the loop  *)
(* looks at rxBuffer beyond its end or erases more than it holds.          *)
THEOREM TypeCorrect == Spec => []TypeOK
<1> USE SizesAssumption DEF RxSize
<1>1. Init => TypeOK
  <2> SUFFICES ASSUME Init PROVE TypeOK
    OBVIOUS
  <2>1. line \in Seq(0 .. StreamLen) /\ Len(line) \in Nat
    BY LinesAssumption DEF Init
  <2>2. <<>> \in Seq(Handled)
    OBVIOUS
  <2>3. okHeadFound \in BOOLEAN
    BY Zenon DEF Init
  <2> QED BY <2>1, <2>2, <2>3 DEF Init, TypeOK
<1>2. TypeOK /\ [Next]_vars => TypeOK'
  <2> SUFFICES ASSUME TypeOK, [Next]_vars PROVE TypeOK'
    OBVIOUS
  <2>len. Len(line) \in Nat
    BY DEF TypeOK
  <2>1. CASE ReadBytes
    <3>1. PICK n \in 1 .. MaxReadOnce : read + n <= Len(line) /\ read' = read + n
      BY <2>1 DEF ReadBytes
    <3>2. okHeadFound' \in BOOLEAN
      BY <2>1, Zenon DEF ReadBytes
    <3> QED BY <2>1, <2>len, <3>1, <3>2 DEF TypeOK, ReadBytes
  <2>2. CASE ScanBadHead
    BY <2>2, <2>len DEF TypeOK, ScanBadHead, ScanLoop, SkipByte
  <2>3. CASE ScanIncomplete
    BY <2>3, <2>len DEF TypeOK, ScanIncomplete, ScanLoop
  <2>4. CASE ScanBadTail
    BY <2>4, <2>len DEF TypeOK, ScanBadTail, ScanLoop, SkipByte
  <2>5. CASE ScanFrame
    <3>1. delivered' \in Seq(Handled)
      BY <2>5 DEF TypeOK, ScanFrame
    <3> QED BY <2>5, <3>1, <2>len DEF TypeOK, ScanFrame, ScanLoop
  <2>6. CASE ScanEnd
    BY <2>6, <2>len DEF TypeOK, ScanEnd
  <2>7. CASE UNCHANGED vars
    BY <2>7 DEF TypeOK, vars
  <2> QED BY <2>1, <2>2, <2>3, <2>4, <2>5, <2>6, <2>7 DEF Next
<1> QED BY <1>1, <1>2, PTL DEF Spec

-----------------------------------------------------------------------------
(* What arrives keeps the order of the stream.                             *)
LEMMA LineOrdered ==
  ASSUME LineInv
  PROVE  /\ Len(line) \in Nat
         /\ \A k \in 1 .. Len(line) : line[k] \in 0 .. StreamLen
         /\ \A a, b \in 1 .. Len(line) :
              a < b /\ line[a] # Noise /\ line[b] # Noise => line[a] < line[b]
<1>1. line \in Seq(0 .. StreamLen)
  BY LinesAssumption DEF LineInv
<1>2. Len(line) \in Nat /\ \A k \in 1 .. Len(line) : line[k] \in 0 .. StreamLen
  <2> DEFINE Bytes == 0 .. StreamLen
  <2>1. line \in Seq(Bytes)
    BY <1>1
  <2> HIDE DEF Bytes
  <2>2. Len(line) \in Nat /\ \A k \in 1 .. Len(line) : line[k] \in Bytes
    BY <2>1
  <2> QED BY <2>2 DEF Bytes
<1>3. \A a, b \in 1 .. Len(line) :
        a < b /\ line[a] # Noise /\ line[b] # Noise => line[a] < line[b]
  BY LinesAssumption DEF LineInv
<1> QED BY <1>2, <1>3

(* The loop condition leaves room for a head at place At(i).               *)
LEMMA LoopPlace ==
  ASSUME TypeOK, ScanLoop
  PROVE  /\ At(i) \in base + 1 .. read /\ At(i) \in 1 .. Len(line)
         /\ At(i) + HeadSize + TailSize <= read
         /\ At(i) = base + i + 1 /\ base + i \in Nat
         /\ i \in Nat /\ base \in Nat /\ read \in Nat /\ Len(line) \in Nat
         /\ read <= Len(line) /\ base <= read
         /\ eraseSize \in Nat /\ eraseSize <= read - base
<1>1. Len(line) \in Nat
  BY DEF TypeOK
<1> QED BY <1>1, SizesAssumption DEF TypeOK, ScanLoop, At, RxSize

LEMMA AheadStep ==
  ASSUME TypeOK, TypeOK', LineInv, Ahead, DeliveredInOrder, [Next]_vars
  PROVE  Ahead' /\ DeliveredInOrder'
<1>len. Len(line) \in Nat /\ Len(delivered) \in Nat
  BY LineOrdered DEF TypeOK
<1>1. CASE ReadBytes
  <2>1. Ahead'
    BY <1>1, <1>len DEF ReadBytes, Ahead, TypeOK
  <2>2. DeliveredInOrder'
    BY <1>1 DEF ReadBytes, DeliveredInOrder
  <2> QED BY <2>1, <2>2
<1>2. ASSUME ScanLoop, pc' = "scan", i' = i + 1, base' = base, line' = line,
             delivered' = delivered, eraseSize' = eraseSize \/ eraseSize' = i + 1
      PROVE  Ahead' /\ DeliveredInOrder'
  <2>1. pc = "scan" /\ base \in Nat /\ i \in Nat /\ eraseSize \in Nat
    BY <1>2, LoopPlace DEF ScanLoop
  <2>2. \A k \in base + 1 .. Len(line) :
          k > base + i' \/ k > base + eraseSize' => k > base + i \/ k > base + eraseSize
    BY <1>2, <1>len, <2>1
  <2>3. Ahead'
    BY <1>2, <2>1, <2>2 DEF Ahead
  <2>4. DeliveredInOrder'
    BY <1>2 DEF DeliveredInOrder
  <2> QED BY <2>3, <2>4
<1>3. CASE ScanBadHead \/ ScanIncomplete \/ ScanBadTail
  <2>1. /\ ScanLoop /\ pc' = pc /\ i' = i + 1 /\ base' = base /\ line' = line
        /\ delivered' = delivered /\ (eraseSize' = eraseSize \/ eraseSize' = i + 1)
    BY <1>3 DEF ScanBadHead, ScanIncomplete, ScanBadTail, SkipByte
  <2> QED BY <1>2, <2>1 DEF ScanLoop
<1>4. CASE ScanFrame
  <2> DEFINE f == line[At(i)]
  <2>1. /\ ScanLoop /\ i' = i + 1 /\ base' = base /\ line' = line /\ pc = "scan" /\ pc' = "scan"
        /\ eraseSize' = read - base /\ f \in Frames
    BY <1>4 DEF ScanFrame, ScanLoop, TailOk, RxSize
  <2>0. i + 1 < read - base /\ i \in Nat /\ base \in Nat /\ read \in Nat
    BY <2>1, LoopPlace, SizesAssumption, SMTT(30)
  <2>2. f # Noise /\ f \in Int
    BY <2>1, SizeAtBounds DEF Noise
  <2>3. \A a \in 1 .. Len(delivered) : delivered[a] < f
    BY <2>1, <2>2, LoopPlace, SMTT(30) DEF Ahead
  <2>4. \A k \in base + 1 .. Len(line) : k > base + i + 1 /\ line[k] # Noise => f < line[k]
    BY <2>1, <2>2, LoopPlace, LineOrdered DEF TypeOK
  <2>5. \A k \in base + 1 .. Len(line) :
          k > base + i' \/ k > base + eraseSize' => k > base + i + 1
    BY <2>1, <2>0, <1>len
  <2>6. CASE delivered' = delivered
    <3>1. Ahead'
      BY <2>0, <2>1, <2>5, <2>6, <1>len DEF Ahead
    <3>2. DeliveredInOrder'
      BY <2>6 DEF DeliveredInOrder
    <3> QED BY <3>1, <3>2
  <2>7. CASE delivered' = Append(delivered, f)
    <3>1. /\ Len(delivered') = Len(delivered) + 1
          /\ \A a \in 1 .. Len(delivered) : delivered'[a] = delivered[a]
          /\ delivered'[Len(delivered) + 1] = f
      BY <2>7 DEF TypeOK
    <3>2. Ahead'
      BY <2>0, <2>1, <2>4, <2>5, <3>1, <1>len DEF Ahead
    <3>3. DeliveredInOrder'
      BY <2>3, <3>1, <1>len DEF DeliveredInOrder
    <3> QED BY <3>2, <3>3
  <2> QED BY <1>4, <2>6, <2>7 DEF ScanFrame
<1>5. CASE ScanEnd
  <2>1. Ahead'
    BY <1>5, <1>len DEF ScanEnd, Ahead, TypeOK, RxSize
  <2>2. DeliveredInOrder'
    BY <1>5 DEF ScanEnd, DeliveredInOrder
  <2> QED BY <2>1, <2>2
<1>6. CASE UNCHANGED vars
  BY <1>6 DEF vars, Ahead, DeliveredInOrder
<1> QED BY <1>1, <1>3, <1>4, <1>5, <1>6 DEF Next

(* A frame's callback runs once and never after that of a later frame: the *)
(* bytes of a delivered frame that SkipByte keeps in rxBuffer are behind   *)
(* everything the next scan can deliver.                                   *)
THEOREM InOrder == Spec => []DeliveredInOrder
<1>1. Init => Ahead /\ DeliveredInOrder
  BY DEF Init, Ahead, DeliveredInOrder
<1>2. /\ TypeOK /\ TypeOK' /\ LineInv /\ Ahead /\ DeliveredInOrder /\ [Next]_vars
      => Ahead' /\ DeliveredInOrder'
  BY AheadStep
<1> QED BY <1>1, <1>2, TypeCorrect, LineNeverChanges, PTL DEF Spec

-----------------------------------------------------------------------------
LEMMA LineStays == [Next]_vars => line' = line
BY DEF Next, vars, ReadBytes, ScanBadHead, ScanIncomplete, ScanBadTail, SkipByte,
       ScanFrame, ScanEnd

(* Only ScanFrame adds to delivered, and only at its end.                  *)
LEMMA DeliveredStays ==
  ASSUME TypeOK, [Next]_vars, NEW CONSTANT f, IsDelivered(f)
  PROVE  IsDelivered(f)'
<1>1. PICK a \in 1 .. Len(delivered) : delivered[a] = f
  BY DEF IsDelivered
<1>2. CASE delivered' = delivered
  BY <1>1, <1>2 DEF IsDelivered
<1>3. CASE delivered' = Append(delivered, line[At(i)])
  <2>1. /\ Len(delivered) \in Nat /\ Len(delivered') = Len(delivered) + 1
        /\ delivered'[a] = delivered[a]
    BY <1>1, <1>3 DEF TypeOK
  <2>2. a \in 1 .. Len(delivered')
    BY <1>1, <2>1
  <2> QED BY <1>1, <2>1, <2>2 DEF IsDelivered
<1>4. delivered' = delivered \/ delivered' = Append(delivered, line[At(i)])
  BY DEF Next, vars, ReadBytes, ScanBadHead, ScanIncomplete, ScanBadTail, SkipByte,
         ScanFrame, ScanEnd
<1> QED BY <1>2, <1>3, <1>4

(* A whole frame passes the head and the tail checkers.                    *)
LEMMA WholePasses ==
  ASSUME NEW CONSTANT k, Whole(k)
  PROVE  /\ line[k] \in Frames /\ line[k] \in DOMAIN HeadLen
         /\ SizeAt(line[k]) \in Nat /\ SizeAt(line[k]) > HeadSize + TailSize
         /\ k + SizeAt(line[k]) - 1 <= Len(line)
         /\ Untouched(k, HeadChecked) /\ Untouched(k, SizeAt(line[k]))
<1>1. /\ line[k] \in Frames /\ line[k] \in DOMAIN HeadLen
      /\ k + SizeAt(line[k]) - 1 <= Len(line) /\ Untouched(k, SizeAt(line[k]))
  BY StreamAssumption DEF Whole
<1>2. SizeAt(line[k]) \in Nat /\ SizeAt(line[k]) > HeadSize + TailSize
  BY <1>1, SizeAtBounds
<1>3. \A d \in 0 .. HeadChecked - 1 : d \in 0 .. SizeAt(line[k]) - 1
  BY <1>2, SizesAssumption
<1> QED BY <1>1, <1>2, <1>3 DEF Untouched

(* A step of the loop over a place with no complete frame.                 *)
LEMMA NotDueHere ==
  ASSUME TypeOK, ScanLoop, ~HeadOk \/ Incomplete \/ ~TailOk
  PROVE  ~Due(At(i))
<1> SUFFICES ASSUME Due(At(i)) PROVE FALSE
  OBVIOUS
<1> DEFINE k == At(i)
<1>1. /\ line[k] \in Frames /\ line[k] \in DOMAIN HeadLen
      /\ k + SizeAt(line[k]) - 1 <= Len(line)
      /\ Untouched(k, SizeAt(line[k])) /\ k + SizeAt(line[k]) - 1 <= read
  BY StreamAssumption DEF Due, Whole
<1>2. SizeAt(line[k]) \in Nat /\ SizeAt(line[k]) > HeadSize + TailSize
  BY <1>1, SizeAtBounds
<1>3. Untouched(k, HeadChecked)
  <2>1. \A d \in 0 .. HeadChecked - 1 : d \in 0 .. SizeAt(line[k]) - 1
    BY <1>2, SizesAssumption
  <2> QED BY <1>1, <2>1 DEF Untouched
<1>4. HeadOk /\ TailOk
  BY <1>1, <1>3 DEF HeadOk, TailOk
<1>5. ~(read - base - i < SizeAt(line[k]))
  BY <1>1, <1>2, LoopPlace
<1> QED BY <1>4, <1>5 DEF Incomplete, RxSize

LEMMA DueStays ==
  ASSUME line' = line, read' = read, NEW CONSTANT k
  PROVE  Due(k)' <=> Due(k)
BY DEF Due, Whole, Untouched, SizeAt

LEMMA PassedStep ==
  ASSUME TypeOK, TypeOK', PassedDelivered, [Next]_vars
  PROVE  PassedDelivered'
<1>1. CASE ReadBytes
  BY <1>1 DEF ReadBytes, PassedDelivered, TypeOK
<1>2. ASSUME ScanLoop, base' = base, i' = i + 1, read' = read,
             \A k \in {At(i)} : Due(k) => IsDelivered(line[k])'
      PROVE  PassedDelivered'
  <2> SUFFICES ASSUME NEW CONSTANT k \in base' + 1 .. base' + i', Due(k)'
               PROVE  IsDelivered(line[k])'
    BY DEF PassedDelivered
  <2>1. Due(k) /\ line' = line
    BY <1>2, DueStays, LineStays
  <2>2. k = At(i) \/ k \in base + 1 .. base + i
    BY <1>2, LoopPlace
  <2>3. CASE k = At(i)
    BY <1>2, <2>1, <2>3
  <2>4. CASE k \in base + 1 .. base + i
    <3>1. IsDelivered(line[k])
      BY <1>2, <2>1, <2>4 DEF PassedDelivered, ScanLoop
    <3> QED BY <3>1, <2>1, DeliveredStays DEF IsDelivered
  <2> QED BY <2>2, <2>3, <2>4
<1>3. CASE ScanBadHead \/ ScanIncomplete \/ ScanBadTail
  <2>1. \A k \in {At(i)} : ~Due(k)
    BY <1>3, NotDueHere DEF ScanBadHead, ScanIncomplete, ScanBadTail
  <2> QED BY <1>2, <1>3, <2>1 DEF ScanBadHead, ScanIncomplete, ScanBadTail, SkipByte
<1>4. CASE ScanFrame
  <2>1. ScanLoop /\ base' = base /\ i' = i + 1 /\ read' = read /\ line' = line
    BY <1>4 DEF ScanFrame
  <2>2. ASSUME NEW CONSTANT k \in {At(i)}, Due(k) PROVE IsDelivered(line[k])'
    <3>1. delivered' = Append(delivered, line[k])
      BY <1>4, <2>2 DEF ScanFrame, Due
    <3>2. Len(delivered) + 1 \in 1 .. Len(delivered') /\ delivered'[Len(delivered) + 1] = line[k]
      BY <3>1 DEF TypeOK
    <3> QED BY <2>1, <3>2 DEF IsDelivered
  <2> QED BY <1>2, <2>1, <2>2
<1>5. CASE ScanEnd
  BY <1>5 DEF ScanEnd, PassedDelivered
<1>6. CASE UNCHANGED vars
  BY <1>6, DueStays DEF vars, PassedDelivered, IsDelivered
<1> QED BY <1>1, <1>3, <1>4, <1>5, <1>6 DEF Next

(* When the loop is over, the places it did not reach are too near the end *)
(* for a complete frame.                                                   *)
LEMMA NothingDueBeyond ==
  ASSUME TypeOK, ~ScanLoop, pc = "scan", NEW CONSTANT k \in base + 1 .. read, Due(k)
  PROVE  k \in base + 1 .. base + i
<1>1. k + SizeAt(line[k]) - 1 <= read /\ Whole(k)
  BY DEF Due
<1>2. SizeAt(line[k]) \in Nat /\ SizeAt(line[k]) > HeadSize + TailSize
  BY <1>1, WholePasses
<1>3. /\ base \in Nat /\ read \in Nat /\ i \in Nat
      /\ i >= read - base - HeadSize - TailSize
  BY SizesAssumption, LineOrdered DEF TypeOK, ScanLoop, RxSize
<1> QED BY <1>1, <1>2, <1>3, SizesAssumption

(* No scan ends before every handled frame that is complete in rxBuffer    *)
(* has reached its callback, whatever surrounds it.                        *)
THEOREM CompleteDelivered == Spec => []CompleteFramesDelivered
<1>1. Init => PassedDelivered
  BY DEF Init, PassedDelivered
<1>2. TypeOK /\ TypeOK' /\ PassedDelivered /\ [Next]_vars => PassedDelivered'
  BY PassedStep
<1>3. TypeOK /\ PassedDelivered => CompleteFramesDelivered
  <2> SUFFICES ASSUME TypeOK, PassedDelivered, pc = "scan", ~ScanLoop,
                      NEW CONSTANT k \in base + 1 .. read, Due(k)
               PROVE  IsDelivered(line[k])
    BY DEF CompleteFramesDelivered, Due
  <2> QED BY NothingDueBeyond DEF PassedDelivered
<1> QED BY <1>1, <1>2, <1>3, TypeCorrect, PTL DEF Spec

-----------------------------------------------------------------------------
(* Only an incomplete frame that has been found holds eraseSize back.      *)
LEMMA EraseStep ==
  ASSUME TypeOK, TypeOK', EraseKeepsUp, [Next]_vars
  PROVE  EraseKeepsUp'
<1> USE DEF RxSize
<1>bool. okHeadFound \in BOOLEAN
  BY DEF TypeOK
<1>1. CASE ReadBytes
  <2>1. ~okHeadFound' /\ eraseSize' = 0 /\ i' = 0
    BY <1>1, Zenon DEF ReadBytes
  <2> QED BY <2>1 DEF EraseKeepsUp
<1>2. ASSUME ScanLoop, SkipByte PROVE EraseKeepsUp'
  <2>1. CASE okHeadFound
    <3>1. okHeadFound' /\ eraseSize' = eraseSize /\ pc = "scan" /\ read' = read /\ base' = base
      BY <1>2, <2>1, Zenon DEF SkipByte, ScanLoop
    <3> QED BY <2>1, <3>1 DEF EraseKeepsUp, SizeAt
  <2>2. CASE ~okHeadFound
    <3>1. ~okHeadFound' /\ eraseSize' = i + 1 /\ i' = i + 1
      BY <1>2, <2>2, Zenon DEF SkipByte
    <3> QED BY <3>1, LoopPlace, <1>2 DEF EraseKeepsUp
  <2> QED BY <2>1, <2>2
<1>3. CASE ScanIncomplete
  <2>1. /\ okHeadFound' /\ eraseSize' = eraseSize /\ pc = "scan" /\ read' = read /\ base' = base
        /\ ScanLoop /\ line[At(i)] \in DOMAIN HeadLen
        /\ read - base - i < SizeAt(line[At(i)])
    BY <1>3, Zenon DEF ScanIncomplete, ScanLoop, HeadOk, Incomplete
  <2>2. CASE okHeadFound
    BY <2>1, <2>2 DEF EraseKeepsUp, SizeAt
  <2>3. CASE ~okHeadFound
    <3>1. eraseSize >= i
      BY <2>1, <2>3 DEF EraseKeepsUp
    <3>2. SizeAt(line[At(i)]) \in Nat
      BY <2>1, SizeAtBounds
    <3>3. read - base - eraseSize < SizeAt(line[At(i)])
      BY <2>1, <3>1, <3>2, LoopPlace
    <3>4. \E b \in DOMAIN HeadLen : read' - base' - eraseSize' < SizeAt(b)
      BY <2>1, <3>3
    <3> QED BY <2>1, <3>4 DEF EraseKeepsUp, SizeAt
  <2> QED BY <2>2, <2>3
<1>4. CASE ScanFrame
  <2>1. /\ okHeadFound' = okHeadFound /\ eraseSize' = read - base
        /\ read' = read /\ base' = base /\ i' = i + 1
        /\ ScanLoop /\ line[At(i)] \in DOMAIN HeadLen
    BY <1>4, Zenon DEF ScanFrame, HeadOk
  <2>2. eraseSize' >= i' /\ read' - base' - eraseSize' = 0
    <3>1. /\ base \in Nat /\ read \in Nat /\ i \in Nat
          /\ base + i + 1 + HeadSize + TailSize <= read
      BY <2>1, LoopPlace
    <3> QED BY <2>1, <3>1, SizesAssumption
  <2>3. read' - base' - eraseSize' < SizeAt(line[At(i)])
    BY <2>1, <2>2, SizeAtBounds, SizesAssumption
  <2>4. \E b \in DOMAIN HeadLen : read' - base' - eraseSize' < SizeAt(b)
    BY <2>1, <2>3
  <2> QED BY <2>2, <2>4 DEF EraseKeepsUp, SizeAt
<1>5. CASE ScanEnd
  BY <1>5 DEF ScanEnd, EraseKeepsUp
<1>6. CASE UNCHANGED vars
  BY <1>6 DEF vars, EraseKeepsUp, SizeAt
<1> QED BY <1>1, <1>2, <1>3, <1>4, <1>5, <1>6 DEF Next, ScanBadHead, ScanBadTail

LEMMA BoundStep ==
  ASSUME TypeOK, TypeOK', EraseKeepsUp, BufferBounded, [Next]_vars
  PROVE  BufferBounded'
<1> USE DEF RxSize
<1>1. CASE ReadBytes
  <2>1. base' = base /\ (pc' = "read" => read' - base < HeadSize + TailSize)
    BY <1>1 DEF ReadBytes
  <2>2. base \in Nat /\ read' \in Nat
    BY <2>1, LineOrdered DEF TypeOK
  <2>3. ASSUME pc' = "read" PROVE read' - base' <= HeadSize + TailSize
    <3>1. read' - base < HeadSize + TailSize /\ HeadSize + TailSize \in Nat
      BY <2>1, <2>3, SizesAssumption
    <3> QED BY <2>1, <2>2, <3>1
  <2> QED BY <2>3 DEF BufferBounded
<1>2. CASE ScanBadHead \/ ScanIncomplete \/ ScanBadTail \/ ScanFrame
  <2>1. pc' = "scan"
    BY <1>2 DEF ScanBadHead, ScanIncomplete, ScanBadTail, SkipByte, ScanFrame, ScanLoop
  <2> QED BY <2>1 DEF BufferBounded
<1>3. CASE ScanEnd
  <2>1. pc = "scan" /\ ~ScanLoop /\ read' = read /\ base' = base + eraseSize
    BY <1>3 DEF ScanEnd
  <2>2. /\ read \in Nat /\ base \in Nat /\ i \in Nat /\ eraseSize \in Nat
        /\ read' - base' = read - base - eraseSize
    BY <2>1, LineOrdered DEF TypeOK
  <2>3. CASE okHeadFound
    BY <2>1, <2>2, <2>3 DEF EraseKeepsUp, BufferBounded, SizeAt
  <2>4. CASE ~okHeadFound
    <3>1. eraseSize >= i
      BY <2>1, <2>4 DEF EraseKeepsUp
    <3>2. ~(i < read - base - HeadSize - TailSize)
      BY <2>1 DEF ScanLoop
    <3>3. read' - base' <= HeadSize + TailSize
      BY <2>2, <3>1, <3>2, SizesAssumption
    <3> QED BY <3>3 DEF BufferBounded
  <2> QED BY <2>3, <2>4
<1>4. CASE UNCHANGED vars
  BY <1>4 DEF vars, BufferBounded, SizeAt
<1> QED BY <1>1, <1>2, <1>3, <1>4 DEF Next

(* Between two reads rxBuffer never holds more than the longest frame that *)
(* a head can announce, although nothing checks maxSize.                   *)
THEOREM Bounded == Spec => []BufferBounded
<1>1. Init => EraseKeepsUp /\ BufferBounded
  BY SizesAssumption DEF Init, EraseKeepsUp, BufferBounded, RxSize
<1>2. /\ TypeOK /\ TypeOK' /\ EraseKeepsUp /\ BufferBounded /\ [Next]_vars
      => EraseKeepsUp' /\ BufferBounded'
  BY EraseStep, BoundStep
<1> QED BY <1>1, <1>2, TypeCorrect, PTL DEF Spec

-----------------------------------------------------------------------------
(* No frame starts inside a whole one.                                     *)
LEMMA NoOverlap ==
  ASSUME LineInv, NEW CONSTANT k \in 1 .. Len(line), NEW CONSTANT g \in 1 .. Len(line),
         k < g, Whole(k), line[g] \in Frames
  PROVE  k + SizeAt(line[k]) <= g
<1> DEFINE f == line[k]
<1>1. /\ f \in Frames /\ Untouched(k, SizeAt(f))
      /\ SizeAt(f) \in Nat /\ f \in Nat
  BY WholePasses, SizeAtBounds
<1> SUFFICES ASSUME g < k + SizeAt(f) PROVE FALSE
  BY <1>1, LineOrdered
<1>2. g - k \in 0 .. SizeAt(f) - 1
  BY <1>1, LineOrdered
<1>3. line[g] = f + (g - k)
  <2>1. line[k + (g - k)] = f + (g - k)
    BY <1>1, <1>2 DEF Untouched
  <2>2. k + (g - k) = g
    BY LineOrdered
  <2> QED BY <2>1, <2>2
<1>4. f < line[g] /\ f + SizeAt(f) <= line[g]
  BY <1>1, <1>2, <1>3, StreamAssumption
<1> QED BY <1>1, <1>2, <1>3, <1>4

LEMMA PlacesStay ==
  ASSUME line' = line, NEW CONSTANT k
  PROVE  /\ Whole(k)' <=> Whole(k)
         /\ BrokenHeadBefore(k)' <=> BrokenHeadBefore(k)
<1>1. \A h : Whole(h)' <=> Whole(h)
  BY DEF Whole, Untouched, SizeAt
<1>2. \A h : Untouched(h, HeadChecked)' <=> Untouched(h, HeadChecked)
  BY DEF Untouched
<1> QED BY <1>1, <1>2 DEF BrokenHeadBefore

LEMMA ArrivalStays ==
  ASSUME line' = line, read' = read, NEW CONSTANT k
  PROVE  Arrival(k)' <=> Arrival(k)
BY PlacesStay DEF Arrival, SizeAt

(* okHeadFound is set where an incomplete frame starts.                    *)
LEMMA HeadFoundStep ==
  ASSUME TypeOK, HeadFound, [Next]_vars
  PROVE  HeadFound'
<1> DEFINE Open(h) == /\ line[h] \in DOMAIN HeadLen
                      /\ h + HeadChecked - 1 <= read
                      /\ Untouched(h, HeadChecked)
                      /\ h + SizeAt(line[h]) - 1 > read
<1>1. CASE ReadBytes
  <2>1. ~okHeadFound'
    BY <1>1, Zenon DEF ReadBytes
  <2> QED BY <2>1 DEF HeadFound
<1>open. ASSUME line' = line, read' = read, NEW CONSTANT h
         PROVE  Open(h)' <=> Open(h)
  BY <1>open DEF Untouched, SizeAt
<1>2. ASSUME ScanLoop, okHeadFound, line' = line, read' = read, base' = base, i' = i + 1
      PROVE  HeadFound'
  <2>1. PICK h \in base + 1 .. base + i : Open(h)
    BY <1>2 DEF HeadFound, ScanLoop
  <2>2. h \in base' + 1 .. base' + i' /\ Open(h)'
    BY <1>2, <1>open, <2>1, LoopPlace
  <2> QED BY <2>2 DEF HeadFound
<1>3. CASE ScanBadHead \/ ScanBadTail \/ ScanFrame
  <2>1. /\ ScanLoop /\ line' = line /\ read' = read /\ base' = base /\ i' = i + 1
        /\ okHeadFound' = okHeadFound
    BY <1>3, Zenon DEF ScanBadHead, ScanBadTail, SkipByte, ScanFrame
  <2>2. CASE okHeadFound
    BY <1>2, <2>1, <2>2
  <2>3. CASE ~okHeadFound
    BY <2>1, <2>3, Zenon DEF HeadFound
  <2> QED BY <2>2, <2>3
<1>4. CASE ScanIncomplete
  <2>1. /\ ScanLoop /\ line' = line /\ read' = read /\ base' = base /\ i' = i + 1
        /\ HeadOk /\ Incomplete
    BY <1>4, Zenon DEF ScanIncomplete
  <2>2. PICK h \in {At(i)} : TRUE
    OBVIOUS
  <2>3. h = base + i + 1 /\ h + HeadSize <= read /\ h \in Nat
    BY <2>1, <2>2, LoopPlace, SizesAssumption, SMTT(30)
  <2>4. /\ line[h] \in DOMAIN HeadLen /\ Untouched(h, HeadChecked)
        /\ read - base - i < SizeAt(line[h])
    BY <2>1, <2>2 DEF HeadOk, Incomplete, RxSize
  <2>5. SizeAt(line[h]) \in Nat
    BY <2>4, SizeAtBounds
  <2>6. /\ base \in Nat /\ read \in Nat /\ i \in Nat
    BY <2>1, LoopPlace
  <2>7. h + HeadChecked - 1 <= read /\ h + SizeAt(line[h]) - 1 > read
    BY <2>3, <2>4, <2>5, <2>6, SizesAssumption
  <2>8. Open(h)' /\ h \in base' + 1 .. base' + i'
    BY <1>open, <2>1, <2>3, <2>4, <2>6, <2>7
  <2> QED BY <2>8 DEF HeadFound
<1>5. CASE ScanEnd
  BY <1>5 DEF ScanEnd, HeadFound
<1>6. CASE UNCHANGED vars
  <2>1. line' = line /\ read' = read
    BY <1>6 DEF vars
  <2>2. \A h : Open(h)' <=> Open(h)
    BY <1>open, <2>1
  <2> QED BY <1>6, <2>2 DEF vars, HeadFound
<1> QED BY <1>1, <1>3, <1>4, <1>5, <1>6 DEF Next

(* A place where the loop finds a head names a broken head for every frame *)
(* behind it that starts before its announced end.                         *)
LEMMA BrokenByOverlap ==
  ASSUME LineInv, NEW CONSTANT h \in 1 .. Len(line), NEW CONSTANT k \in 1 .. Len(line),
         h < k, line[h] \in DOMAIN HeadLen, h + HeadChecked - 1 <= Len(line),
         Untouched(h, HeadChecked), ~Whole(h)
  PROVE  BrokenHeadBefore(k)
<1>1. h \in 1 .. k - 1
  BY LineOrdered
<1> QED BY <1>1 DEF BrokenHeadBefore

(* The three ways a frame that is arriving is accounted for.               *)
Kept(k) ==
  \/ BrokenHeadBefore(k)
  \/ k > base + eraseSize
  \/ /\ ~okHeadFound /\ i > 0 /\ k > base + i
     /\ Whole(base + i) /\ base + i + SizeAt(line[base + i]) - 1 <= read

LEMMA KeptBySkip ==
  ASSUME TypeOK, ScanLoop, SkipByte, ~HeadOk \/ ~TailOk, EraseKeepsUp,
         NEW CONSTANT k \in base + 1 .. read, Arrival(k), Kept(k)
  PROVE  BrokenHeadBefore(k) \/ k > base + eraseSize'
<1>typ. base \in Nat /\ read \in Nat /\ i \in Nat /\ eraseSize \in Nat /\ k \in Nat
  BY LoopPlace
<1>1. CASE okHeadFound
  <2>1. eraseSize' = eraseSize
    BY <1>1, Zenon DEF SkipByte
  <2> QED BY <1>1, <2>1, Zenon DEF Kept
<1>2. CASE ~okHeadFound
  <2>1. eraseSize' = i + 1
    BY <1>2, Zenon DEF SkipByte
  <2>2. eraseSize >= i
    BY <1>2 DEF EraseKeepsUp, ScanLoop
  <2>3. SUFFICES ASSUME ~BrokenHeadBefore(k) PROVE k > base + i + 1
    BY <1>typ, <2>1
  <2>4. k > base + eraseSize \/ k > base + i
    BY <2>3, Zenon DEF Kept
  <2>5. k >= base + i + 1
    BY <1>typ, <2>2, <2>4
  <2>6. k # At(i)
    <3> SUFFICES ASSUME k = At(i) PROVE FALSE
      OBVIOUS
    <3>1. /\ line[k] \in Frames /\ line[k] \in DOMAIN HeadLen
          /\ Untouched(k, HeadChecked) /\ Untouched(k, SizeAt(line[k]))
      BY WholePasses DEF Arrival
    <3> QED BY <3>1 DEF HeadOk, TailOk
  <2> QED BY <1>typ, <2>5, <2>6, LoopPlace
<1> QED BY <1>1, <1>2

LEMMA KeptByIncomplete ==
  ASSUME TypeOK, LineInv, ScanLoop, HeadOk, Incomplete,
         NEW CONSTANT k \in base + 1 .. read, Arrival(k), Kept(k)
  PROVE  BrokenHeadBefore(k) \/ k > base + eraseSize
<1>typ. /\ base \in Nat /\ read \in Nat /\ i \in Nat /\ k \in Nat
        /\ Len(line) \in Nat /\ read <= Len(line)
  BY LoopPlace
<1> SUFFICES ASSUME i > 0, k > base + i, Whole(base + i),
                    base + i + SizeAt(line[base + i]) - 1 <= read
             PROVE  BrokenHeadBefore(k)
  BY Zenon DEF Kept
<1>1. PICK g \in {base + i}, h \in {At(i)} : TRUE
  OBVIOUS
<1>2. /\ g = base + i /\ h = g + 1 /\ k > g
      /\ g \in 1 .. Len(line) /\ h \in 1 .. Len(line) /\ k \in 1 .. Len(line)
      /\ h + HeadSize <= Len(line)
  BY <1>1, <1>typ, LoopPlace, SizesAssumption
<1>3. Whole(g) /\ SizeAt(line[g]) \in Nat /\ SizeAt(line[g]) > HeadSize + TailSize
  BY <1>1, WholePasses
<1>4. ~(g + SizeAt(line[g]) <= h)
  BY <1>2, <1>3, <1>typ, SizesAssumption
<1>5. ~Whole(h)
  <2> SUFFICES ASSUME line[h] \in Frames PROVE FALSE
    BY DEF Whole
  <2> QED BY <1>2, <1>3, <1>4, <1>typ, NoOverlap
<1>6. h < k
  <2>1. line[k] \in Frames
    BY DEF Arrival, Whole
  <2>2. k # h
    BY <2>1, <1>2, <1>3, <1>4, <1>typ, NoOverlap
  <2> QED BY <2>2, <1>2, <1>typ
<1>7. /\ line[h] \in DOMAIN HeadLen /\ Untouched(h, HeadChecked)
      /\ h + HeadChecked - 1 <= Len(line)
  BY <1>1, <1>2, <1>typ, SizesAssumption DEF HeadOk
<1> QED BY <1>2, <1>5, <1>6, <1>7, BrokenByOverlap

LEMMA KeptByFrame ==
  ASSUME TypeOK, LineInv, ScanLoop, HeadOk, ~Incomplete, TailOk, HeadFound,
         NEW CONSTANT k \in base + 1 .. read, Arrival(k)
  PROVE  \/ BrokenHeadBefore(k)
         \/ /\ ~okHeadFound /\ k > At(i)
            /\ Whole(At(i)) /\ At(i) + SizeAt(line[At(i)]) - 1 <= read
<1>typ. /\ base \in Nat /\ read \in Nat /\ i \in Nat /\ k \in Nat
        /\ Len(line) \in Nat /\ read <= Len(line)
  BY LoopPlace
<1>1. PICK g \in {At(i)} : TRUE
  OBVIOUS
<1>2. /\ g = base + i + 1 /\ g \in 1 .. Len(line) /\ k \in 1 .. Len(line)
  BY <1>1, <1>typ, LoopPlace
<1>3. /\ line[g] \in Frames /\ Untouched(g, SizeAt(line[g]))
      /\ ~(read - base - i < SizeAt(line[g]))
  BY <1>1 DEF TailOk, Incomplete, RxSize
<1>4. SizeAt(line[g]) \in Nat /\ SizeAt(line[g]) > HeadSize + TailSize
  <2>1. line[g] \in Frames
    BY <1>3
  <2>2. \A f \in Frames : SizeAt(f) \in Nat /\ SizeAt(f) > HeadSize + TailSize
    BY SizeAtBounds, StreamAssumption
  <2> QED BY <2>1, <2>2
<1>5. g + SizeAt(line[g]) - 1 <= read /\ Whole(g)
  BY <1>2, <1>3, <1>4, <1>typ DEF Whole
<1>6. /\ Whole(k) /\ SizeAt(line[k]) \in Nat /\ k + SizeAt(line[k]) - 1 > read
  <2>1. Whole(k) /\ k + SizeAt(line[k]) - 1 > read
    BY DEF Arrival
  <2> QED BY <2>1, WholePasses
<1>7. k > g
  <2>1. k # g
    BY <1>2, <1>4, <1>5, <1>6, <1>typ
  <2>2. ~(k < g)
    <3> SUFFICES ASSUME k < g PROVE FALSE
      OBVIOUS
    <3>1. k + SizeAt(line[k]) <= g
      BY <1>2, <1>3, <1>6, NoOverlap
    <3> QED BY <3>1, <1>2, <1>4, <1>5, <1>6, <1>typ
  <2> QED BY <2>1, <2>2, <1>2, <1>typ
<1>8. CASE okHeadFound
  <2>1. PICK h \in base + 1 .. base + i :
          /\ line[h] \in DOMAIN HeadLen
          /\ h + HeadChecked - 1 <= read
          /\ Untouched(h, HeadChecked)
          /\ h + SizeAt(line[h]) - 1 > read
    BY <1>8 DEF HeadFound, ScanLoop
  <2>2. h \in 1 .. Len(line) /\ h < g /\ h < k /\ h + HeadChecked - 1 <= Len(line)
    BY <2>1, <1>2, <1>7, <1>typ, SizesAssumption
  <2>3. ~Whole(h)
    <3> SUFFICES ASSUME Whole(h) PROVE FALSE
      OBVIOUS
    <3>1. h + SizeAt(line[h]) <= g /\ SizeAt(line[h]) \in Nat
      BY <2>2, <1>2, <1>3, NoOverlap, WholePasses
    <3> QED BY <3>1, <2>1, <2>2, <1>2, <1>4, <1>5, <1>typ
  <2> QED BY <2>1, <2>2, <2>3, <1>2, BrokenByOverlap
<1>9. CASE ~okHeadFound
  BY <1>1, <1>5, <1>7, <1>9
<1> QED BY <1>8, <1>9

(* No action marks a frame that is arriving.                               *)
LEMMA ArrivalStep ==
  ASSUME TypeOK, LineInv, EraseKeepsUp, HeadFound, ArrivalKept, [Next]_vars
  PROVE  ArrivalKept'
<1>0. SUFFICES ASSUME pc' = "scan", NEW CONSTANT k \in base' + 1 .. read', Arrival(k)'
               PROVE  Kept(k)'
  BY Zenon DEF ArrivalKept, Kept
<1>1. CASE ReadBytes
  <2>1. base' = base /\ eraseSize' = 0 /\ base \in Nat
    BY <1>1, LineOrdered DEF ReadBytes, TypeOK
  <2>2. k > base' + eraseSize'
    BY <2>1
  <2> QED BY <2>2, Zenon DEF Kept
<1>2. ASSUME ScanLoop, line' = line, read' = read, base' = base
      PROVE  /\ k \in base + 1 .. read /\ Arrival(k) /\ Kept(k)
             /\ BrokenHeadBefore(k)' <=> BrokenHeadBefore(k)
  <2>1. k \in base + 1 .. read /\ Arrival(k)
    BY <1>0, <1>2, ArrivalStays
  <2>2. Kept(k)
    BY <1>2, <2>1, Zenon DEF ArrivalKept, Kept, ScanLoop
  <2> QED BY <1>2, <2>1, <2>2, PlacesStay
<1>3. CASE ScanBadHead \/ ScanBadTail
  <2>1. /\ ScanLoop /\ SkipByte /\ line' = line /\ read' = read /\ base' = base
        /\ ~HeadOk \/ ~TailOk
    BY <1>3, Zenon DEF ScanBadHead, ScanBadTail, SkipByte
  <2>2. BrokenHeadBefore(k) \/ k > base + eraseSize'
    BY <1>2, <2>1, KeptBySkip
  <2> QED BY <1>2, <2>1, <2>2, Zenon DEF Kept
<1>4. CASE ScanIncomplete
  <2>1. /\ ScanLoop /\ HeadOk /\ Incomplete /\ eraseSize' = eraseSize
        /\ line' = line /\ read' = read /\ base' = base
    BY <1>4, Zenon DEF ScanIncomplete
  <2>2. BrokenHeadBefore(k) \/ k > base + eraseSize
    BY <1>2, <2>1, KeptByIncomplete
  <2> QED BY <1>2, <2>1, <2>2, Zenon DEF Kept
<1>5. CASE ScanFrame
  <2>1. /\ ScanLoop /\ HeadOk /\ ~Incomplete /\ TailOk /\ i' = i + 1
        /\ line' = line /\ read' = read /\ base' = base
        /\ okHeadFound' = okHeadFound
    BY <1>5, Zenon DEF ScanFrame
  <2>2. base' + i' = At(i) /\ i' > 0
    BY <2>1, LoopPlace
  <2>3. CASE BrokenHeadBefore(k)
    BY <1>2, <2>1, <2>3, Zenon DEF Kept
  <2>4. CASE /\ ~okHeadFound /\ k > At(i)
             /\ Whole(At(i)) /\ At(i) + SizeAt(line[At(i)]) - 1 <= read
    <3>1. PICK g \in {At(i)} : TRUE
      OBVIOUS
    <3>2. Whole(g)' /\ g + SizeAt(line'[g]) - 1 <= read' /\ g = base' + i' /\ k > g
      BY <2>1, <2>2, <2>4, <3>1, PlacesStay DEF SizeAt
    <3>3. ~okHeadFound'
      BY <2>1, <2>4, Zenon
    <3> QED BY <2>2, <3>2, <3>3 DEF Kept, SizeAt
  <2> QED BY <1>2, <2>1, <2>3, <2>4, KeptByFrame
<1>6. CASE ScanEnd
  BY <1>0, <1>6 DEF ScanEnd
<1>7. CASE UNCHANGED vars
  <2>1. line' = line /\ read' = read /\ base' = base /\ i' = i /\ eraseSize' = eraseSize
        /\ pc' = pc /\ okHeadFound' = okHeadFound
    BY <1>7, Zenon DEF vars
  <2>2. k \in base + 1 .. read /\ Arrival(k)
    BY <1>0, <2>1, ArrivalStays
  <2>3. Kept(k)
    BY <1>0, <2>1, <2>2, Zenon DEF ArrivalKept, Kept
  <2>4. PICK g \in {base + i} : TRUE
    OBVIOUS
  <2>5. Whole(g)' <=> Whole(g)
    BY <2>1, PlacesStay
  <2> QED BY <2>1, <2>3, <2>4, <2>5, PlacesStay DEF Kept, SizeAt
<1> QED BY <1>1, <1>3, <1>4, <1>5, <1>6, <1>7 DEF Next

(* A scan erases the start of a frame only after its delivery or behind a  *)
(* broken head.                                                            *)
LEMMA ErasedStep ==
  ASSUME TypeOK, LineInv, PassedDelivered, ArrivalKept, ErasedAccounted, [Next]_vars
  PROVE  ErasedAccounted'
<1>0. SUFFICES ASSUME NEW CONSTANT k \in 1 .. base', Whole(k), line[k] \in Handled
               PROVE  IsDelivered(line[k])' \/ BrokenHeadBefore(k)
  BY LineStays, PlacesStay DEF ErasedAccounted
<1>1. SUFFICES IsDelivered(line[k]) \/ BrokenHeadBefore(k)
  <2>1. PICK f \in {line[k]} : TRUE
    OBVIOUS
  <2>2. ASSUME IsDelivered(f) PROVE IsDelivered(f)'
    BY <2>2, DeliveredStays
  <2>3. line'[k] = f /\ line[k] = f
    BY <2>1, LineStays
  <2> QED BY <2>2, <2>3 DEF IsDelivered
<1>2. CASE k \in 1 .. base
  BY <1>0, <1>2 DEF ErasedAccounted
<1>3. CASE k \notin 1 .. base
  <2>typ. /\ base \in Nat /\ read \in Nat /\ i \in Nat /\ eraseSize \in Nat
          /\ k \in Nat \ {0} /\ base <= read
    <3>1. base \in Nat /\ read \in Nat /\ i \in Nat /\ eraseSize \in Nat /\ base <= read
      BY LineOrdered DEF TypeOK
    <3> QED BY <3>1, <1>0
  <2>0. ScanEnd
    BY <1>0, <1>3 DEF Next, vars, ReadBytes, ScanBadHead, ScanIncomplete, ScanBadTail,
                      SkipByte, ScanFrame
  <2>1. pc = "scan" /\ ~ScanLoop /\ base' = base + eraseSize
    BY <2>0 DEF ScanEnd
  <2>2. eraseSize <= read - base
    BY <2>1, <2>typ DEF TypeOK, RxSize
  <2>3. k \in base + 1 .. read /\ k <= base + eraseSize
    BY <1>0, <1>3, <2>1, <2>2, <2>typ
  <2>4. CASE k + SizeAt(line[k]) - 1 <= read
    <3>1. Due(k)
      BY <1>0, <2>4 DEF Due
    <3>2. k \in base + 1 .. base + i
      BY <2>1, <2>3, <3>1, NothingDueBeyond
    <3> QED BY <2>1, <3>1, <3>2 DEF PassedDelivered
  <2>5. CASE ~(k + SizeAt(line[k]) - 1 <= read)
    <3>1. SizeAt(line[k]) \in Nat
      BY <1>0, WholePasses
    <3>2. Arrival(k)
      BY <1>0, <2>5, <2>typ, <3>1 DEF Arrival
    <3>3. Kept(k)
      BY <2>1, <2>3, <3>2, Zenon DEF ArrivalKept, Kept
    <3>4. ASSUME i > 0, k > base + i, Whole(base + i),
                 base + i + SizeAt(line[base + i]) - 1 <= read
          PROVE  FALSE
      <4>1. PICK g \in {base + i} : TRUE
        OBVIOUS
      <4>2. /\ Whole(g) /\ SizeAt(line[g]) \in Nat /\ SizeAt(line[g]) > HeadSize + TailSize
            /\ g + SizeAt(line[g]) - 1 <= read
        BY <3>4, <4>1, WholePasses
      <4>3. read <= Len(line) /\ Len(line) \in Nat
        BY LineOrdered DEF TypeOK
      <4>4. g \in 1 .. Len(line) /\ k \in 1 .. Len(line) /\ g < k
        BY <2>3, <2>typ, <3>4, <4>1, <4>2, <4>3
      <4>5. line[k] \in Frames
        BY <1>0 DEF Whole
      <4>6. g + SizeAt(line[g]) <= k
        BY <4>2, <4>4, <4>5, NoOverlap
      <4>7. g + HeadSize + TailSize >= read
        BY <2>1, <2>typ, <4>1, SizesAssumption DEF ScanLoop, RxSize
      <4> QED BY <2>3, <2>typ, <4>2, <4>4, <4>6, <4>7, SizesAssumption
    <3>5. ~(k > base + eraseSize)
      BY <2>3, <2>typ
    <3> QED BY <3>3, <3>4, <3>5, Zenon DEF Kept
  <2> QED BY <2>4, <2>5
<1> QED BY <1>2, <1>3

(* Between scans nothing complete is left waiting in rxBuffer.             *)
LEMMA WaitingStep ==
  ASSUME TypeOK, TypeOK', LineInv, PassedDelivered, NoneWaiting, [Next]_vars
  PROVE  NoneWaiting'
<1>0. SUFFICES ASSUME pc' = "read", NEW CONSTANT k \in base' + 1 .. read', Due(k)'
               PROVE  IsDelivered(line[k])'
  BY DEF NoneWaiting
<1>typ. /\ base \in Nat /\ read \in Nat /\ base' \in Nat /\ read' \in Nat
        /\ eraseSize \in Nat /\ base <= read
  BY LineOrdered, LineStays DEF TypeOK
<1>1. CASE ReadBytes
  <2>1. base' = base /\ read' - base < HeadSize + TailSize /\ line' = line
    BY <1>0, <1>1 DEF ReadBytes
  <2>2. Whole(k) /\ k + SizeAt(line[k]) - 1 <= read'
    BY <1>0, <2>1, PlacesStay DEF Due, SizeAt
  <2>3. SizeAt(line[k]) \in Nat /\ SizeAt(line[k]) > HeadSize + TailSize
    BY <2>2, WholePasses
  <2>4. k \in Nat /\ k >= base + 1
    BY <1>0, <1>typ, <2>1
  <2>5. SizeAt(line[k]) - 1 <= read' - (base + 1) /\ HeadSize + TailSize \in Nat
    BY <1>typ, <2>2, <2>3, <2>4, SizesAssumption
  <2>6. FALSE
    BY <1>typ, <2>1, <2>3, <2>5
  <2> QED BY <2>6
<1>2. CASE ScanEnd
  <2>1. /\ pc = "scan" /\ ~ScanLoop /\ base' = base + eraseSize
        /\ read' = read /\ line' = line /\ delivered' = delivered
    BY <1>2 DEF ScanEnd
  <2>2. k \in base + 1 .. read /\ Due(k)
    BY <1>0, <1>typ, <2>1, DueStays
  <2>3. IsDelivered(line[k])
    BY <2>1, <2>2, NothingDueBeyond DEF PassedDelivered
  <2> QED BY <2>1, <2>3 DEF IsDelivered
<1>3. CASE ScanBadHead \/ ScanIncomplete \/ ScanBadTail \/ ScanFrame
  BY <1>0, <1>3 DEF ScanBadHead, ScanIncomplete, ScanBadTail, SkipByte, ScanFrame, ScanLoop
<1>4. CASE UNCHANGED vars
  <2>1. /\ pc = "read" /\ base' = base /\ read' = read /\ line' = line
        /\ delivered' = delivered
    BY <1>0, <1>4 DEF vars
  <2>2. k \in base + 1 .. read /\ Due(k)
    BY <1>0, <2>1, DueStays
  <2> QED BY <2>1, <2>2 DEF NoneWaiting, IsDelivered
<1> QED BY <1>1, <1>2, <1>3, <1>4 DEF Next

(* A frame that arrived whole reaches its callback unless a head with no   *)
(* whole frame behind it came earlier on the line: losing or garbling      *)
(* bytes elsewhere costs no frame.                                         *)
THEOREM LossExplained == Spec => []LossNeedsBrokenHead
<1> DEFINE IInv == /\ PassedDelivered /\ EraseKeepsUp /\ HeadFound
                   /\ ArrivalKept /\ ErasedAccounted /\ NoneWaiting
<1>1. Init => IInv
  BY DEF Init, PassedDelivered, EraseKeepsUp, HeadFound, ArrivalKept, ErasedAccounted,
         NoneWaiting
<1>2. TypeOK /\ TypeOK' /\ LineInv /\ IInv /\ [Next]_vars => IInv'
  BY PassedStep, EraseStep, HeadFoundStep, ArrivalStep, ErasedStep, WaitingStep
<1>3. TypeOK /\ LineInv /\ IInv => LossNeedsBrokenHead
  <2> SUFFICES ASSUME TypeOK, LineInv, IInv, pc = "read", NEW CONSTANT k \in 1 .. read,
                      Due(k)
               PROVE  IsDelivered(line[k]) \/ BrokenHeadBefore(k)
    BY DEF LossNeedsBrokenHead, Due
  <2>1. base \in Nat /\ read \in Nat
    BY LineOrdered DEF TypeOK
  <2>2. k \in 1 .. base \/ k \in base + 1 .. read
    BY <2>1
  <2> QED BY <2>2 DEF ErasedAccounted, NoneWaiting, Due
<1> QED BY <1>1, <1>2, <1>3, TypeCorrect, LineNeverChanges, PTL DEF Spec

(* All that is promised of frames, for every stream and every fault.       *)
THEOREM FramesAreSound == Spec => []FramesSound
<1>1. DeliveredInOrder /\ CompleteFramesDelivered /\ LossNeedsBrokenHead => FramesSound
  BY DEF FramesSound
<1> QED BY InOrder, CompleteDelivered, LossExplained, <1>1, PTL
=============================================================================
