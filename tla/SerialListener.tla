--------------------------- MODULE SerialListener ---------------------------
(***************************************************************************)
(* The frame scanner of robot_serial: serialPro::readLoop appends what the *)
(* serial port returned to Listener::rxBuffer and Listener::scan looks for *)
(* frames in it, calls their callbacks and erases a prefix of the buffer.  *)
(*                                                                         *)
(* A byte is the position it had in the stream the C board sent, Noise     *)
(* when it was garbled on the way.  A frame is named by the position of    *)
(* its first byte.  `line' is what arrives of the stream; rxBuffer is the  *)
(* window base+1 .. read of it, so appending moves `read' and erasing a    *)
(* prefix moves `base'.                                                    *)
(***************************************************************************)
EXTENDS Integers, Sequences, FiniteSets

CONSTANTS
  HeadSize,     (* sizeof(Head)                                            *)
  HeadChecked,  (* the leading bytes of the head that SOF and crc8 cover   *)
  TailSize,     (* sizeof(Tail)                                            *)
  StreamLen,    (* number of bytes the C board sends                       *)
  HeadLen,      (* positions that pass the head checkers |-> their length  *)
  Frames,       (* those of them that start a frame the C board sent       *)
  Handled,      (* frames with a registered cmd_id and a matching length   *)
  MaxReadOnce,  (* MAX_READ_ONCE_CHAR                                      *)
  Lines         (* what may arrive: bytes lost or garbled, never reordered *)

Noise == 0

(* What head.length announces, with the head and the tail around it.       *)
SizeAt(b) == HeadLen[b] + HeadSize + TailSize

ASSUME SizesAssumption ==
  /\ HeadSize \in Nat \ {0}
  /\ HeadChecked \in 1 .. HeadSize
  /\ TailSize \in Nat \ {0}
  /\ StreamLen \in Nat
  /\ MaxReadOnce \in Nat \ {0}

ASSUME StreamAssumption ==
  /\ HeadLen \in [DOMAIN HeadLen -> Nat]
  /\ Frames \subseteq DOMAIN HeadLen
  /\ DOMAIN HeadLen \subseteq 1 .. StreamLen
  /\ Handled \subseteq Frames
  /\ \A f \in Frames : HeadLen[f] > 0 /\ f + SizeAt(f) - 1 <= StreamLen
  /\ \A f, g \in Frames : f < g => f + SizeAt(f) <= g

ASSUME LinesAssumption ==
  \A l \in Lines :
    /\ l \in Seq(0 .. StreamLen)
    /\ \A a, b \in 1 .. Len(l) :
         a < b /\ l[a] # Noise /\ l[b] # Noise => l[a] < l[b]

VARIABLES
  line,         (* the bytes that arrive, in order; never changes          *)
  read,         (* how many of them readBytes has returned                 *)
  base,         (* how many of those scan has erased                       *)
  pc,           (* "read": in readBytes; "scan": in the loop of scan       *)
  i,            (* scan: index into rxBuffer, from 0                       *)
  eraseSize,    (* scan: the prefix to erase                               *)
  okHeadFound,  (* scan: a valid head of an incomplete frame was met       *)
  delivered     (* the frames whose callback ran, in order                 *)

scanVars == <<i, eraseSize, okHeadFound>>
vars == <<line, read, base, pc, i, eraseSize, okHeadFound, delivered>>

(* rxBuffer.size()                                                         *)
RxSize == read - base

(* The place on the line of rxBuffer[i].                                   *)
At(j) == base + j + 1

(* The n bytes of the line from place k on are as the C board sent them.   *)
Untouched(k, n) == \A d \in 0 .. n - 1 : line[k + d] = line[k] + d

-----------------------------------------------------------------------------
Init ==
  /\ line \in Lines
  /\ read = 0
  /\ base = 0
  /\ pc = "read"
  /\ i = 0
  /\ eraseSize = 0
  /\ okHeadFound = FALSE
  /\ delivered = <<>>

(* readBytes returns between 1 and MAX_READ_ONCE_CHAR bytes, push appends  *)
(* them, and scan gives up at once when not even an empty frame fits.      *)
ReadBytes ==
  /\ pc = "read"
  /\ \E n \in 1 .. MaxReadOnce :
       /\ read + n <= Len(line)
       /\ read' = read + n
  /\ pc' = IF read' - base < HeadSize + TailSize THEN "read" ELSE "scan"
  /\ i' = 0
  /\ eraseSize' = 0
  /\ okHeadFound' = FALSE
  /\ UNCHANGED <<line, base, delivered>>

(* Variant: the loop ends one byte early.                                  *)
ScanLoopShort == pc = "scan" /\ i < RxSize - HeadSize - TailSize - 1

(* The condition of the for loop of scan.                                  *)
ScanLoop == pc = "scan" /\ i < RxSize - HeadSize - TailSize

(* All the head checkers accept the bytes at rxBuffer[i]: the SOF and the  *)
(* crc8, which cover the first HeadChecked bytes of the head.              *)
HeadOk == line[At(i)] \in DOMAIN HeadLen /\ Untouched(At(i), HeadChecked)

Incomplete == RxSize - i < SizeAt(line[At(i)])

(* The crc16 of the tail matches the bytes before it.                      *)
TailOk == line[At(i)] \in Frames /\ Untouched(At(i), SizeAt(line[At(i)]))

(* Variant: skipping a byte does not mark it for erasing.                  *)
SkipByteKept ==
  /\ i' = i + 1
  /\ UNCHANGED <<line, read, base, pc, eraseSize, okHeadFound, delivered>>

(* A position that cannot start a frame is erased, unless a frame that is  *)
(* still arriving was met before it.                                       *)
SkipByte ==
  /\ eraseSize' = IF okHeadFound THEN eraseSize ELSE i + 1
  /\ i' = i + 1
  /\ UNCHANGED <<line, read, base, pc, okHeadFound, delivered>>

ScanBadHead == ScanLoop /\ ~HeadOk /\ SkipByte

ScanIncomplete ==
  /\ ScanLoop /\ HeadOk /\ Incomplete
  /\ okHeadFound' = TRUE
  /\ i' = i + 1
  /\ UNCHANGED <<line, read, base, pc, eraseSize, delivered>>

ScanBadTail == ScanLoop /\ HeadOk /\ ~Incomplete /\ ~TailOk /\ SkipByte

(* Variant: a delivered frame is not marked for erasing.                   *)
ScanFrameKept ==
  /\ ScanLoop /\ HeadOk /\ ~Incomplete /\ TailOk
  /\ delivered' = IF line[At(i)] \in Handled
                  THEN Append(delivered, line[At(i)])
                  ELSE delivered
  /\ i' = i + 1
  /\ UNCHANGED <<line, read, base, pc, eraseSize, okHeadFound>>

(* The callback of the frame's cmd_id runs, if there is one and its        *)
(* message has this length; the whole buffer is marked for erasing and the *)
(* loop goes on with the next byte of this very frame.                     *)
ScanFrame ==
  /\ ScanLoop /\ HeadOk /\ ~Incomplete /\ TailOk
  /\ delivered' = IF line[At(i)] \in Handled
                  THEN Append(delivered, line[At(i)])
                  ELSE delivered
  /\ eraseSize' = RxSize
  /\ i' = i + 1
  /\ UNCHANGED <<line, read, base, pc, okHeadFound>>

(* Variant: the whole buffer is erased after every scan.                   *)
ScanEndAll ==
  /\ pc = "scan" /\ ~ScanLoop
  /\ base' = read
  /\ pc' = "read"
  /\ UNCHANGED <<line, read, i, eraseSize, okHeadFound, delivered>>

(* Erase the prefix.                                                       *)
ScanEnd ==
  /\ pc = "scan" /\ ~ScanLoop
  /\ base' = base + eraseSize
  /\ pc' = "read"
  /\ UNCHANGED <<line, read, i, eraseSize, okHeadFound, delivered>>

Next ==
  \/ ReadBytes
  \/ ScanBadHead
  \/ ScanIncomplete
  \/ ScanBadTail
  \/ ScanFrame
  \/ ScanEnd

Spec == Init /\ [][Next]_vars

-----------------------------------------------------------------------------
(* The state has its types, and the scan stays inside rxBuffer.            *)
TypeOK ==
  /\ line \in Seq(0 .. StreamLen)
  /\ read \in 0 .. Len(line)
  /\ base \in 0 .. read
  /\ pc \in {"read", "scan"}
  /\ pc = "scan" => /\ RxSize >= HeadSize + TailSize
                    /\ i \in 0 .. RxSize - HeadSize - TailSize
                    /\ eraseSize \in 0 .. RxSize
  /\ i \in Nat
  /\ eraseSize \in Nat
  /\ okHeadFound \in BOOLEAN
  /\ delivered \in Seq(Handled)

(* No frame reaches its callback twice or after a later one, although scan *)
(* walks on through a frame it has just delivered and, after it, lowers    *)
(* eraseSize again, so that bytes of a delivered frame stay in rxBuffer.   *)
DeliveredInOrder ==
  \A a, b \in 1 .. Len(delivered) : a < b => delivered[a] < delivered[b]

(* A frame that is whole on the line from place k on.                      *)
Whole(k) ==
  /\ line[k] \in Frames
  /\ k + SizeAt(line[k]) - 1 <= Len(line)
  /\ Untouched(k, SizeAt(line[k]))

IsDelivered(f) == \E a \in 1 .. Len(delivered) : delivered[a] = f

(* A scan leaves no frame that is complete in rxBuffer without a call of   *)
(* its callback, whatever broken or imitated heads surround it.            *)
CompleteFramesDelivered ==
  pc = "scan" /\ ~ScanLoop =>
    \A k \in base + 1 .. read :
      Whole(k) /\ line[k] \in Handled /\ k + SizeAt(line[k]) - 1 <= read
        => IsDelivered(line[k])

(* Between two reads rxBuffer holds less than the longest frame a valid    *)
(* head announced: garbage does not pile up, though push(char*, int) never *)
(* looks at maxSize.                                                       *)
BufferBounded ==
  pc = "read" =>
    \/ RxSize <= HeadSize + TailSize
    \/ \E b \in DOMAIN HeadLen : RxSize < SizeAt(b)

(* A place before k where a head passes its checkers but no frame follows: *)
(* a frame that lost bytes, or payload bytes that look like a head.        *)
BrokenHeadBefore(k) ==
  \E h \in 1 .. k - 1 :
    /\ line[h] \in DOMAIN HeadLen
    /\ h + HeadChecked - 1 <= Len(line)
    /\ Untouched(h, HeadChecked)
    /\ ~Whole(h)

(* A frame that arrived whole is only ever lost behind such a head.        *)
LossNeedsBrokenHead ==
  pc = "read" =>
    \A k \in 1 .. read :
      Whole(k) /\ line[k] \in Handled /\ k + SizeAt(line[k]) - 1 <= read
        => IsDelivered(line[k]) \/ BrokenHeadBefore(k)

(* What the scanner promises of frames, whatever the line does to them: no   *)
(* callback runs twice or late, no scan leaves a whole frame undelivered,     *)
(* and one is only lost behind a broken head (serial_pro's scan).             *)
FramesSound == DeliveredInOrder /\ CompleteFramesDelivered /\ LossNeedsBrokenHead

(* What robot_sentry.h says of rxLessThanLength: a message that is not yet *)
(* complete in the buffer is tried again at the next scan.  So a frame     *)
(* that arrived whole has been delivered once all of it has been read.     *)
IncompleteIsRetried ==
  pc = "read" =>
    \A k \in 1 .. read :
      Whole(k) /\ line[k] \in Handled /\ k + SizeAt(line[k]) - 1 <= read
        => IsDelivered(line[k])
=============================================================================
