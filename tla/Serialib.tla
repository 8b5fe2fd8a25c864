------------------------------ MODULE Serialib ------------------------------
(***************************************************************************)
(* The serial port class (thirdparty/serialib/serialib.cpp), as built for  *)
(* Linux: a descriptor, reads that poll it until enough has come or the    *)
(* time is up, writes, and the modem lines.  Bytes are the numbers         *)
(* 1, 2, 3, ... in the order the device sends them; a byte may be the      *)
(* final character a string read waits for.  Opening fails late when the   *)
(* descriptor is there and a setting is not known.                         *)
(***************************************************************************)
EXTENDS Integers, Sequences, FiniteSets, SequencesExt

CONSTANTS
    MaxBytes,    \* bound: bytes the device sends
    MaxElapsed,  \* bound: milliseconds a call is followed for
    MaxNbBytes,  \* the lengths callers ask for
    TimeOuts,    \* the timeouts callers give; 0 waits for ever
    MaxOpens     \* bound: times the device is opened

VARIABLES
    fd,       \* 0 for -1, or the number of the descriptor this object holds
    open,     \* the descriptors the process has open
    opens,
    plugged,  \* whether the device answers
    kernel,   \* bytes in the receive queue, each [n, final]
    arrived,  \* how many bytes the device has sent
    call,     \* the read going on, or Idle
    given,    \* the bytes the reads reported to their callers
    dropped,  \* the bytes a read took and did not report
    blame     \* the kinds of read, and of end, that dropped bytes

serVars == <<fd, open, opens, plugged, kernel, arrived, call, given, dropped, blame>>
portVars == <<fd, open, opens>>

Idle == [op |-> "none"]
Numbers(bytes) == [i \in DOMAIN bytes |-> bytes[i].n] \o <<>>
\* What elapsedTime_ms returns after the wall clock was set back: a negative
\* int made an unsigned long.
Huge == 1000000

-----------------------------------------------------------------------------
(* The device *)

Send(final) ==
    /\ plugged /\ arrived < MaxBytes
    /\ arrived' = arrived + 1
    /\ kernel' = Append(kernel, [n |-> arrived + 1, final |-> final])
    /\ UNCHANGED <<portVars, plugged, call, given, dropped, blame>>

Unplug ==
    /\ plugged
    /\ plugged' = FALSE
    /\ UNCHANGED <<portVars, kernel, arrived, call, given, dropped, blame>>

\* The time of day goes on, or is set back, while a read is going on.  A string
\* read would wait for one more byte after that, which is left out.
Tick ==
    /\ call # Idle /\ call.elapsed < MaxElapsed
    /\ \/ call' = [call EXCEPT !.elapsed = @ + 1]
       \/ call.op # "readString" /\ call' = [call EXCEPT !.elapsed = Huge]
    /\ UNCHANGED <<portVars, plugged, kernel, arrived, given, dropped, blame>>

-----------------------------------------------------------------------------
(* Opening, closing, moving *)

\* The descriptor is kept when a setting is refused after the opening, and one
\* that was held is overwritten.
openDevice ==
    /\ call = Idle /\ opens < MaxOpens
    /\ opens' = opens + 1
    /\ IF plugged THEN /\ fd' = opens + 1
                       /\ open' = open \cup {opens + 1}
       ELSE fd' = 0 /\ open' = open
    /\ UNCHANGED <<plugged, kernel, arrived, call, given, dropped, blame>>

isDeviceOpen == fd # 0

closeDevice ==
    /\ call = Idle
    /\ open' = open \ {fd}
    /\ fd' = 0
    /\ UNCHANGED <<opens, plugged, kernel, arrived, call, given, dropped, blame>>

flushReceiver ==
    /\ call = Idle /\ isDeviceOpen
    /\ kernel' = <<>>
    /\ dropped' = dropped \cup ToSet(Numbers(kernel))
    /\ blame' = blame \cup (IF kernel = <<>> THEN {} ELSE {<<"flush", "all">>})
    /\ UNCHANGED <<portVars, plugged, arrived, call, given>>

-----------------------------------------------------------------------------
(* Reading *)

\* The calls, with the timer started.
Begin(op, max, timeout) ==
    /\ call = Idle
    /\ call' = [op |-> op, max |-> IF op = "readChar" THEN 1 ELSE max, timeout |-> timeout,
                got |-> <<>>, elapsed |-> 0]
    /\ UNCHANGED <<portVars, plugged, kernel, arrived, given, dropped, blame>>

\* A read ends with what its result tells the caller of: all it took, or nothing.
Report ==
    /\ call' = Idle
    /\ given' = given \o Numbers(call.got)
    /\ UNCHANGED <<dropped, blame>>

Forget(why) ==
    /\ call' = Idle
    /\ dropped' = dropped \cup ToSet(Numbers(call.got))
    /\ blame' = blame \cup (IF call.got = <<>> THEN {} ELSE {<<call.op, why>>})
    /\ given' = given

\* Variant: what came before the time was up is not handed over.
EndOfTimeEmpty == Forget("timeout")

\* The time is up: readBytes hands over what came, readString returns 0.
EndOfTime == IF call.op = "readString" THEN Forget("timeout") ELSE Report

TimeLeft == call.timeout = 0 \/ call.elapsed < call.timeout

\* read() of the descriptor: at most `most` bytes, -1 without a device.
read(most) ==
    LET n == IF most < Len(kernel) THEN most ELSE Len(kernel)
        got == call.got \o SubSeq(kernel, 1, n)
        full == Len(got) >= call.max
        done == /\ call.op = "readString" /\ n = 1
                /\ kernel[1].final
    IN  /\ kernel' = SubSeq(kernel, n + 1, Len(kernel))
        /\ IF done \/ (full /\ call.op # "readString")
           THEN call' = Idle /\ given' = given \o Numbers(got) /\ UNCHANGED <<dropped, blame>>
           ELSE IF full  \* -3, MaxNbBytes is reached
           THEN /\ call' = Idle
                /\ dropped' = dropped \cup ToSet(Numbers(got))
                /\ blame' = blame \cup {<<call.op, "full">>}
                /\ given' = given
           ELSE call' = [call EXCEPT !.got = got] /\ UNCHANGED <<given, dropped, blame>>

\* One turn of the loop of a read.
Poll ==
    /\ call # Idle
    /\ \/ /\ TimeLeft /\ plugged /\ isDeviceOpen
          /\ read(IF call.op = "readBytes" THEN call.max - Len(call.got) ELSE 1)
       \/ /\ TimeLeft /\ ~(plugged /\ isDeviceOpen)
          /\ Forget("error")
          /\ kernel' = kernel
       \/ /\ ~TimeLeft
          /\ call.op = "readString" => call.elapsed > call.timeout
          /\ EndOfTime
          /\ kernel' = kernel
    /\ UNCHANGED <<portVars, plugged, arrived>>

SerInit ==
    /\ fd = 0 /\ open = {} /\ opens = 0
    /\ plugged = TRUE /\ kernel = <<>> /\ arrived = 0
    /\ call = Idle /\ given = <<>> /\ dropped = {} /\ blame = {}

SerNext ==
    \/ \E final \in BOOLEAN : Send(final)
    \/ Unplug
    \/ Tick
    \/ openDevice
    \/ closeDevice
    \/ flushReceiver
    \/ \E op \in {"readChar", "readBytes", "readString"}, max \in MaxNbBytes, t \in TimeOuts :
         isDeviceOpen /\ Begin(op, max, t)
    \/ Poll

SerSpec == SerInit /\ [][SerNext]_serVars

-----------------------------------------------------------------------------
(* Properties *)

\* However reads of the three kinds, timeouts, a clock set back and an unplugged
\* device follow each other, every byte reaches its caller once and in order,
\* and a byte is lost only to a string read that timed out or grew too long, to
\* an error in the middle of a read, or to a flush: never to a byte read that
\* timed out (serialib.cpp:643-696).
BytesAccounted ==
    LET held == IF call = Idle THEN <<>> ELSE Numbers(call.got)
        all  == given \o held \o Numbers(kernel)
    IN  /\ \A i, j \in DOMAIN all : i < j => all[i] < all[j]
        /\ ToSet(all) \cup dropped = 1..arrived
        /\ ToSet(all) \cap dropped = {}
        /\ \A b \in blame : b[1] \in {"flush", "readString"} \/ b[2] = "error"

\* The descriptors that are open are those this object holds.
DescriptorsOwned == open \subseteq {fd}
=============================================================================
