---------------------------- MODULE PacketReader ----------------------------
(* The serial packet reader, get_packet of aq_serial.c: it takes one byte   *)
(* after the other from a bus on which Jandy frames (DLE STX ... checksum   *)
(* DLE ETX, with a NUL after each DLE inside) and Pentair frames (a         *)
(* preamble, a header with a count, data, checksum) follow each other, and  *)
(* returns a frame, an error, or 0 when a second goes by without a byte.    *)
(* The bus loses, adds or cuts off bytes.  Bytes are the numbers they are.  *)
EXTENDS Integers, Sequences

CONSTANTS
    JandyFrames,    \* what the devices send: destination, command and data
    PentairFrames,  \* version, destination, source, command, count and data
    NoiseBytes,     \* the bytes that the bus may add
    MaxPacket,      \* AQ_MAXPKTLEN (512)
    MaxRetry,       \* reads that fail before get_packet gives up (10)
    Mishaps         \* bound: how many things go wrong on the bus

ASSUME ReaderAssumption ==
    /\ JandyFrames \subseteq Seq(0..255) /\ PentairFrames \subseteq Seq(0..255)
    /\ NoiseBytes \subseteq 0..255
    /\ {MaxPacket, MaxRetry, Mishaps} \subseteq Nat

NUL == 0
STX == 2
ETX == 3
DLE == 16
PP1 == 255
PP2 == 0
PP3 == 255
PP4 == 165
MinPacket == 5

VARIABLES
    wire,       \* the bytes of the present frame that have not been read
    frame,      \* the packet that the present frame should be read as
    packet,     \* packet, its length is index
    started,    \* jandyPacketStarted, pentairPacketStarted, or neither
    lastByteDLE,
    preCnt,     \* PentairPreCnt
    dataCnt,    \* PentairDataCnt
    retry,
    returned,   \* what get_packet returned last
    whole,      \* nothing has happened to the present frame (history)
    inStep,     \* it began when get_packet had read nothing else (history)
    since,      \* how many whole frames came since something happened (history)
    wrong       \* how often something went wrong (bound)

localVars == <<packet, started, lastByteDLE, preCnt, dataCnt, retry>>
readerVars == <<wire, frame, localVars, returned, whole, inStep, since, wrong>>

-----------------------------------------------------------------------------
(* The checksums.                                                           *)
SumOf(s) ==
    LET sum[k \in 0..Len(s)] == IF k = 0 THEN 0 ELSE sum[k - 1] + s[k]
    IN sum[Len(s)]
generate_checksum(s) == SumOf(SubSeq(s, 1, Len(s) - 3)) % 256
check_jandy_checksum(s) ==
    \/ generate_checksum(s) = s[Len(s) - 2]
    \/ Len(s) > 4 /\ s[4] = 4 /\ s[5] = 3 /\ s[Len(s) - 2] = 10
Pair(s, k) == s[k] * 256 + s[k + 1]
check_pentair_checksum(s) ==
    LET n == s[9] + 9
        sum == SumOf(SubSeq(s, 4, n))
    IN sum = Pair(s, Len(s) - 1) \/ (n + 2 <= Len(s) /\ sum = Pair(s, n + 1))

(* What the devices put on the wire, and what it should be read as.         *)
JandyPacket(f) ==
    LET head == <<DLE, STX>> \o f
    IN head \o <<SumOf(head) % 256, DLE, ETX>>
Escaped(f) ==
    LET upTo[k \in 0..Len(f)] ==
            IF k = 0 THEN <<>>
            ELSE upTo[k - 1] \o (IF f[k] = DLE THEN <<DLE, NUL>> ELSE <<f[k]>>)
    IN upTo[Len(f)]
JandyWire(f) == <<DLE, STX>> \o Escaped(f) \o SubSeq(JandyPacket(f), Len(f) + 3, Len(f) + 5)
PentairPacket(f) ==
    LET sum == SumOf(<<PP4>> \o f)
    IN <<PP1, PP2, PP3, PP4>> \o f \o <<sum \div 256, sum % 256>>

(* Four bytes of w of which the reader takes the last, at p, for the end of *)
(* a Pentair preamble; it does not mind a PP1 or a PP4 before it.           *)
PreambleAt(w, p) ==
    \E i \in 1..(p - 3) :
        /\ w[i] = PP1 /\ w[i + 1] = PP2 /\ w[i + 2] = PP3 /\ w[p] = PP4
        /\ \A j \in (i + 3)..(p - 1) : w[j] \in {PP1, PP4}

(* The frames fit, a Pentair frame has the bytes that it counts, and none   *)
(* has what looks like the preamble of another one: the reader would begin  *)
(* a packet there.                                                          *)
ASSUME FrameAssumption ==
    /\ \A f \in JandyFrames :
          /\ Len(f) + 5 < MaxPacket
          /\ \A p \in 1..Len(JandyWire(f)) : ~PreambleAt(JandyWire(f), p)
    /\ \A f \in PentairFrames :
          /\ Len(f) >= 5 /\ Len(f) = f[5] + 5 /\ Len(f) + 6 < MaxPacket
          /\ \A p \in 1..Len(PentairPacket(f)) : PreambleAt(PentairPacket(f), p) => p = 4

-----------------------------------------------------------------------------
(* The local variables when get_packet is called.                           *)
FreshLocals ==
    /\ packet' = <<>> /\ started' = "no" /\ lastByteDLE' = FALSE
    /\ preCnt' = 0 /\ dataCnt' = -1 /\ retry' = 0

FreshNow ==
    /\ packet = <<>> /\ started = "no" /\ ~lastByteDLE
    /\ preCnt = 0 /\ dataCnt = -1

Return(r) == returned' = r /\ FreshLocals

ReaderInit ==
    /\ wire = <<>> /\ frame = <<>>
    /\ packet = <<>> /\ started = "no" /\ lastByteDLE = FALSE
    /\ preCnt = 0 /\ dataCnt = -1 /\ retry = 0
    /\ returned = <<>> /\ whole = TRUE /\ inStep = TRUE /\ since = 2 /\ wrong = 0

(* What the byte b adds to the packet.  The DLE in front of it is put at    *)
(* its place in an empty packet.                                            *)
Stored(b) ==
    CASE lastByteDLE /\ b = NUL -> packet
      [] lastByteDLE /\ b # NUL -> (IF packet = <<>> THEN <<DLE>> ELSE packet) \o <<b>>
      [] ~lastByteDLE -> IF started = "no" THEN packet ELSE Append(packet, b)

Begun(b) == IF lastByteDLE /\ b = STX /\ started # "jandy" THEN "jandy" ELSE started
Count(b) == IF ~lastByteDLE /\ started = "pentair" /\ Len(Stored(b)) = 9 THEN b ELSE dataCnt
Ends(b) ==
    \/ lastByteDLE /\ b = ETX /\ started = "jandy"
    \/ ~lastByteDLE /\ started = "pentair" /\ Count(b) >= 0 /\ Len(Stored(b)) - 11 >= Count(b)

(* The fourth byte of a Pentair preamble starts a packet afresh.            *)
Preamble(b) == b = PP4 /\ preCnt = 3
PreCount(b) ==
    CASE b = PP1 /\ preCnt = 0 -> 1
      [] b = PP2 /\ preCnt = 1 -> 2
      [] b = PP3 /\ preCnt = 2 -> 3
      [] OTHER -> IF b = PP1 \/ Preamble(b) THEN preCnt ELSE 0

(* (Fault) A DLE that is escaped stays in mind.                             *)
GoOnKeepsDLE(b) ==
    LET begins == b = DLE /\ started # "pentair"
        kept == IF Begun(b) = "no" THEN <<>> ELSE Stored(b)
        fresh == ~begins /\ Preamble(b)
    IN /\ packet' = IF fresh THEN <<PP1, PP2, PP3, PP4>> ELSE kept
       /\ started' = IF fresh THEN "pentair" ELSE Begun(b)
       /\ dataCnt' = IF fresh THEN -1 ELSE Count(b)
       /\ lastByteDLE' = (begins \/ (lastByteDLE /\ b = NUL))
       /\ preCnt' = IF begins THEN -1 ELSE PreCount(b)
       /\ retry' = 0
       /\ UNCHANGED returned

(* A byte in the middle of a packet, or before one.                         *)
GoOn(b) ==
    LET begins == b = DLE /\ started # "pentair"
        kept == IF Begun(b) = "no" THEN <<>> ELSE Stored(b)
        fresh == ~begins /\ Preamble(b)
    IN /\ packet' = IF fresh THEN <<PP1, PP2, PP3, PP4>> ELSE kept
       /\ started' = IF fresh THEN "pentair" ELSE Begun(b)
       /\ dataCnt' = IF fresh THEN -1 ELSE Count(b)
       /\ lastByteDLE' = begins
       /\ preCnt' = IF begins THEN -1 ELSE PreCount(b)
       /\ retry' = 0
       /\ UNCHANGED returned

(* The packet is complete.  An error is returned as a number.               *)
Checked(s) ==
    CASE started = "jandy" /\ ~check_jandy_checksum(s) -> <<-3>>
      [] started = "pentair" /\ ~check_pentair_checksum(s) -> <<-3>>
      [] OTHER -> IF Len(s) < MinPacket THEN <<-5>> ELSE s

(* The rest of a frame that the reader has lost is not what was sent.       *)
Trouble == whole' = FALSE /\ since' = 0 /\ UNCHANGED inStep
NoTrouble == UNCHANGED <<whole, since, inStep>>

TooLarge(b) == Len(Stored(b)) >= MaxPacket /\ (Preamble(b) => Ends(b))

ReadByte ==
    /\ wire # <<>>
    /\ wire' = Tail(wire)
    /\ LET b == Head(wire)
       IN CASE TooLarge(b) -> Return(<<-4>>)
            [] ~TooLarge(b) /\ Ends(b) -> Return(Checked(Stored(b)))
            [] OTHER -> GoOn(b)
    /\ UNCHANGED <<frame, wrong>> /\ NoTrouble

(* select found no byte for a second: what was read of a frame is dropped.  *)
(* In the middle of a frame that is a mishap.                               *)
ReadTimeout ==
    /\ Return(<<0>>)
    /\ IF wire = <<>> THEN NoTrouble /\ UNCHANGED wrong
       ELSE wrong < Mishaps /\ wrong' = wrong + 1 /\ Trouble
    /\ UNCHANGED <<wire, frame>>

Retries == started # "no" \/ lastByteDLE

(* read fails with EAGAIN although select found a byte; it is tried again   *)
(* in a packet.                                                             *)
ReadAgain ==
    /\ wire # <<>>
    /\ retry > 0 \/ wrong < Mishaps
    /\ wrong' = IF retry > 0 THEN wrong ELSE wrong + 1
    /\ \/ started = "no" /\ ~lastByteDLE /\ Return(<<0>>) /\ Trouble
       \/ Retries /\ retry >= MaxRetry /\ Return(<<-1>>) /\ Trouble
       \/ /\ Retries /\ retry < MaxRetry
          /\ retry' = retry + 1
          /\ UNCHANGED <<packet, started, lastByteDLE, preCnt, dataCnt, returned>> /\ NoTrouble
    /\ UNCHANGED <<wire, frame>>

-----------------------------------------------------------------------------
(* A device sends a frame.  The count of a Pentair packet that was cut      *)
(* short takes bytes of the frames that follow.                             *)
Put(w, p) ==
    /\ wire = <<>>
    /\ wire' = w /\ frame' = p
    /\ whole' = TRUE /\ inStep' = FreshNow
    /\ since' = IF started = "pentair" THEN 0 ELSE IF whole /\ since < 2 THEN since + 1 ELSE since
    /\ UNCHANGED <<localVars, returned, wrong>>
PutJandy == \E f \in JandyFrames : Put(JandyWire(f), JandyPacket(f))
PutPentair == \E f \in PentairFrames : Put(PentairPacket(f), PentairPacket(f))

Damage(w) ==
    /\ wrong < Mishaps /\ wrong' = wrong + 1
    /\ wire' = w /\ Trouble
    /\ UNCHANGED <<frame, localVars, returned>>
LoseByte == wire # <<>> /\ Damage(Tail(wire))
AddByte == \E b \in NoiseBytes : Damage(<<b>> \o wire)
CutOff == wire # <<>> /\ Damage(<<>>)

ReaderNext ==
    \/ ReadByte \/ ReadTimeout \/ ReadAgain
    \/ PutJandy \/ PutPentair
    \/ LoseByte \/ AddByte \/ CutOff

(* A whole frame that begins when get_packet has read nothing else is read  *)
(* as it was sent, whatever was lost, added or cut off before.              *)
InStepIsRead ==
    [][wire # <<>> /\ wire' = <<>> /\ whole' /\ inStep => returned' = frame]_readerVars

(* After a whole Jandy frame, whatever get_packet had read when that began, *)
(* the next frame begins when it has read nothing else, unless it is in a   *)
(* Pentair packet that was cut short.                                       *)
AfterJandyInStep ==
    [][/\ wire = <<>> /\ whole /\ wire' # <<>> /\ whole' /\ started # "pentair"
       /\ \E f \in JandyFrames : frame = JandyPacket(f)
       => inStep']_readerVars

(* Moreover, after a damage the reader is back in step within two frames: of*)
(* the whole frames that follow it may lose the first two (a cut after a DLE*)
(* hides a Pentair preamble, and the next Jandy frame ends what was begun), *)
(* and reads every other one as it was sent.  A Pentair packet cut short is *)
(* not counted before it has got its bytes.                                 *)
LosesTwoAtMost ==
    /\ InStepIsRead
    /\ AfterJandyInStep
    /\ [][wire # <<>> /\ wire' = <<>> /\ whole' /\ since >= 2 => returned' = frame]_readerVars

(* What that asks of the Pentair frames: when the reader has missed the     *)
(* preamble of one, its last bytes must not look like the beginning of      *)
(* another, nor any of them like that of a Jandy frame.                     *)
PlainFrames ==
    \A f \in PentairFrames :
        LET w == PentairPacket(f)
            n == Len(w)
        IN /\ w[n] \notin {DLE, PP1}
           /\ ~(w[n - 1] = PP1 /\ w[n] = PP2)
           /\ \A i \in 1..(n - 1) : ~(w[i] = DLE /\ w[i + 1] = STX)
=============================================================================
