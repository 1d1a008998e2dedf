-------------------------------- MODULE Startup --------------------------------
(* From the start of the daemon to the main loop, and its reconnects        *)
(* (aqualinkd.c main_loop, auto_configure.c).  The panel polls one address  *)
(* after the other, with a probe if nobody answered it there before.        *)
(* AqualinkD waits for probes of its addresses, or picks addresses whose    *)
(* probes nobody answers, and answers only then.  The port may be lost.     *)
EXTENDS Integers, Sequences

CONSTANTS
    Cycles,         \* orders in which the panel polls addresses
    Neighbours,     \* sets of addresses at which there are other devices
    Configurations, \* [device, rssa, extended] of aqualinkd.conf
    MaxWait,        \* packets until missing probes have consequences (2000)
    MaxAutoPackets, \* MAX_AUTO_PACKETS (1200)
    ReconnectAfter, \* MAX_ZERO_READ_BEFORE_RECONNECT (10)
    LostPackets,    \* bound: packets that nobody or not everybody hears
    PortLosses      \* bound

AllButtonIds == 8..11
RssaIds == {72, 73}
OneTouchIds == 64..67
TouchIds == 48..51
UsableIds == AllButtonIds \cup RssaIds \cup OneTouchIds \cup TouchIds
Master == 0     \* DEV_MASTER
None == 0       \* 0x00, for the device: search
AutoId == 255   \* 0xFF, for the device: configure all of them

ASSUME StartupAssumption ==
    /\ {MaxWait, MaxAutoPackets, LostPackets, PortLosses} \subseteq Nat
    /\ ReconnectAfter \in Nat /\ ReconnectAfter >= 2
    /\ Configurations \subseteq
          [device : AllButtonIds \cup {None, AutoId}, rssa : RssaIds \cup {None},
           extended : OneTouchIds \cup TouchIds \cup {None}]
    /\ Cycles \subseteq Seq(1..254) \ {<<>>} /\ Neighbours \subseteq SUBSET (1..254)

VARIABLES
    order, neighbours, configuration,   \* of this run
    position,   \* in the order
    known,      \* addresses that the panel does not probe
    aqd,        \* the local and static variables
    fd,         \* "valid", "stale" (the port was lost since), "none"
    portUp,
    lostPackets, portLosses

startupEnv == <<order, neighbours, configuration>>
startupVars == <<startupEnv, position, known, aqd, fd, portUp, lostPackets, portLosses>>

Awaits(s) == s.phase = "waiting"

Fresh ==
    [phase |-> "waiting", device |-> None, rssa |-> None, extended |-> None, probed |-> {},
     unanswered |-> [d \in AllButtonIds |-> 0], lastID |-> None, firstprobe |-> None,
     pass |-> None, gotRev |-> FALSE, loops |-> 0, packets |-> 0, complete |-> TRUE,
     i |-> 0, blank |-> 0]

StartupInit ==
    /\ order \in Cycles /\ neighbours \in Neighbours /\ configuration \in Configurations
    /\ position = 1
    /\ known \in {neighbours, neighbours \cup {configuration.device}, {}}
    /\ portUp \in BOOLEAN /\ fd = IF portUp THEN "valid" ELSE "none"
    /\ aqd = [Fresh EXCEPT !.phase = IF portUp THEN "waiting" ELSE "running",
                            !.device = configuration.device, !.rssa = configuration.rssa,
                            !.extended = configuration.extended,
                            !.complete = ~portUp \/ configuration.device # AutoId]
    /\ lostPackets = 0 /\ portLosses = 0

Packet(d, c) == [dest |-> d, cmd |-> c]

-----------------------------------------------------------------------------
(* (Fault) An answer to the probe is taken for other traffic.               *)
CountsAnswers(s, p) ==
    LET n == s.unanswered[s.lastID] + 1
    IN IF p.dest \in AllButtonIds /\ p.cmd = "probe" THEN [s EXCEPT !.lastID = p.dest]
       ELSE IF s.lastID = None THEN s
       ELSE [s EXCEPT !.unanswered[s.lastID] = n, !.lastID = None,
                      !.device = IF n >= 3 THEN s.lastID ELSE None]

(* (Fault) The count starts afresh with every probe.                        *)
CountsAfresh(s, p) ==
    IF p.dest \in AllButtonIds /\ p.cmd = "probe"
    THEN [s EXCEPT !.lastID = p.dest, !.unanswered = [d \in AllButtonIds |-> 0]]
    ELSE IF p.dest = Master \/ s.lastID = None THEN [s EXCEPT !.lastID = None]
    ELSE [s EXCEPT !.unanswered[s.lastID] = @ + 1, !.lastID = None]

(* A probe to an AllButton address that is followed by a packet that is     *)
(* neither such a probe nor an answer counts for the address; three do.     *)
find_unused_address(s, p) ==
    LET n == s.unanswered[s.lastID] + 1
    IN IF p.dest \in AllButtonIds /\ p.cmd = "probe" THEN [s EXCEPT !.lastID = p.dest]
       ELSE IF p.dest = Master \/ s.lastID = None THEN [s EXCEPT !.lastID = None]
       ELSE [s EXCEPT !.unanswered[s.lastID] = n, !.lastID = None,
                      !.device = IF n >= 3 THEN s.lastID ELSE None]

(* The first address forgets what was configured.                           *)
Forgets(s) ==
    IF s.firstprobe # None THEN s
    ELSE [s EXCEPT !.firstprobe = s.lastID, !.device = None, !.rssa = None, !.extended = None]

(* An address is taken if there is none of its kind yet; an iAqualink Touch *)
(* address is preferred to a OneTouch one.                                  *)
Picks(t, d) ==
    CASE d \in AllButtonIds /\ t.device \in {None, AutoId} -> [t EXCEPT !.device = d]
      [] d \in RssaIds /\ t.rssa = None -> [t EXCEPT !.rssa = d]
      [] d \in OneTouchIds /\ t.extended = None -> [t EXCEPT !.extended = d]
      [] d \in TouchIds /\ t.extended \notin TouchIds -> [t EXCEPT !.extended = d]
      [] OTHER -> t

(* The last probe was not answered.                                         *)
Adopt(s) == [Picks(Forgets(s), s.lastID) EXCEPT !.lastID = None]

(* The main loop begins; what only the wait reads is forgotten.             *)
Begin(s) ==
    [Fresh EXCEPT !.phase = "running", !.device = s.device, !.rssa = s.rssa, !.extended = s.extended]

Round(s, p) == s.firstprobe # None /\ p = Packet(s.firstprobe, "probe")

(* auto_configure.  The first AllButton address that is probed is used to   *)
(* ask the panel for its revision, before it is known to be free.  It ends  *)
(* after two rounds or too many packets; the third way, with the size of    *)
(* the panel from a PC dock, is left out.                                   *)
AsksRevision(s, p) ==
    p.cmd = "probe" /\ p.dest \in AllButtonIds /\ ~s.gotRev /\ s.pass = None
auto_configure(s0, p) ==
    LET s == [s0 EXCEPT !.packets = @ + 1]
        loops == s.loops + (IF Round(s, p) THEN 1 ELSE 0)
    IN CASE s.packets >= MaxAutoPackets -> Begin(s)
         [] s.packets < MaxAutoPackets /\ p = Packet(s.pass, "rev") /\ ~s.gotRev ->
              [s EXCEPT !.gotRev = TRUE]
         [] s.packets < MaxAutoPackets /\ AsksRevision(s, p) -> [s EXCEPT !.pass = p.dest]
         [] OTHER ->
              IF s.lastID # None /\ p.dest # Master THEN Adopt(s)
              ELSE IF loops >= 2 THEN Begin(s)
              ELSE [s EXCEPT !.loops = loops,
                             !.lastID = IF p.cmd = "probe" /\ p.dest \in UsableIds THEN p.dest ELSE None]

(* Neither of the addresses that are waited for.  Without a probe for long  *)
(* the other addresses are given up, and the device's is waited for again.  *)
Other(s) ==
    IF s.i <= MaxWait THEN [s EXCEPT !.i = @ + 1]
    ELSE [s EXCEPT !.rssa = IF @ \in s.probed THEN @ ELSE None,
                   !.extended = IF @ \in s.probed THEN @ ELSE None,
                   !.i = IF s.device \in s.probed THEN @ ELSE 0]

Missing(s) == {s.device, s.rssa, s.extended} \ (s.probed \cup {None})
WaitRead(s, p) ==
    CASE ~s.complete -> auto_configure(s, p)
      [] s.complete /\ s.device = None -> find_unused_address(s, p)
      [] s.complete /\ s.device # None ->
           IF p.dest \in Missing(s)
           THEN [s EXCEPT !.probed = IF p.cmd = "probe" THEN @ \cup {p.dest} ELSE @]
           ELSE Other(s)

(* The loop ends.                                                           *)
Started(s) ==
    IF Awaits(s) /\ s.complete /\ s.device # None /\ Missing(s) = {}
    THEN Begin(s) ELSE s
Read(s, p) == IF Awaits(s) THEN Started(WaitRead(s, p)) ELSE [s EXCEPT !.blank = 0]

-----------------------------------------------------------------------------
(* Whether AqualinkD answers a packet.                                      *)
Answers(s, p) ==
    IF Awaits(s)
    THEN ~s.complete /\ s.packets + 1 < MaxAutoPackets /\ (AsksRevision(s, p) \/
                         (p.dest = s.pass /\ p.cmd = "msg" /\ ~s.gotRev))
    ELSE p.dest \in {s.device, s.rssa, s.extended}

(* The panel polls an address, a device answers or does not, and AqualinkD, *)
(* between two reads, hears it.  The poll may not be heard by AqualinkD,    *)
(* the answer by nobody.                                                    *)
Reads == fd = "valid" /\ (Awaits(aqd) \/ aqd.blank < ReconnectAfter)
PanelPolls ==
    LET d == order[position]
    IN \E poll, answer \in {"heard", "lost"} :
       \E c \in IF d \notin known THEN {"probe"} ELSE {"msg"} \cup (IF d \in AllButtonIds THEN {"rev"} ELSE {}) :
       LET p == Packet(d, c)
           there == d \in neighbours
           ours == Reads /\ poll = "heard" /\ Answers(aqd, p)
           s == IF poll = "heard" THEN Read(aqd, p) ELSE aqd
           hears == there /\ answer = "heard"
       IN /\ Reads \/ fd # "valid"
          /\ lostPackets' = lostPackets + (IF poll = "lost" THEN 1 ELSE 0) + (IF answer = "lost" THEN 1 ELSE 0)
          /\ lostPackets' <= LostPackets
          /\ ~there => answer = "heard"
          /\ ~Reads => poll = "heard"
          /\ aqd' = IF ~Reads THEN aqd ELSE IF hears THEN Read(s, Packet(Master, "ack")) ELSE s
          /\ known' \in IF hears \/ ours THEN {known \cup {d}}
                        ELSE IF there THEN {known} ELSE {known \ {d}}
          /\ position' = (position % Len(order)) + 1
          /\ UNCHANGED <<startupEnv, fd, portUp, portLosses>>

(* (Fault) An error is not counted.                                         *)
ErrorUncounted(s) == IF fd = "stale" THEN s ELSE [s EXCEPT !.blank = @ + 1]

(* Reading nothing, or with a port that was lost nothing but errors.  In    *)
(* the wait for probes the count is reset at half of its limit and would    *)
(* have a consequence at twice its limit: it is left out.                   *)
Blank(s) ==
    IF Awaits(s) THEN s
    ELSE [s EXCEPT !.blank = IF fd = "stale" THEN ReconnectAfter + 1 ELSE @ + 1]
ReadNothing ==
    /\ fd # "none" /\ (Awaits(aqd) \/ aqd.blank < ReconnectAfter)
    /\ aqd' = Blank(aqd)
    /\ UNCHANGED <<startupEnv, position, known, fd, portUp, lostPackets, portLosses>>

(* The main loop opens the port again.                                      *)
Reconnect ==
    /\ ~Awaits(aqd) /\ (fd = "none" \/ aqd.blank >= ReconnectAfter)
    /\ fd' = IF portUp THEN "valid" ELSE "none"
    /\ aqd' = [aqd EXCEPT !.blank = 0]
    /\ UNCHANGED <<startupEnv, position, known, portUp, lostPackets, portLosses>>

PortLost ==
    /\ portUp /\ portLosses < PortLosses /\ portLosses' = portLosses + 1
    /\ portUp' = FALSE /\ fd' = IF fd = "valid" THEN "stale" ELSE fd
    /\ UNCHANGED <<startupEnv, position, known, aqd, lostPackets>>
PortBack ==
    /\ ~portUp /\ portUp' = TRUE
    /\ UNCHANGED <<startupEnv, position, known, aqd, fd, lostPackets, portLosses>>

StartupNext == PanelPolls \/ ReadNothing \/ Reconnect \/ PortLost \/ PortBack
StartupFairness ==
    WF_startupVars(PanelPolls) /\ WF_startupVars(fd = "stale" /\ ReadNothing) /\ WF_startupVars(Reconnect)

-----------------------------------------------------------------------------
(* An address that AqualinkD found by itself is one at which there is no    *)
(* other device: with fewer than three lost packets when it searched for    *)
(* the AllButton address, and with none when it configured all of them.     *)
Found ==
    {aqd.device} \cup ({aqd.rssa} \ {configuration.rssa})
        \cup ({aqd.extended} \ {configuration.extended})
ChosenIsFree ==
    /\ configuration.device = None /\ lostPackets < 3 => aqd.device \notin neighbours
    /\ configuration.device = AutoId /\ lostPackets = 0 => Found \cap neighbours = {}

(* A free AllButton address is noticed when the next poll is not a probe of *)
(* another such address.                                                    *)
NextPoll(k) == order[(k % Len(order)) + 1]
Noticeable ==
    \E k \in DOMAIN order :
        order[k] \in AllButtonIds \ neighbours /\ NextPoll(k) \notin AllButtonIds \ neighbours
Startable ==
    CASE configuration.device = AutoId -> TRUE
      [] configuration.device = None -> Noticeable
      [] OTHER -> configuration.device \notin neighbours

(* AqualinkD gets to its main loop: if a free address can be noticed when   *)
(* it has to search for one, if no other device has the configured address, *)
(* and unless the port is lost in the wait, which never opens it again.     *)
StartsAtLast == Startable ~> (~Awaits(aqd) \/ fd = "stale")

(* In the main loop a port that is back is read from again.                 *)
ReadsAgain == (~Awaits(aqd) /\ portUp) ~> (fd = "valid" \/ ~portUp)

(* Both: whatever order the panel polls in, whoever else is on the bus and  *)
(* whenever the port is lost, AqualinkD ends up reading its panel's packets.*)
GetsToThePanel == StartsAtLast /\ ReadsAgain
=============================================================================
