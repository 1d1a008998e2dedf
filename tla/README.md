# A TLA+ model of AqualinkD

AqualinkD is a daemon that connects a Jandy Aqualink pool controller (the panel) to web,
MQTT and HomeKit clients. It sits on the panel's RS485 bus, answers the panel as if it were
one or several of its remotes, presses their keys, and overhears the devices of the pool.
This directory models the parts in which threads, messages and time meet, checks them with
TLC and proves the most important properties with TLAPS. `PROJECT.json` lists the
components, the runs, the hazards and, for each definition, the lines of code that it stands
for.

All paths below are relative to `src/source/`.

## Inventory

There is one global record, `struct aqualinkdata` (aqualink.h), which every part reads and
writes without locks. These threads exist:

* the **main thread** (`main_loop`, aqualinkd.c) reads packets, lets the protocol of the
  addressee process them, acknowledges them with the next command of that protocol's queue,
  and acts on the delayed request;
* the **network thread** (net_services.c, on mongoose) serves web, WebSocket and MQTT
  clients and calls `panel_device_request`;
* **programming threads** (aq_programmer.c), one per menu program, of which one at a time
  may work with the panel;
* **timer threads** (aq_timer.c), one per running device timer, and a sensor thread
  (sensors.c).

| Component | State | Operations | Hard behaviour | Correct when |
|---|---|---|---|---|
| Programming slot (aq_programmer.c) | `active_thread` | start, wait for the slot, take, wait for a message, kick, clear | check and take without a lock, kick without the mutex, timeouts | one program at a time, nobody hangs |
| RS serial adapter (serialadapter.c) | `_rssa_queue`, its length, a packet counter | push, answer, remove, poll | unlocked queue, two-part commands, full queue | a fifo, pairs stay together |
| Delayed request (aqualinkd.c, aq_panel.c) | `unactioned` | request, act, reset | field by field writes, overwritten requests, bursts | one whole request, the last one wins |
| Salt water generator (devices_jandy.c, allbutton.c) | status, LED, percent, boost, delayed percent | poll, answer, missed answer, message, set percent | lost frames, two sources of the status, stale memory of the last report | the status is the last report, a delayed percent is sent |
| Other Jandy devices, Pentair pumps | what each reports | poll, answer | answers do not name their sender | attributed to the polled device |
| AllButton message loop (allbutton.c) | `msg_loop` bits, LEDs, states | message, end of cycle | what was not shown in a cycle is off | the state follows the display |
| Menu programs and their keys (allbutton_, onetouch_, iaqtouch_, pda_aq_programmer.c) | the key that waits, the display as it was read, what is left to do | press, wait, search, count, cancel; resend a key | a lost, late or doubled key on a menu that has moved on | the panel stores what was asked, and nothing else; the slot is given back |
| iAqualink (iaqualink.c) | queue of frames, one shared buffer | push, get, remove, status polls | unlocked, pairs, shared buffer | a frame is one request's, and is sent |
| PDA sleep (pda.c) | pages seen, packet counter | packet, sleep, wake | the order of the pages, a sleep that is disturbed | not silent for too long, looks before it sleeps |
| Startup and reconnect (aqualinkd.c, auto_configure.c) | probes seen, addresses, blank reads | read, probe, give up, reconnect | lost packets, a port that goes away | gets to the main loop, at an address that is free |
| Packet reader (aq_serial.c) | position, escape state | byte | noise, cut frames, two framings | back in step after two frames |
| Timers (aq_timer.c) | list of timers | start, reset, clear, expire | wake-ups lost, list without a lock | fires once, at the last time set |
| Scheduler (aq_scheduler.c) | hours, events | power on, freeze and boost ends | midnight, unset hours | pump on within its hours |
| State broadcast (net_services.c) | `is_dirty`, what was sent last, the MQTT connection | change, broadcast, lose, connect | the flag is cleared last, values are read twice | clean means that the clients know |
| Equipment status (onetouch.c, iaqtouch.c, pda.c) | bits of what was on the pages so far, the page as it was read | page, line, poll, end of the pages | nothing says that a device is off; programs and lost pages cut the series short | after a complete series the state is the panel's |
| Set points (net_services.c, aq_panel.c, aqualinkd.c, aq_programmer.c) | units, known set points, the request that is put off, programs and commands under way | ask, increment, limit, act, set, learn | limits by values that are old, a request dropped as known, programs in any order | the panel has what was asked for last, TEMP1 above TEMP2 |
| Other network services, JSON, configuration, logs, sensors, tables of lights | files | I/O | | |

Interactions: the network thread, timers and the main thread call `panel_device_request`,
which pushes a command, writes the delayed request or starts a programming thread. The main
thread's processors kick the thread in the slot, and its acknowledgements drain the queues.
The network thread sends what all the others have written into `aqualinkdata`.

## Modules

| Module | Models | Composition |
|---|---|---|
| `ProgrammingSlot` | aq_programmer.c: `waitForSingleThreadOrTerminate`, `cleanAndTerminateThread`, `kick_aq_program_thread`; `waitForMessage` | |
| `ProgrammingSlotProofs` | theorems about it | extends it |
| `CommandFifo` | what a command queue promises (abstract) | |
| `RssaQueue` | serialadapter.c, and its acknowledgement in aqualinkd.c | implements `CommandFifo` |
| `RssaQueueProofs` | theorems about it | extends it |
| `DelayedRequest` | `programDeviceValue`, `programDeviceLightBrightness`, `action_delayed_request` | |
| `DelayedRequestProofs` | theorems about it | extends it |
| `SwgDevice` | devices_jandy.c, the SWG messages of allbutton.c, the SWG setpoint | |
| `SwgDeviceProofs` | theorems about it | extends it |
| `DeviceTimer` | aq_timer.c, on, off and timer requests of aq_panel.c, status packets of allbutton.c | |
| `DeviceTimerProofs` | theorems about it | extends it |
| `ProgramThread` | what the menu programs share: steps, waits, the panel's menu position | |
| `AllButtonPrograms`, `OneTouchPrograms`, `IaqTouchPrograms`, `PdaPrograms` | the programs of a remote, its key slot or queue, the panel's menus | extend `ProgramThread` |
| `Programs` | any program of any remote | instantiates the four |
| `AllButtonProofs` | theorems about the programs of the AllButton remote that set a number or read pages | extends `Programs` |
| `PacketReader` | `get_packet` of aq_serial.c | |
| `IaqualinkQueue` | iaqualink.c, and its acknowledgement in aqualinkd.c | |
| `Scheduler` | the events and hours of aq_scheduler.c | |
| `MessageCycle` | the message loop of allbutton.c | extends `Scheduler`, which it calls |
| `StatePublisher` | the broadcast of net_services.c | |
| `Startup` | `main_loop` up to its loop, its reads and reconnect; auto_configure.c | |
| `PdaSleep` | `pda_shouldSleep` | |
| `Setpoints` | set points: `action_URI`, `programDeviceValue`, `action_delayed_request`, `setpoint_check`, `_aq_programmer_` | |
| `StatusPages` | the pages of equipment status of onetouch.c, iaqtouch.c and pda.c | |
| `Daemon` | one of the eight parts above at a time | extends them |
| `DaemonProofs` | theorems about six of its parts: `PdaSleep`, `Startup`, `IaqualinkQueue`, `StatePublisher`, `MessageCycle` with `Scheduler`, `Setpoints` | extends it |
| `BusProofs` | theorems about `PacketReader` and `StatusPages` as parts of `Daemon` | extends `DaemonProofs` |
| `MCSlot`, `MCRssa`, `MCDelayed`, `MCSwg`, `MCTimer`, `MCPrograms`, `MCDaemon` | the constants of the runs | extend the above |

A definition whose comment begins with "(Fault)" is a slip that the code does not have. It
serves to show that a property would notice it.

**ProgrammingSlot.** `thread_id` and `ptype` are the two fields of `active_thread`, written
one after the other as the code does. `pc` follows a thread from the wait for the slot
(`SlotBusy`, `SlotFree`, `GiveUp`) through `TakeSlot` and `NameProgram`, its waits for
messages (`BeginWait` to `Wake`, with the mutex and the condition variable of pthread) to
`ClearSlot` and `ClearType`. A program is its protocol and the number of waits it makes; the
keys it presses are left out.

**RssaQueue.** The test, the increment and the copy of a push are three steps, the memmove
and the decrement of a removal two, interleaved with the other threads. `raced` remembers
that two threads have been inside at a time. In the refinement of `CommandFifo`, `Pending`
is the queue without the slots that are reserved and not stored yet and without the command
that is sent and not removed yet. The increment and the decrement count as one access each.
With panels of 16 and more buttons a poll pushes four more commands.

**DelayedRequest.** One record, written by the two threads one field at a time, in each
function's own order. A request is a number that stands for its value and its id, so a
mixture of two shows; `programDeviceValue` writes no value for a VSPROGRAM, whose value is
therefore left out of `WholeRequest`. `due` counts down instead of comparing with the clock. The handler of
a SWG percent writes the value before it makes its request (`EarlyWrites`). The LIGHT_MODE
request is not modelled.

**SwgDevice.** The panel polls any device; a poll or an answer can be damaged, and
`get_packet` then drops it. `interest` and `prev` are the statics of `processJandyPacket`,
`swg` holds the fields of `aqualinkdata` with `last_status`. The model is that of an RS
panel read by the ALLBUTTON protocol, without an extended id and with `read_RS485_swg` on.
Ending a message cycle is one step, as it is in the code.

**DeviceTimer.** One device, its timers and the threads that make requests. A request runs
in small steps that its thread has in `todo`: `Set` tests the LED, `Start` looks for a
timer, `Store` or `Create` sets the duration, `Press` and `Preset` send the key and pre-set
the LED, `Clear` ends an OFF request. `timer[w].pc` follows `timer_worker` through its wait
for the LED (`led`, `delay`), the calculation of the end time (`arm`), the timed wait
(`loop`, `wait`, `woken`) and its end; while it asks for ON or OFF it is a requester like
the others. `Status` is a status packet with its answer: it sets the LED unless it is a
duplicate, then the answer toggles the device. Minutes and seconds are one duration; the
wake-ups of pthread are those of a signal or a timeout. The history variables `stale` and
`unheeded` name what can go wrong and exempt it from the properties: a status that overtakes
a key, overlapping requests, a duration set where no timer hears of it.

**ProgramThread and the four remotes.** A program is the sequence of what it does, one
record per step: press a key, wait until it is fetched, wait for a message or a page, look
for an item, press UP as often as two numbers differ. The step function of the thread
executes them with the early returns of the code; what it reads of the display is the
daemon's own copy, which the panel's packets change one by one. The panel is the menu that
the programs walk: its page, the highlight, the field that is open and what it has stored. A
mishap is an answer with a key that is lost, a key that is taken twice, a thread or a panel
that is too slow for the other, a wait that ends without a message, a user's key or a new
page in between, and a panel that is not in the state that the program expects.

* *AllButton*: one programming key and a stack of users' keys, of which the type in the slot
  says which is fetched; a key is sent again when no message follows. Left out: the light
  that is waited for without `light_programming_mode`, five of the seven buttons in
  `get_programs`.
* *OneTouch*: one digit of a speed stands for four; AM and PM are left out, so is
  `set_freezeprotect`, whose steps are those of the other numbers; `get_freezeprotect` has
  the steps of `get_setpoints`.
* *iAqualink Touch*: keys held back while a page loads, the control buffer, and the daemon's
  own cycle of pages, which queues keys beside the program's. Left out: the cached keys of
  pool and spa, popups for devices, the look-up of a pump by name. A boost that is on and
  asked for is not among the initial states, as the code does not look.
* *PDA*: the search for an item, pages of a list, numbers that are counted. An equipment
  page shows three lines. `get_pda_queue_length` counts the users' stack and not the
  program's key, so two of its waits (pda_aq_programmer.c:689, 696) are no waits, and are
  modelled so. Left out: the AquaPalm, the present mode of a light, labels, the combined
  heaters TEMP1 and TEMP2.

**PacketReader.** A byte per step, with the branches of `get_packet` in their order; the bus
sends whole frames and may lose a byte, add one, cut a frame short or fall silent. `whole`
and `inStep` remember that nothing has happened to the present frame and that it began when
`get_packet` had read nothing else; `InStepIsRead` says what becomes of such a frame.
`since` counts the whole frames after a damage; `AfterJandyInStep` says what a Jandy frame
does for the one after it. How soon the reader is in step depends on what the Pentair
packets look like from inside (`PlainFrames`).

**IaqualinkQueue.** As in `RssaQueue` a push and a removal take several steps. A setter
fills the shared buffer, pushes "ready", pushes a copy of the buffer and empties it; the
main thread answers from the queue and adds status polls to it. The main thread's own
requests are no client. `queueRaced` remembers that two threads have been in the queue at a
time; the model ends there, which is why the run `daemon` does not look for deadlocks.

**MessageCycle and Scheduler.** The panel shows in each cycle what is the case, in any
order. `AllButton` messages that only copy a value are one message, "other". Long messages
come in packets and are processed at the next packet of another kind. At power on and at the
end of freeze protection or a boost the scheduler starts the pump if the hour is within
those read from the crontab. Hours are numbers and minutes are left out, as in the code; a
crontab whose lines only stop the pump counts as starting it at midnight.

**StatePublisher.** Each field is sent and recorded in two steps, in the order the code has
for that field, between which the state may change. The fields stand for the kinds the code
distinguishes: a temperature, a setpoint, an LED, a field that is sent before it is
recorded. `missed` and `slipped` are histories: a change that did not set the flag or came
during a broadcast, and a field that changed between its two steps. Timed updates and timer
topics are left out.

**Startup.** The panel polls addresses in one order; an address at which somebody answered
is polled with a status, any other with a probe. Left out: what a PC dock says of the panel,
which iAqualink2 is in use, the PDA's id, `_cmdln_nostartupcheck`, and a process that is no
daemon.

**PdaSleep.** The counter, the pages seen and the decision for each packet.

**Setpoints.** A request is limited when it is put off, when it is acted on and, by most
programs, when the panel is set; units that are not known count as Fahrenheit. `due` holds
the threads that wait for the slot, which get it in any order, and the commands in the
queues of the adapter and of iAqualink, which leave in theirs. A program is one step here:
it sets the panel or fails; its keys are in the modules of the remotes. The panel shows its
units and set points at any time later, and takes what it is given; its set points start
within its own limits, TEMP1 above TEMP2. `intended`, `excused`
and `unordered` are histories, the latter two for the exemptions below. How old a request
must be to be acted on is in `DelayedRequest`.

**StatusPages.** The panel lists what is on over several pages; `seen` are the bits that
`pump_update`, `iaqt_pump_update`, `pda_pump_update` and `equiptment_update_cycle` keep until
the end. A device is off, on or, a pump, priming, which stands for offline and error as well;
its speed is "on". A page of a OneTouch or a PDA is one step, but for the poll that makes the
PDA read its pumps; a lost line and a lost title are steps of their own. `complete` and
`completeBefore` are histories. Left out: heaters, devices that flash, salt, boost and freeze
protection, the home pages, the one page of a P2 panel, the button of a pump on an iAqualink
Touch, and the time a page starts the first program of a OneTouch.

**Daemon.** The eight parts share no state in these models, so it lets one of them run and
leaves the others in one initial state: a run of the composition would multiply states and
add no behaviour.

## Runs

All runs end within four minutes on two workers.

| Run | Shows |
|---|---|
| `slot` | The slot never names a thread that has left (`SlotNeverDangles`). Unless two threads were in one of the two unlocked windows at a time, the slot is exclusive and each waiting program is reached by the kicks of its protocol (`ExclusiveUnlessRaced`, `KickedUnlessRaced`). Every thread that waits gets the slot or gives up, and every program ends unless hung by the race (`WaiterResolves`, `EveryProgramEnds`). |
| `slot_hang` | With the race, a program waits for a message and no message kicks it. |
| `rssa` | Until two threads overlap in it, the queue implements `CommandFifo` (`FifoUnlessRaced`). Requests leave it however often the main thread polls (`EveryCommandLeaves`). |
| `rssa_pair` | The message 0x07, which asks for the value of a setpoint, is answered with another command that came in between. |
| `delayed` | What is acted on is one request and not a mixture (`WholeRequest`), no MQTT request comes in shortly before (`QuietBeforeAction`), and the last request is acted on (`LastRequestWins`). |
| `delayed_light` | The exact dimmer level queued by `action_delayed_request` itself is wiped at its end. |
| `swg` | Answers are attributed to the device polled (`AnswerIsAttributed`), the status is the last report (`StatusIsLastReport`), a dark LED means off (`DarkMeansOff`), and a delayed percent is sent unless the status is stuck (`DelayedIsSentUnlessStuck`). |
| `swg_stuck` | After one missed answer, the report that the SWG is on is taken for a repetition and ignored, and the percent stays delayed. |
| `timer` | The keys in the queue bring the device to the state asked for last, unless a status overtook a key, requests overlapped or somebody was at the panel (`WishIsKept`). A timer is not early (`NotOffEarly`), its device goes off (`TimedGoesOff`) and every timer ends (`EveryTimerEnds`). |
| `timer_revives` | A device with a default runtime that is on without a timer is turned off by a request, and turned on again by the timer which that request started. |
| `menu` | Undisturbed, a program ends without error and with the panel as it was asked to make it, from whatever page the panel starts (`SetIsStored`), and what it told `aqualinkdata` is then true (`ToldIsTrue`). Disturbed once, it stores only what it was asked for, but for the named cases (`OnlyAskedIsStored`), and gives the slot back unless it waits without limit (`EveryProgramEnds`). |
| `daemon` | Reader: a whole frame that begins in step is read as sent, the frame after a whole Jandy frame begins in step, and of the whole frames after a damage at most two are lost (all in `LosesTwoAtMost`). iAqualink: a full command in the queue is one request's and is sent (`FramesAreRequests`, `FullIsSent`). Message cycle: after a whole cycle the state is the panel's, the end of a freeze protection is noticed, the pump starts within its hours (`ShownAfterWholeCycle`, `EndIsNoticed`, `PumpOnWithinHours`). Broadcast: when nothing is marked as changed, the clients know the state (`CleanIsTold`). Start: an address found is free, the main loop is reached, a port that is back is read (`ChosenIsFree`, both parts of `GetsToThePanel`). PDA: `NotSilentForLong`, `LooksBeforeItSleeps`. Set points: when all is done the panel has what was asked for last, in its units and limits, and TEMP1 is above TEMP2 (`SetpointsFollow`). Equipment: after a complete series of pages what is on is known to be on, and what is off to be off (`PagesAreTold`). |

The runs `slot_hang`, `rssa_pair`, `delayed_light`, `swg_stuck` and `timer_revives` each
show a disagreement between a comment and the code; `PROJECT.json` quotes them under
"findings".

The exemptions in the properties of `menu` and `daemon` are behaviours that the code has;
each was found as a counterexample and is named by an operator, so that it can be read:

* A program that counts its presses stores another number when a key is lost or doubled
  (`CountsPresses`); one that pages a list of the PDA may select another device
  (`PagesAhead`). PDA switches never go wrong by one mishap.
* An AllButton boost that is asked off while it is off leaves the panel on its START page,
  where a lost MENU lets the next ENTER start the boost. That page is not among the initial
  states.
* A PDA boost without a page for it keeps the slot (`kept`). On a panel for one body of
  water that does not show its notice first, a PDA program fails to set a temperature.
* Some changes of the state do not set `is_dirty`, and those made during a broadcast lose it
  (`missed`); a field that changes between its sending and its recording is recorded with a
  value that was not sent (`slipped`).
* A set point may not be what was asked for last: 20 °C asked for by MQTT before the units
  of a Celsius panel are known are taken for 68 °F, and limited to 40 °C when they are; a
  request is dropped when the known set point equals it, though that is old or an older
  program is about to change it; the next request takes the place of one that is put off; of
  two programs for one set point either may be last; a PDA counts its keys, and the adapter
  adds an increment, from the known set point (`excused`).
* TEMP1 and TEMP2 may come to lie in the wrong order when one was limited by an old value of
  the other, or by the units of a Celsius panel before they are known: an increment does not
  wait for them, as a set point does. The programs limit once more when they have the slot;
  the commands of the adapter and of iAqualink are not limited again (`unordered`).
* The search takes an address for free after three probes of it that no answer was heard to,
  so `ChosenIsFree` speaks of fewer than three lost packets; the automatic configuration
  adopts an address whose answer it did not hear, so of it the property speaks only if none
  was lost; the wait for probes never opens a lost port again, and its way out at twice the limit
  (aqualinkd.c:993, 1001) is not reached.
* On a OneTouch the buttons of an RS16 panel are turned on and never off: the loop at
  onetouch.c:768 ends after the first, whose bit it compares with what lies before the table
  (`AfterRs16`). OneTouch and PDA drop what a page says of a pump that primes, so it is off
  (`Unread`). Bits that a program left behind keep a device on for one more series
  (`completeBefore`). A PDA reads the pumps of a page at a poll, the second one on the first
  page, and not at all if that does not come (`Hurried`); with nothing on it shows no pages,
  so its pumps keep their speed and only its buttons are turned off (`TimeComes`).

Read beside the models, and not part of them: the condition at aqualinkd.c:1132 is never
true, so the missing id is not shown; aq_programmer.c:116 maps a PDA's freeze protection to
the heater temperatures; `send_jandy_command` does not escape a DLE (aq_serial.c:701); the
throttle of the timer topics is shared, so a second timer may go unreported; at the end of
a boost the linked device is asked to turn off only when it is off already
(aq_scheduler.c:390); the simulator takes an id without a look at whether it is free.

### Bounds

* `slot`: two threads are enough for each race, which is between two; two protocols whose
  kicks exclude each other; `Tries = 2` instead of 120 so that both ways of giving up occur,
  the off-by-one included; two messages per wait and two waits per program so that a wait
  ends early, late and is followed by another.
* `rssa`: two slots instead of 40, so that the queue is full with one request and a poll;
  polls after 2, 2 and 3 packets instead of 5, 10 and 100 so that each falls together with
  the others; two requests. In `rssa_pair` three slots and two clients.
* `delayed`: a delay of 2 and an extra of 1 instead of 3 and 5 seconds, since only their
  order matters; four types, one that waits for the units (SETPOINT), one that does not
  (SWG), one without a value (VSPROGRAM) and the dimmer; two requests, which is what an overwriting takes.
* `swg`: two SWGs, because the first to answer is kept, and a pump whose polls come in
  between; one report of a working device and one of an error, which the LED tells apart;
  GENFAULT, which gives way to a better status; one percent besides 0 and 101.
* `timer`: two requesters and two timers, which the double creation takes; two requests or
  toggles at the panel, so that a timer is set again, cleared, or set by ON; a duration of 2
  with `Fine = 1` instead of 60, so that both kinds of alarm occur; the LED is checked three
  times instead of ten. A second passes only when every thread waits. `timer_revives` needs
  one requester and a default runtime.

* `menu`: one thing goes wrong (`Faults = 1`), since two would make every exemption
  arbitrary; values 0, 1 and 2 with 1 stored at first, so that a number is reached from
  below, from above and is already there; 8 presses in a search, 4 in a field and 4 among
  modes, more than the items of a page, so that a search fails only when the item is not
  there; five messages for the long waits, more than a page has packets.
* `daemon`: a Jandy frame with a DLE in it, which is escaped, and a Pentair frame, two
  mishaps, so that the second comes while the reader recovers from the first; two clients
  and room for two frames of the iAqualink, so that "ready" finds no room; two changes at
  the panel (something begins and ends) and one lost packet; crontabs of which one starts
  and stops the pump, one only stops it later and one only stops it before the hour it is;
  two changes of the state, one of them between the two steps of a field, and one break; cycles of the panel with and without a free address
  (<<8, 9>> has none that can be noticed), two sets of neighbours, three configurations; six
  packets instead of 2000 until probes count as missing, 16 instead of 1200 for the
  automatic configuration, which is more than two cycles; a PDA that is awake for 3 and
  asleep for 4 packets instead of 10 and 40; two requests for set points, one within the
  range and one above it, and one disturbance, since an overtaking and an overwriting take
  two, on six panels that differ in units, bodies of water and remote;
  pages of one device, so that two devices make a series, one lost line or page, and three
  changes: a program that comes and goes and a device that changes in between.

### Fairness

Threads that can run do run. A thread that asks for the mutex gets it when it is free again
and again, as pthread mutexes do in practice. The panel polls each emulated device without
end, so each protocol kicks again and again and the adapter is asked for its status again
and again. Seconds go by and status packets come. For the SWG some polls and answers are
heard; strong fairness on a noticed poll and its answer says that the device is not out of
hearing for ever. Nothing is assumed of the clients. In `menu` the thread runs on, the panel
polls its remotes in turn and the packets it sends are read. In `daemon` the main thread and
the threads that push run on, the panel polls, a read of a port that is gone returns
nothing, and a port that is back can be opened.

## Proofs

TLAPS proves the theorems below for all values of the constants: any number of threads,
devices, requests, losses and changes, any delays, addresses, temperatures and crontabs.
They rest on the named assumptions about the constants and on nothing else
(`SlotAssumption`, `SwgAssumption`, `TimerAssumption`, `RequestAssumption`,
`QueueAssumption`, and those of the parts of `Daemon`); each of them says what the constants
are, except for these:

* `AskAt + 1 < GiveUpAt`: a timer asks for ON well before it gives up (5 and 10 in the code);
* a finite set of clients of each queue;
* `Startup`: the addresses that are configured are of the kinds they are configured for, and
  the port is opened again after at least two blank reads;
* `Setpoints`: the panel's first set points lie within its limits, and TEMP1 is above TEMP2;
* `PacketReader` (`FrameAssumption`): the frames fit into the buffer, a Pentair frame has the
  bytes that it counts, and no frame holds what looks like the preamble of a Pentair packet,
  as `get_packet` begins a packet there whatever it is in the middle of
  (aq_serial.c:1212-1222);
* `BackInStep` has a hypothesis of its own, `PlainFrames`, which the frames of the run
  satisfy (`MCDaemon` assumes it, so TLC evaluates it): a Pentair packet does not end in
  10 (a DLE), FF or FF 00, nor hold 10 02 in hexadecimal. It is needed: the reader that
  missed the preamble of such a packet takes these bytes for the beginning of something
  else, and misses the next one too, so that more than two frames may be lost;
* the theorems about the AllButton remote have the hypothesis `RangesFit`, which the run
  satisfies (`MCPrograms` assumes it): the values of a setting are counted from 0 and are
  fewer than the presses a field takes (100 in the code; the widest range has 69), and a
  search takes at least as many presses as a page has items (28 for 7);
* `StatusPages`: what is listed to an iAqualink Touch are pumps, as it reads nothing else
  (`passDeviceStatusPage`, iaqtouch.c:575).

An invariant that a run checks is seldom inductive. Each paragraph names the invariant that
is, and what its parts are for. One lemma per action (or group of actions) shows that it is
kept.

* **Slot** (`ProgrammingSlotProofs`). `TypeCorrect` is inductive by itself. For
  `NeverDangles`, a thread leaves `Holding` only by clearing the slot and no other thread
  can be in it then; the invariant is inductive with the types. `SlotIsExclusive` and
  `WaiterIsReached` prove the two properties that hold unless two threads are in a window at
  a time (`OneAtTheDoor`): under that hypothesis the state satisfies `SlotInv`, which
  relates `pc` to both fields (`Exclusive`, `FreeMeansFree`, `ClearedMeansFree`, `Named`,
  `Typed`), namely that a thread in `taking` found the slot empty and finds it so, that a
  thread that holds the slot is in it, and that `ptype` is its type from `NameProgram` on.
  Without the part about `taking` and `clearing` exclusiveness is not inductive.
* **SWG** (`SwgDeviceProofs`). `TypeCorrect`, `Attributed`, `LastReportStands` and
  `DarkLedMeansOff` follow from one inductive invariant, `SwgParts`: the bus is typed, the
  programs are typed, no more programs wait than were asked for, and the record is
  `Consistent`, that is, typed, with the two invariants about status, last report and LED.
  Lemmas say for each setter of devices_jandy.c that it keeps a consistent record
  consistent, so each step only composes setters. The third part is needed because the type
  of `waiting` is bounded by the requests.
* **Timers** (`DeviceTimerProofs`). `TypeCorrect` needs `TypeInv`: a timer that looks at the
  LED has looked less often than it may. `OffInTime` rests on `TimeInv`: every timer that
  lives is in the list (`Listed`), so a timer created for an empty list is the only one
  (`OneLives`), and what is left of the duration asked for is no more than that timer has
  still to run (`InTime`, by the place in `timer_worker`); a timer that asks for ON or OFF
  is in one of two places (`BusyTimers`). `WishKept` rests on `WishInv`: the state that the
  device will have once the keys are consumed (`Coming`) is the LED's and the one asked for
  (`Agreed`), except for a request that is under way, of which `Progress` says by the step
  that comes next which of the three still differ, and that no key or LED follows.
* **Delayed request** (`DelayedRequestProofs`). The record is never whole while it is
  written, so `RequestInv` speaks of what it will be: there is a value `v` that the record
  has once the writes which are left are done (`Ends`), and `v` is one request that was made
  (`Whole`) whose delay does not end before it has been quiet for as long (`Timely`).
  `ActsOnOneRequest` and `ActsAfterTheDelay` follow, as long as the two threads are not in
  the record at a time.
* **Queue of the adapter** (`RssaQueueProofs`). That the length stays within its type needs
  the threads which have found room and not yet taken it (`TypeInv`). `ImplementsFifo` is
  the refinement: while no two threads are in the queue, at most one has read its length and
  the room it found is still there (`Alone`), and then each step is a push, a take or a
  stutter of `CommandFifo` under the mapping of `Pending`. `PendingOf` restates that mapping
  in terms of slots, so that a lemma per step can say what it becomes.
* **PDA sleep** (`DaemonProofs`). `SilenceIsBounded` and `LooksFirst` from `SleepInv`: while
  AqualinkD is silent its count is ahead of the packets left unanswered (`Silence`), while
  it answers it is not ahead of the packets with nothing to do (`Patience`), and the page
  that it has seen was shown since it woke (`Looks`).
* **Startup** (`DaemonProofs`). `TakesFreeAddresses` from `StartupInv`: what counts against
  an address of another device is bounded by the packets that were lost, with the probe that
  may go unanswered (`Searching`, `Tally`); in an automatic configuration the last probe is
  not for another device as long as nothing was lost (`Configuring`, `Unanswered`).
* **iAqualink queue** (`DaemonProofs`). `QueuesWholeRequests` from `IaqInv`: while no two
  threads met, the buffer holds what its only user asked for, or nothing (`BufferHeld`), the
  slot that a push fills stays the one that it counts, and every full command that waits was
  asked for (`QueueHeld`).
* **Broadcast** (`DaemonProofs`). `TellsTheState` from `PublisherInv`: what was recorded is
  what has arrived or will, but for the field that is between its two steps (`Recorded`,
  `Sending`, `Recording`), and what was compared in a broadcast in which nothing changed has
  nothing left to send (`Compared`).
* **Message cycle and scheduler** (`DaemonProofs`). `ShowsWhatIsTheCase` and `TellsTheEnd`
  from `CycleInv`: in a calm cycle the bits are those of the messages shown, what they set
  still stands, and the message that is processed again is one of them (`Calmed` with
  `Reflects`); a freeze protection that was shown stays on till its end is told (`StillOn`).
  `StartsWithinHours` adds `HoursInv`: the hours kept are those of lines of the crontab.
  `get_cron_pump_times` is a recursion over the lines of a crontab of any length; its lemmas
  are an induction over them, by the least line at which the claim fails (`NatMin`, from the
  well-foundedness of the natural numbers).
* **Set points** (`DaemonProofs`). `SetsWhatIsAsked` from `SetpointInv`: what was asked
  for last is put off, or the last of its kind that is due, or at the panel (`AskedKept`),
  what is under way keeps TEMP1 and TEMP2 in order wherever it arrives (`OrderKept`, with
  `Sound` for each command and `PanelOrdered`), and an increment belongs to the adapter
  (`Incrementing`).
* **Packet reader** (`BusProofs`). `ReadsWholeFrames` states the first part of
  `LosesTwoAtMost`, `InStepIsRead`, for every set of frames of any length. `ReaderInv` says
  how far a whole frame has been read (`JandyHas`, `PentairHas`): what is in the buffer is
  the first part of the packet, what is on the wire the rest, a DLE is kept in mind only
  where the packet has one that no NUL follows, and the count of the preamble is that of the
  bytes before (`Primed`), so that no byte but its own begins a Pentair packet. The wire of
  a Jandy frame is longer than its packet by a NUL for each DLE inside: `WireAt` is the place
  of each byte of the packet on it. `Escaped` and `SumOf` are recursions over a frame of any
  length; `Recursion` shows that such functions exist, `UpTo` is the induction.
  `JandySynchronizes` and `BackInStep`, the other parts, speak of frames that begin in
  whatever state a damage has left, so `SyncInv` follows a whole frame from any state of the
  local variables (`Locals`): in a Jandy frame, that the last DLE was seen (`JandyComes`), so
  that its end leaves nothing read or a Pentair packet (`Synced`); in a plain Pentair
  packet, that the count of the preamble is that of its own bytes or none
  (`PentairComes`), so that its end leaves nothing that looks like a beginning (`Calm`); in
  a frame that begins `Calm`, that a Jandy frame is not missed and a Pentair one not begun
  by others (`Unfound`, `Catches`). `BetweenFrames` is the chain: the first whole frame
  leaves the reader calm, the second synced, and the third begins in step.
* **Pages of equipment status** (`BusProofs`). `TellsWhatIsOn` from `PagesInv`: in a series
  that is complete so far every device that can be read is still to be listed, or was read
  and is known as it is, or is a pump on the page of a PDA that was not polled yet
  (`Series`); after a complete series no bit is left of a device that is not listed
  (`NoneLeft`); once the time was shown twice no bit of a button is set (`Times`). The first
  part needs that a page shows each device that is on, whatever the list: `Only`, which
  selects from a list of any length, is a recursion again, and `OnlyIs` the induction.

* **AllButton programs** (`AllButtonProofs`), for the six programs that set a temperature or
  a percentage and four that read pages. `AllButtonSets` states `SetIsStored` and
  `ToldIsTrue` for them, `AllButtonStores` the part of `OnlyAskedIsStored` that speaks of an
  undisturbed bus, both for any range of values, so for any number of presses in a field.
  The invariant (`Inv`) follows a program along its steps, with the page and line of the
  panel, the last message, the key in the slot and the message still owed: it looks for its
  menu (`Selecting`), goes down a page whose items it passes one by one (`Looking`,
  `Passing`, `Entering`), and takes the next page in the same way (`Leg`, `Trip`), for any
  page, item and line that `Leads` allows; in the field it reads the value and moves it by
  one towards what is asked for (`Changing`, `Judging`, where `Close` says that the presses
  will do), presses ENTER only on the value asked for (`Accepting`), and waits with the value
  stored (`Waiting`). One lemma per phase shows that an undisturbed step stays in it or goes
  to the next; `Phase` says which phases each program has, and the lemmas named `Fresh...`
  that its script begins the first. `mishaps` only grows, so nothing is claimed of a
  disturbed program.

Each part of `Daemon` has its own step lemma; `PartSteps` and `PartInits` reduce the
composition to it.

Left to TLC:

* all liveness, which rests on fairness: `WaiterResolves`, `EveryProgramEnds`,
  `EveryCommandLeaves`, `LastRequestWins`, `DelayedIsSentUnlessStuck`, `TimedGoesOff`,
  `EveryTimerEnds`, `FullIsSent`, `GetsToThePanel`;
* the other menu programs (`SetIsStored`, `ToldIsTrue`, `OnlyAskedIsStored`): those of the
  OneTouch, iAqualink Touch and PDA remotes, and with the AllButton remote those for boost,
  time, lights and the programs of buttons. Each has steps and menus of its own, and the
  invariant would have to follow it through them as it does for the ten that are proved;
* what a disturbed program stores (the rest of `OnlyAskedIsStored`): after a mishap a program
  may be at any step with the panel on any page, so an invariant would have to list the
  states that TLC enumerates.

## Not modelled

* Parsing and formatting (web pages, JSON, MQTT discovery, configuration, crontab), logs,
  packet log, color tables, the dummies: they turn data into other data, and no state
  outlives the call.
* Pentair pumps: a packet carries sender and addressee, so each one copies its values and
  nothing is kept between two.
* Messages that copy one value (temperatures, dates, labels, chemistry, versions), the home
  pages of the remotes, the replies of the serial adapter and the status packets of iAqualink: what they write is read
  off the text or the bytes.
* Sensors: one thread reads files and writes independent values.
* The simulator: keys go from a web page to the panel, and no program waits for them.
* Auto configuration: the panel's size and the PDA's id are text; the choice of addresses is
  modelled.
* Panel model: the set-up of the button table happens before any thread exists. Virtual
  buttons and alternate modes call the requests that are modelled.
* Bus monitor tool: a separate diagnostic program without control state.
* Mongoose: vendored.

The hazards in `PROJECT.json` that no property covers say why.

## Plan

The models are complete in the sense above, and every invariant outside the menu programs is
proved; of the menu programs, those of the AllButton remote that set numbers or read pages.
What is left are the other menu programs, for which the lemmas of `AllButtonProofs` about
sequences, waits and fields are a beginning, and the type invariants of the parts of `Daemon`
that the proofs use in the form each of them needs and do not state as one.
