------------------------------- MODULE MCDaemon -------------------------------
(* Small instances of the parts of the daemon that are checked together.    *)
EXTENDS Daemon

(* A Jandy frame whose command is a DLE, followed by a NUL, and a Pentair   *)
(* frame with one byte of data, which is plain; the bus may add a DLE.      *)
MCJandyFrames == {<<64, 16, 0>>}
MCPentairFrames == {<<0, 16, 96, 1, 1, 165>>}
MCNoiseBytes == {16}
ASSUME PlainFrames

MCClients == {"web", "timer"}

StartAt(h) == [start |-> TRUE, hour |-> h]
StopAt(h) == [start |-> FALSE, hour |-> h]
MCCrontabs == {<<StartAt(2), StopAt(3)>>, <<StopAt(2)>>, <<StopAt(3)>>}

(* The addresses as they are in the code: 8 to 11 of AllButton keypads, 48  *)
(* of iAqualink Touch, 64 of OneTouch and 72 of serial adapters; 0 and 255  *)
(* stand for the search and the automatic configuration.                    *)
Configured(d, r, e) == [device |-> d, rssa |-> r, extended |-> e]
MCConfigurations == {Configured(8, 72, 48), Configured(0, 0, 0), Configured(255, 0, 0)}
MCCycles == {<<8, 9, 48>>, <<8, 72, 9, 64, 48>>, <<8, 9>>}
MCNeighbours == {{8}, {9, 48}}

(* Panels that show degrees Celsius or Fahrenheit, with one body of water or*)
(* two, and what sets their set points.                                     *)
Panel(c, s, v, ps) == [celsius |-> c, single |-> s, via |-> v, points |-> ps]
MCSetups ==
    {Panel(c, TRUE, v, {"pool", "spa"}) : <<c, v>> \in
        {<<TRUE, "menu">>, <<TRUE, "adapter">>, <<FALSE, "pda">>, <<FALSE, "iaqualink">>}}
    \cup {Panel(TRUE, FALSE, "menu", {"pool", "freeze"}),
          Panel(TRUE, FALSE, "touch", {"pool", "chiller"})}
MCPoints == {"pool", "spa", "freeze", "chiller"}
MCPanelC == [p \in MCPoints |-> CASE p = "pool" -> 30 [] p = "freeze" -> 3 [] OTHER -> 20]

(* What the remotes list: a pump and two buttons of an RS16 panel, two pumps*)
(* or a pump and a button, of a page each.                                  *)
Lists(r, ds) == [remote |-> r, devices |-> ds]
MCDisplays == {Lists("onetouch", <<"pump1", "aux1", "aux2">>),
               Lists("touch", <<"pump1", "pump2">>), Lists("pda", <<"pump1", "aux1">>)}
=============================================================================
