-------------------------------- MODULE Daemon --------------------------------
(* Parts of the daemon that share no state in these models, to be checked   *)
(* one beside the other: part says which one runs, the others rest in one   *)
(* state of their Init.                                                     *)
EXTENDS PacketReader, IaqualinkQueue, MessageCycle, StatePublisher, Startup, PdaSleep,
        Setpoints, StatusPages

VARIABLE part

Parts == {"reader", "iaqualink", "cycle", "publisher", "startup", "sleep",
          "setpoints", "pages"}
daemonVars == <<part, readerVars, iaqVars, cycleVars, publisherVars, startupVars, sleepVars,
                setpointVars, pagesVars>>

Some(S) == CHOOSE x \in S : TRUE
DaemonInit ==
    /\ part \in Parts
    /\ ReaderInit /\ IaqInit /\ CycleInit /\ PublisherInit /\ StartupInit /\ SleepInit
    /\ SetpointInit /\ PagesInit
    /\ part # "cycle" => crontab = Some(Crontabs) /\ hour = Some(Hours)
    /\ part # "setpoints" => setup = Some(Setups)
    /\ part # "pages" => display = Some(Displays) /\ actual = [d \in Shown |-> "off"]
    /\ part # "startup" =>
          /\ order = Some(Cycles) /\ neighbours = Some(Neighbours)
          /\ configuration = Some(Configurations)
          /\ ~portUp /\ known = {}

RunReader ==
    /\ part = "reader" /\ ReaderNext
    /\ UNCHANGED <<part, iaqVars, cycleVars, publisherVars, startupVars, sleepVars,
                   setpointVars, pagesVars>>
RunIaqualink ==
    /\ part = "iaqualink" /\ IaqNext
    /\ UNCHANGED <<part, readerVars, cycleVars, publisherVars, startupVars, sleepVars,
                   setpointVars, pagesVars>>
RunCycle ==
    /\ part = "cycle" /\ CycleNext
    /\ UNCHANGED <<part, readerVars, iaqVars, publisherVars, startupVars, sleepVars,
                   setpointVars, pagesVars>>
RunPublisher ==
    /\ part = "publisher" /\ PublisherNext
    /\ UNCHANGED <<part, readerVars, iaqVars, cycleVars, startupVars, sleepVars,
                   setpointVars, pagesVars>>
RunStartup ==
    /\ part = "startup" /\ StartupNext
    /\ UNCHANGED <<part, readerVars, iaqVars, cycleVars, publisherVars, sleepVars,
                   setpointVars, pagesVars>>
RunSleep ==
    /\ part = "sleep" /\ SleepNext
    /\ UNCHANGED <<part, readerVars, iaqVars, cycleVars, publisherVars, startupVars,
                   setpointVars, pagesVars>>
RunSetpoints ==
    /\ part = "setpoints" /\ SetpointNext
    /\ UNCHANGED <<part, readerVars, iaqVars, cycleVars, publisherVars, startupVars, sleepVars,
                   pagesVars>>
RunPages ==
    /\ part = "pages" /\ PagesNext
    /\ UNCHANGED <<part, readerVars, iaqVars, cycleVars, publisherVars, startupVars, sleepVars,
                   setpointVars>>

DaemonNext ==
    \/ RunReader \/ RunIaqualink \/ RunCycle \/ RunPublisher \/ RunStartup \/ RunSleep
    \/ RunSetpoints \/ RunPages

(* The fairness of the parts, each while it runs.                           *)
Running(p, A) == part = p /\ A
DaemonFairness ==
    /\ WF_iaqVars(Running("iaqualink", ~queueRaced /\ IaqMain))
    /\ \A t \in Threads : WF_iaqVars(Running("iaqualink", ~queueRaced /\ IaqPush(t)))
    /\ \A t \in Clients : WF_iaqVars(Running("iaqualink", ~queueRaced /\ Reset(t)))
    /\ WF_startupVars(Running("startup", PanelPolls))
    /\ WF_startupVars(Running("startup", fd = "stale" /\ ReadNothing))
    /\ WF_startupVars(Running("startup", Reconnect))

Spec == DaemonInit /\ [][DaemonNext]_daemonVars /\ DaemonFairness
=============================================================================
