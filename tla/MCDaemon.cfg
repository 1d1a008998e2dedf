SPECIFICATION Spec
CONSTANTS
  JandyFrames <- MCJandyFrames
  PentairFrames <- MCPentairFrames
  NoiseBytes <- MCNoiseBytes
  MaxPacket = 20
  MaxRetry = 2
  Mishaps = 2
  Clients <- MCClients
  QueueLength = 2
  StatusEvery = 1
  Asks = 2
  Losses = 1
  Hours = {2}
  Crontabs <- MCCrontabs
  Slips = 1
  Changes = 2
  ReportZeroPool = FALSE
  ReportZeroSpa = FALSE
  Temperatures = {70}
  StateChanges = 2
  Breaks = 1
  Cycles <- MCCycles
  Neighbours <- MCNeighbours
  Configurations <- MCConfigurations
  MaxWait = 6
  MaxAutoPackets = 16
  ReconnectAfter = 2
  LostPackets = 2
  PortLosses = 1
  WakeFor = 3
  SleepFor = 4
  IgnoreNoStatus = 6
  Points <- MCPoints
  Setups <- MCSetups
  AskedC = {25, 45}
  PanelC <- MCPanelC
  SetRequests = 2
  Disturbances = 1
  Pumps = {"pump1", "pump2"}
  Buttons = {"aux1", "aux2"}
  Displays <- MCDisplays
  PerPage = 1
  DeviceChanges = 3
  PageSlips = 1
INVARIANTS FramesAreRequests CleanIsTold ChosenIsFree NotSilentForLong SetpointsFollow
PROPERTIES LosesTwoAtMost FullIsSent ShownAfterWholeCycle EndIsNoticed PumpOnWithinHours GetsToThePanel LooksBeforeItSleeps PagesAreTold
CHECK_DEADLOCK FALSE
