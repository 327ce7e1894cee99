SPECIFICATION Spec
CONSTANTS
  NormalKey = {"a"}
  SysKey = {"power"}
  MediaKey = {"volume"}
  MaxEvent = 3
  MaxReset = 1
INVARIANTS ToggleAgrees HostFollows
PROPERTIES ReportFifo Drained
