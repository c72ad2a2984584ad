\* The enabling of the local APIC alone.
SPECIFICATION Spec
CONSTANTS
  Null = Null
  Shared = Shared
  Absent = Absent
  Firmwares <- MCFirmwares
  MaxRedEntry <- MCMaxRedEntry
  CmosValues = {114}
  LapicBase = 65536
  Cores <- MCCores
INVARIANT LapicEnabled
CHECK_DEADLOCK FALSE
