\* The masking of the RTC and the two 8259s alone.
SPECIFICATION Spec
CONSTANTS
  Null = Null
  Shared = Shared
  Absent = Absent
  Firmwares <- MCFirmwares
  MaxRedEntry <- MCMaxRedEntry
  CmosValues <- MCCmosValues
  LapicBase = 65536
  Cores <- MCCores
INVARIANT LegacyMasked
CHECK_DEADLOCK FALSE
