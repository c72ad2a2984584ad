\* Three kinds of firmware, up to three cores, two I/O APICs.
SPECIFICATION Spec
CONSTANTS
  Null = Null
  Shared = Shared
  Absent = Absent
  Firmwares <- MCFirmwares
  MaxRedEntry <- MCMaxRedEntry
  CmosValues = {114}
  LapicBase = 65536
  Cores <- MCCores
INVARIANTS
  AllDisabled
  MaskedBeforeMoved
  OtherRegistersKept
  SharedMapped
  LocalPrivate
  LocationsExact
  OneOnBootStack
  AppPrepared
PROPERTY BootCompletes
CHECK_DEADLOCK FALSE
