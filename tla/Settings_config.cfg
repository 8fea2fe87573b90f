SPECIFICATION SettingsSpec
CONSTANTS
  Keys = {size, images, name}
  ConfigKeys = {size, images}
  Calls = {r1, r2}
  NOBODY = NOBODY
  MaxFaults = 3
INVARIANTS ConfigOfOneUpdate OneFaultLeavesRecord
PROPERTIES RequestsEnd
