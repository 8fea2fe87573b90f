SPECIFICATION SettingsSpec
CONSTANTS
  Keys = {size, images}
  ConfigKeys = {size, images}
  Calls = {r1}
  NOBODY = NOBODY
  MaxFaults = 0
INVARIANT BulkUpdates
