SPECIFICATION Spec
CONSTANTS
  SectorsPerTrack = 2
  Cylinders = 3
  Retries = 2
INVARIANTS WaitsForItsOwn SectorReturned Prepared CalibrationPassed
PROPERTY CallsReturn
CHECK_DEADLOCK FALSE
