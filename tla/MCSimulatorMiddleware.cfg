SPECIFICATION Spec
CONSTANTS
  Modbus = modbus
  Readers = {modbus, opcua}
  Web = {web}
  Nobody = Nobody
  Writes <- McWrites
  CacheAge = 1
  MaxNow = 1
  MaxMoment = 1
INVARIANTS TypeOK ReadsSeeWholeWrites ReadIsFresh
VIEW McView
