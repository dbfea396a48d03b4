SPECIFICATION Spec
CONSTANTS
  Cert = {c1, c2}
  Blank = Blank
  MaxID = 4
  Dates = {0, 1}
  MaxTime = 1
SYMMETRY Symmetry
INVARIANTS TypeOK WrittenSlotsScanned CounterAndArrayAgree ListingExact
PROPERTIES IssuedRecordsFinal RevocationLeavesNoCopy EventsAccountForIssued ImplementsLedger
