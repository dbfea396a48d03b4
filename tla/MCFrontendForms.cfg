SPECIFICATION FrontendSpec
CONSTANTS
  c1 = c1
  h1 = h1
  h2 = h2
  Nobody = Nobody
  Blank = Blank
  Cert <- McCert
  Dates = {1}
  MaxID = 2
  MaxTime = 0
  Handler <- TwoHandlers
  Calls <- McCalls
  MaxPool = 2
SYMMETRY Symmetry
INVARIANTS FrontendTypeOK
PROPERTIES AnswersTrue WaitsForSomebody
