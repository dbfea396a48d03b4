SPECIFICATION FrontendSpec
CONSTANTS
  c1 = c1
  h1 = h1
  h2 = h2
  Nobody = Nobody
  Blank = Blank
  Cert <- McCert
  Dates = {1}
  MaxID = 3
  MaxTime = 1
  Handler <- OneHandler
  Calls <- RevokeOnly
  MaxPool = 1
INVARIANTS ListingIsSnapshot RowsStayTrue
PROPERTIES EveryHandlerReturns
