CONSTANTS
  top = top
  mid = mid
  leaf = leaf
  side = side
  twin = twin
  task = task
  attempt = attempt
  retry = retry
  runs = runs
  user = user
  Item <- MCItem
  Process <- MCProcess
  Parts <- MCParts
  Listing <- MCListing
  User <- MCUser
  Home = runs
  None = None
  LastPage = 2
  LoginRequired = TRUE
  MaxRequests = 5

SPECIFICATION Spec

INVARIANTS
  FocusIsOfThePage
  RowsAreOfTheCurrentPage
  NameIsOfTheSession
  FlattenedInOrder
  IInv

PROPERTY LoadingEnds
CHECK_DEADLOCK FALSE
