SPECIFICATION Spec
CONSTANTS
  suites = suites
  drops = drops
  Accounts <- MCAccounts
  Rooms <- MCRooms
  Finance <- MCFinance
  Prices = {1}
  Groups = {g}
  Requests = {r1, r2}
  MaxIds = 3
  MaxLines = 2
  NULL = NULL
SYMMETRY Symmetry
INVARIANTS
  EveryLineIsShown
  OnlyLateLinesGoUnreviewed
