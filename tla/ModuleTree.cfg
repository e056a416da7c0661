CONSTANTS
  MaxModule = 4
  MaxCalls = 2
  MaxChildren = 2
SPECIFICATION FairSpec
INVARIANTS TypeOK SingleOwner Acyclic BuildingIsScoped
PROPERTIES CallsReturn
CHECK_DEADLOCK FALSE
