\* Two publications in flight over trees that one editor at a time moves.
SPECIFICATION Spec
CONSTANTS
    MaxCategories = 3
    MaxRows = 2
    Attribute = Attribute
    Axis = Axis
    InputSlot = InputSlot
    CatalogSlot = CatalogSlot
    Keys = {k1}
    MaxChanges = 3
    Publishers = {p1, p2}
    Movers = {m1}
    SerialMoves = TRUE
CHECK_DEADLOCK FALSE
SYMMETRY Interchangeable
 
INVARIANT NearestDefinitionWins
INVARIANT MostSpecificSettingWins
 
