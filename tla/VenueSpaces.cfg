SPECIFICATION VenueSpec
CONSTANTS
    MaxSpaces = 4
    MaxRows = 2
    Events = {super, west}
    Departments = {arcade}
    Codes = {c1, c2, c3, c4}
    SliceCoded = {c1, c2, c3, c4}
    None = None
SYMMETRY Symmetry
INVARIANTS  FoldsStayInRoom 
