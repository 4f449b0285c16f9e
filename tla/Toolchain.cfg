\* The command lines of MCLinker and eight programs, four bits of offset.
CONSTANTS
    Offsets = 16
    CommandLines <- ToolLines
    Missing = Missing
    MaxDepth = 30
    MAX_ADDR = 16
SPECIFICATION ToolSpec
INVARIANTS TypeOK CodeKept OneMeaning WritesIfSound WalkBounds ListingAgrees
PROPERTIES DisassemblyEnds
