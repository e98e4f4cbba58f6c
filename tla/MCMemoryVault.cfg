SPECIFICATION ApartSpec
CONSTANTS
    Notes = {n1}
    Docs = {d1}
    Items = {i1}
    Lines = {x, y}
    DocLines = {x}
    Body = body
    Marker = marker
    Writers = {1, 2}
    Processes = {1, 2}
    MaxCommits = 4
    MaxWrites = 4
    Kinds = {"deck", "notes"}
    Cards = {1}
    Copies = {1, 2}
    Runs = {1, 2}
    PerSecond = 2
    MaxClock = 4
    MaxEdits = 3
    MaxFailures = 1
INVARIANTS
    SnapshotHoldsText
    SettledAgree
    ReadersSeeNoMarkers
    
PROPERTIES
    EditsArrive
CHECK_DEADLOCK FALSE
