SPECIFICATION StoreSpec
CHECK_DEADLOCK FALSE
CONSTANTS
    Handler = {h1, h2}
    Image = {i1}
    Doc = {d1}
    Product = {p1}
    None = None
PROPERTY KeptImageKeepsFile
