SPECIFICATION DataSpec
CHECK_DEADLOCK FALSE
CONSTANTS
    None = None
    Nothing = Nothing
    Null = Null
    Nil = Nil
    Handler = {h1, h2}
    Product = {p1}
    Image = {i1}
    Doc = {d1}
    Worker = {w1, w2}
    Name = {n1, n2}
    Maker = {m1}
    MaxCategory = 3
    MaxProduct = 3
    Requests = 2
    Browser = {b1, b2}
    Ware = {a1, a2}
    Cost = {5, 7}
    Quantity = {1, 2}
    MaxRow = 2
    MaxTemplate = 2
    Saves = 2
    Turn = {t1, t2}
    Window = 4
    MaxCalls = 2
    MaxConv = 1
    MaxMoves = 3
    Table = {"users", "device_categories", "products", "product_categories", "product_dependencies", "solutions", "solution_items", "quotations", "quotation_items", "ai_conversations", "ai_messages", "ai_usage_logs", "login_logs", "download_logs", "suppliers", "bom_templates"}
INVARIANTS
    TypesOK
    ForestShowsAll
    UntornReplayIsValid
    CutTurnIsAnswered
    EnforcedIsSound
PROPERTIES
    HiddenSaveKeepsCosts
    FirstReadersAgree
    LoneSaveAlignsItems
    LoneMoveKeepsForest
    LoneDeleteSucceeds
    LoneImportAddsNoDouble
    NewDocHasFile
    LoneSweepIsExact
    AuditSurvives
