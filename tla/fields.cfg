SPECIFICATION FairSpec
CONSTANTS
    m0 = m0
    m1 = m1
    m2 = m2
    Models = {m0, m1, m2}
    Components <- ComponentOrder
    BadComponents = {"A"}
    Specs <- SpecsOf
    Revisions <- RevisionsOf
    Schemas <- CrdSchemas
    SnakeCase <- Snake
    Below <- BelowNames
    Together <- Beside
    MaxEdits <- Edits
    Err = Err
    None = None
INVARIANTS Inv FinalizeIsExact FieldsAreTree EmbedsBelow EmbeddedFieldsAgree
PROPERTIES FieldsStay ModelsSettle
CHECK_DEADLOCK FALSE
