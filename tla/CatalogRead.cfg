CONSTANTS
    X = X
    Y = Y
    Relations <- MCRelations
    Catalogs <- MCCatalogs
    SslMode = "require"
    MaxColumns = 4
    MaxRelations = 2
    MaxPerRelation = 3
    MaxContext = 2
    MaxBytes = 7
    NoConnection = NoConnection
    NoCatalog = NoCatalog
    Nothing = Nothing
SPECIFICATION Spec
INVARIANTS
    AdmittedIffValid
    RefusalsStick
    CleanConnection
PROPERTY RevisionNamesTheContext
