SPECIFICATION Spec
CONSTANTS
    None = None
    Function = {1, 2}
    CatalogLeaf <- MCCatalogLeaf
    BulkLeaf <- MCBulkLeaf
    Corpora <- MCCorpora
    Limits = {None, 1}
    Routes = {"insert", "toml", "toml_replace"}
    MaxCalls = 3
    MaxStart = 4
INVARIANTS
    TypeOK
    TableIsImport
    InsertIsAtomic
    LimitCutsAtLimit
CHECK_DEADLOCK FALSE
