SPECIFICATION Spec
CONSTANTS
    None = None
    Function = {1, 2}
    CatalogLeaf <- MCCatalogLeaf
    BulkLeaf <- MCBulkLeaf
    Corpora <- MCCorpora
    Limits = {None, 1}
    Routes = {"toml_replace"}
    MaxCalls = 3
    MaxStart = 1
INVARIANT
    RowsCarryTheirTags
CHECK_DEADLOCK FALSE
