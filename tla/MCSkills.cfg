CONSTANTS
    Segments <- MCSegments
    Texts <- MCTexts
    Strings <- MCStrings
    Fields <- MCFields
    DashedFields <- MCDashedFields
    Document <- MCDocument
    Tables <- MCTables
    Uris <- MCUris
SPECIFICATION Spec
INVARIANTS
    OnlyTheTable
    GetIsExact
    DigestsHold
    NothingDangling
    WalkIsManifest
    ListedOnce
    OneCatalog
    FrontmatterVerbatim
