CONSTANTS
    Ids = {s1, s2}
    Credits = {k1, k2}
    CreditSize = 2
    ProbeCeiling = 7
    Connections = {"c1", "c2", "c3"}
    SourceBytes = 1
    Sources = {x, y}
    ParseFactor = 1
    Numbers = {1, 2, 3}
    LooksPerCredit = 8
    BodyParts = 3
    MaxCancels = 2
    MaxReads = 1
    MaxTreeEdits = 2
    MaxAccesses = 1
    Spellings = {"a", "d/b", "s"}
    NameOf <- SpellingName
    DirOf <- SpellingDirectory
    PlaceOf <- SpellingPlace
    Bodies <- ScannedBodies
    SpaceCount = 2
    SpaceNotes = {"a", "b"}
    Ceilings <- ReadCeilings
    MaxChanges = 1
    PathCeiling = 2
    SourceLimit = 2
    MaxVaultEdits = 1
    MaxCloses = 2
    Unknown = Unknown
    Outside = Outside
    Gone = Gone
    Notes = {"f/a", "f/b", "c"}
    PositionOf <- NotePosition
    InFolder = {"f/a", "f/b"}
    Texts <- QueryTexts
    Requests <- QueryRequests
    MaxNoteEdits = 1
    NoCall = NoCall
    Promotions = {"k1"}
    DedupeKeys = {"k2"}
    MaxTries = 2
    MaxEdits = 1
    MaxFailures = 2
    NoFile = NoFile
    Calls = {c1, c2}
SPECIFICATION Spec
INVARIANTS
    BudgetHolds
    DescriptorsAccounted
    ConnectionsAccounted
    FederationSound
    AbsenceProved
    SameLinks
    NothingLost
    QueryAnswersTrue
    AccessTruthful
    NativeAccounted
    ReadsDrained
    AppendsHonest
PROPERTY AppendedToReviewedText
SYMMETRY CallSymmetry
\* Every component stops when its bounds are used up.
CHECK_DEADLOCK FALSE
