SPECIFICATION ServicesSpec
CONSTANTS
    Tasks = {x1, x2}
    Subscribers = {r1, r2}
    EventTypes = {"progress"}
    HistoryLimit = 2
    ChannelSlack = 1
    MaxEvents = 3
    Browsers = {x1, x2}
    Emails = {e1}
    Users = {x1, x2}
    Tokens = {x1, x2}
    Requests = {r1, r2}
    NoToken = None
    NoUser = None
    Durable = TRUE
    MaxFailures = 1
    Viewers = {x1, x2}
    Reads = {r1, r2}
    NoViewer = None
    TTL = 2
    Lag = 1
    SeenLimit = 1
    MaxViewClock = 6
    MaxCounts = 3
    MaxViewFaults = 1
    Limit = 2
    Window = 3
    Never = None
    Stale = 1
    MaxCounted = 4
    MaxRateClock = 9
    MaxAdmitted = 7
    MaxIncrFaults = 2
    zoo = zoo
    lake = lake
    noodles = noodles
    Places = {zoo, lake, noodles}
    Category <- CategoryOf
    IndoorPlaces = {lake}
    MockPlaces <- BuiltIn
    Prices <- ForeignPrices
    NoAmount = None
    Briefs <- SomeBriefs
    RealLists <- Found
    LegMinutes = {30, 100}
    Answers <- AnswersTo
    Letters = 2
    Surrogates = {1}
    MaxRetries = 2
    Label <- Labels
    DefaultPace = 1
    DefaultIncludes <- Covered
    Typed <- TypedBriefs
    Extracts <- Read
    ReplyWords = 2
    MaxTurns = 2
SYMMETRY Symmetric
INVARIANTS
    ServicesTypeOK
    HistoryIsTail
    NoGapNoDuplicate
    DeliveryOrdered
    OneAccountPerEmail
    ServedRightly
    BurstBound
    DeniedMeansBusy
    FallbacksTold
    WishesHold
    GeneratedIsValid
    SummaryTold
    HashNamesTheWish
    RepliesHeard
PROPERTIES
    KeepsSignedIn
    CountedOncePerTTL
    
CHECK_DEADLOCK FALSE
