CONSTANTS
    NumDropIns = 2
    ContentsOf <- MCContentsOf
    Platforms <- MCPlatforms
    Helpers <- MCHelpers
SPECIFICATION Spec
INVARIANTS TypeOK PastedAsOne OwnersSetTheirs NothingReplacedSilently LoadedPlatformsWork NoPlatformIsFatal SkippedFilesCost
CHECK_DEADLOCK FALSE
