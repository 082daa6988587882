CONSTANTS
    Roles = {"gate", "terminal", "scout"}
    Cards = {c1, c2}
    Broke = {c2}
    Attended = {"gate"}
    Renewing = {"terminal"}
    NoCard = NoCard
    Tags = {"member", "forged", "ticket"}
    Content <- TagsHere
    Slots = {1, 2}
    Pages <- Uses
    NoTag = NoCard
SPECIFICATION ScreensSpec
INVARIANT ScreenIsTrue
PROPERTIES OneAllowedWritePerTap ReturnsToScanning WritesAreShown WaitsEnd
