SPECIFICATION PagesSpec
CONSTANTS
    Requests = {r1, r2}
    Addresses = {a, b, d}
    Users = {"s", "g"}
    Nobody = "nobody"
    Role <- Roles
    Channels = {"ch"}
    Rates = {0, 30}
    Factors = {0, 2}
    DefaultRate = 60
    Legacy <- OldTable
    Logins = {"a", "b"}
    TwitchID <- Ids
    Viewers = {u, v}
    NoName = "noname"
    NoViewer = "noviewer"
CONSTRAINT FewEntries
SYMMETRY Symmetry
INVARIANTS RegistrationEarned OneDefault OneTicketEach
PROPERTIES UnsetFieldKept
CHECK_DEADLOCK FALSE
