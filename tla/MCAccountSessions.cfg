SPECIFICATION SessionsSpec
CONSTRAINT FewRows
SYMMETRY Symmetry
CONSTANTS
    twitch = twitch google = google purse = purse mail = mail
    alice = alice NoEmail = NoEmail u1 = u1 u2 = u2 r1 = r1 r2 = r2
    Accounts = {u1, u2}
    MaxTokens = 3
    Identities = {twitch, google, purse, mail}
    ProviderOf <- Kinds
    EmailOf <- Addresses
    Verified = {google}
    Requests = {r1, r2}
    MaxNonces = 2
    Targets = {"raffles"}
    MaxLogins = 2
INVARIANTS LoginsAgree NonceAdmitsOnce SessionIsLinear SessionSurvives RedirectIsOwn
PROPERTIES LastWayInKept JoinsAreVouchedFor OverIsOver
CHECK_DEADLOCK FALSE
