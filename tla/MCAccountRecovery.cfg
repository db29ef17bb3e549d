SPECIFICATION RecoverySpec
CONSTANTS
    Emails = {a}
    UserNames = {"ann"}
    Requests = {r1, r2}
    MaxLinks = 3
    MaxPasswords = 2
SYMMETRY Symmetry
INVARIANTS ThrottledOnlyByMail LatestLinkWorks
PROPERTIES LinksWorkOnce ResetSticks
CHECK_DEADLOCK FALSE
