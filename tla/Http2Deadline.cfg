CONSTANTS
    Nobody = Nobody
    Req = {r1}
    Timed = {r1}
    Uploads = {}
    Closes = FALSE
    PeerLimit = 1
SPECIFICATION Spec
PROPERTY DeadlineEndsCall
CHECK_DEADLOCK FALSE
