\* Every kind of request, answers may be lost.
SPECIFICATION FairWebSpec
CONSTANTS
    Users = {u1}
    Tokens = {t1, t2, t3}
    Requests = {w1}
    None = None
    Kinds = {"proxy", "page", "login", "logout"}
    Lossy = TRUE
PROPERTIES
    EveryRequestIsAnswered
