\* The render of a Server Component whose access token has expired.
SPECIFICATION WebSpec
CONSTANTS
    Users = {u1}
    Tokens = {t1, t2, t3}
    Requests = {w1, w2}
    None = None
    Kinds = {"proxy", "page", "login"}
    Lossy = FALSE
PROPERTIES
    RenderKeepsSession
