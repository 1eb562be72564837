\* An update that keeps an attachment.
SPECIFICATION Spec
CONSTANTS
    Users = {u1}
    Files = {f1}
    Entries = {p1}
    Calls = {r1}
    None = None
PROPERTY ReportsRemaining
CHECK_DEADLOCK FALSE
