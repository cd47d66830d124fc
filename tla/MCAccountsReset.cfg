SPECIFICATION Spec
CONSTANTS
    Users = {u1}
    Sessions = {}
    Requests = {r1}
    Passwords = {p1}
    MaxCodes = 2
    None = None
PROPERTIES VerifiedCodeResets
