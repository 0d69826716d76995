CONSTANTS
    NoValue = NoValue
    h1 = h1
    h2 = h2
    h3 = h3
    ann = ann
    p1 = p1
    p2 = p2
    Handlers = {h1, h2}
    Emails = {ann}
    Passwords = {p1, p2}
    SignUpRequests <- GuestSignUp
SPECIFICATION Spec
SYMMETRY Symmetry
PROPERTY PasswordOnlyByReset
