\* Four requests: registrations of two addresses, logins, refreshes and what fails.
SPECIFICATION Spec
CONSTANTS
    a = a b = b lower_a = lower_a upper_a = upper_a lower_b = lower_b
    w1 = w1 w2 = w2 r1 = r1 r2 = r2 r3 = r3 r4 = r4
    NoOne = NoOne
    Emails <- MCEmails
    Addresses = {a, b}
    Lower <- MCLower
    Passwords = {w1, w2}
    Forms <- MCForms
    Roles = {"USER", "SELLER"}
    Requests = {r1, r2, r3, r4}
SYMMETRY Symmetry
INVARIANTS IInv RegistrationHolds GrantsBacked RotationAtomic RotatedOnce
CHECK_DEADLOCK FALSE
