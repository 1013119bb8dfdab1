SPECIFICATION Spec
CONSTANTS
    Users = {u1, u2, u3}
    Requests = {r1, r2}
    Savers = {}
    Roles = {admin, operator, readonly}
    Admin = admin
    Submitted = {admin, operator, readonly, other}
    None = none
INVARIANT AdminRemains
