SPECIFICATION Spec
CONSTANTS
    Users = {u1, u2, u3}
    Requests = {r1}
    Savers = {u3}
    Roles = {admin, operator, readonly}
    Admin = admin
    Submitted = {admin, operator, readonly, other}
    None = none
INVARIANT RoleIsAudited
