----------------------------- MODULE MCUserRoles -----------------------------
(***************************************************************************)
(* UserRoles with three users; the requests are interchangeable.           *)
(***************************************************************************)
EXTENDS UserRoles, TLC

Perms == Permutations(Requests)

=============================================================================
