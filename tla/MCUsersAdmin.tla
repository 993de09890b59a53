---------------------------- MODULE MCUsersAdmin ----------------------------
(* Instances of UsersAdmin for TLC, and the promise the code does not keep. *)
EXTENDS UsersAdmin

CONSTANTS u1, u2

RowOf(role) == [status |-> "live", role |-> role, is_active |-> TRUE]

\* One administrator and one plain user.
MCInitRows == [u \in User |-> RowOf(IF u = u1 THEN "admin" ELSE "user")]

\* No account at all: the bootstrap administrator is the first one.
MCEmptyRows == [u \in User |-> NoRow]

P(role, active) == [role |-> role, active |-> active]

MCPatch == {P("admin", "yes"), P("user", "keep"), P("keep", "no")}

RolePatch == {P("admin", "keep"), P("user", "keep")}

\* README.md: "the last active admin cannot be removed ... two concurrent admin changes can
\* never both succeed and leave zero admins".
AdminAlwaysRemains == ActiveAdmins # {}

=============================================================================
