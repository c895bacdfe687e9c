----------------------------- MODULE Principals -----------------------------
(***************************************************************************)
(* What each user of a running system may do, by the permissions of their  *)
(* roles: the checks of src/modules/acl/abilities that the services make.  *)
(***************************************************************************)
EXTENDS AclSeed, Sequences, FiniteSetsExt

CONSTANTS Users, PermissionsOf      \* the permission rows of each user's roles

\* The permissions in some order.
Listed(permissions) == FoldSet(LAMBDA p, list : Append(list, p), <<>>, permissions)

AbilityOf == [u \in Users |-> CreateForUser(Listed(PermissionsOf[u]), u)]

Rules == [u \in Users |-> [a \in SeededActions |-> [s \in SeededSubjects |->
             RulesFor(AbilityOf[u], a, s)]]]

\* The guard of a route.
May(u, action, subject) == CanSome(Rules[u][action][subject])

\* The check of a row.
MayOn(u, action, subject, row) == CanRecord(Rules[u][action][subject], row)
=============================================================================
