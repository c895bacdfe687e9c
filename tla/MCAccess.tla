------------------------------ MODULE MCAccess ------------------------------
(* A super-admin, someone whose role may assign roles, and a user of the default role. *)
EXTENDS Access

CONSTANTS root, lia, joe

MCUsers == {root, lia, joe}
MCRoleIds == {"super-admin", "user", "lead", "desk"}
MCNames == MCRoleIds
MCFirstRoles == root :> "super-admin" @@ lia :> "lead" @@ joe :> "user"
MCColumns == {"status", "userId"}
MCStories == [status : {"DRAFT", "PUBLISHED"}, userId : {lia, joe}]

\* A refusal, and a grant that is written as a query.
MCNewPermissions ==
  {[Permission("read", "Story", "status" :> Is("DRAFT")) EXCEPT !.inverted = TRUE],
   Permission("read", "Story",
              "status" :> [plain |-> FALSE, values |-> {"DRAFT", "PUBLISHED"}])}
=============================================================================
