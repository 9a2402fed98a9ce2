-------------------------------- MODULE Users -------------------------------
(***************************************************************************)
(* UserService (internal/service/user.go): create, update, delete, change  *)
(* of the own password.  Every check reads committed rows outside the      *)
(* write transaction, and an update writes back the whole row it has read. *)
(***************************************************************************)
EXTENDS IdentityApi

\* Create.  An invalid name is refused before the username is looked up.
CheckUsername(r) ==
    LET q == arg[r]
    IN  /\ pc[r] = "userName"
        /\ IF q.name = "" THEN Refuse(r, 400)
           ELSE IF UsersNamed(q.name) # {} THEN Refuse(r, 409)
           ELSE Proceed(r, "userInsert", loc[r])

\* Bootstrap always creates an enabled administrator.
NewUser(q) ==
    LET first == q.op = "Bootstrap"
    IN  [name |-> q.name, pw |-> q.pw,
         role |-> IF first THEN "admin" ELSE q.role,
         enabled |-> first \/ q.enabled]

\* The INSERT.  Bootstrap goes on to create a session, in a transaction of its
\* own; a violation of the unique index is a 500.
InsertUser(r) ==
    LET row == NewUser(arg[r])
    IN  /\ pc[r] = "userInsert"
        /\ \E u \in User \ used :
             IF ~UsernameFree(u, row.name) THEN Refuse(r, 500)
             ELSE /\ WriteUser(u, row)
                  /\ IF arg[r].op = "Bootstrap"
                     THEN /\ Goto(r, "sessionInsert")
                          /\ loc' = [loc EXCEPT ![r].owner = u]
                     ELSE Answer(r, 201)

\* The row with the fields of the body applied.
MergeUser(row, q) ==
    [name |-> Or(q.name, row.name), pw |-> Or(q.pw, row.pw),
     role |-> Or(q.role, row.role), enabled |-> Or(q.enabled, row.enabled)]

\* Update, first step: read the row and apply the body to it in memory.
ReadUser(r) ==
    LET u   == arg[r].id
        old == users[u]
        new == MergeUser(old, arg[r])
        demotes == IsEnabledAdmin(old) /\ ~IsEnabledAdmin(new)
        next == IF new.name # old.name THEN "userRename"
                ELSE IF demotes THEN "adminCount" ELSE "userWrite"
    IN  /\ pc[r] = "userRead"
        /\ IF old = Nil THEN Refuse(r, 404)
           ELSE IF new.name = "" THEN Refuse(r, 400)
           ELSE Proceed(r, next, [loc[r] EXCEPT !.owner = u, !.row = new, !.flag = demotes])

\* Only a changed username is looked up.
CheckRename(r) ==
    /\ pc[r] = "userRename"
    /\ IF ~UsernameFree(loc[r].owner, loc[r].row.name) THEN Refuse(r, 409)
       ELSE Proceed(r, IF loc[r].flag THEN "adminCount" ELSE "userWrite", loc[r])

\* Delete, first step.
ReadForDelete(r) ==
    LET u == arg[r].id
    IN  /\ pc[r] = "userDelRead"
        /\ IF users[u] = Nil THEN Refuse(r, 404)
           ELSE Proceed(r, IF IsEnabledAdmin(users[u]) THEN "adminCount" ELSE "userDelete",
                        [loc[r] EXCEPT !.owner = u])

\* Mutant: off by one, the last administrator passes.
EnsureNotLastAdmin_offByOne(r) ==
    /\ pc[r] = "adminCount"
    /\ IF Cardinality(EnabledAdmins) < 1 THEN Refuse(r, 409)
       ELSE Proceed(r, IF arg[r].op = "DeleteUser" THEN "userDelete" ELSE "userWrite",
                    loc[r])

\* CountEnabledAdmins, in a query of its own.
EnsureNotLastAdmin(r) ==
    /\ pc[r] = "adminCount"
    /\ IF Cardinality(EnabledAdmins) <= 1 THEN Refuse(r, 409)
       ELSE Proceed(r, IF arg[r].op = "DeleteUser" THEN "userDelete" ELSE "userWrite",
                    loc[r])

\* The UPDATE of Update and of ChangeOwnPassword: all columns, from memory.
UpdateUserRow(r) ==
    LET u == loc[r].owner
        row == loc[r].row
    IN  /\ pc[r] = "userWrite"
        /\ IF users[u] = Nil THEN Refuse(r, 404)
           ELSE IF ~UsernameFree(u, row.name) THEN Refuse(r, 500)
           ELSE WriteUser(u, row) /\ Answer(r, 200)

DeleteUserRow(r) ==
    LET u == loc[r].owner
    IN  /\ pc[r] = "userDelete"
        /\ IF users[u] = Nil THEN Refuse(r, 404)
           ELSE RemoveUser(u) /\ Answer(r, 200)

\* ChangeOwnPassword: the user's own row, read after authentication.
ReadForPassword(r) ==
    LET u == loc[r].principal
        row == users[u]
    IN  /\ pc[r] = "pwRead"
        /\ IF row = Nil THEN Refuse(r, 404)
           ELSE IF row.pw # arg[r].old THEN Refuse(r, 401)
           ELSE Proceed(r, "userWrite",
                        [loc[r] EXCEPT !.owner = u, !.row = [row EXCEPT !.pw = arg[r].pw]])

UserStep(r) ==
    \/ CheckUsername(r) \/ InsertUser(r)
    \/ ReadUser(r) \/ CheckRename(r) \/ UpdateUserRow(r)
    \/ ReadForDelete(r) \/ EnsureNotLastAdmin(r) \/ DeleteUserRow(r)
    \/ ReadForPassword(r)
=============================================================================
