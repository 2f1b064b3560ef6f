-------------------------------- MODULE Roles --------------------------------
(***************************************************************************)
(* Roles of one tenant and the permissions requests are given: the tables  *)
(* roles, role_permissions and users.role, written by the handlers of      *)
(* modules/tenants, and the redis keys perms:<user>, which every sign-in   *)
(* reads or fills (getUserPermissions) and which the handlers delete after *)
(* they have changed a role.  Database statements run under READ           *)
(* COMMITTED: a DELETE takes the rows its statement saw, waits for rows    *)
(* another transaction has deleted, and then skips the ones that are gone; *)
(* an INSERT waits for transactions that have written the same entry of    *)
(* the unique index.  Transactions can wait for each other in a circle:    *)
(* PostgreSQL then rolls one of them back, which is one way to Fail.       *)
(*                                                                         *)
(* Definitions that are not used are wrong variants of the ones that       *)
(* follow (see Payments).                                                  *)
(***************************************************************************)
EXTENDS FiniteSets

CONSTANTS
    Request,     \* handler runs, each used once
    User,
    Key,         \* role keys
    Seeded,      \* roles of the tenant at the start
    System,      \* is_system
    SubKey,      \* the keys createSubClient takes
    Permission,
    Default,     \* the permissions the seeded roles have at the start
    Choice,      \* the permission sets that administrators save
    None, Over

VARIABLES
    roles,      \* keys in table roles
    rows,       \* table role_permissions by role; a row has its writer
    role,       \* users.role, None while there is no such user
    cache,      \* redis perms:<user>, with the request that set it
    reqs,       \* handler runs
    \* history:
    saved,      \* the set that was saved last for a role
    mixed,      \* roles that two transactions have rewritten at once
    overtaken,  \* sign-ins that a change passed after they had read
    loose,      \* roles deleted during another request about them, or handed
                \* to a sub-client without being there
    undropped   \* sign-ins whose cached entry a failed run would have deleted

db == <<roles, rows, role>>
history == <<saved, mixed, overtaken, loose, undropped>>
vars == <<roles, rows, role, cache, reqs, history>>

Row   == [permission: Permission, by: Request \cup {None}]
Entry == [perms: SUBSET Permission, by: Request]

Op == {"signin", "assign", "invite", "update", "rename", "create", "delete"}
Pc == {"get", "query", "store", "write", "lock", "snapshot", "erase", "insert",
       "list", "drop", "count", "remove"}
Run == [op: Op, pc: Pc, user: User \cup {None}, key: Key,
        perms: SUBSET Permission, seen: SUBSET Row, put: SUBSET Permission,
        drop: SUBSET User]

ASSUME RolesAssumption ==
    /\ System \subseteq Seeded /\ Seeded \subseteq Key /\ SubKey \subseteq Key
    /\ Default \subseteq Permission /\ Choice \subseteq SUBSET Permission
    /\ None \notin Request \cup Key \cup User
    /\ None # Over /\ None \notin Run \cup Entry /\ Over \notin Run

TypeOK ==
    /\ roles \subseteq Key
    /\ rows \in [Key -> SUBSET Row]
    /\ role \in [User -> Key \cup {None}]
    /\ cache \in [User -> Entry \cup {None}]
    /\ reqs \in [Request -> Run \cup {None, Over}]
    /\ saved \in [Key -> SUBSET Permission]
    /\ mixed \subseteq Key /\ loose \subseteq Key
    /\ overtaken \subseteq Request /\ undropped \subseteq Request

Permissions(R) == {w.permission : w \in R}

Granted(k) == Permissions(rows[k])

Init ==
    /\ roles = Seeded
    /\ rows = [k \in Key |-> IF k \in Seeded
                 THEN {[permission |-> p, by |-> None] : p \in Default} ELSE {}]
    /\ saved = [k \in Key |-> IF k \in Seeded THEN Default ELSE {}]
    /\ role \in [User -> Seeded \cup {None}]
    /\ cache = [u \in User |-> None]
    /\ reqs = [r \in Request |-> None]
    /\ mixed = {} /\ overtaken = {} /\ loose = {} /\ undropped = {}

----------------------------------------------------------------------------
Running(r) == reqs[r] \notin {None, Over}

At(r, pc) == Running(r) /\ reqs[r].pc = pc

GoTo(r, pc) == reqs' = [reqs EXCEPT ![r].pc = pc]

End(r) == reqs' = [reqs EXCEPT ![r] = Over]

\* Requests under way that are about role k.
About(k) == {r \in Request : Running(r) /\ reqs[r].op # "signin" /\ reqs[r].key = k}

\* The first read of a handler has let it pass.
Begin(r, op, pc, u, k, S) ==
    /\ reqs[r] = None
    /\ reqs' = [reqs EXCEPT ![r] =
         [op |-> op, pc |-> pc, user |-> u, key |-> k, perms |-> S,
          seen |-> {}, put |-> {}, drop |-> {}]]
    /\ loose' = loose \cup
         IF \/ op = "delete" /\ About(k) # {}
            \/ op # "signin" /\ \E d \in About(k) : reqs[d].op = "delete"
         THEN {k} ELSE {}
    /\ UNCHANGED <<db, cache, saved, mixed, overtaken, undropped>>

\* History: what a change of users.role or of the rows of role k passes by.
SignInsOf(u) == {r \in Request : Running(r) /\ reqs[r].op = "signin" /\ reqs[r].user = u}
HoldRowsOf(k) == {r \in Request : At(r, "store") /\ reqs[r].key = k}
Rewriting(k) == {r \in About(k) : At(r, "erase") \/ At(r, "insert")}

Rewrite(r, R, S) ==
    LET k == reqs[r].key IN
    /\ rows' = [rows EXCEPT ![k] = R]
    /\ saved' = [saved EXCEPT ![k] = S]
    /\ mixed' = IF Rewriting(k) = {r} THEN mixed ELSE mixed \cup {k}
    /\ overtaken' = overtaken \cup HoldRowsOf(k)

----------------------------------------------------------------------------
(* getUserPermissions, at the end of login, verifyMfa, refresh, register   *)
(* and acceptInvite, with the role of the user row read before.  Password, *)
(* code, token and status may refuse any of them: then there is no run.    *)

SignIn(r) == \E u \in User : role[u] # None /\ Begin(r, "signin", "get", u, role[u], {})

GetCached(r) ==
    /\ At(r, "get")
    /\ IF cache[reqs[r].user] # None THEN End(r) ELSE GoTo(r, "query")
    /\ UNCHANGED <<db, cache, history>>

\* expandPermissions keeps the names of the rows.
QueryRole(r) ==
    /\ At(r, "query")
    /\ reqs' = [reqs EXCEPT ![r].perms = Granted(reqs[r].key), ![r].pc = "store"]
    /\ UNCHANGED <<db, cache, history>>

StoreCached(r) ==
    /\ At(r, "store")
    /\ cache' = [cache EXCEPT ![reqs[r].user] = [perms |-> reqs[r].perms, by |-> r]]
    /\ End(r)
    /\ UNCHANGED <<db, history>>

\* setex 300, and the deletion in passwordReset.
CacheGoes(u) ==
    /\ cache[u] # None
    /\ cache' = [cache EXCEPT ![u] = None]
    /\ UNCHANGED <<db, reqs, history>>

----------------------------------------------------------------------------
(* updateUserPermissions, inviteUser and createSubClient.                  *)

Assign(r) ==
    \E u \in User, k \in roles : role[u] # None /\ Begin(r, "assign", "write", u, k, {})

Invite(r) ==
    \E u \in User, k \in roles : role[u] = None /\ Begin(r, "invite", "write", u, k, {})

\* The insert of an invitation fails when the e-mail is taken meanwhile.
AssignsOnly(r) ==
    LET u == reqs[r].user IN
    /\ At(r, "write")
    /\ role' = [role EXCEPT ![u] = reqs[r].key]
    /\ overtaken' = overtaken \cup SignInsOf(u)
    /\ End(r)
    /\ UNCHANGED <<roles, rows, cache, saved, mixed, loose, undropped>>
WriteRole(r) ==
    LET u == reqs[r].user IN
    /\ At(r, "write")
    /\ \/ /\ reqs[r].op = "assign"
          /\ role' = [role EXCEPT ![u] = reqs[r].key]
          /\ reqs' = [reqs EXCEPT ![r].pc = "drop", ![r].drop = {u}]
          /\ overtaken' = overtaken \cup SignInsOf(u)
       \/ /\ reqs[r].op = "invite"
          /\ role' = IF role[u] = None THEN [role EXCEPT ![u] = reqs[r].key] ELSE role
          /\ End(r)
          /\ UNCHANGED overtaken
    /\ UNCHANGED <<roles, rows, cache, saved, mixed, loose, undropped>>

\* createSubClient writes its two keys without asking whether they are roles.
SubClient(r) ==
    /\ reqs[r] = None
    /\ \E u \in User, k \in SubKey :
         /\ role[u] = None
         /\ role' = [role EXCEPT ![u] = k]
         /\ loose' = IF k \in roles /\ \A d \in About(k) : reqs[d].op # "delete"
                     THEN loose ELSE loose \cup {k}
    /\ End(r)
    /\ UNCHANGED <<roles, rows, cache, saved, mixed, overtaken, undropped>>

----------------------------------------------------------------------------
(* createRole, updateRole and deleteRole.  'rename' is an update that      *)
(* writes the roles row as well and so holds its lock until it commits; an *)
(* update of the name alone changes nothing that is modelled.  A system    *)
(* role is updated by a super admin only, who may be the caller.           *)

CreateRole(r) == \E k \in Key \ roles, S \in Choice : Begin(r, "create", "lock", None, k, S)

UpdateRole(r) ==
    \E k \in roles, S \in Choice :
        \/ Begin(r, "update", "snapshot", None, k, S)
        \/ Begin(r, "rename", "lock", None, k, S)

DeleteRole(r) == \E k \in roles \ System : Begin(r, "delete", "count", None, k, {})

\* The row or index entry of the role belongs to a transaction that wrote it.
HoldsRole(r, op, k) ==
    /\ r \in About(k)
    /\ reqs[r].op = op
    /\ reqs[r].pc \in {"snapshot", "erase", "insert"}

\* Rows of role_permissions that a transaction has deleted and not committed.
Held(r) == IF At(r, "insert") THEN reqs[r].seen ELSE {}

RowIsHeld(r, R) == \E t \in About(reqs[r].key) \ {r} : Held(t) \cap R # {}

RoleIsHeld(r, op) == \E t \in Request \ {r} : HoldsRole(t, op, reqs[r].key)

\* createRoleMeta and updateRoleMeta.  The unique index refuses a second role.
LockRole(r) ==
    /\ At(r, "lock")
    /\ ~RoleIsHeld(r, reqs[r].op)
    /\ IF reqs[r].op = "create" /\ reqs[r].key \in roles
       THEN End(r) ELSE GoTo(r, "snapshot")
    /\ UNCHANGED <<db, cache, history>>

CountsNobody(r) == At(r, "count") /\ GoTo(r, "snapshot") /\ UNCHANGED <<db, cache, history>>
CountUsers(r) ==
    /\ At(r, "count")
    /\ IF \E u \in User : role[u] = reqs[r].key THEN End(r) ELSE GoTo(r, "snapshot")
    /\ UNCHANGED <<db, cache, history>>

\* DELETE FROM role_permissions: the rows it sees, and the ones it gets.
Snapshot(r) ==
    /\ At(r, "snapshot")
    /\ reqs' = [reqs EXCEPT ![r].seen = rows[reqs[r].key], ![r].pc = "erase"]
    /\ UNCHANGED <<db, cache, history>>

Erase(r) ==
    LET k == reqs[r].key
        gone == reqs[r].seen \cap rows[k] IN
    /\ At(r, "erase")
    /\ ~RowIsHeld(r, reqs[r].seen)
    /\ \/ /\ reqs[r].op = "delete"
          /\ Rewrite(r, rows[k] \ gone, {})
          /\ reqs' = [reqs EXCEPT ![r].pc = "remove", ![r].seen = gone]
       \/ /\ reqs[r].op # "delete"
          /\ reqs' = [reqs EXCEPT ![r].pc = "insert", ![r].seen = gone]
          /\ UNCHANGED <<rows, saved, mixed, overtaken>>
    /\ UNCHANGED <<roles, role, cache, loose, undropped>>

\* INSERT, row by row in the order of the request's array, which may be any.  The
\* unique index makes it wait for transactions that have deleted or inserted this
\* permission of the role, and refuses what is there and was not deleted here.
Written(r, p) ==
    {w \in rows[reqs[r].key] \ reqs[r].seen : w.permission = p}

EntryIsHeld(r, p) ==
    \/ RowIsHeld(r, Written(r, p))
    \/ \E t \in About(reqs[r].key) \ {r} : p \in reqs[t].put

Insert(r) ==
    /\ At(r, "insert")
    /\ \E p \in reqs[r].perms \ reqs[r].put :
         /\ ~EntryIsHeld(r, p)
         /\ reqs' = [reqs EXCEPT ![r] = IF Written(r, p) # {} THEN Over
                        ELSE [reqs[r] EXCEPT !.put = @ \cup {p}]]
    /\ UNCHANGED <<db, cache, history>>

\* The COMMIT, with the rows that were deleted and inserted.
CommitWithoutDelete(r) ==
    LET k == reqs[r].key IN
    /\ Rewrite(r, rows[k] \cup
                  {[permission |-> p, by |-> r] : p \in reqs[r].perms}, reqs[r].perms)
    /\ IF reqs[r].op = "create" THEN roles' = roles \cup {k} /\ End(r)
       ELSE UNCHANGED roles /\ reqs' = [reqs EXCEPT ![r].pc = "list", ![r].put = {}]
Commit(r) ==
    LET k == reqs[r].key IN
    /\ Rewrite(r, (rows[k] \ reqs[r].seen) \cup
                  {[permission |-> p, by |-> r] : p \in reqs[r].perms}, reqs[r].perms)
    /\ IF reqs[r].op = "create" THEN roles' = roles \cup {k} /\ End(r)
       ELSE UNCHANGED roles /\ reqs' = [reqs EXCEPT ![r].pc = "list", ![r].put = {}]

Save(r) ==
    /\ At(r, "insert") /\ reqs[r].put = reqs[r].perms
    /\ Commit(r)
    /\ UNCHANGED <<role, cache, loose, undropped>>

RemoveRole(r) ==
    /\ At(r, "remove")
    /\ ~RoleIsHeld(r, "rename")
    /\ roles' = roles \ {reqs[r].key}
    /\ End(r)
    /\ UNCHANGED <<rows, role, cache, history>>

\* invalidateRoleCache: getUsersWithRole, then one DEL for each of them.
ListUsers(r) ==
    LET holders == {u \in User : role[u] = reqs[r].key} IN
    /\ At(r, "list")
    /\ reqs' = [reqs EXCEPT ![r] = IF holders = {} THEN Over
                 ELSE [reqs[r] EXCEPT !.pc = "drop", !.drop = holders]]
    /\ UNCHANGED <<db, cache, history>>

DropCached(r) ==
    /\ At(r, "drop")
    /\ \E u \in reqs[r].drop :
         /\ cache' = [cache EXCEPT ![u] = None]
         /\ reqs' = [reqs EXCEPT ![r] = IF reqs[r].drop = {u} THEN Over
                      ELSE [reqs[r] EXCEPT !.drop = @ \ {u}]]
    /\ UNCHANGED <<db, history>>

----------------------------------------------------------------------------
\* A request that will delete the cache key of u.
WillDrop(r, u) ==
    \/ At(r, "drop") /\ u \in reqs[r].drop
    \/ At(r, "list") /\ reqs[r].key = role[u]

\* A run ends where it is: the process dies, a statement or a redis call fails,
\* or PostgreSQL picks its transaction to break a circle of waits.  An open
\* transaction is rolled back; what was committed stays, and deletions of cache
\* keys that were still to come are lost.
Fail(r) ==
    /\ Running(r)
    /\ undropped' = undropped \cup
         {cache[u].by : u \in {v \in User : WillDrop(r, v) /\ cache[v] # None}}
    /\ End(r)
    /\ UNCHANGED <<db, cache, saved, mixed, overtaken, loose>>

Finished == (\A r \in Request : reqs[r] = Over) /\ UNCHANGED vars

Next ==
    \/ \E r \in Request :
         \/ SignIn(r) \/ GetCached(r) \/ QueryRole(r) \/ StoreCached(r)
         \/ Assign(r) \/ Invite(r) \/ WriteRole(r) \/ SubClient(r)
         \/ CreateRole(r) \/ UpdateRole(r) \/ DeleteRole(r)
         \/ LockRole(r) \/ CountUsers(r) \/ Snapshot(r) \/ Erase(r)
         \/ Insert(r) \/ Save(r) \/ RemoveRole(r) \/ ListUsers(r) \/ DropCached(r)
         \/ Fail(r)
    \/ \E u \in User : CacheGoes(u)
    \/ Finished

Spec == Init /\ [][Next]_vars

----------------------------------------------------------------------------
(* Properties.                                                             *)

\* deleteRole refuses a role that users hold: nobody holds a role that is gone,
\* unless another request about the role overlapped the deletion or it was given
\* to a sub-client before it existed.
HoldersHaveARole ==
    \A u \in User : role[u] # None => role[u] \in roles \cup loose

\* Cached permissions are the ones of the user's role, or about to be dropped,
\* unless a change passed the sign-in that cached them after it had read, or the
\* run that would have dropped this very entry has failed.
CacheIsCurrent ==
    \A u \in User :
        cache[u] # None /\ cache[u].perms # Granted(role[u]) =>
            \/ \E r \in Request : WillDrop(r, u)
            \/ cache[u].by \in overtaken \cup undropped
            \/ role[u] \in loose

\* A role has exactly the permissions that were saved last, unless two requests
\* rewrote its rows at the same time; a role that is gone has none.
SavedSetHolds ==
    /\ \A k \in Key \ mixed : Granted(k) = saved[k]
    /\ \A k \in Key \ (roles \cup loose) : rows[k] = {}
=============================================================================
