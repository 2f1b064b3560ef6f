----------------------------- MODULE RolesProofs -----------------------------
(***************************************************************************)
(* Theorems about Roles for any requests, users, roles and permissions.    *)
(*                                                                         *)
(* The argument.  Two requests about a role of which one deletes it have   *)
(* marked it loose when the later one began (Guarded); so whoever was let  *)
(* through by a check on a role that is not loose still finds it, and a    *)
(* deletion that counted no holders still has none.  A transaction that    *)
(* rewrites a role nobody else rewrites sees all its rows (Exclusive).     *)
(* Whoever is about to cache permissions has the ones of the user's role,  *)
(* or has been marked by the change that made them old (Fresh); and a run  *)
(* that ends before it has dropped an entry has marked that entry.         *)
(***************************************************************************)
EXTENDS Roles, TLAPS

PcOf(op) ==
    CASE op = "signin" -> {"get", "query", "store"}
      [] op = "assign" -> {"write", "drop"}
      [] op = "invite" -> {"write"}
      [] op = "update" -> {"snapshot", "erase", "insert", "list", "drop"}
      [] op = "rename" -> {"lock", "snapshot", "erase", "insert", "list", "drop"}
      [] op = "create" -> {"lock", "snapshot", "erase", "insert"}
      [] op = "delete" -> {"count", "snapshot", "erase", "remove"}

Is(r, op) == Running(r) /\ reqs[r].op = op

Flow == \A r \in Request : Running(r) =>
    /\ reqs[r].pc \in PcOf(reqs[r].op)
    /\ reqs[r].op \in {"signin", "assign", "invite"} => reqs[r].user \in User

\* Deletion against assignment, invitation and the other writers of a role.
Guarded ==
    /\ \A r, d \in Request :
          Is(d, "delete") /\ r # d /\ r \in About(reqs[d].key) => reqs[d].key \in loose
    /\ \A r \in Request :
          Running(r) /\ reqs[r].op \in {"assign", "invite", "update", "rename"}
          /\ reqs[r].pc # "drop" /\ reqs[r].pc # "list"
            => reqs[r].key \in roles \cup loose
    /\ \A d \in Request : Is(d, "delete") /\ reqs[d].pc # "count" =>
          reqs[d].key \in loose \/ \A u \in User : role[u] # reqs[d].key

\* What a transaction that rewrites a role has seen.
Exclusive ==
    /\ \A r, s \in Request, k \in Key :
          HoldsRole(r, "create", k) => k \notin roles /\ (HoldsRole(s, "create", k) => s = r)
    /\ \A r \in Request : At(r, "erase") \/ At(r, "insert") =>
          reqs[r].key \in mixed \/ reqs[r].seen = rows[reqs[r].key]
    /\ \A d \in Request : Is(d, "delete") /\ At(d, "erase") =>
          reqs[d].key \in loose \/ reqs[d].seen = rows[reqs[d].key]
    /\ \A d \in Request : At(d, "remove") =>
          reqs[d].key \in loose \/ rows[reqs[d].key] = {}

\* What a sign-in has read, and what is cached.
Fresh ==
    /\ \A u \in User : cache[u] # None => role[u] # None
    /\ \A r \in Request : Is(r, "signin") =>
          /\ role[reqs[r].user] # None
          /\ \/ r \in overtaken
             \/ /\ reqs[r].key = role[reqs[r].user]
                /\ reqs[r].pc = "store" => reqs[r].perms = Granted(reqs[r].key)

IInv == TypeOK /\ Flow /\ Guarded /\ HoldersHaveARole /\ Exclusive /\ SavedSetHolds
        /\ Fresh /\ CacheIsCurrent

----------------------------------------------------------------------------
(* Types, and which steps a run goes through.                              *)

LEMMA RunType ==
    ASSUME TypeOK, NEW r \in Request, Running(r)
    PROVE  reqs[r] \in Run
BY DEF TypeOK, Running

LEMMA GrantedType ==
    ASSUME TypeOK, NEW k \in Key
    PROVE  /\ Granted(k) \in SUBSET Permission
           /\ rows[k] \in SUBSET Row
BY DEF TypeOK, Granted, Permissions, Row

LEMMA RewriteType ==
    ASSUME TypeOK, NEW r \in Request, Running(r),
           NEW R \in SUBSET Row, NEW S \in SUBSET Permission, Rewrite(r, R, S)
    PROVE  /\ rows' \in [Key -> SUBSET Row]
           /\ saved' \in [Key -> SUBSET Permission]
           /\ mixed' \subseteq Key
           /\ overtaken' \subseteq Request
<1>1. reqs[r].key \in Key
  BY RunType DEF Run
<1> QED
  BY <1>1 DEF TypeOK, Rewrite, HoldRowsOf

LEMMA BeginType ==
    ASSUME TypeOK, NEW r \in Request, NEW op \in Op, NEW pc \in Pc,
           NEW u \in User \cup {None}, NEW k \in Key, NEW S \in SUBSET Permission,
           Begin(r, op, pc, u, k, S)
    PROVE  TypeOK'
BY DEF TypeOK, Begin, Run, db

LEMMA WrittenRows ==
    ASSUME TypeOK, NEW r \in Request, Running(r)
    PROVE  (rows[reqs[r].key] \ reqs[r].seen) \cup
               {[permission |-> p, by |-> r] : p \in reqs[r].perms} \in SUBSET Row
<1>1. reqs[r].key \in Key /\ reqs[r].perms \in SUBSET Permission
  BY RunType DEF Run
<1>2. rows[reqs[r].key] \in SUBSET Row
  BY <1>1, GrantedType
<1>3. {[permission |-> p, by |-> r] : p \in reqs[r].perms} \in SUBSET Row
  BY <1>1 DEF Row
<1> QED
  BY <1>2, <1>3

\* A run that has just begun, as its record.
LEMMA Begun ==
    ASSUME TypeOK, NEW r \in Request, NEW op \in Op, NEW pc \in Pc,
           NEW u \in User \cup {None}, NEW k \in Key, NEW S \in SUBSET Permission,
           Begin(r, op, pc, u, k, S)
    PROVE  /\ ~Running(r) /\ Running(r)'
           /\ reqs'[r].op = op /\ reqs'[r].pc = pc /\ reqs'[r].user = u
           /\ reqs'[r].key = k /\ reqs'[r].perms = S
           /\ \A s \in Request \ {r} : reqs'[s] = reqs[s]
<1>1. [op |-> op, pc |-> pc, user |-> u, key |-> k, perms |-> S,
          seen |-> {}, put |-> {}, drop |-> {}] \in Run
  BY DEF Run
<1> QED
  BY <1>1, RolesAssumption DEF TypeOK, Begin, Running

\* The steps that begin a run.
Opens(r) ==
    SignIn(r) \/ Assign(r) \/ Invite(r) \/ CreateRole(r) \/ UpdateRole(r) \/ DeleteRole(r)

LEMMA Opened ==
    ASSUME TypeOK, NEW r \in Request, Opens(r)
    PROVE  \E op \in Op, pc \in Pc, u \in User \cup {None}, k \in Key,
              S \in SUBSET Permission :
             /\ Begin(r, op, pc, u, k, S)
             /\ pc \in PcOf(op) \ {"list", "drop", "store", "erase", "insert", "remove"}
             /\ op \in {"assign", "invite", "update", "rename"} => k \in roles
             /\ op \in {"signin", "assign", "invite"} => u \in User
             /\ op = "signin" => pc = "get" /\ role[u] # None /\ k = role[u]
             /\ op = "create" => pc = "lock"
             /\ op = "delete" => pc = "count"
<1>0. {} \in SUBSET Permission /\ Choice \subseteq SUBSET Permission
  BY RolesAssumption
<1>1. CASE SignIn(r)
  <2>1. PICK u \in User : role[u] # None /\ Begin(r, "signin", "get", u, role[u], {})
    BY <1>1 DEF SignIn
  <2> QED
    BY <1>0, <2>1 DEF TypeOK, Op, Pc, PcOf
<1>2. CASE Assign(r)
  <2>1. PICK u \in User, k \in roles : Begin(r, "assign", "write", u, k, {})
    BY <1>2 DEF Assign
  <2> QED
    BY <1>0, <2>1 DEF TypeOK, Op, Pc, PcOf
<1>3. CASE Invite(r)
  <2>1. PICK u \in User, k \in roles : Begin(r, "invite", "write", u, k, {})
    BY <1>3 DEF Invite
  <2> QED
    BY <1>0, <2>1 DEF TypeOK, Op, Pc, PcOf
<1>4. CASE CreateRole(r)
  <2>1. PICK k \in Key \ roles, S \in Choice : Begin(r, "create", "lock", None, k, S)
    BY <1>4 DEF CreateRole
  <2> QED
    BY <1>0, <2>1 DEF TypeOK, Op, Pc, PcOf
<1>5. CASE UpdateRole(r)
  <2>1. PICK k \in roles, S \in Choice : \/ Begin(r, "update", "snapshot", None, k, S)
                                         \/ Begin(r, "rename", "lock", None, k, S)
    BY <1>5 DEF UpdateRole
  <2> QED
    BY <1>0, <2>1 DEF TypeOK, Op, Pc, PcOf
<1>6. CASE DeleteRole(r)
  <2>1. PICK k \in roles : Begin(r, "delete", "count", None, k, {})
    BY <1>6 DEF DeleteRole
  <2> QED
    BY <1>0, <2>1 DEF TypeOK, Op, Pc, PcOf
<1> QED
  BY <1>1, <1>2, <1>3, <1>4, <1>5, <1>6 DEF Opens

\* Every step keeps the types of tables, cache and requests.
LEMMA TypeStep == TypeOK /\ Flow /\ [Next]_vars => TypeOK'
<1> SUFFICES ASSUME TypeOK, Flow, [Next]_vars PROVE TypeOK'
  OBVIOUS
<1> USE DEF db, history
<1>1. ASSUME NEW r \in Request, Opens(r) PROVE TypeOK'
  BY <1>1, Opened, BeginType
<1>2. ASSUME NEW r \in Request, GetCached(r) PROVE TypeOK'
  BY <1>2, RunType DEF GetCached, At, TypeOK, GoTo, End, Run, Pc
<1>3. ASSUME NEW r \in Request, QueryRole(r) PROVE TypeOK'
  <2>1. reqs[r] \in Run /\ reqs[r].key \in Key
    BY <1>3, RunType DEF QueryRole, At, Run
  <2>2. Granted(reqs[r].key) \in SUBSET Permission
    BY <2>1, GrantedType
  <2> QED
    BY <1>3, <2>1, <2>2 DEF QueryRole, TypeOK, Run, Pc
<1>4. ASSUME NEW r \in Request, StoreCached(r) PROVE TypeOK'
  BY <1>4, RunType DEF StoreCached, At, TypeOK, End, Run, Entry
<1>6. ASSUME NEW r \in Request, WriteRole(r) PROVE TypeOK'
  <2>1. /\ reqs[r] \in Run /\ reqs[r].key \in Key
        /\ reqs[r].op = "assign" => reqs[r].user \in User
    BY <1>6, RunType DEF WriteRole, At, Run, Flow
  <2>2. role' \in [User -> Key \cup {None}]
    BY <1>6, <2>1 DEF WriteRole, TypeOK
  <2>3. reqs' \in [Request -> Run \cup {None, Over}]
    BY <1>6, <2>1 DEF WriteRole, TypeOK, End, Run, Pc
  <2> QED
    BY <1>6, <2>2, <2>3 DEF WriteRole, TypeOK, SignInsOf
<1>7. ASSUME NEW r \in Request, SubClient(r) PROVE TypeOK'
  BY <1>7, RolesAssumption DEF SubClient, TypeOK, End
<1>9. ASSUME NEW r \in Request, LockRole(r) \/ CountUsers(r) PROVE TypeOK'
  BY <1>9, RunType DEF LockRole, CountUsers, At, TypeOK, GoTo, End, Run, Pc
<1>10. ASSUME NEW r \in Request, Snapshot(r) PROVE TypeOK'
  <2>1. reqs[r] \in Run /\ rows[reqs[r].key] \in SUBSET Row
    BY <1>10, RunType, GrantedType DEF Snapshot, At, Run
  <2> QED
    BY <1>10, <2>1 DEF Snapshot, TypeOK, Run, Pc
<1>11. ASSUME NEW r \in Request, Erase(r) PROVE TypeOK'
  <2>1. /\ Running(r) /\ reqs[r] \in Run
        /\ rows[reqs[r].key] \in SUBSET Row /\ reqs[r].seen \in SUBSET Row
    BY <1>11, RunType, GrantedType DEF Erase, At, Run
  <2>2. reqs' \in [Request -> Run \cup {None, Over}]
    BY <1>11, <2>1 DEF Erase, TypeOK, Run, Pc
  <2>3. /\ rows' \in [Key -> SUBSET Row] /\ saved' \in [Key -> SUBSET Permission]
        /\ mixed' \subseteq Key /\ overtaken' \subseteq Request
    <3> DEFINE left == rows[reqs[r].key] \ (reqs[r].seen \cap rows[reqs[r].key])
    <3>1. left \in SUBSET Row
      BY <2>1
    <3>2. CASE Rewrite(r, left, {})
      <4>1. {} \in SUBSET Permission
        OBVIOUS
      <4> HIDE DEF left
      <4> QED
        BY <2>1, <3>1, <3>2, <4>1, RewriteType
    <3>3. CASE UNCHANGED <<rows, saved, mixed, overtaken>>
      BY <3>3 DEF TypeOK
    <3> QED
      BY <1>11, <3>2, <3>3 DEF Erase
  <2> QED
    BY <1>11, <2>2, <2>3 DEF Erase, TypeOK
<1>11a. ASSUME NEW r \in Request, Insert(r) PROVE TypeOK'
  <2>1. /\ reqs[r] \in Run /\ reqs[r].perms \in SUBSET Permission
        /\ reqs[r].put \in SUBSET Permission
    BY <1>11a, RunType DEF Insert, At, Run
  <2>2. PICK p \in reqs[r].perms :
           reqs' = [reqs EXCEPT ![r] = IF Written(r, p) # {} THEN Over
                      ELSE [reqs[r] EXCEPT !.put = @ \cup {p}]]
    BY <1>11a DEF Insert
  <2>3. [reqs[r] EXCEPT !.put = @ \cup {p}] \in Run
    BY <2>1 DEF Run
  <2>4. reqs' \in [Request -> Run \cup {None, Over}]
    BY <2>2, <2>3 DEF TypeOK
  <2> QED
    BY <1>11a, <2>4 DEF Insert, TypeOK
<1>12. ASSUME NEW r \in Request, Save(r) PROVE TypeOK'
  <2>1. /\ Running(r) /\ reqs[r] \in Run /\ reqs[r].key \in Key
        /\ reqs[r].perms \in SUBSET Permission /\ Commit(r)
    BY <1>12, RunType DEF Save, At, Run
  <2>2. /\ rows' \in [Key -> SUBSET Row] /\ saved' \in [Key -> SUBSET Permission]
        /\ mixed' \subseteq Key /\ overtaken' \subseteq Request
    BY <2>1, WrittenRows, RewriteType DEF Commit
  <2>3. roles' \subseteq Key /\ reqs' \in [Request -> Run \cup {None, Over}]
    BY <2>1 DEF Commit, TypeOK, End, Run, Pc
  <2> QED
    BY <1>12, <2>2, <2>3 DEF Save, TypeOK
<1>13. ASSUME NEW r \in Request, RemoveRole(r) PROVE TypeOK'
  BY <1>13 DEF RemoveRole, TypeOK, End
<1>14. ASSUME NEW r \in Request, ListUsers(r) PROVE TypeOK'
  <2>1. reqs[r] \in Run
    BY <1>14, RunType DEF ListUsers, At
  <2> DEFINE holders == {u \in User : role[u] = reqs[r].key}
  <2>2. holders \in SUBSET User
    OBVIOUS
  <2>3. reqs' = [reqs EXCEPT ![r] = IF holders = {} THEN Over
                   ELSE [reqs[r] EXCEPT !.pc = "drop", !.drop = holders]]
    BY <1>14 DEF ListUsers
  <2> HIDE DEF holders
  <2>4. reqs' \in [Request -> Run \cup {None, Over}]
    BY <2>1, <2>2, <2>3 DEF TypeOK, Run, Pc
  <2> QED
    BY <1>14, <2>4 DEF ListUsers, TypeOK
<1>15. ASSUME NEW r \in Request, DropCached(r) PROVE TypeOK'
  BY <1>15, RunType DEF DropCached, At, TypeOK, Run
<1>16. ASSUME NEW u \in User, CacheGoes(u) PROVE TypeOK'
  BY <1>16 DEF CacheGoes, TypeOK
<1>16a. ASSUME NEW r \in Request, Fail(r) PROVE TypeOK'
  <2>1. \A u \in User : cache[u] # None => cache[u].by \in Request
    BY DEF TypeOK, Entry
  <2>2. undropped' \subseteq Request
    BY <1>16a, <2>1 DEF Fail, TypeOK
  <2> QED
    BY <1>16a, <2>2 DEF Fail, TypeOK, End
<1>17. CASE UNCHANGED vars
  BY <1>17 DEF vars, TypeOK
<1> QED
  BY <1>1, <1>2, <1>3, <1>4, <1>6, <1>7, <1>9, <1>10, <1>11, <1>11a, <1>16a,
     <1>12, <1>13, <1>14, <1>15, <1>16, <1>17 DEF Next, Finished, Opens

\* The later steps of a run.
Goes(r) ==
    \/ GetCached(r) \/ QueryRole(r) \/ StoreCached(r) \/ WriteRole(r)
    \/ LockRole(r) \/ CountUsers(r) \/ Snapshot(r) \/ Erase(r)
    \/ Insert(r) \/ Save(r) \/ RemoveRole(r) \/ ListUsers(r) \/ DropCached(r)

\* Which operations have which steps, and what comes after a step.
Fits(q) ==
    /\ q.pc \in {"get", "query", "store"} <=> q.op = "signin"
    /\ q.pc = "write" => q.op \in {"assign", "invite"}
    /\ q.pc = "lock" => q.op \in {"rename", "create"}
    /\ q.pc \in {"snapshot", "erase"} => q.op \in {"update", "rename", "create", "delete"}
    /\ q.pc = "insert" => q.op \in {"update", "rename", "create"}
    /\ q.pc = "list" => q.op \in {"update", "rename"}
    /\ q.pc = "drop" => q.op \in {"assign", "update", "rename"}
    /\ q.pc \in {"count", "remove"} => q.op = "delete"

Follows(q, pc) ==
    \/ q.pc = "get" /\ pc = "query"
    \/ q.pc = "query" /\ pc = "store"
    \/ q.op = "assign" /\ pc = "drop"
    \/ q.pc \in {"lock", "count"} /\ pc = "snapshot"
    \/ q.pc = "snapshot" /\ pc = "erase"
    \/ q.pc = "erase" /\ q.op = "delete" /\ pc = "remove"
    \/ q.pc = "erase" /\ q.op # "delete" /\ pc = "insert"
    \/ q.pc = "insert" /\ pc = "insert"
    \/ q.pc = "insert" /\ q.op # "create" /\ pc = "list"
    \/ q.pc \in {"list", "drop"} /\ pc = "drop"

LEMMA StepsOf ==
    ASSUME NEW q \in Run, q.pc \in PcOf(q.op)
    PROVE  /\ Fits(q)
           /\ \A pc \in Pc : Follows(q, pc) => pc \in PcOf(q.op)
<1> DEFINE op == q.op
<1> USE DEF Fits, Follows, PcOf
<1>1. CASE op = "signin"
  BY <1>1
<1>2. CASE op = "assign"
  BY <1>2
<1>3. CASE op = "invite"
  BY <1>3
<1>4. CASE op = "update"
  BY <1>4
<1>5. CASE op = "rename"
  BY <1>5
<1>6. CASE op = "create"
  BY <1>6
<1>7. CASE op = "delete"
  BY <1>7
<1> QED
  BY <1>1, <1>2, <1>3, <1>4, <1>5, <1>6, <1>7 DEF Op, Run

\* They end the run or take it on, with the same operation, user and role.
Kept(r) ==
    \/ reqs'[r] \in {None, Over}
    \/ /\ reqs'[r] \in Run
       /\ reqs'[r].op = reqs[r].op /\ reqs'[r].user = reqs[r].user
       /\ reqs'[r].key = reqs[r].key
       /\ reqs'[r].pc \in PcOf(reqs[r].op)
       /\ Follows(reqs[r], reqs'[r].pc)

LEMMA Going ==
    ASSUME TypeOK, Flow, NEW r \in Request, Goes(r)
    PROVE  /\ Running(r) /\ reqs[r] \in Run /\ Fits(reqs[r])
           /\ \A s \in Request \ {r} : reqs'[s] = reqs[s]
           /\ Kept(r)
<1>1. Running(r)
  BY DEF Goes, GetCached, QueryRole, StoreCached, WriteRole, LockRole, CountUsers,
         Snapshot, Erase, Insert, Save, RemoveRole, ListUsers, DropCached, At
<1>2. reqs[r] \in Run
  BY <1>1, RunType
<1>3. \A s \in Request \ {r} : reqs'[s] = reqs[s]
  BY DEF Goes, GetCached, QueryRole, StoreCached, WriteRole, LockRole, CountUsers,
         Snapshot, Erase, Insert, Save, Commit, RemoveRole, ListUsers, DropCached,
         GoTo, End, TypeOK
<1>4. TypeOK'
  BY <1>1, TypeStep DEF Goes, Next
<1>5. /\ reqs[r].op \in Op /\ reqs[r].pc \in PcOf(reqs[r].op)
  BY <1>1, <1>2 DEF Flow, Run
<1>6. Kept(r)
  <2>1. Fits(reqs[r]) /\ \A pc \in Pc : Follows(reqs[r], pc) => pc \in PcOf(reqs[r].op)
    BY <1>2, <1>5, StepsOf
  <2>2. reqs' \in [Request -> Run \cup {None, Over}]
    BY <1>4 DEF TypeOK
  <2>3. \/ reqs'[r] = Over
        \/ /\ reqs'[r].op = reqs[r].op /\ reqs'[r].user = reqs[r].user
           /\ reqs'[r].key = reqs[r].key
           /\ Follows(reqs[r], reqs'[r].pc) /\ reqs'[r].pc \in Pc
    <3> USE <1>2, <2>1 DEF Fits, Follows, At, TypeOK, Pc, Run
    <3>1. CASE GetCached(r)
      BY <3>1 DEF GetCached, GoTo, End
    <3>2. CASE QueryRole(r)
      BY <3>2 DEF QueryRole
    <3>3. CASE StoreCached(r) \/ RemoveRole(r)
      BY <3>3 DEF StoreCached, RemoveRole, End
    <3>4. CASE WriteRole(r)
      BY <3>4 DEF WriteRole, End
    <3>5. CASE LockRole(r)
      BY <3>5 DEF LockRole, GoTo, End
    <3>6. CASE CountUsers(r)
      BY <3>6 DEF CountUsers, GoTo, End
    <3>7. CASE Snapshot(r)
      BY <3>7 DEF Snapshot
    <3>8. CASE Erase(r)
      BY <3>8 DEF Erase
    <3>9. CASE Insert(r)
      BY <3>9 DEF Insert
    <3>12. CASE Save(r)
      BY <3>12 DEF Save, Commit, End
    <3>10. CASE ListUsers(r)
      BY <3>10 DEF ListUsers
    <3>11. CASE DropCached(r)
      BY <3>11 DEF DropCached
    <3> QED
      BY <3>1, <3>2, <3>3, <3>4, <3>5, <3>6, <3>7, <3>8, <3>9, <3>10, <3>11, <3>12 DEF Goes
  <2> QED
    BY <1>2, <2>1, <2>2, <2>3, RolesAssumption DEF Kept, Run
<1> QED
  BY <1>1, <1>2, <1>3, <1>5, <1>6, StepsOf

\* A run that fails leaves the tables and the cache alone.
LEMMA Failed ==
    ASSUME TypeOK, NEW r \in Request, Fail(r)
    PROVE  /\ ~Running(r)' /\ \A s \in Request \ {r} : reqs'[s] = reqs[s]
           /\ UNCHANGED <<db, cache, saved, mixed, overtaken, loose>>
BY DEF Fail, End, TypeOK, Running

\* Every run goes through the steps of its operation.
LEMMA FlowStep == TypeOK /\ Flow /\ [Next]_vars => Flow'
<1> SUFFICES ASSUME TypeOK, Flow, [Next]_vars PROVE Flow'
  OBVIOUS
<1>1. ASSUME NEW r \in Request, Opens(r) PROVE Flow'
  BY <1>1, Opened, Begun DEF Flow, Running
<1>2. ASSUME NEW r \in Request, Goes(r) PROVE Flow'
  BY <1>2, Going DEF Flow, Running, Kept
<1>3. ASSUME NEW r \in Request, SubClient(r) PROVE Flow'
  BY <1>3 DEF SubClient, Flow, Running, End, TypeOK
<1>6. ASSUME NEW r \in Request, Fail(r) PROVE Flow'
  BY <1>6, Failed DEF Flow, Running
<1>4. CASE UNCHANGED reqs
  BY <1>4 DEF Flow, Running
<1> QED
  BY <1>1, <1>2, <1>3, <1>4, <1>6 DEF Next, Opens, Goes, CacheGoes, Finished, vars

\* The rows a transaction rewrites, the users it changes and the history it
\* leaves are of the role and the user of its run only.
LEMMA Frame ==
    ASSUME TypeOK, Flow, NEW r \in Request, Goes(r)
    PROVE  /\ loose' = loose /\ undropped' = undropped
           /\ mixed \subseteq mixed' /\ overtaken \subseteq overtaken'
           /\ \A k \in Key : k # reqs[r].key => rows'[k] = rows[k] /\ saved'[k] = saved[k]
           /\ ~Erase(r) /\ ~Save(r) => rows' = rows /\ saved' = saved /\ mixed' = mixed
           /\ ~WriteRole(r) => role' = role
           /\ ~Save(r) /\ ~RemoveRole(r) => roles' = roles
           /\ ~StoreCached(r) /\ ~DropCached(r) => cache' = cache
BY DEF Goes, GetCached, QueryRole, StoreCached, WriteRole, LockRole, CountUsers,
       Snapshot, Erase, Insert, Save, Commit, RemoveRole, ListUsers, DropCached, Rewrite,
       TypeOK, db, history

----------------------------------------------------------------------------
(* The inductive invariant, part by part.                                  *)

LEMMA GuardedStep ==
    TypeOK /\ Flow /\ Guarded /\ [Next]_vars => Guarded'
<1> SUFFICES ASSUME TypeOK, Flow, Guarded, [Next]_vars PROVE Guarded'
  OBVIOUS
<1>1. ASSUME NEW r \in Request, Opens(r) PROVE Guarded'
  <2>1. PICK op \in Op, pc \in Pc, u \in User \cup {None}, k \in Key,
             S \in SUBSET Permission :
             /\ Begin(r, op, pc, u, k, S)
             /\ op \in {"assign", "invite", "update", "rename"} => k \in roles
             /\ op = "delete" => pc = "count"
    BY <1>1, Opened
  <2>2. /\ Running(r)' /\ ~Running(r)
        /\ reqs'[r].op = op /\ reqs'[r].pc = pc /\ reqs'[r].key = k
        /\ \A s \in Request \ {r} : reqs'[s] = reqs[s]
    BY <2>1, Begun
  <2>3. /\ UNCHANGED db /\ loose \subseteq loose'
        /\ op = "delete" /\ About(k) # {} => k \in loose'
        /\ op # "signin" /\ (\E d \in About(k) : reqs[d].op = "delete") => k \in loose'
    BY <2>1 DEF Begin
  <2> QED
    BY <2>1, <2>2, <2>3 DEF Guarded, Is, About, Running, db
<1>2. ASSUME NEW r \in Request, Goes(r) PROVE Guarded'
  <2>1. /\ Running(r) /\ \A s \in Request \ {r} : reqs'[s] = reqs[s]
        /\ Kept(r) /\ loose' = loose /\ Fits(reqs[r])
    BY <1>2, Going, Frame
  <2>2. (\A s, d \in Request :
          Is(d, "delete") /\ s # d /\ s \in About(reqs[d].key) => reqs[d].key \in loose)'
    BY <2>1 DEF Guarded, Is, About, Running, Kept
  <2>3. (\A s \in Request :
          Running(s) /\ reqs[s].op \in {"assign", "invite", "update", "rename"}
          /\ reqs[s].pc # "drop" /\ reqs[s].pc # "list"
            => reqs[s].key \in roles \cup loose)'
    <3>1. CASE RemoveRole(r)
      <4>1. reqs[r].op = "delete" /\ roles' = roles \ {reqs[r].key} /\ reqs'[r] = Over
        BY <2>1, <3>1 DEF RemoveRole, At, End, Fits, TypeOK
      <4> QED
        BY <2>1, <4>1 DEF Guarded, Is, About, Running
    <3>2. CASE ~RemoveRole(r)
      <4>1. roles \subseteq roles'
        BY <1>2, <3>2, Frame DEF Save, Commit
      <4> QED
        BY <2>1, <4>1 DEF Guarded, Running, Kept, Follows
    <3> QED
      BY <3>1, <3>2
  <2>4. (\A d \in Request : Is(d, "delete") /\ reqs[d].pc # "count" =>
          reqs[d].key \in loose \/ \A u \in User : role[u] # reqs[d].key)'
    <3>1. CASE WriteRole(r)
      <4>1. /\ reqs[r].op \in {"assign", "invite"}
            /\ ~Running(r)' \/ reqs'[r].op = reqs[r].op
            /\ \A u \in User : role'[u] = role[u] \/ role'[u] = reqs[r].key
        BY <2>1, <3>1 DEF WriteRole, At, Fits, TypeOK, Kept, Running
      <4> QED
        BY <2>1, <3>1, <4>1 DEF Guarded, Is, About, Running
    <3>2. CASE CountUsers(r)
      <4>1. Running(r)' => \A u \in User : role[u] # reqs[r].key
        BY <3>2 DEF CountUsers, End, TypeOK, Running
      <4>2. role' = role
        BY <3>2 DEF CountUsers, db
      <4> QED
        BY <2>1, <4>1, <4>2 DEF Guarded, Is, Running, Kept
    <3>3. CASE ~WriteRole(r) /\ ~CountUsers(r)
      <4>1. role' = role
        BY <1>2, <3>3, Frame
      <4>2. reqs[r].pc # "count"
        BY <1>2, <3>3 DEF Goes, GetCached, QueryRole, StoreCached, LockRole, Snapshot,
           Erase, Insert, Save, RemoveRole, ListUsers, DropCached, At
      <4> QED
        BY <2>1, <4>1, <4>2 DEF Guarded, Is, Running, Kept
    <3> QED
      BY <3>1, <3>2, <3>3
  <2> QED
    BY <2>2, <2>3, <2>4 DEF Guarded
<1>3. ASSUME NEW r \in Request, SubClient(r) PROVE Guarded'
  BY <1>3 DEF SubClient, Guarded, Is, About, Running, End, TypeOK
<1>6. ASSUME NEW r \in Request, Fail(r) PROVE Guarded'
  BY <1>6, Failed DEF Guarded, Is, About, Running, db
<1>4. CASE UNCHANGED <<reqs, roles, role, loose>>
  BY <1>4 DEF Guarded, Is, About, Running
<1> QED
  BY <1>1, <1>2, <1>3, <1>4, <1>6 DEF Next, Opens, Goes, CacheGoes, Finished, vars, db, history

LEMMA HoldersStep ==
    TypeOK /\ Flow /\ Guarded /\ HoldersHaveARole /\ [Next]_vars => HoldersHaveARole'
<1> SUFFICES ASSUME TypeOK, Flow, Guarded, HoldersHaveARole, [Next]_vars
             PROVE  HoldersHaveARole'
  OBVIOUS
<1>1. ASSUME NEW r \in Request, Opens(r) PROVE HoldersHaveARole'
  BY <1>1, Opened DEF Begin, db, HoldersHaveARole
<1>2. ASSUME NEW r \in Request, Goes(r) PROVE HoldersHaveARole'
  <2>1. Running(r) /\ reqs[r] \in Run /\ Fits(reqs[r]) /\ loose' = loose
    BY <1>2, Going, Frame
  <2>2. CASE WriteRole(r)
    <3>1. reqs[r].key \in roles \cup loose
      BY <2>1, <2>2 DEF WriteRole, At, Fits, Guarded
    <3>2. roles' = roles /\ \A u \in User : role'[u] = role[u] \/ role'[u] = reqs[r].key
      BY <2>2 DEF WriteRole, TypeOK
    <3> QED
      BY <2>1, <3>1, <3>2 DEF HoldersHaveARole
  <2>3. CASE RemoveRole(r)
    <3>1. reqs[r].key \in loose \/ \A u \in User : role[u] # reqs[r].key
      BY <2>1, <2>3 DEF RemoveRole, At, Fits, Guarded, Is
    <3>2. roles' = roles \ {reqs[r].key} /\ role' = role
      BY <2>3 DEF RemoveRole
    <3> QED
      BY <2>1, <3>1, <3>2 DEF HoldersHaveARole
  <2>4. CASE ~WriteRole(r) /\ ~RemoveRole(r)
    <3>1. role' = role /\ roles \subseteq roles'
      BY <1>2, <2>4, Frame DEF Save, Commit
    <3> QED
      BY <2>1, <3>1 DEF HoldersHaveARole
  <2> QED
    BY <2>2, <2>3, <2>4
<1>3. ASSUME NEW r \in Request, SubClient(r) PROVE HoldersHaveARole'
  BY <1>3 DEF SubClient, HoldersHaveARole, TypeOK
<1>6. ASSUME NEW r \in Request, Fail(r) PROVE HoldersHaveARole'
  BY <1>6, Failed DEF HoldersHaveARole, db
<1>4. CASE UNCHANGED <<roles, role, loose>>
  BY <1>4 DEF HoldersHaveARole
<1> QED
  BY <1>1, <1>2, <1>3, <1>4, <1>6 DEF Next, Opens, Goes, CacheGoes, Finished, vars, db, history

\* A rewrite of rows, as it looks to the other requests.
LEMMA Rewritten ==
    ASSUME TypeOK, Flow, NEW r \in Request, Goes(r),
           \E R, S : Rewrite(r, R, S)
    PROVE  \A s \in Request \ {r} :
              (At(s, "erase") \/ At(s, "insert")) /\ reqs[s].key = reqs[r].key
                => reqs[r].key \in mixed'
<1>1. reqs[r].key \in Key
  BY Going DEF Run
<1> SUFFICES ASSUME NEW s \in Request \ {r}, At(s, "erase") \/ At(s, "insert"),
                    reqs[s].key = reqs[r].key
             PROVE  reqs[r].key \in mixed'
  OBVIOUS
<1>2. Running(s) /\ reqs[s] \in Run /\ Fits(reqs[s])
  BY RunType, StepsOf DEF At, Flow
<1>3. s \in Rewriting(reqs[r].key)
  BY <1>2 DEF Rewriting, About, Fits, At
<1> QED
  BY <1>3 DEF Rewrite

\* Insert keeps what the transaction has seen, and Save ends it.
LEMMA Inserted ==
    ASSUME TypeOK, Flow, NEW r \in Request, Insert(r)
    PROVE  /\ At(r, "insert")
           /\ Running(r)' => /\ reqs'[r].seen = reqs[r].seen
                             /\ reqs'[r].pc = "insert" /\ reqs'[r].key = reqs[r].key
           /\ UNCHANGED <<db, cache, history>>
<1>1. reqs[r] \in Run
  BY RunType DEF Insert, At
<1> QED
  BY <1>1 DEF Insert, At, TypeOK, Running, Run

LEMMA Committed ==
    ASSUME TypeOK, NEW r \in Request, Save(r)
    PROVE  reqs[r].pc = "insert" /\ Running(r) /\ Commit(r) /\ reqs'[r] # reqs[r]
           /\ (reqs'[r] = Over \/ reqs'[r].pc = "list")
<1>1. reqs[r] \in Run
  BY RunType DEF Save, At
<1> QED
  BY <1>1 DEF Save, At, Commit, End, TypeOK, Run, Running

LEMMA ExclusiveStep ==
    TypeOK /\ Flow /\ Guarded /\ Exclusive /\ [Next]_vars => Exclusive'
<1> SUFFICES ASSUME TypeOK, Flow, Guarded, Exclusive, [Next]_vars PROVE Exclusive'
  OBVIOUS
<1>1. ASSUME NEW r \in Request, Opens(r) PROVE Exclusive'
  <2>1. PICK op \in Op, pc \in Pc, u \in User \cup {None}, k \in Key,
             S \in SUBSET Permission :
             /\ Begin(r, op, pc, u, k, S)
             /\ pc \notin {"erase", "insert", "remove"}
             /\ op = "create" => pc = "lock"
    BY <1>1, Opened
  <2>2. /\ Running(r)' /\ reqs'[r].op = op /\ reqs'[r].pc = pc
        /\ \A s \in Request \ {r} : reqs'[s] = reqs[s]
    BY <2>1, Begun
  <2>3. UNCHANGED <<roles, rows, mixed>> /\ loose \subseteq loose'
    BY <2>1 DEF Begin, db
  <2> QED
    BY <2>1, <2>2, <2>3 DEF Exclusive, HoldsRole, Is, At, About, Running
<1>2. ASSUME NEW r \in Request, Goes(r) PROVE Exclusive'
  <2>1. /\ Running(r) /\ \A s \in Request \ {r} : reqs'[s] = reqs[s]
        /\ Kept(r) /\ Fits(reqs[r]) /\ reqs[r] \in Run
        /\ loose' = loose /\ mixed \subseteq mixed'
        /\ \A k \in Key : k # reqs[r].key => rows'[k] = rows[k]
        /\ ~Erase(r) /\ ~Save(r) => rows' = rows
    BY <1>2, Going, Frame
  <2>2. (\A s, t \in Request, k \in Key :
          HoldsRole(s, "create", k) => k \notin roles /\ (HoldsRole(t, "create", k) => t = s))'
    <3>1. CASE LockRole(r)
      <4>1. /\ roles' = roles
            /\ reqs[r].op = "create" /\ Running(r)' =>
                 /\ reqs[r].key \notin roles
                 /\ \A t \in Request \ {r} : ~HoldsRole(t, "create", reqs[r].key)
        BY <3>1 DEF LockRole, RoleIsHeld, End, TypeOK, Running, db
      <4> QED
        BY <2>1, <4>1 DEF Exclusive, HoldsRole, About, Running, Kept
    <3>2. CASE ~LockRole(r)
      <4>1. reqs[r].pc # "lock"
        BY <1>2, <3>2 DEF Goes, GetCached, QueryRole, StoreCached, WriteRole, CountUsers,
           Snapshot, Erase, Insert, Save, RemoveRole, ListUsers, DropCached, At
      <4>2. \A s \in Request, k \in Key :
               HoldsRole(s, "create", k)' => HoldsRole(s, "create", k)
        BY <2>1, <4>1 DEF HoldsRole, About, Running, Kept, Follows, Fits
      <4>3. CASE roles' \subseteq roles
        BY <4>2, <4>3 DEF Exclusive
      <4>4. CASE ~(roles' \subseteq roles)
        <5>1. Save(r) /\ Commit(r)
          BY <1>2, <4>4, Frame, Committed DEF RemoveRole
        <5>2. /\ reqs[r].op = "create" /\ reqs'[r] = Over /\ reqs[r].pc = "insert"
              /\ roles' = roles \cup {reqs[r].key}
          BY <4>4, <5>1, Committed DEF Commit, End, TypeOK
        <5>3. PICK c \in Key : c = reqs[r].key
          BY <2>1 DEF Run
        <5>4. \A s \in Request : ~HoldsRole(s, "create", c)'
          <6>1. HoldsRole(r, "create", c) /\ ~HoldsRole(r, "create", c)'
            BY <2>1, <5>2, <5>3 DEF HoldsRole, About, Running
          <6>2. \A s \in Request : HoldsRole(s, "create", c) => s = r
            BY <6>1 DEF Exclusive
          <6> QED
            BY <4>2, <6>1, <6>2
        <5>5. \A k \in roles' : k \in roles \/ k = c
          BY <5>2, <5>3
        <5>6. \A s \in Request, k \in Key : HoldsRole(s, "create", k)' => k \notin roles'
          BY <4>2, <5>4, <5>5 DEF Exclusive
        <5>7. \A s, q \in Request, k \in Key :
                 HoldsRole(s, "create", k)' /\ HoldsRole(q, "create", k)' => q = s
          BY <4>2 DEF Exclusive
        <5> QED
          BY <5>6, <5>7
      <4> QED
        BY <4>3, <4>4
    <3> QED
      BY <3>1, <3>2
  <2>3. (\A s \in Request : At(s, "erase") \/ At(s, "insert") =>
          reqs[s].key \in mixed \/ reqs[s].seen = rows[reqs[s].key])'
    <3>1. CASE Snapshot(r)
      <4>1. /\ rows' = rows
            /\ Running(r)' => reqs'[r].seen = rows[reqs[r].key] /\ reqs'[r].key = reqs[r].key
        BY <2>1, <3>1 DEF Snapshot, TypeOK, db
      <4> QED
        BY <2>1, <4>1 DEF Exclusive, At, Running
    <3>2. CASE Erase(r)
      <4>1. CASE reqs[r].op = "delete"
        <5>1. \E R, S : Rewrite(r, R, S)
          BY <3>2, <4>1 DEF Erase
        <5>2. ~At(r, "erase")' /\ ~At(r, "insert")'
          BY <2>1, <3>2, <4>1 DEF Erase, Running, At, Kept, Follows
        <5>3. \A s \in Request \ {r} : At(s, "erase") \/ At(s, "insert") =>
                 reqs[s].key \in mixed' \/ reqs[s].seen = rows'[reqs[s].key]
          <6> SUFFICES ASSUME NEW s \in Request \ {r}, At(s, "erase") \/ At(s, "insert")
                       PROVE  reqs[s].key \in mixed' \/ reqs[s].seen = rows'[reqs[s].key]
            OBVIOUS
          <6>1. reqs[s].key \in Key
            BY RunType DEF At, Run
          <6>2. CASE reqs[s].key = reqs[r].key
            BY <1>2, <5>1, <6>2, Rewritten
          <6>3. CASE reqs[s].key # reqs[r].key
            BY <2>1, <6>1, <6>3 DEF Exclusive
          <6> QED
            BY <6>2, <6>3
        <5> QED
          BY <2>1, <5>2, <5>3 DEF At, Running
      <4>2. CASE reqs[r].op # "delete"
        <5>1. /\ rows' = rows
              /\ Running(r)' => /\ reqs'[r].key = reqs[r].key
                                /\ reqs'[r].seen = reqs[r].seen \cap rows[reqs[r].key]
          BY <2>1, <3>2, <4>2 DEF Erase, TypeOK, Run
        <5>2. reqs[r].key \in mixed \/ reqs[r].seen = rows[reqs[r].key]
          BY <3>2 DEF Erase, Exclusive
        <5>3. (At(r, "erase") \/ At(r, "insert"))' =>
                 (reqs[r].key \in mixed \/ reqs[r].seen = rows[reqs[r].key])'
          BY <2>1, <5>1, <5>2 DEF At, Running
        <5>4. ASSUME NEW s \in Request \ {r}, (At(s, "erase") \/ At(s, "insert"))'
              PROVE  (reqs[s].key \in mixed \/ reqs[s].seen = rows[reqs[s].key])'
          BY <2>1, <5>1, <5>4 DEF Exclusive, At, Running
        <5> QED
          BY <5>3, <5>4
      <4> QED
        BY <4>1, <4>2
    <3>3. CASE Save(r)
      <4>1. ~At(r, "erase")' /\ ~At(r, "insert")'
        BY <2>1, <3>3, Committed DEF At, Running, Kept
      <4>2. \E R, S : Rewrite(r, R, S)
        BY <3>3, Committed DEF Commit
      <4>3. \A s \in Request \ {r} : At(s, "erase") \/ At(s, "insert") =>
               reqs[s].key \in mixed' \/ reqs[s].seen = rows'[reqs[s].key]
        <5> SUFFICES ASSUME NEW s \in Request \ {r}, At(s, "erase") \/ At(s, "insert")
                     PROVE  reqs[s].key \in mixed' \/ reqs[s].seen = rows'[reqs[s].key]
          OBVIOUS
        <5>1. reqs[s].key \in Key
          BY RunType DEF At, Run
        <5>2. CASE reqs[s].key = reqs[r].key
          BY <1>2, <4>2, <5>2, Rewritten
        <5>3. CASE reqs[s].key # reqs[r].key
          BY <2>1, <5>1, <5>3 DEF Exclusive
        <5> QED
          BY <5>2, <5>3
      <4> QED
        BY <2>1, <4>1, <4>3 DEF At, Running
    <3>5. CASE Insert(r)
      <4>1. /\ rows' = rows /\ mixed' = mixed /\ At(r, "insert")
            /\ Running(r)' => reqs'[r].seen = reqs[r].seen /\ reqs'[r].key = reqs[r].key
        BY <3>5, Inserted DEF db, history
      <4> QED
        BY <2>1, <4>1 DEF Exclusive, At, Running
    <3>4. CASE ~Snapshot(r) /\ ~Erase(r) /\ ~Insert(r) /\ ~Save(r)
      <4>1. ~At(r, "erase")' /\ ~At(r, "insert")'
        <5>1. reqs[r].pc \notin {"snapshot", "erase", "insert"}
          BY <1>2, <3>4 DEF Goes, GetCached, QueryRole, StoreCached, WriteRole, LockRole,
             CountUsers, RemoveRole, ListUsers, DropCached, At
        <5> QED
          BY <2>1, <5>1 DEF At, Running, Kept, Follows
      <4> QED
        BY <2>1, <3>4, <4>1 DEF Exclusive, At, Running
    <3> QED
      BY <3>1, <3>2, <3>3, <3>4, <3>5
  <2>4. (\A d \in Request : Is(d, "delete") /\ At(d, "erase") =>
          reqs[d].key \in loose \/ reqs[d].seen = rows[reqs[d].key])'
    <3> SUFFICES ASSUME NEW d \in Request, Is(d, "delete")', At(d, "erase")',
                        reqs'[d].key \notin loose
                 PROVE  reqs'[d].seen = rows'[reqs'[d].key]
      BY <2>1 DEF Is
    <3>1. CASE d = r
      <4>1. Snapshot(r)
        <5>1. reqs[r].pc = "snapshot"
          BY <2>1, <3>1 DEF At, Running, Kept, Follows
        <5> QED
          BY <1>2, <5>1 DEF Goes, GetCached, QueryRole, StoreCached, WriteRole, LockRole,
             CountUsers, Erase, Insert, Save, RemoveRole, ListUsers, DropCached, At
      <4> QED
        BY <2>1, <3>1, <4>1 DEF Snapshot, TypeOK, db
    <3>2. CASE d # r
      <4>1. /\ reqs'[d] = reqs[d] /\ Is(d, "delete") /\ At(d, "erase")
            /\ reqs[d].seen = rows[reqs[d].key]
        BY <2>1, <3>2 DEF Exclusive, Is, At, Running
      <4>2. reqs[d].key \in Key
        BY <4>1, RunType DEF Is, Run
      <4>3. reqs[r].op = "signin" \/ reqs[r].key # reqs[d].key
        BY <2>1, <3>2, <4>1 DEF Guarded, About
      <4>4. rows'[reqs[d].key] = rows[reqs[d].key]
        BY <2>1, <4>2, <4>3 DEF Erase, Save, At, Fits
      <4> QED
        BY <4>1, <4>4
    <3> QED
      BY <3>1, <3>2
  <2>5. (\A d \in Request : At(d, "remove") =>
          reqs[d].key \in loose \/ rows[reqs[d].key] = {})'
    <3> SUFFICES ASSUME NEW d \in Request, At(d, "remove")', reqs'[d].key \notin loose
                 PROVE  rows'[reqs'[d].key] = {}
      BY <2>1
    <3>1. CASE d = r
      <4>1. reqs[r].pc = "erase" /\ reqs[r].op = "delete" /\ reqs'[r].key = reqs[r].key
        BY <2>1, <3>1 DEF At, Running, Kept, Follows
      <4>2. Erase(r)
        BY <1>2, <4>1 DEF Goes, GetCached, QueryRole, StoreCached, WriteRole, LockRole,
           CountUsers, Snapshot, Insert, Save, RemoveRole, ListUsers, DropCached, At
      <4>3. reqs[r].seen = rows[reqs[r].key]
        BY <2>1, <3>1, <4>1 DEF Exclusive, Is, At
      <4>4. reqs[r].key \in Key
        BY <2>1 DEF Run
      <4> QED
        BY <3>1, <4>1, <4>2, <4>3, <4>4 DEF Erase, Rewrite, TypeOK
    <3>2. CASE d # r
      <4>1. reqs'[d] = reqs[d] /\ At(d, "remove") /\ rows[reqs[d].key] = {}
        BY <2>1, <3>2 DEF Exclusive, At, Running
      <4>2. reqs[d].key \in Key /\ Is(d, "delete")
        <5>1. reqs[d] \in Run /\ Fits(reqs[d])
          BY <4>1, RunType, StepsOf DEF At, Flow
        <5> QED
          BY <4>1, <5>1 DEF Is, At, Fits, Run
      <4>3. reqs[r].op = "signin" \/ reqs[r].key # reqs[d].key
        BY <2>1, <3>2, <4>1, <4>2 DEF Guarded, About
      <4>4. rows'[reqs[d].key] = rows[reqs[d].key]
        BY <2>1, <4>2, <4>3 DEF Erase, Save, At, Fits
      <4> QED
        BY <4>1, <4>4
    <3> QED
      BY <3>1, <3>2
  <2> QED
    BY <2>2, <2>3, <2>4, <2>5 DEF Exclusive
<1>3. ASSUME NEW r \in Request, SubClient(r) PROVE Exclusive'
  <2>1. /\ ~Running(r)' /\ \A s \in Request \ {r} : reqs'[s] = reqs[s]
        /\ UNCHANGED <<roles, rows, mixed>> /\ loose \subseteq loose'
    BY <1>3 DEF SubClient, End, TypeOK, Running
  <2> QED
    BY <2>1 DEF Exclusive, HoldsRole, Is, At, About, Running
<1>6. ASSUME NEW r \in Request, Fail(r) PROVE Exclusive'
  BY <1>6, Failed DEF Exclusive, HoldsRole, Is, At, About, Running, db
<1>4. CASE UNCHANGED <<reqs, roles, rows, mixed, loose>>
  BY <1>4 DEF Exclusive, HoldsRole, Is, At, About, Running
<1> QED
  BY <1>1, <1>2, <1>3, <1>4, <1>6 DEF Next, Opens, Goes, CacheGoes, Finished, vars, db, history

LEMMA PermissionsOf ==
    /\ Permissions({}) = {}
    /\ \A S, r : Permissions({[permission |-> p, by |-> r] : p \in S}) = S
<1>1. Permissions({}) = {}
  BY DEF Permissions
<1>2. ASSUME NEW S, NEW r
      PROVE  Permissions({[permission |-> p, by |-> r] : p \in S}) = S
  <2> DEFINE new == {[permission |-> p, by |-> r] : p \in S}
  <2>1. \A w \in new : w.permission \in S
    OBVIOUS
  <2>2. \A p \in S : [permission |-> p, by |-> r] \in new
    OBVIOUS
  <2>3. \A p \in S : \E w \in new : w.permission = p
    BY <2>2
  <2> HIDE DEF new
  <2>4. Permissions(new) \subseteq S
    BY <2>1 DEF Permissions
  <2>5. S \subseteq Permissions(new)
    BY <2>3 DEF Permissions
  <2> QED
    BY <2>4, <2>5 DEF new
<1> QED
  BY <1>1, <1>2

LEMMA SavedStep ==
    TypeOK /\ Flow /\ Guarded /\ Exclusive /\ SavedSetHolds /\ [Next]_vars => SavedSetHolds'
<1> SUFFICES ASSUME TypeOK, Flow, Guarded, Exclusive, SavedSetHolds, [Next]_vars
             PROVE  SavedSetHolds'
  OBVIOUS
<1>1. ASSUME NEW r \in Request, Opens(r) PROVE SavedSetHolds'
  BY <1>1, Opened DEF Begin, db, SavedSetHolds, Granted
<1>2. ASSUME NEW r \in Request, Goes(r) PROVE SavedSetHolds'
  <2>1. /\ Running(r) /\ reqs[r] \in Run /\ Fits(reqs[r]) /\ reqs[r].key \in Key
        /\ loose' = loose /\ mixed \subseteq mixed'
        /\ \A k \in Key : k # reqs[r].key => rows'[k] = rows[k] /\ saved'[k] = saved[k]
    BY <1>2, Going, Frame DEF Run
  <2>2. CASE Erase(r) /\ reqs[r].op = "delete"
    <3>1. /\ Rewrite(r, rows[reqs[r].key] \ (reqs[r].seen \cap rows[reqs[r].key]), {})
          /\ roles' = roles
      BY <2>2 DEF Erase
    <3>2. /\ rows'[reqs[r].key] = rows[reqs[r].key] \ reqs[r].seen
          /\ saved'[reqs[r].key] = {}
      BY <2>1, <3>1 DEF Rewrite, TypeOK
    <3>3. reqs[r].key \in mixed \/ rows'[reqs[r].key] = {}
      BY <2>2, <3>2 DEF Exclusive, Erase
    <3>4. rows[reqs[r].key] = {} => rows'[reqs[r].key] = {}
      BY <3>2
    <3> QED
      BY <2>1, <3>1, <3>2, <3>3, <3>4, PermissionsOf DEF SavedSetHolds, Granted
  <2>3. CASE Save(r) /\ Commit(r)
    <3> DEFINE new == {[permission |-> p, by |-> r] : p \in reqs[r].perms}
    <3>1. /\ rows'[reqs[r].key] = (rows[reqs[r].key] \ reqs[r].seen) \cup new
          /\ saved'[reqs[r].key] = reqs[r].perms
      BY <2>1, <2>3 DEF Commit, Rewrite, TypeOK
    <3>2. reqs[r].key \in mixed \/ rows'[reqs[r].key] = new
      BY <2>3, <3>1 DEF Exclusive, Save
    <3>3. Permissions(new) = reqs[r].perms
      BY PermissionsOf
    <3> HIDE DEF new
    <3>4. reqs[r].key \in mixed \/ Permissions(rows'[reqs[r].key]) = saved'[reqs[r].key]
      BY <3>1, <3>2, <3>3
    <3>5. reqs[r].key \in roles' \cup loose /\ roles \subseteq roles'
      BY <2>1, <2>3 DEF Commit, Save, At, Fits, Guarded
    <3> QED
      BY <2>1, <3>4, <3>5 DEF SavedSetHolds, Granted
  <2>4. CASE RemoveRole(r)
    <3>1. /\ roles' = roles \ {reqs[r].key} /\ UNCHANGED <<rows, saved>>
          /\ reqs[r].key \in loose \/ rows[reqs[r].key] = {}
      BY <2>4 DEF RemoveRole, Exclusive, history
    <3> QED
      BY <2>1, <3>1 DEF SavedSetHolds, Granted
  <2>5. CASE UNCHANGED <<rows, saved, roles>>
    BY <2>1, <2>5 DEF SavedSetHolds, Granted
  <2>6. \/ Erase(r) /\ reqs[r].op = "delete"
        \/ Save(r) /\ Commit(r)
        \/ RemoveRole(r)
        \/ UNCHANGED <<rows, saved, roles>>
    BY <1>2, Frame, Committed DEF Erase
  <2> QED
    BY <2>2, <2>3, <2>4, <2>5, <2>6
<1>3. ASSUME NEW r \in Request, SubClient(r) PROVE SavedSetHolds'
  BY <1>3 DEF SubClient, SavedSetHolds, Granted
<1>6. ASSUME NEW r \in Request, Fail(r) PROVE SavedSetHolds'
  BY <1>6, Failed DEF SavedSetHolds, Granted, db
<1>4. CASE UNCHANGED <<roles, rows, saved, mixed, loose>>
  BY <1>4 DEF SavedSetHolds, Granted
<1> QED
  BY <1>1, <1>2, <1>3, <1>4, <1>6 DEF Next, Opens, Goes, CacheGoes, Finished, vars, db, history

LEMMA FreshStep ==
    TypeOK /\ Flow /\ Fresh /\ [Next]_vars => Fresh'
<1> SUFFICES ASSUME TypeOK, Flow, Fresh, [Next]_vars PROVE Fresh'
  OBVIOUS
<1>1. ASSUME NEW r \in Request, Opens(r) PROVE Fresh'
  <2>1. PICK op \in Op, pc \in Pc, u \in User \cup {None}, k \in Key,
             S \in SUBSET Permission :
             /\ Begin(r, op, pc, u, k, S)
             /\ op = "signin" => pc = "get" /\ role[u] # None /\ k = role[u]
    BY <1>1, Opened
  <2>2. /\ Running(r)' /\ reqs'[r].op = op /\ reqs'[r].pc = pc /\ reqs'[r].user = u
        /\ reqs'[r].key = k /\ \A s \in Request \ {r} : reqs'[s] = reqs[s]
    BY <2>1, Begun
  <2>3. UNCHANGED <<rows, role, cache, overtaken>>
    BY <2>1 DEF Begin, db
  <2> QED
    BY <2>1, <2>2, <2>3 DEF Fresh, Is, Running, Granted
<1>2. ASSUME NEW r \in Request, Goes(r) PROVE Fresh'
  <2>1. /\ Running(r) /\ \A s \in Request \ {r} : reqs'[s] = reqs[s]
        /\ Kept(r) /\ Fits(reqs[r]) /\ reqs[r] \in Run
        /\ overtaken \subseteq overtaken'
    BY <1>2, Going, Frame
  <2>2. \A u \in User : role[u] # None => role'[u] # None
    <3>1. reqs[r].key # None
      BY <2>1, RolesAssumption DEF Run
    <3>2. CASE WriteRole(r)
      BY <3>1, <3>2 DEF WriteRole, TypeOK
    <3> QED
      BY <1>2, <3>2, Frame
  <2>3. (\A u \in User : cache[u] # None => role[u] # None)'
    <3>1. CASE StoreCached(r)
      <4>1. /\ Is(r, "signin") /\ role[reqs[r].user] # None
            /\ \A u \in User : cache'[u] = cache[u] \/ u = reqs[r].user
        BY <2>1, <3>1 DEF StoreCached, At, Fits, Is, Fresh, TypeOK
      <4> QED
        BY <2>2, <4>1 DEF Fresh
    <3>2. CASE ~StoreCached(r)
      <4>1. \A u \in User : cache'[u] = cache[u] \/ cache'[u] = None
        BY <1>2, <3>2, Frame DEF DropCached, TypeOK
      <4> QED
        BY <2>2, <4>1 DEF Fresh
    <3> QED
      BY <3>1, <3>2
  <2>4. (\A s \in Request : Is(s, "signin") =>
          /\ role[reqs[s].user] # None
          /\ \/ s \in overtaken
             \/ /\ reqs[s].key = role[reqs[s].user]
                /\ reqs[s].pc = "store" => reqs[s].perms = Granted(reqs[s].key))'
    <3>0. ASSUME NEW s \in Request, Is(s, "signin")'
          PROVE  role'[reqs'[s].user] # None
      <4>1. Is(s, "signin") /\ reqs'[s].user = reqs[s].user
        BY <2>1, <3>0 DEF Is, Running, Kept
      <4> QED
        BY <2>2, <4>1 DEF Fresh, Is, Flow
    <3> SUFFICES ASSUME NEW s \in Request, Is(s, "signin")', s \notin overtaken'
                 PROVE  /\ reqs'[s].key = role'[reqs'[s].user]
                        /\ reqs'[s].pc = "store" => reqs'[s].perms = Permissions(rows'[reqs'[s].key])
      BY <3>0 DEF Granted
    <3>1. CASE s = r
      <4>1. reqs[r].op = "signin" /\ reqs'[r].user = reqs[r].user /\ reqs'[r].key = reqs[r].key
        BY <2>1, <3>1 DEF Kept, Is, Running
      <4>2. GetCached(r) \/ QueryRole(r)
        BY <1>2, <2>1, <3>1, <4>1 DEF Goes, StoreCached, WriteRole, LockRole, CountUsers,
           Snapshot, Erase, Insert, Save, RemoveRole, ListUsers, DropCached, At, Fits, End, Is,
           Running, TypeOK
      <4>3. UNCHANGED <<rows, role, overtaken>>
        BY <4>2 DEF GetCached, QueryRole, db, history
      <4>4. reqs'[r].pc = "store" => reqs'[r].perms = Granted(reqs[r].key)
        BY <2>1, <3>1, <4>2 DEF GetCached, QueryRole, GoTo, End, At, Is, Running, TypeOK, Run
      <4> QED
        BY <2>1, <3>1, <4>1, <4>3, <4>4 DEF Fresh, Is, Granted
    <3>2. CASE s # r
      <4>1. /\ reqs'[s] = reqs[s] /\ Is(s, "signin") /\ s \notin overtaken
            /\ role[reqs[s].user] # None /\ reqs[s].key = role[reqs[s].user]
            /\ reqs[s].pc = "store" => reqs[s].perms = Permissions(rows[reqs[s].key])
        BY <2>1, <3>2 DEF Fresh, Is, Running, Granted
      <4>2. reqs[s].user \in User /\ reqs[s].key \in Key
        BY <4>1, RunType DEF Is, Flow, Run
      <4>3. role'[reqs[s].user] = role[reqs[s].user]
        <5>1. CASE WriteRole(r)
          BY <3>2, <4>1, <4>2, <5>1 DEF WriteRole, SignInsOf, Is, TypeOK
        <5> QED
          BY <1>2, <5>1, Frame
      <4>4. reqs[s].pc = "store" => rows'[reqs[s].key] = rows[reqs[s].key]
        <5> SUFFICES ASSUME reqs[s].pc = "store"
                     PROVE  rows'[reqs[s].key] = rows[reqs[s].key]
          OBVIOUS
        <5>1. s \in HoldRowsOf(reqs[s].key)
          BY <4>1 DEF HoldRowsOf, At, Is
        <5>2. CASE \E R, S : Rewrite(r, R, S)
          BY <4>1, <4>2, <5>1, <5>2 DEF Rewrite, TypeOK
        <5>3. CASE UNCHANGED rows
          BY <5>3
        <5> QED
          BY <1>2, <5>2, <5>3, Frame DEF Erase, Save, Commit
      <4> QED
        BY <4>1, <4>3, <4>4
    <3> QED
      BY <3>1, <3>2
  <2> QED
    BY <2>3, <2>4 DEF Fresh
<1>3. ASSUME NEW r \in Request, SubClient(r) PROVE Fresh'
  <2>1. /\ ~Running(r)' /\ \A s \in Request \ {r} : reqs'[s] = reqs[s]
        /\ UNCHANGED <<cache, rows, overtaken>>
        /\ \A u \in User : role'[u] = role[u] \/ (role[u] = None /\ role'[u] # None)
    BY <1>3, RolesAssumption DEF SubClient, End, TypeOK, Running
  <2> QED
    BY <2>1 DEF Fresh, Is, Running, Granted, Flow
<1>6. ASSUME NEW r \in Request, Fail(r) PROVE Fresh'
  BY <1>6, Failed DEF Fresh, Is, Running, Granted, db
<1>4. ASSUME NEW u \in User, CacheGoes(u) PROVE Fresh'
  BY <1>4 DEF CacheGoes, Fresh, Is, Running, Granted, db, history, TypeOK
<1>5. CASE UNCHANGED vars
  BY <1>5 DEF vars, db, history, Fresh, Is, Running, Granted
<1> QED
  BY <1>1, <1>2, <1>3, <1>4, <1>6, <1>5 DEF Next, Opens, Goes, Finished

\* CacheIsCurrent for one user.
Excused(u) ==
    \/ \E r \in Request : WillDrop(r, u)
    \/ cache[u].by \in overtaken \cup undropped
    \/ role[u] \in loose

Current(u) == cache[u] # None /\ cache[u].perms # Granted(role[u]) => Excused(u)

\* What a step leaves alone stays current.
LEMMA StaysCurrent ==
    ASSUME NEW u \in User, Current(u),
           cache'[u] = None \/
             (/\ cache'[u] = cache[u] /\ role'[u] = role[u]
              /\ rows'[role[u]] = rows[role[u]]
              /\ \A r \in Request : WillDrop(r, u) => WillDrop(r, u)'),
           overtaken \subseteq overtaken', undropped \subseteq undropped',
           loose \subseteq loose'
    PROVE  Current(u)'
BY DEF Current, Excused, Granted, Permissions

\* A pending deletion of a cache key stays pending until it is made.
LEMMA StillDrops ==
    ASSUME TypeOK, Flow, NEW r \in Request, Goes(r), NEW u \in User, role'[u] = role[u],
           NEW s \in Request, WillDrop(s, u)
    PROVE  WillDrop(s, u)' \/ cache'[u] = None
<1>1. /\ Running(r) /\ reqs[r] \in Run
      /\ \A q \in Request \ {r} : reqs'[q] = reqs[q]
  BY Going
<1>2. CASE s # r
  BY <1>1, <1>2 DEF WillDrop, At, Running
<1>3. CASE s = r /\ At(r, "list")
  <2>1. ListUsers(r)
    BY <1>3 DEF Goes, GetCached, QueryRole, StoreCached, WriteRole, LockRole, CountUsers,
       Snapshot, Erase, Insert, Save, RemoveRole, DropCached, At
  <2> DEFINE holders == {v \in User : role[v] = reqs[r].key}
  <2>2. u \in holders /\ holders \in SUBSET User
    BY <1>3 DEF WillDrop, At
  <2>3. reqs'[r] = [reqs[r] EXCEPT !.pc = "drop", !.drop = holders]
    BY <2>1, <2>2 DEF ListUsers, TypeOK
  <2> HIDE DEF holders
  <2>4. reqs'[r] \in Run /\ reqs'[r].pc = "drop" /\ reqs'[r].drop = holders
    BY <1>1, <2>2, <2>3 DEF Run, Pc
  <2> QED
    BY <1>3, <2>2, <2>4, RolesAssumption DEF WillDrop, At, Running
<1>4. CASE s = r /\ At(r, "drop")
  <2>1. DropCached(r)
    BY <1>4 DEF Goes, GetCached, QueryRole, StoreCached, WriteRole, LockRole, CountUsers,
       Snapshot, Erase, Insert, Save, RemoveRole, ListUsers, At
  <2>2. PICK v \in reqs[r].drop :
           /\ cache' = [cache EXCEPT ![v] = None]
           /\ reqs' = [reqs EXCEPT ![r] = IF reqs[r].drop = {v} THEN Over
                        ELSE [reqs[r] EXCEPT !.drop = @ \ {v}]]
    BY <2>1 DEF DropCached
  <2>3. u \in reqs[r].drop
    BY <1>4 DEF WillDrop, At
  <2>4. CASE u = v
    BY <2>2, <2>4 DEF TypeOK
  <2>5. CASE u # v
    <3>1. reqs'[r] = [reqs[r] EXCEPT !.drop = @ \ {v}]
      BY <2>2, <2>3, <2>5 DEF TypeOK
    <3>2. reqs'[r] \in Run /\ reqs'[r].pc = "drop" /\ u \in reqs'[r].drop
      BY <1>1, <1>4, <2>3, <2>5, <3>1 DEF Run, At
    <3> QED
      BY <1>4, <3>2, RolesAssumption DEF WillDrop, At, Running
  <2> QED
    BY <2>4, <2>5
<1> QED
  BY <1>2, <1>3, <1>4 DEF WillDrop

LEMMA CacheStep ==
    /\ TypeOK /\ Flow /\ Guarded /\ HoldersHaveARole /\ Exclusive /\ Fresh
    /\ CacheIsCurrent /\ [Next]_vars
    => CacheIsCurrent'
<1> SUFFICES ASSUME TypeOK, Flow, Guarded, HoldersHaveARole, Exclusive, Fresh,
                    CacheIsCurrent, [Next]_vars, NEW u \in User
             PROVE  Current(u)'
  BY DEF CacheIsCurrent, Current, Excused
<1>0. Current(u)
  BY DEF CacheIsCurrent, Current, Excused
<1>1. ASSUME NEW r \in Request, Opens(r) PROVE Current(u)'
  <2>1. PICK op \in Op, pc \in Pc, v \in User \cup {None}, k \in Key,
             S \in SUBSET Permission : Begin(r, op, pc, v, k, S)
    BY <1>1, Opened
  <2>2. /\ ~Running(r) /\ \A s \in Request \ {r} : reqs'[s] = reqs[s]
    BY <2>1, Begun
  <2>3. UNCHANGED <<rows, role, cache, overtaken, undropped>> /\ loose \subseteq loose'
    BY <2>1 DEF Begin, db
  <2>4. \A s \in Request : WillDrop(s, u) => WillDrop(s, u)'
    BY <2>2, <2>3 DEF WillDrop, At, Running
  <2> QED
    BY <1>0, <2>3, <2>4, StaysCurrent
<1>2. ASSUME NEW r \in Request, Goes(r) PROVE Current(u)'
  <2>1. /\ Running(r) /\ reqs[r] \in Run /\ Fits(reqs[r]) /\ Kept(r)
        /\ loose' = loose /\ undropped' = undropped /\ overtaken \subseteq overtaken'
        /\ \A k \in Key : k # reqs[r].key => rows'[k] = rows[k]
        /\ ~Erase(r) /\ ~Save(r) => rows' = rows
        /\ ~WriteRole(r) => role' = role
        /\ ~StoreCached(r) /\ ~DropCached(r) => cache' = cache
    BY <1>2, Going, Frame
  <2>2. cache[u] # None => role[u] \in Key
    BY DEF Fresh, TypeOK
  <2>3. CASE WriteRole(r) /\ role'[u] # role[u]
    <3>1. u = reqs[r].user /\ cache' = cache /\ loose' = loose
      BY <2>3 DEF WriteRole, TypeOK
    <3>2. CASE reqs[r].op = "assign"
      <4>1. reqs'[r] = [reqs[r] EXCEPT !.pc = "drop", !.drop = {u}]
        BY <2>3, <3>1, <3>2 DEF WriteRole, TypeOK
      <4>2. reqs'[r] \in Run /\ reqs'[r].pc = "drop" /\ reqs'[r].drop = {u}
        <5>1. {u} \in SUBSET User
          OBVIOUS
        <5> QED
          BY <2>1, <4>1, <5>1 DEF Run, Pc
      <4>3. WillDrop(r, u)'
        BY <4>2, RolesAssumption DEF WillDrop, At, Running
      <4> QED
        BY <4>3 DEF Current, Excused
    <3>3. CASE reqs[r].op # "assign"
      <4>1. role[u] = None
        BY <2>3, <3>3 DEF WriteRole, TypeOK
      <4> QED
        BY <3>1, <4>1 DEF Fresh, Current
    <3> QED
      BY <3>2, <3>3
  <2>4. CASE StoreCached(r) /\ u = reqs[r].user
    <3>1. Is(r, "signin") /\ reqs[r].pc = "store" /\ role' = role /\ rows' = rows
      BY <2>1, <2>4 DEF StoreCached, At, Fits, Is, db
    <3>2. cache'[u] = [perms |-> reqs[r].perms, by |-> r]
      BY <2>4 DEF StoreCached, TypeOK
    <3>3. r \in overtaken \/ reqs[r].perms = Granted(role[u])
      BY <2>4, <3>1 DEF Fresh
    <3> QED
      BY <2>1, <3>1, <3>2, <3>3 DEF Current, Excused, Granted
  <2>5. CASE (Erase(r) \/ Save(r)) /\ role[u] = reqs[r].key /\ rows'[role[u]] # rows[role[u]]
    <3>1. role' = role /\ cache' = cache
      BY <2>1, <2>5 DEF Erase, Save
    <3>2. CASE Erase(r)
      <4>1. Is(r, "delete") /\ reqs[r].pc = "erase"
        BY <2>1, <2>5, <3>2 DEF Erase, At, Is
      <4>2. role[u] \in loose
        BY <2>5, <4>1 DEF Guarded
      <4> QED
        BY <2>1, <3>1, <4>2 DEF Current, Excused
    <3>3. CASE Save(r)
      <4>1. Commit(r) /\ reqs[r].pc = "insert"
        BY <3>3, Committed
      <4>2. CASE reqs[r].op = "create"
        <5>1. HoldsRole(r, "create", reqs[r].key) /\ reqs[r].key \in Key
          BY <2>1, <4>1, <4>2 DEF HoldsRole, About, Run
        <5>2. role[u] \notin roles /\ role[u] # None
          BY <2>5, <5>1, RolesAssumption DEF Exclusive
        <5>3. role[u] \in loose
          BY <5>2 DEF HoldersHaveARole
        <5> QED
          BY <2>1, <3>1, <5>3 DEF Current, Excused
      <4>3. CASE reqs[r].op # "create"
        <5>1. reqs'[r] = [reqs[r] EXCEPT !.pc = "list", !.put = {}]
          BY <4>1, <4>3 DEF Commit, TypeOK
        <5>2. reqs'[r] \in Run /\ reqs'[r].pc = "list" /\ reqs'[r].key = reqs[r].key
          BY <2>1, <5>1 DEF Run, Pc
        <5>3. WillDrop(r, u)'
          BY <2>5, <3>1, <5>2, RolesAssumption DEF WillDrop, At, Running
        <5> QED
          BY <5>3 DEF Current, Excused
      <4> QED
        BY <4>2, <4>3
    <3> QED
      BY <2>5, <3>2, <3>3
  <2>6. CASE /\ role'[u] = role[u]
             /\ ~(StoreCached(r) /\ u = reqs[r].user)
             /\ ~((Erase(r) \/ Save(r)) /\ role[u] = reqs[r].key /\ rows'[role[u]] # rows[role[u]])
    <3>1. cache'[u] = cache[u] \/ cache'[u] = None
      BY <2>1, <2>6 DEF StoreCached, DropCached, TypeOK
    <3>2. cache[u] # None => rows'[role[u]] = rows[role[u]]
      BY <2>1, <2>2, <2>6
    <3>3. \A s \in Request : WillDrop(s, u) => WillDrop(s, u)' \/ cache'[u] = None
      BY <1>2, <2>6, StillDrops
    <3>4. CASE cache'[u] = None
      BY <3>4 DEF Current
    <3>5. CASE cache'[u] = cache[u] /\ cache[u] # None
      BY <1>0, <2>1, <2>6, <3>2, <3>3, <3>5, StaysCurrent
    <3> QED
      BY <3>1, <3>4, <3>5
  <2> QED
    BY <2>1, <2>3, <2>4, <2>5, <2>6 DEF Erase, Save
<1>3. ASSUME NEW r \in Request, SubClient(r) PROVE Current(u)'
  <2>1. /\ UNCHANGED <<rows, cache, overtaken, undropped>> /\ loose \subseteq loose'
        /\ role[u] = None \/ role'[u] = role[u]
        /\ ~Running(r) /\ \A s \in Request \ {r} : reqs'[s] = reqs[s]
    BY <1>3, RolesAssumption DEF SubClient, End, TypeOK, Running
  <2>2. CASE role[u] = None
    BY <2>1, <2>2 DEF Fresh, Current
  <2>3. CASE role'[u] = role[u]
    <3>1. \A s \in Request : WillDrop(s, u) => WillDrop(s, u)'
      BY <2>1, <2>3 DEF WillDrop, At, Running
    <3> QED
      BY <1>0, <2>1, <2>3, <3>1, StaysCurrent
  <2> QED
    BY <2>1, <2>2, <2>3
<1>6. ASSUME NEW r \in Request, Fail(r) PROVE Current(u)'
  <2>1. /\ cache' = cache /\ role' = role /\ rows' = rows
        /\ overtaken' = overtaken /\ loose' = loose
        /\ \A s \in Request \ {r} : reqs'[s] = reqs[s]
    BY <1>6, Failed DEF db
  <2>2. CASE WillDrop(r, u) /\ cache[u] # None
    <3>1. cache[u].by \in undropped'
      BY <1>6, <2>2 DEF Fail
    <3> QED
      BY <2>1, <3>1 DEF Current, Excused
  <2>3. CASE ~WillDrop(r, u) \/ cache[u] = None
    <3>1. \A s \in Request : WillDrop(s, u) => WillDrop(s, u)' \/ cache[u] = None
      BY <2>1, <2>3 DEF WillDrop, At, Running
    <3>2. undropped \subseteq undropped'
      BY <1>6 DEF Fail
    <3> QED
      BY <1>0, <2>1, <3>1, <3>2, StaysCurrent
  <2> QED
    BY <2>2, <2>3
<1>4. ASSUME NEW v \in User, CacheGoes(v) PROVE Current(u)'
  <2>1. /\ cache'[u] = None \/ cache'[u] = cache[u]
        /\ UNCHANGED <<rows, role, reqs, overtaken, undropped, loose>>
    BY <1>4 DEF CacheGoes, TypeOK, db, history
  <2> QED
    BY <1>0, <2>1, StaysCurrent DEF WillDrop, At, Running
<1>5. CASE UNCHANGED vars
  BY <1>0, <1>5, StaysCurrent DEF vars, db, history, WillDrop, At, Running
<1> QED
  BY <1>1, <1>2, <1>3, <1>4, <1>6, <1>5 DEF Next, Opens, Goes, Finished

----------------------------------------------------------------------------
(* The invariant, and the theorems.                                        *)

LEMMA InitIInv == Init => IInv
<1> SUFFICES ASSUME Init PROVE IInv
  OBVIOUS
<1>1. /\ rows = [k \in Key |-> IF k \in Seeded
                     THEN {[permission |-> p, by |-> None] : p \in Default} ELSE {}]
      /\ saved = [k \in Key |-> IF k \in Seeded THEN Default ELSE {}]
  BY DEF Init
<1>2. Default \in SUBSET Permission
  BY RolesAssumption
<1>3. {[permission |-> p, by |-> None] : p \in Default} \in SUBSET Row
  BY <1>2 DEF Row
<1>4. TypeOK
  BY <1>1, <1>2, <1>3, RolesAssumption DEF Init, TypeOK
<1>5. \A r \in Request : ~Running(r)
  BY DEF Init, Running
<1>6. Flow /\ Guarded /\ Exclusive /\ Fresh
  BY <1>4, <1>5 DEF Flow, Guarded, Exclusive, Fresh, Is, At, HoldsRole, About, Init
<1>7. HoldersHaveARole /\ CacheIsCurrent
  BY DEF HoldersHaveARole, CacheIsCurrent, Init
<1>10. SavedSetHolds
  <2>1. \A k \in Seeded : Granted(k) = saved[k]
    <3>1. Permissions({[permission |-> p, by |-> None] : p \in Default}) = Default
      BY PermissionsOf
    <3> QED
      BY <1>1, <3>1, RolesAssumption DEF Granted
  <2>2. \A k \in Key \ Seeded : rows[k] = {} /\ Granted(k) = {} /\ saved[k] = {}
    BY <1>1, PermissionsOf DEF Granted
  <2> QED
    BY <2>1, <2>2 DEF SavedSetHolds, Init
<1> QED
  BY <1>4, <1>6, <1>7, <1>10 DEF IInv

\* The parts of IInv hold in every reachable state.
THEOREM Invariance == Spec => []IInv
<1>1. IInv /\ [Next]_vars => IInv'
  BY TypeStep, FlowStep, GuardedStep, HoldersStep, ExclusiveStep, SavedStep, FreshStep,
     CacheStep DEF IInv
<1> QED
  BY InitIInv, <1>1, PTL DEF Spec

\* Tables, cache and handler runs keep their types.
THEOREM TypeCorrect == Spec => []TypeOK
BY Invariance, PTL DEF IInv

\* deleteRole: nobody is left with a role that is gone, unless another request
\* about that role overlapped its deletion, or a sub-client was given it early.
THEOREM RolesInUseStay == Spec => []HoldersHaveARole
BY Invariance, PTL DEF IInv

\* updateRole, createRole, deleteRole: a role has the permissions saved last,
\* unless two requests rewrote its rows at once.
THEOREM LastSaveWins == Spec => []SavedSetHolds
BY Invariance, PTL DEF IInv

\* getUserPermissions and the invalidations: what is cached for a user is what
\* the role grants, or is about to be dropped, or a change overtook the sign-in
\* that cached it, or the run that would have dropped this entry failed.
THEOREM StaleCacheIsExplained == Spec => []CacheIsCurrent
BY Invariance, PTL DEF IInv
=============================================================================
