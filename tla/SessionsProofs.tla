--------------------------- MODULE SessionsProofs ---------------------------
(***************************************************************************)
(* Theorems about Sessions for any runs, users, passwords and memory of    *)
(* old passwords.                                                          *)
(*                                                                         *)
(* The argument.  A session belongs to one user and begins with its run,   *)
(* and until two refreshes of one token overlap either a token of it is    *)
(* stored or one run is on the way from its old token to the next          *)
(* (Chains).  A link whose password was written is held by the run that    *)
(* will drop it, or is loose (Leads).  A reset in front of its write has   *)
(* compared its password with those there are now, or is raced (Checked).  *)
(***************************************************************************)
EXTENDS Sessions, SequenceTheorems, TLAPS

LEMMA Constants ==
    /\ Recent \in Nat /\ Request \cap Seed = {} /\ None \notin Password
    /\ None # Over /\ None \notin Run /\ Over \notin Run
BY SessionsAssumption DEF SessionsAssumption

(***************************************************************************)
(* Where a run may be.                                                     *)
(***************************************************************************)
Extends == {"login", "refresh", "accept"}

PlaceOf(r) ==
    LET q == reqs[r] IN
    \/ q.pc = "issue" /\ q.op \in Extends
    \/ q.pc = "delete" /\ q.op = "refresh"
    \/ q.pc = "end" /\ q.op = "logout"
    \/ q.pc = "write" /\ q.op \in {"reset", "accept", "change"} /\ q.password \in Password
    \/ q.pc = "drop" /\ q.op \in {"reset", "accept"}
    \/ q.pc = "link" /\ q.op \in {"invite", "tenant"}
    \/ q.pc = "commit" /\ q.op = "tenant"

Places == \A r \in Request : Running(r) => PlaceOf(r)

LEMMA RunType ==
    ASSUME TypeOK, NEW r \in Request, Running(r)
    PROVE  /\ reqs[r] \in Run /\ reqs[r].op \in Op /\ reqs[r].pc \in Pc /\ reqs[r].user \in User
           /\ reqs[r].key \in Id /\ reqs[r].session \in Id /\ reqs[r].password \in Password \cup {None}
BY DEF TypeOK, Running, Run

\* What the steps of a handler do to the runs: begin one, move one, end one.
BeginStep(r) ==
    /\ reqs[r] = None /\ Running(r)'
    /\ reqs' \in [Request -> Run \cup {None, Over}]
    /\ \A q \in Request \ {r} : reqs'[q] = reqs[q]

MoveStep(r, pc) ==
    /\ Running(r) /\ Running(r)'
    /\ reqs' \in [Request -> Run \cup {None, Over}]
    /\ reqs'[r].pc = pc /\ reqs'[r].op = reqs[r].op /\ reqs'[r].user = reqs[r].user
    /\ reqs'[r].key = reqs[r].key /\ reqs'[r].session = reqs[r].session
    /\ reqs'[r].password = reqs[r].password
    /\ \A q \in Request \ {r} : reqs'[q] = reqs[q]

EndStep(r) ==
    /\ reqs' \in [Request -> Run \cup {None, Over}]
    /\ reqs'[r] = Over /\ ~Running(r)'
    /\ \A q \in Request \ {r} : reqs'[q] = reqs[q]

LEMMA Begins ==
    ASSUME TypeOK, NEW r \in Request, NEW op \in Op, NEW pc \in Pc, NEW u \in User, NEW key \in Id,
           NEW session \in Id, NEW p \in Password \cup {None}, Begin(r, op, pc, u, key, session, p)
    PROVE  /\ reqs[r] = None /\ ~Running(r) /\ Running(r)'
           /\ reqs' \in [Request -> Run \cup {None, Over}]
           /\ reqs'[r].op = op /\ reqs'[r].pc = pc /\ reqs'[r].user = u /\ reqs'[r].key = key
           /\ reqs'[r].session = session /\ reqs'[r].password = p
           /\ \A q \in Request \ {r} : reqs'[q] = reqs[q]
           /\ BeginStep(r)
<1>1. [op |-> op, pc |-> pc, user |-> u, key |-> key, session |-> session, password |-> p] \in Run
  BY DEF Run
<1>2. /\ reqs[r] = None
      /\ reqs'[r] = [op |-> op, pc |-> pc, user |-> u, key |-> key,
                     session |-> session, password |-> p]
      /\ \A q \in Request \ {r} : reqs'[q] = reqs[q]
      /\ reqs' \in [Request -> Run \cup {None, Over}]
  BY <1>1 DEF Begin, TypeOK
<1>3. ~Running(r) /\ Running(r)'
  BY <1>1, <1>2, Constants DEF Running
<1> QED
  BY <1>2, <1>3 DEF BeginStep

LEMMA Goes ==
    ASSUME TypeOK, NEW r \in Request, Running(r), NEW pc \in Pc, GoTo(r, pc)
    PROVE  /\ Running(r)' /\ reqs' \in [Request -> Run \cup {None, Over}]
           /\ reqs'[r].pc = pc /\ reqs'[r].op = reqs[r].op /\ reqs'[r].user = reqs[r].user
           /\ reqs'[r].key = reqs[r].key /\ reqs'[r].session = reqs[r].session
           /\ reqs'[r].password = reqs[r].password
           /\ \A q \in Request \ {r} : reqs'[q] = reqs[q]
<1>1. [reqs[r] EXCEPT !.pc = pc] \in Run
  BY RunType DEF Run
<1>2. /\ reqs' \in [Request -> Run \cup {None, Over}]
      /\ reqs'[r] = [reqs[r] EXCEPT !.pc = pc]
      /\ \A q \in Request \ {r} : reqs'[q] = reqs[q]
  BY <1>1 DEF GoTo, TypeOK
<1>3. reqs[r] \in Run
  BY RunType
<1> QED
  BY <1>1, <1>2, <1>3, Constants DEF Running, Run

LEMMA Ends ==
    ASSUME TypeOK, NEW r \in Request, End(r)
    PROVE  /\ reqs' \in [Request -> Run \cup {None, Over}]
           /\ reqs'[r] = Over /\ ~Running(r)'
           /\ \A q \in Request \ {r} : reqs'[q] = reqs[q]
BY DEF End, TypeOK, Running

\* The run of a new session.
Opens(r) ==
    /\ BeginStep(r)
    /\ \/ reqs'[r].op = "login" /\ reqs'[r].pc = "issue" /\ reqs'[r].session = r
       \/ reqs'[r].op = "logout" /\ reqs'[r].pc = "end"
       \/ reqs'[r].op = "change" /\ reqs'[r].pc = "write" /\ reqs'[r].password \in Password
       \/ reqs'[r].op \in {"invite", "tenant"} /\ reqs'[r].pc = "link"

LEMMA IdOf == ASSUME NEW r \in Request PROVE r \in Id
BY DEF Id

\* The steps that begin a run and use no token or link.
LEMMA OpensSteps ==
    ASSUME TypeOK, NEW r \in Request
    PROVE  /\ Login(r) => Opens(r) \/ (EndStep(r) /\ reqs[r] = None)
           /\ MfaChallenge(r) => Opens(r)
           /\ Logout(r) => Opens(r)
           /\ ChangePassword(r) => Opens(r)
           /\ InviteUser(r) => Opens(r)
           /\ CreateTenant(r) => Opens(r)
           /\ Register(r) => Opens(r)
<1>0. r \in Id
  BY IdOf
<1>1. ASSUME NEW u \in User, Begin(r, "login", "issue", u, r, r, None)
      PROVE  Opens(r)
  <2>1. "login" \in Op /\ "issue" \in Pc /\ None \in Password \cup {None}
    BY DEF Op, Pc
  <2>2. BeginStep(r) /\ reqs'[r].op = "login" /\ reqs'[r].pc = "issue" /\ reqs'[r].session = r
    BY <1>0, <1>1, <2>1, Begins
  <2> QED
    BY <2>2 DEF Opens
<1>2. Login(r) => Opens(r) \/ (EndStep(r) /\ reqs[r] = None)
  BY <1>1, Ends DEF Login, EndStep
<1>3. MfaChallenge(r) => Opens(r)
  BY <1>1 DEF MfaChallenge, TypeOK
<1>4. Register(r) => Opens(r)
  BY <1>1 DEF Register
<1>5. ASSUME Logout(r)
      PROVE  Opens(r)
  <2>1. PICK a \in access : Begin(r, "logout", "end", a.user, a.id, r, None)
    BY <1>5 DEF Logout
  <2>2. /\ a.user \in User /\ a.id \in Id
        /\ "logout" \in Op /\ "end" \in Pc /\ None \in Password \cup {None}
    BY DEF TypeOK, Access, Op, Pc
  <2>3. BeginStep(r) /\ reqs'[r].op = "logout" /\ reqs'[r].pc = "end"
    BY <1>0, <2>1, <2>2, Begins
  <2> QED
    BY <2>3 DEF Opens
<1>6. ASSUME ChangePassword(r)
      PROVE  Opens(r)
  <2>1. PICK a \in access, p \in Password : Begin(r, "change", "write", a.user, r, r, p)
    BY <1>6 DEF ChangePassword
  <2>2. a.user \in User /\ "change" \in Op /\ "write" \in Pc
    BY DEF TypeOK, Access, Op, Pc
  <2>3. BeginStep(r) /\ reqs'[r].op = "change" /\ reqs'[r].pc = "write" /\ reqs'[r].password = p
    BY <1>0, <2>1, <2>2, Begins
  <2> QED
    BY <2>3 DEF Opens
<1>7. ASSUME NEW u \in User, NEW op \in {"invite", "tenant"}, Begin(r, op, "link", u, r, r, None)
      PROVE  Opens(r)
  <2>1. op \in Op /\ "link" \in Pc /\ None \in Password \cup {None}
    BY DEF Op, Pc
  <2>2. BeginStep(r) /\ reqs'[r].op = op /\ reqs'[r].pc = "link"
    BY <1>0, <1>7, <2>1, Begins
  <2> QED
    BY <2>2 DEF Opens
<1>8. (InviteUser(r) => Opens(r)) /\ (CreateTenant(r) => Opens(r))
  BY <1>7 DEF InviteUser, CreateTenant
<1> QED
  BY <1>2, <1>3, <1>4, <1>5, <1>6, <1>8

\* Refresh and UseLink begin with a token and a link.
LEMMA RefreshBegins ==
    ASSUME TypeOK, NEW r \in Request, Refresh(r)
    PROVE  \E t \in refresh :
             /\ BeginStep(r) /\ t \in Token
             /\ reqs'[r].op = "refresh" /\ reqs'[r].pc = "delete" /\ reqs'[r].user = t.user
             /\ reqs'[r].key = t.id /\ reqs'[r].session = t.session
             /\ forked' = IF \E q \in Request : At(q, "delete") /\ reqs[q].key = t.id
                          THEN forked \cup {t.session} ELSE forked
<1>1. PICK t \in refresh :
        /\ Begin(r, "refresh", "delete", t.user, t.id, t.session, None)
        /\ forked' = IF \E q \in Request : At(q, "delete") /\ reqs[q].key = t.id
                     THEN forked \cup {t.session} ELSE forked
  BY DEF Refresh
<1>2. t \in Token /\ t.user \in User /\ t.id \in Id /\ t.session \in Id
  BY DEF TypeOK, Token
<1>3. "refresh" \in Op /\ "delete" \in Pc /\ None \in Password \cup {None}
  BY DEF Op, Pc
<1>4. /\ BeginStep(r) /\ reqs'[r].op = "refresh" /\ reqs'[r].pc = "delete" /\ reqs'[r].user = t.user
      /\ reqs'[r].key = t.id /\ reqs'[r].session = t.session
  BY <1>1, <1>2, <1>3, Begins
<1> QED
  BY <1>1, <1>2, <1>4

LEMMA UseLinkBegins ==
    ASSUME TypeOK, NEW r \in Request, UseLink(r)
    PROVE  \E l \in links, p \in Password :
             /\ BeginStep(r) /\ l \in Link
             /\ reqs'[r].op = l.kind /\ reqs'[r].pc = "write" /\ reqs'[r].user = l.user
             /\ reqs'[r].key = l.id /\ reqs'[r].session = r /\ reqs'[r].password = p
             /\ l.kind = "reset" => ~Contains(past[l.user], p)
             /\ loose' = IF \E q \in Request : /\ At(q, "write") \/ At(q, "drop")
                                               /\ reqs[q].key = l.id
                         THEN loose \cup {l.id} ELSE loose
<1>1. PICK l \in links, p \in Password :
        /\ l.kind = "reset" => Exists(l.user) /\ ~Contains(past[l.user], p)
        /\ Begin(r, l.kind, "write", l.user, l.id, r, p)
        /\ loose' = IF \E q \in Request : /\ At(q, "write") \/ At(q, "drop")
                                          /\ reqs[q].key = l.id
                    THEN loose \cup {l.id} ELSE loose
  BY DEF UseLink
<1>2. l \in Link /\ l.kind \in {"reset", "accept"} /\ l.user \in User /\ l.id \in Id /\ r \in Id
  BY IdOf DEF TypeOK, Link
<1>3. l.kind \in Op /\ "write" \in Pc
  BY <1>2 DEF Op, Pc
<1>4. /\ BeginStep(r) /\ reqs'[r].op = l.kind /\ reqs'[r].pc = "write" /\ reqs'[r].user = l.user
      /\ reqs'[r].key = l.id /\ reqs'[r].session = r /\ reqs'[r].password = p
  BY <1>1, <1>2, <1>3, Begins
<1> QED
  BY <1>1, <1>2, <1>4

\* The steps that move or end a run.
LEMMA Moves ==
    ASSUME TypeOK, Places, NEW r \in Request
    PROVE  /\ Issue(r) => EndStep(r) /\ Running(r) /\ reqs[r].pc = "issue" /\ reqs[r].op \in Extends
           /\ DeleteToken(r) => MoveStep(r, "issue") /\ reqs[r].pc = "delete" /\ reqs[r].op = "refresh"
           /\ EndSessions(r) => EndStep(r) /\ Running(r) /\ reqs[r].op = "logout"
           /\ WriteChange(r) => EndStep(r) /\ Running(r) /\ reqs[r].op = "change" /\ reqs[r].pc = "write"
                                /\ reqs[r].password \in Password
           /\ WriteReset(r) => MoveStep(r, "drop") /\ reqs[r].op = "reset" /\ reqs[r].pc = "write"
                               /\ reqs[r].password \in Password
           /\ WriteAccept(r) => /\ MoveStep(r, "drop") \/ EndStep(r)
                                /\ Running(r) /\ reqs[r].op = "accept" /\ reqs[r].pc = "write"
                                /\ reqs[r].password \in Password
           /\ DropLink(r) => /\ \/ EndStep(r) /\ reqs[r].op = "reset"
                                \/ MoveStep(r, "issue") /\ reqs[r].op = "accept"
                             /\ Running(r) /\ reqs[r].pc = "drop"
           /\ StoreLink(r) => /\ \/ EndStep(r) /\ reqs[r].op = "invite"
                                 \/ MoveStep(r, "commit") /\ reqs[r].op = "tenant"
                              /\ Running(r) /\ reqs[r].pc = "link"
           /\ CommitTenant(r) => EndStep(r) /\ Running(r) /\ reqs[r].pc = "commit" /\ reqs[r].op = "tenant"
           /\ RequestReset(r) => EndStep(r) /\ reqs[r] = None
<1>1. ASSUME NEW pc \in Pc, Running(r), GoTo(r, pc)
      PROVE  MoveStep(r, pc)
  BY <1>1, Goes DEF MoveStep
<1>2. ASSUME End(r)
      PROVE  EndStep(r)
  BY <1>2, Ends DEF EndStep
<1>3. {"issue", "drop", "commit"} \subseteq Pc
  BY DEF Pc
<1>4. Issue(r) => EndStep(r) /\ Running(r) /\ reqs[r].pc = "issue" /\ reqs[r].op \in Extends
  BY <1>2 DEF Issue, At, Places, PlaceOf
<1>5. DeleteToken(r) => MoveStep(r, "issue") /\ reqs[r].pc = "delete" /\ reqs[r].op = "refresh"
  BY <1>1, <1>3 DEF DeleteToken, At, Places, PlaceOf
<1>6. EndSessions(r) => EndStep(r) /\ Running(r) /\ reqs[r].op = "logout"
  BY <1>2 DEF EndSessions, At, Places, PlaceOf
<1>7. WriteChange(r) => EndStep(r) /\ Running(r) /\ reqs[r].op = "change" /\ reqs[r].pc = "write"
                        /\ reqs[r].password \in Password
  BY <1>2 DEF WriteChange, At, Places, PlaceOf
<1>8. WriteReset(r) => MoveStep(r, "drop") /\ reqs[r].op = "reset" /\ reqs[r].pc = "write"
                       /\ reqs[r].password \in Password
  BY <1>1, <1>3 DEF WriteReset, At, Places, PlaceOf
<1>9. WriteAccept(r) => /\ MoveStep(r, "drop") \/ EndStep(r)
                        /\ Running(r) /\ reqs[r].op = "accept" /\ reqs[r].pc = "write"
                        /\ reqs[r].password \in Password
  BY <1>1, <1>2, <1>3 DEF WriteAccept, At, Places, PlaceOf
<1>10. DropLink(r) => /\ \/ EndStep(r) /\ reqs[r].op = "reset"
                         \/ MoveStep(r, "issue") /\ reqs[r].op = "accept"
                      /\ Running(r) /\ reqs[r].pc = "drop"
  BY <1>1, <1>2, <1>3 DEF DropLink, At, Places, PlaceOf
<1>11. StoreLink(r) => /\ \/ EndStep(r) /\ reqs[r].op = "invite"
                          \/ MoveStep(r, "commit") /\ reqs[r].op = "tenant"
                       /\ Running(r) /\ reqs[r].pc = "link"
  BY <1>1, <1>2, <1>3 DEF StoreLink, At, Places, PlaceOf
<1>12. CommitTenant(r) => EndStep(r) /\ Running(r) /\ reqs[r].pc = "commit" /\ reqs[r].op = "tenant"
  BY <1>2 DEF CommitTenant, At, Places, PlaceOf
<1>13. RequestReset(r) => EndStep(r) /\ reqs[r] = None
  BY <1>2 DEF RequestReset
<1> QED
  BY <1>4, <1>5, <1>6, <1>7, <1>8, <1>9, <1>10, <1>11, <1>12, <1>13

(***************************************************************************)
(* Types and places are kept.                                              *)
(***************************************************************************)
LEMMA RememberType ==
    ASSUME NEW p \in Password, NEW old \in Seq(Password)
    PROVE  Remember(p, old) \in Seq(Password) /\ Len(Remember(p, old)) <= Recent
<1> DEFINE all == <<p>> \o old
<1> DEFINE n == IF Len(all) < Recent THEN Len(all) ELSE Recent
<1>1. all \in Seq(Password) /\ Len(all) \in Nat
  OBVIOUS
<1>2. n \in Nat /\ n <= Len(all) /\ n <= Recent
  BY <1>1, Constants
<1>3. \A i \in 1..n : all[i] \in Password
  <2> SUFFICES ASSUME NEW i \in 1..n PROVE all[i] \in Password
    OBVIOUS
  <2>1. i \in 1..Len(all)
    BY <1>1, <1>2
  <2> HIDE DEF all, n
  <2> QED
    BY <1>1, <2>1
<1>4. n \in Int /\ 1 \in Int
  BY <1>2
<1>5. SubSeq(all, 1, n) \in Seq(Password) /\ Len(SubSeq(all, 1, n)) = IF 1 <= n THEN n - 1 + 1 ELSE 0
  <2> HIDE DEF all, n
  <2> QED
    BY <1>3, <1>4, SubSeqProperties
<1>6. Len(SubSeq(all, 1, n)) <= Recent
  <2> HIDE DEF all, n
  <2> QED
    BY <1>2, <1>5, Constants
<1>7. Remember(p, old) = SubSeq(all, 1, n)
  BY DEF Remember
<1> QED
  BY <1>5, <1>6, <1>7

LEMMA InitTypes == Init => TypeOK /\ Places
<1> SUFFICES ASSUME Init PROVE TypeOK /\ Places
  OBVIOUS
<1>1. PICK u \in User, p \in Password, s \in Seed :
         /\ status = [v \in User |-> IF v = u THEN "active" ELSE None]
         /\ password = [v \in User |-> IF v = u THEN p ELSE None]
         /\ past = [v \in User |-> IF v = u THEN Remember(p, <<>>) ELSE <<>>]
         /\ refresh = {[id |-> s, user |-> u, session |-> s]}
         /\ access = {[id |-> s, user |-> u]}
         /\ links = {[id |-> s, user |-> u, kind |-> "reset"]}
  BY DEF Init
<1>2. s \in Id
  BY DEF Id
<1>3. Remember(p, <<>>) \in Seq(Password) /\ Len(Remember(p, <<>>)) <= Recent
  <2>1. <<>> \in Seq(Password)
    OBVIOUS
  <2> QED
    BY <2>1, RememberType
<1>4. past \in [User -> Seq(Password)] /\ \A v \in User : Len(past[v]) <= Recent
  BY <1>1, <1>3, Constants
<1>5. status \in [User -> Status \cup {None}] /\ password \in [User -> Password \cup {None}]
  BY <1>1 DEF Status
<1>6. refresh \subseteq Token /\ links \subseteq Link /\ access \subseteq Access
  BY <1>1, <1>2 DEF Token, Link, Access
<1> QED
  BY <1>4, <1>5, <1>6 DEF Init, TypeOK, Places, Running

\* A step of run r that leaves the others alone.
Others(r) == \A q \in Request \ {r} : reqs'[q] = reqs[q]

LEMMA PlacesKept ==
    ASSUME Places, NEW r \in Request, Others(r), Running(r)' => PlaceOf(r)'
    PROVE  Places'
<1> SUFFICES ASSUME NEW q \in Request, Running(q)' PROVE PlaceOf(q)'
  BY DEF Places
<1>1. CASE q = r
  BY <1>1
<1>2. CASE q # r
  BY <1>2 DEF Others, Places, PlaceOf, Running
<1> QED
  BY <1>1, <1>2

RunsOK == reqs \in [Request -> Run \cup {None, Over}]

\* Every step of a run keeps the runs and their places.
LEMMA RunsKept ==
    ASSUME TypeOK, Places, NEW r \in Request
    PROVE  /\ Opens(r) \/ EndStep(r) => RunsOK' /\ Places'
           /\ Refresh(r) \/ UseLink(r) \/ DeleteToken(r) \/ WriteReset(r) \/ WriteAccept(r)
              \/ DropLink(r) \/ StoreLink(r) => RunsOK' /\ Places'
<1>1. ASSUME Opens(r) PROVE RunsOK' /\ Places'
  <2>1. Others(r) /\ RunsOK'
    BY <1>1 DEF Opens, BeginStep, Others, RunsOK
  <2>2. PlaceOf(r)'
    BY <1>1 DEF Opens, PlaceOf, Extends
  <2> QED
    BY <2>1, <2>2, PlacesKept
<1>2. ASSUME EndStep(r) PROVE RunsOK' /\ Places'
  BY <1>2, PlacesKept DEF EndStep, Others, RunsOK
<1>3. ASSUME Refresh(r) PROVE RunsOK' /\ Places'
  <2>1. BeginStep(r) /\ reqs'[r].op = "refresh" /\ reqs'[r].pc = "delete"
    BY <1>3, RefreshBegins
  <2>2. Others(r) /\ RunsOK'
    BY <2>1 DEF BeginStep, Others, RunsOK
  <2>3. PlaceOf(r)'
    BY <2>1 DEF PlaceOf
  <2> QED
    BY <2>2, <2>3, PlacesKept
<1>4. ASSUME UseLink(r) PROVE RunsOK' /\ Places'
  <2>1. PICK l \in links, p \in Password :
          /\ BeginStep(r) /\ l \in Link /\ reqs'[r].op = l.kind /\ reqs'[r].pc = "write"
          /\ reqs'[r].password = p
    BY <1>4, UseLinkBegins
  <2>2. Others(r) /\ RunsOK'
    BY <2>1 DEF BeginStep, Others, RunsOK
  <2>3. l.kind \in {"reset", "accept"}
    BY <2>1 DEF Link
  <2>4. PlaceOf(r)'
    BY <2>1, <2>3 DEF PlaceOf
  <2> QED
    BY <2>2, <2>4, PlacesKept
<1>5. ASSUME NEW pc, MoveStep(r, pc),
             \/ pc = "issue" /\ reqs[r].op \in Extends
             \/ pc = "drop" /\ reqs[r].op \in {"reset", "accept"}
             \/ pc = "commit" /\ reqs[r].op = "tenant"
      PROVE  RunsOK' /\ Places'
  <2>1. Others(r) /\ RunsOK'
    BY <1>5 DEF MoveStep, Others, RunsOK
  <2>2. PlaceOf(r)'
    BY <1>5 DEF MoveStep, PlaceOf
  <2> QED
    BY <2>1, <2>2, PlacesKept
<1>6. DeleteToken(r) \/ WriteReset(r) \/ WriteAccept(r) \/ DropLink(r) \/ StoreLink(r)
      => RunsOK' /\ Places'
  BY <1>2, <1>5, Moves DEF Extends
<1> QED
  BY <1>1, <1>2, <1>3, <1>4, <1>6

UsersOK ==
    /\ status \in [User -> Status \cup {None}]
    /\ password \in [User -> Password \cup {None}]
    /\ past \in [User -> Seq(Password)] /\ \A u \in User : Len(past[u]) <= Recent
    /\ mfa \in [User -> {"off", "setup", "on"}]

TokensOK ==
    refresh \subseteq Token /\ links \subseteq Link /\ access \subseteq Access /\ temp \subseteq User

HistoryOK ==
    /\ ended \subseteq Id /\ overtaken \subseteq Id /\ forked \subseteq Id
    /\ used \subseteq Id /\ twice \subseteq Id /\ loose \subseteq Id
    /\ raced \subseteq Request

LEMMA SetPasswordType ==
    ASSUME TypeOK, NEW r \in Request, Running(r), reqs[r].password \in Password, SetPassword(r)
    PROVE  /\ password' \in [User -> Password \cup {None}]
           /\ past' \in [User -> Seq(Password)] /\ \A u \in User : Len(past'[u]) <= Recent
           /\ raced' \subseteq Request
<1> DEFINE u == reqs[r].user
<1> DEFINE new == Remember(reqs[r].password, past[u])
<1>1. u \in User
  BY RunType
<1>2. new \in Seq(Password) /\ Len(new) <= Recent
  BY <1>1, RememberType DEF TypeOK
<1>3. past' = [past EXCEPT ![u] = new]
  BY DEF SetPassword
<1>4. past' \in [User -> Seq(Password)] /\ \A v \in User : Len(past'[v]) <= Recent
  <2> HIDE DEF new, u
  <2> QED
    BY <1>1, <1>2, <1>3 DEF TypeOK
<1> QED
  BY <1>1, <1>4 DEF SetPassword, TypeOK

LEMMA DeleteSessionsType ==
    ASSUME TypeOK, NEW u \in User, DeleteSessions(u)
    PROVE  refresh' \subseteq refresh /\ ended' \subseteq Id /\ overtaken' \subseteq Id
<1>1. \A q \in Extending(u) : reqs[q].session \in Id
  BY RunType DEF Extending
<1>2. \A t \in refresh : t.session \in Id
  BY DEF TypeOK, Token
<1> QED
  BY <1>1, <1>2 DEF DeleteSessions, TypeOK

DataOK == UsersOK /\ TokensOK /\ HistoryOK

LEMMA TypeParts == TypeOK <=> DataOK /\ RunsOK
BY DEF TypeOK, DataOK, UsersOK, TokensOK, HistoryOK, RunsOK

USE DEF users, tokens, history

\* The steps of sessions keep the data in its types.
LEMMA SessionData ==
    ASSUME TypeOK, Places, NEW r \in Request,
           Login(r) \/ MfaChallenge(r) \/ Issue(r) \/ Refresh(r) \/ DeleteToken(r) \/ Logout(r)
           \/ EndSessions(r)
    PROVE  DataOK'
<1> USE DEF DataOK, UsersOK, TokensOK, HistoryOK, TypeOK
<1>1. CASE Login(r)
  BY <1>1 DEF Login
<1>2. CASE MfaChallenge(r)
  BY <1>2 DEF MfaChallenge
<1>3. CASE Issue(r)
  <2>1. Running(r) /\ reqs[r].user \in User /\ reqs[r].session \in Id /\ r \in Id
    BY <1>3, RunType, IdOf DEF Issue, At
  <2>2. /\ [id |-> r, user |-> reqs[r].user, session |-> reqs[r].session] \in Token
        /\ [id |-> r, user |-> reqs[r].user] \in Access
    BY <2>1 DEF Token, Access
  <2> QED
    BY <1>3, <2>2 DEF Issue
<1>4. CASE Refresh(r)
  <2>1. PICK t \in refresh :
          forked' = IF \E q \in Request : At(q, "delete") /\ reqs[q].key = t.id
                    THEN forked \cup {t.session} ELSE forked
    BY <1>4 DEF Refresh
  <2>2. t.session \in Id
    BY DEF Token
  <2> QED
    BY <1>4, <2>1, <2>2 DEF Refresh
<1>5. CASE DeleteToken(r)
  BY <1>5 DEF DeleteToken
<1>6. CASE Logout(r)
  BY <1>6 DEF Logout
<1>7. CASE EndSessions(r)
  <2>1. Running(r) /\ reqs[r].user \in User
    BY <1>7, RunType DEF EndSessions, At
  <2>2. refresh' \subseteq refresh /\ ended' \subseteq Id /\ overtaken' \subseteq Id
    BY <1>7, <2>1, DeleteSessionsType DEF EndSessions
  <2> QED
    BY <1>7, <2>2 DEF EndSessions
<1> QED
  BY <1>1, <1>2, <1>3, <1>4, <1>5, <1>6, <1>7

\* So do those of passwords and links,
LEMMA PasswordData ==
    ASSUME TypeOK, Places, NEW r \in Request,
           ChangePassword(r) \/ WriteChange(r) \/ RequestReset(r) \/ UseLink(r) \/ WriteReset(r)
           \/ WriteAccept(r) \/ DropLink(r)
    PROVE  DataOK'
<1>a. TypeOK
  OBVIOUS
<1>1. CASE ChangePassword(r)
  BY <1>1 DEF ChangePassword, DataOK, UsersOK, TokensOK, HistoryOK, TypeOK
<1>2. CASE WriteChange(r)
  <2>1. Running(r) /\ reqs[r].password \in Password /\ SetPassword(r)
    BY <1>2, Moves DEF WriteChange
  <2>2. /\ password' \in [User -> Password \cup {None}]
        /\ past' \in [User -> Seq(Password)] /\ \A u \in User : Len(past'[u]) <= Recent
        /\ raced' \subseteq Request
    BY <2>1, SetPasswordType
  <2> QED
    BY <1>2, <2>2 DEF WriteChange, DataOK, UsersOK, TokensOK, HistoryOK, TypeOK
<1>3. CASE RequestReset(r)
  <2>1. PICK u \in User : links' = links \cup {[id |-> r, user |-> u, kind |-> "reset"]}
    BY <1>3 DEF RequestReset
  <2>2. [id |-> r, user |-> u, kind |-> "reset"] \in Link
    BY IdOf DEF Link
  <2> QED
    BY <1>3, <2>1, <2>2 DEF RequestReset, DataOK, UsersOK, TokensOK, HistoryOK, TypeOK
<1>4. CASE UseLink(r)
  <2>1. PICK l \in links : loose' = loose \cup {l.id} \/ loose' = loose
    BY <1>4, UseLinkBegins
  <2>2. l.id \in Id
    BY DEF TypeOK, Link
  <2> QED
    BY <1>4, <2>1, <2>2 DEF UseLink, DataOK, UsersOK, TokensOK, HistoryOK, TypeOK
<1>5. CASE WriteReset(r)
  <2>1. /\ Running(r) /\ reqs[r].password \in Password /\ SetPassword(r)
        /\ DeleteSessions(reqs[r].user) /\ Spend(reqs[r].key)
    BY <1>5, Moves DEF WriteReset, At
  <2>2. /\ password' \in [User -> Password \cup {None}]
        /\ past' \in [User -> Seq(Password)] /\ \A u \in User : Len(past'[u]) <= Recent
        /\ raced' \subseteq Request
    BY <2>1, SetPasswordType
  <2>3. reqs[r].user \in User /\ reqs[r].key \in Id
    BY <2>1, RunType
  <2>4. refresh' \subseteq refresh /\ ended' \subseteq Id /\ overtaken' \subseteq Id
    BY <2>1, <2>3, DeleteSessionsType
  <2>5. used' \subseteq Id /\ twice' \subseteq Id
    BY <2>1, <2>3 DEF Spend, TypeOK
  <2> QED
    BY <1>5, <2>2, <2>4, <2>5 DEF WriteReset, DataOK, UsersOK, TokensOK, HistoryOK, TypeOK
<1>6. CASE WriteAccept(r)
  <2>1. Running(r) /\ reqs[r].password \in Password
    BY <1>6, Moves
  <2>2. reqs[r].user \in User /\ reqs[r].key \in Id
    BY <2>1, RunType
  <2>3. CASE Exists(reqs[r].user)
    <3>1. SetPassword(r) /\ Spend(reqs[r].key)
      BY <1>6, <2>3 DEF WriteAccept
    <3>2. /\ password' \in [User -> Password \cup {None}]
          /\ past' \in [User -> Seq(Password)] /\ \A u \in User : Len(past'[u]) <= Recent
          /\ raced' \subseteq Request
      BY <2>1, <3>1, SetPasswordType
    <3>3. status' \in [User -> Status \cup {None}]
      BY <1>6, <2>2, <2>3 DEF WriteAccept, TypeOK, Status
    <3>4. used' \subseteq Id /\ twice' \subseteq Id
      BY <2>2, <3>1 DEF Spend, TypeOK
    <3> QED
      BY <1>6, <3>2, <3>3, <3>4 DEF WriteAccept, DataOK, UsersOK, TokensOK, HistoryOK, TypeOK
  <2>4. CASE ~Exists(reqs[r].user)
    BY <1>6, <2>4 DEF WriteAccept, DataOK, UsersOK, TokensOK, HistoryOK, TypeOK
  <2> QED
    BY <2>3, <2>4
<1>7. CASE DropLink(r)
  BY <1>7 DEF DropLink, DataOK, UsersOK, TokensOK, HistoryOK, TypeOK
<1> QED
  BY <1>1, <1>2, <1>3, <1>4, <1>5, <1>6, <1>7

\* and those of users.
LEMMA UserData ==
    ASSUME TypeOK, Places, NEW r \in Request,
           InviteUser(r) \/ CreateTenant(r) \/ StoreLink(r) \/ CommitTenant(r) \/ Register(r)
    PROVE  DataOK'
<1>1. CASE InviteUser(r)
  BY <1>1 DEF InviteUser, DataOK, UsersOK, TokensOK, HistoryOK, TypeOK, Status
<1>2. CASE CreateTenant(r)
  BY <1>2 DEF CreateTenant, DataOK, UsersOK, TokensOK, HistoryOK, TypeOK
<1>3. CASE StoreLink(r)
  <2>1. Running(r)
    BY <1>3 DEF StoreLink, At
  <2>2. [id |-> r, user |-> reqs[r].user, kind |-> "accept"] \in Link
    BY <2>1, RunType, IdOf DEF Link
  <2> QED
    BY <1>3, <2>2 DEF StoreLink, DataOK, UsersOK, TokensOK, HistoryOK, TypeOK
<1>4. CASE CommitTenant(r)
  BY <1>4 DEF CommitTenant, DataOK, UsersOK, TokensOK, HistoryOK, TypeOK, Status
<1>5. CASE Register(r)
  <2>1. PICK u \in User, p \in Password :
          /\ status' = [status EXCEPT ![u] = "active"]
          /\ password' = [password EXCEPT ![u] = p]
          /\ past' = [past EXCEPT ![u] = Remember(p, <<>>)]
    BY <1>5 DEF Register
  <2>2. <<>> \in Seq(Password)
    OBVIOUS
  <2>3. Remember(p, <<>>) \in Seq(Password) /\ Len(Remember(p, <<>>)) <= Recent
    BY <2>2, RememberType
  <2> QED
    BY <1>5, <2>1, <2>3 DEF Register, DataOK, UsersOK, TokensOK, HistoryOK, TypeOK, Status
<1> QED
  BY <1>1, <1>2, <1>3, <1>4, <1>5

\* The steps of no run.
Rest ==
    \/ \E u \in User : SetupMfa(u) \/ VerifyMfa(u) \/ UpdateUserStatus(u)
    \/ \E t \in refresh : TokenExpires(t)
    \/ \E l \in links : LinkExpires(l)

LEMMA RestTypes ==
    ASSUME TypeOK, Places, Rest
    PROVE  TypeOK' /\ Places'
<1>1. reqs' = reqs
  BY DEF Rest, SetupMfa, VerifyMfa, UpdateUserStatus, TokenExpires, LinkExpires
<1>2. Places'
  BY <1>1 DEF Places, PlaceOf, Running
<1>3. TypeOK'
  BY DEF Rest, SetupMfa, VerifyMfa, UpdateUserStatus, TokenExpires, LinkExpires, TypeOK, Status
<1> QED
  BY <1>2, <1>3

LEMMA CrashTypes ==
    ASSUME TypeOK, Crash
    PROVE  TypeOK' /\ Places' /\ \A r \in Request : ~Running(r)'
<1>1. \A r \in Request : reqs'[r] = IF Running(r) THEN Over ELSE reqs[r]
  BY DEF Crash
<1>2. reqs' \in [Request -> {None, Over}]
  BY <1>1 DEF Crash, Running
<1>3. \A r \in Request : ~Running(r)'
  BY <1>2 DEF Running
<1>4. loose' \subseteq Id
  <2>1. \A r \in Request : At(r, "drop") => reqs[r].key \in Id
    BY RunType DEF At
  <2> QED
    BY <2>1 DEF Crash, TypeOK
<1>5. status' \in [User -> Status \cup {None}]
  BY DEF Crash, TypeOK, Status
<1> QED
  BY <1>2, <1>3, <1>4, <1>5 DEF Crash, TypeOK, Places

SessionStep(r) ==
    Login(r) \/ MfaChallenge(r) \/ Issue(r) \/ Refresh(r) \/ DeleteToken(r) \/ Logout(r)
    \/ EndSessions(r)
PasswordStep(r) ==
    ChangePassword(r) \/ WriteChange(r) \/ RequestReset(r) \/ UseLink(r) \/ WriteReset(r)
    \/ WriteAccept(r) \/ DropLink(r)
UserStep(r) ==
    InviteUser(r) \/ CreateTenant(r) \/ StoreLink(r) \/ CommitTenant(r) \/ Register(r)

LEMMA Steps ==
    ASSUME Next
    PROVE  \/ \E r \in Request : SessionStep(r) \/ PasswordStep(r) \/ UserStep(r)
           \/ Rest
           \/ Crash
BY DEF Next, SessionStep, PasswordStep, UserStep, Rest

LEMMA RunTypes ==
    ASSUME TypeOK, Places, NEW r \in Request, SessionStep(r) \/ PasswordStep(r) \/ UserStep(r)
    PROVE  TypeOK' /\ Places'
<1>1. CASE SessionStep(r)
  <2>1. DataOK'
    BY <1>1, SessionData DEF SessionStep
  <2>2. RunsOK' /\ Places'
    <3>1. \/ Opens(r) \/ EndStep(r)
          \/ Refresh(r) \/ DeleteToken(r)
      BY <1>1, OpensSteps, Moves DEF SessionStep
    <3> QED
      BY <3>1, RunsKept
  <2> QED
    BY <2>1, <2>2 DEF TypeOK, DataOK, UsersOK, TokensOK, HistoryOK, RunsOK
<1>2. CASE PasswordStep(r)
  <2>1. DataOK'
    BY <1>2, PasswordData DEF PasswordStep
  <2>2. RunsOK' /\ Places'
    <3>1. \/ Opens(r) \/ EndStep(r)
          \/ UseLink(r) \/ WriteReset(r) \/ WriteAccept(r) \/ DropLink(r)
      BY <1>2, OpensSteps, Moves DEF PasswordStep
    <3> QED
      BY <3>1, RunsKept
  <2> QED
    BY <2>1, <2>2 DEF TypeOK, DataOK, UsersOK, TokensOK, HistoryOK, RunsOK
<1>3. CASE UserStep(r)
  <2>1. DataOK'
    BY <1>3, UserData DEF UserStep
  <2>2. RunsOK' /\ Places'
    <3>1. Opens(r) \/ EndStep(r) \/ StoreLink(r)
      BY <1>3, OpensSteps, Moves DEF UserStep
    <3> QED
      BY <3>1, RunsKept
  <2> QED
    BY <2>1, <2>2 DEF TypeOK, DataOK, UsersOK, TokensOK, HistoryOK, RunsOK
<1> QED
  BY <1>1, <1>2, <1>3

LEMMA NextTypes == TypeOK /\ Places /\ [Next]_vars => TypeOK' /\ Places'
<1>1. ASSUME TypeOK, Places, Next PROVE TypeOK' /\ Places'
  BY <1>1, Steps, RunTypes, RestTypes, CrashTypes
<1>2. ASSUME TypeOK, Places, UNCHANGED vars PROVE TypeOK' /\ Places'
  BY <1>2 DEF TypeOK, Places, PlaceOf, Running, vars
<1> QED
  BY <1>1, <1>2

(***************************************************************************)
(* Sessions.                                                               *)
(***************************************************************************)

\* A run that has issued or will issue a token of its session.
Extender(q) == Running(q) /\ reqs[q].op \in Extends

\* No trace of a session before its run.
NewSessions ==
    \A r \in Request : reqs[r] = None =>
      /\ r \notin ended
      /\ \A t \in refresh : t.session # r
      /\ \A q \in Request : Extender(q) => reqs[q].session # r

OneUser ==
    /\ \A s, t \in refresh : s.session = t.session => s.user = t.user
    /\ \A t \in refresh, q \in Request :
         Extender(q) /\ reqs[q].session = t.session => reqs[q].user = t.user
    /\ \A p, q \in Request :
         Extender(p) /\ Extender(q) /\ reqs[p].session = reqs[q].session
         => reqs[p].user = reqs[q].user

LateRuns ==
    \A q \in Request : Extender(q) /\ reqs[q].session \in ended => reqs[q].session \in overtaken

OneRun ==
    \A p, q \in Request :
      Extender(p) /\ Extender(q) /\ reqs[p].session = reqs[q].session
      => p = q \/ reqs[p].session \in forked

\* Beside a run, a session has only the token the run is about to delete.
Handed ==
    \A q \in Request, t \in refresh :
      Extender(q) /\ t.session = reqs[q].session
      => t.session \in forked \/ (reqs[q].pc = "delete" /\ t.id = reqs[q].key)

Chains ==
    /\ NewSessions /\ OneUser /\ LateRuns /\ OneRun /\ Handed
    /\ SessionsEnd /\ OneTokenPerSession

\* What most steps do to a run, as far as sessions go: nothing, or begin a
\* session, or go on with it past the deletion.
Same(q) ==
    /\ reqs'[q] = None => reqs[q] = None
    /\ Extender(q)' =>
         \/ /\ Extender(q)
            /\ reqs'[q].session = reqs[q].session /\ reqs'[q].user = reqs[q].user
            /\ \/ reqs'[q].pc = reqs[q].pc /\ reqs'[q].key = reqs[q].key
               \/ reqs'[q].pc # "delete" /\ reqs[q].pc # "delete"
         \/ reqs[q] = None /\ reqs'[q].session = q /\ reqs'[q].pc # "delete"

LEMMA ChainsFrame ==
    ASSUME Chains, refresh' \subseteq refresh, UNCHANGED <<ended, overtaken, forked>>,
           \A q \in Request : Same(q)
    PROVE  Chains'
<1> USE DEF Chains, Same
<1>1. NewSessions'
  <2>1. \A q \in Request : Extender(q)' => reqs'[q] # None
    BY DEF Extender, Running
  <2> QED
    BY <2>1 DEF NewSessions
<1>2. OneUser'
  <2>1. \A s, t \in refresh' : s.session = t.session => s.user = t.user
    BY DEF OneUser
  <2>2. \A t \in refresh', q \in Request :
          Extender(q)' /\ reqs'[q].session = t.session => reqs'[q].user = t.user
    BY DEF OneUser, NewSessions
  <2>3. \A p, q \in Request :
          Extender(p)' /\ Extender(q)' /\ reqs'[p].session = reqs'[q].session
          => reqs'[p].user = reqs'[q].user
    BY DEF OneUser, NewSessions
  <2> QED
    BY <2>1, <2>2, <2>3 DEF OneUser
<1>3. LateRuns'
  BY DEF LateRuns, NewSessions
<1>4. OneRun'
  BY DEF OneRun, NewSessions
<1>5. Handed'
  BY DEF Handed, NewSessions
<1>6. SessionsEnd' /\ OneTokenPerSession'
  BY DEF SessionsEnd, OneTokenPerSession
<1> QED
  BY <1>1, <1>2, <1>3, <1>4, <1>5, <1>6

\* Issuing the token.
LEMMA ChainsIssue ==
    ASSUME TypeOK, Places, Chains, NEW r \in Request, Issue(r)
    PROVE  Chains'
<1> DEFINE new == [id |-> r, user |-> reqs[r].user, session |-> reqs[r].session]
<1>1. EndStep(r) /\ Running(r) /\ reqs[r].pc = "issue" /\ reqs[r].op \in Extends
  BY Moves
<1>2. /\ refresh' = refresh \cup {new}
      /\ UNCHANGED <<ended, overtaken, forked>>
  BY DEF Issue
<1>3. /\ Extender(r) /\ ~Extender(r)' /\ reqs'[r] # None /\ reqs[r] # None
      /\ \A q \in Request \ {r} : reqs'[q] = reqs[q] /\ (Extender(q)' <=> Extender(q))
  BY <1>1, Constants DEF EndStep, Extender, Running
<1>4. new.user = reqs[r].user /\ new.session = reqs[r].session
  OBVIOUS
<1> HIDE DEF new
<1> USE DEF Chains
<1>5. \A t \in refresh : t.session = new.session => t.session \in forked
  BY <1>1, <1>3, <1>4 DEF Handed
<1>6. NewSessions'
  BY <1>2, <1>3, <1>4 DEF NewSessions
<1>7. OneUser'
  <2>1. \A s, t \in refresh' : s.session = t.session => s.user = t.user
    BY <1>2, <1>3, <1>4 DEF OneUser
  <2>2. \A t \in refresh', q \in Request :
          Extender(q)' /\ reqs'[q].session = t.session => reqs'[q].user = t.user
    BY <1>2, <1>3, <1>4 DEF OneUser
  <2>3. \A p, q \in Request :
          Extender(p)' /\ Extender(q)' /\ reqs'[p].session = reqs'[q].session
          => reqs'[p].user = reqs'[q].user
    BY <1>3 DEF OneUser
  <2> QED
    BY <2>1, <2>2, <2>3 DEF OneUser
<1>8. LateRuns' /\ OneRun'
  BY <1>2, <1>3 DEF LateRuns, OneRun
<1>9. Handed'
  BY <1>2, <1>3, <1>4 DEF Handed, OneRun
<1>10. SessionsEnd'
  BY <1>2, <1>3, <1>4 DEF SessionsEnd, LateRuns
<1>11. OneTokenPerSession'
  BY <1>2, <1>4, <1>5 DEF OneTokenPerSession
<1> QED
  BY <1>6, <1>7, <1>8, <1>9, <1>10, <1>11

\* A refresh takes up the session of its token.
LEMMA ChainsRefresh ==
    ASSUME TypeOK, Places, Chains, NEW r \in Request, Refresh(r)
    PROVE  Chains'
<1>1. PICK t \in refresh :
             /\ BeginStep(r) /\ t \in Token
             /\ reqs'[r].op = "refresh" /\ reqs'[r].pc = "delete" /\ reqs'[r].user = t.user
             /\ reqs'[r].key = t.id /\ reqs'[r].session = t.session
             /\ forked' = IF \E q \in Request : At(q, "delete") /\ reqs[q].key = t.id
                          THEN forked \cup {t.session} ELSE forked
  BY RefreshBegins
<1>2. UNCHANGED <<refresh, ended, overtaken>> /\ forked \subseteq forked'
  BY <1>1 DEF Refresh
<1>3. /\ Extender(r)' /\ ~Extender(r) /\ reqs'[r] # None /\ reqs[r] = None
      /\ \A q \in Request \ {r} : reqs'[q] = reqs[q] /\ (Extender(q)' <=> Extender(q))
  BY <1>1 DEF BeginStep, Extender, Running, Extends
<1> USE DEF Chains
<1>4. \A q \in Request : Extender(q) /\ reqs[q].session = t.session => t.session \in forked'
  <2> SUFFICES ASSUME NEW q \in Request, Extender(q), reqs[q].session = t.session,
                      t.session \notin forked
               PROVE  t.session \in forked'
    BY <1>2
  <2>1. reqs[q].pc = "delete" /\ t.id = reqs[q].key
    BY DEF Handed
  <2>2. At(q, "delete")
    BY <2>1 DEF At, Extender
  <2> QED
    BY <1>1, <2>1, <2>2
<1>5. \A s \in refresh : s.session = t.session => s.id = t.id \/ s.session \in forked
  BY DEF OneTokenPerSession
<1>6. NewSessions'
  BY <1>1, <1>2, <1>3 DEF NewSessions
<1>7. OneUser'
  BY <1>1, <1>2, <1>3 DEF OneUser
<1>8. LateRuns'
  BY <1>1, <1>2, <1>3 DEF LateRuns, SessionsEnd
<1>9. OneRun'
  BY <1>1, <1>2, <1>3, <1>4 DEF OneRun
<1>10. Handed'
  BY <1>1, <1>2, <1>3, <1>5 DEF Handed
<1>11. SessionsEnd' /\ OneTokenPerSession'
  BY <1>2 DEF SessionsEnd, OneTokenPerSession
<1> QED
  BY <1>6, <1>7, <1>8, <1>9, <1>10, <1>11

\* The deletion leaves the session without a token.
LEMMA ChainsDelete ==
    ASSUME TypeOK, Places, Chains, NEW r \in Request, DeleteToken(r)
    PROVE  Chains'
<1>1. MoveStep(r, "issue") /\ reqs[r].pc = "delete" /\ reqs[r].op = "refresh"
  BY Moves
<1>2. /\ refresh' = {t \in refresh : t.id # reqs[r].key}
      /\ UNCHANGED <<ended, overtaken, forked>>
  BY DEF DeleteToken
<1>3. /\ Extender(r) /\ Extender(r)' /\ reqs'[r] # None /\ reqs[r] # None
      /\ reqs'[r].session = reqs[r].session /\ reqs'[r].user = reqs[r].user
      /\ \A q \in Request \ {r} : reqs'[q] = reqs[q] /\ (Extender(q)' <=> Extender(q))
  BY <1>1 DEF MoveStep, Extender, Running, Extends
<1> USE DEF Chains
<1>4. \A q \in Request : /\ Extender(q)' <=> Extender(q)
                         /\ reqs'[q] = None <=> reqs[q] = None
                         /\ Extender(q) => /\ reqs'[q].session = reqs[q].session
                                           /\ reqs'[q].user = reqs[q].user
  BY <1>3
<1>5. NewSessions'
  BY <1>2, <1>4 DEF NewSessions
<1>6. OneUser'
  BY <1>2, <1>4 DEF OneUser
<1>7. LateRuns' /\ OneRun'
  BY <1>2, <1>4 DEF LateRuns, OneRun
<1>8. Handed'
  BY <1>2, <1>3 DEF Handed
<1>9. SessionsEnd' /\ OneTokenPerSession'
  BY <1>2 DEF SessionsEnd, OneTokenPerSession
<1> QED
  BY <1>5, <1>6, <1>7, <1>8, <1>9

\* A logout or a reset ends the sessions of its user.
LEMMA ChainsEnd ==
    ASSUME TypeOK, Chains, NEW r \in Request, NEW u \in User, DeleteSessions(u), forked' = forked,
           Running(r), reqs[r].op \notin Extends, Others(r), reqs'[r] # None, ~Extender(r)'
    PROVE  Chains'
<1>1. /\ ~Extender(r) /\ reqs[r] # None
      /\ \A q \in Request \ {r} : reqs'[q] = reqs[q] /\ (Extender(q)' <=> Extender(q))
  BY DEF Others, Extender, Running
<1>2. \A q \in Request : /\ Extender(q)' <=> Extender(q)
                         /\ reqs'[q] = None <=> reqs[q] = None
                         /\ Extender(q) => reqs'[q] = reqs[q]
  BY <1>1
<1>3. \A q \in Request : q \in Extending(u) <=> Extender(q) /\ reqs[q].user = u
  BY DEF Extending, Extender, Extends
<1>4. /\ refresh' = {t \in refresh : t.user # u}
      /\ \A s : s \in ended' <=> \/ s \in ended
                                 \/ \E q \in Request : Extender(q) /\ reqs[q].user = u /\ s = reqs[q].session
                                 \/ \E t \in refresh : t.user = u /\ s = t.session
      /\ \A s : s \in overtaken' <=> \/ s \in overtaken
                                     \/ \E q \in Request : Extender(q) /\ reqs[q].user = u /\ s = reqs[q].session
  <2>1. \A q \in Extending(u) : q \in Request
    BY DEF Extending
  <2> QED
    BY <1>3, <2>1 DEF DeleteSessions
<1> USE DEF Chains
<1>5. NewSessions'
  BY <1>2, <1>4 DEF NewSessions
<1>6. OneUser'
  BY <1>2, <1>4 DEF OneUser
<1>7. LateRuns'
  BY <1>2, <1>4 DEF LateRuns, OneUser
<1>8. OneRun'
  BY <1>2 DEF OneRun
<1>9. Handed'
  BY <1>2, <1>4 DEF Handed
<1>10. SessionsEnd'
  BY <1>2, <1>4 DEF SessionsEnd, OneUser
<1>11. OneTokenPerSession'
  BY <1>4 DEF OneTokenPerSession
<1> QED
  BY <1>5, <1>6, <1>7, <1>8, <1>9, <1>10, <1>11

LEMMA SameSteps ==
    ASSUME TypeOK, Places, NEW r \in Request
    PROVE  /\ Opens(r) \/ EndStep(r) \/ UseLink(r) => \A q \in Request : Same(q)
           /\ WriteAccept(r) \/ DropLink(r) \/ StoreLink(r) => \A q \in Request : Same(q)
<1>1. ASSUME Others(r), Same(r) PROVE \A q \in Request : Same(q)
  BY <1>1 DEF Others, Same, Extender, Running
<1>2. ASSUME Opens(r) PROVE \A q \in Request : Same(q)
  <2>1. Others(r) /\ reqs[r] = None
    BY <1>2 DEF Opens, BeginStep, Others
  <2>2. Same(r)
    BY <1>2, <2>1 DEF Opens, Same, Extender, Extends
  <2> QED
    BY <1>1, <2>1, <2>2
<1>3. ASSUME EndStep(r) PROVE \A q \in Request : Same(q)
  <2>1. Others(r) /\ reqs'[r] # None /\ ~Extender(r)'
    BY <1>3, Constants DEF EndStep, Others, Extender
  <2> QED
    BY <1>1, <2>1 DEF Same
<1>4. ASSUME UseLink(r) PROVE \A q \in Request : Same(q)
  <2>1. BeginStep(r) /\ reqs'[r].pc = "write" /\ reqs'[r].session = r
    BY <1>4, UseLinkBegins
  <2>2. Others(r) /\ reqs[r] = None
    BY <2>1 DEF BeginStep, Others
  <2> QED
    BY <1>1, <2>1, <2>2 DEF Same
<1>5. ASSUME NEW pc \in {"issue", "drop", "commit"}, MoveStep(r, pc), reqs[r].pc # "delete"
      PROVE  \A q \in Request : Same(q)
  <2>1. /\ Others(r) /\ reqs'[r] # None
        /\ Extender(r)' => Extender(r)
    BY <1>5 DEF MoveStep, Others, Extender, Running
  <2>2. Same(r)
    BY <1>5, <2>1 DEF MoveStep, Same
  <2> QED
    BY <1>1, <2>1, <2>2
<1>6. WriteAccept(r) \/ DropLink(r) \/ StoreLink(r) => \A q \in Request : Same(q)
  <2>1. WriteAccept(r) => (MoveStep(r, "drop") /\ reqs[r].pc = "write") \/ EndStep(r)
    BY Moves
  <2>2. DropLink(r) => EndStep(r) \/ (MoveStep(r, "issue") /\ reqs[r].pc = "drop")
    BY Moves
  <2>3. StoreLink(r) => EndStep(r) \/ (MoveStep(r, "commit") /\ reqs[r].pc = "link")
    BY Moves
  <2> QED
    BY <1>3, <1>5, <2>1, <2>2, <2>3
<1> QED
  BY <1>2, <1>3, <1>4, <1>6

LEMMA InitChains == ASSUME Init PROVE Chains
<1>1. PICK u \in User, s \in Seed : refresh = {[id |-> s, user |-> u, session |-> s]}
  BY DEF Init
<1>2. ended = {} /\ \A r \in Request : ~Extender(r)
  BY DEF Init, Extender, Running
<1>3. s \notin Request
  BY Constants
<1>4. \A t \in refresh : t.session = s
  BY <1>1
<1>5. \A t1, t2 \in refresh : t1 = t2
  BY <1>1
<1>6. NewSessions
  BY <1>2, <1>3, <1>4 DEF NewSessions
<1>7. OneUser /\ OneTokenPerSession
  BY <1>2, <1>5 DEF OneUser, OneTokenPerSession
<1>8. LateRuns /\ OneRun /\ Handed /\ SessionsEnd
  BY <1>2 DEF LateRuns, OneRun, Handed, SessionsEnd
<1> QED
  BY <1>6, <1>7, <1>8 DEF Chains

\* What ChainsFrame asks of the tables.
TokensLeft == refresh' \subseteq refresh /\ UNCHANGED <<ended, overtaken, forked>>

LEMMA ChainsRun ==
    ASSUME TypeOK, Places, Chains, NEW r \in Request,
           SessionStep(r) \/ PasswordStep(r) \/ UserStep(r)
    PROVE  Chains'
<1>1. CASE SessionStep(r)
  <2>1. CASE Login(r) \/ MfaChallenge(r) \/ Logout(r)
    <3>1. TokensLeft
      BY <2>1 DEF Login, MfaChallenge, Logout, TokensLeft
    <3>2. Opens(r) \/ EndStep(r)
      BY <2>1, OpensSteps
    <3>3. \A q \in Request : Same(q)
      BY <3>2, SameSteps
    <3> QED
      BY <3>1, <3>3, ChainsFrame DEF TokensLeft
  <2>2. CASE EndSessions(r)
    <3>1. EndStep(r) /\ Running(r) /\ reqs[r].op = "logout"
      BY <2>2, Moves
    <3>2. /\ reqs[r].user \in User /\ DeleteSessions(reqs[r].user) /\ forked' = forked
      BY <2>2, <3>1, RunType DEF EndSessions
    <3>3. Others(r) /\ reqs'[r] # None /\ ~Extender(r)' /\ reqs[r].op \notin Extends
      BY <3>1, Constants DEF EndStep, Others, Extender, Extends
    <3> QED
      BY <3>1, <3>2, <3>3, ChainsEnd
  <2> QED
    BY <1>1, <2>1, <2>2, ChainsIssue, ChainsRefresh, ChainsDelete DEF SessionStep
<1>2. CASE PasswordStep(r)
  <2>1. CASE WriteReset(r)
    <3>1. MoveStep(r, "drop") /\ reqs[r].op = "reset"
      BY <2>1, Moves
    <3>2. /\ Running(r) /\ reqs[r].user \in User /\ DeleteSessions(reqs[r].user) /\ forked' = forked
      BY <2>1, <3>1, RunType DEF WriteReset, MoveStep
    <3>3. Others(r) /\ reqs'[r] # None /\ ~Extender(r)' /\ reqs[r].op \notin Extends
      BY <3>1 DEF MoveStep, Others, Extender, Running, Extends
    <3> QED
      BY <3>2, <3>3, ChainsEnd
  <2>2. CASE ~WriteReset(r)
    <3>1. TokensLeft
      BY <1>2, <2>2 DEF PasswordStep, ChangePassword, WriteChange, RequestReset, UseLink,
                        WriteAccept, DropLink, TokensLeft
    <3>2. Opens(r) \/ EndStep(r) \/ UseLink(r) \/ WriteAccept(r) \/ DropLink(r)
      BY <1>2, <2>2, OpensSteps, Moves DEF PasswordStep
    <3>3. \A q \in Request : Same(q)
      BY <3>2, SameSteps
    <3> QED
      BY <3>1, <3>3, ChainsFrame DEF TokensLeft
  <2> QED
    BY <2>1, <2>2
<1>3. CASE UserStep(r)
  <2>1. TokensLeft
    BY <1>3 DEF UserStep, InviteUser, CreateTenant, StoreLink, CommitTenant, Register, TokensLeft
  <2>2. Opens(r) \/ EndStep(r) \/ StoreLink(r)
    BY <1>3, OpensSteps, Moves DEF UserStep
  <2>3. \A q \in Request : Same(q)
    BY <2>2, SameSteps
  <2> QED
    BY <2>1, <2>3, ChainsFrame DEF TokensLeft
<1> QED
  BY <1>1, <1>2, <1>3

LEMMA NextChains == TypeOK /\ Places /\ Chains /\ [Next]_vars => Chains'
<1> SUFFICES ASSUME TypeOK, Places, Chains, [Next]_vars PROVE Chains'
  OBVIOUS
<1>1. CASE Rest \/ UNCHANGED vars
  <2>1. reqs' = reqs /\ TokensLeft
    BY <1>1 DEF Rest, SetupMfa, VerifyMfa, UpdateUserStatus, TokenExpires, LinkExpires, TokensLeft, vars
  <2>2. \A q \in Request : Same(q)
    BY <2>1 DEF Same, Extender, Running
  <2> QED
    BY <2>1, <2>2, ChainsFrame DEF TokensLeft
<1>2. CASE Crash
  <2>1. \A q \in Request : ~Running(q)'
    BY <1>2, CrashTypes
  <2>2. \A q \in Request : reqs'[q] = None => reqs[q] = None
    BY <1>2, Constants DEF Crash
  <2>3. TokensLeft
    BY <1>2 DEF Crash, TokensLeft
  <2>4. \A q \in Request : Same(q)
    BY <2>1, <2>2 DEF Same, Extender
  <2> QED
    BY <2>3, <2>4, ChainsFrame DEF TokensLeft
<1> QED
  BY <1>1, <1>2, Steps, ChainsRun

(***************************************************************************)
(* Links.                                                                  *)
(***************************************************************************)

\* A run between reading a link and dropping it.
Holder(q) ==
    Running(q) /\ reqs[q].op \in {"reset", "accept"} /\ reqs[q].pc \in {"write", "drop"}

\* A run whose link is not stored yet.
Before(q) == reqs[q] = None \/ At(q, "link")

NewLinks ==
    \A r \in Request : Before(r) =>
      /\ r \notin used
      /\ \A l \in links : l.id # r
      /\ \A q \in Request : Holder(q) => reqs[q].key # r

\* A link that was used and is still there is about to be dropped.
UsedLinks ==
    \A l \in links : l.id \in used =>
      l.id \in loose \/ \E q \in Request : Holder(q) /\ reqs[q].pc = "drop" /\ reqs[q].key = l.id

FirstWrites ==
    \A q \in Request : Holder(q) /\ reqs[q].pc = "write" /\ reqs[q].key \in used
                       => reqs[q].key \in loose

OneHolder ==
    \A p, q \in Request : Holder(p) /\ Holder(q) /\ reqs[p].key = reqs[q].key
                          => p = q \/ reqs[p].key \in loose

Leads == NewLinks /\ UsedLinks /\ FirstWrites /\ OneHolder /\ LinkWritesOnce

\* Most steps leave the holders of links alone.
Kept(q) ==
    /\ Before(q)' => Before(q)
    /\ Holder(q)' => Holder(q) /\ reqs'[q] = reqs[q]
    /\ Holder(q) => Holder(q)'

LEMMA LeadsFrame ==
    ASSUME Leads, links' \subseteq links, UNCHANGED <<used, twice, loose>>,
           \A q \in Request : Kept(q)
    PROVE  Leads'
<1> USE DEF Leads, Kept
<1>1. NewLinks'
  BY DEF NewLinks
<1>2. UsedLinks'
  BY DEF UsedLinks
<1>3. FirstWrites' /\ OneHolder'
  BY DEF FirstWrites, OneHolder
<1> QED
  BY <1>1, <1>2, <1>3 DEF LinkWritesOnce

\* A reset or an invitation stores its link.
LEMMA LeadsStore ==
    ASSUME Leads, NEW r \in Request, Before(r), ~Before(r)', Others(r), ~Holder(r), ~Holder(r)',
           UNCHANGED <<used, twice, loose>>,
           NEW l, l.id = r, links' = links \cup {l}
    PROVE  Leads'
<1> USE DEF Leads
<1>1. \A q \in Request \ {r} : /\ reqs'[q] = reqs[q] /\ (Holder(q)' <=> Holder(q))
                               /\ Before(q)' <=> Before(q)
  BY DEF Others, Holder, Before, At, Running
<1>2. r \notin used
  BY DEF NewLinks
<1>3. NewLinks'
  BY <1>1 DEF NewLinks
<1>4. UsedLinks'
  BY <1>1, <1>2 DEF UsedLinks
<1>5. FirstWrites' /\ OneHolder'
  BY <1>1 DEF FirstWrites, OneHolder
<1> QED
  BY <1>3, <1>4, <1>5 DEF LinkWritesOnce

\* A run takes up a link.
LEMMA LeadsUse ==
    ASSUME TypeOK, Places, Leads, NEW r \in Request, UseLink(r)
    PROVE  Leads'
<1>1. PICK l \in links, p \in Password :
             /\ BeginStep(r) /\ l \in Link
             /\ reqs'[r].op = l.kind /\ reqs'[r].pc = "write" /\ reqs'[r].key = l.id
             /\ loose' = IF \E q \in Request : /\ At(q, "write") \/ At(q, "drop")
                                               /\ reqs[q].key = l.id
                         THEN loose \cup {l.id} ELSE loose
  BY UseLinkBegins
<1>2. UNCHANGED <<links, used, twice>> /\ loose \subseteq loose'
  BY <1>1 DEF UseLink
<1>3. /\ Holder(r)' /\ ~Holder(r) /\ Before(r) /\ ~Before(r)'
      /\ \A q \in Request \ {r} : /\ reqs'[q] = reqs[q] /\ (Holder(q)' <=> Holder(q))
                                  /\ Before(q)' <=> Before(q)
  BY <1>1 DEF BeginStep, Holder, Before, At, Running, Link
<1>4. \A q \in Request : Holder(q) /\ reqs[q].key = l.id => l.id \in loose'
  BY <1>1 DEF Holder, At
<1> USE DEF Leads
<1>5. NewLinks'
  BY <1>1, <1>2, <1>3 DEF NewLinks
<1>6. UsedLinks'
  BY <1>2, <1>3 DEF UsedLinks
<1>7. l.id \in used => l.id \in loose'
  BY <1>2, <1>4 DEF UsedLinks
<1>8. FirstWrites'
  BY <1>1, <1>2, <1>3, <1>7 DEF FirstWrites
<1>9. OneHolder'
  BY <1>1, <1>2, <1>3, <1>4 DEF OneHolder
<1> QED
  BY <1>2, <1>5, <1>6, <1>8, <1>9 DEF LinkWritesOnce

\* A password is written for it.
LEMMA LeadsWrite ==
    ASSUME TypeOK, Leads, NEW r \in Request, MoveStep(r, "drop"), Spend(reqs[r].key),
           reqs[r].op \in {"reset", "accept"}, reqs[r].pc = "write", UNCHANGED <<links, loose>>
    PROVE  Leads'
<1>1. /\ Holder(r)' /\ Holder(r) /\ ~Before(r) /\ ~Before(r)'
      /\ reqs'[r].key = reqs[r].key /\ reqs'[r].pc = "drop"
      /\ \A q \in Request \ {r} : /\ reqs'[q] = reqs[q] /\ (Holder(q)' <=> Holder(q))
                                  /\ Before(q)' <=> Before(q)
  BY DEF MoveStep, Holder, Before, At, Running
<1>2. /\ used' = used \cup {reqs[r].key}
      /\ twice' = IF reqs[r].key \in used THEN twice \cup {reqs[r].key} ELSE twice
  BY DEF Spend
<1> USE DEF Leads
<1>3. NewLinks'
  BY <1>1, <1>2 DEF NewLinks
<1>4. UsedLinks'
  BY <1>1, <1>2 DEF UsedLinks
<1>5. FirstWrites'
  BY <1>1, <1>2 DEF FirstWrites, OneHolder
<1>6. OneHolder'
  BY <1>1 DEF OneHolder
<1>7. LinkWritesOnce'
  BY <1>1, <1>2 DEF LinkWritesOnce, FirstWrites
<1> QED
  BY <1>3, <1>4, <1>5, <1>6, <1>7

\* The link is dropped.
LEMMA LeadsDrop ==
    ASSUME TypeOK, Places, Leads, NEW r \in Request, DropLink(r)
    PROVE  Leads'
<1>1. /\ EndStep(r) \/ MoveStep(r, "issue")
      /\ Running(r) /\ reqs[r].pc = "drop"
  BY Moves
<1>2. /\ links' = {l \in links : l.id # reqs[r].key}
      /\ UNCHANGED <<used, twice, loose>>
  BY DEF DropLink
<1>3. /\ ~Holder(r)' /\ ~Before(r)'
      /\ \A q \in Request \ {r} : /\ reqs'[q] = reqs[q] /\ (Holder(q)' <=> Holder(q))
                                  /\ Before(q)' <=> Before(q)
  BY <1>1, Constants DEF EndStep, MoveStep, Holder, Before, At, Running
<1> USE DEF Leads
<1>4. NewLinks'
  BY <1>2, <1>3 DEF NewLinks
<1>5. UsedLinks'
  BY <1>2, <1>3 DEF UsedLinks
<1>6. FirstWrites' /\ OneHolder'
  BY <1>2, <1>3 DEF FirstWrites, OneHolder
<1> QED
  BY <1>2, <1>4, <1>5, <1>6 DEF LinkWritesOnce

LEMMA LeadsCrash ==
    ASSUME TypeOK, Leads, Crash
    PROVE  Leads'
<1>1. /\ \A q \in Request : ~Running(q)'
      /\ \A q \in Request : ~Holder(q)'
  BY CrashTypes DEF Holder
<1>2. \A q \in Request : Before(q)' => Before(q)
  BY <1>1, Constants DEF Crash, Before, At
<1>3. /\ UNCHANGED <<links, used, twice>> /\ loose \subseteq loose'
      /\ \A q \in Request : At(q, "drop") => reqs[q].key \in loose'
  BY DEF Crash
<1>4. \A q \in Request : Holder(q) /\ reqs[q].pc = "drop" => reqs[q].key \in loose'
  BY <1>3 DEF Holder, At
<1> USE DEF Leads
<1>5. NewLinks'
  BY <1>1, <1>2, <1>3 DEF NewLinks
<1>6. UsedLinks'
  BY <1>3, <1>4 DEF UsedLinks
<1>7. FirstWrites' /\ OneHolder'
  BY <1>1 DEF FirstWrites, OneHolder
<1> QED
  BY <1>3, <1>5, <1>6, <1>7 DEF LinkWritesOnce

LEMMA InitLeads == ASSUME Init PROVE Leads
<1>1. PICK u \in User, s \in Seed : links = {[id |-> s, user |-> u, kind |-> "reset"]}
  BY DEF Init
<1>2. used = {} /\ twice = {} /\ \A r \in Request : ~Holder(r)
  BY DEF Init, Holder, Running
<1>3. s \notin Request /\ \A l \in links : l.id = s
  BY <1>1, Constants
<1>4. NewLinks
  BY <1>2, <1>3 DEF NewLinks
<1> QED
  BY <1>2, <1>4 DEF Leads, UsedLinks, FirstWrites, OneHolder, LinkWritesOnce

LinksLeft == links' \subseteq links /\ UNCHANGED <<used, twice, loose>>

LEMMA KeptSteps ==
    ASSUME TypeOK, Places, NEW r \in Request
    PROVE  /\ Opens(r) \/ Refresh(r) \/ DeleteToken(r) \/ Issue(r) \/ EndSessions(r)
              \/ WriteChange(r) \/ CommitTenant(r) => \A q \in Request : Kept(q)
           /\ EndStep(r) /\ reqs[r] = None => \A q \in Request : Kept(q)
<1>1. ASSUME Others(r), ~Holder(r), ~Holder(r)', Before(r)' => Before(r)
      PROVE  \A q \in Request : Kept(q)
  BY <1>1 DEF Others, Kept, Holder, Before, At, Running
<1>2. ASSUME Opens(r) PROVE \A q \in Request : Kept(q)
  <2>1. Others(r) /\ reqs[r] = None
    BY <1>2 DEF Opens, BeginStep, Others
  <2>2. ~Holder(r) /\ ~Holder(r)' /\ Before(r)
    BY <1>2, <2>1 DEF Opens, Holder, Before, Running
  <2> QED
    BY <1>1, <2>1, <2>2
<1>3. ASSUME Refresh(r) PROVE \A q \in Request : Kept(q)
  <2>1. BeginStep(r) /\ reqs'[r].op = "refresh"
    BY <1>3, RefreshBegins
  <2> QED
    BY <1>1, <2>1 DEF BeginStep, Others, Holder, Before, Running
<1>4. ASSUME EndStep(r), ~Holder(r) PROVE \A q \in Request : Kept(q)
  <2>1. Others(r) /\ ~Holder(r)' /\ ~Before(r)'
    BY <1>4, Constants DEF EndStep, Others, Holder, Before, At, Running
  <2> QED
    BY <1>1, <1>4, <2>1
<1>5. ASSUME DeleteToken(r) PROVE \A q \in Request : Kept(q)
  <2>1. MoveStep(r, "issue") /\ reqs[r].op = "refresh"
    BY <1>5, Moves
  <2> QED
    BY <1>1, <2>1 DEF MoveStep, Others, Holder, Before, At, Running
<1>6. Issue(r) \/ EndSessions(r) \/ WriteChange(r) \/ CommitTenant(r) => EndStep(r) /\ ~Holder(r)
  BY Moves DEF Holder
<1>7. reqs[r] = None => ~Holder(r)
  BY DEF Holder, Running
<1> QED
  BY <1>2, <1>3, <1>4, <1>5, <1>6, <1>7

LEMMA LeadsRun ==
    ASSUME TypeOK, Places, Leads, NEW r \in Request,
           SessionStep(r) \/ PasswordStep(r) \/ UserStep(r)
    PROVE  Leads'
<1>1. CASE SessionStep(r)
  <2>1. LinksLeft
    BY <1>1 DEF SessionStep, Login, MfaChallenge, Issue, Refresh, DeleteToken, Logout, EndSessions,
                LinksLeft
  <2>2. \A q \in Request : Kept(q)
    BY <1>1, OpensSteps, KeptSteps DEF SessionStep
  <2> QED
    BY <2>1, <2>2, LeadsFrame DEF LinksLeft
<1>2. CASE ChangePassword(r) \/ WriteChange(r)
  <2>1. LinksLeft
    BY <1>2 DEF ChangePassword, WriteChange, LinksLeft
  <2>2. \A q \in Request : Kept(q)
    BY <1>2, OpensSteps, KeptSteps
  <2> QED
    BY <2>1, <2>2, LeadsFrame DEF LinksLeft
<1>3. CASE RequestReset(r)
  <2>1. PICK u \in User : links' = links \cup {[id |-> r, user |-> u, kind |-> "reset"]}
    BY <1>3 DEF RequestReset
  <2>2. EndStep(r) /\ reqs[r] = None
    BY <1>3, Moves
  <2>3. Before(r) /\ ~Before(r)' /\ Others(r) /\ ~Holder(r) /\ ~Holder(r)'
    BY <2>2, Constants DEF EndStep, Before, Holder, At, Running, Others
  <2>4. UNCHANGED <<used, twice, loose>>
    BY <1>3 DEF RequestReset
  <2>5. [id |-> r, user |-> u, kind |-> "reset"].id = r
    OBVIOUS
  <2> QED
    BY <2>1, <2>3, <2>4, <2>5, LeadsStore
<1>4. CASE WriteReset(r)
  <2>1. MoveStep(r, "drop") /\ reqs[r].op = "reset" /\ reqs[r].pc = "write"
    BY <1>4, Moves
  <2>2. Spend(reqs[r].key) /\ UNCHANGED <<links, loose>>
    BY <1>4 DEF WriteReset
  <2> QED
    BY <2>1, <2>2, LeadsWrite
<1>5. CASE WriteAccept(r)
  <2>1. Running(r) /\ reqs[r].op = "accept" /\ reqs[r].pc = "write" /\ UNCHANGED <<links, loose>>
    BY <1>5, Moves DEF WriteAccept
  <2>2. CASE Exists(reqs[r].user)
    <3>1. Spend(reqs[r].key) /\ GoTo(r, "drop")
      BY <1>5, <2>2 DEF WriteAccept
    <3>2. MoveStep(r, "drop")
      BY <2>1, <3>1, Goes DEF MoveStep, Pc
    <3> QED
      BY <2>1, <3>1, <3>2, LeadsWrite
  <2>3. CASE ~Exists(reqs[r].user)
    <3>1. End(r) /\ UNCHANGED <<used, twice>>
      BY <1>5, <2>3 DEF WriteAccept
    <3>2. EndStep(r)
      BY <3>1, Ends DEF EndStep
    <3>3. /\ ~Holder(r)' /\ ~Before(r)'
          /\ \A q \in Request \ {r} : /\ reqs'[q] = reqs[q] /\ (Holder(q)' <=> Holder(q))
                                      /\ Before(q)' <=> Before(q)
      BY <3>2, Constants DEF EndStep, Holder, Before, At, Running
    <3>4. NewLinks' /\ FirstWrites' /\ OneHolder' /\ LinkWritesOnce'
      BY <2>1, <3>1, <3>3 DEF Leads, NewLinks, FirstWrites, OneHolder, LinkWritesOnce
    <3>5. UsedLinks'
      BY <2>1, <3>1, <3>3 DEF Leads, UsedLinks
    <3> QED
      BY <3>4, <3>5 DEF Leads
  <2> QED
    BY <2>2, <2>3
<1>6. CASE InviteUser(r) \/ CreateTenant(r) \/ CommitTenant(r) \/ Register(r)
  <2>1. LinksLeft
    BY <1>6 DEF InviteUser, CreateTenant, CommitTenant, Register, LinksLeft
  <2>2. \A q \in Request : Kept(q)
    BY <1>6, OpensSteps, KeptSteps
  <2> QED
    BY <2>1, <2>2, LeadsFrame DEF LinksLeft
<1>7. CASE StoreLink(r)
  <2>1. links' = links \cup {[id |-> r, user |-> reqs[r].user, kind |-> "accept"]}
    BY <1>7 DEF StoreLink
  <2>2. EndStep(r) \/ (MoveStep(r, "commit") /\ reqs[r].op = "tenant")
    BY <1>7, Moves
  <2>3. Before(r) /\ ~Holder(r)
    BY <1>7 DEF StoreLink, Before, Holder, At
  <2>4. ~Before(r)' /\ Others(r) /\ ~Holder(r)'
    BY <2>2, Constants DEF EndStep, MoveStep, Before, Holder, At, Running, Others
  <2>5. UNCHANGED <<used, twice, loose>>
    BY <1>7 DEF StoreLink
  <2>6. [id |-> r, user |-> reqs[r].user, kind |-> "accept"].id = r
    OBVIOUS
  <2> QED
    BY <2>1, <2>3, <2>4, <2>5, <2>6, LeadsStore
<1> QED
  BY <1>1, <1>2, <1>3, <1>4, <1>5, <1>6, <1>7, LeadsUse, LeadsDrop DEF PasswordStep, UserStep

LEMMA NextLeads == TypeOK /\ Places /\ Leads /\ [Next]_vars => Leads'
<1> SUFFICES ASSUME TypeOK, Places, Leads, [Next]_vars PROVE Leads'
  OBVIOUS
<1>1. CASE Rest \/ UNCHANGED vars
  <2>1. reqs' = reqs /\ LinksLeft
    BY <1>1 DEF Rest, SetupMfa, VerifyMfa, UpdateUserStatus, TokenExpires, LinkExpires, LinksLeft, vars
  <2>2. \A q \in Request : Kept(q)
    BY <2>1 DEF Kept, Holder, Before, At, Running
  <2> QED
    BY <2>1, <2>2, LeadsFrame DEF LinksLeft
<1> QED
  BY <1>1, Steps, LeadsRun, LeadsCrash

(***************************************************************************)
(* Passwords.                                                              *)
(***************************************************************************)

\* A reset that nothing has overtaken still has a new password to write.
Checked ==
    \A r \in Request : At(r, "write") /\ reqs[r].op = "reset" /\ r \notin raced
                       => ~Contains(past[reqs[r].user], reqs[r].password)

\* A run that is at its write after a step and not raced was there before, and
\* the past of its user is as it was; or it is another kind of run.
Steady(q) ==
    At(q, "write")' /\ reqs'[q].op = "reset" /\ q \notin raced' =>
      /\ At(q, "write") /\ reqs'[q] = reqs[q] /\ q \notin raced
      /\ past'[reqs[q].user] = past[reqs[q].user]

LEMMA CheckedFrame ==
    ASSUME Checked, \A q \in Request : Steady(q)
    PROVE  Checked'
BY DEF Checked, Steady

\* A step that leaves the past alone and begins no reset.
LEMMA SteadyOthers ==
    ASSUME NEW r \in Request, Others(r), ~(At(r, "write")' /\ reqs'[r].op = "reset"),
           past' = past, raced' = raced
    PROVE  \A q \in Request : Steady(q)
BY DEF Others, Steady, At, Running

\* A step that writes a password.
LEMMA SteadyWrite ==
    ASSUME TypeOK, NEW r \in Request, Running(r), Others(r), ~At(r, "write")', SetPassword(r)
    PROVE  \A q \in Request : Steady(q)
<1> SUFFICES ASSUME NEW q \in Request, At(q, "write")', q \notin raced'
             PROVE  /\ At(q, "write") /\ reqs'[q] = reqs[q] /\ q \notin raced
                    /\ past'[reqs[q].user] = past[reqs[q].user]
  BY DEF Steady
<1>1. q # r
  OBVIOUS
<1>2. At(q, "write") /\ reqs'[q] = reqs[q]
  BY <1>1 DEF Others, At, Running
<1>3. q \notin raced /\ reqs[q].user # reqs[r].user
  BY <1>1, <1>2 DEF SetPassword
<1>4. reqs[q].user \in User /\ reqs[r].user \in User
  BY <1>2, RunType DEF At
<1>5. past' = [past EXCEPT ![reqs[r].user] = Remember(reqs[r].password, past[reqs[r].user])]
  BY DEF SetPassword
<1> QED
  BY <1>2, <1>3, <1>4, <1>5 DEF TypeOK

LEMMA CheckedUse ==
    ASSUME TypeOK, Places, Checked, NEW r \in Request, UseLink(r)
    PROVE  Checked'
<1>1. PICK l \in links, p \in Password :
        /\ BeginStep(r) /\ reqs'[r].op = l.kind /\ reqs'[r].user = l.user /\ reqs'[r].password = p
        /\ l.kind = "reset" => ~Contains(past[l.user], p)
  BY UseLinkBegins
<1>2. past' = past /\ raced' = raced
  BY DEF UseLink
<1>3. \A q \in Request \ {r} : reqs'[q] = reqs[q] /\ (At(q, "write")' <=> At(q, "write"))
  BY <1>1 DEF BeginStep, At, Running
<1>4. reqs'[r].op = "reset" => ~Contains(past'[reqs'[r].user], reqs'[r].password)
  BY <1>1, <1>2
<1> SUFFICES ASSUME NEW q \in Request, At(q, "write")', reqs'[q].op = "reset", q \notin raced'
             PROVE  ~Contains(past'[reqs'[q].user], reqs'[q].password)
  BY DEF Checked
<1>5. CASE q = r
  BY <1>4, <1>5
<1>6. CASE q # r
  BY <1>2, <1>3, <1>6 DEF Checked
<1> QED
  BY <1>5, <1>6

LEMMA CheckedRun ==
    ASSUME TypeOK, Places, Checked, NEW r \in Request,
           SessionStep(r) \/ PasswordStep(r) \/ UserStep(r)
    PROVE  Checked'
<1>1. ASSUME Opens(r) PROVE Others(r) /\ ~(At(r, "write")' /\ reqs'[r].op = "reset")
  BY <1>1 DEF Opens, BeginStep, Others, At
<1>2. ASSUME EndStep(r) PROVE Others(r) /\ ~At(r, "write")'
  BY <1>2 DEF EndStep, Others, At
<1>3. ASSUME NEW pc \in {"issue", "drop", "commit"}, MoveStep(r, pc)
      PROVE  Others(r) /\ ~At(r, "write")'
  BY <1>3 DEF MoveStep, Others, At
<1>4. CASE SessionStep(r)
  <2>1. past' = past /\ raced' = raced
    BY <1>4 DEF SessionStep, Login, MfaChallenge, Issue, Refresh, DeleteToken, Logout, EndSessions
  <2>2. Others(r) /\ ~(At(r, "write")' /\ reqs'[r].op = "reset")
    <3>1. CASE Refresh(r)
      <4>1. BeginStep(r) /\ reqs'[r].op = "refresh"
        BY <3>1, RefreshBegins
      <4> QED
        BY <4>1 DEF BeginStep, Others
    <3>2. CASE ~Refresh(r)
      BY <1>1, <1>2, <1>3, <1>4, <3>2, OpensSteps, Moves DEF SessionStep
    <3> QED
      BY <3>1, <3>2
  <2> QED
    BY <2>1, <2>2, SteadyOthers, CheckedFrame
<1>5. CASE ChangePassword(r) \/ RequestReset(r) \/ DropLink(r) \/ (WriteAccept(r) /\ ~Exists(reqs[r].user))
  <2>1. past' = past /\ raced' = raced
    BY <1>5 DEF ChangePassword, RequestReset, DropLink, WriteAccept
  <2>2. Others(r) /\ ~(At(r, "write")' /\ reqs'[r].op = "reset")
    BY <1>1, <1>2, <1>3, <1>5, OpensSteps, Moves
  <2> QED
    BY <2>1, <2>2, SteadyOthers, CheckedFrame
<1>6. CASE WriteChange(r) \/ WriteReset(r) \/ (WriteAccept(r) /\ Exists(reqs[r].user))
  <2>1. SetPassword(r) /\ Running(r)
    BY <1>6 DEF WriteChange, WriteReset, WriteAccept, At
  <2>2. Others(r) /\ ~At(r, "write")'
    BY <1>2, <1>3, <1>6, Moves
  <2> QED
    BY <2>1, <2>2, SteadyWrite, CheckedFrame
<1>7. CASE InviteUser(r) \/ CreateTenant(r) \/ StoreLink(r) \/ CommitTenant(r)
  <2>1. past' = past /\ raced' = raced
    BY <1>7 DEF InviteUser, CreateTenant, StoreLink, CommitTenant
  <2>2. Others(r) /\ ~(At(r, "write")' /\ reqs'[r].op = "reset")
    BY <1>1, <1>2, <1>3, <1>7, OpensSteps, Moves
  <2> QED
    BY <2>1, <2>2, SteadyOthers, CheckedFrame
<1>8. CASE Register(r)
  <2>1. PICK u \in User, p \in Password :
          Fresh(u) /\ past' = [past EXCEPT ![u] = Remember(p, <<>>)]
    BY <1>8 DEF Register
  <2>2. raced' = raced
    BY <1>8 DEF Register
  <2>3. Others(r) /\ ~(At(r, "write")' /\ reqs'[r].op = "reset")
    BY <1>1, <1>8, OpensSteps
  <2>4. \A q \in Request : Steady(q)
    <3> SUFFICES ASSUME NEW q \in Request, At(q, "write")', reqs'[q].op = "reset", q \notin raced'
                 PROVE  /\ At(q, "write") /\ reqs'[q] = reqs[q] /\ q \notin raced
                        /\ past'[reqs[q].user] = past[reqs[q].user]
      BY DEF Steady
    <3>1. q # r
      BY <2>3
    <3>2. At(q, "write") /\ reqs'[q] = reqs[q] /\ Running(q)
      BY <2>3, <3>1 DEF Others, At, Running
    <3>3. reqs[q].user # u /\ reqs[q].user \in User
      BY <2>1, <3>2, RunType DEF Fresh
    <3> QED
      BY <2>1, <2>2, <3>2, <3>3 DEF TypeOK
  <2> QED
    BY <2>4, CheckedFrame
<1> QED
  BY <1>4, <1>5, <1>6, <1>7, <1>8, CheckedUse DEF PasswordStep, UserStep

LEMMA NextChecked == TypeOK /\ Places /\ Checked /\ [Next]_vars => Checked'
<1> SUFFICES ASSUME TypeOK, Places, Checked, [Next]_vars PROVE Checked'
  OBVIOUS
<1>1. CASE Rest \/ UNCHANGED vars
  <2>1. reqs' = reqs /\ past' = past /\ raced' = raced
    BY <1>1 DEF Rest, SetupMfa, VerifyMfa, UpdateUserStatus, TokenExpires, LinkExpires, vars
  <2> QED
    BY <2>1 DEF Checked, At, Running
<1>2. CASE Crash
  BY <1>2, CrashTypes DEF Checked, At
<1> QED
  BY <1>1, <1>2, Steps, CheckedRun

(***************************************************************************)
(* The theorems.                                                           *)
(***************************************************************************)
IInv == TypeOK /\ Places /\ Chains /\ Leads /\ Checked

LEMMA InitIInv == Init => IInv
<1>1. Init => Checked
  BY DEF Init, Checked, At, Running
<1> QED
  BY <1>1, InitTypes, InitChains, InitLeads DEF IInv

LEMMA NextIInv == IInv /\ [Next]_vars => IInv'
BY NextTypes, NextChains, NextLeads, NextChecked DEF IInv

LEMMA AlwaysIInv == Spec => []IInv
BY InitIInv, NextIInv, PTL DEF Spec

\* Users, tokens, links and runs keep their types, and no user has more old
\* passwords remembered than a reset looks at.
THEOREM TypeCorrect == Spec => []TypeOK
<1>1. IInv => TypeOK
  BY DEF IInv
<1> QED
  BY <1>1, AlwaysIInv, PTL

\* After a logout or a password reset, whatever sign-ins and refreshes run
\* beside it, the only refresh tokens of its sessions that are there are those of
\* runs that were extending a session at that moment.
THEOREM EndedSessionsStayEnded == Spec => []SessionsEnd
<1>1. IInv => SessionsEnd
  BY DEF IInv, Chains
<1> QED
  BY <1>1, AlwaysIInv, PTL

\* Rotation keeps one refresh token to a session, through any number of
\* refreshes, expiries and restarts, unless two refreshes of one token overlapped.
THEOREM RotationKeepsOneToken == Spec => []OneTokenPerSession
<1>1. IInv => OneTokenPerSession
  BY DEF IInv, Chains
<1> QED
  BY <1>1, AlwaysIInv, PTL

\* A reset or invitation link writes one password, unless two uses of it
\* overlapped or the process died before the link was dropped.
THEOREM LinksWriteOnce == Spec => []LinkWritesOnce
<1>1. IInv => LinkWritesOnce
  BY DEF IInv, Leads
<1> QED
  BY <1>1, AlwaysIInv, PTL

\* A reset writes a password that is not among the recent ones at the moment of
\* the write, unless another write of that user's password came in between.
THEOREM ResetsAreNew == Spec => ResetIsNew
<1>1. IInv => \A r \in Request \ raced :
                At(r, "write") /\ reqs[r].op = "reset" /\ At(r, "drop")'
                => ~Contains(past[reqs[r].user], reqs[r].password)
  BY DEF IInv, Checked
<1> QED
  BY <1>1, AlwaysIInv, PTL DEF ResetIsNew
=============================================================================
