------------------------------ MODULE Sessions ------------------------------
(***************************************************************************)
(* Sign-in, refresh, logout, password reset and invitation (modules/auth,  *)
(* and the handlers of modules/tenants and modules/admin that invite).     *)
(* Each handler is a run with its reads and writes as separate steps.      *)
(* A refresh token, an access token and a one-time link are named by the   *)
(* run that issued them.  A session is the chain of refresh tokens that    *)
(* starts with one sign-in.  An access token is there until it is blocked; *)
(* one that has expired is one nobody uses again, and so is a temporary    *)
(* token.  Cached permissions are in Roles.                                *)
(*                                                                         *)
(* Definitions that are not used are wrong variants of the ones that       *)
(* follow (see Payments).                                                  *)
(***************************************************************************)
EXTENDS Naturals, Sequences, SequencesExt

CONSTANTS
    Request,   \* handler runs, each used once
    Seed,      \* tokens and links issued before
    User, Password,
    Recent,    \* how many old passwords a reset compares with
    None, Over

VARIABLES
    status, password, past, mfa, \* table users, user_password_history
    refresh,   \* table refresh_tokens
    links,     \* redis pwreset:* and invite:*
    access,    \* access tokens that are not blocked
    temp,      \* users with a temporary token of an MFA challenge
    reqs,
    \* history:
    ended,     \* sessions that a logout or a reset was to end
    overtaken, \* those of them a run was about to extend just then
    forked,    \* sessions of which one token was refreshed twice at once
    used,      \* links that a password was written for
    twice,     \* and once more
    loose,     \* links in use by two runs at once, or by one that died
    raced      \* runs that another password write came before

users == <<status, password, past, mfa>>
tokens == <<refresh, access, temp>>
history == <<ended, overtaken, forked, used, twice, loose, raced>>
vars == <<users, tokens, links, reqs, history>>

Id == Request \cup Seed

\* addPasswordHistory, as far back as getPasswordHistory looks.
Remember(p, old) ==
    LET all == <<p>> \o old
    IN  SubSeq(all, 1, IF Len(all) < Recent THEN Len(all) ELSE Recent)

Status == {"invited", "active", "stopped", "void"}
Token  == [id: Id, user: User, session: Id]
Link   == [id: Id, user: User, kind: {"reset", "accept"}]
Access == [id: Id, user: User]
Op == {"login", "refresh", "logout", "reset", "accept", "change", "invite", "tenant"}
Pc == {"issue", "delete", "end", "write", "drop", "link", "commit"}
Run == [op: Op, pc: Pc, user: User, key: Id, session: Id,
        password: Password \cup {None}]

ASSUME SessionsAssumption ==
    /\ Recent \in Nat /\ Request \cap Seed = {} /\ None \notin Password
    /\ None # Over /\ None \notin Run /\ Over \notin Run

TypeOK ==
    /\ status \in [User -> Status \cup {None}]
    /\ password \in [User -> Password \cup {None}]
    /\ past \in [User -> Seq(Password)] /\ \A u \in User : Len(past[u]) <= Recent
    /\ mfa \in [User -> {"off", "setup", "on"}]
    /\ refresh \subseteq Token /\ links \subseteq Link
    /\ access \subseteq Access /\ temp \subseteq User
    /\ reqs \in [Request -> Run \cup {None, Over}]
    /\ ended \subseteq Id /\ overtaken \subseteq Id /\ forked \subseteq Id
    /\ used \subseteq Id /\ twice \subseteq Id /\ loose \subseteq Id
    /\ raced \subseteq Request

\* One user has signed in and asked for a reset link, the others are to come.
Init ==
    /\ \E u \in User, p \in Password, s \in Seed :
         /\ status = [v \in User |-> IF v = u THEN "active" ELSE None]
         /\ password = [v \in User |-> IF v = u THEN p ELSE None]
         /\ past = [v \in User |-> IF v = u THEN Remember(p, <<>>) ELSE <<>>]
         /\ refresh = {[id |-> s, user |-> u, session |-> s]}
         /\ access = {[id |-> s, user |-> u]}
         /\ links = {[id |-> s, user |-> u, kind |-> "reset"]}
    /\ mfa = [u \in User |-> "off"]
    /\ temp = {}
    /\ reqs = [r \in Request |-> None]
    /\ ended = {} /\ overtaken = {} /\ forked = {} /\ used = {}
    /\ twice = {} /\ loose = {} /\ raced = {}

----------------------------------------------------------------------------
Running(r) == reqs[r] \notin {None, Over}

At(r, pc) == Running(r) /\ reqs[r].pc = pc

GoTo(r, pc) == reqs' = [reqs EXCEPT ![r].pc = pc]

End(r) == reqs' = [reqs EXCEPT ![r] = Over]

Begin(r, op, pc, u, key, session, p) ==
    /\ reqs[r] = None
    /\ reqs' = [reqs EXCEPT ![r] = [op |-> op, pc |-> pc, user |-> u, key |-> key,
                                    session |-> session, password |-> p]]

Exists(u) == status[u] \notin {None, "void"}

----------------------------------------------------------------------------
(* Sessions.                                                               *)

\* login: the right password of an active user.  With MFA and without a code
\* the answer is a temporary token.
Login(r) ==
    \E u \in User :
      /\ status[u] = "active" /\ password[u] # None
      /\ \/ /\ Begin(r, "login", "issue", u, r, r, None)
            /\ UNCHANGED temp
         \/ /\ mfa[u] = "on" /\ reqs[r] = None
            /\ temp' = temp \cup {u}
            /\ End(r)
      /\ UNCHANGED <<users, refresh, access, links, history>>

MfaChallenge(r) ==
    /\ \E u \in temp : Exists(u) /\ Begin(r, "login", "issue", u, r, r, None)
    /\ UNCHANGED <<users, tokens, links, history>>

\* setupMfa, verifyMfa.
SetupMfa(u) ==
    /\ \E a \in access : a.user = u
    /\ mfa' = [mfa EXCEPT ![u] = IF @ = "on" THEN "on" ELSE "setup"]
    /\ UNCHANGED <<status, password, past, tokens, links, reqs, history>>

VerifyMfa(u) ==
    /\ \E a \in access : a.user = u
    /\ mfa[u] = "setup"
    /\ mfa' = [mfa EXCEPT ![u] = "on"]
    /\ UNCHANGED <<status, password, past, tokens, links, reqs, history>>

\* issueAccessToken, issueRefreshToken.
Issue(r) ==
    /\ At(r, "issue")
    /\ LET q == reqs[r] IN
         /\ refresh' = refresh \cup {[id |-> r, user |-> q.user, session |-> q.session]}
         /\ access' = access \cup {[id |-> r, user |-> q.user]}
    /\ End(r)
    /\ UNCHANGED <<users, temp, links, history>>

\* findRefreshToken; a second run may have found the same row.
Refresh(r) ==
    \E t \in refresh :
      /\ Begin(r, "refresh", "delete", t.user, t.id, t.session, None)
      /\ forked' = IF \E q \in Request : At(q, "delete") /\ reqs[q].key = t.id
                   THEN forked \cup {t.session} ELSE forked
      /\ UNCHANGED <<users, tokens, links, ended, overtaken, used, twice, loose, raced>>

KeepToken(r) ==
    /\ At(r, "delete")
    /\ GoTo(r, "issue")
    /\ UNCHANGED <<users, tokens, links, history>>
DeleteToken(r) ==
    /\ At(r, "delete")
    /\ refresh' = {t \in refresh : t.id # reqs[r].key}
    /\ GoTo(r, "issue")
    /\ UNCHANGED <<users, access, temp, links, history>>

\* expires_at, jwtRefreshTtlDays later.
TokenExpires(t) ==
    /\ refresh' = refresh \ {t}
    /\ UNCHANGED <<users, access, temp, links, reqs, history>>

\* Runs that will issue a token to user u.
Extending(u) == {q \in Request : /\ Running(q) /\ reqs[q].user = u
                                 /\ reqs[q].op \in {"login", "refresh", "accept"}}

\* deleteUserRefreshTokens.
DeleteSessions(u) ==
    LET late == {reqs[q].session : q \in Extending(u)} IN
    /\ refresh' = {t \in refresh : t.user # u}
    /\ ended' = ended \cup late \cup {t.session : t \in {t \in refresh : t.user = u}}
    /\ overtaken' = overtaken \cup late

\* The blocklist keeps an access token out as long as it would have lived.
Logout(r) ==
    \E a \in access :
      /\ Begin(r, "logout", "end", a.user, a.id, r, None)
      /\ access' = access \ {a}
      /\ UNCHANGED <<users, refresh, temp, links, history>>

EndSessions(r) ==
    /\ At(r, "end")
    /\ DeleteSessions(reqs[r].user)
    /\ End(r)
    /\ UNCHANGED <<users, access, temp, links, forked, used, twice, loose, raced>>

----------------------------------------------------------------------------
(* Passwords and links.                                                    *)

\* A password is written; runs about to write one for the same user are late.
SetPassword(r) ==
    LET u == reqs[r].user IN
    /\ password' = [password EXCEPT ![u] = reqs[r].password]
    /\ past' = [past EXCEPT ![u] = Remember(reqs[r].password, @)]
    /\ raced' = raced \cup {q \in Request \ {r} : At(q, "write") /\ reqs[q].user = u}

\* changePassword: no comparison with old passwords, and the sessions stay.
ChangePassword(r) ==
    /\ \E a \in access, p \in Password :
         /\ password[a.user] # None
         /\ Begin(r, "change", "write", a.user, r, r, p)
    /\ UNCHANGED <<users, tokens, links, history>>

WriteChange(r) ==
    /\ At(r, "write") /\ reqs[r].op = "change"
    /\ SetPassword(r)
    /\ End(r)
    /\ UNCHANGED <<status, mfa, tokens, links, ended, overtaken, forked, used, twice, loose>>

\* passwordResetRequest.
RequestReset(r) ==
    /\ reqs[r] = None
    /\ \E u \in User :
         /\ Exists(u)
         /\ links' = links \cup {[id |-> r, user |-> u, kind |-> "reset"]}
    /\ End(r)
    /\ UNCHANGED <<users, tokens, history>>

LinkExpires(l) ==
    /\ links' = links \ {l}
    /\ UNCHANGED <<users, tokens, reqs, history>>

\* passwordReset and acceptInvite read the link; a reset refuses old passwords.
UseLinkUnchecked(r) ==
    \E l \in links, p \in Password :
      /\ l.kind = "reset" => Exists(l.user)
      /\ Begin(r, l.kind, "write", l.user, l.id, r, p)
      /\ loose' = IF \E q \in Request : /\ At(q, "write") \/ At(q, "drop")
                                        /\ reqs[q].key = l.id
                  THEN loose \cup {l.id} ELSE loose
      /\ UNCHANGED <<users, tokens, links, ended, overtaken, forked, used, twice, raced>>
UseLink(r) ==
    \E l \in links, p \in Password :
      /\ l.kind = "reset" => Exists(l.user) /\ ~Contains(past[l.user], p)
      /\ Begin(r, l.kind, "write", l.user, l.id, r, p)
      /\ loose' = IF \E q \in Request : /\ At(q, "write") \/ At(q, "drop")
                                        /\ reqs[q].key = l.id
                  THEN loose \cup {l.id} ELSE loose
      /\ UNCHANGED <<users, tokens, links, ended, overtaken, forked, used, twice, raced>>

Spend(l) ==
    /\ used' = used \cup {l}
    /\ twice' = IF l \in used THEN twice \cup {l} ELSE twice

ResetKeepsSessions(r) ==
    /\ At(r, "write") /\ reqs[r].op = "reset"
    /\ SetPassword(r)
    /\ ended' = ended \cup {t.session : t \in {t \in refresh : t.user = reqs[r].user}}
    /\ Spend(reqs[r].key)
    /\ GoTo(r, "drop")
    /\ UNCHANGED <<status, mfa, refresh, access, temp, links, overtaken, forked, loose>>
WriteReset(r) ==
    /\ At(r, "write") /\ reqs[r].op = "reset"
    /\ SetPassword(r)
    /\ DeleteSessions(reqs[r].user)
    /\ Spend(reqs[r].key)
    /\ GoTo(r, "drop")
    /\ UNCHANGED <<status, mfa, access, temp, links, forked, loose>>

\* The user of a link whose tenant was rolled back is not there: the insert
\* into user_password_history fails on its foreign key.
WriteAccept(r) ==
    /\ At(r, "write") /\ reqs[r].op = "accept"
    /\ IF Exists(reqs[r].user)
       THEN /\ SetPassword(r)
            /\ status' = [status EXCEPT ![reqs[r].user] = "active"]
            /\ Spend(reqs[r].key)
            /\ GoTo(r, "drop")
       ELSE /\ End(r)
            /\ UNCHANGED <<password, past, status, raced, used, twice>>
    /\ UNCHANGED <<mfa, tokens, links, ended, overtaken, forked, loose>>

LeaveLink(r) ==
    /\ At(r, "drop")
    /\ IF reqs[r].op = "accept" THEN GoTo(r, "issue") ELSE End(r)
    /\ UNCHANGED <<users, tokens, links, history>>
DropLink(r) ==
    /\ At(r, "drop")
    /\ links' = {l \in links : l.id # reqs[r].key}
    /\ IF reqs[r].op = "accept" THEN GoTo(r, "issue") ELSE End(r)
    /\ UNCHANGED <<users, tokens, history>>

----------------------------------------------------------------------------
(* Users.                                                                  *)

Fresh(u) == status[u] = None /\ \A q \in Request : Running(q) => reqs[q].user # u

\* inviteUser and createSubClient insert the user and then store the link.
InviteUser(r) ==
    /\ \E u \in User :
         /\ Fresh(u)
         /\ status' = [status EXCEPT ![u] = "invited"]
         /\ Begin(r, "invite", "link", u, r, r, None)
    /\ UNCHANGED <<password, past, mfa, tokens, links, history>>

\* createTenant stores it before its transaction commits.
CreateTenant(r) ==
    /\ \E u \in User : Fresh(u) /\ Begin(r, "tenant", "link", u, r, r, None)
    /\ UNCHANGED <<users, tokens, links, history>>

StoreLink(r) ==
    /\ At(r, "link")
    /\ links' = links \cup {[id |-> r, user |-> reqs[r].user, kind |-> "accept"]}
    /\ IF reqs[r].op = "tenant" THEN GoTo(r, "commit") ELSE End(r)
    /\ UNCHANGED <<users, tokens, history>>

CommitTenant(r) ==
    /\ At(r, "commit")
    /\ \E s \in {"invited", "void"} : status' = [status EXCEPT ![reqs[r].user] = s]
    /\ End(r)
    /\ UNCHANGED <<password, past, mfa, tokens, links, history>>

Register(r) ==
    /\ \E u \in User, p \in Password :
         /\ Fresh(u)
         /\ status' = [status EXCEPT ![u] = "active"]
         /\ password' = [password EXCEPT ![u] = p]
         /\ past' = [past EXCEPT ![u] = Remember(p, <<>>)]
         /\ Begin(r, "login", "issue", u, r, r, None)
    /\ UNCHANGED <<mfa, tokens, links, history>>

\* An administrator; the sessions of the user are left alone.
UpdateUserStatus(u) ==
    /\ Exists(u)
    /\ \E s \in {"active", "stopped"} : status' = [status EXCEPT ![u] = s]
    /\ UNCHANGED <<password, past, mfa, tokens, links, reqs, history>>

\* The process restarts: runs are lost, a tenant that was not committed too.
Crash ==
    /\ \E r \in Request : Running(r)
    /\ status' = [u \in User |->
         IF \E r \in Request : Running(r) /\ reqs[r].op = "tenant" /\ reqs[r].user = u
         THEN "void" ELSE status[u]]
    /\ loose' = loose \cup {reqs[r].key : r \in {r \in Request : At(r, "drop")}}
    /\ reqs' = [r \in Request |-> IF Running(r) THEN Over ELSE reqs[r]]
    /\ UNCHANGED <<password, past, mfa, tokens, links, ended, overtaken, forked,
                   used, twice, raced>>

Next ==
    \/ \E r \in Request :
         \/ Login(r) \/ MfaChallenge(r) \/ Issue(r) \/ Refresh(r) \/ DeleteToken(r)
         \/ Logout(r) \/ EndSessions(r) \/ ChangePassword(r) \/ WriteChange(r)
         \/ RequestReset(r) \/ UseLink(r) \/ WriteReset(r) \/ WriteAccept(r)
         \/ DropLink(r) \/ InviteUser(r) \/ CreateTenant(r) \/ StoreLink(r)
         \/ CommitTenant(r) \/ Register(r)
    \/ \E u \in User : \/ SetupMfa(u) \/ VerifyMfa(u)
                       \/ UpdateUserStatus(u)
    \/ \E t \in refresh : TokenExpires(t)
    \/ \E l \in links : LinkExpires(l)
    \/ Crash

Spec == Init /\ [][Next]_vars

----------------------------------------------------------------------------
(* Properties.                                                             *)

\* No session outlives a logout or a password reset, whatever sign-ins and
\* refreshes come around it, except one that a run was extending just then.
SessionsEnd == \A t \in refresh : t.session \in ended => t.session \in overtaken

\* Rotation: a session has one refresh token at most, through any number of
\* refreshes and restarts, unless two refreshes of one token overlapped.
OneTokenPerSession ==
    \A s, t \in refresh : s.session = t.session => s = t \/ s.session \in forked

\* A reset or invitation link writes one password, unless two uses of it
\* overlapped or the process died before the link was dropped.
LinkWritesOnce == twice \subseteq loose

\* A reset never brings back one of the recent passwords, although it compares
\* them long before it writes, unless another password was written in between.
ResetIsNew ==
    [][\A r \in Request \ raced :
         At(r, "write") /\ reqs[r].op = "reset" /\ At(r, "drop")'
         => ~Contains(past[reqs[r].user], reqs[r].password)]_vars
=============================================================================
