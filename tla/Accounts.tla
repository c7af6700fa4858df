------------------------------ MODULE Accounts ------------------------------
(* Accounts, logins and sessions: the routes of api/v1/auth.py and         *)
(* api/v1/account.py over services/auth_service.py, verification codes,    *)
(* refresh tokens and the bridge for users of the Core service.            *)
(*                                                                         *)
(* A request reads its rows, and later writes and commits; between the two *)
(* other requests may commit.  From its first flush on it holds the locks  *)
(* of the rows it has written, so writing and committing is one step.  A   *)
(* request that is refused changes nothing, unless an action says so.      *)
EXTENDS Verification, Sessions

CONSTANTS Workers, CoreUsers, Passwords,
          CoreEmail,           \* the e-mail of each Core user
          BridgeTries,         \* 5 in the code
          MaxClock, MaxRequests

VARIABLES user, txn,
          requests, overlapped,             \* bound; did two requests overlap?
          chosen, resets, accepted, wrong   \* history, see the properties

accounts == <<user, chosen, resets>>
codes == <<code, accepted, wrong>>
vars == <<code, now, token, user, txn, requests, overlapped, chosen, resets, accepted, wrong>>

NoPw == "none"
CoreBridge == "!core-bridge!"
NoId == "unbound"

ASSUME AccountAssumption ==
    /\ IsFiniteSet(Workers)
    /\ CoreUsers \subseteq Users
    /\ CoreEmail \in [CoreUsers -> Emails]
    /\ Ids # {} /\ NoId \notin Ids
    /\ Passwords # {} /\ {NoPw, CoreBridge} \cap Passwords = {}
    /\ {BridgeTries, MaxClock, MaxRequests} \subseteq Nat

(* org, plan: the rows that a registration creates with the user.          *)
Account == [row : BOOLEAN, phone : Phones \cup {NoId}, email : Emails \cup {NoId},
            pw : Passwords \cup {NoPw, CoreBridge}, bcrypt : BOOLEAN,
            org : BOOLEAN, plan : BOOLEAN]
NoAccount == [row |-> FALSE, phone |-> NoId, email |-> NoId, pw |-> NoPw, bcrypt |-> FALSE,
              org |-> FALSE, plan |-> FALSE]

Steps == {"idle", "send", "code", "login", "refresh", "reset", "change", "bind", "unbind",
          "register", "org", "bridge"}
(* row: the users row as this session loaded it, or has built it so far.   *)
Txn == [pc : Steps, for : Purposes, id : Ids \cup {NoId}, code : Codes \cup {NoCode},
        user : Users \cup {NoUser}, row : Account, pw : Passwords \cup {NoPw},
        token : Tokens \cup {NoToken}, resets : Nat, tries : Nat]
NoTxn == [pc |-> "idle", for |-> "login", id |-> NoId, code |-> NoCode, user |-> NoUser,
          row |-> NoAccount, pw |-> NoPw, token |-> NoToken, resets |-> 0, tries |-> 0]

Idle(w) == txn[w].pc = "idle"
Exists(u) == user[u].row
Identities(row) == {row.phone, row.email} \ {NoId}
OwnersOf(id) == {u \in Users : Exists(u) /\ id \in Identities(user[u])}
(* An access token is good while its user exists, whatever was revoked.    *)
CurrentUser(u) == Exists(u)

(* Fault: whatever is bound is taken for an e-mail address.               *)
BindEmail(row, id) == [row EXCEPT !.email = id]
Bind(row, id) == IF id \in Phones THEN [row EXCEPT !.phone = id] ELSE [row EXCEPT !.email = id]

(* An account registered here before passwords were hashed with argon2.    *)
OldAccount(id) == [Bind(NoAccount, id) EXCEPT !.row = TRUE, !.pw = CHOOSE p \in Passwords : TRUE,
                                              !.bcrypt = TRUE, !.org = TRUE, !.plan = TRUE]

Init ==
    /\ code = [c \in Codes |-> [st |-> "none", id |-> CHOOSE i \in Ids : TRUE,
                                purpose |-> "login", at |-> 0, tries |-> 0]]
    /\ token = [t \in Tokens |-> Unissued]
    /\ user \in {[u \in Users |-> NoAccount]}
            \cup {[v \in Users |-> IF v = u THEN OldAccount(id) ELSE NoAccount] :
                      u \in Users \ CoreUsers, id \in Emails}
    /\ txn = [w \in Workers |-> NoTxn]
    /\ now = 0 /\ requests = 0 /\ overlapped = FALSE
    /\ chosen = [u \in Users |-> user[u].pw]
    /\ resets = [u \in Users |-> 0]
    /\ accepted = [c \in Codes |-> 0] /\ wrong = [c \in Codes |-> 0]
-----------------------------------------------------------------------------
(* One more request; does it overlap another one?                          *)
Arrive ==
    /\ requests' = requests + 1
    /\ overlapped' = (overlapped \/ \E v \in Workers : ~Idle(v))

Enter(w, t) == Arrive /\ txn' = [txn EXCEPT ![w] = t]
Go(w, t) == txn' = [txn EXCEPT ![w] = t] /\ UNCHANGED <<requests, overlapped>>
Leave(w) == Go(w, NoTxn)
(* A request that reads and writes without giving way to another one.      *)
AtOnce == Arrive /\ UNCHANGED txn

(* --- codes ------------------------------------------------------------- *)

(* send_code: the limits are counted, ...                                  *)
SendCode(w, id, purpose) ==
    /\ SendAllowed(id, purpose)
    /\ Enter(w, [NoTxn EXCEPT !.pc = "send", !.id = id, !.for = purpose])
    /\ UNCHANGED <<codes, token, accounts, now>>

SmsSend(w, id, purpose) == id \in Phones /\ SendCode(w, id, purpose)
EmailSend(w, id, purpose) == id \in Emails /\ SendCode(w, id, purpose)
PasswordForgot(w, id) ==
    id \in Emails /\ (\E u \in OwnersOf(id) : user[u].pw # NoPw) /\ SendCode(w, id, "reset")

(* ... the row is flushed, the code delivered, and only then committed: a  *)
(* delivery that fails, or a crash after it (Abort), leaves no row.        *)
SendCommit(w) ==
    /\ txn[w].pc = "send"
    /\ \E c \in Unwritten : code' = [code EXCEPT ![c] = NewRow(txn[w].id, txn[w].for)]
    /\ Leave(w)
    /\ UNCHANGED <<accepted, wrong, token, accounts, now>>

(* verify, when the code is wrong, late or locked out: an exception.       *)
RefuseCode(w, id, purpose) ==
    \E c \in Newest(id, purpose) :
        /\ AtOnce
        /\ code' = [code EXCEPT ![c] = AfterException(code[c], Flushed(c))]
        /\ wrong' = [wrong EXCEPT ![c] = @ + 1]
        /\ UNCHANGED <<accepted, token, accounts, now>>

(* verify, when the code is right: its row is loaded; what the request is  *)
(* about comes with it.                                                    *)
EnterCode(w, t) ==
    \E c \in Newest(t.id, t.for) :
        /\ ~Expired(c) /\ ~Locked(c)
        /\ Enter(w, [t EXCEPT !.pc = "code", !.code = c])
        /\ UNCHANGED <<codes, token, accounts, now>>

(* used_at is flushed, which waits for another request that has flushed it *)
(* and does not look whether that one has used the code.                   *)
CodeFlushed(w) ==
    /\ txn[w].pc = "code"
    /\ \A v \in Workers \ {w} :
        txn[v].pc \in {"login", "reset", "bind"} => txn[v].code # txn[w].code

(* Only now is the user of the request read.                               *)
LoadUser(w, u) ==
    /\ Go(w, [txn[w] EXCEPT !.pc = txn[w].for, !.user = u, !.row = user[u], !.resets = resets[u]])
    /\ UNCHANGED <<codes, token, accounts, now>>

(* Fault: the code stays unused.                                          *)
CodeKept(c) ==
    IF c = NoCode THEN UNCHANGED codes
    ELSE accepted' = [accepted EXCEPT ![c] = @ + 1] /\ UNCHANGED <<code, wrong>>
UseCode(c) ==
    IF c = NoCode THEN UNCHANGED codes
    ELSE /\ code' = [code EXCEPT ![c].st = "used"]
         /\ accepted' = [accepted EXCEPT ![c] = @ + 1]
         /\ UNCHANGED wrong
-----------------------------------------------------------------------------
(* --- logins ------------------------------------------------------------ *)

(* The account with this identity and this password.                       *)
Authenticated(id, pw) == {u \in OwnersOf(id) : user[u].pw = pw}

LoginPassword(w, id, pw) ==
    \E u \in Authenticated(id, pw) :
        /\ Enter(w, [NoTxn EXCEPT !.pc = "login", !.id = id, !.user = u, !.row = user[u],
                                  !.pw = pw, !.resets = resets[u]])
        /\ UNCHANGED <<codes, token, accounts, now>>
LoginPhone(w, id, pw) == id \in Phones /\ LoginPassword(w, id, pw)

LoginVerification(w, id) == EnterCode(w, [NoTxn EXCEPT !.id = id, !.for = "login"])

(* login_or_register_by_identity: whose identity is it, if anybody's?      *)
LoginKnown(w) ==
    /\ txn[w].for = "login" /\ CodeFlushed(w)
    /\ \E u \in OwnersOf(txn[w].id) : LoadUser(w, u)
LoginUnknown(w) ==
    /\ txn[w].for = "login" /\ CodeFlushed(w)
    /\ OwnersOf(txn[w].id) = {}
    /\ Go(w, [txn[w] EXCEPT !.pc = "register"])
    /\ UNCHANGED <<codes, token, accounts, now>>

(* Fault: renewed without a password too.                                 *)
RehashAlways(row, loaded, pw) ==
    IF loaded.bcrypt THEN [row EXCEPT !.pw = pw, !.bcrypt = FALSE] ELSE row

(* opportunistic_rehash: the password just typed, hashed anew.             *)
Rehash(row, loaded, pw) ==
    IF loaded.bcrypt /\ pw # NoPw THEN [row EXCEPT !.pw = pw, !.bcrypt = FALSE] ELSE row

(* A login into an account that exists: token and rehashed password.       *)
LoginCommit(w) ==
    LET t == txn[w] IN
    /\ t.pc = "login"
    /\ user' = [user EXCEPT ![t.user] = Rehash(@, t.row, t.pw)]
    /\ \E n \in NextToken : token' = Issue(n, t.user, t.resets, now)
    /\ UseCode(t.code)
    /\ Leave(w)
    /\ UNCHANGED <<chosen, resets, now>>

RegisterPassword(w, id, pw) ==
    /\ id \in Emails /\ OwnersOf(id) = {}
    /\ Enter(w, [NoTxn EXCEPT !.pc = "register", !.id = id, !.pw = pw])
    /\ UNCHANGED <<codes, token, accounts, now>>

(* The rows a registration adds: user, organisation and plan.              *)
Registered(id, pw) ==
    [Bind(NoAccount, id) EXCEPT !.row = TRUE, !.pw = pw, !.org = TRUE, !.plan = TRUE]


(* The unique keys on e-mail and phone.                                    *)
Free(id) == OwnersOf(id) = {}

(* The first login with an identity, or register_password: the account and *)
(* its first session in one commit, or, if the identity has been taken     *)
(* meanwhile, nothing (IntegrityError: Abort).                             *)
CreateAccount(w) ==
    LET t == txn[w] IN
    /\ t.pc = "register" /\ Free(t.id)
    /\ \E u \in {v \in Users \ CoreUsers : ~Exists(v)}, n \in NextToken :
        /\ user' = [user EXCEPT ![u] = Registered(t.id, t.pw)]
        /\ token' = Issue(n, u, 0, now)
        /\ chosen' = [chosen EXCEPT ![u] = t.pw]
    /\ UseCode(t.code)
    /\ Leave(w)
    /\ UNCHANGED <<resets, now>>

(* --- sessions ---------------------------------------------------------- *)

(* Fault: a revoked token is taken.                                       *)
RefreshRevoked(w, t) ==
    /\ token[t].st # "none" /\ token[t].expires > now
    /\ Enter(w, [NoTxn EXCEPT !.pc = "refresh", !.token = t])
    /\ UNCHANGED <<codes, token, accounts, now>>

(* refresh: the token is loaded, and the user with it, ...                 *)
Refresh(w, t) ==
    /\ token[t].st = "live" /\ token[t].expires > now
    /\ Enter(w, [NoTxn EXCEPT !.pc = "refresh", !.token = t])
    /\ UNCHANGED <<codes, token, accounts, now>>

(* ... and rotated, whatever has become of it meanwhile.                   *)
RefreshCommit(w) ==
    /\ txn[w].pc = "refresh"
    /\ \E n \in NextToken : token' = Rotate(txn[w].token, n, now)
    /\ Leave(w)
    /\ UNCHANGED <<codes, accounts, now>>

RevokeNow(T) ==
    /\ AtOnce
    /\ token' = Revoke(T)
    /\ UNCHANGED <<codes, accounts, now>>

Logout(w, t) == token[t].st = "live" /\ RevokeNow({t})
RevokeSession(w, u, t) == t \in ListedSessions(u, now) /\ RevokeNow({t})
LogoutAll(w, u) ==
    /\ LiveTokens(u) # {}
    /\ AtOnce
    /\ token' = RevokeAll(u)
    /\ UNCHANGED <<codes, accounts, now>>

(* --- passwords and identities ------------------------------------------ *)

SetPassword(u, pw) ==
    /\ user' = [user EXCEPT ![u].pw = pw, ![u].bcrypt = FALSE]
    /\ chosen' = [chosen EXCEPT ![u] = pw]

PasswordReset(w, id, pw) ==
    id \in Emails /\ EnterCode(w, [NoTxn EXCEPT !.id = id, !.for = "reset", !.pw = pw])

(* Nobody has the e-mail any more: AuthError, and the code is not used     *)
(* (Abort).                                                                *)
ResetLoad(w) ==
    /\ txn[w].for = "reset" /\ CodeFlushed(w)
    /\ \E u \in OwnersOf(txn[w].id) : LoadUser(w, u)

ResetCommit(w) ==
    LET t == txn[w] IN
    /\ t.pc = "reset"
    /\ SetPassword(t.user, t.pw)
    /\ token' = RevokeAll(t.user)
    /\ UseCode(t.code)
    /\ resets' = [resets EXCEPT ![t.user] = @ + 1]
    /\ Leave(w)
    /\ UNCHANGED now

(* password_change: checked against the hash this session has loaded.      *)
PasswordChange(w, u, current, pw, keep) ==
    /\ CurrentUser(u) /\ user[u].pw = current /\ pw # current
    /\ keep = NoToken \/ keep \in LiveTokens(u)
    /\ Enter(w, [NoTxn EXCEPT !.pc = "change", !.user = u, !.pw = pw, !.token = keep])
    /\ UNCHANGED <<codes, token, accounts, now>>

ChangeCommit(w) ==
    LET t == txn[w] IN
    /\ t.pc = "change"
    /\ SetPassword(t.user, t.pw)
    /\ token' = RevokeOthers(t.user, t.token)
    /\ Leave(w)
    /\ UNCHANGED <<codes, resets, now>>

(* account_bind and bind_identity.                                         *)
BindIdentity(w, u, id) ==
    CurrentUser(u) /\ EnterCode(w, [NoTxn EXCEPT !.id = id, !.for = "bind", !.user = u])

(* An identity that is somebody else's is refused (ConflictError: Abort),  *)
NotOthers(id, u) == OwnersOf(id) \subseteq {u}
BindLoad(w) ==
    /\ txn[w].for = "bind" /\ CodeFlushed(w)
    /\ NotOthers(txn[w].id, txn[w].user)
    /\ LoadUser(w, txn[w].user)

(* by the unique keys too, if it has become so meanwhile.                  *)
BindCommit(w) ==
    LET t == txn[w] IN
    /\ t.pc = "bind" /\ NotOthers(t.id, t.user)
    /\ user' = [user EXCEPT ![t.user] = Bind(@, t.id)]
    /\ UseCode(t.code)
    /\ Leave(w)
    /\ UNCHANGED <<token, chosen, resets, now>>

(* _count_login_methods; nothing in the repository links an OAuth account. *)
(* A password counts even if no phone and no e-mail goes with it: a user   *)
(* may be left with what Authenticated accepts from nobody.                *)
LoginMethods(row) ==
    {"phone" : i \in {row.phone} \ {NoId}} \cup {"email" : i \in {row.email} \ {NoId}}
    \cup {"password" : p \in {row.pw} \cap Passwords}

UnbindAllowed(row) == Cardinality(LoginMethods(row)) > 1

UnbindIdentity(w, u, id) ==
    /\ CurrentUser(u) /\ id \in Identities(user[u]) /\ UnbindAllowed(user[u])
    /\ Enter(w, [NoTxn EXCEPT !.pc = "unbind", !.user = u, !.id = id])
    /\ UNCHANGED <<codes, token, accounts, now>>

UnbindCommit(w) ==
    LET t == txn[w] IN
    /\ t.pc = "unbind"
    /\ user' = [user EXCEPT ![t.user] = IF t.id \in Phones THEN [@ EXCEPT !.phone = NoId]
                                                           ELSE [@ EXCEPT !.email = NoId]]
    /\ Leave(w)
    /\ UNCHANGED <<codes, token, chosen, resets, now>>

(* --- users of the Core service ----------------------------------------- *)

EnsureLocalUser(w, u) ==
    /\ ~Exists(u)
    /\ Enter(w, [NoTxn EXCEPT !.pc = "org", !.user = u, !.id = CoreEmail[u]])
    /\ UNCHANGED <<codes, token, accounts, now>>

(* The organisation is flushed, behind a request that has flushed it too.  *)
EnsurePersonalOrg(w) ==
    LET t == txn[w] IN
    /\ t.pc = "org"
    /\ \A v \in Workers : txn[v].pc = "bridge" /\ txn[v].row.org => txn[v].user # t.user
    /\ Go(w, [t EXCEPT !.pc = "bridge", !.row = [NoAccount EXCEPT !.org = TRUE]])
    /\ UNCHANGED <<codes, token, accounts, now>>

(* Fault: no foreign key.                                                 *)
AnyOrg(row) == TRUE
(* The foreign key of users.organization_id.                               *)
HasOrg(row) == row.org
MayInsert(t) == HasOrg(t.row) /\ Free(t.id)

(* IntegrityError, for a name or e-mail that is taken or for want of the   *)
(* organisation: the rollback, which takes the organisation with it, and   *)
(* one more try with another name.  The name may always be taken.          *)
BridgeConflict(w) ==
    LET t == txn[w] IN
    /\ t.pc = "bridge" /\ ~Exists(t.user) /\ t.tries < BridgeTries
    /\ Go(w, [t EXCEPT !.row = NoAccount, !.tries = @ + 1])
    /\ UNCHANGED <<codes, token, accounts, now>>

ShadowAccount(row, id) == [Bind(row, id) EXCEPT !.row = TRUE, !.pw = CoreBridge]

(* The user is inserted, unless another request was faster (ON CONFLICT DO *)
(* NOTHING).  Out of tries and nobody there: RuntimeError (Abort).         *)
BridgeCommit(w) ==
    LET t == txn[w] IN
    /\ t.pc = "bridge"
    /\ \/ Exists(t.user) /\ UNCHANGED user
       \/ /\ ~Exists(t.user) /\ t.tries < BridgeTries /\ MayInsert(t)
          /\ user' = [user EXCEPT ![t.user] = ShadowAccount(t.row, t.id)]
    /\ Leave(w)
    /\ UNCHANGED <<codes, token, chosen, resets, now>>
-----------------------------------------------------------------------------
(* Crash, conflict, failed delivery: the session rolls back.               *)
Abort(w) ==
    /\ ~Idle(w)
    /\ Leave(w)
    /\ UNCHANGED <<codes, token, accounts, now>>

(* A unit of time is a minute or more: no request lasts that long.         *)
Tick ==
    /\ now < MaxClock /\ \A w \in Workers : Idle(w)
    /\ now' = now + 1
    /\ UNCHANGED <<codes, token, accounts, txn, requests, overlapped>>

Request(w) ==
    /\ Idle(w) /\ requests < MaxRequests
    /\ \/ \E id \in Ids, p \in Purposes : SmsSend(w, id, p) \/ EmailSend(w, id, p) \/ RefuseCode(w, id, p)
       \/ \E id \in Ids : PasswordForgot(w, id) \/ LoginVerification(w, id)
       \/ \E id \in Ids, pw \in Passwords :
             \/ LoginPassword(w, id, pw) \/ LoginPhone(w, id, pw)
             \/ RegisterPassword(w, id, pw) \/ PasswordReset(w, id, pw)
       \/ \E u \in Users, id \in Ids : BindIdentity(w, u, id) \/ UnbindIdentity(w, u, id)
       \/ \E t \in Tokens : Refresh(w, t) \/ Logout(w, t) \/ \E u \in Users : RevokeSession(w, u, t)
       \/ \E u \in Users : LogoutAll(w, u)
       \/ \E u \in CoreUsers : EnsureLocalUser(w, u)
       \/ \E u \in Users, p, q \in Passwords, k \in Tokens \cup {NoToken} : PasswordChange(w, u, p, q, k)

Step(w) ==
    \/ SendCommit(w) \/ LoginKnown(w) \/ LoginUnknown(w) \/ ResetLoad(w) \/ BindLoad(w)
    \/ LoginCommit(w) \/ CreateAccount(w) \/ RefreshCommit(w)
    \/ ResetCommit(w) \/ ChangeCommit(w) \/ BindCommit(w) \/ UnbindCommit(w)
    \/ EnsurePersonalOrg(w) \/ BridgeConflict(w) \/ BridgeCommit(w)

Next ==
    \/ \E w \in Workers : Request(w) \/ Step(w) \/ Abort(w)
    \/ Tick

Spec == Init /\ [][Next]_vars
-----------------------------------------------------------------------------
(* Rows, requests in progress and histories have their types.              *)
TypeOK ==
    /\ code \in [Codes -> Code] /\ token \in [Tokens -> Token] /\ user \in [Users -> Account]
    /\ txn \in [Workers -> Txn]
    /\ now \in Nat /\ requests \in Nat /\ overlapped \in BOOLEAN
    /\ chosen \in [Users -> Passwords \cup {NoPw}] /\ resets \in [Users -> Nat]
    /\ accepted \in [Codes -> Nat] /\ wrong \in [Codes -> Nat]

Overlaps == IF overlapped THEN Cardinality(Workers) - 1 ELSE 0

(* --- whatever requests overlap ------------------------------------------ *)

(* An identity belongs to one user; no user is left without the rows a     *)
(* first login creates beside it, though conflicts roll back more than the *)
(* row they are about; and a session belongs to a user that exists.        *)
AccountsWhole ==
    /\ \A id \in Ids : Cardinality(OwnersOf(id)) <= 1
    /\ \A u \in Users : Exists(u) => user[u].org /\ (u \notin CoreUsers => user[u].plan)
    /\ \A t \in Tokens : token[t].st # "none" => Exists(token[t].user)

(* A token is rotated once; by refreshes that overlap, once for each of    *)
(* them and never again.  Once it has a successor it is revoked, whatever  *)
(* logouts and resets come between, the column names one of them, and each *)
(* has inherited owner and login.                                          *)
TokenChains ==
    \A t \in Tokens :
        /\ Cardinality(Successors(t)) <= 1 + Overlaps
        /\ Successors(t) # {} => token[t].st = "revoked" /\ token[t].next \in Successors(t)
        /\ \A n \in Successors(t) : /\ n > t
                                    /\ token[n].user = token[t].user /\ token[n].root = token[t].root

(* A phone that belongs to a user has been proven by a code that was sent  *)
(* to it and accepted once, for a first login or a binding, whichever      *)
(* codes were open and whatever users took it over and let it go between.  *)
PhonesProven ==
    \A u \in Users : user[u].phone # NoId =>
        \E c \in Codes : /\ accepted[c] > 0 /\ code[c].id = user[u].phone
                         /\ code[c].purpose \in {"login", "bind"}

(* A code opens the door once; by overlapping requests, once for each of   *)
(* them and never again.                                                   *)
CodeUses == \A c \in Codes : accepted[c] <= 1 + Overlaps

(* Rows within a cooldown, in the address window and in a target's day:     *)
(* never above their limits, but for sends that overlap, which each count  *)
(* the rows before any of them inserts its own.                            *)
SendLimits ==
    /\ \A id \in Ids, p \in Purposes : Cardinality(Recent(id, p)) <= 1 + Overlaps
    /\ Cardinality(Lately) <= SourceMax + Overlaps
    /\ \A id \in Ids : Cardinality(Today(id)) <= DailyMax + Overlaps

(* --- for requests that do not overlap ----------------------------------- *)

(* Of the tokens that descend from one login, one is live.                 *)
OneLiveSession ==
    ~overlapped => \A r \in Tokens :
        Cardinality({t \in Tokens : token[t].root = r /\ token[t].st = "live"}) <= 1

(* No session that began before its user's last password reset is live.    *)
ResetEndsSessions ==
    ~overlapped => \A t \in Tokens : token[t].st = "live" => token[t].resets = resets[token[t].user]

(* The password in force is the last one its user chose: no login writes   *)
(* an older one back when it renews the hash.                              *)
PasswordIsChosen ==
    ~overlapped => \A u \in Users : user[u].pw \in Passwords \cup {NoPw} => user[u].pw = chosen[u]

(* --- promised, and not kept --------------------------------------------- *)

(* A code somebody has got wrong MaxAttempts times is not accepted.        *)
CodesLock == \A c \in Codes : wrong[c] >= MaxAttempts => accepted[c] = 0
=============================================================================
