--------------------------- MODULE AccountsProofs ---------------------------
(* Theorems about Accounts for every number of requests, users, codes and  *)
(* tokens, and every limit and lifetime.                                   *)
EXTENDS Accounts, TLAPS, FiniteSetTheorems

USE DEF Purposes, Steps, NoCode, NoToken, NoPw, NoId, CoreBridge

-----------------------------------------------------------------------------
(* Types of the helpers.                                                   *)

LEMMA ConstantFacts ==
    /\ NoCode \notin Codes /\ NoToken \notin Tokens /\ NoUser \notin Users
    /\ Phones \subseteq Ids /\ Emails \subseteq Ids /\ NoId \notin Ids
    /\ CoreUsers \subseteq Users /\ CoreEmail \in [CoreUsers -> Emails]
    /\ NoPw \notin Passwords /\ CoreBridge \notin Passwords
    /\ Phones \cap Emails = {}
BY CodeAssumption, TokenAssumption, AccountAssumption DEF Codes, Tokens, Ids

LEMMA NoTxnType == NoTxn \in Txn /\ NoAccount \in Account
BY DEF NoTxn, NoAccount, Txn, Account

LEMMA UnissuedType == Unissued \in Token
BY DEF Unissued, Token

LEMMA BindType ==
    ASSUME NEW r \in Account, NEW id \in Ids
    PROVE  /\ Bind(r, id) \in Account
           /\ Bind(r, id).row = r.row /\ Bind(r, id).pw = r.pw
           /\ Bind(r, id).org = r.org /\ Bind(r, id).plan = r.plan
           /\ Identities(Bind(r, id)) \subseteq Identities(r) \cup {id}
           /\ id \in Identities(Bind(r, id))
BY ConstantFacts DEF Bind, Account, Ids, Identities

(* A new row with one identity.                                            *)
LEMMA FreshRow ==
    ASSUME NEW id \in Ids
    PROVE  LET r == Bind(NoAccount, id) IN
           /\ r \in Account
           /\ r = [NoAccount EXCEPT !.phone = r.phone, !.email = r.email]
           /\ {r.phone, r.email} = {id, NoId}
           /\ r.phone # NoId => r.phone = id /\ id \in Phones
BY ConstantFacts, NoTxnType DEF Bind, NoAccount, Account, Ids

LEMMA RegisteredType ==
    ASSUME NEW id \in Ids, NEW pw \in Passwords \cup {NoPw}
    PROVE  /\ Registered(id, pw) \in Account
           /\ Registered(id, pw).row /\ Registered(id, pw).org /\ Registered(id, pw).plan
           /\ Registered(id, pw).pw = pw
           /\ Registered(id, pw).phone # NoId => Registered(id, pw).phone = id /\ id \in Phones
           /\ Identities(Registered(id, pw)) = {id}
<1> DEFINE b == Bind(NoAccount, id)  r == Registered(id, pw)
<1>1. /\ b \in Account /\ {b.phone, b.email} = {id, NoId} /\ id # NoId
      /\ b.phone # NoId => b.phone = id /\ id \in Phones
  BY FreshRow, ConstantFacts
<1>2. r = [b EXCEPT !.row = TRUE, !.pw = pw, !.org = TRUE, !.plan = TRUE]
  BY DEF Registered
<1> HIDE DEF b, r
<1>3. /\ r \in Account /\ r.row /\ r.org /\ r.plan /\ r.pw = pw
      /\ r.phone = b.phone /\ r.email = b.email
  BY <1>1, <1>2 DEF Account
<1>4. Identities(r) = {id}
  BY <1>1, <1>3 DEF Identities
<1> QED
  BY <1>1, <1>3, <1>4 DEF r

(* What the bridge has flushed so far: the organisation or, once a         *)
(* conflict has rolled it back, nothing.                                   *)
OrgOnly == [NoAccount EXCEPT !.org = TRUE]

LEMMA ShadowType ==
    ASSUME NEW id \in Emails, NEW row \in {NoAccount, OrgOnly}, HasOrg(row)
    PROVE  /\ ShadowAccount(row, id) \in Account
           /\ ShadowAccount(row, id).row /\ ShadowAccount(row, id).org
           /\ ShadowAccount(row, id).pw = CoreBridge /\ ShadowAccount(row, id).phone = NoId
           /\ Identities(ShadowAccount(row, id)) = {id}
<1> DEFINE r == ShadowAccount(row, id)
<1>1. row = OrgOnly /\ row \in Account /\ row.org /\ row.phone = NoId /\ row.email = NoId
  BY NoTxnType DEF HasOrg, NoAccount, OrgOnly, Account
<1>2. id \notin Phones /\ id \in Ids /\ id # NoId
  BY ConstantFacts
<1>3. r = [[row EXCEPT !.email = id] EXCEPT !.row = TRUE, !.pw = CoreBridge]
  BY <1>2 DEF ShadowAccount, Bind
<1> HIDE DEF r
<1>4. /\ r \in Account /\ r.row /\ r.org /\ r.pw = CoreBridge
      /\ r.phone = NoId /\ r.email = id
  BY <1>1, <1>3 DEF Account
<1>5. Identities(r) = {id}
  BY <1>2, <1>4 DEF Identities
<1> QED
  BY <1>4, <1>5 DEF r

LEMMA OldAccountType ==
    ASSUME NEW id \in Ids
    PROVE  /\ OldAccount(id) \in Account
           /\ OldAccount(id).row /\ OldAccount(id).org /\ OldAccount(id).plan
           /\ OldAccount(id).pw \in Passwords
           /\ id \notin Phones => OldAccount(id).phone = NoId
           /\ Identities(OldAccount(id)) = {id}
<1> DEFINE b == Bind(NoAccount, id)  r == OldAccount(id)  q == CHOOSE p \in Passwords : TRUE
<1>1. /\ b \in Account /\ {b.phone, b.email} = {id, NoId} /\ id # NoId
      /\ id \notin Phones => b.phone = NoId
  BY FreshRow, ConstantFacts
<1>2. r = [b EXCEPT !.row = TRUE, !.pw = q, !.bcrypt = TRUE, !.org = TRUE, !.plan = TRUE]
  BY DEF OldAccount
<1>3. q \in Passwords
  BY AccountAssumption
<1> HIDE DEF b, r, q
<1>4. /\ r \in Account /\ r.row /\ r.org /\ r.plan /\ r.pw = q
      /\ r.phone = b.phone /\ r.email = b.email
  BY <1>1, <1>2, <1>3 DEF Account
<1>5. Identities(r) = {id}
  BY <1>1, <1>4 DEF Identities
<1> QED
  BY <1>1, <1>3, <1>4, <1>5 DEF r

LEMMA RehashType ==
    ASSUME NEW r \in Account, NEW l, NEW pw \in Passwords \cup {NoPw}
    PROVE  /\ Rehash(r, l, pw) \in Account
           /\ Rehash(r, l, pw).row = r.row
           /\ Rehash(r, l, pw).org = r.org /\ Rehash(r, l, pw).plan = r.plan
           /\ Rehash(r, l, pw).phone = r.phone /\ Rehash(r, l, pw).email = r.email
           /\ Identities(Rehash(r, l, pw)) = Identities(r)
           /\ \/ Rehash(r, l, pw).pw = r.pw
              \/ pw # NoPw /\ Rehash(r, l, pw).pw = pw
<1>1. CASE l.bcrypt /\ pw # NoPw
  BY <1>1 DEF Rehash, Account, Identities
<1>2. CASE ~(l.bcrypt /\ pw # NoPw)
  BY <1>2 DEF Rehash
<1> QED
  BY <1>1, <1>2

-----------------------------------------------------------------------------
(* What a request in progress holds, for the step that comes next.         *)
Holds(t) ==
    /\ t.pc = "idle" => t = NoTxn
    /\ t.pc \in {"send", "code", "bind", "unbind", "register"} => t.id \in Ids
    /\ t.pc = "code" => t.code \in Codes
    /\ t.pc = "code" /\ t.for = "login" => t.pw = NoPw
    /\ t.pc = "code" /\ t.for = "reset" => t.pw \in Passwords
    /\ t.pc = "code" /\ t.for = "bind" => t.user \in Users /\ user[t.user].row
    /\ t.pc \in {"login", "reset", "change", "bind", "unbind"} => t.user \in Users /\ user[t.user].row
    /\ t.pc \in {"reset", "change"} => t.pw \in Passwords
    /\ t.pc = "refresh" => t.token \in Tokens /\ token[t.token].st # "none"
    /\ t.pc \in {"org", "bridge"} => t.user \in CoreUsers /\ t.id \in Emails
    /\ t.pc = "bridge" => t.row \in {NoAccount, OrgOnly}

(* True when it is loaded, and until another request commits.              *)
Fresh(t) ==
    /\ t.pc = "login" => /\ t.resets = resets[t.user]
                         /\ t.pw # NoPw => user[t.user].pw = t.pw
    /\ t.pc = "refresh" => token[t.token].st = "live"

TypeInv == TypeOK /\ \A w \in Workers : Holds(txn[w])

(* Nothing that exists goes away.                                          *)
Grows ==
    /\ \A u \in Users : user[u].row => user'[u].row
    /\ \A t \in Tokens : token[t].st # "none" => token'[t].st # "none"

LEMMA OthersHold ==
    ASSUME TypeInv, NEW w \in Workers, Grows, NEW t \in Txn,
           txn' = [txn EXCEPT ![w] = t], Holds(t)'
    PROVE  txn' \in [Workers -> Txn] /\ \A v \in Workers : Holds(txn[v])'
<1>1. txn' \in [Workers -> Txn] /\ txn'[w] = t
  BY DEF TypeInv, TypeOK
<1>2. Holds(txn[w])'
  BY <1>1 DEF Holds
<1>3. ASSUME NEW v \in Workers, v # w
      PROVE  Holds(txn[v])'
  <2>1. txn'[v] = txn[v] /\ txn[v] \in Txn /\ Holds(txn[v])
    BY <1>3 DEF TypeInv, TypeOK
  <2>2. txn[v].user \in CoreUsers => txn[v].user \in Users
    BY ConstantFacts
  <2> QED
    BY <2>1, <2>2 DEF Holds, Grows
<1> QED
  BY <1>1, <1>2, <1>3

LEMMA IdleHolds == Holds(NoTxn) /\ Holds(NoTxn)'
BY DEF Holds, NoTxn

(* A request that begins: it holds what it has just read.                  *)
Begins(w, t) ==
    /\ txn' = [txn EXCEPT ![w] = t] /\ UNCHANGED token
    /\ t \in Txn /\ t.pc # "idle" /\ Holds(t) /\ Fresh(t)
    /\ t.pc = "send" => SendAllowed(t.id, t.for)
    /\ t.code # NoCode => /\ t.pc = "code" /\ code[t.code].st = "open"
                          /\ code[t.code].id = t.id /\ code[t.code].purpose = t.for
    /\ t.pc # "bind" /\ (t.pc = "register" => t.id \in Emails)

(* A request that only revokes, or only fails.                             *)
LiveOnes == {t \in Tokens : token[t].st = "live"}
Passes == UNCHANGED txn /\ \E T \in SUBSET LiveOnes : token' = Revoke(T)

LEMMA EnterCodeBegins ==
    ASSUME TypeInv, NEW w \in Workers, NEW t \in Txn, t.id \in Ids, EnterCode(w, t),
           t.for = "login" => t.pw = NoPw,
           t.for = "reset" => t.pw \in Passwords,
           t.for = "bind" => t.user \in Users /\ user[t.user].row
    PROVE  \E q : Begins(w, q)
<1>1. PICK c \in Newest(t.id, t.for) : txn' = [txn EXCEPT ![w] = [t EXCEPT !.pc = "code", !.code = c]]
  BY DEF EnterCode, Enter
<1>2. c \in Codes /\ code[c].st = "open" /\ code[c].id = t.id /\ code[c].purpose = t.for
  BY <1>1 DEF Newest, Rows
<1> DEFINE q == [t EXCEPT !.pc = "code", !.code = c]
<1>3. q \in Txn /\ q.pc = "code" /\ q.code = c /\ q.id = t.id /\ q.for = t.for /\ q.pw = t.pw /\ q.user = t.user
  BY <1>2 DEF Txn
<1> HIDE DEF q
<1>4. Holds(q) /\ Fresh(q)
  BY <1>2, <1>3 DEF Holds, Fresh
<1>5. UNCHANGED token
  BY DEF EnterCode
<1> QED
  BY <1>1, <1>2, <1>3, <1>4, <1>5 DEF Begins, q

LEMMA CodeRequests ==
    ASSUME TypeInv, NEW w \in Workers, NEW id \in Ids
    PROVE  /\ LoginVerification(w, id) => \E q : Begins(w, q)
           /\ \A pw \in Passwords : PasswordReset(w, id, pw) => \E q : Begins(w, q)
           /\ \A u \in Users : BindIdentity(w, u, id) => \E q : Begins(w, q)
<1>1. NoTxn \in Txn /\ NoTxn.pw = NoPw
  BY NoTxnType DEF NoTxn
<1>2. ASSUME LoginVerification(w, id) PROVE \E q : Begins(w, q)
  <2> DEFINE t == [NoTxn EXCEPT !.id = id, !.for = "login"]
  <2>1. t \in Txn /\ t.id = id /\ t.for = "login" /\ t.pw = NoPw
    BY <1>1 DEF Txn
  <2>2. EnterCode(w, t)
    BY <1>2 DEF LoginVerification
  <2> HIDE DEF t
  <2> QED
    BY <2>1, <2>2, EnterCodeBegins
<1>3. ASSUME NEW pw \in Passwords, PasswordReset(w, id, pw) PROVE \E q : Begins(w, q)
  <2> DEFINE t == [NoTxn EXCEPT !.id = id, !.for = "reset", !.pw = pw]
  <2>1. t \in Txn /\ t.id = id /\ t.for = "reset" /\ t.pw = pw
    BY <1>1 DEF Txn
  <2>2. EnterCode(w, t)
    BY <1>3 DEF PasswordReset
  <2> HIDE DEF t
  <2> QED
    BY <2>1, <2>2, EnterCodeBegins
<1>4. ASSUME NEW u \in Users, BindIdentity(w, u, id) PROVE \E q : Begins(w, q)
  <2> DEFINE t == [NoTxn EXCEPT !.id = id, !.for = "bind", !.user = u]
  <2>1. t \in Txn /\ t.id = id /\ t.for = "bind" /\ t.user = u /\ t.pw = NoPw
    BY <1>1 DEF Txn
  <2>2. EnterCode(w, t) /\ user[u].row
    BY <1>4 DEF BindIdentity, CurrentUser, Exists
  <2> HIDE DEF t
  <2> QED
    BY <2>1, <2>2, EnterCodeBegins
<1> QED
  BY <1>2, <1>3, <1>4

LEMMA SendRequests ==
    ASSUME TypeInv, NEW w \in Workers, NEW id \in Ids, NEW p \in Purposes, SendCode(w, id, p)
    PROVE  \E q : Begins(w, q)
<1> DEFINE q == [NoTxn EXCEPT !.pc = "send", !.id = id, !.for = p]
<1>1. q \in Txn /\ q.pc = "send" /\ q.id = id /\ q.for = p /\ q.code = NoCode
  BY NoTxnType DEF Txn, NoTxn
<1>2. txn' = [txn EXCEPT ![w] = q] /\ UNCHANGED token /\ SendAllowed(id, p)
  BY DEF SendCode, Enter
<1> HIDE DEF q
<1>3. Holds(q) /\ Fresh(q)
  BY <1>1 DEF Holds, Fresh
<1> QED
  BY <1>1, <1>2, <1>3 DEF Begins

LEMMA PasswordRequests ==
    ASSUME TypeInv, NEW w \in Workers, NEW id \in Ids, NEW pw \in Passwords
    PROVE  /\ LoginPassword(w, id, pw) => \E q : Begins(w, q)
           /\ RegisterPassword(w, id, pw) => \E q : Begins(w, q)
<1>1. ASSUME LoginPassword(w, id, pw) PROVE \E q : Begins(w, q)
  <2>1. PICK u \in Authenticated(id, pw) :
            txn' = [txn EXCEPT ![w] = [NoTxn EXCEPT !.pc = "login", !.id = id, !.user = u,
                                                    !.row = user[u], !.pw = pw, !.resets = resets[u]]]
    BY <1>1 DEF LoginPassword, Enter
  <2>2. u \in Users /\ user[u].row /\ user[u].pw = pw /\ user[u] \in Account /\ resets[u] \in Nat
    BY <2>1 DEF Authenticated, OwnersOf, Exists, TypeInv, TypeOK
  <2> DEFINE q == [NoTxn EXCEPT !.pc = "login", !.id = id, !.user = u,
                                !.row = user[u], !.pw = pw, !.resets = resets[u]]
  <2>3. /\ q \in Txn /\ q.pc = "login" /\ q.user = u /\ q.pw = pw /\ q.resets = resets[u]
        /\ q.code = NoCode
    BY <2>2, NoTxnType DEF Txn, NoTxn
  <2> HIDE DEF q
  <2>4. Holds(q) /\ Fresh(q)
    BY <2>2, <2>3 DEF Holds, Fresh
  <2>5. UNCHANGED token
    BY <1>1 DEF LoginPassword
  <2> QED
    BY <2>1, <2>3, <2>4, <2>5 DEF Begins, q
<1>2. ASSUME RegisterPassword(w, id, pw) PROVE \E q : Begins(w, q)
  <2> DEFINE q == [NoTxn EXCEPT !.pc = "register", !.id = id, !.pw = pw]
  <2>1. q \in Txn /\ q.pc = "register" /\ q.id = id /\ q.pw = pw /\ q.code = NoCode
    BY NoTxnType DEF Txn, NoTxn
  <2>2. txn' = [txn EXCEPT ![w] = q] /\ UNCHANGED token /\ id \in Emails
    BY <1>2 DEF RegisterPassword, Enter
  <2> HIDE DEF q
  <2>3. Holds(q) /\ Fresh(q)
    BY <2>1 DEF Holds, Fresh
  <2> QED
    BY <2>1, <2>2, <2>3 DEF Begins
<1> QED
  BY <1>1, <1>2

LEMMA AccountRequests ==
    ASSUME TypeInv, NEW w \in Workers, NEW u \in Users
    PROVE  /\ \A id \in Ids : UnbindIdentity(w, u, id) => \E q : Begins(w, q)
           /\ \A old, pw \in Passwords, k \in Tokens \cup {NoToken} :
                  PasswordChange(w, u, old, pw, k) => \E q : Begins(w, q)
           /\ u \in CoreUsers /\ EnsureLocalUser(w, u) => \E q : Begins(w, q)
<1>1. ASSUME NEW id \in Ids, UnbindIdentity(w, u, id) PROVE \E q : Begins(w, q)
  <2> DEFINE q == [NoTxn EXCEPT !.pc = "unbind", !.user = u, !.id = id]
  <2>1. q \in Txn /\ q.pc = "unbind" /\ q.id = id /\ q.user = u /\ q.code = NoCode
    BY NoTxnType DEF Txn, NoTxn
  <2>2. txn' = [txn EXCEPT ![w] = q] /\ UNCHANGED token /\ user[u].row
    BY <1>1 DEF UnbindIdentity, Enter, CurrentUser, Exists
  <2> HIDE DEF q
  <2>3. Holds(q) /\ Fresh(q)
    BY <2>1, <2>2 DEF Holds, Fresh
  <2> QED
    BY <2>1, <2>2, <2>3 DEF Begins
<1>2. ASSUME NEW old \in Passwords, NEW pw \in Passwords, NEW k \in Tokens \cup {NoToken},
             PasswordChange(w, u, old, pw, k)
      PROVE  \E q : Begins(w, q)
  <2> DEFINE q == [NoTxn EXCEPT !.pc = "change", !.user = u, !.pw = pw, !.token = k]
  <2>1. q \in Txn /\ q.pc = "change" /\ q.pw = pw /\ q.user = u /\ q.code = NoCode
    BY NoTxnType DEF Txn, NoTxn
  <2>2. txn' = [txn EXCEPT ![w] = q] /\ UNCHANGED token /\ user[u].row
    BY <1>2 DEF PasswordChange, Enter, CurrentUser, Exists
  <2> HIDE DEF q
  <2>3. Holds(q) /\ Fresh(q)
    BY <2>1, <2>2 DEF Holds, Fresh
  <2> QED
    BY <2>1, <2>2, <2>3 DEF Begins
<1>3. ASSUME u \in CoreUsers, EnsureLocalUser(w, u) PROVE \E q : Begins(w, q)
  <2> DEFINE q == [NoTxn EXCEPT !.pc = "org", !.user = u, !.id = CoreEmail[u]]
  <2>1. q \in Txn /\ q.pc = "org" /\ q.id \in Emails /\ q.user = u /\ q.code = NoCode
    BY <1>3, NoTxnType, ConstantFacts DEF Txn, NoTxn
  <2>2. txn' = [txn EXCEPT ![w] = q] /\ UNCHANGED token
    BY <1>3 DEF EnsureLocalUser, Enter
  <2> HIDE DEF q
  <2>3. Holds(q) /\ Fresh(q)
    BY <1>3, <2>1 DEF Holds, Fresh
  <2> QED
    BY <2>1, <2>2, <2>3 DEF Begins
<1> QED
  BY <1>1, <1>2, <1>3

LEMMA TokenRequests ==
    ASSUME TypeInv, NEW w \in Workers
    PROVE  /\ \A t \in Tokens : Refresh(w, t) => \E q : Begins(w, q)
           /\ \A t \in Tokens : Logout(w, t) => Passes
           /\ \A u \in Users, t \in Tokens : RevokeSession(w, u, t) => Passes
           /\ \A u \in Users : LogoutAll(w, u) => Passes
<1>1. ASSUME NEW t \in Tokens, Refresh(w, t) PROVE \E q : Begins(w, q)
  <2> DEFINE q == [NoTxn EXCEPT !.pc = "refresh", !.token = t]
  <2>1. q \in Txn /\ q.pc = "refresh" /\ q.token = t /\ q.code = NoCode
    BY NoTxnType DEF Txn, NoTxn
  <2>2. txn' = [txn EXCEPT ![w] = q] /\ UNCHANGED token /\ token[t].st = "live"
    BY <1>1 DEF Refresh, Enter
  <2> HIDE DEF q
  <2>3. Holds(q) /\ Fresh(q)
    BY <2>1, <2>2 DEF Holds, Fresh
  <2> QED
    BY <2>1, <2>2, <2>3 DEF Begins
<1>2. \A T \in SUBSET LiveOnes : RevokeNow(T) => Passes
  BY DEF RevokeNow, AtOnce, Passes
<1>3. \A u \in Users : LiveTokens(u) \in SUBSET LiveOnes
  BY DEF LiveTokens, LiveOnes
<1>4. \A u \in Users : LogoutAll(w, u) => Passes
  BY <1>3 DEF LogoutAll, RevokeAll, AtOnce, Passes
<1> QED
  BY <1>1, <1>2, <1>4 DEF Logout, RevokeSession, ListedSessions, LiveTokens, LiveOnes

(* What every new request does, and to what.                               *)
RequestFrame == Arrive /\ UNCHANGED <<code, accepted, accounts, now>> /\ wrong' \in [Codes -> Nat]
Effect(w) == RequestFrame /\ ((\E q : Begins(w, q)) \/ Passes)

LEMMA RefuseEffect ==
    ASSUME TypeInv, NEW w \in Workers, NEW id \in Ids, NEW p \in Purposes, RefuseCode(w, id, p)
    PROVE  Effect(w)
<1>1. PICK c \in Newest(id, p) :
         /\ AtOnce
         /\ code' = [code EXCEPT ![c] = AfterException(code[c], Flushed(c))]
         /\ wrong' = [wrong EXCEPT ![c] = @ + 1]
         /\ UNCHANGED <<accepted, token, accounts, now>>
  BY DEF RefuseCode
<1>2. code' = code
  BY <1>1 DEF AfterException, TypeInv, TypeOK
<1>3. wrong' \in [Codes -> Nat]
  BY <1>1 DEF TypeInv, TypeOK, Newest, Rows
<1>4. token' = Revoke({})
  BY <1>1 DEF Revoke, TypeInv, TypeOK
<1> QED
  BY <1>1, <1>2, <1>3, <1>4 DEF Effect, RequestFrame, AtOnce, Passes

LEMMA RequestEffect ==
    ASSUME TypeInv, NEW w \in Workers, Request(w)
    PROVE  Idle(w) /\ Effect(w)
<1> USE DEF Effect
<1>w. wrong \in [Codes -> Nat]
  BY DEF TypeInv, TypeOK
<1>0. Idle(w)
  BY DEF Request
<1>1. ASSUME NEW id \in Ids, NEW p \in Purposes, SendCode(w, id, p) PROVE Effect(w)
  BY <1>1, <1>w, SendRequests DEF SendCode, Enter, RequestFrame, codes
<1>2. ASSUME NEW id \in Ids, LoginVerification(w, id) PROVE Effect(w)
  BY <1>2, <1>w, CodeRequests DEF LoginVerification, EnterCode, Enter, RequestFrame, codes
<1>3. ASSUME NEW id \in Ids, NEW pw \in Passwords, LoginPassword(w, id, pw) PROVE Effect(w)
  BY <1>3, <1>w, PasswordRequests DEF LoginPassword, Enter, RequestFrame, codes
<1>4. ASSUME NEW id \in Ids, NEW pw \in Passwords, RegisterPassword(w, id, pw) PROVE Effect(w)
  BY <1>4, <1>w, PasswordRequests DEF RegisterPassword, Enter, RequestFrame, codes
<1>5. ASSUME NEW id \in Ids, NEW pw \in Passwords, PasswordReset(w, id, pw) PROVE Effect(w)
  BY <1>5, <1>w, CodeRequests DEF PasswordReset, EnterCode, Enter, RequestFrame, codes
<1>6. ASSUME NEW u \in Users, NEW id \in Ids, BindIdentity(w, u, id) PROVE Effect(w)
  BY <1>6, <1>w, CodeRequests DEF BindIdentity, EnterCode, Enter, RequestFrame, codes
<1>7. ASSUME NEW u \in Users, NEW id \in Ids, UnbindIdentity(w, u, id) PROVE Effect(w)
  BY <1>7, <1>w, AccountRequests DEF UnbindIdentity, Enter, RequestFrame, codes
<1>8. ASSUME NEW t \in Tokens, Refresh(w, t) PROVE Effect(w)
  BY <1>8, <1>w, TokenRequests DEF Refresh, Enter, RequestFrame, codes
<1>9. ASSUME NEW t \in Tokens, Logout(w, t) PROVE Effect(w)
  BY <1>9, <1>w, TokenRequests DEF Logout, RevokeNow, AtOnce, RequestFrame, codes
<1>10. ASSUME NEW t \in Tokens, NEW u \in Users, RevokeSession(w, u, t) PROVE Effect(w)
  BY <1>10, <1>w, TokenRequests DEF RevokeSession, RevokeNow, AtOnce, RequestFrame, codes
<1>11. ASSUME NEW u \in Users, LogoutAll(w, u) PROVE Effect(w)
  BY <1>11, <1>w, TokenRequests DEF LogoutAll, AtOnce, RequestFrame, codes
<1>12. ASSUME NEW u \in CoreUsers, EnsureLocalUser(w, u) PROVE Effect(w)
  <2>1. u \in Users
    BY <1>12, ConstantFacts
  <2> QED
    BY <1>12, <2>1, <1>w, AccountRequests DEF EnsureLocalUser, Enter, RequestFrame, codes
<1>13. ASSUME NEW u \in Users, NEW old \in Passwords, NEW pw \in Passwords,
              NEW k \in Tokens \cup {NoToken}, PasswordChange(w, u, old, pw, k)
       PROVE  Effect(w)
  BY <1>13, <1>w, AccountRequests DEF PasswordChange, Enter, RequestFrame, codes
<1> HIDE DEF Effect
<1>14. "reset" \in Purposes
  OBVIOUS
<1> QED
  BY <1>0, <1>1, <1>2, <1>3, <1>4, <1>5, <1>6, <1>7, <1>8, <1>9, <1>10, <1>11, <1>12, <1>13, <1>14,
     RefuseEffect DEF Request, SmsSend, EmailSend, PasswordForgot, LoginPhone

-----------------------------------------------------------------------------
(* What every step of a request does to the tables.                        *)

(* Identities belong to one user, what a registration creates is there,    *)
(* and nobody's password has been reset before that.                       *)
AccountInv ==
    /\ \A u, v \in Users : user[u].row /\ user[v].row
                           /\ Identities(user[u]) \cap Identities(user[v]) # {} => u = v
    /\ \A u \in Users : user[u].row => user[u].org /\ (u \notin CoreUsers => user[u].plan)
    /\ \A u \in Users : ~user[u].row => resets[u] = 0

Taken(id, u) == \E v \in Users \ {u} : user[v].row /\ id \in Identities(user[v])

LEMMA OwnIdentities ==
    ASSUME AccountInv, NEW u \in Users, user[u].row
    PROVE  \A id \in Identities(user[u]) : ~Taken(id, u)
BY DEF Taken, AccountInv

UserStep ==
    \/ UNCHANGED user
    \/ \E u \in Users, r \in Account :
          /\ user' = [user EXCEPT ![u] = r]
          /\ r.row /\ r.org /\ (u \notin CoreUsers => r.plan)
          /\ \A id \in Identities(r) : ~Taken(id, u)

TokenStep ==
    \/ UNCHANGED token
    \/ \E T \in SUBSET LiveOnes : token' = Revoke(T)
    \/ \E n \in NextToken, u \in Users, r \in Nat :
          user'[u].row /\ token' = Issue(n, u, r, now)
    \/ \E n \in NextToken, o \in Tokens :
          token[o].st # "none" /\ token' = Rotate(o, n, now)

Moves(w) ==
    /\ \E t \in Txn : txn' = [txn EXCEPT ![w] = t] /\ Holds(t)'
    /\ UserStep /\ TokenStep
    /\ code' \in [Codes -> Code] /\ accepted' \in [Codes -> Nat] /\ UNCHANGED wrong
    /\ chosen' \in [Users -> Passwords \cup {NoPw}] /\ resets' \in [Users -> Nat]
    /\ \A u \in Users : resets'[u] = resets[u] \/ user[u].row
    /\ UNCHANGED <<now, requests, overlapped>>

LEMMA LeaveMoves ==
    ASSUME TypeInv, NEW w \in Workers, Leave(w)
    PROVE  /\ \E t \in Txn : txn' = [txn EXCEPT ![w] = t] /\ Holds(t)'
           /\ UNCHANGED <<requests, overlapped>>
BY IdleHolds, NoTxnType DEF Leave, Go

LEMMA UseCodeType ==
    ASSUME TypeInv, NEW c \in Codes \cup {NoCode}, UseCode(c)
    PROVE  code' \in [Codes -> Code] /\ accepted' \in [Codes -> Nat] /\ UNCHANGED wrong
<1>1. CASE c = NoCode
  BY <1>1 DEF UseCode, codes, TypeInv, TypeOK
<1>2. CASE c # NoCode
  <2>1. code' = [code EXCEPT ![c].st = "used"] /\ accepted' = [accepted EXCEPT ![c] = @ + 1] /\ UNCHANGED wrong
    BY <1>2 DEF UseCode
  <2>2. c \in Codes /\ [code[c] EXCEPT !.st = "used"] \in Code
    BY <1>2 DEF TypeInv, TypeOK, Code
  <2> QED
    BY <2>1, <2>2 DEF TypeInv, TypeOK
<1> QED
  BY <1>1, <1>2

LEMMA QuietMoves ==
    ASSUME TypeInv, NEW w \in Workers, NEW t \in Txn, txn' = [txn EXCEPT ![w] = t], Holds(t)',
           UNCHANGED <<codes, token, accounts, now, requests, overlapped>>
    PROVE  Moves(w)
BY DEF TypeInv, TypeOK, Moves, UserStep, TokenStep, codes, accounts

LEMMA AbortMoves == ASSUME TypeInv, NEW w \in Workers, Abort(w) PROVE Moves(w)
BY QuietMoves, IdleHolds, NoTxnType DEF Abort, Leave, Go

LEMMA SendMoves == ASSUME TypeInv, NEW w \in Workers, SendCommit(w) PROVE Moves(w)
<1>1. PICK c \in Unwritten : code' = [code EXCEPT ![c] = NewRow(txn[w].id, txn[w].for)]
  BY DEF SendCommit
<1>2. c \in Codes /\ txn[w].id \in Ids /\ txn[w].for \in Purposes /\ now \in Nat
  BY <1>1 DEF Unwritten, TypeInv, TypeOK, Holds, SendCommit, Txn
<1>3. NewRow(txn[w].id, txn[w].for) \in Code
  BY <1>2 DEF NewRow, Code
<1>4. code' \in [Codes -> Code]
  BY <1>1, <1>2, <1>3 DEF TypeInv, TypeOK
<1> QED
  BY <1>4, LeaveMoves DEF SendCommit, Moves, UserStep, TokenStep, accounts, TypeInv, TypeOK

LEMMA LoadMoves ==
    ASSUME TypeInv, NEW w \in Workers, txn[w].pc = "code", NEW u \in Users, user[u].row,
           LoadUser(w, u)
    PROVE  Moves(w)
<1>1. /\ txn[w] \in Txn /\ Holds(txn[w]) /\ txn[w].for \in Purposes
      /\ user[u] \in Account /\ resets[u] \in Nat
  BY DEF TypeInv, TypeOK, Txn
<1>2. PICK t : t = [txn[w] EXCEPT !.pc = txn[w].for, !.user = u, !.row = user[u], !.resets = resets[u]]
  OBVIOUS
<1>3. /\ t \in Txn /\ t.pc = txn[w].for /\ t.user = u /\ t.id = txn[w].id /\ t.pw = txn[w].pw
  BY <1>1, <1>2 DEF Txn
<1>4. txn' = [txn EXCEPT ![w] = t] /\ UNCHANGED <<codes, token, accounts, now, requests, overlapped>>
  BY <1>2 DEF LoadUser, Go
<1>5. user' = user
  BY <1>4 DEF accounts
<1>6. Holds(t)'
  BY <1>1, <1>3, <1>5 DEF Holds
<1> QED
  BY <1>3, <1>4, <1>6, QuietMoves

LEMMA CodeAnswered ==
    ASSUME TypeInv, NEW w \in Workers, CodeFlushed(w)
    PROVE  txn[w].pc = "code" /\ txn[w].code \in Codes /\ txn[w].id \in Ids
BY DEF CodeFlushed, TypeInv, Holds

LEMMA LoadsMove ==
    ASSUME TypeInv, NEW w \in Workers, LoginKnown(w) \/ ResetLoad(w) \/ BindLoad(w)
    PROVE  Moves(w)
<1>1. CASE LoginKnown(w) \/ ResetLoad(w)
  <2>1. PICK u \in OwnersOf(txn[w].id) : LoadUser(w, u)
    BY <1>1 DEF LoginKnown, ResetLoad
  <2>2. u \in Users /\ user[u].row
    BY <2>1 DEF OwnersOf, Exists
  <2> QED
    BY <1>1, <2>1, <2>2, CodeAnswered, LoadMoves DEF LoginKnown, ResetLoad
<1>2. CASE BindLoad(w)
  <2>1. txn[w].pc = "code" /\ txn[w].for = "bind" /\ LoadUser(w, txn[w].user)
    BY <1>2, CodeAnswered DEF BindLoad
  <2>2. txn[w].user \in Users /\ user[txn[w].user].row
    BY <2>1 DEF TypeInv, Holds
  <2> QED
    BY <2>1, <2>2, LoadMoves
<1> QED
  BY <1>1, <1>2

LEMMA UnknownMoves == ASSUME TypeInv, NEW w \in Workers, LoginUnknown(w) PROVE Moves(w)
<1>1. txn[w].pc = "code" /\ txn[w].id \in Ids /\ txn[w] \in Txn
  BY CodeAnswered DEF LoginUnknown, TypeInv, TypeOK
<1>2. PICK t : t = [txn[w] EXCEPT !.pc = "register"]
  OBVIOUS
<1>3. t \in Txn /\ t.pc = "register" /\ t.id \in Ids
  BY <1>1, <1>2 DEF Txn
<1>4. txn' = [txn EXCEPT ![w] = t] /\ UNCHANGED <<codes, token, accounts, now, requests, overlapped>>
  BY <1>2 DEF LoginUnknown, Go
<1>5. Holds(t)'
  BY <1>3 DEF Holds
<1> QED
  BY <1>3, <1>4, <1>5, QuietMoves

(* The rows of a user are written: by a login, ...                         *)
LEMMA LoginMoves == ASSUME TypeInv, AccountInv, NEW w \in Workers, LoginCommit(w) PROVE Moves(w)
<1> DEFINE t == txn[w]
<1>1. /\ t \in Txn /\ t.pc = "login" /\ t.user \in Users /\ user[t.user].row
      /\ user[t.user] \in Account
  BY DEF LoginCommit, TypeInv, TypeOK, Holds
<1>2. PICK r : r = Rehash(user[t.user], t.row, t.pw)
  OBVIOUS
<1>3. r \in Account /\ r.row /\ r.org /\ (t.user \notin CoreUsers => r.plan)
      /\ Identities(r) = Identities(user[t.user])
  BY <1>1, <1>2, RehashType DEF Txn, AccountInv
<1>4. user' = [user EXCEPT ![t.user] = r]
  BY <1>2 DEF LoginCommit
<1>5. UserStep
  BY <1>1, <1>3, <1>4, OwnIdentities DEF UserStep
<1>6. PICK n \in NextToken : token' = Issue(n, t.user, t.resets, now)
  BY DEF LoginCommit
<1>7. TokenStep
  BY <1>1, <1>3, <1>4, <1>6 DEF TokenStep, Txn, TypeInv, TypeOK
<1>8. UseCode(t.code) /\ t.code \in Codes \cup {NoCode} /\ Leave(w) /\ UNCHANGED <<chosen, resets, now>>
  BY <1>1 DEF LoginCommit, Txn
<1> QED
  BY <1>5, <1>7, <1>8, LeaveMoves, UseCodeType DEF Moves, TypeInv, TypeOK

LEMMA RegisterMoves == ASSUME TypeInv, NEW w \in Workers, CreateAccount(w) PROVE Moves(w)
<1> DEFINE t == txn[w]
<1>1. t \in Txn /\ t.pc = "register" /\ t.id \in Ids /\ t.pw \in Passwords \cup {NoPw} /\ Free(t.id)
  BY DEF CreateAccount, TypeInv, TypeOK, Holds, Txn
<1>2. PICK u \in Users, n \in NextToken :
         /\ user' = [user EXCEPT ![u] = Registered(t.id, t.pw)]
         /\ token' = Issue(n, u, 0, now)
         /\ chosen' = [chosen EXCEPT ![u] = t.pw]
  BY DEF CreateAccount
<1>3. PICK r : r = Registered(t.id, t.pw)
  OBVIOUS
<1>4. r \in Account /\ r.row /\ r.org /\ r.plan /\ Identities(r) = {t.id}
  BY <1>1, <1>3, RegisteredType
<1>5. UserStep
  <2>1. \A v \in Users : ~(user[v].row /\ t.id \in Identities(user[v]))
    BY <1>1 DEF Free, OwnersOf, Exists
  <2>2. \A id \in Identities(r) : ~Taken(id, u)
    BY <1>4, <2>1 DEF Taken
  <2>3. user' = [user EXCEPT ![u] = r]
    BY <1>2, <1>3
  <2> QED
    BY <1>4, <2>2, <2>3 DEF UserStep
<1>6. TokenStep
  BY <1>2, <1>3, <1>4 DEF TokenStep, TypeInv, TypeOK
<1>7. UseCode(t.code) /\ t.code \in Codes \cup {NoCode} /\ Leave(w) /\ UNCHANGED <<resets, now>>
  BY <1>1 DEF CreateAccount, Txn
<1> QED
  BY <1>1, <1>2, <1>5, <1>6, <1>7, LeaveMoves, UseCodeType DEF Moves, TypeInv, TypeOK

LEMMA RefreshMoves == ASSUME TypeInv, NEW w \in Workers, RefreshCommit(w) PROVE Moves(w)
<1>1. txn[w].token \in Tokens /\ token[txn[w].token].st # "none"
  BY DEF RefreshCommit, TypeInv, Holds
<1>2. TokenStep
  BY <1>1 DEF RefreshCommit, TokenStep
<1> QED
  BY <1>2, LeaveMoves DEF RefreshCommit, Moves, UserStep, codes, accounts, TypeInv, TypeOK

(* ... by a password that is set, ...                                      *)
LEMMA SetPasswordStep ==
    ASSUME TypeInv, AccountInv, NEW u \in Users, user[u].row, NEW pw \in Passwords, SetPassword(u, pw)
    PROVE  UserStep /\ chosen' \in [Users -> Passwords \cup {NoPw}]
<1>1. PICK r : r = [user[u] EXCEPT !.pw = pw, !.bcrypt = FALSE]
  OBVIOUS
<1>2. user[u] \in Account
  BY DEF TypeInv, TypeOK
<1>3. r \in Account /\ r.row /\ r.org /\ (u \notin CoreUsers => r.plan) /\ Identities(r) = Identities(user[u])
  BY <1>1, <1>2 DEF Account, Identities, AccountInv
<1>4. user' = [user EXCEPT ![u] = r] /\ chosen' = [chosen EXCEPT ![u] = pw]
  BY <1>1, <1>2 DEF SetPassword, TypeInv, TypeOK
<1> QED
  BY <1>3, <1>4, OwnIdentities DEF UserStep, TypeInv, TypeOK


(* ... which a reset and a change do, ...                                  *)
LEMMA ResetMoves == ASSUME TypeInv, AccountInv, NEW w \in Workers, ResetCommit(w) PROVE Moves(w)
<1> DEFINE t == txn[w]
<1>1. /\ t \in Txn /\ t.user \in Users /\ user[t.user].row /\ t.pw \in Passwords
      /\ t.code \in Codes \cup {NoCode}
  BY DEF ResetCommit, TypeInv, TypeOK, Holds, Txn
<1>2. UserStep /\ chosen' \in [Users -> Passwords \cup {NoPw}]
  BY <1>1, SetPasswordStep DEF ResetCommit
<1>3. TokenStep
  BY DEF ResetCommit, RevokeAll, LiveTokens, LiveOnes, TokenStep
<1>4. resets' \in [Users -> Nat] /\ \A u \in Users : resets'[u] = resets[u] \/ user[u].row
  BY <1>1 DEF ResetCommit, TypeInv, TypeOK
<1>5. UseCode(t.code) /\ Leave(w) /\ UNCHANGED now
  BY DEF ResetCommit
<1> QED
  BY <1>1, <1>2, <1>3, <1>4, <1>5, LeaveMoves, UseCodeType DEF Moves

LEMMA ChangeMoves == ASSUME TypeInv, AccountInv, NEW w \in Workers, ChangeCommit(w) PROVE Moves(w)
<1> DEFINE t == txn[w]
<1>1. t.user \in Users /\ user[t.user].row /\ t.pw \in Passwords
  BY DEF ChangeCommit, TypeInv, TypeOK, Holds
<1>2. UserStep /\ chosen' \in [Users -> Passwords \cup {NoPw}]
  BY <1>1, SetPasswordStep DEF ChangeCommit
<1>3. TokenStep
  BY DEF ChangeCommit, RevokeOthers, LiveTokens, LiveOnes, TokenStep
<1> QED
  BY <1>2, <1>3, LeaveMoves DEF ChangeCommit, Moves, codes, TypeInv, TypeOK

(* ... by an identity that is bound or unbound, ...                        *)
LEMMA BindMoves == ASSUME TypeInv, AccountInv, NEW w \in Workers, BindCommit(w) PROVE Moves(w)
<1> DEFINE t == txn[w]
<1>1. /\ t \in Txn /\ t.user \in Users /\ user[t.user].row /\ t.id \in Ids
      /\ user[t.user] \in Account /\ t.code \in Codes \cup {NoCode} /\ NotOthers(t.id, t.user)
  BY DEF BindCommit, TypeInv, TypeOK, Holds, Txn
<1>2. PICK r : r = Bind(user[t.user], t.id)
  OBVIOUS
<1>3. r \in Account /\ r.row /\ r.org /\ (t.user \notin CoreUsers => r.plan)
      /\ Identities(r) \subseteq Identities(user[t.user]) \cup {t.id}
  BY <1>1, <1>2, BindType DEF AccountInv
<1>4. user' = [user EXCEPT ![t.user] = r]
  BY <1>2 DEF BindCommit
<1>5. ~Taken(t.id, t.user)
  BY <1>1 DEF Taken, NotOthers, OwnersOf, Exists
<1>6. \A id \in Identities(user[t.user]) : ~Taken(id, t.user)
  BY <1>1, OwnIdentities
<1>7. UserStep
  BY <1>1, <1>3, <1>4, <1>5, <1>6 DEF UserStep
<1>8. UseCode(t.code) /\ Leave(w) /\ UNCHANGED <<token, chosen, resets, now>>
  BY DEF BindCommit
<1> QED
  BY <1>1, <1>7, <1>8, LeaveMoves, UseCodeType DEF Moves, TokenStep, TypeInv, TypeOK

LEMMA UnbindMoves == ASSUME TypeInv, AccountInv, NEW w \in Workers, UnbindCommit(w) PROVE Moves(w)
<1> DEFINE t == txn[w]
<1>1. t.user \in Users /\ user[t.user].row /\ user[t.user] \in Account
  BY DEF UnbindCommit, TypeInv, TypeOK, Holds
<1>2. PICK r : r = IF t.id \in Phones THEN [user[t.user] EXCEPT !.phone = NoId]
                                      ELSE [user[t.user] EXCEPT !.email = NoId]
  OBVIOUS
<1>3. r \in Account /\ r.row /\ r.org /\ (t.user \notin CoreUsers => r.plan)
      /\ Identities(r) \subseteq Identities(user[t.user])
  BY <1>1, <1>2 DEF AccountInv, Account, Identities
<1>4. user' = [user EXCEPT ![t.user] = r]
  BY <1>2 DEF UnbindCommit
<1>5. \A id \in Identities(user[t.user]) : ~Taken(id, t.user)
  BY <1>1, OwnIdentities
<1>6. UserStep
  BY <1>1, <1>3, <1>4, <1>5 DEF UserStep
<1> QED
  BY <1>6, LeaveMoves DEF UnbindCommit, Moves, TokenStep, codes, TypeInv, TypeOK

(* ... and by the bridge.                                                  *)
LEMMA OrgMoves ==
    ASSUME TypeInv, NEW w \in Workers, EnsurePersonalOrg(w) \/ BridgeConflict(w)
    PROVE  /\ Moves(w) /\ UNCHANGED <<codes, token, accounts>>
           /\ txn'[w].pc = "bridge" /\ txn'[w].code = txn[w].code
           /\ txn'[w].id = txn[w].id /\ txn'[w].for = txn[w].for
<1>1. txn[w] \in Txn /\ txn[w].user \in CoreUsers /\ txn[w].id \in Emails /\ OrgOnly \in Account
  BY NoTxnType DEF EnsurePersonalOrg, BridgeConflict, TypeInv, TypeOK, Holds, OrgOnly, NoAccount, Account
<1>2. PICK row \in {NoAccount, OrgOnly}, n \in Nat :
        Go(w, [txn[w] EXCEPT !.pc = "bridge", !.row = row, !.tries = n])
  <2>1. CASE EnsurePersonalOrg(w)
    <3>1. [txn[w] EXCEPT !.pc = "bridge", !.row = OrgOnly, !.tries = txn[w].tries]
          = [txn[w] EXCEPT !.pc = "bridge", !.row = OrgOnly] /\ txn[w].tries \in Nat
      BY <1>1 DEF Txn
    <3> QED
      BY <2>1, <3>1 DEF EnsurePersonalOrg, OrgOnly
  <2>2. CASE BridgeConflict(w)
    <3>1. /\ txn[w].pc = "bridge"
          /\ Go(w, [txn[w] EXCEPT !.row = NoAccount, !.tries = @ + 1])
      BY <2>2 DEF BridgeConflict
    <3>2. PICK q : q = txn[w]
      OBVIOUS
    <3>3. q \in Txn /\ q.pc = "bridge" /\ q.tries + 1 \in Nat
      BY <1>1, <3>1, <3>2 DEF Txn
    <3>4. [q EXCEPT !.pc = "bridge", !.row = NoAccount, !.tries = q.tries + 1]
          = [q EXCEPT !.row = NoAccount, !.tries = @ + 1]
      BY <3>3 DEF Txn
    <3> QED
      BY <3>1, <3>2, <3>3, <3>4
  <2> QED
    BY <2>1, <2>2
<1>3. PICK t : t = [txn[w] EXCEPT !.pc = "bridge", !.row = row, !.tries = n]
  OBVIOUS
<1>4. /\ t \in Txn /\ t.pc = "bridge" /\ t.user = txn[w].user /\ t.id = txn[w].id
      /\ t.row = row /\ t.code = txn[w].code /\ t.for = txn[w].for
  BY <1>1, <1>3, NoTxnType DEF Txn
<1>5. Holds(t)'
  BY <1>1, <1>4 DEF Holds
<1>6. txn' = [txn EXCEPT ![w] = t] /\ UNCHANGED <<codes, token, accounts, now, requests, overlapped>>
  BY <1>2, <1>3 DEF Go, EnsurePersonalOrg, BridgeConflict
<1>7. txn'[w] = t
  BY <1>6 DEF TypeInv, TypeOK
<1> QED
  BY <1>4, <1>5, <1>6, <1>7, QuietMoves

LEMMA BridgeMoves == ASSUME TypeInv, NEW w \in Workers, BridgeCommit(w) PROVE Moves(w)
<1> DEFINE t == txn[w]
<1>1. t.user \in CoreUsers /\ t.user \in Users /\ t.id \in Emails /\ t.row \in {NoAccount, OrgOnly}
  BY ConstantFacts DEF BridgeCommit, TypeInv, TypeOK, Holds
<1>2. UserStep
  <2>1. CASE UNCHANGED user
    BY <2>1 DEF UserStep
  <2>2. CASE MayInsert(t) /\ user' = [user EXCEPT ![t.user] = ShadowAccount(t.row, t.id)]
    <3>1. PICK r : r = ShadowAccount(t.row, t.id)
      OBVIOUS
    <3>2. r \in Account /\ r.row /\ r.org /\ Identities(r) = {t.id}
      BY <1>1, <2>2, <3>1, ShadowType DEF MayInsert
    <3>3. \A id \in Identities(r) : ~Taken(id, t.user)
      BY <2>2, <3>2 DEF Taken, MayInsert, Free, OwnersOf, Exists
    <3>4. user' = [user EXCEPT ![t.user] = r]
      BY <2>2, <3>1
    <3> QED
      BY <1>1, <3>2, <3>3, <3>4 DEF UserStep
  <2> QED
    BY <2>1, <2>2 DEF BridgeCommit
<1> QED
  BY <1>2, LeaveMoves DEF BridgeCommit, Moves, TokenStep, codes, TypeInv, TypeOK

LEMMA StepMoves ==
    ASSUME TypeInv, AccountInv, NEW w \in Workers, Step(w) \/ Abort(w)
    PROVE  Moves(w)
BY AbortMoves, SendMoves, LoadsMove, UnknownMoves, LoginMoves, RegisterMoves, RefreshMoves,
   ResetMoves, ChangeMoves, BindMoves, UnbindMoves, OrgMoves, BridgeMoves DEF Step


-----------------------------------------------------------------------------
(* Chains of tokens.                                                       *)

ChainsFrom(t) ==
    token[t].prev # NoToken =>
        LET p == token[t].prev
        IN /\ p \in Tokens /\ p < t /\ token[t].st # "none"
           /\ token[p].st = "revoked" /\ token[p].next \in Tokens /\ token[token[p].next].prev = p
           /\ token[t].user = token[p].user /\ token[t].root = token[p].root

Issued(t) ==
    /\ token[t].st = "none" => token[t] = Unissued
    /\ token[t].st # "none" => /\ token[t].user \in Users /\ user[token[t].user].row
                               /\ token[t].root \in Tokens /\ token[token[t].root].st # "none"

TokenInv ==
    /\ \A t \in Tokens : Issued(t) /\ ChainsFrom(t)
    /\ \A s, t \in Tokens : s < t /\ token[t].st # "none" => token[s].st # "none"

LEMMA RevokeFacts ==
    ASSUME token \in [Tokens -> Token], NEW T \in SUBSET Tokens, token' = Revoke(T)
    PROVE  /\ token' \in [Tokens -> Token]
           /\ \A t \in Tokens : /\ token'[t].user = token[t].user /\ token'[t].next = token[t].next
                                /\ token'[t].prev = token[t].prev
                                /\ token'[t].root = token[t].root
                                /\ token'[t].resets = token[t].resets
                                /\ t \in T => token'[t].st = "revoked"
                                /\ t \notin T => token'[t] = token[t]
<1>1. ASSUME NEW t \in Tokens
      PROVE  /\ token'[t] \in Token
             /\ token'[t].user = token[t].user /\ token'[t].next = token[t].next
             /\ token'[t].prev = token[t].prev
             /\ token'[t].root = token[t].root /\ token'[t].resets = token[t].resets
             /\ t \in T => token'[t].st = "revoked"
             /\ t \notin T => token'[t] = token[t]
  <2>1. token[t] \in Token /\ token'[t] = IF t \in T THEN [token[t] EXCEPT !.st = "revoked"] ELSE token[t]
    BY DEF Revoke
  <2> QED
    BY <2>1 DEF Token
<1>2. token' \in [Tokens -> Token]
  <2>1. token' = [t \in Tokens |-> token'[t]]
    BY DEF Revoke
  <2> QED
    BY <1>1, <2>1
<1> QED
  BY <1>1, <1>2

(* Tokens are issued in turn, and a new one is in no chain.                *)
LEMMA NextTokenFacts ==
    ASSUME NEW n \in NextToken
    PROVE  n \in Tokens /\ token[n].st = "none" /\ n # NoToken /\ \A s \in Tokens : s < n => token[s].st # "none"
BY DEF NextToken, Tokens

LEMMA NewTokenType ==
    ASSUME NEW u \in Users, NEW root \in Tokens, NEW r \in Nat, NEW at \in Nat
    PROVE  LET k == NewToken(u, root, r, at) IN
           /\ k \in Token /\ k.st = "live" /\ k.user = u /\ k.root = root /\ k.resets = r /\ k.prev = NoToken
<1>1. PICK b : b = Unissued
  OBVIOUS
<1>2. b \in Token /\ b.prev = NoToken /\ at + TokenTTL \in Nat
  BY <1>1, UnissuedType, TokenAssumption DEF Unissued
<1>3. NewToken(u, root, r, at) = [b EXCEPT !.st = "live", !.user = u, !.expires = at + TokenTTL,
                                           !.root = root, !.resets = r]
  BY <1>1 DEF NewToken
<1> QED
  BY <1>2, <1>3 DEF Token

LEMMA IssueFacts ==
    ASSUME token \in [Tokens -> Token], now \in Nat, NEW n \in NextToken, NEW u \in Users, NEW r \in Nat,
           token' = Issue(n, u, r, now)
    PROVE  /\ token' \in [Tokens -> Token]
           /\ token'[n].st = "live" /\ token'[n].user = u /\ token'[n].root = n
           /\ token'[n].resets = r /\ token'[n].prev = NoToken
           /\ \A t \in Tokens \ {n} : token'[t] = token[t]
<1>1. PICK k : k = NewToken(u, n, r, now)
  OBVIOUS
<1>2. k \in Token /\ k.st = "live" /\ k.user = u /\ k.root = n /\ k.resets = r /\ k.prev = NoToken
  BY <1>1, NewTokenType, NextTokenFacts
<1>3. token' = [token EXCEPT ![n] = k]
  BY <1>1 DEF Issue
<1> QED
  BY <1>2, <1>3, NextTokenFacts

LEMMA RotateFacts ==
    ASSUME token \in [Tokens -> Token], now \in Nat, NEW n \in NextToken, NEW o \in Tokens,
           token[o].st # "none", token[o].user \in Users, token[o].root \in Tokens,
           token' = Rotate(o, n, now)
    PROVE  /\ token' \in [Tokens -> Token] /\ n # o
           /\ token'[n].st = "live" /\ token'[n].user = token[o].user /\ token'[n].root = token[o].root
           /\ token'[n].resets = token[o].resets /\ token'[n].prev = o
           /\ token'[o].st = "revoked" /\ token'[o].user = token[o].user
           /\ token'[o].root = token[o].root /\ token'[o].resets = token[o].resets
           /\ token'[o].next = n /\ token'[o].prev = token[o].prev
           /\ \A t \in Tokens \ {n, o} : token'[t] = token[t]
<1>1. PICK k : k = Descendant(o, now)
  OBVIOUS
<1>2. token[o] \in Token /\ n \in Tokens /\ n # o
  BY NextTokenFacts
<1>3. /\ k \in Token /\ k.st = "live" /\ k.user = token[o].user /\ k.root = token[o].root
      /\ k.resets = token[o].resets /\ k.prev = o
  <2>1. PICK j : j = NewToken(token[o].user, token[o].root, token[o].resets, now)
    OBVIOUS
  <2>0. token[o].resets \in Nat
    BY <1>2 DEF Token
  <2>2. /\ j \in Token /\ j.st = "live" /\ j.user = token[o].user /\ j.root = token[o].root
        /\ j.resets = token[o].resets
    BY <2>0, <2>1, NewTokenType
  <2>3. k = [j EXCEPT !.prev = o]
    BY <1>1, <2>1 DEF Descendant
  <2> QED
    BY <2>2, <2>3 DEF Token
<1>4. PICK m : m = [[token[o] EXCEPT !.st = "revoked"] EXCEPT !.next = n]
  OBVIOUS
<1>5. /\ m \in Token /\ m.st = "revoked" /\ m.user = token[o].user /\ m.root = token[o].root
      /\ m.resets = token[o].resets /\ m.next = n /\ m.prev = token[o].prev
  BY <1>2, <1>4 DEF Token
<1>6. token' = [[token EXCEPT ![o] = m] EXCEPT ![n] = k]
  <2>1. token' = [token EXCEPT ![o].st = "revoked", ![o].next = n, ![n] = k]
    BY <1>1 DEF Rotate
  <2> QED
    BY <1>2, <1>4, <2>1
<1> QED
  BY <1>2, <1>3, <1>5, <1>6


(* Whatever happens to the tokens, their owners exist and go on existing.  *)
LEMMA RevokeKeeps ==
    ASSUME token \in [Tokens -> Token], TokenInv, \A u \in Users : user[u].row => user'[u].row,
           NEW T \in SUBSET LiveOnes, token' = Revoke(T)
    PROVE  TokenInv'
<1>1. T \in SUBSET Tokens /\ \A t \in T : token[t].st = "live"
  BY DEF LiveOnes
<1>2. \A t \in Tokens : /\ token'[t].user = token[t].user /\ token'[t].next = token[t].next
                        /\ token'[t].prev = token[t].prev
                        /\ token'[t].root = token[t].root
                        /\ token'[t].st = "none" <=> token[t].st = "none"
                        /\ token[t].st # "live" => token'[t] = token[t]
  BY <1>1, RevokeFacts
<1>3. ASSUME NEW t \in Tokens PROVE Issued(t)' /\ ChainsFrom(t)'
  <2>1. Issued(t) /\ ChainsFrom(t)
    BY DEF TokenInv
  <2>2. Issued(t)'
    BY <1>2, <2>1 DEF Issued
  <2>3. ChainsFrom(t)'
    BY <1>2, <2>1 DEF ChainsFrom
  <2> QED
    BY <2>2, <2>3
<1>4. \A s, t \in Tokens : s < t /\ token'[t].st # "none" => token'[s].st # "none"
  BY <1>2 DEF TokenInv
<1> QED
  BY <1>3, <1>4 DEF TokenInv

LEMMA IssueKeeps ==
    ASSUME token \in [Tokens -> Token], now \in Nat, TokenInv, \A u \in Users : user[u].row => user'[u].row,
           NEW n \in NextToken, NEW u \in Users, NEW r \in Nat, user'[u].row,
           token' = Issue(n, u, r, now)
    PROVE  TokenInv'
<1>1. n \in Tokens /\ token[n].st = "none" /\ n # NoToken /\ \A s \in Tokens : s < n => token[s].st # "none"
  BY NextTokenFacts
<1>2. /\ token'[n].st = "live" /\ token'[n].user = u /\ token'[n].root = n /\ token'[n].prev = NoToken
      /\ \A t \in Tokens : t # n => token'[t] = token[t]
  BY IssueFacts
<1>3. ASSUME NEW t \in Tokens, t # n PROVE Issued(t)' /\ ChainsFrom(t)'
  <2>1. Issued(t) /\ ChainsFrom(t) /\ token'[t] = token[t]
    BY <1>2, <1>3 DEF TokenInv
  <2>2. Issued(t)'
    BY <1>1, <1>2, <2>1 DEF Issued
  <2>3. ASSUME token[t].prev = NoToken PROVE ChainsFrom(t)'
    <3>1. token'[t].prev = NoToken
      BY <2>1, <2>3
    <3> QED
      BY <3>1 DEF ChainsFrom
  <2>4. ASSUME NEW p \in Tokens, p = token[t].prev PROVE ChainsFrom(t)'
    <3>1. /\ p < t /\ token[t].st # "none"
          /\ token[p].st = "revoked" /\ token[p].next \in Tokens /\ token[token[p].next].prev = p
          /\ token[t].user = token[p].user /\ token[t].root = token[p].root
      BY <2>1, <2>4, ConstantFacts DEF ChainsFrom
    <3>2. token[n].prev = NoToken
      BY <1>1 DEF TokenInv, Issued, Unissued
    <3>3. p # n /\ token[p].next # n
      BY <1>1, <3>1, <3>2, ConstantFacts
    <3>4. token'[p] = token[p] /\ token'[token[p].next].prev = p
      BY <1>2, <3>1, <3>3
    <3> QED
      BY <2>1, <2>4, <3>1, <3>4 DEF ChainsFrom
  <2>5. ChainsFrom(t)'
    BY <2>1, <2>3, <2>4 DEF ChainsFrom
  <2> QED
    BY <2>2, <2>5
<1>4. Issued(n)' /\ ChainsFrom(n)'
  BY <1>1, <1>2 DEF Issued, ChainsFrom
<1>5. \A s, t \in Tokens : s < t /\ token'[t].st # "none" => token'[s].st # "none"
  BY <1>1, <1>2 DEF TokenInv
<1> QED
  BY <1>3, <1>4, <1>5 DEF TokenInv

LEMMA RotateKeeps ==
    ASSUME token \in [Tokens -> Token], now \in Nat, TokenInv, \A u \in Users : user[u].row => user'[u].row,
           NEW n \in NextToken, NEW o \in Tokens, token[o].st # "none", token' = Rotate(o, n, now)
    PROVE  TokenInv'
<1>1. n \in Tokens /\ token[n].st = "none" /\ n # NoToken /\ \A s \in Tokens : s < n => token[s].st # "none"
  BY NextTokenFacts
<1>2. /\ token[o].user \in Users /\ user[token[o].user].row
      /\ token[o].root \in Tokens /\ token[token[o].root].st # "none"
  BY DEF TokenInv, Issued
<1>3. /\ n # o
      /\ token'[n].st = "live" /\ token'[n].user = token[o].user /\ token'[n].root = token[o].root
      /\ token'[n].prev = o
      /\ token'[o].st = "revoked" /\ token'[o].user = token[o].user
      /\ token'[o].root = token[o].root /\ token'[o].next = n /\ token'[o].prev = token[o].prev
      /\ \A t \in Tokens : t # n /\ t # o => token'[t] = token[t]
  BY <1>2, RotateFacts
<1>4. \A t \in Tokens : token[t].prev # NoToken => token[t].prev # n /\ token[token[t].prev].next # n
  <2>1. ASSUME NEW t \in Tokens, token[t].prev # NoToken
        PROVE  token[t].prev # n /\ token[token[t].prev].next # n
    <3>1. PICK p \in Tokens : p = token[t].prev /\ token[p].st = "revoked" /\ token[p].next \in Tokens
                              /\ token[token[p].next].prev = p
      BY <2>1 DEF TokenInv, ChainsFrom
    <3>2. token[n].prev = NoToken
      BY <1>1 DEF TokenInv, Issued, Unissued
    <3>3. p # NoToken
      BY ConstantFacts
    <3> QED
      BY <1>1, <3>1, <3>2, <3>3
  <2> QED
    BY <2>1
<1>5. o < n
  BY <1>1, <1>3 DEF TokenInv, Tokens
<1>6. ASSUME NEW t \in Tokens, t # n, t # o PROVE Issued(t)' /\ ChainsFrom(t)'
  <2>1. Issued(t) /\ ChainsFrom(t) /\ token'[t] = token[t]
    BY <1>3, <1>6 DEF TokenInv
  <2>2. \A s \in Tokens : token[s].st # "none" => /\ token'[s].st # "none"
                                                 /\ token'[s].user = token[s].user /\ token'[s].root = token[s].root
    BY <1>1, <1>3
  <2>3. Issued(t)'
    BY <2>1, <2>2 DEF Issued
  <2>4. ChainsFrom(t)'
    <3>1. CASE token[t].prev = NoToken
      BY <2>1, <3>1 DEF ChainsFrom
    <3>2. ASSUME NEW p \in Tokens, p = token[t].prev PROVE ChainsFrom(t)'
      <4>1. /\ p < t /\ token[t].st # "none"
            /\ token[p].st = "revoked" /\ token[p].next \in Tokens /\ token[token[p].next].prev = p
            /\ token[t].user = token[p].user /\ token[t].root = token[p].root
            /\ p # n /\ token[p].next # n
        BY <1>4, <2>1, <3>2, ConstantFacts DEF ChainsFrom
      <4>2. \A x \in Tokens : x # n => token'[x].prev = token[x].prev
        BY <1>3
      <4>3. token'[p].st = "revoked" /\ token'[p].next \in Tokens /\ token'[token'[p].next].prev = p
        <5>1. CASE p = o
          BY <1>1, <1>3, <5>1
        <5>2. CASE p # o
          BY <1>3, <4>1, <4>2, <5>2
        <5> QED
          BY <5>1, <5>2
      <4> QED
        BY <2>1, <2>2, <3>2, <4>1, <4>3 DEF ChainsFrom
    <3> QED
      BY <2>1, <3>1, <3>2 DEF ChainsFrom
  <2> QED
    BY <2>3, <2>4
<1>7. Issued(n)' /\ ChainsFrom(n)' /\ Issued(o)' /\ ChainsFrom(o)'
  <2>1. token'[token[o].root].st # "none" /\ user'[token[o].user].row
    BY <1>1, <1>2, <1>3
  <2>2. Issued(n)' /\ ChainsFrom(n)' /\ Issued(o)'
    BY <1>1, <1>2, <1>3, <1>5, <2>1 DEF Issued, ChainsFrom
  <2>3. CASE token[o].prev = NoToken
    BY <1>3, <2>2, <2>3 DEF ChainsFrom
  <2>4. ASSUME NEW p \in Tokens, p = token[o].prev PROVE ChainsFrom(o)'
    <3>1. /\ p < o /\ token[p].st = "revoked" /\ token[p].next \in Tokens /\ token[token[p].next].prev = p
          /\ token[o].user = token[p].user /\ token[o].root = token[p].root
          /\ p # n /\ p # o /\ token[p].next # n
      BY <1>4, <2>4, ConstantFacts DEF TokenInv, ChainsFrom, Tokens
    <3>2. token'[p] = token[p] /\ token'[token[p].next].prev = p
      BY <1>3, <3>1
    <3> QED
      BY <1>3, <2>4, <3>1, <3>2 DEF ChainsFrom
  <2> QED
    BY <2>2, <2>3, <2>4 DEF TokenInv, ChainsFrom
<1>8. \A s, t \in Tokens : s < t /\ token'[t].st # "none" => token'[s].st # "none"
  BY <1>1, <1>3 DEF TokenInv
<1> QED
  BY <1>6, <1>7, <1>8 DEF TokenInv


-----------------------------------------------------------------------------
(* The invariant, and that every step keeps it.                            *)
Inv == TypeInv /\ AccountInv /\ TokenInv

LEMMA UserKeeps ==
    ASSUME TypeInv, AccountInv, UserStep,
           \A u \in Users : resets'[u] = resets[u] \/ user[u].row
    PROVE  /\ user' \in [Users -> Account] /\ \A u \in Users : user[u].row => user'[u].row
           /\ AccountInv'
<1>1. CASE UNCHANGED user
  BY <1>1 DEF TypeInv, TypeOK, AccountInv
<1>2. CASE ~UNCHANGED user
  <2>1. PICK u \in Users, r \in Account :
          /\ user' = [user EXCEPT ![u] = r]
          /\ r.row /\ r.org /\ (u \notin CoreUsers => r.plan)
          /\ \A id \in Identities(r) : ~Taken(id, u)
    BY <1>2 DEF UserStep
  <2>2. user' \in [Users -> Account] /\ user'[u] = r /\ \A v \in Users : v # u => user'[v] = user[v]
    BY <2>1 DEF TypeInv, TypeOK
  <2>3. \A v \in Users : v # u /\ user[v].row => Identities(user[v]) \cap Identities(r) = {}
    BY <2>1 DEF Taken
  <2>4. \A v \in Users : user[v].row => user'[v].row
    BY <2>1, <2>2
  <2>5. ASSUME NEW a \in Users, NEW b \in Users, user'[a].row, user'[b].row,
               Identities(user'[a]) \cap Identities(user'[b]) # {}
        PROVE  a = b
    BY <2>2, <2>3, <2>5 DEF AccountInv
  <2>6. \A v \in Users : user'[v].row => user'[v].org /\ (v \notin CoreUsers => user'[v].plan)
    BY <2>1, <2>2 DEF AccountInv
  <2>7. \A v \in Users : ~user'[v].row => resets'[v] = 0
    BY <2>4 DEF AccountInv
  <2>8. \A a, b \in Users : user'[a].row /\ user'[b].row
                            /\ Identities(user'[a]) \cap Identities(user'[b]) # {} => a = b
    BY <2>5
  <2>9. \A a \in Users : Identities(user[a])' = Identities(user'[a])
    BY DEF Identities
  <2> QED
    BY <2>2, <2>4, <2>6, <2>7, <2>8, <2>9 DEF AccountInv
<1> QED
  BY <1>1, <1>2

LEMMA TokenKeeps ==
    ASSUME TypeInv, TokenInv, TokenStep, \A u \in Users : user[u].row => user'[u].row
    PROVE  /\ token' \in [Tokens -> Token] /\ TokenInv'
           /\ \A t \in Tokens : token[t].st # "none" => token'[t].st # "none"
<1>0. token \in [Tokens -> Token] /\ now \in Nat
  BY DEF TypeInv, TypeOK
<1>1. CASE UNCHANGED token
  BY <1>0, <1>1 DEF TokenInv, Issued, ChainsFrom
<1>2. ASSUME NEW T \in SUBSET LiveOnes, token' = Revoke(T)
      PROVE  /\ token' \in [Tokens -> Token] /\ TokenInv'
             /\ \A t \in Tokens : token[t].st # "none" => token'[t].st # "none"
  <2>1. T \in SUBSET Tokens
    BY DEF LiveOnes
  <2>2. TokenInv'
    BY <1>0, <1>2, RevokeKeeps
  <2> QED
    BY <1>0, <1>2, <2>1, <2>2, RevokeFacts
<1>3. ASSUME NEW n \in NextToken, NEW u \in Users, NEW r \in Nat, user'[u].row, token' = Issue(n, u, r, now)
      PROVE  /\ token' \in [Tokens -> Token] /\ TokenInv'
             /\ \A t \in Tokens : token[t].st # "none" => token'[t].st # "none"
  BY <1>0, <1>3, IssueKeeps, IssueFacts
<1>4. ASSUME NEW n \in NextToken, NEW o \in Tokens, token[o].st # "none", token' = Rotate(o, n, now)
      PROVE  /\ token' \in [Tokens -> Token] /\ TokenInv'
             /\ \A t \in Tokens : token[t].st # "none" => token'[t].st # "none"
  <2>1. token[o].user \in Users /\ token[o].root \in Tokens
    BY <1>4 DEF TokenInv, Issued
  <2>2. TokenInv'
    BY <1>0, <1>4, RotateKeeps
  <2>3. /\ token' \in [Tokens -> Token]
        /\ token'[n].st = "live" /\ token'[o].st = "revoked" /\ \A t \in Tokens \ {n, o} : token'[t] = token[t]
    BY <1>0, <1>4, <2>1, RotateFacts
  <2> QED
    BY <2>2, <2>3
<1> QED
  BY <1>1, <1>2, <1>3, <1>4 DEF TokenStep

LEMMA MovesKeep == ASSUME Inv, NEW w \in Workers, Moves(w) PROVE Inv' /\ Grows
<1>1. /\ user' \in [Users -> Account] /\ \A u \in Users : user[u].row => user'[u].row
      /\ AccountInv'
  BY UserKeeps DEF Inv, Moves
<1>2. /\ token' \in [Tokens -> Token] /\ TokenInv'
      /\ \A t \in Tokens : token[t].st # "none" => token'[t].st # "none"
  BY <1>1, TokenKeeps DEF Inv, Moves
<1>3. Grows
  BY <1>1, <1>2 DEF Grows
<1>4. txn' \in [Workers -> Txn] /\ \A v \in Workers : Holds(txn[v])'
  BY <1>3, OthersHold DEF Inv, Moves
<1>5. TypeInv'
  BY <1>1, <1>2, <1>4 DEF Moves, Inv, TypeInv, TypeOK
<1> QED
  BY <1>1, <1>2, <1>3, <1>5 DEF Inv

LEMMA RequestKeeps == ASSUME Inv, NEW w \in Workers, Effect(w) PROVE Inv' /\ Grows
<1>1. UNCHANGED <<code, accepted, user, chosen, resets, now>> /\ wrong' \in [Codes -> Nat]
  BY DEF Effect, RequestFrame, accounts
<1>2. requests' \in Nat /\ overlapped' \in BOOLEAN
  BY DEF Effect, RequestFrame, Arrive, Idle, Inv, TypeInv, TypeOK
<1>3. UserStep /\ TokenStep
  BY <1>1 DEF Effect, Passes, Begins, UserStep, TokenStep
<1>4. /\ user' \in [Users -> Account] /\ \A u \in Users : user[u].row => user'[u].row
      /\ AccountInv'
  BY <1>1, <1>3, UserKeeps DEF Inv
<1>5. /\ token' \in [Tokens -> Token] /\ TokenInv'
      /\ \A t \in Tokens : token[t].st # "none" => token'[t].st # "none"
  BY <1>3, <1>4, TokenKeeps DEF Inv
<1>6. Grows
  BY <1>4, <1>5 DEF Grows
<1>7. txn' \in [Workers -> Txn] /\ \A v \in Workers : Holds(txn[v])'
  <2>1. ASSUME NEW t, Begins(w, t) PROVE txn' \in [Workers -> Txn] /\ \A v \in Workers : Holds(txn[v])'
    <3>1. t \in Txn /\ txn' = [txn EXCEPT ![w] = t] /\ Holds(t) /\ UNCHANGED token
      BY <2>1 DEF Begins
    <3>2. Holds(t)'
      BY <1>1, <3>1 DEF Holds
    <3> QED
      BY <1>6, <3>1, <3>2, OthersHold DEF Inv
  <2>2. CASE Passes
    <3>1. UNCHANGED txn
      BY <2>2 DEF Passes
    <3>2. txn \in [Workers -> Txn]
      BY DEF Inv, TypeInv, TypeOK
    <3>3. txn' = [txn EXCEPT ![w] = txn[w]] /\ txn[w] \in Txn
      BY <3>1, <3>2
    <3>4. PICK t \in Txn : t = txn[w]
      BY <3>3
    <3>5. Holds(t)
      BY <3>4 DEF Inv, TypeInv
    <3>6. Holds(t)'
      BY <1>6, <3>5, ConstantFacts DEF Holds, Grows
    <3> QED
      BY <1>6, <3>3, <3>4, <3>6, OthersHold DEF Inv
  <2> QED
    BY <2>1, <2>2 DEF Effect
<1>8. TypeInv'
  BY <1>1, <1>2, <1>4, <1>5, <1>7 DEF TypeInv, TypeOK, Inv
<1> QED
  BY <1>4, <1>5, <1>6, <1>8 DEF Inv


LEMMA TickKeeps == ASSUME Inv, Tick PROVE Inv'
<1>1. now' \in Nat
  BY DEF Tick, Inv, TypeInv, TypeOK
<1>2. UNCHANGED <<code, accepted, wrong, token, user, chosen, resets, txn, requests, overlapped>>
  BY DEF Tick, codes, accounts
<1>3. TypeInv'
  BY <1>1, <1>2 DEF Inv, TypeInv, TypeOK, Holds
<1> QED
  BY <1>2, <1>3 DEF Inv, AccountInv, TokenInv, Issued, ChainsFrom

LEMMA InitialAccounts ==
    ASSUME Init
    PROVE  /\ user \in [Users -> Account]
           /\ \A u \in Users : user[u].pw \in Passwords \cup {NoPw}
           /\ \A u \in Users : user[u].row => user[u].org /\ user[u].plan
           /\ \A u \in Users : user[u].phone = NoId
           /\ \A u, v \in Users : user[u].row /\ user[v].row => u = v
<1>0. NoAccount \in Account /\ ~NoAccount.row /\ NoAccount.pw = NoPw /\ NoAccount.phone = NoId
  BY NoTxnType DEF NoAccount
<1>1. CASE user = [u \in Users |-> NoAccount]
  BY <1>0, <1>1
<1>2. ASSUME NEW u \in Users, NEW id \in Emails,
             user = [v \in Users |-> IF v = u THEN OldAccount(id) ELSE NoAccount]
      PROVE  /\ user \in [Users -> Account]
             /\ \A v \in Users : user[v].pw \in Passwords \cup {NoPw}
             /\ \A v \in Users : user[v].row => user[v].org /\ user[v].plan
             /\ \A v \in Users : user[v].phone = NoId
             /\ \A a, b \in Users : user[a].row /\ user[b].row => a = b
  <2>1. id \in Ids /\ id \notin Phones
    BY ConstantFacts
  <2>2. PICK r : r = OldAccount(id)
    OBVIOUS
  <2>3. r \in Account /\ r.org /\ r.plan /\ r.pw \in Passwords /\ r.phone = NoId
    BY <2>1, <2>2, OldAccountType
  <2>4. user = [v \in Users |-> IF v = u THEN r ELSE NoAccount]
    BY <1>2, <2>2
  <2> QED
    BY <1>0, <2>3, <2>4
<1> QED
  BY <1>1, <1>2 DEF Init

LEMMA InvInit == Init => Inv
<1> SUFFICES ASSUME Init PROVE Inv
  OBVIOUS
<1>0. /\ user \in [Users -> Account] /\ \A u \in Users : user[u].pw \in Passwords \cup {NoPw}
      /\ \A u \in Users : user[u].row => user[u].org /\ user[u].plan
      /\ \A u, v \in Users : user[u].row /\ user[v].row => u = v
  BY InitialAccounts
<1>r. chosen = [u \in Users |-> user[u].pw] /\ resets = [u \in Users |-> 0]
  BY DEF Init
<1>1. user \in [Users -> Account] /\ chosen \in [Users -> Passwords \cup {NoPw}]
  BY <1>0, <1>r
<1>2. code \in [Codes -> Code]
  <2>1. (CHOOSE i \in Ids : TRUE) \in Ids
    BY AccountAssumption
  <2> QED
    BY <2>1 DEF Init, Code
<1>3. token = [t \in Tokens |-> Unissued] /\ token \in [Tokens -> Token]
  BY UnissuedType DEF Init
<1>4. txn \in [Workers -> Txn] /\ \A w \in Workers : Holds(txn[w])
  BY NoTxnType, IdleHolds DEF Init
<1>5. TypeInv
  BY <1>1, <1>2, <1>3, <1>4 DEF Init, TypeInv, TypeOK
<1>6. AccountInv
  BY <1>0, <1>r DEF AccountInv
<1>7. TokenInv
  BY <1>3 DEF TokenInv, Issued, ChainsFrom, Unissued
<1> QED
  BY <1>5, <1>6, <1>7 DEF Inv

LEMMA InvStep == Inv /\ [Next]_vars => Inv'
<1> SUFFICES ASSUME Inv, [Next]_vars PROVE Inv'
  OBVIOUS
<1>1. ASSUME NEW w \in Workers, Request(w) PROVE Inv'
  BY <1>1, RequestEffect, RequestKeeps DEF Inv
<1>2. ASSUME NEW w \in Workers, Step(w) \/ Abort(w) PROVE Inv'
  BY <1>2, StepMoves, MovesKeep DEF Inv
<1>3. CASE UNCHANGED vars
  BY <1>3 DEF vars, Inv, TypeInv, TypeOK, Holds, AccountInv, TokenInv, Issued, ChainsFrom
<1> QED
  BY <1>1, <1>2, <1>3, TickKeeps DEF Next

(* The rows, the requests in progress and the histories keep their types,  *)
(* whichever requests arrive, overlap, fail and crash.                     *)
THEOREM TypesHold == Spec => []TypeOK
<1>1. Inv => TypeOK
  BY DEF Inv, TypeInv
<1> QED
  BY <1>1, InvInit, InvStep, PTL DEF Spec

LEMMA AtMostOne ==
    ASSUME NEW S, \A x, y \in S : x = y
    PROVE  Cardinality(S) \in {0, 1}
<1>1. CASE S = {}
  BY <1>1, FS_EmptySet
<1>2. ASSUME NEW x \in S PROVE Cardinality(S) \in {0, 1}
  <2>1. S = {x}
    BY <1>2
  <2>2. IsFiniteSet({x}) /\ Cardinality({x}) = 1
    BY FS_Singleton
  <2> QED
    BY <2>1, <2>2
<1> QED
  BY <1>1, <1>2

(* However registrations, first logins, bindings and the bridge for users  *)
(* of the Core service overlap, an identity belongs to one user, no user   *)
(* lacks the rows created with it, and a session belongs to somebody.      *)
THEOREM AccountsStayWhole == Spec => []AccountsWhole
<1>1. ASSUME Inv PROVE AccountsWhole
  <2>1. ASSUME NEW id \in Ids PROVE Cardinality(OwnersOf(id)) <= 1
    <3>1. \A u, v \in OwnersOf(id) : u = v
      BY <1>1 DEF OwnersOf, Exists, Inv, AccountInv
    <3> QED
      BY <3>1, AtMostOne
  <2> QED
    BY <1>1, <2>1 DEF AccountsWhole, Inv, AccountInv, TokenInv, Issued, Exists
<1> QED
  BY <1>1, InvInit, InvStep, PTL DEF Spec

-----------------------------------------------------------------------------
(* Requests that do not overlap: what one has loaded is still true when it *)
(* commits.                                                                *)
TokensAlone ==
    /\ \A s, t \in LiveOnes : token[s].root = token[t].root => s = t
    /\ \A t \in LiveOnes : token[t].resets = resets[token[t].user]

AccountsAlone ==
    \A u \in Users : user[u].pw \in Passwords \cup {NoPw} => user[u].pw = chosen[u]

RequestsAlone ==
    /\ \A v, w \in Workers : ~Idle(v) /\ ~Idle(w) => v = w
    /\ \A w \in Workers : Fresh(txn[w])

Alone == ~overlapped => TokensAlone /\ AccountsAlone /\ RequestsAlone

LEMMA RevokedAlone ==
    ASSUME token \in [Tokens -> Token], TokensAlone, NEW T \in SUBSET LiveOnes, token' = Revoke(T),
           \A t \in LiveOnes \ T : resets'[token[t].user] = resets[token[t].user]
    PROVE  TokensAlone'
<1>1. T \in SUBSET Tokens
  BY DEF LiveOnes
<1>2. \A t \in Tokens : token'[t].st = "live" => t \notin T /\ token'[t] = token[t]
  BY <1>1, RevokeFacts
<1> QED
  BY <1>2 DEF TokensAlone, LiveOnes

LEMMA IssuedAlone ==
    ASSUME token \in [Tokens -> Token], now \in Nat, TokenInv, TokensAlone, NEW n \in NextToken,
           NEW u \in Users, resets \in [Users -> Nat], token' = Issue(n, u, resets[u], now), UNCHANGED resets
    PROVE  TokensAlone'
<1>1. n \in Tokens /\ token[n].st = "none"
  BY NextTokenFacts
<1>2. resets[u] \in Nat
  OBVIOUS
<1>3. /\ token'[n].st = "live" /\ token'[n].user = u /\ token'[n].root = n /\ token'[n].resets = resets[u]
      /\ \A t \in Tokens : t # n => token'[t] = token[t]
  BY <1>2, IssueFacts
<1>4. \A t \in LiveOnes : token[t].root # n
  BY <1>1 DEF LiveOnes, TokenInv, Issued
<1> QED
  BY <1>1, <1>3, <1>4 DEF TokensAlone, LiveOnes

LEMMA RotatedAlone ==
    ASSUME token \in [Tokens -> Token], now \in Nat, TokenInv, TokensAlone, NEW n \in NextToken,
           NEW o \in Tokens, token[o].st = "live", token' = Rotate(o, n, now), UNCHANGED resets
    PROVE  TokensAlone'
<1>1. n \in Tokens /\ token[n].st = "none"
  BY NextTokenFacts
<1>2. token[o].user \in Users /\ token[o].root \in Tokens
  BY DEF TokenInv, Issued
<1>3. /\ token'[n].user = token[o].user /\ token'[n].root = token[o].root
      /\ token'[n].resets = token[o].resets /\ token'[o].st = "revoked"
      /\ \A t \in Tokens : t # n /\ t # o => token'[t] = token[t]
  BY <1>2, RotateFacts
<1> QED
  BY <1>1, <1>3 DEF TokensAlone, LiveOnes

LEMMA WrittenAlone ==
    ASSUME user \in [Users -> Account], chosen \in [Users -> Passwords \cup {NoPw}], AccountsAlone,
           NEW u \in Users, NEW r \in Account, user' = [user EXCEPT ![u] = r],
           r.pw \in Passwords \cup {NoPw} => r.pw = chosen'[u],
           \A v \in Users : v # u => chosen'[v] = chosen[v]
    PROVE  AccountsAlone'
<1>1. user'[u] = r /\ \A v \in Users : v # u => user'[v] = user[v]
  OBVIOUS
<1> QED
  BY <1>1 DEF AccountsAlone

(* The step of the only request there is, ...                              *)
AloneStep(w) == TokensAlone' /\ AccountsAlone' /\ Fresh(txn[w])'

(* ... which may load or leave, ...                                        *)
LEMMA IdleFresh == Fresh(NoTxn)'
BY DEF Fresh, NoTxn

LEMMA LeftAlone ==
    ASSUME Inv, NEW w \in Workers, Leave(w)
    PROVE  Fresh(txn[w])'
<1>1. txn'[w] = NoTxn
  BY DEF Leave, Go, Inv, TypeInv, TypeOK
<1> QED
  BY <1>1 DEF Fresh, NoTxn

LEMMA QuietAlone ==
    ASSUME TokensAlone, AccountsAlone, UNCHANGED <<token, accounts>>
    PROVE  TokensAlone' /\ AccountsAlone'
BY DEF TokensAlone, LiveOnes, AccountsAlone, accounts

LEMMA LoadedAlone ==
    ASSUME Inv, NEW w \in Workers, TokensAlone, AccountsAlone,
           \/ SendCommit(w) \/ LoginKnown(w) \/ LoginUnknown(w) \/ ResetLoad(w) \/ BindLoad(w)
           \/ EnsurePersonalOrg(w) \/ BridgeConflict(w) \/ Abort(w)
    PROVE  AloneStep(w)
<1>1. UNCHANGED <<token, accounts>>
  BY DEF SendCommit, LoginKnown, LoginUnknown, ResetLoad, BindLoad, LoadUser, Abort,
     EnsurePersonalOrg, BridgeConflict
<1>6. ASSUME EnsurePersonalOrg(w) \/ BridgeConflict(w) PROVE Fresh(txn[w])'
  BY <1>6, OrgMoves DEF Inv, Fresh
<1>2. TokensAlone' /\ AccountsAlone'
  BY <1>1, QuietAlone
<1>3. ASSUME SendCommit(w) \/ Abort(w) PROVE Fresh(txn[w])'
  BY <1>3, LeftAlone DEF SendCommit, Abort
<1>4. ASSUME LoginUnknown(w) PROVE Fresh(txn[w])'
  <2>1. txn'[w] = [txn[w] EXCEPT !.pc = "register"] /\ txn[w] \in Txn
    BY <1>4 DEF LoginUnknown, Go, Inv, TypeInv, TypeOK
  <2>2. txn'[w].pc = "register"
    BY <2>1 DEF Txn
  <2> QED
    BY <2>2 DEF Fresh
<1>5. ASSUME LoginKnown(w) \/ ResetLoad(w) \/ BindLoad(w) PROVE Fresh(txn[w])'
  <2>1. PICK u : LoadUser(w, u)
    BY <1>5 DEF LoginKnown, ResetLoad, BindLoad
  <2>2. txn[w].pc = "code"
    BY <1>5, CodeAnswered DEF LoginKnown, ResetLoad, BindLoad, Inv
  <2>3. /\ txn'[w] = [txn[w] EXCEPT !.pc = txn[w].for, !.user = u, !.row = user[u], !.resets = resets[u]]
        /\ txn[w] \in Txn /\ Holds(txn[w]) /\ resets' = resets
    BY <1>1, <2>1 DEF LoadUser, Go, Inv, TypeInv, TypeOK, accounts
  <2>4. /\ txn'[w].pc = txn[w].for /\ txn'[w].user = u /\ txn'[w].resets = resets[u]
        /\ txn'[w].pw = txn[w].pw /\ txn[w].for \in Purposes
    BY <2>3 DEF Txn
  <2>5. txn[w].for = "login" => txn[w].pw = NoPw
    BY <2>2, <2>3 DEF Holds
  <2> QED
    BY <2>3, <2>4, <2>5 DEF Fresh
<1> QED
  BY <1>2, <1>3, <1>4, <1>5, <1>6 DEF AloneStep


(* ... log in or register, ...                                             *)
LEMMA LoginAlone ==
    ASSUME Inv, NEW w \in Workers, TokensAlone, AccountsAlone, Fresh(txn[w]), LoginCommit(w)
    PROVE  AloneStep(w)
<1> DEFINE t == txn[w]
<1>1. /\ t \in Txn /\ t.pc = "login" /\ t.user \in Users /\ user[t.user].row
      /\ user[t.user] \in Account /\ t.pw \in Passwords \cup {NoPw}
  BY DEF LoginCommit, Inv, TypeInv, TypeOK, Holds, Txn
<1>2. t.resets = resets[t.user] /\ (t.pw # NoPw => user[t.user].pw = t.pw)
  BY <1>1 DEF Fresh
<1>3. PICK r : r = Rehash(user[t.user], t.row, t.pw)
  OBVIOUS
<1>4. r \in Account /\ r.pw = user[t.user].pw
  BY <1>1, <1>2, <1>3, RehashType
<1>6. user' = [user EXCEPT ![t.user] = r] /\ UNCHANGED <<chosen, resets>> /\ Leave(w)
  BY <1>3 DEF LoginCommit
<1>7. AccountsAlone'
  <2>1. r.pw \in Passwords \cup {NoPw} => r.pw = chosen[t.user]
    BY <1>1, <1>4 DEF AccountsAlone
  <2> HIDE DEF t
  <2> QED
    BY <1>1, <1>4, <1>6, <2>1, WrittenAlone DEF Inv, TypeInv, TypeOK
<1>8. PICK n \in NextToken : token' = Issue(n, t.user, resets[t.user], now)
  BY <1>2 DEF LoginCommit
<1>9. TokensAlone'
  BY <1>1, <1>6, <1>8, IssuedAlone DEF Inv, TypeInv, TypeOK
<1> QED
  BY <1>6, <1>7, <1>9, LeftAlone DEF AloneStep

LEMMA RegisterAlone ==
    ASSUME Inv, NEW w \in Workers, TokensAlone, AccountsAlone, CreateAccount(w)
    PROVE  AloneStep(w)
<1> DEFINE t == txn[w]
<1>1. t.id \in Ids /\ t.pw \in Passwords \cup {NoPw}
  BY DEF CreateAccount, Inv, TypeInv, TypeOK, Holds, Txn
<1>2. PICK u \in {v \in Users \ CoreUsers : ~Exists(v)}, n \in NextToken :
         /\ user' = [user EXCEPT ![u] = Registered(t.id, t.pw)]
         /\ token' = Issue(n, u, 0, now)
         /\ chosen' = [chosen EXCEPT ![u] = t.pw]
  BY DEF CreateAccount
<1>3. u \in Users /\ resets[u] = 0 /\ UNCHANGED resets /\ Leave(w)
  BY <1>2 DEF CreateAccount, Exists, Inv, AccountInv
<1>4. PICK r : r = Registered(t.id, t.pw)
  OBVIOUS
<1>5. r \in Account /\ r.pw = t.pw
  BY <1>1, <1>4, RegisteredType
<1>6. chosen'[u] = t.pw /\ \A v \in Users : v # u => chosen'[v] = chosen[v]
  BY <1>2, <1>3 DEF Inv, TypeInv, TypeOK
<1>7. AccountsAlone'
  BY <1>2, <1>3, <1>4, <1>5, <1>6, WrittenAlone DEF Inv, TypeInv, TypeOK
<1>8. TokensAlone'
  BY <1>2, <1>3, IssuedAlone DEF Inv, TypeInv, TypeOK
<1> QED
  BY <1>3, <1>7, <1>8, LeftAlone DEF AloneStep

LEMMA RefreshAlone ==
    ASSUME Inv, NEW w \in Workers, TokensAlone, AccountsAlone, Fresh(txn[w]), RefreshCommit(w)
    PROVE  AloneStep(w)
<1>1. PICK n \in NextToken : token' = Rotate(txn[w].token, n, now)
  BY DEF RefreshCommit
<1>2. txn[w].token \in Tokens /\ token[txn[w].token].st = "live"
  BY DEF RefreshCommit, Inv, TypeInv, Holds, Fresh
<1>3. UNCHANGED accounts /\ Leave(w)
  BY DEF RefreshCommit
<1>4. TokensAlone'
  BY <1>1, <1>2, <1>3, RotatedAlone DEF Inv, TypeInv, TypeOK, accounts
<1>5. AccountsAlone'
  BY <1>3 DEF AccountsAlone, accounts
<1> QED
  BY <1>3, <1>4, <1>5, LeftAlone DEF AloneStep

(* ... set a password, ...                                                 *)
LEMMA PasswordAlone ==
    ASSUME TypeInv, AccountsAlone, NEW u \in Users, NEW pw \in Passwords, SetPassword(u, pw)
    PROVE  AccountsAlone'
<1>1. PICK r : r = [user[u] EXCEPT !.pw = pw, !.bcrypt = FALSE]
  OBVIOUS
<1>2. user[u] \in Account
  BY DEF TypeInv, TypeOK
<1>3. r \in Account /\ r.pw = pw
  BY <1>1, <1>2 DEF Account
<1>5. user' = [user EXCEPT ![u] = r] /\ chosen' = [chosen EXCEPT ![u] = pw]
  BY <1>1, <1>2 DEF SetPassword, TypeInv, TypeOK
<1>6. chosen'[u] = pw /\ \A v \in Users : v # u => chosen'[v] = chosen[v]
  BY <1>5 DEF TypeInv, TypeOK
<1> QED
  BY <1>3, <1>5, <1>6, WrittenAlone DEF TypeInv, TypeOK

LEMMA ResetAlone ==
    ASSUME Inv, NEW w \in Workers, TokensAlone, AccountsAlone, ResetCommit(w)
    PROVE  AloneStep(w)
<1>1. txn[w].user \in Users /\ txn[w].pw \in Passwords
  BY DEF ResetCommit, Inv, TypeInv, Holds
<1>2. PICK u \in Users : u = txn[w].user
  BY <1>1
<1>3. /\ SetPassword(u, txn[w].pw) /\ token' = Revoke(LiveTokens(u)) /\ Leave(w)
      /\ resets' = [resets EXCEPT ![u] = @ + 1]
  BY <1>2 DEF ResetCommit, RevokeAll
<1>4. AccountsAlone'
  BY <1>1, <1>3, PasswordAlone DEF Inv
<1>5. LiveTokens(u) \in SUBSET LiveOnes
  BY DEF LiveTokens, LiveOnes
<1>6. \A t \in LiveOnes \ LiveTokens(u) : token[t].user \in Users /\ token[t].user # u
  BY DEF LiveTokens, LiveOnes, Inv, TokenInv, Issued
<1>7. \A t \in LiveOnes \ LiveTokens(u) : resets'[token[t].user] = resets[token[t].user]
  BY <1>3, <1>6 DEF Inv, TypeInv, TypeOK
<1>8. TokensAlone'
  BY <1>3, <1>5, <1>7, RevokedAlone DEF Inv, TypeInv, TypeOK
<1> QED
  BY <1>3, <1>4, <1>8, LeftAlone DEF AloneStep

LEMMA ChangeAlone ==
    ASSUME Inv, NEW w \in Workers, TokensAlone, AccountsAlone, ChangeCommit(w)
    PROVE  AloneStep(w)
<1>1. txn[w].user \in Users /\ txn[w].pw \in Passwords
  BY DEF ChangeCommit, Inv, TypeInv, Holds
<1>2. SetPassword(txn[w].user, txn[w].pw) /\ UNCHANGED resets /\ Leave(w)
  BY DEF ChangeCommit
<1>3. PICK T \in SUBSET LiveOnes : token' = Revoke(T)
  BY DEF ChangeCommit, RevokeOthers, LiveTokens, LiveOnes
<1>4. TokensAlone'
  BY <1>2, <1>3, RevokedAlone DEF Inv, TypeInv, TypeOK
<1> QED
  BY <1>1, <1>2, <1>4, PasswordAlone, LeftAlone DEF AloneStep, Inv


(* ... bind or unbind an identity, ...                                     *)
LEMMA BindAlone ==
    ASSUME Inv, NEW w \in Workers, TokensAlone, AccountsAlone, BindCommit(w)
    PROVE  AloneStep(w)
<1>1. /\ txn[w].user \in Users /\ txn[w].id \in Ids /\ user[txn[w].user] \in Account
  BY DEF BindCommit, Inv, TypeInv, TypeOK, Holds
<1>2. PICK u \in Users : u = txn[w].user
  BY <1>1
<1>3. PICK r : r = Bind(user[u], txn[w].id)
  OBVIOUS
<1>4. r \in Account /\ r.pw = user[u].pw
  BY <1>1, <1>2, <1>3, BindType
<1>5. user' = [user EXCEPT ![u] = r] /\ UNCHANGED <<token, chosen, resets>> /\ Leave(w)
  BY <1>2, <1>3 DEF BindCommit
<1>6. AccountsAlone'
  <2>1. r.pw \in Passwords \cup {NoPw} => r.pw = chosen[u]
    BY <1>4 DEF AccountsAlone
  <2> QED
    BY <1>4, <1>5, <2>1, WrittenAlone DEF Inv, TypeInv, TypeOK
<1> QED
  BY <1>5, <1>6, LeftAlone DEF AloneStep, TokensAlone, LiveOnes

LEMMA UnbindAlone ==
    ASSUME Inv, NEW w \in Workers, TokensAlone, AccountsAlone, UnbindCommit(w)
    PROVE  AloneStep(w)
<1>1. txn[w].user \in Users /\ user[txn[w].user] \in Account
  BY DEF UnbindCommit, Inv, TypeInv, TypeOK, Holds
<1>2. PICK u \in Users : u = txn[w].user
  BY <1>1
<1>3. PICK r : r = IF txn[w].id \in Phones THEN [user[u] EXCEPT !.phone = NoId]
                                           ELSE [user[u] EXCEPT !.email = NoId]
  OBVIOUS
<1>4. r \in Account /\ r.pw = user[u].pw
  BY <1>1, <1>2, <1>3 DEF Account
<1>5. user' = [user EXCEPT ![u] = r] /\ UNCHANGED <<token, chosen, resets>> /\ Leave(w)
  BY <1>2, <1>3 DEF UnbindCommit
<1>6. AccountsAlone'
  <2>1. r.pw \in Passwords \cup {NoPw} => r.pw = chosen[u]
    BY <1>4 DEF AccountsAlone
  <2> QED
    BY <1>4, <1>5, <2>1, WrittenAlone DEF Inv, TypeInv, TypeOK
<1> QED
  BY <1>5, <1>6, LeftAlone DEF AloneStep, TokensAlone, LiveOnes

(* ... or bring a user over from Core.                                     *)
LEMMA BridgeAlone ==
    ASSUME Inv, NEW w \in Workers, TokensAlone, AccountsAlone, BridgeCommit(w)
    PROVE  AloneStep(w)
<1>1. txn[w].user \in Users /\ txn[w].id \in Emails /\ txn[w].row \in {NoAccount, OrgOnly}
  BY ConstantFacts DEF BridgeCommit, Inv, TypeInv, Holds
<1>2. UNCHANGED <<token, chosen, resets>> /\ Leave(w)
  BY DEF BridgeCommit
<1>3. CASE UNCHANGED user
  BY <1>2, <1>3, QuietAlone, LeftAlone DEF AloneStep, accounts
<1>4. CASE ~UNCHANGED user
  <2>1. PICK u \in Users : u = txn[w].user
    BY <1>1
  <2>2. PICK r : r = ShadowAccount(txn[w].row, txn[w].id)
    OBVIOUS
  <2>3. r \in Account /\ r.pw = CoreBridge
    BY <1>1, <1>4, <2>2, ShadowType DEF BridgeCommit, MayInsert
  <2>4. user' = [user EXCEPT ![u] = r]
    BY <1>4, <2>1, <2>2 DEF BridgeCommit
  <2>5. r.pw \notin Passwords \cup {NoPw}
    BY <2>3, ConstantFacts
  <2>6. AccountsAlone'
    BY <1>2, <2>3, <2>4, <2>5, WrittenAlone DEF Inv, TypeInv, TypeOK
  <2> QED
    BY <1>2, <2>6, LeftAlone DEF AloneStep, TokensAlone, LiveOnes
<1> QED
  BY <1>3, <1>4

LEMMA StepAlone ==
    ASSUME Inv, NEW w \in Workers, TokensAlone, AccountsAlone, Fresh(txn[w]), Step(w) \/ Abort(w)
    PROVE  AloneStep(w)
BY LoadedAlone, LoginAlone, RegisterAlone, RefreshAlone, ResetAlone, ChangeAlone, BindAlone,
   UnbindAlone, BridgeAlone DEF Step

LEMMA StepKeepsAlone ==
    ASSUME Inv, Alone, NEW w \in Workers, Step(w) \/ Abort(w)
    PROVE  Alone'
<1> SUFFICES ASSUME ~overlapped' PROVE TokensAlone' /\ AccountsAlone' /\ RequestsAlone'
  BY DEF Alone
<1>1. Moves(w)
  BY StepMoves DEF Inv
<1>2. TokensAlone /\ AccountsAlone /\ RequestsAlone
  BY <1>1 DEF Alone, Moves
<1>3. AloneStep(w)
  BY <1>2, StepAlone DEF RequestsAlone
<1>4. ~Idle(w)
  BY CodeAnswered DEF Step, Abort, Idle, Inv, SendCommit, LoginKnown, LoginUnknown, ResetLoad, BindLoad,
     LoginCommit, CreateAccount, RefreshCommit, ResetCommit, ChangeCommit, BindCommit, UnbindCommit,
     EnsurePersonalOrg, BridgeConflict, BridgeCommit
<1>5. \A v \in Workers : v # w => txn'[v] = txn[v] /\ Idle(v)
  BY <1>1, <1>2, <1>4 DEF RequestsAlone, Moves, Inv, TypeInv, TypeOK
<1>6. \A v \in Workers : v # w => Idle(v)' /\ Fresh(txn[v])'
  BY <1>5 DEF Idle, Fresh
<1>7. RequestsAlone'
  BY <1>3, <1>6 DEF RequestsAlone, AloneStep
<1> QED
  BY <1>3, <1>7 DEF AloneStep

LEMMA RequestKeepsAlone ==
    ASSUME Inv, Alone, NEW w \in Workers, Effect(w)
    PROVE  Alone'
<1> SUFFICES ASSUME ~overlapped' PROVE TokensAlone' /\ AccountsAlone' /\ RequestsAlone'
  BY DEF Alone
<1>1. ~overlapped /\ \A v \in Workers : Idle(v)
  BY DEF Effect, RequestFrame, Arrive
<1>2. TokensAlone /\ AccountsAlone
  BY <1>1 DEF Alone
<1>3. UNCHANGED accounts
  BY DEF Effect, RequestFrame
<1>4. ASSUME NEW t, Begins(w, t) PROVE TokensAlone' /\ AccountsAlone' /\ RequestsAlone'
  <2>1. txn' = [txn EXCEPT ![w] = t] /\ UNCHANGED token /\ Fresh(t)
    BY <1>4 DEF Begins
  <2>2. TokensAlone' /\ AccountsAlone'
    BY <1>2, <1>3, <2>1, QuietAlone
  <2>3. txn'[w] = t /\ \A v \in Workers : v # w => txn'[v] = txn[v] /\ txn[v].pc = "idle"
    BY <1>1, <2>1 DEF Idle, Inv, TypeInv, TypeOK
  <2>4. Fresh(txn[w])'
    BY <1>3, <2>1, <2>3 DEF Fresh, accounts
  <2>5. \A v \in Workers : v # w => Idle(v)' /\ Fresh(txn[v])'
    BY <2>3 DEF Idle, Fresh
  <2> QED
    BY <2>2, <2>4, <2>5 DEF RequestsAlone
<1>5. CASE Passes
  <2>1. PICK T \in SUBSET LiveOnes : UNCHANGED txn /\ token' = Revoke(T)
    BY <1>5 DEF Passes
  <2>2. TokensAlone'
    BY <1>2, <1>3, <2>1, RevokedAlone DEF Inv, TypeInv, TypeOK, accounts
  <2>3. AccountsAlone'
    BY <1>2, <1>3 DEF AccountsAlone, accounts
  <2>4. RequestsAlone'
    BY <1>1, <2>1 DEF RequestsAlone, Idle, Fresh
  <2> QED
    BY <2>2, <2>3, <2>4
<1> QED
  BY <1>4, <1>5 DEF Effect


LEMMA AloneInit == Init => Inv /\ Alone
<1> SUFFICES ASSUME Init PROVE Alone
  BY InvInit
<1>1. token = [t \in Tokens |-> Unissued] /\ txn = [w \in Workers |-> NoTxn]
      /\ chosen = [u \in Users |-> user[u].pw]
  BY DEF Init
<1>2. TokensAlone /\ RequestsAlone
  BY <1>1 DEF TokensAlone, LiveOnes, Unissued, RequestsAlone, Idle, Fresh, NoTxn
<1>4. AccountsAlone
  BY <1>1 DEF AccountsAlone
<1> QED
  BY <1>2, <1>4 DEF Alone

LEMMA AloneNext == Inv /\ Alone /\ [Next]_vars => (Inv /\ Alone)'
<1> SUFFICES ASSUME Inv, Alone, [Next]_vars PROVE Alone'
  BY InvStep
<1>1. ASSUME NEW w \in Workers, Request(w) PROVE Alone'
  BY <1>1, RequestEffect, RequestKeepsAlone DEF Inv
<1>2. ASSUME NEW w \in Workers, Step(w) \/ Abort(w) PROVE Alone'
  BY <1>2, StepKeepsAlone
<1>3. CASE Tick \/ UNCHANGED vars
  <2>1. UNCHANGED <<token, user, chosen, resets, txn, overlapped>>
    BY <1>3 DEF Tick, vars, accounts
  <2> QED
    BY <2>1 DEF Alone, TokensAlone, LiveOnes, AccountsAlone, RequestsAlone, Idle, Fresh
<1> QED
  BY <1>1, <1>2, <1>3 DEF Next

(* While requests do not overlap, one token of a login is live, however    *)
(* often it is refreshed.                                                  *)
THEOREM SessionsAreSingle == Spec => []OneLiveSession
<1>1. ASSUME Alone PROVE OneLiveSession
  <2> SUFFICES ASSUME ~overlapped, NEW r \in Tokens
               PROVE  Cardinality({t \in Tokens : token[t].root = r /\ token[t].st = "live"}) <= 1
    BY DEF OneLiveSession
  <2>1. \A s, t \in {x \in Tokens : token[x].root = r /\ token[x].st = "live"} : s = t
    BY <1>1 DEF Alone, TokensAlone, LiveOnes
  <2>2. Cardinality({t \in Tokens : token[t].root = r /\ token[t].st = "live"}) \in {0, 1}
    BY <2>1, AtMostOne
  <2> QED
    BY <2>2
<1> QED
  BY <1>1, AloneInit, AloneNext, PTL DEF Spec

(* While requests do not overlap, a password reset ends every session that *)
(* began before it, those whose token was rotated since included.          *)
THEOREM ResetsEndSessions == Spec => []ResetEndsSessions
<1>1. ASSUME Alone PROVE ResetEndsSessions
  BY <1>1 DEF Alone, TokensAlone, LiveOnes, ResetEndsSessions
<1> QED
  BY <1>1, AloneInit, AloneNext, PTL DEF Spec

(* While requests do not overlap, the password in force is the last one    *)
(* that was chosen, though logins renew its hash.                          *)
THEOREM PasswordsAreChosen == Spec => []PasswordIsChosen
<1>1. ASSUME Alone PROVE PasswordIsChosen
  BY <1>1 DEF Alone, AccountsAlone, PasswordIsChosen
<1> QED
  BY <1>1, AloneInit, AloneNext, PTL DEF Spec

-----------------------------------------------------------------------------
(* Counting: rows and requests under way together stay within the limits.  *)
Bound == IF overlapped THEN Cardinality(Workers) ELSE 1

Holders(c) == {w \in Workers : txn[w].code = c}
Senders(id, p) == {w \in Workers : txn[w].pc = "send" /\ txn[w].id = id /\ txn[w].for = p}
SendersTo(id) == {w \in Workers : txn[w].pc = "send" /\ txn[w].id = id}
AllSenders == {w \in Workers : txn[w].pc = "send"}
Refreshers(t) == {w \in Workers : txn[w].pc = "refresh" /\ txn[w].token = t}

CountInv ==
    /\ \A w \in Workers : txn[w].code # NoCode => code[txn[w].code].st # "none"
    /\ overlapped => Cardinality(Workers) >= 1
    /\ \A c \in Codes : /\ code[c].st # "used" => accepted[c] = 0
                        /\ accepted[c] + Cardinality(Holders(c)) <= Bound
    /\ \A id \in Ids, p \in Purposes : Cardinality(Recent(id, p)) + Cardinality(Senders(id, p)) <= Bound
    /\ Cardinality(Lately) + Cardinality(AllSenders) <= SourceMax - 1 + Bound
    /\ \A id \in Ids : Cardinality(Today(id)) + Cardinality(SendersTo(id)) <= DailyMax - 1 + Bound
    /\ \A t \in Tokens : Cardinality(Successors(t)) + Cardinality(Refreshers(t)) <= Bound

LEMMA FiniteSets ==
    /\ \A S \in SUBSET Workers : IsFiniteSet(S) /\ Cardinality(S) \in Nat /\ Cardinality(S) <= Cardinality(Workers)
    /\ \A S \in SUBSET Codes : IsFiniteSet(S) /\ Cardinality(S) \in Nat
    /\ \A S \in SUBSET Tokens : IsFiniteSet(S) /\ Cardinality(S) \in Nat
    /\ Cardinality(Workers) \in Nat
<1>1. IsFiniteSet(Codes) /\ IsFiniteSet(Tokens)
  BY CodeAssumption, TokenAssumption, FS_Interval DEF Codes, Tokens
<1> QED
  BY <1>1, AccountAssumption, FS_Subset, FS_CardinalityType

LEMMA CountSets ==
    /\ \A c : Holders(c) \in SUBSET Workers
    /\ \A id, p : Senders(id, p) \in SUBSET Workers /\ Recent(id, p) \in SUBSET Codes
    /\ \A id : SendersTo(id) \in SUBSET Workers /\ Today(id) \in SUBSET Codes
    /\ AllSenders \in SUBSET Workers /\ Lately \in SUBSET Codes
    /\ \A t : Refreshers(t) \in SUBSET Workers /\ Successors(t) \in SUBSET Tokens
BY DEF Holders, Senders, SendersTo, AllSenders, Recent, Lately, Today, Rows, Refreshers, Successors

(* A sender that commits becomes a row, a refresher a successor; nothing   *)
(* else adds one.                                                          *)
LEMMA Counted ==
    ASSUME NEW U \in {Codes, Tokens}, NEW R \in SUBSET U, NEW R2 \in SUBSET U, NEW S \in SUBSET Workers,
           NEW S2 \in SUBSET Workers, NEW c, NEW w, S2 \subseteq S,
           R2 \subseteq R \/ (R2 \subseteq R \cup {c} /\ w \in S /\ w \notin S2)
    PROVE  Cardinality(R2) + Cardinality(S2) <= Cardinality(R) + Cardinality(S)
<1>1. /\ IsFiniteSet(R) /\ IsFiniteSet(R2) /\ IsFiniteSet(S) /\ IsFiniteSet(S2)
      /\ Cardinality(R) \in Nat /\ Cardinality(R2) \in Nat /\ Cardinality(S) \in Nat /\ Cardinality(S2) \in Nat
  BY FiniteSets
<1>2. Cardinality(S2) <= Cardinality(S)
  BY <1>1, FS_Subset
<1>3. CASE R2 \subseteq R
  <2>1. Cardinality(R2) <= Cardinality(R)
    BY <1>1, <1>3, FS_Subset
  <2> QED
    BY <1>1, <1>2, <2>1
<1>4. CASE R2 \subseteq R \cup {c} /\ w \in S /\ w \notin S2
  <2>1. IsFiniteSet(R \cup {c}) /\ Cardinality(R \cup {c}) <= Cardinality(R) + 1
        /\ Cardinality(R \cup {c}) \in Nat
    <3>1. CASE c \in R
      <4>1. R \cup {c} = R
        BY <3>1
      <4> QED
        BY <1>1, <4>1
    <3>2. CASE c \notin R
      BY <1>1, <3>2, FS_AddElement
    <3> QED
      BY <3>1, <3>2
  <2>2. Cardinality(R2) <= Cardinality(R \cup {c})
    BY <1>4, <2>1, FS_Subset
  <2>3. IsFiniteSet(S \ {w}) /\ Cardinality(S \ {w}) = Cardinality(S) - 1 /\ S2 \subseteq S \ {w}
    BY <1>1, <1>4, FS_RemoveElement
  <2>4. Cardinality(S2) <= Cardinality(S \ {w})
    BY <2>3, FS_Subset
  <2> QED
    BY <1>1, <2>1, <2>2, <2>3, <2>4
<1> QED
  BY <1>3, <1>4

(* Only one request at a time, unless some overlap.                        *)
LEMMA BusyBound ==
    ASSUME Alone', NEW S \in SUBSET {w \in Workers : ~Idle(w)'}
    PROVE  Cardinality(S) <= Bound'
<1>1. CASE overlapped'
  BY <1>1, FiniteSets DEF Bound
<1>2. CASE ~overlapped'
  <2>1. \A v, w \in S : v = w
    BY <1>2 DEF Alone, RequestsAlone
  <2>2. Cardinality(S) \in {0, 1}
    BY <2>1, AtMostOne
  <2> QED
    BY <1>2, <2>2 DEF Bound
<1> QED
  BY <1>1, <1>2

SameRows ==
    \A c \in Codes : /\ code'[c].st = "none" <=> code[c].st = "none"
                     /\ code[c].st = "used" => code'[c].st = "used"
                     /\ code'[c].id = code[c].id /\ code'[c].purpose = code[c].purpose
                     /\ code'[c].at = code[c].at

(* A row that is used, one that is written, or neither.                    *)
CodesMove(w) ==
    /\ txn'[w].pc \notin {"send", "refresh"} /\ \A v \in Workers : v # w => txn'[v] = txn[v]
    /\ UNCHANGED <<now, overlapped>>
    /\ \/ /\ SameRows /\ UNCHANGED accepted /\ txn'[w].code \in {NoCode, txn[w].code}
       \/ /\ SameRows /\ txn'[w].code = NoCode
          /\ \E c \in Codes : /\ c = txn[w].code /\ code'[c].st = "used"
                              /\ accepted' = [accepted EXCEPT ![c] = @ + 1]
       \/ /\ txn[w].pc = "send" /\ txn'[w].code = NoCode /\ UNCHANGED accepted
          /\ \E c \in Codes : /\ code[c].st = "none"
                              /\ code' = [code EXCEPT ![c] = NewRow(txn[w].id, txn[w].for)]

LEMMA LeaveFrame ==
    ASSUME Inv, NEW w \in Workers, Leave(w)
    PROVE  /\ txn'[w].pc = "idle" /\ txn'[w].code = NoCode /\ UNCHANGED overlapped
           /\ \A v \in Workers : v # w => txn'[v] = txn[v]
BY DEF Leave, Go, NoTxn, Inv, TypeInv, TypeOK

LEMMA CodeIsUsed ==
    ASSUME Inv, CountInv, NEW w \in Workers, Leave(w), UseCode(txn[w].code), UNCHANGED now
    PROVE  CodesMove(w)
<1>1. code \in [Codes -> Code] /\ txn[w].code \in Codes \cup {NoCode}
  BY DEF Inv, TypeInv, TypeOK, Txn
<1>2. CASE txn[w].code = NoCode
  BY <1>2, LeaveFrame DEF UseCode, codes, CodesMove, SameRows
<1>3. CASE txn[w].code # NoCode
  <2>1. PICK c \in Codes : c = txn[w].code
    BY <1>1, <1>3
  <2>2. code' = [code EXCEPT ![c].st = "used"] /\ accepted' = [accepted EXCEPT ![c] = @ + 1]
    BY <1>3, <2>1 DEF UseCode
  <2>3. code'[c] = [code[c] EXCEPT !.st = "used"] /\ code[c] \in Code
        /\ \A d \in Codes : d # c => code'[d] = code[d]
    BY <1>1, <2>2
  <2>4. /\ code'[c].st = "used" /\ code'[c].id = code[c].id /\ code'[c].purpose = code[c].purpose
        /\ code'[c].at = code[c].at
    BY <2>3 DEF Code
  <2>5. code[c].st # "none"
    BY <1>3, <2>1 DEF CountInv
  <2>6. SameRows
    BY <2>3, <2>4, <2>5 DEF SameRows
  <2> QED
    BY <2>1, <2>2, <2>4, <2>6, LeaveFrame DEF CodesMove
<1> QED
  BY <1>2, <1>3

LEMMA StepCodes ==
    ASSUME Inv, CountInv, NEW w \in Workers, Step(w) \/ Abort(w)
    PROVE  CodesMove(w)
<1>1. CASE \/ LoginCommit(w) \/ CreateAccount(w) \/ ResetCommit(w) \/ BindCommit(w)
  BY <1>1, CodeIsUsed DEF LoginCommit, CreateAccount, ResetCommit, BindCommit
<1>2. CASE \/ RefreshCommit(w) \/ ChangeCommit(w) \/ UnbindCommit(w) \/ BridgeCommit(w) \/ Abort(w)
  BY <1>2, LeaveFrame DEF RefreshCommit, ChangeCommit, UnbindCommit, BridgeCommit, Abort,
     CodesMove, SameRows, codes
<1>3. CASE SendCommit(w)
  <2>1. PICK c \in Codes : code[c].st = "none" /\ code' = [code EXCEPT ![c] = NewRow(txn[w].id, txn[w].for)]
    BY <1>3 DEF SendCommit, Unwritten
  <2> QED
    BY <1>3, <2>1, LeaveFrame DEF SendCommit, CodesMove
<1>4. CASE LoginUnknown(w)
  <2>1. txn' = [txn EXCEPT ![w] = [txn[w] EXCEPT !.pc = "register"]]
        /\ UNCHANGED <<code, accepted, now, overlapped>>
    BY <1>4 DEF LoginUnknown, Go, codes
  <2>2. txn \in [Workers -> Txn]
    BY DEF Inv, TypeInv, TypeOK
  <2>3. txn'[w].pc = "register" /\ txn'[w].code = txn[w].code /\ \A v \in Workers : v # w => txn'[v] = txn[v]
    BY <2>1, <2>2 DEF Txn
  <2> QED
    BY <2>1, <2>3 DEF CodesMove, SameRows
<1>5. CASE LoginKnown(w) \/ ResetLoad(w) \/ BindLoad(w)
  <2>1. PICK u : LoadUser(w, u)
    BY <1>5 DEF LoginKnown, ResetLoad, BindLoad
  <2>2. txn' = [txn EXCEPT ![w] = [txn[w] EXCEPT !.pc = txn[w].for, !.user = u, !.row = user[u],
                                                  !.resets = resets[u]]]
        /\ UNCHANGED <<code, accepted, now, overlapped>>
    BY <2>1 DEF LoadUser, Go, codes
  <2>3. txn \in [Workers -> Txn]
    BY DEF Inv, TypeInv, TypeOK
  <2>4. /\ txn'[w].pc = txn[w].for /\ txn[w].for \in Purposes /\ txn'[w].code = txn[w].code
        /\ \A v \in Workers : v # w => txn'[v] = txn[v]
    BY <2>2, <2>3 DEF Txn
  <2> QED
    BY <2>2, <2>4 DEF CodesMove, SameRows
<1>6. CASE EnsurePersonalOrg(w) \/ BridgeConflict(w)
  <2>1. Moves(w) /\ UNCHANGED codes /\ txn'[w].pc = "bridge" /\ txn'[w].code = txn[w].code
    BY <1>6, OrgMoves DEF Inv
  <2>2. UNCHANGED <<code, accepted, now, overlapped>>
    BY <2>1 DEF Moves, codes
  <2>3. \A v \in Workers : v # w => txn'[v] = txn[v]
    BY <2>1 DEF Moves, Inv, TypeInv, TypeOK
  <2> QED
    BY <2>1, <2>2, <2>3 DEF CodesMove, SameRows
<1> QED
  BY <1>1, <1>2, <1>3, <1>4, <1>5, <1>6 DEF Step


LEMMA SendersLeave ==
    ASSUME NEW w \in Workers, CodesMove(w)
    PROVE  /\ \A id, p : Senders(id, p)' \subseteq Senders(id, p) /\ w \notin Senders(id, p)'
           /\ \A id : SendersTo(id)' \subseteq SendersTo(id) /\ w \notin SendersTo(id)'
           /\ AllSenders' \subseteq AllSenders /\ w \notin AllSenders'
           /\ \A t : Refreshers(t)' \subseteq Refreshers(t) /\ w \notin Refreshers(t)'
<1>1. txn'[w].pc \notin {"send", "refresh"} /\ \A v \in Workers : v # w => txn'[v] = txn[v]
  BY DEF CodesMove
<1> QED
  BY <1>1 DEF Senders, SendersTo, AllSenders, Refreshers

LEMMA RowsMove ==
    ASSUME Inv, NEW w \in Workers, CodesMove(w)
    PROVE  \E c : /\ \A id, p : \/ Recent(id, p)' \subseteq Recent(id, p)
                                \/ Recent(id, p)' \subseteq Recent(id, p) \cup {c} /\ w \in Senders(id, p)
                  /\ \A id : \/ Today(id)' \subseteq Today(id)
                             \/ Today(id)' \subseteq Today(id) \cup {c} /\ w \in SendersTo(id)
                  /\ \/ Lately' \subseteq Lately
                     \/ Lately' \subseteq Lately \cup {c} /\ w \in AllSenders
<1>1. now' = now
  BY DEF CodesMove
<1>2. CASE SameRows
  BY <1>1, <1>2 DEF SameRows, Recent, Today, Lately, Rows
<1>3. ASSUME NEW c \in Codes, txn[w].pc = "send", code' = [code EXCEPT ![c] = NewRow(txn[w].id, txn[w].for)]
      PROVE  /\ \A id, p : \/ Recent(id, p)' \subseteq Recent(id, p)
                           \/ Recent(id, p)' \subseteq Recent(id, p) \cup {c} /\ w \in Senders(id, p)
             /\ \A id : \/ Today(id)' \subseteq Today(id)
                        \/ Today(id)' \subseteq Today(id) \cup {c} /\ w \in SendersTo(id)
             /\ \/ Lately' \subseteq Lately
                \/ Lately' \subseteq Lately \cup {c} /\ w \in AllSenders
  <2>1. /\ code'[c].id = txn[w].id /\ code'[c].purpose = txn[w].for
        /\ \A d \in Codes : d # c => code'[d] = code[d]
    BY <1>3 DEF NewRow, Inv, TypeInv, TypeOK
  <2>2. \A id, p : /\ Recent(id, p)' \subseteq Recent(id, p) \cup {c}
                   /\ c \in Recent(id, p)' => w \in Senders(id, p)
    BY <1>1, <1>3, <2>1 DEF Recent, Rows, Senders
  <2>3. \A id : Today(id)' \subseteq Today(id) \cup {c} /\ (c \in Today(id)' => w \in SendersTo(id))
    BY <1>1, <1>3, <2>1 DEF Today, Rows, SendersTo
  <2>4. Lately' \subseteq Lately \cup {c} /\ w \in AllSenders
    BY <1>1, <1>3, <2>1 DEF Lately, Rows, AllSenders
  <2> QED
    BY <2>2, <2>3, <2>4
<1> QED
  BY <1>2, <1>3 DEF CodesMove

(* A refresh adds one successor to the token it has loaded.                *)
SessionsMove(w) ==
    \/ \A t \in Tokens : Successors(t)' = Successors(t)
    \/ \E n, o \in Tokens :
          /\ \A t \in Tokens \ {o} : Successors(t)' = Successors(t)
          /\ Successors(o)' \subseteq Successors(o) \cup {n} /\ w \in Refreshers(o)

LEMMA PassesOn ==
    ASSUME token \in [Tokens -> Token], NEW T \in SUBSET LiveOnes, token' = Revoke(T)
    PROVE  \A t : Successors(t)' = Successors(t)
<1>1. T \in SUBSET Tokens
  BY DEF LiveOnes
<1>2. \A n \in Tokens : token'[n].prev = token[n].prev
  BY <1>1, RevokeFacts
<1> QED
  BY <1>2 DEF Successors

LEMMA StepSessions ==
    ASSUME Inv, NEW w \in Workers, Step(w) \/ Abort(w)
    PROVE  SessionsMove(w)
<1>0. token \in [Tokens -> Token] /\ now \in Nat /\ TokenInv /\ txn[w] \in Txn /\ Holds(txn[w])
  BY DEF Inv, TypeInv, TypeOK
<1>1. CASE UNCHANGED token
  BY <1>1 DEF SessionsMove, Successors
<1>2. ASSUME NEW T \in SUBSET LiveOnes, token' = Revoke(T) PROVE SessionsMove(w)
  BY <1>0, <1>2, PassesOn DEF SessionsMove
<1>3. ASSUME NEW n \in NextToken, NEW u \in Users, NEW r \in Nat, token' = Issue(n, u, r, now)
      PROVE  SessionsMove(w)
  <2>1. \A t \in Tokens : token'[t].prev = token[t].prev
    BY <1>0, <1>3, IssueFacts, NextTokenFacts DEF TokenInv, Issued, Unissued
  <2> QED
    BY <2>1 DEF SessionsMove, Successors
<1>4. CASE RefreshCommit(w)
  <2>1. PICK n \in NextToken : token' = Rotate(txn[w].token, n, now)
    BY <1>4 DEF RefreshCommit
  <2>2. PICK o \in Tokens : o = txn[w].token /\ token[o].st # "none" /\ w \in Refreshers(o)
    BY <1>0, <1>4 DEF RefreshCommit, Holds, Refreshers
  <2>3. token[o].user \in Users /\ token[o].root \in Tokens
    BY <1>0, <2>2 DEF TokenInv, Issued
  <2>4. token'[n].prev = o /\ \A t \in Tokens : t # n => token'[t].prev = token[t].prev
    BY <1>0, <2>1, <2>2, <2>3, RotateFacts
  <2>5. n \in Tokens /\ token[n].prev = NoToken
    BY <1>0, NextTokenFacts DEF TokenInv, Issued, Unissued
  <2>6. \A t \in Tokens \ {o} : Successors(t)' = Successors(t)
    BY <2>4, <2>5, ConstantFacts DEF Successors
  <2>7. Successors(o)' \subseteq Successors(o) \cup {n}
    BY <2>4 DEF Successors
  <2> QED
    BY <2>2, <2>5, <2>6, <2>7 DEF SessionsMove
<1>5. CASE LoginCommit(w)
  <2>1. txn[w].user \in Users /\ txn[w].resets \in Nat
    BY <1>0, <1>5 DEF LoginCommit, Holds, Txn
  <2> QED
    BY <1>3, <1>5, <2>1 DEF LoginCommit
<1>6. CASE CreateAccount(w)
  BY <1>3, <1>6 DEF CreateAccount
<1>7. CASE ResetCommit(w) \/ ChangeCommit(w)
  BY <1>2, <1>7 DEF ResetCommit, ChangeCommit, RevokeAll, RevokeOthers, LiveTokens, LiveOnes
<1>8. CASE \/ SendCommit(w) \/ LoginKnown(w) \/ LoginUnknown(w) \/ ResetLoad(w) \/ BindLoad(w)
           \/ BindCommit(w) \/ UnbindCommit(w)
           \/ EnsurePersonalOrg(w) \/ BridgeConflict(w) \/ BridgeCommit(w) \/ Abort(w)
  BY <1>1, <1>8 DEF SendCommit, LoginKnown, LoginUnknown, ResetLoad, BindLoad, LoadUser, BindCommit,
     UnbindCommit, EnsurePersonalOrg, BridgeConflict, BridgeCommit, Abort
<1> QED
  BY <1>4, <1>5, <1>6, <1>7, <1>8 DEF Step

LEMMA StepCounts ==
    ASSUME Inv, CountInv, NEW w \in Workers, CodesMove(w), SessionsMove(w)
    PROVE  CountInv'
<1>0. Bound' = Bound /\ overlapped' = overlapped
  BY DEF CodesMove, Bound
<1>1. \A v \in Workers : txn'[v].code \in {NoCode, txn[v].code}
  BY DEF CodesMove
<1>2. \A v \in Workers : txn'[v].code # NoCode => code'[txn'[v].code].st # "none"
  <2>1. ASSUME NEW v \in Workers, txn'[v].code # NoCode PROVE code'[txn'[v].code].st # "none"
    <3>1. PICK c \in Codes : c = txn[v].code /\ c = txn'[v].code /\ code[c].st # "none"
      BY <1>1, <2>1 DEF CountInv, Inv, TypeInv, TypeOK, Txn
    <3>2. code'[c].st # "none"
      BY <3>1 DEF CodesMove, SameRows, Inv, TypeInv, TypeOK
    <3> QED
      BY <3>1, <3>2
  <2> QED
    BY <2>1
<1>3. ASSUME NEW c \in Codes
      PROVE  /\ code'[c].st # "used" => accepted'[c] = 0
             /\ accepted'[c] + Cardinality(Holders(c)') <= Bound
  <2>0. /\ Holders(c)' \subseteq Holders(c) /\ Holders(c) \subseteq Workers
        /\ IsFiniteSet(Holders(c)) /\ IsFiniteSet(Holders(c)')
        /\ Cardinality(Holders(c)) \in Nat /\ Cardinality(Holders(c)') \in Nat
        /\ Cardinality(Holders(c)') <= Cardinality(Holders(c))
    <3>1. Holders(c)' \subseteq Holders(c) /\ Holders(c) \subseteq Workers
      BY <1>1, ConstantFacts DEF Holders
    <3> QED
      BY <3>1, FiniteSets, FS_Subset
  <2>1. accepted[c] \in Nat /\ Bound \in Nat /\ accepted[c] + Cardinality(Holders(c)) <= Bound
    BY FiniteSets DEF CountInv, Inv, TypeInv, TypeOK, Bound
  <2>2. CASE accepted'[c] = accepted[c]
    <3>1. code'[c].st # "used" => code[c].st # "used"
      BY DEF CodesMove, SameRows, Inv, TypeInv, TypeOK
    <3> QED
      BY <2>0, <2>1, <2>2, <3>1 DEF CountInv
  <2>3. CASE accepted'[c] # accepted[c]
    <3>1. /\ c = txn[w].code /\ txn'[w].code = NoCode /\ code'[c].st = "used"
          /\ accepted'[c] = accepted[c] + 1
      BY <2>3 DEF CodesMove, Inv, TypeInv, TypeOK
    <3>2. w \in Holders(c) /\ w \notin Holders(c)'
      BY <3>1, ConstantFacts DEF Holders
    <3>3. IsFiniteSet(Holders(c) \ {w}) /\ Cardinality(Holders(c) \ {w}) = Cardinality(Holders(c)) - 1
          /\ Holders(c)' \subseteq Holders(c) \ {w}
      BY <2>0, <3>2, FS_RemoveElement
    <3>4. Cardinality(Holders(c)') <= Cardinality(Holders(c) \ {w})
      BY <3>3, FS_Subset
    <3> QED
      BY <2>0, <2>1, <3>1, <3>3, <3>4
  <2> QED
    BY <2>2, <2>3
<1>4. PICK c : /\ \A id, p : \/ Recent(id, p)' \subseteq Recent(id, p)
                             \/ Recent(id, p)' \subseteq Recent(id, p) \cup {c} /\ w \in Senders(id, p)
               /\ \A id : \/ Today(id)' \subseteq Today(id)
                          \/ Today(id)' \subseteq Today(id) \cup {c} /\ w \in SendersTo(id)
               /\ \/ Lately' \subseteq Lately
                  \/ Lately' \subseteq Lately \cup {c} /\ w \in AllSenders
  BY RowsMove
<1>5. /\ \A id, p : Recent(id, p)' \in SUBSET Codes /\ Senders(id, p)' \in SUBSET Workers
      /\ \A id : Today(id)' \in SUBSET Codes /\ SendersTo(id)' \in SUBSET Workers
      /\ Lately' \in SUBSET Codes /\ AllSenders' \in SUBSET Workers
  BY DEF Holders, Senders, SendersTo, AllSenders, Recent, Lately, Today, Rows
<1>t. Bound \in Nat /\ SourceMax \in Nat /\ DailyMax \in Nat
  BY FiniteSets, CodeAssumption, <1>0 DEF Bound
<1>6. ASSUME NEW id \in Ids, NEW p \in Purposes
      PROVE  Cardinality(Recent(id, p)') + Cardinality(Senders(id, p)') <= Bound
  <2>1. Cardinality(Recent(id, p)') + Cardinality(Senders(id, p)')
        <= Cardinality(Recent(id, p)) + Cardinality(Senders(id, p))
    BY <1>4, <1>5, CountSets, SendersLeave, Counted
  <2>2. Cardinality(Recent(id, p)) + Cardinality(Senders(id, p)) <= Bound
    BY DEF CountInv
  <2> QED
    BY <1>5, <1>t, <2>1, <2>2, CountSets, FiniteSets
<1>7. Cardinality(Lately') + Cardinality(AllSenders') <= SourceMax - 1 + Bound
  <2>1. Cardinality(Lately') + Cardinality(AllSenders') <= Cardinality(Lately) + Cardinality(AllSenders)
    BY <1>4, <1>5, CountSets, SendersLeave, Counted
  <2>2. Cardinality(Lately) + Cardinality(AllSenders) <= SourceMax - 1 + Bound
    BY DEF CountInv
  <2> QED
    BY <1>5, <1>t, <2>1, <2>2, CountSets, FiniteSets
<1>8. ASSUME NEW id \in Ids
      PROVE  Cardinality(Today(id)') + Cardinality(SendersTo(id)') <= DailyMax - 1 + Bound
  <2>1. Cardinality(Today(id)') + Cardinality(SendersTo(id)')
        <= Cardinality(Today(id)) + Cardinality(SendersTo(id))
    BY <1>4, <1>5, CountSets, SendersLeave, Counted
  <2>2. Cardinality(Today(id)) + Cardinality(SendersTo(id)) <= DailyMax - 1 + Bound
    BY DEF CountInv
  <2> QED
    BY <1>5, <1>t, <2>1, <2>2, CountSets, FiniteSets
<1>9. ASSUME NEW t \in Tokens
      PROVE  Cardinality(Successors(t)') + Cardinality(Refreshers(t)') <= Bound
  <2>0. Successors(t)' \in SUBSET Tokens /\ Refreshers(t)' \in SUBSET Workers
    BY DEF Successors, Refreshers
  <2>1. PICK n : \/ Successors(t)' \subseteq Successors(t)
                 \/ Successors(t)' \subseteq Successors(t) \cup {n} /\ w \in Refreshers(t)
    BY DEF SessionsMove
  <2>2. Refreshers(t)' \subseteq Refreshers(t) /\ w \notin Refreshers(t)'
    BY SendersLeave
  <2>3. PICK U \in {Codes, Tokens} : U = Tokens
    OBVIOUS
  <2>4. Cardinality(Successors(t)') + Cardinality(Refreshers(t)')
        <= Cardinality(Successors(t)) + Cardinality(Refreshers(t))
    BY <2>0, <2>1, <2>2, <2>3, CountSets, Counted
  <2>5. Cardinality(Successors(t)) + Cardinality(Refreshers(t)) <= Bound
    BY DEF CountInv
  <2> QED
    BY <1>t, <2>0, <2>4, <2>5, CountSets, FiniteSets
<1> QED
  BY <1>0, <1>2, <1>3, <1>6, <1>7, <1>8, <1>9 DEF CountInv


LEMMA BoundGrows ==
    ASSUME NEW w \in Workers, Arrive, overlapped \in BOOLEAN
    PROVE  Bound \in Nat /\ Bound' \in Nat /\ Bound <= Bound' /\ Cardinality(Workers) >= 1
<1>1. {w} \in SUBSET Workers /\ Cardinality({w}) = 1
  BY FS_Singleton
<1>2. Cardinality(Workers) >= 1 /\ Cardinality(Workers) \in Nat
  BY <1>1, FiniteSets
<1>3. overlapped => overlapped'
  BY DEF Arrive
<1> QED
  BY <1>2, <1>3 DEF Bound

(* A code that is held has not been used, a limit that is passed was not   *)
(* reached.                                                                *)
LEMMA BeginCounts ==
    ASSUME Inv, Inv', Alone', CountInv, NEW w \in Workers, Idle(w), RequestFrame, NEW t, Begins(w, t)
    PROVE  CountInv'
<1>1. /\ UNCHANGED <<code, accepted, now>> /\ t \in Txn /\ txn'[w] = t /\ t.pc # "idle"
      /\ \A v \in Workers : v # w => txn'[v] = txn[v]
      /\ txn[w].code = NoCode /\ txn[w].pc # "send"
  BY DEF RequestFrame, Begins, Inv, TypeInv, TypeOK, Idle, Holds, NoTxn
<1>2. Bound \in Nat /\ Bound' \in Nat /\ Bound <= Bound' /\ Cardinality(Workers) >= 1
  BY BoundGrows DEF RequestFrame, Inv, TypeInv, TypeOK
<1>3. \A v \in Workers : txn'[v].code # NoCode \/ txn'[v].pc = "send" => ~Idle(v)'
  BY DEF Inv, TypeInv, Holds, Idle, NoTxn
<1>4. \A v \in Workers : txn'[v].code # NoCode => code'[txn'[v].code].st # "none"
  BY <1>1 DEF CountInv, Begins
<1>n. /\ \A c \in Codes : accepted[c] \in Nat /\ Cardinality(Holders(c)) \in Nat
      /\ \A id, p : Cardinality(Recent(id, p)) \in Nat /\ Cardinality(Senders(id, p)) \in Nat
                    /\ Cardinality(Senders(id, p)') \in Nat
      /\ \A id : Cardinality(Today(id)) \in Nat /\ Cardinality(SendersTo(id)) \in Nat
                    /\ Cardinality(SendersTo(id)') \in Nat
      /\ Cardinality(Lately) \in Nat /\ Cardinality(AllSenders) \in Nat /\ Cardinality(AllSenders') \in Nat
      /\ SourceMax \in Nat /\ DailyMax \in Nat
  <2>1. /\ \A id, p : Senders(id, p)' \in SUBSET Workers
        /\ \A id : SendersTo(id)' \in SUBSET Workers
        /\ AllSenders' \in SUBSET Workers
    BY DEF Senders, SendersTo, AllSenders
  <2> QED
    BY <2>1, FiniteSets, CountSets, CodeAssumption DEF Inv, TypeInv, TypeOK
<1>5. ASSUME NEW c \in Codes
      PROVE  /\ code'[c].st # "used" => accepted'[c] = 0
             /\ accepted'[c] + Cardinality(Holders(c)') <= Bound'
  <2>1. code'[c].st # "used" => accepted'[c] = 0
    BY <1>1 DEF CountInv
  <2>2. CASE t.code = c
    <3>1. accepted'[c] = 0
      BY <1>1, <2>2, ConstantFacts DEF Begins, CountInv
    <3>2. Holders(c)' \in SUBSET {v \in Workers : ~Idle(v)'}
      BY <1>3, ConstantFacts DEF Holders
    <3>3. Cardinality(Holders(c)') <= Bound' /\ Cardinality(Holders(c)') \in Nat
      BY <3>2, BusyBound, FiniteSets
    <3> QED
      BY <1>2, <2>1, <3>1, <3>3
  <2>3. CASE t.code # c
    <3>1. Holders(c)' = Holders(c)
      BY <1>1, <2>3, ConstantFacts DEF Holders
    <3>2. accepted[c] + Cardinality(Holders(c)) <= Bound
      BY DEF CountInv
    <3> QED
      BY <1>1, <1>2, <1>n, <2>1, <3>1, <3>2
  <2> QED
    BY <2>2, <2>3
<1>6. /\ \A id, p : Recent(id, p)' = Recent(id, p)
      /\ \A id : Today(id)' = Today(id)
      /\ Lately' = Lately
  BY <1>1 DEF Recent, Today, Lately, Rows
<1>7. ASSUME NEW id \in Ids, NEW p \in Purposes
      PROVE  Cardinality(Recent(id, p)') + Cardinality(Senders(id, p)') <= Bound'
  <2>1. CASE w \in Senders(id, p)'
    <3>1. t.pc = "send" /\ t.id = id /\ t.for = p
      BY <1>1, <2>1 DEF Senders
    <3>2. Recent(id, p) = {}
      BY <3>1 DEF Begins, SendAllowed
    <3>3. Senders(id, p)' \in SUBSET {v \in Workers : ~Idle(v)'}
      BY <1>3 DEF Senders
    <3> QED
      BY <1>2, <1>6, <1>n, <3>2, <3>3, BusyBound, FS_EmptySet
  <2>2. CASE w \notin Senders(id, p)'
    <3>1. Senders(id, p)' = Senders(id, p)
      BY <1>1, <2>2 DEF Senders
    <3> QED
      BY <1>2, <1>6, <1>n, <3>1 DEF CountInv
  <2> QED
    BY <2>1, <2>2
<1>8. Cardinality(Lately') + Cardinality(AllSenders') <= SourceMax - 1 + Bound'
  <2>1. CASE t.pc = "send"
    <3>1. Cardinality(Lately) < SourceMax
      BY <2>1 DEF Begins, SendAllowed, Lately
    <3>2. AllSenders' \in SUBSET {v \in Workers : ~Idle(v)'}
      BY <1>3 DEF AllSenders
    <3> QED
      BY <1>2, <1>6, <1>n, <3>1, <3>2, BusyBound
  <2>2. CASE t.pc # "send"
    <3>1. AllSenders' = AllSenders
      BY <1>1, <2>2 DEF AllSenders
    <3>2. Cardinality(Lately) + Cardinality(AllSenders) <= SourceMax - 1 + Bound
      BY DEF CountInv
    <3> QED
      BY <1>2, <1>6, <1>n, <3>1, <3>2
  <2> QED
    BY <2>1, <2>2
<1>9. ASSUME NEW id \in Ids
      PROVE  Cardinality(Today(id)') + Cardinality(SendersTo(id)') <= DailyMax - 1 + Bound'
  <2>1. CASE w \in SendersTo(id)'
    <3>1. t.pc = "send" /\ t.id = id
      BY <1>1, <2>1 DEF SendersTo
    <3>2. Cardinality(Today(id)) < DailyMax
      BY <3>1 DEF Begins, SendAllowed, Today
    <3>3. SendersTo(id)' \in SUBSET {v \in Workers : ~Idle(v)'}
      BY <1>3 DEF SendersTo
    <3> QED
      BY <1>2, <1>6, <1>n, <3>2, <3>3, BusyBound
  <2>2. CASE w \notin SendersTo(id)'
    <3>1. SendersTo(id)' = SendersTo(id)
      BY <1>1, <2>2 DEF SendersTo
    <3>2. Cardinality(Today(id)) + Cardinality(SendersTo(id)) <= DailyMax - 1 + Bound
      BY DEF CountInv
    <3> QED
      BY <1>2, <1>6, <1>n, <3>1, <3>2
  <2> QED
    BY <2>1, <2>2
<1>10. ASSUME NEW x \in Tokens
       PROVE  Cardinality(Successors(x)') + Cardinality(Refreshers(x)') <= Bound'
  <2>0. Successors(x)' = Successors(x)
    BY DEF Begins, Successors
  <2>n. /\ Refreshers(x)' \in SUBSET Workers /\ Cardinality(Refreshers(x)') \in Nat
        /\ Cardinality(Refreshers(x)) \in Nat /\ Cardinality(Successors(x)) \in Nat
    <3>1. Refreshers(x)' \in SUBSET Workers
      BY DEF Refreshers
    <3> QED
      BY <3>1, CountSets, FiniteSets
  <2>1. CASE w \in Refreshers(x)'
    <3>1. t.pc = "refresh" /\ t.token = x
      BY <1>1, <2>1 DEF Refreshers
    <3>2. token[x].st = "live"
      BY <3>1 DEF Begins, Fresh
    <3>3. Successors(x) = {}
      BY <3>2, ConstantFacts DEF Successors, Inv, TokenInv, ChainsFrom
    <3>4. Refreshers(x)' \in SUBSET {v \in Workers : ~Idle(v)'}
      BY DEF Refreshers, Idle
    <3> QED
      BY <1>2, <2>0, <2>n, <3>3, <3>4, BusyBound, FS_EmptySet
  <2>2. CASE w \notin Refreshers(x)'
    <3>1. Refreshers(x)' \subseteq Refreshers(x)
      BY <1>1, <2>2 DEF Refreshers
    <3>2. Cardinality(Refreshers(x)') <= Cardinality(Refreshers(x))
      BY <3>1, CountSets, FiniteSets, FS_Subset
    <3>3. Cardinality(Successors(x)) + Cardinality(Refreshers(x)) <= Bound
      BY DEF CountInv
    <3> QED
      BY <1>2, <2>0, <2>n, <3>2, <3>3
  <2> QED
    BY <2>1, <2>2
<1> QED
  BY <1>2, <1>4, <1>5, <1>7, <1>8, <1>9, <1>10 DEF CountInv


(* As time passes, fewer rows are recent.                                  *)
LEMMA RestCounts ==
    ASSUME Inv, CountInv, UNCHANGED <<code, accepted, txn>>, \A t : Successors(t)' = Successors(t), now' \in Nat, now <= now',
           Bound \in Nat, Bound' \in Nat, Bound <= Bound', overlapped' => Cardinality(Workers) >= 1
    PROVE  CountInv'
<1>1. /\ \A c : Holders(c)' = Holders(c)
      /\ \A id, p : Senders(id, p)' = Senders(id, p)
      /\ \A id : SendersTo(id)' = SendersTo(id)
      /\ AllSenders' = AllSenders
      /\ \A t : Refreshers(t)' = Refreshers(t)
  BY DEF Holders, Senders, SendersTo, AllSenders, Refreshers
<1>2. /\ Lately' \subseteq Lately /\ \A id, p : Recent(id, p)' \subseteq Recent(id, p)
      /\ \A id : Today(id)' \subseteq Today(id)
  <2>1. \A c \in Codes : /\ code[c].at \in Nat /\ now \in Nat /\ Window \in Nat
                          /\ Cooldown \in Nat /\ Day \in Nat
    BY CodeAssumption DEF Inv, TypeInv, TypeOK, Code
  <2> QED
    BY <2>1 DEF Lately, Recent, Today, Rows
<1>3. /\ Cardinality(Lately') <= Cardinality(Lately) /\ Cardinality(Lately') \in Nat
      /\ \A id, p : Cardinality(Recent(id, p)') <= Cardinality(Recent(id, p)) /\ Cardinality(Recent(id, p)') \in Nat
      /\ \A id : Cardinality(Today(id)') <= Cardinality(Today(id)) /\ Cardinality(Today(id)') \in Nat
  <2>1. /\ IsFiniteSet(Lately) /\ \A id, p : IsFiniteSet(Recent(id, p))
        /\ \A id : IsFiniteSet(Today(id))
    BY CountSets, FiniteSets
  <2> QED
    BY <1>2, <2>1, FS_Subset, FS_CardinalityType
<1>4. /\ \A c \in Codes : accepted[c] \in Nat /\ Cardinality(Holders(c)) \in Nat
      /\ \A id, p : Cardinality(Recent(id, p)) \in Nat /\ Cardinality(Senders(id, p)) \in Nat
      /\ \A id : Cardinality(Today(id)) \in Nat /\ Cardinality(SendersTo(id)) \in Nat
      /\ Cardinality(Lately) \in Nat /\ Cardinality(AllSenders) \in Nat
      /\ SourceMax \in Nat /\ DailyMax \in Nat
  BY FiniteSets, CountSets, CodeAssumption DEF Inv, TypeInv, TypeOK
<1>5. \A c \in Codes : /\ code'[c].st # "used" => accepted'[c] = 0
                       /\ accepted'[c] + Cardinality(Holders(c)') <= Bound'
  BY <1>1, <1>4 DEF CountInv
<1>6. \A id \in Ids, p \in Purposes : Cardinality(Recent(id, p)') + Cardinality(Senders(id, p)') <= Bound'
  <2> TAKE id \in Ids, p \in Purposes
  <2>1. Cardinality(Recent(id, p)) + Cardinality(Senders(id, p)) <= Bound
    BY DEF CountInv
  <2> QED
    BY <1>1, <1>3, <1>4, <2>1
<1>7. Cardinality(Lately') + Cardinality(AllSenders') <= SourceMax - 1 + Bound'
  <2>1. Cardinality(Lately) + Cardinality(AllSenders) <= SourceMax - 1 + Bound
    BY DEF CountInv
  <2> QED
    BY <1>1, <1>3, <1>4, <2>1
<1>8. \A id \in Ids : Cardinality(Today(id)') + Cardinality(SendersTo(id)') <= DailyMax - 1 + Bound'
  <2> TAKE id \in Ids
  <2>1. Cardinality(Today(id)) + Cardinality(SendersTo(id)) <= DailyMax - 1 + Bound
    BY DEF CountInv
  <2> QED
    BY <1>1, <1>3, <1>4, <2>1
<1>10. \A t \in Tokens : Cardinality(Successors(t)') + Cardinality(Refreshers(t)') <= Bound'
  <2> TAKE t \in Tokens
  <2>1. Cardinality(Successors(t)) + Cardinality(Refreshers(t)) <= Bound
    BY DEF CountInv
  <2>2. Cardinality(Successors(t)) \in Nat /\ Cardinality(Refreshers(t)) \in Nat
    BY CountSets, FiniteSets
  <2> QED
    BY <1>1, <2>1, <2>2
<1>9. \A v \in Workers : txn'[v].code # NoCode => code'[txn'[v].code].st # "none"
  BY DEF CountInv
<1> QED
  BY <1>5, <1>6, <1>7, <1>8, <1>9, <1>10 DEF CountInv

Counting == Inv /\ Alone /\ CountInv

LEMMA CountInit == Init => Counting
<1> SUFFICES ASSUME Init PROVE CountInv
  BY AloneInit DEF Counting
<1>1. /\ \A c \in Codes : code[c].st = "none" /\ accepted[c] = 0
      /\ \A w \in Workers : txn[w].pc = "idle" /\ txn[w].code = NoCode
      /\ overlapped = FALSE /\ token = [t \in Tokens |-> Unissued]
  BY DEF Init, NoTxn
<1>2. /\ \A c \in Codes : Holders(c) = {}
      /\ \A id, p : Senders(id, p) = {} /\ Recent(id, p) = {}
      /\ \A id : SendersTo(id) = {} /\ Today(id) = {}
      /\ AllSenders = {} /\ Lately = {}
      /\ \A t \in Tokens : Successors(t) = {} /\ Refreshers(t) = {}
  BY <1>1, ConstantFacts DEF Holders, Senders, SendersTo, AllSenders, Recent, Today, Lately, Rows,
     Successors, Refreshers, Unissued
<1>3. Bound = 1 /\ Cardinality({}) = 0 /\ SourceMax \in Nat /\ DailyMax \in Nat
  BY <1>1, FS_EmptySet, CodeAssumption DEF Bound
<1>4. \A c \in Codes : Cardinality(Holders(c)) = 0
  BY <1>2, <1>3
<1>5. \A id \in Ids, p \in Purposes : Cardinality(Recent(id, p)) = 0 /\ Cardinality(Senders(id, p)) = 0
  BY <1>2, <1>3
<1>6. Cardinality(Lately) = 0 /\ Cardinality(AllSenders) = 0
  BY <1>2, <1>3
<1>7. \A id \in Ids : Cardinality(Today(id)) = 0 /\ Cardinality(SendersTo(id)) = 0
  BY <1>2, <1>3
<1>8. \A t \in Tokens : Cardinality(Successors(t)) = 0 /\ Cardinality(Refreshers(t)) = 0
  BY <1>2, <1>3
<1> QED
  BY <1>1, <1>3, <1>4, <1>5, <1>6, <1>7, <1>8 DEF CountInv

LEMMA CountStep == Counting /\ [Next]_vars => Counting'
<1> SUFFICES ASSUME Inv, Alone, CountInv, [Next]_vars PROVE CountInv'
  BY AloneNext DEF Counting
<1>0. Inv' /\ Alone' /\ Bound \in Nat /\ now \in Nat
  BY AloneNext, FiniteSets DEF Bound, Inv, TypeInv, TypeOK
<1>1. ASSUME NEW w \in Workers, Request(w) PROVE CountInv'
  <2>1. Idle(w) /\ RequestFrame /\ ((\E t : Begins(w, t)) \/ Passes)
    BY <1>1, RequestEffect DEF Inv, Effect
  <2>2. CASE \E t : Begins(w, t)
    BY <1>0, <2>1, <2>2, BeginCounts
  <2>3. CASE Passes
    <3>1. UNCHANGED <<code, accepted, txn, now>> /\ \A t : Successors(t)' = Successors(t)
      BY <2>1, <2>3, PassesOn DEF RequestFrame, Passes, Inv, TypeInv, TypeOK
    <3>2. Bound' \in Nat /\ Bound <= Bound' /\ Cardinality(Workers) >= 1
      BY <2>1, BoundGrows DEF RequestFrame, Inv, TypeInv, TypeOK
    <3> QED
      BY <1>0, <3>1, <3>2, RestCounts
  <2> QED
    BY <2>1, <2>2, <2>3
<1>2. ASSUME NEW w \in Workers, Step(w) \/ Abort(w) PROVE CountInv'
  BY <1>2, StepCodes, StepSessions, StepCounts
<1>3. CASE Tick \/ UNCHANGED vars
  <2>1. /\ UNCHANGED <<code, accepted, txn, overlapped>> /\ now' \in {now, now + 1}
        /\ \A t : Successors(t)' = Successors(t)
    BY <1>3 DEF Tick, vars, codes, Successors
  <2>2. Bound' = Bound /\ (overlapped' => Cardinality(Workers) >= 1)
    BY <2>1 DEF Bound, CountInv
  <2> QED
    BY <1>0, <2>1, <2>2, RestCounts
<1> QED
  BY <1>1, <1>2, <1>3 DEF Next

LEMMA BoundIs == overlapped \in BOOLEAN => Bound = 1 + Overlaps
BY FiniteSets DEF Bound, Overlaps

(* A code opens the door once, and by requests that overlap once for each  *)
(* of them at most: nothing reads a code that a commit has used.           *)
THEOREM CodesAreUsedUp == Spec => []CodeUses
<1>1. ASSUME Counting PROVE CodeUses
  <2>1. Bound = 1 + Overlaps /\ Bound \in Nat
    BY <1>1, BoundIs, FiniteSets DEF Counting, Inv, TypeInv, TypeOK, Bound
  <2>2. ASSUME NEW c \in Codes PROVE accepted[c] <= 1 + Overlaps
    <3>1. accepted[c] + Cardinality(Holders(c)) <= Bound
      BY <1>1 DEF Counting, CountInv
    <3>2. accepted[c] \in Nat /\ Cardinality(Holders(c)) \in Nat
      BY <1>1, CountSets, FiniteSets DEF Counting, Inv, TypeInv, TypeOK
    <3> QED
      BY <2>1, <3>1, <3>2
  <2> QED
    BY <2>2 DEF CodeUses
<1> QED
  BY <1>1, CountInit, CountStep, PTL DEF Spec

(* Cooldown, address window and daily limit are kept, but for one row more *)
(* for each request that counted beside another one.                       *)
THEOREM SendsAreLimited == Spec => []SendLimits
<1>1. ASSUME Counting PROVE SendLimits
  <2>1. Bound = 1 + Overlaps /\ Bound \in Nat
    BY <1>1, BoundIs, FiniteSets DEF Counting, Inv, TypeInv, TypeOK, Bound
  <2>2. /\ \A id, p : Cardinality(Recent(id, p)) \in Nat /\ Cardinality(Senders(id, p)) \in Nat
        /\ \A id : Cardinality(Today(id)) \in Nat /\ Cardinality(SendersTo(id)) \in Nat
        /\ Cardinality(Lately) \in Nat /\ Cardinality(AllSenders) \in Nat
        /\ SourceMax \in Nat /\ DailyMax \in Nat
        /\ Overlaps \in Int
    BY FiniteSets, CountSets, CodeAssumption DEF Overlaps
  <2>3. \A id \in Ids, p \in Purposes : Cardinality(Recent(id, p)) <= 1 + Overlaps
    <3> TAKE id \in Ids, p \in Purposes
    <3>1. Cardinality(Recent(id, p)) + Cardinality(Senders(id, p)) <= Bound
      BY <1>1 DEF Counting, CountInv
    <3> QED
      BY <2>1, <2>2, <3>1
  <2>4. Cardinality(Lately) <= SourceMax + Overlaps
    <3>1. Cardinality(Lately) + Cardinality(AllSenders) <= SourceMax - 1 + Bound
      BY <1>1 DEF Counting, CountInv
    <3> QED
      BY <2>1, <2>2, <3>1
  <2>5. \A id \in Ids : Cardinality(Today(id)) <= DailyMax + Overlaps
    <3> TAKE id \in Ids
    <3>1. Cardinality(Today(id)) + Cardinality(SendersTo(id)) <= DailyMax - 1 + Bound
      BY <1>1 DEF Counting, CountInv
    <3> QED
      BY <2>1, <2>2, <3>1
  <2> QED
    BY <2>3, <2>4, <2>5 DEF SendLimits, Lately, Today
<1> QED
  BY <1>1, CountInit, CountStep, PTL DEF Spec

(* A refresh rotates the token it has loaded, whatever has become of it    *)
(* meanwhile: refreshes that overlap give one token several successors, at *)
(* most one for each of them, all with its owner and login; from the first *)
(* one on it is revoked, and replaced_by_id names one of them.             *)
THEOREM TokensChain == Spec => []TokenChains
<1>1. ASSUME Counting PROVE TokenChains
  <2>1. Bound = 1 + Overlaps /\ Bound \in Nat /\ TokenInv /\ token \in [Tokens -> Token]
    BY <1>1, BoundIs, FiniteSets DEF Counting, Inv, TypeInv, TypeOK, Bound
  <2> SUFFICES ASSUME NEW t \in Tokens
      PROVE  /\ Cardinality(Successors(t)) <= 1 + Overlaps
             /\ Successors(t) # {} => token[t].st = "revoked" /\ token[t].next \in Successors(t)
             /\ \A n \in Successors(t) : /\ n > t /\ token[n].user = token[t].user
                                         /\ token[n].root = token[t].root
    BY DEF TokenChains
  <2>2. Cardinality(Successors(t)) <= 1 + Overlaps
    <3>1. Cardinality(Successors(t)) + Cardinality(Refreshers(t)) <= Bound
      BY <1>1 DEF Counting, CountInv
    <3>2. Cardinality(Successors(t)) \in Nat /\ Cardinality(Refreshers(t)) \in Nat
      BY CountSets, FiniteSets
    <3> QED
      BY <2>1, <3>1, <3>2
  <2>3. ASSUME NEW n \in Successors(t)
        PROVE  /\ token[t].st = "revoked" /\ token[t].next \in Successors(t)
               /\ n > t /\ token[n].user = token[t].user /\ token[n].root = token[t].root
    <3>1. n \in Tokens /\ token[n].prev = t /\ t # NoToken /\ ChainsFrom(n)
      BY <2>1, ConstantFacts DEF Successors, TokenInv
    <3>2. /\ t < n /\ token[t].st = "revoked" /\ token[t].next \in Tokens
          /\ token[token[t].next].prev = t
          /\ token[n].user = token[t].user /\ token[n].root = token[t].root
      BY <3>1 DEF ChainsFrom
    <3> QED
      BY <3>1, <3>2 DEF Successors, Tokens
  <2> QED
    BY <2>2, <2>3
<1> QED
  BY <1>1, CountInit, CountStep, PTL DEF Spec


-----------------------------------------------------------------------------
(* Phones: proven by a code before they are bound.                         *)

Proven(p) ==
    \E c \in Codes : accepted[c] > 0 /\ code[c].id = p /\ code[c].purpose \in {"login", "bind"}

(* A request that holds a code has been sent it for what it is doing.      *)
Proving(t) ==
    /\ t.code # NoCode => code[t.code].id = t.id /\ code[t.code].purpose = t.for
    /\ t.pc = "register" /\ t.id \in Phones => t.code # NoCode /\ t.for = "login"
    /\ t.pc = "bind" => t.code # NoCode /\ t.for = "bind"

PhoneInv ==
    /\ \A u \in Users : user[u].phone # NoId => Proven(user[u].phone)
    /\ \A w \in Workers : Proving(txn[w])

(* Rows keep their target and purpose, and what was accepted stays so.     *)
Kept ==
    \A c \in Codes : code[c].st # "none" =>
        /\ code'[c].id = code[c].id /\ code'[c].purpose = code[c].purpose
        /\ accepted'[c] >= accepted[c]

LEMMA CodesAreKept ==
    ASSUME Inv, NEW w \in Workers, CodesMove(w)
    PROVE  Kept
<1>1. code \in [Codes -> Code] /\ accepted \in [Codes -> Nat]
  BY DEF Inv, TypeInv, TypeOK
<1>2. ASSUME NEW c \in Codes, code[c].st # "none"
      PROVE  code'[c].id = code[c].id /\ code'[c].purpose = code[c].purpose
  BY <1>1, <1>2 DEF CodesMove, SameRows
<1>3. \A c \in Codes : accepted'[c] >= accepted[c]
  BY <1>1 DEF CodesMove
<1> QED
  BY <1>2, <1>3 DEF Kept

LEMMA ProofsStay ==
    ASSUME Inv, CountInv, Kept, NEW p, Proven(p), accepted' \in [Codes -> Nat]
    PROVE  Proven(p)'
<1>1. PICK c \in Codes : accepted[c] > 0 /\ code[c].id = p /\ code[c].purpose \in {"login", "bind"}
  BY DEF Proven
<1>2. accepted \in [Codes -> Nat] /\ code[c].st # "none"
  <2>1. code[c].st # "used" => accepted[c] = 0
    BY DEF CountInv
  <2> QED
    BY <1>1, <2>1 DEF Inv, TypeInv, TypeOK
<1>3. accepted'[c] > 0 /\ code'[c].id = p /\ code'[c].purpose \in {"login", "bind"}
  BY <1>1, <1>2 DEF Kept
<1> QED
  BY <1>3 DEF Proven

(* The code a request commits with proves its target.                      *)
LEMMA UseProves ==
    ASSUME Inv, CountInv, PhoneInv, NEW w \in Workers, txn[w].code # NoCode, UseCode(txn[w].code),
           Kept, txn[w].for \in {"login", "bind"}, NEW p, p = txn[w].id
    PROVE  Proven(p)'
<1>1. PICK c \in Codes : c = txn[w].code
  BY DEF Inv, TypeInv, TypeOK, Txn
<1>2. code[c].id = txn[w].id /\ code[c].purpose = txn[w].for /\ code[c].st # "none"
  BY <1>1 DEF PhoneInv, Proving, CountInv
<1>3. accepted \in [Codes -> Nat] /\ accepted' = [accepted EXCEPT ![c] = @ + 1]
  BY <1>1 DEF UseCode, Inv, TypeInv, TypeOK
<1>4. accepted'[c] > 0 /\ code'[c].id = p /\ code'[c].purpose \in {"login", "bind"}
  BY <1>2, <1>3 DEF Kept
<1> QED
  BY <1>4 DEF Proven

(* A step writes a phone that it has proven, or none.                      *)
PhoneStep ==
    \/ UNCHANGED user
    \/ \E u \in Users, r \in Account :
          /\ user' = [user EXCEPT ![u] = r]
          /\ r.phone \in {user[u].phone, NoId} \/ Proven(r.phone)'

LEMMA PhonesMove ==
    ASSUME Inv, CountInv, PhoneInv, NEW w \in Workers, Step(w) \/ Abort(w), Kept
    PROVE  PhoneStep
<1> DEFINE t == txn[w]
<1>0. t \in Txn /\ Holds(t) /\ Proving(t) /\ \A u \in Users : user[u] \in Account
  BY DEF Inv, TypeInv, TypeOK, PhoneInv
<1>1. ASSUME NEW u \in Users, NEW r \in Account, user' = [user EXCEPT ![u] = r],
             r.phone = user[u].phone
      PROVE  PhoneStep
  BY <1>1 DEF PhoneStep
<1>2. CASE LoginCommit(w)
  <2>1. t.user \in Users /\ t.pw \in Passwords \cup {NoPw}
    BY <1>0, <1>2 DEF LoginCommit, Holds, Txn
  <2>2. PICK r : r = Rehash(user[t.user], t.row, t.pw)
    OBVIOUS
  <2>3. r \in Account /\ r.phone = user[t.user].phone
    BY <1>0, <2>1, <2>2, RehashType
  <2>4. user' = [user EXCEPT ![t.user] = r]
    BY <1>2, <2>2 DEF LoginCommit
  <2> QED
    BY <1>1, <2>1, <2>3, <2>4
<1>3. CASE CreateAccount(w)
  <2>1. t.id \in Ids /\ t.pw \in Passwords \cup {NoPw} /\ t.pc = "register" /\ UseCode(t.code)
    BY <1>0, <1>3 DEF CreateAccount, Holds, Txn
  <2>2. PICK u \in Users : user' = [user EXCEPT ![u] = Registered(t.id, t.pw)]
    BY <1>3 DEF CreateAccount
  <2>3. PICK r : r = Registered(t.id, t.pw)
    OBVIOUS
  <2>4. r \in Account /\ (r.phone # NoId => r.phone = t.id /\ t.id \in Phones)
    BY <2>1, <2>3, RegisteredType
  <2>5. r.phone # NoId => Proven(r.phone)'
    <3> SUFFICES ASSUME r.phone # NoId PROVE Proven(r.phone)'
      OBVIOUS
    <3>1. t.code # NoCode /\ t.for = "login" /\ r.phone = t.id
      BY <1>0, <2>1, <2>4 DEF Proving
    <3> QED
      BY <2>1, <3>1, UseProves
  <2> QED
    BY <2>2, <2>3, <2>4, <2>5 DEF PhoneStep
<1>4. CASE ResetCommit(w) \/ ChangeCommit(w)
  <2>1. t.user \in Users /\ t.pw \in Passwords /\ SetPassword(t.user, t.pw)
    BY <1>0, <1>4 DEF ResetCommit, ChangeCommit, Holds
  <2>2. PICK r : r = [user[t.user] EXCEPT !.pw = t.pw, !.bcrypt = FALSE]
    OBVIOUS
  <2>3. r \in Account /\ r.phone = user[t.user].phone
    BY <1>0, <2>1, <2>2 DEF Account
  <2>4. user' = [user EXCEPT ![t.user] = r]
    BY <1>0, <2>1, <2>2 DEF SetPassword, Inv, TypeInv, TypeOK
  <2> QED
    BY <1>1, <2>1, <2>3, <2>4
<1>5. CASE BindCommit(w)
  <2>1. t.user \in Users /\ t.id \in Ids /\ t.pc = "bind" /\ UseCode(t.code)
    BY <1>0, <1>5 DEF BindCommit, Holds
  <2>2. PICK r : r = Bind(user[t.user], t.id)
    OBVIOUS
  <2>3. r \in Account /\ r.phone \in {user[t.user].phone, t.id}
    BY <1>0, <2>1, <2>2, BindType DEF Bind, Account
  <2>4. r.phone \in {user[t.user].phone} \/ Proven(r.phone)'
    <3>1. t.code # NoCode /\ t.for = "bind"
      BY <1>0, <2>1 DEF Proving
    <3> QED
      BY <2>1, <2>3, <3>1, UseProves
  <2>5. user' = [user EXCEPT ![t.user] = r]
    BY <1>5, <2>2 DEF BindCommit
  <2> QED
    BY <2>1, <2>3, <2>4, <2>5 DEF PhoneStep
<1>6. CASE UnbindCommit(w)
  <2>1. t.user \in Users
    BY <1>0, <1>6 DEF UnbindCommit, Holds
  <2>2. PICK r : r = IF t.id \in Phones THEN [user[t.user] EXCEPT !.phone = NoId]
                                       ELSE [user[t.user] EXCEPT !.email = NoId]
    OBVIOUS
  <2>3. r \in Account /\ r.phone \in {user[t.user].phone, NoId}
    BY <1>0, <2>1, <2>2 DEF Account
  <2>4. user' = [user EXCEPT ![t.user] = r]
    BY <1>6, <2>2 DEF UnbindCommit
  <2> QED
    BY <2>1, <2>3, <2>4 DEF PhoneStep
<1>7. CASE BridgeCommit(w)
  <2>1. t.user \in Users /\ t.id \in Emails /\ t.row \in {NoAccount, OrgOnly}
    BY <1>0, <1>7, ConstantFacts DEF BridgeCommit, Holds
  <2>2. CASE UNCHANGED user
    BY <2>2 DEF PhoneStep
  <2>3. CASE ~UNCHANGED user
    <3>1. MayInsert(t) /\ user' = [user EXCEPT ![t.user] = ShadowAccount(t.row, t.id)]
      BY <1>7, <2>3 DEF BridgeCommit
    <3>2. PICK r : r = ShadowAccount(t.row, t.id)
      OBVIOUS
    <3>3. r \in Account /\ r.phone = NoId
      BY <2>1, <3>1, <3>2, ShadowType DEF MayInsert
    <3> QED
      BY <2>1, <3>1, <3>2, <3>3 DEF PhoneStep
  <2> QED
    BY <2>2, <2>3
<1>8. CASE \/ SendCommit(w) \/ LoginKnown(w) \/ LoginUnknown(w) \/ ResetLoad(w) \/ BindLoad(w)
           \/ RefreshCommit(w) \/ EnsurePersonalOrg(w) \/ BridgeConflict(w) \/ Abort(w)
  BY <1>8 DEF SendCommit, LoginKnown, LoginUnknown, ResetLoad, BindLoad, LoadUser, RefreshCommit,
     EnsurePersonalOrg, BridgeConflict, Abort, accounts, PhoneStep
<1> QED
  BY <1>2, <1>3, <1>4, <1>5, <1>6, <1>7, <1>8 DEF Step

LEMMA PhonesStay ==
    ASSUME Inv, CountInv, PhoneInv, Kept, accepted' \in [Codes -> Nat], PhoneStep
    PROVE  (\A u \in Users : user[u].phone # NoId => Proven(user[u].phone))'
<1>1. ASSUME NEW p, Proven(p) PROVE Proven(p)'
  BY <1>1, ProofsStay
<1>2. \A u \in Users : user[u].phone # NoId => Proven(user[u].phone)
  BY DEF PhoneInv
<1> SUFFICES \A v \in Users : user'[v].phone # NoId => \A p : p = user'[v].phone => Proven(p)'
  OBVIOUS
<1> SUFFICES ASSUME NEW v \in Users, user'[v].phone # NoId, NEW p, p = user'[v].phone
             PROVE  Proven(p)'
  OBVIOUS
<1>3. CASE p = user[v].phone
  BY <1>1, <1>2, <1>3
<1>4. CASE p # user[v].phone
  <2>1. PICK u \in Users, r \in Account :
          /\ user' = [user EXCEPT ![u] = r]
          /\ r.phone \in {user[u].phone, NoId} \/ Proven(r.phone)'
    BY <1>4 DEF PhoneStep
  <2>2. v = u /\ p = r.phone
    BY <1>4, <2>1 DEF Inv, TypeInv, TypeOK
  <2> QED
    BY <1>4, <2>1, <2>2
<1> QED
  BY <1>3, <1>4

(* A request goes on with the code it was let in with.                     *)
LEMMA ProvingStays ==
    ASSUME Inv, CountInv, PhoneInv, Kept, NEW v \in Workers, NEW t \in Txn, txn'[v] = t,
           t.code = txn[v].code, t.id = txn[v].id, t.for = txn[v].for,
           \/ t.pc = txn[v].pc
           \/ t.pc = "bridge"
           \/ txn[v].pc = "code" /\ (t.pc = t.for \/ (t.pc = "register" /\ t.for = "login"))
    PROVE  Proving(txn[v])'
<1>1. Proving(txn[v]) /\ Holds(txn[v]) /\ txn[v] \in Txn
  BY DEF PhoneInv, Inv, TypeInv, TypeOK
<1>2. t.code # NoCode => code'[t.code].id = t.id /\ code'[t.code].purpose = t.for
  <2> SUFFICES ASSUME t.code # NoCode
               PROVE  code'[t.code].id = t.id /\ code'[t.code].purpose = t.for
    OBVIOUS
  <2>1. t.code \in Codes /\ code[t.code].st # "none"
    BY DEF CountInv, Txn
  <2> QED
    BY <1>1, <2>1 DEF Proving, Kept
<1>3. txn[v].pc = "code" => t.code # NoCode
  BY <1>1, ConstantFacts DEF Holds
<1>4. /\ t.pc = "register" /\ t.id \in Phones => t.code # NoCode /\ t.for = "login"
      /\ t.pc = "bind" => t.code # NoCode /\ t.for = "bind"
  BY <1>1, <1>3 DEF Proving, Txn, Purposes
<1> QED
  BY <1>2, <1>4 DEF Proving

LEMMA ProvingMoves ==
    ASSUME Inv, CountInv, PhoneInv, Kept, NEW w \in Workers, Step(w) \/ Abort(w),
           \A v \in Workers : v # w => txn'[v] = txn[v]
    PROVE  \A v \in Workers : Proving(txn[v])'
<1>0. txn \in [Workers -> Txn]
  BY DEF Inv, TypeInv, TypeOK
<1>1. ASSUME NEW v \in Workers, v # w PROVE Proving(txn[v])'
  BY <1>0, <1>1, ProvingStays
<1>2. ASSUME txn'[w] = NoTxn PROVE Proving(txn[w])'
  BY <1>2 DEF Proving, NoTxn
<1>3. CASE EnsurePersonalOrg(w) \/ BridgeConflict(w)
  <2>1. txn'[w] \in Txn
    BY <1>3, OrgMoves DEF Moves, Inv, TypeInv, TypeOK
  <2> QED
    BY <1>1, <1>3, <2>1, OrgMoves, ProvingStays DEF Inv
<1>4. CASE LoginUnknown(w)
  <2>1. PICK t : t = [txn[w] EXCEPT !.pc = "register"]
    OBVIOUS
  <2>2. t \in Txn /\ txn'[w] = t /\ t.pc = "register" /\ t.for = "login" /\ txn[w].pc = "code"
        /\ t.code = txn[w].code /\ t.id = txn[w].id /\ t.for = txn[w].for
    BY <1>0, <1>4, <2>1 DEF LoginUnknown, CodeFlushed, Go, Txn, Steps
  <2> QED
    BY <1>1, <2>2, ProvingStays
<1>5. CASE LoginKnown(w) \/ ResetLoad(w) \/ BindLoad(w)
  <2>1. PICK u \in Users : LoadUser(w, u) /\ txn[w].pc = "code"
    <3>1. CASE LoginKnown(w) \/ ResetLoad(w)
      BY <3>1 DEF LoginKnown, ResetLoad, CodeFlushed, OwnersOf
    <3>2. CASE BindLoad(w)
      BY <1>0, <3>2 DEF BindLoad, CodeFlushed, Inv, TypeInv, Holds
    <3> QED
      BY <1>5, <3>1, <3>2
  <2>2. PICK t : t = [txn[w] EXCEPT !.pc = txn[w].for, !.user = u, !.row = user[u], !.resets = resets[u]]
    OBVIOUS
  <2>3. t \in Txn
    <3>1. \E r \in Txn : txn' = [txn EXCEPT ![w] = r]
      BY <1>5, LoadsMove DEF Moves, Inv
    <3>2. txn' = [txn EXCEPT ![w] = t]
      BY <2>1, <2>2 DEF LoadUser, Go
    <3> QED
      BY <1>0, <3>1, <3>2
  <2>4. txn'[w] = t /\ t.pc = t.for
        /\ t.code = txn[w].code /\ t.id = txn[w].id /\ t.for = txn[w].for
    BY <1>0, <2>1, <2>2 DEF LoadUser, Go, Txn
  <2>5. txn[w].pc = "code"
    BY <2>1
  <2>6. Proving(txn[w])'
    BY <2>3, <2>4, <2>5, ProvingStays
  <2> QED
    BY <1>1, <2>6
<1>6. CASE \/ SendCommit(w) \/ LoginCommit(w) \/ CreateAccount(w) \/ RefreshCommit(w)
           \/ ResetCommit(w) \/ ChangeCommit(w) \/ BindCommit(w) \/ UnbindCommit(w)
           \/ BridgeCommit(w) \/ Abort(w)
  <2>1. Leave(w)
    BY <1>6 DEF SendCommit, LoginCommit, CreateAccount, RefreshCommit, ResetCommit, ChangeCommit,
       BindCommit, UnbindCommit, BridgeCommit, Abort
  <2>2. txn'[w] = NoTxn
    BY <1>0, <2>1 DEF Leave, Go
  <2> QED
    BY <1>1, <1>2, <2>2
<1> QED
  BY <1>3, <1>4, <1>5, <1>6 DEF Step

LEMMA ProvingBegins ==
    ASSUME Inv, CountInv, PhoneInv, NEW w \in Workers, RequestFrame, NEW t, Begins(w, t)
    PROVE  PhoneInv'
<1>0. /\ txn \in [Workers -> Txn] /\ t \in Txn /\ UNCHANGED <<code, accepted, user>>
      /\ accepted \in [Codes -> Nat]
  BY DEF Begins, RequestFrame, accounts, Inv, TypeInv, TypeOK
<1>1. Kept /\ PhoneStep /\ accepted' \in [Codes -> Nat]
  BY <1>0 DEF Kept, PhoneStep
<1>2. (\A u \in Users : user[u].phone # NoId => Proven(user[u].phone))'
  BY <1>1, PhonesStay
<1>3. ASSUME NEW v \in Workers, v # w PROVE Proving(txn[v])'
  <2>1. txn'[v] = txn[v]
    BY <1>0, <1>3 DEF Begins
  <2> QED
    BY <1>0, <1>1, <2>1, ProvingStays
<1>4. Proving(txn[w])'
  <2>1. txn'[w] = t
    BY <1>0 DEF Begins
  <2> QED
    BY <1>0, <2>1, ConstantFacts DEF Begins, Proving
<1> QED
  BY <1>2, <1>3, <1>4 DEF PhoneInv

LEMMA PhoneInit == Init => PhoneInv
<1> SUFFICES ASSUME Init PROVE PhoneInv
  OBVIOUS
<1>1. \A w \in Workers : Proving(txn[w])
  BY DEF Init, Proving, NoTxn
<1>2. \A u \in Users : user[u].phone = NoId
  BY InitialAccounts
<1> QED
  BY <1>1, <1>2 DEF PhoneInv

LEMMA PhoneNext == Counting /\ PhoneInv /\ [Next]_vars => PhoneInv'
<1> SUFFICES ASSUME Counting, PhoneInv, [Next]_vars PROVE PhoneInv'
  OBVIOUS
<1>0. Inv /\ CountInv /\ accepted' \in [Codes -> Nat]
  BY CountStep DEF Counting, Inv, TypeInv, TypeOK
<1>1. ASSUME NEW w \in Workers, Request(w) PROVE PhoneInv'
  <2>1. RequestFrame /\ ((\E t : Begins(w, t)) \/ Passes)
    BY <1>0, <1>1, RequestEffect DEF Inv, Effect
  <2>2. CASE \E t : Begins(w, t)
    BY <1>0, <2>1, <2>2, ProvingBegins
  <2>3. CASE Passes
    BY <2>1, <2>3 DEF Passes, RequestFrame, accounts, PhoneInv, Proven, Proving
  <2> QED
    BY <2>1, <2>2, <2>3
<1>2. ASSUME NEW w \in Workers, Step(w) \/ Abort(w) PROVE PhoneInv'
  <2>1. CodesMove(w)
    BY <1>0, <1>2, StepCodes
  <2>2. Kept
    BY <1>0, <2>1, CodesAreKept
  <2>3. PhoneStep
    BY <1>0, <1>2, <2>2, PhonesMove
  <2>4. \A v \in Workers : Proving(txn[v])'
    BY <1>0, <1>2, <2>1, <2>2, ProvingMoves DEF CodesMove
  <2>5. (\A u \in Users : user[u].phone # NoId => Proven(user[u].phone))'
    BY <1>0, <2>2, <2>3, PhonesStay
  <2> QED
    BY <2>4, <2>5 DEF PhoneInv
<1>3. CASE Tick \/ UNCHANGED vars
  BY <1>3 DEF Tick, vars, codes, accounts, PhoneInv, Proven, Proving
<1> QED
  BY <1>1, <1>2, <1>3 DEF Next

(* Nobody gets a phone into an account without a code that was sent to it  *)
(* and accepted, for a first login or a binding: a request goes on with    *)
(* the target it has proven, whatever other codes and users do meanwhile.  *)
THEOREM PhonesAreProven == Spec => []PhonesProven
<1>1. ASSUME PhoneInv PROVE PhonesProven
  BY <1>1 DEF PhoneInv, Proven, PhonesProven
<1> QED
  BY <1>1, CountInit, CountStep, PhoneInit, PhoneNext, PTL DEF Spec
=============================================================================
