------------------------------ MODULE Sessions ------------------------------
(* Persistent refresh tokens (services/auth_service.py): what issuing,     *)
(* rotating and revoking do to the rows of refresh_tokens.                 *)
EXTENDS Naturals

CONSTANTS Users, NoUser,
          MaxTokens,           \* bound: rows of refresh_tokens
          TokenTTL

VARIABLES token

ASSUME TokenAssumption == NoUser \notin Users /\ MaxTokens \in Nat /\ TokenTTL \in Nat

Tokens == 1..MaxTokens
NoToken == 0

(* prev: the token it was rotated from; root: the login it descends from;  *)
(* resets: how often the password of its user had been reset when that     *)
(* login read it (all three history).  next: replaced_by_id.               *)
Token == [st : {"none", "live", "revoked"}, user : Users \cup {NoUser}, expires : Nat,
          next : Tokens \cup {NoToken}, prev : Tokens \cup {NoToken},
          root : Tokens \cup {NoToken}, resets : Nat]
Unissued == [st |-> "none", user |-> NoUser, expires |-> 0, next |-> NoToken,
             prev |-> NoToken, root |-> NoToken, resets |-> 0]

NextToken == {t \in Tokens : token[t].st = "none" /\ \A s \in Tokens : s < t => token[s].st # "none"}
Successors(t) == {n \in Tokens : token[n].prev = t}
LiveTokens(u) == {t \in Tokens : token[t].user = u /\ token[t].st = "live"}

(* What list_sessions shows.                                               *)
ListedSessions(u, at) == {t \in LiveTokens(u) : token[t].expires > at}

NewToken(u, root, resets, at) ==
    [Unissued EXCEPT !.st = "live", !.user = u, !.expires = at + TokenTTL,
                     !.root = root, !.resets = resets]

(* issue_token_pair after a login.                                         *)
Issue(t, u, resets, at) == [token EXCEPT ![t] = NewToken(u, t, resets, at)]

Descendant(old, at) ==
    [NewToken(token[old].user, token[old].root, token[old].resets, at) EXCEPT !.prev = old]

(* Fault: the old token stays live.                                       *)
RotateLive(old, t, at) ==
    [token EXCEPT ![old].next = t, ![t] = Descendant(old, at)]

(* refresh_token_pair: the old token is revoked and names its successor,   *)
(* over the name of an earlier one if it had been rotated meanwhile.       *)
Rotate(old, t, at) ==
    [token EXCEPT ![old].st = "revoked", ![old].next = t, ![t] = Descendant(old, at)]

(* UPDATE ... WHERE revoked_at IS NULL sees the committed rows.            *)
Revoke(T) == [t \in Tokens |-> IF t \in T THEN [token[t] EXCEPT !.st = "revoked"] ELSE token[t]]

(* Fault: nothing is revoked.                                             *)
RevokeNone(u) == token
RevokeAll(u) == Revoke(LiveTokens(u))
RevokeOthers(u, keep) == Revoke(LiveTokens(u) \ {keep})
=============================================================================
