---------------------------- MODULE Verification ----------------------------
(* One-time codes (services/verification.py): rows of verification_codes,  *)
(* when one may be sent and what verify makes of a code somebody types.    *)
(* A row stands for its code: who types the code of row c types "c".       *)
EXTENDS Naturals, FiniteSets

CONSTANTS Phones, Emails,      \* normalised targets, by channel
          MaxCodes,            \* bound: rows of verification_codes
          CodeTTL, Cooldown, Window, SourceMax, Day, DailyMax, MaxAttempts

VARIABLES code, now

ASSUME CodeAssumption ==
    /\ Phones \cap Emails = {}
    /\ {MaxCodes, CodeTTL, Cooldown, Window, SourceMax, Day, DailyMax, MaxAttempts} \subseteq Nat

Ids == Phones \cup Emails
Codes == 1..MaxCodes
NoCode == 0
Purposes == {"login", "reset", "bind"}

Code == [st : {"none", "open", "used"}, id : Ids, purpose : Purposes, at : Nat, tries : Nat]

Rows == {c \in Codes : code[c].st # "none"}
Unwritten == {c \in Codes : code[c].st = "none" /\ \A d \in Codes : d < c => code[d].st # "none"}

(* Two rows a cooldown apart, so many from one address (every request of   *)
(* the model comes from the same one) within a window, and so many to one  *)
(* target within a day.                                                    *)
Recent(id, purpose) ==
    {c \in Rows : code[c].id = id /\ code[c].purpose = purpose /\ code[c].at + Cooldown > now}
Lately == {c \in Rows : code[c].at + Window > now}
Today(id) == {c \in Rows : code[c].id = id /\ code[c].at + Day > now}

(* Fault: only the cooldown is looked at.                                 *)
SendIfCool(id, purpose) == Recent(id, purpose) = {}
SendAllowed(id, purpose) ==
    /\ Recent(id, purpose) = {}
    /\ Cardinality(Lately) < SourceMax
    /\ Cardinality(Today(id)) < DailyMax

NewRow(id, purpose) == [st |-> "open", id |-> id, purpose |-> purpose, at |-> now, tries |-> 0]

(* Fault: whoever the row was sent to.                                    *)
NewestOfAll(id, purpose) ==
    {c \in Rows : /\ code[c].st = "open" /\ code[c].purpose = purpose
                  /\ \A d \in Rows : code[d].st = "open" /\ code[d].purpose = purpose => d <= c}

(* verify looks at the newest row nobody has used.                         *)
Newest(id, purpose) ==
    {c \in Rows : /\ code[c].st = "open" /\ code[c].id = id /\ code[c].purpose = purpose
                  /\ \A d \in Rows : /\ code[d].st = "open" /\ code[d].id = id
                                     /\ code[d].purpose = purpose
                                     => d <= c}

Expired(c) == code[c].at + CodeTTL < now
Locked(c) == code[c].tries >= MaxAttempts

(* What verify flushes before it raises: an expired or locked row is       *)
(* written off, a wrong code counts.                                       *)
Flushed(c) ==
    IF Expired(c) \/ Locked(c) THEN [code[c] EXCEPT !.st = "used"]
                               ELSE [code[c] EXCEPT !.tries = @ + 1]

(* An exception leaves the route, and get_db rolls its session back.       *)
AfterException(stored, flushed) == stored
=============================================================================
