---------------------------- MODULE LimitsProofs ----------------------------
(* That both limiters of module Limits are kept, for any limits, windows,   *)
(* callers and numbers of restarts (which module Intake counts): lemmas     *)
(* about every step, whatever surrounds it (module PlatformProofs).         *)
EXTENDS Limits, Intake, FiniteSetTheorems, SequenceTheorems, TLAPS

(* --- calls of the model provider ------------------------------------------ *)

CallMove ==
    \E c \in Callers :
        \/ Enqueue(c) \/ Acquire(c) \/ Awake(c) \/ Backoff(c)
        \/ \E outcome \in {"json", "text", "4xx", "5xx"} : Post(c, outcome)
        \/ call[c].pc \in {"answered", "error", "refused"} /\ EndCall(c) /\ UNCHANGED <<bucket, admitted, posts>>

CallsStep ==
    \/ CallMove /\ UNCHANGED <<now, restarts>>
    \/ now' = now + 1 /\ UNCHANGED <<gateway, restarts>>
    \/ RestartLimits /\ restarts' = restarts + 1 /\ UNCHANGED now
    \/ UNCHANGED <<gateway, now, restarts>>

CallsOK ==
    /\ now \in Nat /\ restarts \in Nat
    /\ bucket \in [tokens : 0..Capacity, last : 0..now]
    /\ call \in [Callers -> Call] /\ admitted \in Nat /\ posts \in Nat

(* One call sleeps at a time, till after the last refill; a call that may    *)
(* post has a post left.                                                     *)
CallHolds(c) ==
    /\ call[c].pc \in {"idle", "queued", "asleep"} => call[c].tries = 0
    /\ call[c].pc \in {"sending", "backoff"} => call[c].tries < MaxRetries
    /\ call[c].pc = "asleep" =>
        call[c].wake > bucket.last /\ \A d \in Callers : call[d].pc = "asleep" => d = c

(* What has been let through and what the bucket holds come from full       *)
(* buckets, one per life of the process, and two per tick up to the last    *)
(* refill: a sleep takes a token in advance, which the next refill, at a    *)
(* later tick, has made good.                                               *)
Allowance == Capacity * (1 + restarts)
Spent ==
    \/ admitted + bucket.tokens <= Allowance + 2 * bucket.last
    \/ /\ ~Sleeping /\ bucket.last < now
       /\ admitted + bucket.tokens <= Allowance + 2 * bucket.last + 1

(* The posts that calls under way may still make.                           *)
Left == {p \in Callers \X (1..MaxRetries) :
            call[p[1]].pc \in {"sending", "backoff"} /\ p[2] > call[p[1]].tries}
PostsLeft == posts + Cardinality(Left) <= MaxRetries * admitted

CallsInv == CallsOK /\ (\A c \in Callers : CallHolds(c)) /\ Spent /\ PostsLeft

LEMMA CallLimits ==
    /\ Capacity \in Nat \ {0} /\ MaxRetries \in Nat \ {0} /\ IsFiniteSet(Callers)
    /\ \A n \in Nat : Capacity * (1 + n) \in Nat /\ MaxRetries * n \in Nat
    /\ \A n \in Nat : Capacity * (1 + (n + 1)) = Capacity * (1 + n) + Capacity
    /\ \A n \in Nat : MaxRetries * (n + 1) = MaxRetries * n + MaxRetries
    /\ NoCall \in Call
<1>1. Capacity \in Nat \ {0} /\ MaxRetries \in Nat \ {0} /\ IsFiniteSet(Callers)
  BY LimitsAssumption
<1>2. NoCall \in Call
  BY <1>1 DEF NoCall, Call
<1> QED
  BY <1>1, <1>2

LEMMA LeftIsFinite ==
    /\ IsFiniteSet(Callers \X (1..MaxRetries))
    /\ \A S \in SUBSET (Callers \X (1..MaxRetries)) : IsFiniteSet(S) /\ Cardinality(S) \in Nat
    /\ Left \in SUBSET (Callers \X (1..MaxRetries))
    /\ Left' \in SUBSET (Callers \X (1..MaxRetries))
<1>1. IsFiniteSet(1..MaxRetries)
  BY CallLimits, FS_Interval
<1>2. IsFiniteSet(Callers \X (1..MaxRetries))
  BY <1>1, CallLimits, FS_Product
<1> QED
  BY <1>2, FS_Subset, FS_CardinalityType DEF Left

(* What one call may still post, before it has posted.                      *)
LEMMA PostsOfOne ==
    ASSUME NEW c \in Callers
    PROVE  /\ {c} \X (1..MaxRetries) \in SUBSET (Callers \X (1..MaxRetries))
           /\ Cardinality({c} \X (1..MaxRetries)) = MaxRetries
<1>1. IsFiniteSet(1..MaxRetries) /\ Cardinality(1..MaxRetries) = MaxRetries
  BY CallLimits, FS_Interval
<1>2. IsFiniteSet({c}) /\ Cardinality({c}) = 1
  BY FS_Singleton
<1>3. Cardinality({c} \X (1..MaxRetries)) = 1 * MaxRetries
  BY <1>1, <1>2, FS_Product, ZenonT(60)
<1> QED
  BY <1>3, CallLimits

LEMMA CallsInit == InitLimits /\ restarts = 0 => CallsInv
<1> SUFFICES ASSUME InitLimits, restarts = 0 PROVE CallsInv
  OBVIOUS
<1>1. /\ now = 0 /\ bucket = [tokens |-> Capacity, last |-> 0] /\ call = [c \in Callers |-> NoCall]
      /\ admitted = 0 /\ posts = 0
  BY DEF InitLimits, FullBucket
<1>2. CallsOK
  BY <1>1, CallLimits DEF CallsOK
<1>3. \A c \in Callers : call[c].pc = "idle" /\ call[c].tries = 0
  BY <1>1 DEF NoCall
<1>4. Spent
  BY <1>1, CallLimits DEF Spent, Allowance
<1>5. Left = {}
  BY <1>3 DEF Left
<1>6. PostsLeft
  BY <1>1, <1>5, CallLimits, FS_EmptySet DEF PostsLeft
<1> QED
  BY <1>2, <1>3, <1>4, <1>6 DEF CallsInv, CallHolds

(* Steps that post nothing and let nobody through leave at most as much to   *)
(* post.                                                                     *)
LEMMA LeftShrinks ==
    ASSUME CallsInv, UNCHANGED <<admitted, posts>>, Left' \subseteq Left
    PROVE  PostsLeft'
<1>1. Cardinality(Left') <= Cardinality(Left) /\ Cardinality(Left') \in Nat /\ Cardinality(Left) \in Nat
  BY LeftIsFinite, FS_Subset
<1>2. posts \in Nat /\ admitted \in Nat /\ MaxRetries * admitted \in Nat
  BY CallLimits DEF CallsInv, CallsOK
<1> QED
  BY <1>1, <1>2 DEF CallsInv, PostsLeft

(* A token taken, now or after a sleep, lets a call post MaxRetries times.  *)
LEMMA LeftGrows ==
    ASSUME CallsInv, NEW c \in Callers, admitted' = admitted + 1, posts' = posts,
           Left' \subseteq Left \cup ({c} \X (1..MaxRetries))
    PROVE  PostsLeft'
<1>1. PICK own : own = {c} \X (1..MaxRetries)
  OBVIOUS
<1>2. /\ own \in SUBSET (Callers \X (1..MaxRetries)) /\ Cardinality(own) = MaxRetries
      /\ Left' \subseteq Left \cup own
  BY <1>1, PostsOfOne
<1>3. /\ IsFiniteSet(Left) /\ IsFiniteSet(own) /\ Cardinality(Left) \in Nat
      /\ Cardinality(Left \cap own) \in Nat /\ Cardinality(Left') \in Nat
  BY <1>2, LeftIsFinite
<1>4. /\ IsFiniteSet(Left \cup own)
      /\ Cardinality(Left \cup own) = Cardinality(Left) + Cardinality(own) - Cardinality(Left \cap own)
  BY <1>3, FS_Union
<1>5. Cardinality(Left') <= Cardinality(Left \cup own)
  BY <1>2, <1>4, FS_Subset
<1>6. posts \in Nat /\ admitted \in Nat /\ MaxRetries * admitted \in Nat /\ MaxRetries \in Nat
      /\ MaxRetries * (admitted + 1) = MaxRetries * admitted + MaxRetries
  BY CallLimits DEF CallsInv, CallsOK
<1>7. Cardinality(Left') <= Cardinality(Left) + MaxRetries
  BY <1>2, <1>3, <1>4, <1>5, <1>6
<1>8. posts + Cardinality(Left) <= MaxRetries * admitted
  BY DEF CallsInv, PostsLeft
<1> QED
  BY <1>3, <1>6, <1>7, <1>8 DEF PostsLeft

LEMMA EnqueueKeeps ==
    ASSUME CallsInv, NEW c \in Callers, Enqueue(c), UNCHANGED <<now, restarts>>
    PROVE  CallsInv'
<1>1. CallsOK
  BY DEF CallsInv
<1>2. /\ call[c].pc = "idle" /\ call' = [call EXCEPT ![c].pc = "queued"]
      /\ UNCHANGED <<bucket, admitted, posts>>
  BY DEF Enqueue
<1>3. CallsOK'
  BY <1>1, <1>2 DEF CallsOK, Call
<1>4. \A d \in Callers : call'[d].tries = call[d].tries /\ call'[d].wake = call[d].wake
                         /\ call'[d].pc = IF d = c THEN "queued" ELSE call[d].pc
  BY <1>1, <1>2 DEF CallsOK, Call
<1>5. \A d \in Callers : CallHolds(d)'
  BY <1>2, <1>4 DEF CallsInv, CallHolds
<1>6. Spent'
  BY <1>2, <1>4 DEF CallsInv, Spent, Sleeping, Allowance
<1>7. Left' \subseteq Left
  BY <1>4 DEF Left
<1> QED
  BY <1>2, <1>3, <1>5, <1>6, <1>7, LeftShrinks DEF CallsInv

LEMMA BackoffKeeps ==
    ASSUME CallsInv, NEW c \in Callers, Backoff(c), UNCHANGED <<now, restarts>>
    PROVE  CallsInv'
<1>1. CallsOK
  BY DEF CallsInv
<1>2. /\ call[c].pc = "backoff" /\ call' = [call EXCEPT ![c].pc = "sending"]
      /\ UNCHANGED <<bucket, admitted, posts>>
  BY DEF Backoff
<1>3. CallsOK'
  BY <1>1, <1>2 DEF CallsOK, Call
<1>4. \A d \in Callers : call'[d].tries = call[d].tries /\ call'[d].wake = call[d].wake
                         /\ call'[d].pc = IF d = c THEN "sending" ELSE call[d].pc
  BY <1>1, <1>2 DEF CallsOK, Call
<1>5. \A d \in Callers : CallHolds(d)'
  BY <1>2, <1>4 DEF CallsInv, CallHolds
<1>6. Spent'
  BY <1>2, <1>4 DEF CallsInv, Spent, Sleeping, Allowance
<1>7. Left' \subseteq Left
  BY <1>2, <1>4 DEF Left
<1> QED
  BY <1>2, <1>3, <1>5, <1>6, <1>7, LeftShrinks DEF CallsInv

LEMMA EndCallKeeps ==
    ASSUME CallsInv, NEW c \in Callers, call[c].pc \in {"answered", "error", "refused"}, EndCall(c),
           UNCHANGED <<bucket, admitted, posts, now, restarts>>
    PROVE  CallsInv'
<1>1. CallsOK
  BY DEF CallsInv
<1>2. call' = [call EXCEPT ![c] = NoCall]
  BY DEF EndCall
<1>3. CallsOK'
  BY <1>1, <1>2, CallLimits DEF CallsOK
<1>4. \A d \in Callers : call'[d] = IF d = c THEN NoCall ELSE call[d]
  BY <1>1, <1>2 DEF CallsOK
<1>5. \A d \in Callers : CallHolds(d)'
  BY <1>4 DEF CallsInv, CallHolds, NoCall
<1>6. Spent'
  BY <1>4 DEF CallsInv, Spent, Sleeping, Allowance, NoCall
<1>7. Left' \subseteq Left
  BY <1>4 DEF Left, NoCall
<1> QED
  BY <1>3, <1>5, <1>6, <1>7, LeftShrinks DEF CallsInv

(* What an acquire finds: at most what the bucket held and the ticks since. *)
LEMMA Refill ==
    ASSUME CallsOK
    PROVE  /\ Refilled \in 0..Capacity
           /\ Refilled <= bucket.tokens + (now - bucket.last)
           /\ Refilled = 0 => bucket.tokens = 0 /\ bucket.last = now
           /\ bucket.tokens \in 0..Capacity /\ bucket.last \in 0..now /\ now \in Nat
<1>1. bucket.tokens \in 0..Capacity /\ bucket.last \in 0..now /\ now \in Nat /\ Capacity \in Nat \ {0}
  BY LimitsAssumption DEF CallsOK
<1>2. PICK t \in Nat, l \in Nat : t = bucket.tokens /\ l = bucket.last
  BY <1>1
<1>3. Refilled = IF t + (now - l) > Capacity THEN Capacity ELSE t + (now - l)
  BY <1>2 DEF Refilled
<1>4. t >= 0 /\ l >= 0 /\ l <= now /\ now \in Nat /\ Capacity \in Nat /\ Capacity > 0
  BY <1>1, <1>2
<1>5. Refilled \in 0..Capacity /\ Refilled <= t + (now - l) /\ (Refilled = 0 => t = 0 /\ l = now)
  BY <1>3, <1>4
<1> QED
  BY <1>1, <1>2, <1>5

LEMMA AcquireKeeps ==
    ASSUME CallsInv, NEW c \in Callers, Acquire(c), UNCHANGED <<now, restarts>>
    PROVE  CallsInv'
<1>1. CallsOK /\ Spent
  BY DEF CallsInv
<1>2. call[c].pc = "queued" /\ ~Sleeping /\ posts' = posts
  BY DEF Acquire
<1>3. /\ admitted \in Nat /\ Allowance \in Nat /\ now \in Nat /\ Allowance' = Allowance
      /\ call[c].tries = 0 /\ call \in [Callers -> Call] /\ now' = now
  BY <1>1, <1>2, CallLimits DEF CallsOK, CallsInv, CallHolds, Allowance
<1>4. CASE Refilled < 1
  <2>1. /\ bucket' = [tokens |-> Refilled, last |-> now]
        /\ call' = [call EXCEPT ![c].pc = "asleep", ![c].wake = now + 1] /\ admitted' = admitted
    BY <1>4 DEF Acquire, LastRefill
  <2>2. Refilled = 0 /\ bucket.tokens = 0 /\ bucket.last = now
    BY <1>1, <1>4, Refill
  <2>3. CallsOK'
    <3>1. bucket' \in [tokens : 0..Capacity, last : 0..now] /\ now + 1 \in Nat
      BY <2>1, <1>1, <1>3, Refill
    <3> QED
      BY <1>1, <2>1, <1>2, <3>1, ZenonT(60) DEF CallsOK, Call
  <2>4. \A d \in Callers : call'[d].tries = call[d].tries
                           /\ call'[d].wake = (IF d = c THEN now + 1 ELSE call[d].wake)
                           /\ call'[d].pc = IF d = c THEN "asleep" ELSE call[d].pc
    BY <1>3, <2>1 DEF Call
  <2>5. \A d \in Callers : CallHolds(d)'
    BY <1>2, <1>3, <2>1, <2>4 DEF CallsInv, CallHolds, Sleeping
  <2>6. admitted' + bucket'.tokens <= Allowance' + 2 * bucket'.last
    BY <1>1, <1>3, <2>1, <2>2 DEF Spent
  <2>7. Left' \subseteq Left
    BY <1>2, <2>4 DEF Left
  <2> QED
    BY <1>2, <2>1, <2>3, <2>5, <2>6, <2>7, LeftShrinks DEF CallsInv, Spent
<1>5. CASE ~(Refilled < 1)
  <2>1. /\ bucket' = [tokens |-> Refilled - 1, last |-> now]
        /\ call' = [call EXCEPT ![c].pc = "sending"] /\ admitted' = admitted + 1
    BY <1>5 DEF Acquire, LastRefill
  <2>2. Refilled \in 1..Capacity
    BY <1>1, <1>5, Refill
  <2>3. CallsOK'
    <3>1. bucket' \in [tokens : 0..Capacity, last : 0..now] /\ admitted + 1 \in Nat
      BY <2>1, <1>1, <1>3, <2>2, Refill, CallLimits
    <3> QED
      BY <1>1, <2>1, <1>2, <3>1 DEF CallsOK, Call
  <2>4. \A d \in Callers : call'[d].tries = call[d].tries /\ call'[d].wake = call[d].wake
                           /\ call'[d].pc = IF d = c THEN "sending" ELSE call[d].pc
    BY <1>3, <2>1 DEF Call
  <2>5. \A d \in Callers : CallHolds(d)'
    <3>1. MaxRetries > 0 /\ \A d \in Callers : call[d].pc # "asleep"
      BY <1>2, LimitsAssumption DEF Sleeping
    <3> QED
      BY <1>2, <1>3, <2>4, <3>1 DEF CallsInv, CallHolds
  <2>6. admitted' + bucket'.tokens <= Allowance' + 2 * bucket'.last
    <3>1. admitted' + bucket'.tokens = admitted + Refilled /\ bucket'.last = now
      BY <1>3, <2>1, <2>2
    <3>2. \/ admitted + bucket.tokens <= Allowance + 2 * bucket.last
          \/ bucket.last < now /\ admitted + bucket.tokens <= Allowance + 2 * bucket.last + 1
      BY <1>1 DEF Spent
    <3> QED
      BY <1>1, <1>3, <2>2, <3>1, <3>2, Refill
  <2>7. Left' \subseteq Left \cup ({c} \X (1..MaxRetries))
    BY <2>4 DEF Left
  <2> QED
    BY <1>2, <2>1, <2>3, <2>5, <2>6, <2>7, LeftGrows DEF CallsInv, Spent
<1> QED
  BY <1>4, <1>5

LEMMA AwakeKeeps ==
    ASSUME CallsInv, NEW c \in Callers, Awake(c), UNCHANGED <<now, restarts>>
    PROVE  CallsInv'
<1>1. CallsOK /\ Spent /\ CallHolds(c)
  BY DEF CallsInv
<1>2. /\ call[c].pc = "asleep" /\ now >= call[c].wake /\ posts' = posts /\ admitted' = admitted + 1
      /\ bucket' = [bucket EXCEPT !.tokens = 0] /\ call' = [call EXCEPT ![c].pc = "sending"]
  BY DEF Awake
<1>3. /\ admitted \in Nat /\ Allowance \in Nat /\ now \in Nat /\ Allowance' = Allowance
      /\ call[c].tries = 0 /\ call \in [Callers -> Call] /\ now' = now
      /\ call[c].wake > bucket.last /\ call[c].wake \in Nat
      /\ bucket.tokens \in 0..Capacity /\ bucket.last \in 0..now
      /\ bucket \in [tokens : 0..Capacity, last : 0..now]
  BY <1>1, <1>2, CallLimits DEF CallsOK, CallHolds, Allowance, Call
<1>4. bucket'.tokens = 0 /\ bucket'.last = bucket.last /\ bucket' \in [tokens : 0..Capacity, last : 0..now]
  BY <1>2, <1>3, LimitsAssumption
<1>5. CallsOK'
  <2>1. admitted + 1 \in Nat
    BY <1>3
  <2> QED
    BY <1>1, <1>2, <1>4, <2>1 DEF CallsOK, Call
<1>6. \A d \in Callers : call'[d].tries = call[d].tries /\ call'[d].wake = call[d].wake
                         /\ call'[d].pc = IF d = c THEN "sending" ELSE call[d].pc
  BY <1>3, <1>2 DEF Call
<1>7. \A d \in Callers : call'[d].pc # "asleep"
  BY <1>1, <1>2, <1>6 DEF CallHolds
<1>8. \A d \in Callers : CallHolds(d)'
  <2>1. MaxRetries > 0
    BY CallLimits
  <2> QED
    BY <1>3, <1>6, <1>7, <2>1 DEF CallsInv, CallHolds
<1>9. Spent'
  <2>1. Sleeping /\ ~Sleeping'
    BY <1>2, <1>7 DEF Sleeping
  <2>2. admitted + bucket.tokens <= Allowance + 2 * bucket.last
    BY <1>1, <2>1 DEF Spent
  <2>3. bucket'.last < now' /\ admitted' + bucket'.tokens <= Allowance' + 2 * bucket'.last + 1
    BY <1>2, <1>3, <1>4, <2>2
  <2> QED
    BY <2>1, <2>3 DEF Spent
<1>10. Left' \subseteq Left \cup ({c} \X (1..MaxRetries))
  BY <1>6 DEF Left
<1> QED
  BY <1>2, <1>5, <1>8, <1>9, <1>10, LeftGrows DEF CallsInv


LEMMA PostKeeps ==
    ASSUME CallsInv, NEW c \in Callers, NEW outcome, Post(c, outcome), UNCHANGED <<now, restarts>>
    PROVE  CallsInv'
<1>1. CallsOK /\ CallHolds(c) /\ PostsLeft
  BY DEF CallsInv
<1>2. PICK tries : tries = call[c].tries
  OBVIOUS
<1>3. PICK next \in {"answered", "error", "refused", "backoff"} :
        /\ call' = [call EXCEPT ![c].tries = tries + 1, ![c].pc = next]
        /\ next = "backoff" => tries + 1 < MaxRetries
  BY <1>2 DEF Post, MayRetry
<1>4. call[c].pc = "sending" /\ posts' = posts + 1 /\ UNCHANGED <<bucket, admitted>>
  BY DEF Post
<1>5. /\ tries \in Nat /\ tries < MaxRetries /\ MaxRetries \in Nat /\ posts \in Nat /\ admitted \in Nat
      /\ call \in [Callers -> Call] /\ tries + 1 \in 1..MaxRetries
  <2>1. call \in [Callers -> Call] /\ call[c].tries \in 0..MaxRetries /\ posts \in Nat /\ admitted \in Nat
    BY <1>1 DEF CallsOK, Call
  <2>2. call[c].tries < MaxRetries
    BY <1>1, <1>4 DEF CallHolds
  <2> QED
    BY <1>2, <2>1, <2>2, LimitsAssumption
<1>6. CallsOK'
  <2>1. posts + 1 \in Nat /\ tries + 1 \in 0..MaxRetries
    BY <1>5
  <2> QED
    BY <1>1, <1>3, <1>4, <2>1 DEF CallsOK, Call
<1>7. \A d \in Callers : call'[d].tries = (IF d = c THEN tries + 1 ELSE call[d].tries)
                         /\ call'[d].wake = call[d].wake
                         /\ call'[d].pc = IF d = c THEN next ELSE call[d].pc
  BY <1>5, <1>3 DEF Call
<1>8. \A d \in Callers : CallHolds(d)'
  <2>1. \A d \in Callers : d # c => CallHolds(d)'
    <3>1. \A d \in Callers : d # c => call'[d].pc = call[d].pc /\ call'[d].tries = call[d].tries
                                    /\ call'[d].wake = call[d].wake
      BY <1>7
    <3>2. call'[c].pc # "asleep" /\ bucket' = bucket
      BY <1>4, <1>7
    <3>3. \A d \in Callers : CallHolds(d)
      BY DEF CallsInv
    <3> QED
      BY <3>1, <3>2, <3>3 DEF CallHolds
  <2>2. call'[c].pc = next /\ call'[c].tries = tries + 1
    BY <1>7
  <2>3. CallHolds(c)'
    BY <1>3, <2>2 DEF CallHolds
  <2> QED
    BY <2>1, <2>3
<1>9. Spent'
  BY <1>3, <1>4, <1>7 DEF CallsInv, Spent, Sleeping, Allowance
<1>10. PostsLeft'
  <2>1. PICK p : p = <<c, tries + 1>>
    OBVIOUS
  <2>2. p \in Left
    BY <2>1, <1>2, <1>4, <1>5 DEF Left
  <2>3. Left' \subseteq Left \ {p}
    <3> SUFFICES ASSUME NEW q \in Left' PROVE q \in Left \ {p}
      OBVIOUS
    <3>1. /\ q \in Callers \X (1..MaxRetries) /\ q = <<q[1], q[2]>> /\ q[1] \in Callers /\ q[2] \in 1..MaxRetries
          /\ call'[q[1]].pc \in {"sending", "backoff"} /\ q[2] > call'[q[1]].tries
      BY DEF Left
    <3>2. CASE q[1] = c
      BY <3>1, <3>2, <2>1, <1>2, <1>4, <1>5, <1>7 DEF Left
    <3>3. CASE q[1] # c
      BY <3>1, <3>3, <2>1, <1>7 DEF Left
    <3> QED
      BY <3>2, <3>3
  <2>4. IsFiniteSet(Left) /\ Cardinality(Left) \in Nat /\ Cardinality(Left') \in Nat
    BY LeftIsFinite
  <2>5. IsFiniteSet(Left \ {p}) /\ Cardinality(Left \ {p}) = Cardinality(Left) - 1
    BY <2>2, <2>4, FS_RemoveElement
  <2>6. Cardinality(Left') <= Cardinality(Left \ {p})
    BY <2>3, <2>5, FS_Subset
  <2>7. posts + Cardinality(Left) <= MaxRetries * admitted
    BY <1>1 DEF PostsLeft
  <2>8. MaxRetries * admitted \in Nat
    BY <1>5
  <2>9. posts' + Cardinality(Left') <= MaxRetries * admitted
    BY <1>4, <1>5, <2>4, <2>5, <2>6, <2>7, <2>8
  <2> QED
    BY <1>4, <2>9 DEF PostsLeft
<1> QED
  BY <1>6, <1>8, <1>9, <1>10 DEF CallsInv

LEMMA TickKeepsCalls ==
    ASSUME CallsInv, now' = now + 1, UNCHANGED <<gateway, restarts>>
    PROVE  CallsInv'
<1>1. UNCHANGED <<bucket, call, admitted, posts>>
  BY DEF gateway
<1>2. CallsOK'
  BY <1>1 DEF CallsInv, CallsOK
<1>3. \A d \in Callers : CallHolds(d)'
  BY <1>1 DEF CallsInv, CallHolds
<1>4. Spent'
  <2>1. /\ \/ admitted + bucket.tokens <= Allowance + 2 * bucket.last
           \/ /\ ~Sleeping /\ bucket.last < now
              /\ admitted + bucket.tokens <= Allowance + 2 * bucket.last + 1
        /\ now \in Nat /\ bucket.last \in 0..now /\ (Sleeping' <=> Sleeping) /\ Allowance' = Allowance
    <3>1. Sleeping' <=> Sleeping
      BY <1>1 DEF Sleeping
    <3>2. Allowance' = Allowance
      BY DEF Allowance
    <3>3. now \in Nat /\ bucket.last \in 0..now
      BY DEF CallsInv, CallsOK
    <3>4. Spent
      BY DEF CallsInv
    <3> QED
      BY <3>1, <3>2, <3>3, <3>4 DEF Spent
  <2>2. bucket.last < now => bucket.last < now'
    BY <2>1
  <2> QED
    BY <1>1, <2>1, <2>2 DEF Spent
<1>5. PostsLeft'
  BY <1>1 DEF CallsInv, PostsLeft, Left
<1> QED
  BY <1>2, <1>3, <1>4, <1>5 DEF CallsInv

LEMMA RestartKeepsCalls ==
    ASSUME CallsInv, RestartLimits, restarts' = restarts + 1, UNCHANGED now
    PROVE  CallsInv'
<1>1. /\ bucket' = [tokens |-> Capacity, last |-> now] /\ call' = [c \in Callers |-> NoCall]
      /\ UNCHANGED <<admitted, posts>>
  BY DEF RestartLimits
<1>2. /\ now \in Nat /\ restarts \in Nat /\ admitted \in Nat /\ posts \in Nat
      /\ bucket.tokens \in Nat /\ bucket.last \in 0..now /\ bucket.tokens >= 0
  BY LimitsAssumption DEF CallsInv, CallsOK
<1>3. CallsOK'
  <2>1. bucket' \in [tokens : 0..Capacity, last : 0..now]
    BY <1>1, <1>2, LimitsAssumption
  <2> QED
    BY <1>1, <1>2, <2>1, CallLimits DEF CallsOK
<1>4. \A d \in Callers : call'[d].pc = "idle" /\ call'[d].tries = 0
  BY <1>1 DEF NoCall
<1>5. Spent'
  <2>1. /\ Allowance \in Nat /\ Capacity \in Nat
        /\ Allowance' = Allowance + Capacity
    BY <1>2, CallLimits DEF Allowance
  <2>2. \/ admitted + bucket.tokens <= Allowance + 2 * bucket.last
        \/ bucket.last < now /\ admitted + bucket.tokens <= Allowance + 2 * bucket.last + 1
    BY DEF CallsInv, Spent
  <2>3. admitted <= Allowance + 2 * now
    BY <1>2, <2>1, <2>2
  <2>4. bucket'.tokens = Capacity /\ bucket'.last = now /\ admitted' = admitted
    BY <1>1
  <2>5. admitted' + bucket'.tokens <= Allowance' + 2 * bucket'.last
    BY <1>2, <2>1, <2>3, <2>4
  <2> QED
    BY <2>5 DEF Spent
<1>6. Left' \subseteq Left
  BY <1>4 DEF Left
<1> QED
  BY <1>1, <1>3, <1>4, <1>5, <1>6, LeftShrinks DEF CallsInv, CallHolds

(* The limiter keeps its invariant, whatever calls, sleeps and retries do.  *)
LEMMA CallsKeeps ==
    ASSUME CallsInv, CallsStep
    PROVE  CallsInv'
<1>1. CASE CallMove /\ UNCHANGED <<now, restarts>>
  <2>1. PICK c \in Callers :
            \/ Enqueue(c) \/ Acquire(c) \/ Awake(c) \/ Backoff(c)
            \/ \E outcome \in {"json", "text", "4xx", "5xx"} : Post(c, outcome)
            \/ /\ call[c].pc \in {"answered", "error", "refused"} /\ EndCall(c)
               /\ UNCHANGED <<bucket, admitted, posts>>
    BY <1>1 DEF CallMove
  <2> QED
    BY <1>1, <2>1, EnqueueKeeps, AcquireKeeps, AwakeKeeps, BackoffKeeps, PostKeeps, EndCallKeeps
<1>2. CASE now' = now + 1 /\ UNCHANGED <<gateway, restarts>>
  BY <1>2, TickKeepsCalls
<1>3. CASE RestartLimits /\ restarts' = restarts + 1 /\ UNCHANGED now
  BY <1>3, RestartKeepsCalls
<1>4. CASE UNCHANGED <<gateway, now, restarts>>
  BY <1>4 DEF CallsInv, CallsOK, CallHolds, Spent, Sleeping, Allowance, PostsLeft, Left, gateway
<1> QED
  BY <1>1, <1>2, <1>3, <1>4 DEF CallsStep

LEMMA CallsGive ==
    ASSUME CallsInv
    PROVE  CallsBounded(restarts)
<1>1. /\ now \in Nat /\ admitted \in Nat /\ posts \in Nat /\ restarts \in Nat
      /\ bucket.tokens >= 0 /\ bucket.tokens \in Nat /\ bucket.last \in 0..now /\ Allowance \in Nat
  BY CallLimits DEF CallsInv, CallsOK, Allowance
<1>2. \/ admitted + bucket.tokens <= Allowance + 2 * bucket.last
      \/ bucket.last < now /\ admitted + bucket.tokens <= Allowance + 2 * bucket.last + 1
  BY DEF CallsInv, Spent
<1>3. admitted <= Allowance + 2 * now
  BY <1>1, <1>2
<1>4. posts + Cardinality(Left) <= MaxRetries * admitted /\ Cardinality(Left) \in Nat /\ MaxRetries * admitted \in Nat
  BY <1>1, CallLimits, LeftIsFinite DEF CallsInv, PostsLeft
<1>5. posts <= MaxRetries * admitted
  BY <1>1, <1>4
<1> QED
  BY <1>3, <1>5 DEF CallsBounded, Allowance


(* --- requests ------------------------------------------------------------- *)

WindowMove ==
    \/ (\E ok \in BOOLEAN : CheckAndIncr(ok)) /\ UNCHANGED <<now, restarts>>
    \/ RedisReturns /\ UNCHANGED <<now, restarts>>
    \/ now' = now + 1 /\ UNCHANGED <<limits, restarts>>
    \/ RestartLimits /\ restarts' = restarts + 1 /\ UNCHANGED now
    \/ UNCHANGED <<limits, now, restarts>>

WindowOK ==
    /\ now \in Nat /\ redisUp \in BOOLEAN /\ outages \in Nat /\ restarts \in Nat
    /\ counter \in [count : Nat, expires : Nat] /\ counter.expires <= now + Window
    /\ memory \in Seq(0..now) /\ hits \in Seq(0..now)
    /\ outages = 0 => redisUp

(* Every request let through has a label: who counted it (Redis, 0, or the  *)
(* process in its n-th life) and a slot, of which each counter has as many  *)
(* as one window lets through.                                              *)
CounterSlots(n) == (0..n) \X (1..RateLimit)

(* Two requests with one label are a window apart ...                       *)
Apart(h, L) ==
    \A i, j \in DOMAIN h : i < j /\ L[i] = L[j] => h[i] + Window <= h[j]
(* ... because Redis gives a number again only when the count has expired,  *)
(* which each hit has put off to a window after it,                         *)
ByRedis(h, L, count, expires, n) ==
    \A i \in DOMAIN h : L[i][1] = 0 =>
        h[i] + Window <= expires /\ (L[i][2] <= count \/ h[i] + Window <= n)
(* and the deque keeps each slot till its request is older than the window. *)
ByProcess(h, L, life, mem, S, n) ==
    \A i \in DOMAIN h : L[i][1] = life =>
        h[i] + Window < n \/ \E m \in DOMAIN mem : mem[m] = h[i] /\ S[m] = L[i][2]
OneEach(mem, S) ==
    S \in [DOMAIN mem -> 1..RateLimit] /\ \A i, j \in DOMAIN mem : S[i] = S[j] => i = j

LabelledWith(L, S) ==
    /\ L \in [DOMAIN hits -> CounterSlots(restarts + 1)] /\ Apart(hits, L)
    /\ outages = 0 => \A i \in DOMAIN hits : L[i][1] = 0
    /\ ByRedis(hits, L, counter.count, counter.expires, now)
    /\ OneEach(memory, S) /\ ByProcess(hits, L, restarts + 1, memory, S, now)

WindowInv == WindowOK /\ \E L, S : LabelledWith(L, S)

LEMMA HitAppended ==
    ASSUME NEW n \in Nat, NEW h \in Seq(0..n)
    PROVE  /\ Append(h, n) \in Seq(0..n) /\ h \in Seq(0..(n + 1))
           /\ Len(h) \in Nat /\ DOMAIN h = 1..Len(h) /\ DOMAIN Append(h, n) = 1..(Len(h) + 1)
           /\ \A i \in 1..Len(h) : h[i] \in 0..n /\ Append(h, n)[i] = h[i]
           /\ Append(h, n)[Len(h) + 1] = n
<1>1. n \in 0..n
  OBVIOUS
<1>2. Append(h, n) \in Seq(0..n) /\ Len(Append(h, n)) = Len(h) + 1
  BY <1>1, AppendProperties
<1>3. 0..n \subseteq 0..(n + 1)
  OBVIOUS
<1> QED
  BY <1>1, <1>2, <1>3, AppendProperties

(* A new request takes a label whose requests are all a window old.         *)
Aged(h, L, label, n) == \A i \in DOMAIN h : L[i] = label => h[i] + Window <= n
Takes(h, n, T, L, label) ==
    \E L2 \in [DOMAIN Append(h, n) -> T] :
        /\ Apart(Append(h, n), L2) /\ L2[Len(h) + 1] = label
        /\ \A i \in DOMAIN h : L2[i] = L[i]

LEMMA NewHit ==
    ASSUME NEW n \in Nat, NEW h \in Seq(0..n), NEW T, NEW L \in [DOMAIN h -> T], NEW label \in T,
           Apart(h, L), Aged(h, L, label, n)
    PROVE  Takes(h, n, T, L, label)
<1>1. PICK k, g : k = Len(h) /\ g = Append(h, n)
  OBVIOUS
<1>2. /\ k \in Nat /\ DOMAIN h = 1..k /\ DOMAIN g = 1..(k + 1) /\ g[k + 1] = n
      /\ \A i \in 1..k : h[i] \in 0..n /\ g[i] = h[i]
  BY <1>1, HitAppended
<1>3. PICK L2 : L2 = [i \in 1..(k + 1) |-> IF i = k + 1 THEN label ELSE L[i]]
  OBVIOUS
<1>4. k + 1 \in 1..(k + 1) /\ \A i \in 1..k : i \in 1..(k + 1) /\ i # k + 1
  BY <1>2
<1>5. \A i \in 1..(k + 1) : i \in 1..k \/ i = k + 1
  BY <1>2
<1>6. L2[k + 1] = label /\ \A i \in 1..k : L2[i] = L[i]
  BY <1>3, <1>4
<1>7. L2 \in [DOMAIN g -> T]
  BY <1>2, <1>3, <1>5
<1>8. Apart(g, L2)
  <2> SUFFICES ASSUME NEW i \in DOMAIN g, NEW j \in DOMAIN g, i < j, L2[i] = L2[j]
               PROVE  g[i] + Window <= g[j]
    BY DEF Apart
  <2>1. i \in 1..k
    BY <1>2
  <2>2. CASE j \in 1..k
    BY <1>2, <1>6, <2>1, <2>2 DEF Apart
  <2>3. CASE j = k + 1
    BY <1>2, <1>6, <2>1, <2>3 DEF Aged
  <2> QED
    BY <1>2, <1>5, <2>2, <2>3
<1> QED
  BY <1>1, <1>2, <1>6, <1>7, <1>8 DEF Takes

(* What is popped leaves every slot that still counts.                      *)
LEMMA Trimmed ==
    ASSUME NEW n \in Nat, NEW mem \in Seq(0..n), NEW k \in 0..Len(mem), NEW h, NEW L, NEW life, NEW S,
           \A i \in 1..k : mem[i] + Window < n, OneEach(mem, S), ByProcess(h, L, life, mem, S, n)
    PROVE  LET kept == SubSeq(mem, k + 1, Len(mem)) IN
           kept \in Seq(0..n) /\ \E S2 : OneEach(kept, S2) /\ ByProcess(h, L, life, kept, S2, n)
<1>1. PICK kept, z : kept = SubSeq(mem, k + 1, Len(mem)) /\ z = Len(mem) - k
  OBVIOUS
<1>2. Len(mem) \in Nat /\ DOMAIN mem = 1..Len(mem) /\ \A i \in 1..Len(mem) : mem[i] \in 0..n
  OBVIOUS
<1>3. z \in Nat /\ Len(mem) = z + k /\ k \in Nat
  BY <1>1, <1>2
<1>4. kept \in Seq(0..n) /\ DOMAIN kept = 1..z /\ \A m \in 1..z : kept[m] = mem[m + k]
  <2>1. \A i \in (k + 1)..Len(mem) : mem[i] \in 0..n
    BY <1>2, <1>3
  <2>2. /\ kept \in Seq(0..n)
        /\ Len(kept) = IF k + 1 <= Len(mem) THEN Len(mem) - (k + 1) + 1 ELSE 0
        /\ \A i \in 1..(Len(mem) - (k + 1) + 1) : kept[i] = mem[(k + 1) + i - 1]
    BY <1>1, <1>2, <1>3, <2>1, SubSeqProperties
  <2>3. Len(kept) = z
    BY <1>3, <2>2
  <2>4. \A m \in 1..z : m \in 1..(Len(mem) - (k + 1) + 1) /\ (k + 1) + m - 1 = m + k
    BY <1>3
  <2> QED
    BY <2>2, <2>3, <2>4, SMTT(30)
<1>5. PICK S2 : S2 = [m \in 1..z |-> S[m + k]]
  OBVIOUS
<1>6. \A m \in 1..z : m + k \in 1..Len(mem) /\ S2[m] = S[m + k]
  BY <1>3, <1>5
<1>7. OneEach(kept, S2)
  <2>1. S2 \in [1..z -> 1..RateLimit]
    BY <1>2, <1>5, <1>6 DEF OneEach
  <2>2. \A i, j \in 1..z : S2[i] = S2[j] => i + k = j + k
    BY <1>2, <1>6 DEF OneEach
  <2> QED
    BY <1>3, <1>4, <2>1, <2>2, SMTT(30) DEF OneEach
<1>8. ByProcess(h, L, life, kept, S2, n)
  <2> SUFFICES ASSUME NEW i \in DOMAIN h, L[i][1] = life, ~(h[i] + Window < n)
               PROVE  \E m \in DOMAIN kept : kept[m] = h[i] /\ S2[m] = L[i][2]
    BY DEF ByProcess
  <2>1. PICK m \in DOMAIN mem : mem[m] = h[i] /\ S[m] = L[i][2]
    BY DEF ByProcess
  <2>2. m \in 1..Len(mem) /\ ~(m \in 1..k)
    BY <1>2, <2>1
  <2>3. m - k \in 1..z /\ (m - k) + k = m
    BY <1>3, <2>2
  <2> QED
    BY <1>4, <1>6, <2>1, <2>3
<1> QED
  BY <1>1, <1>4, <1>7, <1>8

(* A deque that is not full has a slot to give.                             *)
LEMMA FreeSlot ==
    ASSUME NEW n \in Nat, n < RateLimit, NEW S \in [1..n -> 1..RateLimit]
    PROVE  \E s \in 1..RateLimit : \A m \in 1..n : S[m] # s
<1>1. RateLimit \in Nat \ {0}
  BY LimitsAssumption
<1> SUFFICES ASSUME \A s \in 1..RateLimit : \E m \in 1..n : S[m] = s PROVE FALSE
  OBVIOUS
<1>2. S \in Surjection(1..n, 1..RateLimit)
  BY DEF Surjection
<1>3. IsFiniteSet(1..n) /\ Cardinality(1..n) = n /\ Cardinality(1..RateLimit) = RateLimit
  BY <1>1, FS_Interval
<1>4. Cardinality(1..RateLimit) <= Cardinality(1..n)
  BY <1>2, <1>3, FS_Surjection
<1> QED
  BY <1>1, <1>3, <1>4


LEMMA WindowInit == InitLimits /\ restarts = 0 => WindowInv
<1> SUFFICES ASSUME InitLimits, restarts = 0 PROVE WindowInv
  OBVIOUS
<1>1. /\ now = 0 /\ redisUp = TRUE /\ counter = [count |-> 0, expires |-> 0]
      /\ memory = <<>> /\ hits = <<>> /\ outages = 0
  BY DEF InitLimits
<1>2. <<>> \in Seq(0..now) /\ DOMAIN <<>> = {}
  BY EmptySeq
<1>3. WindowOK
  BY <1>1, <1>2, LimitsAssumption DEF WindowOK
<1>4. PICK E : E = [i \in {} |-> 0]
  OBVIOUS
<1>5. E \in [DOMAIN hits -> CounterSlots(restarts + 1)] /\ OneEach(memory, E)
  BY <1>1, <1>2, <1>4 DEF OneEach
<1>6. DOMAIN hits = {}
  BY <1>1, <1>2
<1>7. Apart(hits, E) /\ ByRedis(hits, E, counter.count, counter.expires, now)
      /\ ByProcess(hits, E, restarts + 1, memory, E, now)
  BY <1>6 DEF Apart, ByRedis, ByProcess
<1> QED
  BY <1>3, <1>5, <1>6, <1>7 DEF WindowInv, LabelledWith

(* Whether the pipeline ran or not, the numbers Redis has given stand.      *)
LEMMA CountStands ==
    ASSUME WindowOK, NEW L \in [DOMAIN hits -> CounterSlots(restarts + 1)],
           ByRedis(hits, L, counter.count, counter.expires, now),
           NEW ctr \in {counter, Incremented}
    PROVE  /\ ctr \in [count : Nat, expires : Nat] /\ ctr.expires <= now + Window
           /\ ByRedis(hits, L, ctr.count, ctr.expires, now)
<1>1. /\ now \in Nat /\ Window \in Nat /\ counter.count \in Nat /\ counter.expires \in Nat
      /\ counter.expires <= now + Window /\ counter \in [count : Nat, expires : Nat]
      /\ \A i \in DOMAIN hits : hits[i] \in Nat
  BY LimitsAssumption DEF WindowOK
<1>2. CASE ctr = counter
  BY <1>1, <1>2
<1>3. CASE ctr = Incremented
  <2>1. PICK count : count = (IF now >= counter.expires THEN 0 ELSE counter.count) + 1
    OBVIOUS
  <2>2. count \in Nat /\ (now >= counter.expires \/ counter.count <= count)
    BY <1>1, <2>1
  <2>3. ctr = [count |-> count, expires |-> now + Window]
    BY <1>3, <2>1 DEF Incremented
  <2>4. ctr \in [count : Nat, expires : Nat] /\ ctr.expires = now + Window /\ ctr.count = count
    BY <1>1, <2>2, <2>3
  <2>5. ASSUME NEW i \in DOMAIN hits, L[i][1] = 0
        PROVE  hits[i] + Window <= ctr.expires /\ (L[i][2] <= ctr.count \/ hits[i] + Window <= now)
    <3>1. /\ hits[i] + Window <= counter.expires
          /\ L[i][2] <= counter.count \/ hits[i] + Window <= now
      BY <2>5 DEF ByRedis
    <3>2. hits[i] + Window <= ctr.expires
      BY <1>1, <2>4, <3>1
    <3>3. CASE now >= counter.expires
      BY <1>1, <3>1, <3>2, <3>3
    <3>4. CASE counter.count <= count /\ ~(hits[i] + Window <= now)
      <4>1. L[i][2] <= counter.count /\ L[i][2] \in Nat
        BY <3>1, <3>4 DEF CounterSlots
      <4>2. L[i][2] <= ctr.count
        BY <1>1, <2>2, <2>4, <3>4, <4>1
      <4> QED
        BY <3>2, <4>2
    <3> QED
      BY <2>2, <3>2, <3>3, <3>4
  <2> QED
    BY <1>1, <2>4, <2>5 DEF ByRedis
<1> QED
  BY <1>2, <1>3


LEMMA RedisCounts ==
    ASSUME WindowInv, NEW ok \in BOOLEAN, ok <=> RedisAllows, counter' = Incremented,
           hits' = IF ok THEN Append(hits, now) ELSE hits,
           UNCHANGED <<redisUp, memory, outages, now, restarts>>
    PROVE  WindowInv'
<1>1. PICK L, S : LabelledWith(L, S)
  BY DEF WindowInv
<1>2. WindowOK
  BY DEF WindowInv
<1>3. /\ L \in [DOMAIN hits -> CounterSlots(restarts + 1)] /\ Apart(hits, L)
      /\ outages = 0 => \A i \in DOMAIN hits : L[i][1] = 0
      /\ ByRedis(hits, L, counter.count, counter.expires, now)
      /\ OneEach(memory, S) /\ ByProcess(hits, L, restarts + 1, memory, S, now)
  BY <1>1 DEF LabelledWith
<1>4. /\ now \in Nat /\ hits \in Seq(0..now) /\ restarts \in Nat
      /\ counter.count \in Nat /\ counter.expires \in Nat /\ Window \in Nat /\ RateLimit \in Nat
  BY <1>2, LimitsAssumption DEF WindowOK
<1>5. /\ Incremented \in [count : Nat, expires : Nat] /\ Incremented.expires <= now + Window
      /\ ByRedis(hits, L, Incremented.count, Incremented.expires, now)
  BY <1>2, <1>3, CountStands
<1>6. PICK k, h : k = Len(hits) /\ h = Append(hits, now)
  OBVIOUS
<1>7. /\ h \in Seq(0..now) /\ k \in Nat /\ DOMAIN hits = 1..k /\ DOMAIN h = 1..(k + 1) /\ h[k + 1] = now
      /\ \A i \in 1..k : hits[i] \in 0..now /\ h[i] = hits[i]
  BY <1>4, <1>6, HitAppended
<1>8. WindowOK'
  BY <1>2, <1>5, <1>6, <1>7 DEF WindowOK
<1>9. CASE ~ok
  BY <1>3, <1>5, <1>8, <1>9 DEF WindowInv, LabelledWith
<1>10. CASE ok
  <2>1. PICK count : count = Incremented.count
    OBVIOUS
  <2>2. /\ count \in Nat /\ 1 <= count /\ count <= RateLimit /\ Incremented.expires = now + Window
        /\ now < counter.expires => count = counter.count + 1
    BY <1>4, <1>10, <2>1 DEF Incremented, RedisAllows
  <2>3. <<0, count>> \in CounterSlots(restarts + 1)
    BY <1>4, <2>2 DEF CounterSlots
  <2>4. \A i \in DOMAIN hits : L[i] = <<0, count>> => hits[i] + Window <= now
    <3> SUFFICES ASSUME NEW i \in DOMAIN hits, L[i] = <<0, count>>, ~(hits[i] + Window <= now) PROVE FALSE
      OBVIOUS
    <3>1. hits[i] + Window <= counter.expires /\ count <= counter.count
      BY <1>3 DEF ByRedis
    <3>2. now < counter.expires
      BY <1>4, <1>7, <3>1, SMTT(30)
    <3> QED
      BY <1>4, <2>2, <3>1, <3>2, SMTT(30)
  <2>5. PICK L2 \in [DOMAIN h -> CounterSlots(restarts + 1)] :
            /\ Apart(h, L2) /\ L2[k + 1] = <<0, count>> /\ \A i \in DOMAIN hits : L2[i] = L[i]
    <3>1. Aged(hits, L, <<0, count>>, now)
      BY <2>4 DEF Aged
    <3>2. Takes(hits, now, CounterSlots(restarts + 1), L, <<0, count>>)
      BY <1>3, <1>4, <2>3, <3>1, NewHit, Zenon
    <3> QED
      BY <1>6, <3>2 DEF Takes
  <2>6. \A i \in DOMAIN h : i \in DOMAIN hits \/ i = k + 1
    BY <1>7
  <2>7. outages = 0 => \A i \in DOMAIN h : L2[i][1] = 0
    BY <1>3, <2>5, <2>6
  <2>8. ByRedis(h, L2, Incremented.count, Incremented.expires, now)
    <3>1. \A i \in DOMAIN hits : L2[i] = L[i] /\ h[i] = hits[i]
      BY <1>7, <2>5
    <3>2. /\ h[k + 1] + Window <= Incremented.expires
          /\ L2[k + 1][2] <= Incremented.count
      BY <1>4, <1>7, <2>1, <2>2, <2>5
    <3> QED
      BY <1>5, <2>6, <3>1, <3>2 DEF ByRedis
  <2>9. ByProcess(h, L2, restarts + 1, memory, S, now)
    <3>1. L2[k + 1][1] # restarts + 1
      BY <1>4, <2>5
    <3> QED
      BY <1>3, <1>7, <2>5, <2>6, <3>1, SMTT(30) DEF ByProcess
  <2>10. L2 \in [DOMAIN hits' -> CounterSlots(restarts + 1)] /\ hits' = h
    BY <1>6, <1>10, <2>5
  <2> QED
    BY <1>3, <1>8, <2>5, <2>7, <2>8, <2>9, <2>10 DEF WindowInv, LabelledWith
<1> QED
  BY <1>9, <1>10

LEMMA ProcessCounts ==
    ASSUME WindowInv, NEW ok \in BOOLEAN, CountInMemory(ok), counter' \in {counter, Incremented},
           hits' = IF ok THEN Append(hits, now) ELSE hits,
           redisUp' \in BOOLEAN, outages' \in Nat \ {0}, UNCHANGED <<now, restarts>>
    PROVE  WindowInv'
<1>1. PICK L, S : LabelledWith(L, S)
  BY DEF WindowInv
<1>2. WindowOK
  BY DEF WindowInv
<1>3. /\ L \in [DOMAIN hits -> CounterSlots(restarts + 1)] /\ Apart(hits, L)
      /\ ByRedis(hits, L, counter.count, counter.expires, now)
      /\ OneEach(memory, S) /\ ByProcess(hits, L, restarts + 1, memory, S, now)
  BY <1>1 DEF LabelledWith
<1>4. /\ now \in Nat /\ hits \in Seq(0..now) /\ memory \in Seq(0..now) /\ restarts \in Nat
      /\ Window \in Nat \ {0} /\ RateLimit \in Nat
  BY <1>2, LimitsAssumption DEF WindowOK
<1>5. /\ counter' \in [count : Nat, expires : Nat] /\ counter'.expires <= now + Window
      /\ ByRedis(hits, L, counter'.count, counter'.expires, now)
  BY <1>2, <1>3, CountStands
<1>6. PICK n \in 0..Len(memory) :
          /\ Popped(n) /\ (ok <=> MemoryAllows(n))
          /\ memory' = IF ok THEN Append(InWindow(n), now) ELSE InWindow(n)
  BY DEF CountInMemory
<1>7. PICK kept : kept = InWindow(n)
  OBVIOUS
<1>8. /\ kept \in Seq(0..now)
      /\ \E S2 : OneEach(kept, S2) /\ ByProcess(hits, L, restarts + 1, kept, S2, now)
  <2>1. \A i \in 1..n : memory[i] + Window < now
    BY <1>6 DEF Popped
  <2> QED
    BY <1>3, <1>4, <1>7, <2>1, Trimmed DEF InWindow
<1>9. PICK S2 : OneEach(kept, S2) /\ ByProcess(hits, L, restarts + 1, kept, S2, now)
  BY <1>8
<1>10. PICK k, h : k = Len(hits) /\ h = Append(hits, now)
  OBVIOUS
<1>11. /\ h \in Seq(0..now) /\ k \in Nat /\ DOMAIN hits = 1..k /\ DOMAIN h = 1..(k + 1) /\ h[k + 1] = now
       /\ \A i \in 1..k : hits[i] \in 0..now /\ h[i] = hits[i]
  <2>1. /\ Append(hits, now) \in Seq(0..now) /\ Len(hits) \in Nat
        /\ DOMAIN hits = 1..Len(hits) /\ DOMAIN Append(hits, now) = 1..(Len(hits) + 1)
        /\ \A i \in 1..Len(hits) : hits[i] \in 0..now /\ Append(hits, now)[i] = hits[i]
        /\ Append(hits, now)[Len(hits) + 1] = now
    BY <1>4, HitAppended, Zenon
  <2> QED
    BY <2>1, <1>10
<1>12. PICK z, mem : z = Len(kept) /\ mem = Append(kept, now)
  OBVIOUS
<1>13. /\ mem \in Seq(0..now) /\ z \in Nat /\ DOMAIN kept = 1..z /\ DOMAIN mem = 1..(z + 1) /\ mem[z + 1] = now
       /\ \A i \in 1..z : mem[i] = kept[i]
  BY <1>4, <1>8, <1>12, HitAppended
<1>14. memory' \in Seq(0..now) /\ hits' \in Seq(0..now)
  BY <1>4, <1>6, <1>7, <1>8, <1>10, <1>11, <1>12, <1>13
<1>15. WindowOK'
  BY <1>2, <1>5, <1>14 DEF WindowOK
<1>16. CASE ~ok
  <2>1. memory' = kept /\ hits' = hits
    BY <1>6, <1>7, <1>16
  <2> QED
    BY <1>3, <1>5, <1>9, <1>15, <2>1 DEF WindowInv, LabelledWith
<1>17. CASE ok
  <2>1. memory' = mem /\ hits' = h
    BY <1>6, <1>7, <1>10, <1>12, <1>17
  <2>2. z < RateLimit /\ S2 \in [1..z -> 1..RateLimit]
    BY <1>6, <1>7, <1>9, <1>12, <1>13, <1>17 DEF MemoryAllows, OneEach
  <2>3. PICK s \in 1..RateLimit : \A m \in 1..z : S2[m] # s
    BY <1>13, <2>2, FreeSlot
  <2>4. PICK label : label = <<restarts + 1, s>>
    OBVIOUS
  <2>5. label \in CounterSlots(restarts + 1) /\ label[1] = restarts + 1 /\ label[2] = s
    BY <1>4, <2>4 DEF CounterSlots
  <2>6. \A i \in DOMAIN hits : L[i] = label => hits[i] + Window <= now
    <3> SUFFICES ASSUME NEW i \in DOMAIN hits, L[i] = label PROVE hits[i] + Window <= now
      OBVIOUS
    <3>1. hits[i] + Window < now
      BY <1>9, <1>13, <2>3, <2>5 DEF ByProcess
    <3> QED
      BY <1>4, <1>11, <3>1, SMTT(30)
  <2>7. PICK L2 \in [DOMAIN h -> CounterSlots(restarts + 1)] :
            Apart(h, L2) /\ L2[k + 1] = label /\ \A i \in DOMAIN hits : L2[i] = L[i]
    <3>1. Aged(hits, L, label, now)
      BY <2>6 DEF Aged
    <3>2. Takes(hits, now, CounterSlots(restarts + 1), L, label)
      BY <1>3, <1>4, <2>5, <3>1, NewHit, Zenon
    <3> QED
      BY <1>10, <3>2 DEF Takes
  <2>8. \A i \in DOMAIN h : i \in DOMAIN hits \/ i = k + 1
    BY <1>11
  <2>9. ByRedis(h, L2, counter'.count, counter'.expires, now)
    <3>1. L2[k + 1][1] # 0
      BY <1>4, <2>5, <2>7
    <3> QED
      BY <1>5, <1>11, <2>7, <2>8, <3>1 DEF ByRedis
  <2>10. PICK S3 : S3 = [m \in 1..(z + 1) |-> IF m = z + 1 THEN s ELSE S2[m]]
    OBVIOUS
  <2>11. /\ z + 1 \in 1..(z + 1) /\ S3[z + 1] = s
         /\ \A m \in 1..z : m \in 1..(z + 1) /\ S3[m] = S2[m]
         /\ \A m \in 1..(z + 1) : m \in 1..z \/ m = z + 1
    BY <1>13, <2>10
  <2>12. OneEach(mem, S3)
    <3>1. S3 \in [1..(z + 1) -> 1..RateLimit]
      BY <2>2, <2>3, <2>10, <2>11
    <3>2. \A i, j \in 1..z : S2[i] = S2[j] => i = j
      BY <1>9, <1>13 DEF OneEach
    <3>3. \A i, j \in 1..(z + 1) : S3[i] = S3[j] => i = j
      BY <2>3, <2>11, <3>2
    <3> QED
      BY <1>13, <3>1, <3>3 DEF OneEach
  <2>13. ByProcess(h, L2, restarts + 1, mem, S3, now)
    <3> SUFFICES ASSUME NEW i \in DOMAIN h, L2[i][1] = restarts + 1, ~(h[i] + Window < now)
                 PROVE  \E m \in DOMAIN mem : mem[m] = h[i] /\ S3[m] = L2[i][2]
      BY DEF ByProcess
    <3>1. CASE i = k + 1
      BY <1>11, <1>13, <2>5, <2>7, <2>11, <3>1
    <3>2. CASE i \in DOMAIN hits
      <4>1. PICK m \in DOMAIN kept : kept[m] = hits[i] /\ S2[m] = L[i][2]
        BY <1>9, <1>11, <2>7, <3>2 DEF ByProcess
      <4> QED
        BY <1>11, <1>13, <2>7, <2>11, <3>2, <4>1
    <3> QED
      BY <2>8, <3>1, <3>2
  <2> QED
    BY <1>15, <2>1, <2>7, <2>9, <2>12, <2>13 DEF WindowInv, LabelledWith
<1> QED
  BY <1>16, <1>17


LEMMA TickKeepsWindow ==
    ASSUME WindowInv, now' = now + 1, UNCHANGED <<limits, restarts>>
    PROVE  WindowInv'
<1>1. PICK L, S : LabelledWith(L, S)
  BY DEF WindowInv
<1>2. UNCHANGED <<redisUp, counter, memory, hits, outages>>
  BY DEF limits
<1>3. /\ now \in Nat /\ Window \in Nat /\ hits \in Seq(0..now) /\ memory \in Seq(0..now)
      /\ counter.expires \in Nat /\ counter.expires <= now + Window
  BY LimitsAssumption DEF WindowInv, WindowOK
<1>4. hits \in Seq(0..(now + 1)) /\ memory \in Seq(0..(now + 1))
  BY <1>3, HitAppended
<1>5. WindowOK'
  BY <1>2, <1>3, <1>4 DEF WindowInv, WindowOK
<1>6. \A i \in DOMAIN hits : hits[i] \in Nat
  BY <1>3
<1>7. ByRedis(hits, L, counter.count, counter.expires, now + 1)
  BY <1>1, <1>3, <1>6 DEF LabelledWith, ByRedis
<1>8. ByProcess(hits, L, restarts + 1, memory, S, now + 1)
  <2>1. \A i \in DOMAIN hits : hits[i] + Window < now => hits[i] + Window < now + 1
    BY <1>3, <1>6
  <2> QED
    BY <1>1, <2>1 DEF LabelledWith, ByProcess
<1> QED
  BY <1>1, <1>2, <1>5, <1>7, <1>8 DEF WindowInv, LabelledWith

LEMMA RestartKeepsWindow ==
    ASSUME WindowInv, RestartLimits, restarts' = restarts + 1, UNCHANGED now
    PROVE  WindowInv'
<1>1. PICK L, S : LabelledWith(L, S)
  BY DEF WindowInv
<1>2. memory' = <<>> /\ UNCHANGED <<redisUp, counter, hits, outages>>
  BY DEF RestartLimits
<1>3. memory' \in Seq(0..now) /\ DOMAIN memory' = {}
  BY <1>2, EmptySeq
<1>4. WindowOK'
  BY <1>2, <1>3 DEF WindowInv, WindowOK
<1>5. restarts \in Nat /\ L \in [DOMAIN hits -> CounterSlots(restarts + 1)]
  BY <1>1 DEF WindowInv, WindowOK, LabelledWith
<1>6. L \in [DOMAIN hits -> CounterSlots(restarts' + 1)]
  <2>1. CounterSlots(restarts + 1) \subseteq CounterSlots(restarts' + 1)
    BY <1>5 DEF CounterSlots
  <2> QED
    BY <1>5, <2>1
<1>7. PICK E : E = [i \in {} |-> 0]
  OBVIOUS
<1>8. OneEach(memory', E)
  BY <1>3, <1>7 DEF OneEach
<1>9. ByProcess(hits, L, restarts' + 1, memory', E, now)
  <2>1. \A i \in DOMAIN hits : L[i][1] \in 0..(restarts + 1)
    BY <1>5 DEF CounterSlots
  <2>2. \A i \in DOMAIN hits : L[i][1] # restarts' + 1
    BY <1>5, <2>1
  <2> QED
    BY <2>2 DEF ByProcess
<1> QED
  BY <1>1, <1>2, <1>4, <1>6, <1>8, <1>9 DEF WindowInv, LabelledWith

(* The limiter keeps its invariant, whoever counts and whatever is lost.    *)
LEMMA WindowKeeps ==
    ASSUME WindowInv, WindowMove
    PROVE  WindowInv'
<1>1. CASE (\E ok \in BOOLEAN : CheckAndIncr(ok)) /\ UNCHANGED <<now, restarts>>
  <2>1. PICK ok \in BOOLEAN : CheckAndIncr(ok)
    BY <1>1
  <2>2. outages \in Nat /\ redisUp \in BOOLEAN /\ (outages = 0 => redisUp)
    BY DEF WindowInv, WindowOK
  <2>3. hits' = IF ok THEN Append(hits, now) ELSE hits
    BY <2>1 DEF CheckAndIncr
  <2>4. CASE redisUp /\ (ok <=> RedisAllows) /\ counter' = Incremented /\ UNCHANGED <<redisUp, memory, outages>>
    BY <1>1, <2>3, <2>4, RedisCounts
  <2>5. CASE /\ redisUp /\ CountInMemory(ok) /\ counter' \in {counter, Incremented}
             /\ redisUp' = FALSE /\ outages' = outages + 1
    <3>1. outages' \in Nat \ {0} /\ redisUp' \in BOOLEAN
      <4>1. outages + 1 \in Nat \ {0}
        BY <2>2
      <4> QED
        BY <2>5, <4>1
    <3> QED
      BY <1>1, <2>3, <2>5, <3>1, ProcessCounts
  <2>6. CASE ~redisUp /\ CountInMemory(ok) /\ UNCHANGED <<redisUp, counter, outages>>
    <3>1. outages' \in Nat \ {0} /\ redisUp' \in BOOLEAN /\ counter' \in {counter, Incremented}
      BY <2>2, <2>6
    <3> QED
      BY <1>1, <2>3, <2>6, <3>1, ProcessCounts
  <2> QED
    BY <2>1, <2>4, <2>5, <2>6 DEF CheckAndIncr
<1>2. CASE RedisReturns /\ UNCHANGED <<now, restarts>>
  <2>1. redisUp' = TRUE /\ UNCHANGED <<counter, memory, hits, outages, now, restarts>>
    BY <1>2 DEF RedisReturns
  <2>2. WindowOK'
    BY <2>1 DEF WindowInv, WindowOK
  <2> QED
    BY <2>1, <2>2 DEF WindowInv, LabelledWith
<1>3. CASE now' = now + 1 /\ UNCHANGED <<limits, restarts>>
  BY <1>3, TickKeepsWindow
<1>4. CASE RestartLimits /\ restarts' = restarts + 1 /\ UNCHANGED now
  BY <1>4, RestartKeepsWindow
<1>5. CASE UNCHANGED <<limits, now, restarts>>
  BY <1>5 DEF WindowInv, WindowOK, LabelledWith, limits
<1> QED
  BY <1>1, <1>2, <1>3, <1>4, <1>5 DEF WindowMove

(* The requests of one window have different labels, of which there are     *)
(* RateLimit for Redis, and, once Redis has been out, for each life.        *)
LEMMA WindowGives ==
    ASSUME WindowInv
    PROVE  WindowKept(restarts)
<1> SUFFICES ASSUME NEW t \in 0..now
             PROVE  Cardinality({i \in DOMAIN hits : hits[i] <= t /\ hits[i] + Window > t})
                        <= RateLimit * (1 + outages + restarts)
  BY DEF WindowKept
<1>1. PICK L, S : LabelledWith(L, S)
  BY DEF WindowInv
<1>2. /\ now \in Nat /\ t \in Nat /\ outages \in Nat /\ restarts \in Nat /\ RateLimit \in Nat \ {0} /\ Window \in Nat
      /\ hits \in Seq(0..now) /\ L \in [DOMAIN hits -> CounterSlots(restarts + 1)] /\ Apart(hits, L)
      /\ outages = 0 => \A i \in DOMAIN hits : L[i][1] = 0
  BY <1>1, LimitsAssumption DEF WindowInv, WindowOK, LabelledWith
<1>3. PICK H : H = {i \in DOMAIN hits : hits[i] <= t /\ hits[i] + Window > t}
  OBVIOUS
<1>4. PICK T : T = (0..(outages + restarts)) \X (1..RateLimit)
  OBVIOUS
<1>5. \A i \in DOMAIN hits : hits[i] \in Nat /\ i \in Nat
  BY <1>2
<1>6. \A i \in DOMAIN hits : L[i] \in T
  <2> SUFFICES ASSUME NEW i \in DOMAIN hits PROVE L[i] \in T
    OBVIOUS
  <2>1. L[i] = <<L[i][1], L[i][2]>> /\ L[i][1] \in 0..(restarts + 1) /\ L[i][2] \in 1..RateLimit
    BY <1>2 DEF CounterSlots
  <2>2. L[i][1] \in 0..(outages + restarts)
    <3>1. CASE outages = 0
      BY <1>2, <3>1
    <3>2. CASE outages # 0
      BY <1>2, <2>1, <3>2
    <3> QED
      BY <3>1, <3>2
  <2> QED
    BY <1>4, <2>1, <2>2
<1>7. \A i, j \in H : L[i] = L[j] => i = j
  <2> SUFFICES ASSUME NEW i \in H, NEW j \in H, L[i] = L[j], i < j PROVE FALSE
    BY <1>3, <1>5
  <2>1. hits[i] + Window <= hits[j] /\ hits[j] <= t /\ hits[i] + Window > t
    BY <1>2, <1>3 DEF Apart
  <2> QED
    BY <1>2, <1>3, <1>5, <2>1
<1>8. PICK f : f = [i \in H |-> L[i]]
  OBVIOUS
<1>9. f \in Injection(H, T)
  BY <1>3, <1>6, <1>7, <1>8 DEF Injection, IsInjective
<1>10. IsFiniteSet(T) /\ Cardinality(T) = (outages + restarts + 1) * RateLimit
  <2>1. /\ IsFiniteSet(0..(outages + restarts)) /\ IsFiniteSet(1..RateLimit)
        /\ Cardinality(0..(outages + restarts)) = outages + restarts + 1 /\ Cardinality(1..RateLimit) = RateLimit
    <3>1. PICK e : e = outages + restarts
      OBVIOUS
    <3>2. e \in Nat /\ 0 \in Int /\ e \in Int /\ 1 \in Int /\ RateLimit \in Int /\ RateLimit \in Nat \ {0}
      BY <1>2, <3>1
    <3>3. IsFiniteSet(0..e) /\ Cardinality(0..e) = e + 1
      BY <3>2, FS_Interval
    <3>4. IsFiniteSet(1..RateLimit) /\ Cardinality(1..RateLimit) = RateLimit
      BY <3>2, FS_Interval
    <3> QED
      BY <3>1, <3>3, <3>4
  <2> QED
    BY <1>4, <2>1, FS_Product, ZenonT(60)
<1>11. Cardinality(H) <= Cardinality(T)
  BY <1>9, <1>10, FS_Injection
<1>12. (outages + restarts + 1) * RateLimit = RateLimit * (1 + outages + restarts)
  BY <1>2
<1> QED
  BY <1>3, <1>10, <1>11, <1>12

LEMMA LimitsHold ==
    ASSUME CallsInv, WindowInv
    PROVE  LimitsOK
  BY DEF CallsInv, CallsOK, WindowInv, WindowOK, LimitsOK

=============================================================================
