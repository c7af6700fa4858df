------------------------------- MODULE Limits -------------------------------
(* The two limiters and the clock they read: requests per address           *)
(* (services/rate_limit.py behind the middleware of main.py) and calls of   *)
(* the model provider (tools/llm.py).  One tick is the time the bucket      *)
(* takes to refill one token; what an acquire does falls on a tick.         *)
EXTENDS Naturals, Sequences, FiniteSets

CONSTANTS RateLimit, Window,       \* requests per window; length of it in ticks
          Callers,                 \* reviews that call the provider
          Capacity, MaxRetries

VARIABLES now, redisUp, counter, memory,
          hits, outages,                                  \* history
          bucket, call, admitted, posts                   \* the last two: history

limits == <<redisUp, counter, memory, hits, outages>>
gateway == <<bucket, call, admitted, posts>>

ASSUME LimitsAssumption ==
    /\ RateLimit \in Nat \ {0} /\ Window \in Nat \ {0}
    /\ Capacity \in Nat \ {0} /\ MaxRetries \in Nat \ {0} /\ IsFiniteSet(Callers)

Call == [pc : {"idle", "queued", "asleep", "sending", "backoff", "answered", "error", "refused"},
         tries : 0..MaxRetries, wake : Nat]
NoCall == [pc |-> "idle", tries |-> 0, wake |-> 0]
FullBucket == [tokens |-> Capacity, last |-> now]

InitLimits ==
    /\ now = 0
    /\ redisUp = TRUE /\ counter = [count |-> 0, expires |-> 0]
    /\ memory = <<>> /\ hits = <<>> /\ outages = 0
    /\ bucket = FullBucket /\ call = [c \in Callers |-> NoCall]
    /\ admitted = 0 /\ posts = 0
-----------------------------------------------------------------------------
(* --- requests ---------------------------------------------------------- *)

(* INCR and EXPIRE in one pipeline: every hit, refused or not, renews the   *)
(* expiry.                                                                  *)
Incremented ==
    [count |-> (IF now >= counter.expires THEN 0 ELSE counter.count) + 1,
     expires |-> now + Window]
RedisAllows == Incremented.count <= RateLimit

(* The deque of this process: from the left, what is older than the window  *)
(* is popped.                                                               *)
Popped(k) ==
    /\ \A i \in 1..k : memory[i] + Window < now
    /\ k < Len(memory) => memory[k + 1] + Window >= now
InWindow(k) == SubSeq(memory, k + 1, Len(memory))
MemoryAllows(k) == Len(InWindow(k)) < RateLimit

CountInMemory(ok) ==
    \E k \in 0..Len(memory) :
        /\ Popped(k) /\ (ok <=> MemoryAllows(k))
        /\ memory' = IF ok THEN Append(InWindow(k), now) ELSE InWindow(k)

(* check_and_incr: by Redis if the ping and the pipeline succeed; in memory *)
(* if Redis is down, or if the pipeline fails after the ping, in which case *)
(* Redis may have counted as well.                                          *)
CheckAndIncr(ok) ==
    /\ hits' = IF ok THEN Append(hits, now) ELSE hits
    /\ \/ redisUp /\ (ok <=> RedisAllows) /\ counter' = Incremented
          /\ UNCHANGED <<redisUp, memory, outages>>
       \/ redisUp /\ CountInMemory(ok) /\ counter' \in {counter, Incremented}
          /\ redisUp' = FALSE /\ outages' = outages + 1
       \/ ~redisUp /\ CountInMemory(ok) /\ UNCHANGED <<redisUp, counter, outages>>

RedisReturns ==
    /\ ~redisUp /\ redisUp' = TRUE
    /\ UNCHANGED <<counter, memory, hits, outages>>
-----------------------------------------------------------------------------
(* --- calls of the model provider ---------------------------------------- *)

Sleeping == \E c \in Callers : call[c].pc = "asleep"

(* Fault: more tokens than the bucket holds.                              *)
Uncapped == bucket.tokens + (now - bucket.last)
Refilled == IF bucket.tokens + (now - bucket.last) > Capacity
            THEN Capacity ELSE bucket.tokens + (now - bucket.last)

(* Fault: the time of the refill is not kept.                             *)
LastKept == bucket.last
LastRefill == now

Enqueue(c) ==
    /\ call[c].pc = "idle"
    /\ call' = [call EXCEPT ![c].pc = "queued"]
    /\ UNCHANGED <<bucket, admitted, posts>>

(* acquire, under the lock: refill; a token, or a sleep that keeps the lock *)
Acquire(c) ==
    /\ call[c].pc = "queued" /\ ~Sleeping
    /\ IF Refilled < 1
       THEN /\ bucket' = [tokens |-> Refilled, last |-> LastRefill]
            /\ call' = [call EXCEPT ![c].pc = "asleep", ![c].wake = now + 1]
            /\ UNCHANGED admitted
       ELSE /\ bucket' = [tokens |-> Refilled - 1, last |-> LastRefill]
            /\ call' = [call EXCEPT ![c].pc = "sending"]
            /\ admitted' = admitted + 1
    /\ UNCHANGED posts

(* ... after which the bucket is empty, as of the time before the sleep.    *)
Awake(c) ==
    /\ call[c].pc = "asleep" /\ now >= call[c].wake
    /\ bucket' = [bucket EXCEPT !.tokens = 0]
    /\ call' = [call EXCEPT ![c].pc = "sending"]
    /\ admitted' = admitted + 1
    /\ UNCHANGED posts

(* complete posts and waits.  An answer: JSON, or not (complete_json raises *)
(* AgentError); 4xx but 429 is refused at once; 5xx, 429, a timeout and a   *)
(* network error are retried without the limiter, then raised.              *)
MayRetry(tries) == tries < MaxRetries
Post(c, outcome) ==
    LET tries == call[c].tries + 1 IN
    /\ call[c].pc = "sending"
    /\ posts' = posts + 1
    /\ call' = [call EXCEPT ![c].tries = tries,
                            ![c].pc = CASE outcome = "json" -> "answered"
                                        [] outcome = "text" -> "error"
                                        [] outcome = "4xx" -> "refused"
                                        [] OTHER -> IF MayRetry(tries) THEN "backoff" ELSE "error"]
    /\ UNCHANGED <<bucket, admitted>>

Backoff(c) ==
    /\ call[c].pc = "backoff"
    /\ call' = [call EXCEPT ![c].pc = "sending"]
    /\ UNCHANGED <<bucket, admitted, posts>>

(* Fault: the call stays where it was.                                    *)
KeepCall(c) == call' = call
EndCall(c) == call' = [call EXCEPT ![c] = NoCall]

(* A restart forgets the deque, the bucket and the calls; Redis keeps its   *)
(* counter.                                                                 *)
RestartLimits ==
    /\ memory' = <<>> /\ bucket' = [tokens |-> Capacity, last |-> now]
    /\ call' = [c \in Callers |-> NoCall]
    /\ UNCHANGED <<redisUp, counter, hits, outages, admitted, posts>>
-----------------------------------------------------------------------------
LimitsOK ==
    /\ now \in Nat /\ redisUp \in BOOLEAN /\ outages \in Nat
    /\ counter \in [count : Nat, expires : Nat]
    /\ memory \in Seq(0..now) /\ hits \in Seq(0..now)
    /\ bucket \in [tokens : 0..Capacity, last : 0..now]
    /\ call \in [Callers -> Call] /\ admitted \in Nat /\ posts \in Nat

(* Both limiters are kept whatever the order in which waiting calls wake,   *)
(* retries happen, the process restarts and Redis comes and goes:           *)

(* in no window are more requests let through than RateLimit, and that many *)
(* again for each outage of Redis and each restart;                         *)
WindowKept(restarts) ==
    \A t \in 0..now :
        Cardinality({h \in DOMAIN hits : hits[h] <= t /\ hits[h] + Window > t})
            <= RateLimit * (1 + outages + restarts)

(* the provider is called at most Capacity times (again after a restart)    *)
(* and twice per tick: the sleep that waits for a token counts for the next *)
(* refill too; and MaxRetries posts are made per call at most.              *)
CallsBounded(restarts) ==
    /\ admitted <= Capacity * (1 + restarts) + 2 * now
    /\ posts <= MaxRetries * admitted
=============================================================================
