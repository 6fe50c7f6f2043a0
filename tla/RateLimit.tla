------------------------------- MODULE RateLimit -------------------------------
(***************************************************************************)
(* The two rate limiters over Redis: RateLimiter.allow, which POST         *)
(* /message of the gateway awaits (core/utils/rate_limit.py,               *)
(* core/redis/client.py), and GlobalRateLimitMiddleware of the API         *)
(* (api/middleware/security.py).  Each counts a request by INCR on a key   *)
(* of its caller's identity and lets the key expire after a window, which  *)
(* whoever made it 1 asks for by EXPIRE.  The two commands run in a thread,*)
(* the job; the request waits for its job.  The gateway gives up waiting   *)
(* after a second and starts another job, up to three, while the first one *)
(* may still run.  Requests come to any of several processes.              *)
(*                                                                         *)
(* One identity and one limiter is modelled; limiter says which.  The key  *)
(* goes through lives: it is made by an INCR and ends when it expires or,  *)
(* for the API, whose key names the window, when the next window begins.   *)
(* The limiter in memory that RateLimiter falls back to is used only when  *)
(* core.redis.client cannot be imported (rate_limit.py:9-12), and left out.*)
(***************************************************************************)
EXTENDS Integers, FiniteSets

CONSTANTS
    Requests,     \* the requests of the identity
    MaxRequests,  \* requests per window: rate_limit_max_requests, or the API's
    MaxTries,     \* jobs per request of the gateway, 3 in redis_incr
    FailClosed    \* settings.global_rate_limit_fail_closed

\* The API takes no limit below 1, nor does a sensible gateway.
ASSUME LimitAssumption ==
    /\ IsFiniteSet(Requests)
    /\ MaxRequests \in Nat \ {0}
    /\ MaxTries \in Nat \ {0}
    /\ FailClosed \in BOOLEAN

VARIABLES
    limiter,  \* "gateway" or "api"
    count,    \* the value of the key, 0 when there is none
    expires,  \* the key has an expiry
    life,     \* how many lives of the key have ended
    orphan,   \* the job that made the key did not get to give it an expiry
    request,  \* where each request is
    try,      \* which of its jobs it waits for
    job,      \* where each job of each request is
    drawn     \* what a job's INCR returned, and in which life of the key

rateVars == <<limiter, count, expires, life, orphan, request, try, job, drawn>>

key == <<count, expires, life, orphan>>

Tries == 1 .. MaxTries

TriesLeft(r) == limiter = "gateway" /\ try[r] < MaxTries

RateInit ==
    /\ limiter \in {"gateway", "api"}
    /\ count = 0
    /\ expires = FALSE
    /\ life = 0
    /\ orphan = FALSE
    /\ request = [r \in Requests |-> "new"]
    /\ try = [r \in Requests |-> 1]
    /\ job = [r \in Requests |-> [n \in Tries |-> "none"]]
    /\ drawn = [r \in Requests |-> [n \in Tries |-> [life |-> 0, value |-> 0]]]

Answer(r, how) == request' = [request EXCEPT ![r] = how]
JobGoes(r, n, where) == job' = [job EXCEPT ![r][n] = where]

-----------------------------------------------------------------------------

\* A request that no limiter is asked about: it is malformed, the inbound queue
\* is full, the path is not protected.  Or the breaker of Redis is open, and the
\* gateway refuses it without a job.
Skip(r) ==
    /\ request[r] = "new"
    /\ Answer(r, "skipped")
    /\ UNCHANGED <<limiter, key, try, job, drawn>>

\* A request whose first job is handed to a thread.
Arrive(r) ==
    /\ request[r] = "new"
    /\ Answer(r, "waiting")
    /\ JobGoes(r, 1, "queued")
    /\ UNCHANGED <<limiter, key, try, drawn>>

\* How a job ends that has counted.  The API's asks for the time the key has left,
\* which may fail like any command.
HowItEnds == IF limiter = "api" THEN {"done", "failed"} ELSE {"done"}

\* mutation: the job reads the counter before it raises it.
IncrAfterReading(r, n) ==
    /\ job[r][n] = "queued"
    /\ count' = count + 1
    /\ drawn' = [drawn EXCEPT ![r][n] = [life |-> life, value |-> count]]
    /\ \E how \in IF count = 0 THEN {"expiring"} ELSE HowItEnds : JobGoes(r, n, how)
    /\ UNCHANGED <<limiter, expires, life, orphan, request, try>>

\* mutation: the expiry is asked for by the second request of a window.
IncrExpiresLate(r, n) ==
    /\ job[r][n] = "queued"
    /\ count' = count + 1
    /\ drawn' = [drawn EXCEPT ![r][n] = [life |-> life, value |-> count + 1]]
    /\ \E how \in IF count = 1 THEN {"expiring"} ELSE HowItEnds : JobGoes(r, n, how)
    /\ UNCHANGED <<limiter, expires, life, orphan, request, try>>

\* The job's INCR.  If it made the key, EXPIRE comes next.
Incr(r, n) ==
    /\ job[r][n] = "queued"
    /\ count' = count + 1
    /\ drawn' = [drawn EXCEPT ![r][n] = [life |-> life, value |-> count + 1]]
    /\ \E how \in IF count = 0 THEN {"expiring"} ELSE HowItEnds : JobGoes(r, n, how)
    /\ UNCHANGED <<limiter, expires, life, orphan, request, try>>

\* Redis fails the job's INCR, or its reply is lost after it was carried out.
IncrFails(r, n) ==
    /\ job[r][n] = "queued"
    /\ JobGoes(r, n, "failed")
    /\ \/ UNCHANGED <<count, orphan>>
       \/ /\ count' = count + 1
          /\ orphan' = (orphan \/ count = 0)
    /\ UNCHANGED <<limiter, expires, life, request, try, drawn>>

\* The job's EXPIRE, on the key it made.
Expire(r, n) ==
    /\ job[r][n] = "expiring"
    /\ \E how \in HowItEnds : JobGoes(r, n, how)
    /\ expires' = (expires \/ drawn[r][n].life = life)
    /\ UNCHANGED <<limiter, count, life, orphan, request, try, drawn>>

ExpireFails(r, n) ==
    /\ job[r][n] = "expiring"
    /\ JobGoes(r, n, "failed")
    /\ orphan' = (orphan \/ drawn[r][n].life = life)
    /\ UNCHANGED <<limiter, count, expires, life, request, try, drawn>>

\* The job the request waits for is done: let through up to the limit.
Decide(r) ==
    /\ request[r] = "waiting"
    /\ job[r][try[r]] = "done"
    /\ Answer(r, IF drawn[r][try[r]].value <= MaxRequests THEN "allowed" ELSE "refused")
    /\ UNCHANGED <<limiter, key, try, job, drawn>>

\* What becomes of a request that gets no number.  The gateway refuses it.  The API
\* lets it through, unless it is configured to refuse and it was Redis that failed:
\* after any other exception it is let through all the same.
Unnumbered ==
    {how \in {"refused", "unlimited"} :
        /\ how = "refused" => limiter = "gateway" \/ FailClosed
        /\ how = "unlimited" => limiter = "api"}

\* The request gives up a job, and is tried again while the gateway has tries left.
GiveUp(r) ==
    IF TriesLeft(r)
    THEN /\ try' = [try EXCEPT ![r] = @ + 1]
         /\ job' = [job EXCEPT ![r][try[r] + 1] = "queued"]
         /\ UNCHANGED request
    ELSE /\ \E how \in Unnumbered : Answer(r, how)
         /\ UNCHANGED <<try, job>>

JobFailed(r) ==
    /\ request[r] = "waiting"
    /\ job[r][try[r]] = "failed"
    /\ GiveUp(r)
    /\ UNCHANGED <<limiter, key, drawn>>

\* The gateway's second is over.  The job's thread goes on by itself.
TimeOut(r) ==
    /\ request[r] = "waiting"
    /\ limiter = "gateway"
    /\ job[r][try[r]] \in {"queued", "expiring"}
    /\ GiveUp(r)
    /\ UNCHANGED <<limiter, key, drawn>>

\* A job that no thread has begun is withdrawn with the wait for it.
Withdraw(r, n) ==
    /\ job[r][n] = "queued"
    /\ n < try[r] \/ request[r] # "waiting"
    /\ JobGoes(r, n, "none")
    /\ UNCHANGED <<limiter, key, request, try, drawn>>

\* The process dies, with the request and its jobs.
Die(r) ==
    /\ request[r] = "waiting"
    /\ Answer(r, "dead")
    /\ job' = [job EXCEPT ![r] = [n \in Tries |-> "none"]]
    /\ orphan' = (orphan \/ \E n \in Tries : job[r][n] = "expiring" /\ drawn[r][n].life = life)
    /\ UNCHANGED <<limiter, count, expires, life, try, drawn>>

\* The key's life ends.
NewLife ==
    /\ count' = 0
    /\ expires' = FALSE
    /\ orphan' = FALSE
    /\ life' = life + 1
    /\ UNCHANGED <<limiter, request, try, job, drawn>>

\* The expiry that was asked for comes.
Expired == count > 0 /\ expires /\ NewLife

\* The next window of the API's limiter: its requests use another key.  (A job that
\* named its key before and counts after it still counts the old one.  Here it counts
\* the new one, where it takes a number that is nobody else's as well.)
NextWindow == limiter = "api" /\ count > 0 /\ NewLife

Job(r, n) == Incr(r, n) \/ IncrFails(r, n) \/ Expire(r, n) \/ ExpireFails(r, n) \/ Withdraw(r, n)

RequestStep(r) ==
    Skip(r) \/ Arrive(r) \/ Decide(r) \/ JobFailed(r) \/ TimeOut(r) \/ Die(r)

RateNext ==
    \/ \E r \in Requests : RequestStep(r) \/ \E n \in Tries : Job(r, n)
    \/ Expired \/ NextWindow

RateSpec == RateInit /\ [][RateNext]_rateVars

-----------------------------------------------------------------------------

RateTypeOK ==
    /\ limiter \in {"gateway", "api"}
    /\ count \in Nat
    /\ expires \in BOOLEAN
    /\ life \in Nat
    /\ orphan \in BOOLEAN
    /\ request \in [Requests -> {"new", "skipped", "waiting", "allowed", "refused",
                                 "unlimited", "dead"}]
    /\ try \in [Requests -> Tries]
    /\ job \in [Requests -> [Tries -> {"none", "queued", "expiring", "done", "failed"}]]
    /\ drawn \in [Requests -> [Tries -> [life : Nat, value : Nat]]]

\* The requests that were let through by a number of one life of the key.
AllowedIn(l) ==
    {r \in Requests : request[r] = "allowed" /\ drawn[r][try[r]].life = l}

\* In one window a limiter lets no more requests through by their number than its
\* limit, whatever processes they come to, and whatever is retried, late or killed: a
\* request is let through by a number nobody else has.  Without a number the gateway
\* lets nobody through, and the API only a request whose own job failed: it is
\* fail-open by default (security.py:69-80), and these come on top of the limit.
AtMostMax ==
    /\ \A l \in 0 .. life : Cardinality(AllowedIn(l)) <= MaxRequests
    /\ \A r \in Requests :
         request[r] = "unlimited" => limiter = "api" /\ job[r][try[r]] = "failed"

\* A key without an expiry, which would refuse its identity for ever once it is at
\* the limit, has a job that is about to give it one, or the job that made it
\* failed or died between its two commands.
ExpiryIsComing ==
    count > 0 /\ ~expires =>
        \/ orphan
        \/ \E r \in Requests, n \in Tries :
             job[r][n] = "expiring" /\ drawn[r][n].life = life
=============================================================================
