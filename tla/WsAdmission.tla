------------------------------ MODULE WsAdmission ------------------------------
(***************************************************************************)
(* The admission of WebSocket clients by one gateway process               *)
(* (segyr_bot/gateway.py): the limits per minute and per IP of _allow_ip,  *)
(* the limit over all connections and the counters of _conn_counters, as   *)
(* the handlers ws_metrics and ws_logs use them.                           *)
(*                                                                         *)
(* The two handlers admit alike and differ in what no variable here keeps: *)
(* ws_metrics checks the origin and the token first; ws_logs fails on its  *)
(* undefined channel name as soon as it is open.  An action ends at an     *)
(* await of its handler.  _release_ip, called wherever an IP's place       *)
(* should be given back, is defined nowhere: the call raises, as the last  *)
(* thing its handler does, and the place is kept.                          *)
(***************************************************************************)
EXTENDS Integers, FiniteSets

CONSTANTS
    Sockets,         \* the connections clients attempt
    Ips,             \* the addresses they come from
    IpOf,            \* the address of each
    MaxConnections,  \* _MAX_WS_CONNECTIONS, 0 for no limit
    MaxPerIp,        \* _MAX_WS_PER_IP, 0 for no limit
    MaxPerMinute,    \* _MAX_WS_PER_MIN_IP, 0 for no limit
    Minute           \* the ticks of the clock in the 60 s of _prune_recent

\* _validate_gateway_config refuses to start with a negative limit.
ASSUME ConfigAssumption ==
    /\ IsFiniteSet(Sockets)
    /\ IpOf \in [Sockets -> Ips]
    /\ MaxConnections \in Nat
    /\ MaxPerIp \in Nat
    /\ MaxPerMinute \in Nat
    /\ Minute \in Nat

VARIABLES
    stage,     \* how far the handler of each socket has come
    recent,    \* _ip_recent: the sockets whose admission time is still listed
    since,     \* how long ago each socket was admitted, Minute + 1 and above as one
    ipConn,    \* _ip_conn
    active,    \* _conn_counters["active"]
    accepted,  \* _conn_counters["accepted"]
    rejected   \* _conn_counters["rejected"]

vars == <<stage, recent, since, ipConn, active, accepted, rejected>>

Stages == {"new", "refused", "refusedIp", "turningAway", "turnedAway", "vanished",
           "accepting", "lost", "open", "closing", "closed"}

Init ==
    /\ stage = [s \in Sockets |-> "new"]
    /\ recent = [i \in Ips |-> {}]
    /\ since = [s \in Sockets |-> Minute + 1]
    /\ ipConn = [i \in Ips |-> 0]
    /\ active = 0
    /\ accepted = 0
    /\ rejected = 0

In(stages) == {s \in Sockets : stage[s] \in stages}

Goto(s, next) == stage' = [stage EXCEPT ![s] = next]

-----------------------------------------------------------------------------

\* What is left of an IP's list of admission times once the old ones are gone.
Pruned(ip) == {s \in recent[ip] : since[s] <= Minute}

Reached(limit, n) == limit # 0 /\ n >= limit

\* _allow_ip lets the IP in: both of its limits leave room for one more.
Allowed(ip) ==
    /\ ~Reached(MaxPerMinute, Cardinality(Pruned(ip)))
    /\ ~Reached(MaxPerIp, ipConn[ip])

\* _allow_ip writes down the admission of a socket.
TakePlace(s) ==
    /\ recent' = [recent EXCEPT ![IpOf[s]] = Pruned(IpOf[s]) \cup {s}]
    /\ ipConn' = [ipConn EXCEPT ![IpOf[s]] = @ + 1]
    /\ since' = [since EXCEPT ![s] = 0]

\* A client without the token, or from a page that is not allowed (ws_metrics).
RefuseStranger(s) ==
    /\ stage[s] = "new"
    /\ Goto(s, "refused")
    /\ UNCHANGED <<recent, since, ipConn, active, accepted, rejected>>

\* mutation: the place is taken before the limits are looked at.
RefuseIpTaking(s) ==
    /\ stage[s] = "new"
    /\ ~Allowed(IpOf[s])
    /\ Goto(s, "refusedIp")
    /\ TakePlace(s)
    /\ rejected' = rejected + 1
    /\ UNCHANGED <<active, accepted>>

\* A client whose IP is over one of its limits.
RefuseIp(s) ==
    /\ stage[s] = "new"
    /\ ~Allowed(IpOf[s])
    /\ Goto(s, "refusedIp")
    /\ recent' = [recent EXCEPT ![IpOf[s]] = Pruned(IpOf[s])]
    /\ rejected' = rejected + 1
    /\ UNCHANGED <<since, ipConn, active, accepted>>

\* A client whose IP has a place, but the gateway has none: it is being told.
TurnAway(s) ==
    /\ stage[s] = "new"
    /\ Allowed(IpOf[s])
    /\ Reached(MaxConnections, active)
    /\ TakePlace(s)
    /\ Goto(s, "turningAway")
    /\ UNCHANGED <<active, accepted, rejected>>

\* It has been told, and counts as rejected; or it was gone already, close
\* raised, and it counts as nothing.
EndTurnAway(s) ==
    /\ stage[s] = "turningAway"
    /\ \/ Goto(s, "turnedAway") /\ rejected' = rejected + 1
       \/ Goto(s, "vanished") /\ UNCHANGED rejected
    /\ UNCHANGED <<recent, since, ipConn, active, accepted>>

\* A client that gets in: it is counted before the handshake is awaited.
Connect(s) ==
    /\ stage[s] = "new"
    /\ Allowed(IpOf[s])
    /\ ~Reached(MaxConnections, active)
    /\ TakePlace(s)
    /\ active' = active + 1
    /\ accepted' = accepted + 1
    /\ Goto(s, "accepting")
    /\ UNCHANGED rejected

\* ws.accept returns, or raises outside every try: nothing undoes Connect then.
Accept(s) ==
    /\ stage[s] = "accepting"
    /\ Goto(s, "open") \/ Goto(s, "lost")
    /\ UNCHANGED <<recent, since, ipConn, active, accepted, rejected>>

\* mutation: the idle limit counts the client out, and the finally block again.
LeaveCounted(s) ==
    /\ stage[s] = "open"
    /\ Goto(s, "closing")
    /\ active' = IF active = 0 THEN 0 ELSE active - 1
    /\ UNCHANGED <<recent, since, ipConn, accepted, rejected>>

\* The serving loop ends: the client left or fell silent, or something raised.
Leave(s) ==
    /\ stage[s] = "open"
    /\ Goto(s, "closing")
    /\ UNCHANGED <<recent, since, ipConn, active, accepted, rejected>>

\* The finally block, once the socket is closed.
Close(s) ==
    /\ stage[s] = "closing"
    /\ Goto(s, "closed")
    /\ active' = IF active = 0 THEN 0 ELSE active - 1
    /\ UNCHANGED <<recent, since, ipConn, accepted, rejected>>

\* The wall clock, which is assumed never to be set back.
Tick ==
    /\ \E s \in Sockets : since[s] <= Minute
    /\ since' = [s \in Sockets |-> IF since[s] <= Minute THEN since[s] + 1 ELSE since[s]]
    /\ UNCHANGED <<stage, recent, ipConn, active, accepted, rejected>>

Handler(s) ==
    \/ RefuseStranger(s) \/ RefuseIp(s) \/ TurnAway(s) \/ EndTurnAway(s)
    \/ Connect(s) \/ Accept(s) \/ Leave(s) \/ Close(s)

Next == Tick \/ \E s \in Sockets : Handler(s)

Spec == Init /\ [][Next]_vars

-----------------------------------------------------------------------------

\* Each variable stays in its domain; the counters count, so they are not negative.
TypeOK ==
    /\ stage \in [Sockets -> Stages]
    /\ recent \in [Ips -> SUBSET Sockets]
    /\ since \in [Sockets -> 0 .. Minute + 1]
    /\ ipConn \in [Ips -> Nat]
    /\ active \in Nat /\ accepted \in Nat /\ rejected \in Nat

\* The sockets the gateway holds, those still in their handshake included.
Held == {"accepting", "open", "closing"}

Within(limit, sockets) == limit # 0 => Cardinality(sockets) <= limit

\* The three limits hold of the sockets themselves and not just of the counters
\* that stand for them: never more held at once than the gateway's limit, never
\* more from one IP than its own, and never more admitted from one IP in any
\* 60 s than its limit per minute, whatever handlers wait in between.
LimitsHold ==
    /\ Within(MaxConnections, In(Held))
    /\ \A i \in Ips :
         /\ Within(MaxPerIp, {s \in In(Held) : IpOf[s] = i})
         /\ Within(MaxPerMinute, {s \in Sockets : IpOf[s] = i /\ since[s] <= Minute})

\* What the counters tell the dashboard, in terms of sockets. active is the
\* number held and of those whose handshake failed, for which nothing counts
\* down; an IP's place is kept by every socket it ever had admitted, the ones
\* long closed and the ones turned away included (_release_ip is not defined).
CountersTell ==
    /\ active = Cardinality(In(Held \cup {"lost"}))
    /\ accepted = Cardinality(In(Held \cup {"lost", "closed"}))
    /\ rejected = Cardinality(In({"refusedIp", "turnedAway"}))
    /\ \A i \in Ips :
         ipConn[i] = Cardinality({s \in Sockets :
                        IpOf[s] = i /\ stage[s] \notin {"new", "refused", "refusedIp"}})
=============================================================================
