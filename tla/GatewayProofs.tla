----------------------------- MODULE GatewayProofs -----------------------------
(***************************************************************************)
(* Proofs about the two things that let a caller into the gateway, which   *)
(* share no state.  Of WsAdmission: its type invariant, CountersTell (what *)
(* the counters of the gateway say of the sockets) and LimitsHold (the     *)
(* limits hold of the sockets), for any number of clients, IPs and any     *)
(* limits.  Of RateLimit: its type invariant, AtMostMax (the numbers of a  *)
(* window let no more requests through than the limit, and without a       *)
(* number only the API lets through whom Redis failed) and ExpiryIsComing  *)
(* (a key without an expiry will get one, or its job was lost), for any    *)
(* number of requests, retries and any limit.                              *)
(***************************************************************************)
EXTENDS WsAdmission, RateLimit, FiniteSetTheorems, TLAPS

\* The sockets from the IPs of J whose stage is in X.
At(J, X) == {u \in Sockets : IpOf[u] \in J /\ stage[u] \in X}

Counted == {"accepting", "open", "closing", "lost"}
Placed == {"turningAway", "turnedAway", "vanished", "accepting", "lost", "open",
           "closing", "closed"}

\* CountersTell over At.
Numbers ==
    /\ active = Cardinality(At(Ips, Counted))
    /\ accepted = Cardinality(At(Ips, Counted \cup {"closed"}))
    /\ rejected = Cardinality(At(Ips, {"refusedIp", "turnedAway"}))
    /\ \A i \in Ips : ipConn[i] = Cardinality(At({i}, Placed))

\* What the guards keep of the counters.
Bounded ==
    /\ MaxConnections # 0 => active <= MaxConnections
    /\ MaxPerIp # 0 => \A i \in Ips : ipConn[i] <= MaxPerIp

\* Every admission of the last minute is still listed, in a list never over its limit.
Listed ==
    /\ \A s \in Sockets : since[s] <= Minute => s \in recent[IpOf[s]]
    /\ MaxPerMinute # 0 => \A i \in Ips : Cardinality(recent[i]) <= MaxPerMinute

IInv == TypeOK /\ Numbers /\ Bounded /\ Listed

-----------------------------------------------------------------------------

\* Each set that is counted is finite.
LEMMA Countable ==
    ASSUME NEW J, NEW X
    PROVE  /\ IsFiniteSet(At(J, X))
           /\ Cardinality(At(J, X)) \in Nat
<1>1. At(J, X) \subseteq Sockets
  BY DEF At
<1>2. IsFiniteSet(At(J, X))
  BY <1>1, ConfigAssumption, FS_Subset
<1> QED
  BY <1>2, FS_CardinalityType

\* A socket that changes its stage is counted in, counted out, or neither.
LEMMA Moves ==
    ASSUME NEW s \in Sockets, NEW b, TypeOK, Goto(s, b), NEW J, NEW X
    PROVE  /\ (IpOf[s] \in J /\ b \in X /\ stage[s] \notin X) =>
                 Cardinality(At(J, X)') = Cardinality(At(J, X)) + 1
           /\ (IpOf[s] \in J /\ b \notin X /\ stage[s] \in X) =>
                 Cardinality(At(J, X)') = Cardinality(At(J, X)) - 1
           /\ (IpOf[s] \notin J \/ (b \in X <=> stage[s] \in X)) =>
                 At(J, X)' = At(J, X)
<1> USE DEF Goto
<1>0. /\ stage \in [Sockets -> Stages]
      /\ stage' = [stage EXCEPT ![s] = b]
  BY DEF TypeOK
<1>1. ASSUME IpOf[s] \in J, b \in X, stage[s] \notin X
      PROVE  Cardinality(At(J, X)') = Cardinality(At(J, X)) + 1
  <2>1. At(J, X)' = At(J, X) \cup {s}
    BY <1>0, <1>1 DEF At
  <2>2. s \notin At(J, X)
    BY <1>1 DEF At
  <2> QED
    BY <2>1, <2>2, Countable, FS_AddElement
<1>2. ASSUME IpOf[s] \in J, b \notin X, stage[s] \in X
      PROVE  Cardinality(At(J, X)') = Cardinality(At(J, X)) - 1
  <2>1. At(J, X)' = At(J, X) \ {s}
    BY <1>0, <1>2 DEF At
  <2>2. s \in At(J, X)
    BY <1>2 DEF At
  <2> QED
    BY <2>1, <2>2, Countable, FS_RemoveElement
<1>3. ASSUME IpOf[s] \notin J \/ (b \in X <=> stage[s] \in X)
      PROVE  At(J, X)' = At(J, X)
  BY <1>0, <1>3 DEF At
<1> QED
  BY <1>1, <1>2, <1>3

\* A list that is pruned is no longer than it was, and one more makes it at most
\* one longer.
LEMMA Pruning ==
    ASSUME TypeOK, NEW s \in Sockets, NEW i \in Ips
    PROVE  /\ Pruned(i) \subseteq recent[i]
           /\ Cardinality(Pruned(i)) \in Nat
           /\ Cardinality(recent[i]) \in Nat
           /\ Cardinality(Pruned(i)) <= Cardinality(recent[i])
           /\ Cardinality(Pruned(i) \cup {s}) \in Nat
           /\ Cardinality(Pruned(i) \cup {s}) <= Cardinality(Pruned(i)) + 1
<1>1. recent[i] \subseteq Sockets /\ Pruned(i) \subseteq recent[i]
  BY DEF TypeOK, Pruned
<1>2. IsFiniteSet(recent[i]) /\ IsFiniteSet(Pruned(i))
  BY <1>1, ConfigAssumption, FS_Subset
<1>3. Cardinality(Pruned(i)) \in Nat /\ Cardinality(recent[i]) \in Nat
  BY <1>2, FS_CardinalityType
<1>4. Cardinality(Pruned(i)) <= Cardinality(recent[i])
  BY <1>1, <1>2, FS_Subset
<1>5. \/ Cardinality(Pruned(i) \cup {s}) = Cardinality(Pruned(i)) + 1
      \/ Cardinality(Pruned(i) \cup {s}) = Cardinality(Pruned(i))
  BY <1>2, FS_AddElement
<1> QED
  BY <1>1, <1>3, <1>4, <1>5

-----------------------------------------------------------------------------

LEMMA InitEstablishes == Init => IInv
<1> SUFFICES ASSUME Init PROVE IInv
  OBVIOUS
<1>1. TypeOK
  BY ConfigAssumption DEF Init, TypeOK, Stages
<1>2. \A J, X : "new" \notin X => Cardinality(At(J, X)) = 0
  <2> SUFFICES ASSUME NEW J, NEW X, "new" \notin X
               PROVE  Cardinality(At(J, X)) = 0
    OBVIOUS
  <2>1. At(J, X) = {}
    BY DEF Init, At
  <2> QED
    BY <2>1, FS_EmptySet
<1>3. Numbers
  <2>1. /\ "new" \notin Counted
        /\ "new" \notin Counted \cup {"closed"}
        /\ "new" \notin {"refusedIp", "turnedAway"}
        /\ "new" \notin Placed
    BY DEF Counted, Placed
  <2>2. /\ Cardinality(At(Ips, Counted)) = 0
        /\ Cardinality(At(Ips, Counted \cup {"closed"})) = 0
        /\ Cardinality(At(Ips, {"refusedIp", "turnedAway"})) = 0
        /\ \A i \in Ips : Cardinality(At({i}, Placed)) = 0
    BY <2>1, <1>2
  <2> QED
    BY <2>2 DEF Init, Numbers
<1>4. Bounded
  BY ConfigAssumption DEF Init, Bounded
<1>5. Listed
  <2>1. \A s \in Sockets : ~(since[s] <= Minute)
    BY ConfigAssumption DEF Init
  <2>2. \A i \in Ips : Cardinality(recent[i]) = 0
    BY FS_EmptySet DEF Init
  <2> QED
    BY <2>1, <2>2, ConfigAssumption DEF Listed
<1> QED
  BY <1>1, <1>3, <1>4, <1>5 DEF IInv

\* A step that changes a socket's stage and none of the numbers, the sets counted
\* by them being the same.
LEMMA NumbersSame ==
    ASSUME IInv, NEW s \in Sockets, NEW b, Goto(s, b),
           stage[s] \in Counted <=> b \in Counted,
           stage[s] \in Counted \cup {"closed"} <=> b \in Counted \cup {"closed"},
           stage[s] \in {"refusedIp", "turnedAway"} <=> b \in {"refusedIp", "turnedAway"},
           stage[s] \in Placed <=> b \in Placed,
           UNCHANGED <<ipConn, active, accepted, rejected>>
    PROVE  Numbers'
<1>0. TypeOK /\ Numbers
  BY DEF IInv
<1>1. At(Ips, Counted)' = At(Ips, Counted)
  BY <1>0, Moves
<1>2. At(Ips, Counted \cup {"closed"})' = At(Ips, Counted \cup {"closed"})
  BY <1>0, Moves
<1>3. At(Ips, {"refusedIp", "turnedAway"})' = At(Ips, {"refusedIp", "turnedAway"})
  BY <1>0, Moves
<1>4. \A i \in Ips : At({i}, Placed)' = At({i}, Placed)
  BY <1>0, Moves
<1>5. Numbers' <=> /\ active = Cardinality(At(Ips, Counted)')
                   /\ accepted = Cardinality(At(Ips, Counted \cup {"closed"})')
                   /\ rejected = Cardinality(At(Ips, {"refusedIp", "turnedAway"})')
                   /\ \A i \in Ips : ipConn[i] = Cardinality(At({i}, Placed)')
  BY DEF Numbers
<1> QED
  BY <1>0, <1>1, <1>2, <1>3, <1>4, <1>5 DEF Numbers

\* Being let in keeps the per-minute list right and the IP within its limit.
LEMMA PlaceTaken ==
    ASSUME IInv, NEW s \in Sockets, Allowed(IpOf[s]), TakePlace(s)
    PROVE  /\ Listed'
           /\ MaxPerIp # 0 => \A i \in Ips : ipConn'[i] <= MaxPerIp
           /\ recent' \in [Ips -> SUBSET Sockets]
           /\ since' \in [Sockets -> 0 .. Minute + 1]
           /\ ipConn' \in [Ips -> Nat]
<1> DEFINE ip == IpOf[s]
<1>0. TypeOK /\ Bounded /\ Listed
  BY DEF IInv
<1>1. ip \in Ips
  BY ConfigAssumption
<1>2. /\ Pruned(ip) \subseteq recent[ip]
      /\ Cardinality(Pruned(ip)) \in Nat
      /\ Cardinality(Pruned(ip) \cup {s}) \in Nat
      /\ Cardinality(Pruned(ip) \cup {s}) <= Cardinality(Pruned(ip)) + 1
  BY <1>0, <1>1, Pruning
<1>3. /\ recent' = [recent EXCEPT ![ip] = Pruned(ip) \cup {s}]
      /\ ipConn' = [ipConn EXCEPT ![ip] = @ + 1]
      /\ since' = [since EXCEPT ![s] = 0]
  BY DEF TakePlace
<1>4. /\ recent \in [Ips -> SUBSET Sockets]
      /\ since \in [Sockets -> 0 .. Minute + 1]
      /\ ipConn \in [Ips -> Nat]
  BY <1>0 DEF TypeOK
<1>5. recent' \in [Ips -> SUBSET Sockets]
  BY <1>1, <1>2, <1>3, <1>4
<1>6. since' \in [Sockets -> 0 .. Minute + 1]
  BY <1>3, <1>4, ConfigAssumption
<1>7. ipConn' \in [Ips -> Nat]
  BY <1>1, <1>3, <1>4
<1>8. ASSUME MaxPerIp # 0, NEW i \in Ips
      PROVE  ipConn'[i] <= MaxPerIp
  <2>1. ipConn[ip] < MaxPerIp
    BY <1>1, <1>4, <1>8, ConfigAssumption DEF Allowed, Reached
  <2>2. ipConn[i] <= MaxPerIp
    BY <1>0, <1>8 DEF Bounded
  <2> QED
    BY <2>1, <2>2, <1>1, <1>3, <1>4, ConfigAssumption
<1>9. ASSUME NEW u \in Sockets, since'[u] <= Minute
      PROVE  u \in recent'[IpOf[u]]
  <2>1. CASE u = s
    BY <2>1, <1>1, <1>3, <1>4
  <2>2. CASE u # s
    <3>1. since[u] <= Minute
      BY <2>2, <1>3, <1>4, <1>9
    <3>2. u \in recent[IpOf[u]]
      BY <3>1, <1>0 DEF Listed
    <3>3. IpOf[u] = ip => u \in Pruned(ip)
      BY <3>1, <3>2 DEF Pruned
    <3>4. IpOf[u] \in Ips
      BY ConfigAssumption
    <3> QED
      BY <3>2, <3>3, <3>4, <1>3, <1>4
  <2> QED
    BY <2>1, <2>2
<1>10. ASSUME MaxPerMinute # 0, NEW i \in Ips
       PROVE  Cardinality(recent'[i]) <= MaxPerMinute
  <2>1. CASE i = ip
    <3>1. Cardinality(Pruned(ip)) < MaxPerMinute
      BY <1>2, <1>10, ConfigAssumption DEF Allowed, Reached
    <3>2. recent'[i] = Pruned(ip) \cup {s}
      BY <2>1, <1>1, <1>3, <1>4
    <3> QED
      BY <3>1, <3>2, <1>2, ConfigAssumption
  <2>2. CASE i # ip
    <3>1. recent'[i] = recent[i]
      BY <2>2, <1>3, <1>4
    <3> QED
      BY <3>1, <1>0, <1>10 DEF Listed
  <2> QED
    BY <2>1, <2>2
<1>11. Listed'
  BY <1>9, <1>10 DEF Listed
<1> QED
  BY <1>5, <1>6, <1>7, <1>8, <1>11

\* RefuseIp only prunes: the list stays right.
LEMMA PrunedOnly ==
    ASSUME IInv, NEW i \in Ips, recent' = [recent EXCEPT ![i] = Pruned(i)],
           UNCHANGED since
    PROVE  Listed' /\ recent' \in [Ips -> SUBSET Sockets]
<1>0. TypeOK /\ Listed
  BY DEF IInv
<1>1. recent \in [Ips -> SUBSET Sockets] /\ since \in [Sockets -> 0 .. Minute + 1]
  BY <1>0 DEF TypeOK
<1>2. Pruned(i) \subseteq recent[i]
  BY DEF Pruned
<1>3. recent' \in [Ips -> SUBSET Sockets]
  BY <1>1, <1>2
<1>4. ASSUME NEW u \in Sockets, since'[u] <= Minute
      PROVE  u \in recent'[IpOf[u]]
  <2>1. u \in recent[IpOf[u]] /\ since[u] <= Minute
    BY <1>0, <1>4 DEF Listed
  <2>2. IpOf[u] = i => u \in Pruned(i)
    BY <2>1 DEF Pruned
  <2>3. IpOf[u] \in Ips
    BY ConfigAssumption
  <2> QED
    BY <2>1, <2>2, <2>3, <1>1
<1>5. ASSUME MaxPerMinute # 0, NEW j \in Ips
      PROVE  Cardinality(recent'[j]) <= MaxPerMinute
  <2>1. Cardinality(recent[j]) <= MaxPerMinute
    BY <1>0, <1>5 DEF Listed
  <2>2. CASE j = i
    <3>1. recent'[j] = Pruned(i)
      BY <2>2, <1>1
    <3>2. recent[i] \subseteq Sockets
      BY <1>1
    <3>3. IsFiniteSet(recent[i])
      BY <3>2, ConfigAssumption, FS_Subset
    <3>4. /\ IsFiniteSet(Pruned(i))
          /\ Cardinality(Pruned(i)) <= Cardinality(recent[i])
      BY <3>3, <1>2, FS_Subset
    <3>5. Cardinality(Pruned(i)) \in Nat /\ Cardinality(recent[i]) \in Nat
      BY <3>3, <3>4, FS_CardinalityType
    <3> QED
      BY <3>1, <3>4, <3>5, <2>1, <2>2, ConfigAssumption
  <2>3. CASE j # i
    <3>1. recent'[j] = recent[j]
      BY <2>3, <1>1
    <3> QED
      BY <3>1, <2>1
  <2> QED
    BY <2>2, <2>3
<1>6. Listed'
  BY <1>4, <1>5 DEF Listed
<1> QED
  BY <1>3, <1>6

-----------------------------------------------------------------------------

\* Each number after a step of s, from the sets it counts.
LEMMA NumbersPrime ==
    Numbers' <=> /\ active' = Cardinality(At(Ips, Counted)')
                 /\ accepted' = Cardinality(At(Ips, Counted \cup {"closed"})')
                 /\ rejected' = Cardinality(At(Ips, {"refusedIp", "turnedAway"})')
                 /\ \A i \in Ips : ipConn'[i] = Cardinality(At({i}, Placed)')
  BY DEF Numbers

\* The IP of a socket that takes its place has one more place taken.
LEMMA PlaceCounted ==
    ASSUME IInv, NEW s \in Sockets, NEW b, Goto(s, b), TakePlace(s),
           stage[s] \notin Placed, b \in Placed
    PROVE  \A i \in Ips : ipConn'[i] = Cardinality(At({i}, Placed)')
<1> SUFFICES ASSUME NEW i \in Ips
             PROVE  ipConn'[i] = Cardinality(At({i}, Placed)')
  OBVIOUS
<1>0. TypeOK /\ ipConn[i] = Cardinality(At({i}, Placed)) /\ ipConn \in [Ips -> Nat]
  BY DEF IInv, Numbers, TypeOK
<1>1. ipConn' = [ipConn EXCEPT ![IpOf[s]] = @ + 1]
  BY DEF TakePlace
<1>2. CASE IpOf[s] = i
  <2>1. Cardinality(At({i}, Placed)') = Cardinality(At({i}, Placed)) + 1
    BY <1>0, <1>2, Moves
  <2>2. ipConn'[i] = ipConn[i] + 1
    BY <1>0, <1>1, <1>2
  <2> QED
    BY <2>1, <2>2, <1>0
<1>3. CASE IpOf[s] # i
  <2>1. At({i}, Placed)' = At({i}, Placed)
    BY <1>0, <1>3, Moves
  <2>2. ipConn'[i] = ipConn[i]
    BY <1>0, <1>1, <1>3
  <2> QED
    BY <2>1, <2>2, <1>0
<1> QED
  BY <1>2, <1>3

\* A step that leaves the lists alone leaves them right.
LEMMA ListedSame ==
    ASSUME IInv, UNCHANGED <<recent, since>>
    PROVE  Listed'
  BY DEF IInv, Listed

\* One step of one socket's handler.
LEMMA HandlerPreserves ==
    ASSUME IInv, NEW s \in Sockets, Handler(s)
    PROVE  IInv'
<1>0. TypeOK /\ Numbers /\ Bounded /\ Listed
  BY DEF IInv
<1>a. IpOf[s] \in Ips
  BY ConfigAssumption
<1>b. /\ stage \in [Sockets -> Stages]
      /\ ipConn \in [Ips -> Nat]
      /\ active \in Nat /\ accepted \in Nat /\ rejected \in Nat
  BY <1>0 DEF TypeOK
<1>1. CASE RefuseStranger(s)
  <2>1. /\ Goto(s, "refused") /\ stage[s] = "new"
        /\ UNCHANGED <<recent, since, ipConn, active, accepted, rejected>>
    BY <1>1 DEF RefuseStranger
  <2>2. TypeOK'
    BY <2>1, <1>0 DEF TypeOK, Goto, Stages
  <2>3. Numbers'
    BY <2>1, NumbersSame DEF Counted, Placed
  <2>4. Bounded' /\ Listed'
    BY <2>1, <1>0, ListedSame DEF Bounded
  <2> QED
    BY <2>2, <2>3, <2>4 DEF IInv
<1>2. CASE RefuseIp(s)
  <2>1. /\ Goto(s, "refusedIp") /\ stage[s] = "new"
        /\ recent' = [recent EXCEPT ![IpOf[s]] = Pruned(IpOf[s])]
        /\ rejected' = rejected + 1
        /\ UNCHANGED <<since, ipConn, active, accepted>>
    BY <1>2 DEF RefuseIp
  <2>2. Listed' /\ recent' \in [Ips -> SUBSET Sockets]
    BY <2>1, <1>a, PrunedOnly
  <2>3. TypeOK'
    BY <2>1, <2>2, <1>0 DEF TypeOK, Goto, Stages
  <2>4. Numbers'
    <3>1. At(Ips, Counted)' = At(Ips, Counted)
      BY <2>1, <1>0, Moves DEF Counted
    <3>2. At(Ips, Counted \cup {"closed"})' = At(Ips, Counted \cup {"closed"})
      BY <2>1, <1>0, Moves DEF Counted
    <3>3. Cardinality(At(Ips, {"refusedIp", "turnedAway"})')
            = Cardinality(At(Ips, {"refusedIp", "turnedAway"})) + 1
      BY <2>1, <1>a, <1>0, Moves
    <3>4. \A i \in Ips : At({i}, Placed)' = At({i}, Placed)
      BY <2>1, <1>0, Moves DEF Placed
    <3> QED
      BY <3>1, <3>2, <3>3, <3>4, <2>1, <1>0, NumbersPrime DEF Numbers
  <2>5. Bounded'
    BY <2>1, <1>0 DEF Bounded
  <2> QED
    BY <2>2, <2>3, <2>4, <2>5 DEF IInv
<1>3. CASE TurnAway(s)
  <2>1. /\ Goto(s, "turningAway") /\ stage[s] = "new"
        /\ Allowed(IpOf[s]) /\ TakePlace(s)
        /\ UNCHANGED <<active, accepted, rejected>>
    BY <1>3 DEF TurnAway
  <2>2. /\ Listed'
        /\ MaxPerIp # 0 => \A i \in Ips : ipConn'[i] <= MaxPerIp
        /\ recent' \in [Ips -> SUBSET Sockets]
        /\ since' \in [Sockets -> 0 .. Minute + 1]
        /\ ipConn' \in [Ips -> Nat]
    BY <2>1, PlaceTaken
  <2>3. TypeOK'
    BY <2>1, <2>2, <1>0 DEF TypeOK, Goto, Stages
  <2>4. Numbers'
    <3>1. At(Ips, Counted)' = At(Ips, Counted)
      BY <2>1, <1>0, Moves DEF Counted
    <3>2. At(Ips, Counted \cup {"closed"})' = At(Ips, Counted \cup {"closed"})
      BY <2>1, <1>0, Moves DEF Counted
    <3>3. At(Ips, {"refusedIp", "turnedAway"})' = At(Ips, {"refusedIp", "turnedAway"})
      BY <2>1, <1>0, Moves
    <3>4. \A i \in Ips : ipConn'[i] = Cardinality(At({i}, Placed)')
      BY <2>1, PlaceCounted DEF Placed
    <3> QED
      BY <3>1, <3>2, <3>3, <3>4, <2>1, <1>0, NumbersPrime DEF Numbers
  <2>5. Bounded'
    BY <2>1, <2>2, <1>0 DEF Bounded
  <2> QED
    BY <2>2, <2>3, <2>4, <2>5 DEF IInv
<1>4. CASE EndTurnAway(s)
  <2>1. /\ stage[s] = "turningAway"
        /\ UNCHANGED <<recent, since, ipConn, active, accepted>>
    BY <1>4 DEF EndTurnAway
  <2>2. Bounded' /\ Listed'
    BY <2>1, <1>0, ListedSame DEF Bounded
  <2>3. CASE Goto(s, "vanished") /\ UNCHANGED rejected
    <3>1. TypeOK'
      BY <2>1, <2>3, <1>0 DEF TypeOK, Goto, Stages
    <3>2. Numbers'
      BY <2>1, <2>3, NumbersSame DEF Counted, Placed
    <3> QED
      BY <3>1, <3>2, <2>2 DEF IInv
  <2>4. CASE Goto(s, "turnedAway") /\ rejected' = rejected + 1
    <3>1. TypeOK'
      BY <2>1, <2>4, <1>0 DEF TypeOK, Goto, Stages
    <3>2. At(Ips, Counted)' = At(Ips, Counted)
      BY <2>1, <2>4, <1>0, Moves DEF Counted
    <3>3. At(Ips, Counted \cup {"closed"})' = At(Ips, Counted \cup {"closed"})
      BY <2>1, <2>4, <1>0, Moves DEF Counted
    <3>4. Cardinality(At(Ips, {"refusedIp", "turnedAway"})')
            = Cardinality(At(Ips, {"refusedIp", "turnedAway"})) + 1
      BY <2>1, <2>4, <1>a, <1>0, Moves
    <3>5. \A i \in Ips : At({i}, Placed)' = At({i}, Placed)
      BY <2>1, <2>4, <1>0, Moves DEF Placed
    <3>6. Numbers'
      BY <3>2, <3>3, <3>4, <3>5, <2>1, <2>4, <1>0, NumbersPrime DEF Numbers
    <3> QED
      BY <3>1, <3>6, <2>2 DEF IInv
  <2> QED
    BY <2>3, <2>4, <1>4 DEF EndTurnAway
<1>5. CASE Connect(s)
  <2>1. /\ Goto(s, "accepting") /\ stage[s] = "new"
        /\ Allowed(IpOf[s]) /\ TakePlace(s)
        /\ ~Reached(MaxConnections, active)
        /\ active' = active + 1 /\ accepted' = accepted + 1
        /\ UNCHANGED rejected
    BY <1>5 DEF Connect
  <2>2. /\ Listed'
        /\ MaxPerIp # 0 => \A i \in Ips : ipConn'[i] <= MaxPerIp
        /\ recent' \in [Ips -> SUBSET Sockets]
        /\ since' \in [Sockets -> 0 .. Minute + 1]
        /\ ipConn' \in [Ips -> Nat]
    BY <2>1, PlaceTaken
  <2>3. TypeOK'
    BY <2>1, <2>2, <1>0 DEF TypeOK, Goto, Stages
  <2>4. Numbers'
    <3>1. Cardinality(At(Ips, Counted)') = Cardinality(At(Ips, Counted)) + 1
      BY <2>1, <1>a, <1>0, Moves DEF Counted
    <3>2. Cardinality(At(Ips, Counted \cup {"closed"})')
            = Cardinality(At(Ips, Counted \cup {"closed"})) + 1
      BY <2>1, <1>a, <1>0, Moves DEF Counted
    <3>3. At(Ips, {"refusedIp", "turnedAway"})' = At(Ips, {"refusedIp", "turnedAway"})
      BY <2>1, <1>0, Moves
    <3>4. \A i \in Ips : ipConn'[i] = Cardinality(At({i}, Placed)')
      BY <2>1, PlaceCounted DEF Placed
    <3> QED
      BY <3>1, <3>2, <3>3, <3>4, <2>1, <1>0, NumbersPrime DEF Numbers
  <2>5. Bounded'
    <3>1. MaxConnections # 0 => active < MaxConnections
      BY <2>1, <1>b, ConfigAssumption DEF Reached
    <3> QED
      BY <3>1, <2>1, <2>2, <1>b, ConfigAssumption DEF Bounded
  <2> QED
    BY <2>2, <2>3, <2>4, <2>5 DEF IInv
<1>6. CASE Accept(s)
  <2>1. /\ stage[s] = "accepting"
        /\ UNCHANGED <<recent, since, ipConn, active, accepted, rejected>>
        /\ Goto(s, "open") \/ Goto(s, "lost")
    BY <1>6 DEF Accept
  <2>2. TypeOK'
    BY <2>1, <1>0 DEF TypeOK, Goto, Stages
  <2>3. Numbers'
    BY <2>1, NumbersSame DEF Counted, Placed
  <2>4. Bounded' /\ Listed'
    BY <2>1, <1>0, ListedSame DEF Bounded
  <2> QED
    BY <2>2, <2>3, <2>4 DEF IInv
<1>7. CASE Leave(s)
  <2>1. /\ stage[s] = "open" /\ Goto(s, "closing")
        /\ UNCHANGED <<recent, since, ipConn, active, accepted, rejected>>
    BY <1>7 DEF Leave
  <2>2. TypeOK'
    BY <2>1, <1>0 DEF TypeOK, Goto, Stages
  <2>3. Numbers'
    BY <2>1, NumbersSame DEF Counted, Placed
  <2>4. Bounded' /\ Listed'
    BY <2>1, <1>0, ListedSame DEF Bounded
  <2> QED
    BY <2>2, <2>3, <2>4 DEF IInv
<1>8. CASE Close(s)
  <2>1. /\ stage[s] = "closing" /\ Goto(s, "closed")
        /\ active' = IF active = 0 THEN 0 ELSE active - 1
        /\ UNCHANGED <<recent, since, ipConn, accepted, rejected>>
    BY <1>8 DEF Close
  <2>2. TypeOK'
    <3>1. active' \in Nat
      BY <2>1, <1>b
    <3> QED
      BY <3>1, <2>1, <1>0 DEF TypeOK, Goto, Stages
  <2>3. Numbers'
    <3>1. Cardinality(At(Ips, Counted)') = Cardinality(At(Ips, Counted)) - 1
      BY <2>1, <1>a, <1>0, Moves DEF Counted
    <3>2. At(Ips, Counted \cup {"closed"})' = At(Ips, Counted \cup {"closed"})
      BY <2>1, <1>0, Moves DEF Counted
    <3>3. At(Ips, {"refusedIp", "turnedAway"})' = At(Ips, {"refusedIp", "turnedAway"})
      BY <2>1, <1>0, Moves
    <3>4. \A i \in Ips : At({i}, Placed)' = At({i}, Placed)
      BY <2>1, <1>0, Moves DEF Placed
    <3>5. active # 0
      <4>1. s \in At(Ips, Counted)
        BY <2>1, <1>a DEF At, Counted
      <4>2. IsFiniteSet(At(Ips, Counted))
        BY Countable
      <4>3. Cardinality(At(Ips, Counted)) # 0
        BY <4>1, <4>2, FS_EmptySet
      <4> QED
        BY <4>3, <1>0 DEF Numbers
    <3> QED
      BY <3>1, <3>2, <3>3, <3>4, <3>5, <2>1, <1>0, NumbersPrime DEF Numbers
  <2>4. Bounded'
    BY <2>1, <1>0, <1>b, ConfigAssumption DEF Bounded
  <2>5. Listed'
    BY <2>1, ListedSame
  <2> QED
    BY <2>2, <2>3, <2>4, <2>5 DEF IInv
<1> QED
  BY <1>1, <1>2, <1>3, <1>4, <1>5, <1>6, <1>7, <1>8 DEF Handler

\* Every step of the gateway.
LEMMA StepPreserves == IInv /\ [Next]_vars => IInv'
<1> SUFFICES ASSUME IInv, [Next]_vars PROVE IInv'
  OBVIOUS
<1>0. TypeOK /\ Numbers /\ Bounded /\ Listed
  BY DEF IInv
<1>1. CASE Tick
  <2>1. /\ since' = [s \in Sockets |-> IF since[s] <= Minute THEN since[s] + 1 ELSE since[s]]
        /\ UNCHANGED <<stage, recent, ipConn, active, accepted, rejected>>
    BY <1>1 DEF Tick
  <2>2. since \in [Sockets -> 0 .. Minute + 1]
    BY <1>0 DEF TypeOK
  <2>3. since' \in [Sockets -> 0 .. Minute + 1]
    BY <2>1, <2>2, ConfigAssumption
  <2>4. TypeOK'
    BY <2>1, <2>3, <1>0 DEF TypeOK
  <2>5. Numbers' /\ Bounded'
    BY <2>1, <1>0 DEF Numbers, Bounded, At
  <2>6. \A s \in Sockets : since'[s] <= Minute => since[s] <= Minute
    BY <2>1, <2>2, ConfigAssumption
  <2>7. Listed'
    BY <2>1, <2>6, <1>0 DEF Listed
  <2> QED
    BY <2>4, <2>5, <2>7 DEF IInv
<1>2. CASE \E s \in Sockets : Handler(s)
  BY <1>2, HandlerPreserves
<1>3. CASE UNCHANGED vars
  BY <1>3 DEF IInv, TypeOK, Numbers, Bounded, Listed, At, vars
<1> QED
  BY <1>1, <1>2, <1>3 DEF Next

LEMMA Inductive == Spec => []IInv
  BY InitEstablishes, StepPreserves, PTL DEF Spec

\* What CountersTell counts is what Numbers counts.
LEMMA NumbersTell == TypeOK /\ Numbers => CountersTell
<1> SUFFICES ASSUME TypeOK, Numbers PROVE CountersTell
  OBVIOUS
<1>1. stage \in [Sockets -> Stages]
  BY DEF TypeOK
<1>2. /\ In(Held \cup {"lost"}) = At(Ips, Counted)
      /\ In(Held \cup {"lost", "closed"}) = At(Ips, Counted \cup {"closed"})
      /\ In({"refusedIp", "turnedAway"}) = At(Ips, {"refusedIp", "turnedAway"})
  BY <1>1, ConfigAssumption DEF In, At, Held, Counted
<1>3. ASSUME NEW i \in Ips
      PROVE  {s \in Sockets : IpOf[s] = i /\ stage[s] \notin {"new", "refused", "refusedIp"}}
               = At({i}, Placed)
  BY <1>1 DEF At, Placed, Stages
<1> QED
  BY <1>2, <1>3 DEF CountersTell, Numbers

\* The sockets are within the limits because the counters are.
LEMMA LimitsFollow == IInv => LimitsHold
<1> SUFFICES ASSUME IInv PROVE LimitsHold
  OBVIOUS
<1>0. TypeOK /\ Numbers /\ Bounded /\ Listed
  BY DEF IInv
<1>1. Within(MaxConnections, In(Held))
  <2>1. In(Held) \subseteq At(Ips, Counted)
    BY ConfigAssumption DEF In, At, Held, Counted
  <2>2. /\ IsFiniteSet(At(Ips, Counted))
        /\ Cardinality(At(Ips, Counted)) \in Nat
    BY Countable
  <2>3. IsFiniteSet(In(Held)) /\ Cardinality(In(Held)) <= Cardinality(At(Ips, Counted))
    BY <2>1, <2>2, FS_Subset
  <2>4. Cardinality(In(Held)) \in Nat
    BY <2>3, FS_CardinalityType
  <2>5. active = Cardinality(At(Ips, Counted)) /\ (MaxConnections # 0 => active <= MaxConnections)
    BY <1>0 DEF Numbers, Bounded
  <2> QED
    BY <2>2, <2>3, <2>4, <2>5, ConfigAssumption DEF Within
<1>2. ASSUME NEW i \in Ips
      PROVE  Within(MaxPerIp, {s \in In(Held) : IpOf[s] = i})
  <2> DEFINE Own == {s \in In(Held) : IpOf[s] = i}
  <2>1. Own \subseteq At({i}, Placed)
    BY DEF In, At, Held, Placed
  <2>2. /\ IsFiniteSet(At({i}, Placed))
        /\ Cardinality(At({i}, Placed)) \in Nat
    BY Countable
  <2>3. IsFiniteSet(Own) /\ Cardinality(Own) <= Cardinality(At({i}, Placed))
    BY <2>1, <2>2, FS_Subset
  <2>4. Cardinality(Own) \in Nat
    BY <2>3, FS_CardinalityType
  <2>5. /\ ipConn[i] = Cardinality(At({i}, Placed))
        /\ MaxPerIp # 0 => ipConn[i] <= MaxPerIp
    BY <1>0 DEF Numbers, Bounded
  <2> HIDE DEF Own
  <2>6. Within(MaxPerIp, Own)
    BY <2>2, <2>3, <2>4, <2>5, ConfigAssumption DEF Within
  <2> QED
    BY <2>6 DEF Own
<1>3. ASSUME NEW i \in Ips
      PROVE  Within(MaxPerMinute, {s \in Sockets : IpOf[s] = i /\ since[s] <= Minute})
  <2> DEFINE Late == {s \in Sockets : IpOf[s] = i /\ since[s] <= Minute}
  <2>1. Late \subseteq recent[i]
    BY <1>0 DEF Listed
  <2>2. recent[i] \subseteq Sockets
    BY <1>0 DEF TypeOK
  <2>3. IsFiniteSet(recent[i])
    BY <2>2, ConfigAssumption, FS_Subset
  <2>4. IsFiniteSet(Late) /\ Cardinality(Late) <= Cardinality(recent[i])
    BY <2>1, <2>3, FS_Subset
  <2>5. Cardinality(Late) \in Nat /\ Cardinality(recent[i]) \in Nat
    BY <2>3, <2>4, FS_CardinalityType
  <2>6. MaxPerMinute # 0 => Cardinality(recent[i]) <= MaxPerMinute
    BY <1>0 DEF Listed
  <2> HIDE DEF Late
  <2>7. Within(MaxPerMinute, Late)
    BY <2>4, <2>5, <2>6, ConfigAssumption DEF Within
  <2> QED
    BY <2>7 DEF Late
<1> QED
  BY <1>1, <1>2, <1>3 DEF LimitsHold

\* The counters and lists of the gateway keep their types.
THEOREM AdmissionTypeCorrect == Spec => []TypeOK
<1>1. IInv => TypeOK
  BY DEF IInv
<1> QED
  BY <1>1, Inductive, PTL

\* What the counters of the gateway say of the sockets is true: in particular an
\* IP never gets a place back, and a failed handshake is counted for ever.
THEOREM CountersAreExact == Spec => []CountersTell
<1>1. IInv => CountersTell
  BY NumbersTell DEF IInv
<1> QED
  BY <1>1, Inductive, PTL

\* The three limits of the gateway hold of the sockets themselves, for any
\* configuration, although no handler is atomic.
THEOREM LimitsAreKept == Spec => []LimitsHold
  BY LimitsFollow, Inductive, PTL

(***************************************************************************)
(* The rate limiters.  AtMostMax holds because the numbers drawn from one  *)
(* life of the key differ.                                                 *)
(***************************************************************************)

Value(r, n) == drawn[r][n].value
LifeOf(r, n) == drawn[r][n].life

\* A number that was drawn is of a life that has begun, and no more than its count.
Numbered ==
    \A r \in Requests, n \in Tries : Value(r, n) > 0 =>
        /\ LifeOf(r, n) <= life
        /\ LifeOf(r, n) = life => Value(r, n) <= count

\* No two jobs drew the same number in the same life.
NoTwice ==
    \A r, s \in Requests : \A n, m \in Tries :
        (Value(r, n) > 0 /\ Value(r, n) = Value(s, m) /\ LifeOf(r, n) = LifeOf(s, m)) =>
            r = s /\ n = m

\* A job whose INCR was answered has a number.
HasNumber ==
    \A r \in Requests, n \in Tries :
        job[r][n] \in {"expiring", "done"} => Value(r, n) > 0

\* A request that was let through has the number that let it through.
HasPass ==
    \A r \in Requests : request[r] = "allowed" =>
        job[r][try[r]] = "done" /\ Value(r, try[r]) <= MaxRequests

\* The jobs that a request has not come to are not there.
Untried ==
    \A r \in Requests, n \in Tries :
        request[r] = "new" \/ n > try[r] => job[r][n] = "none"

\* A request goes without a number only in the API, and when its own job failed.
OpenOnFailure ==
    \A r \in Requests : request[r] = "unlimited" => limiter = "api" /\ job[r][try[r]] = "failed"

RateIInv ==
    RateTypeOK /\ Numbered /\ NoTwice /\ HasNumber /\ HasPass /\ Untried /\ ExpiryIsComing

States == {"none", "queued", "expiring", "done", "failed"}

-----------------------------------------------------------------------------

\* The counters of the key are kept apart from the requests by most steps.
LEMMA NumbersStay ==
    ASSUME RateTypeOK, Numbered, NoTwice, UNCHANGED <<drawn, life>>, count' \in Nat, count' >= count
    PROVE  Numbered' /\ NoTwice'
<1> USE DEF Value, LifeOf
<1>1. Numbered'
  <2> SUFFICES ASSUME NEW r \in Requests, NEW n \in Tries, Value(r, n) > 0
               PROVE  LifeOf(r, n) <= life /\ (LifeOf(r, n) = life => Value(r, n) <= count')
    BY DEF Numbered
  <2>1. Value(r, n) \in Nat /\ LifeOf(r, n) \in Nat /\ count \in Nat
    BY DEF RateTypeOK
  <2> QED
    BY <2>1 DEF Numbered
<1>2. NoTwice'
  BY DEF NoTwice
<1> QED
  BY <1>1, <1>2

\* What a job's move does to the jobs.
LEMMA OneJob ==
    ASSUME RateTypeOK, NEW r \in Requests, NEW n \in Tries, NEW w \in States, JobGoes(r, n, w)
    PROVE  /\ job' \in [Requests -> [Tries -> States]]
           /\ job'[r][n] = w
           /\ \A s \in Requests, k \in Tries : s # r \/ k # n => job'[s][k] = job[s][k]
<1>1. /\ job \in [Requests -> [Tries -> States]]
      /\ job' = [job EXCEPT ![r][n] = w]
  BY DEF RateTypeOK, JobGoes, States
<1> QED
  BY <1>1

\* Where the job's move is all that the requests see of a step that draws nothing.
LEMMA QuietJob ==
    ASSUME RateIInv, NEW r \in Requests, NEW n \in Tries, NEW w \in States, JobGoes(r, n, w),
           job[r][n] \in {"queued", "expiring"},
           w \in {"done", "expiring"} => Value(r, n) > 0,
           UNCHANGED <<request, try, drawn>>
    PROVE  HasNumber' /\ HasPass' /\ Untried'
<1> USE DEF RateIInv, Value
<1>1. RateTypeOK
  OBVIOUS
<1>2. /\ job'[r][n] = w
      /\ \A s \in Requests, k \in Tries : s # r \/ k # n => job'[s][k] = job[s][k]
  BY <1>1, OneJob
<1>3. HasNumber'
  BY <1>2 DEF HasNumber
<1>4. HasPass'
  <2> SUFFICES ASSUME NEW s \in Requests, request[s] = "allowed"
               PROVE  job'[s][try[s]] = "done" /\ Value(s, try[s]) <= MaxRequests
    BY DEF HasPass
  <2>1. job[s][try[s]] = "done" /\ Value(s, try[s]) <= MaxRequests /\ try[s] \in Tries
    BY DEF HasPass, RateTypeOK
  <2> QED
    BY <1>2, <2>1
<1>5. Untried'
  <2> SUFFICES ASSUME NEW s \in Requests, NEW k \in Tries, request[s] = "new" \/ k > try[s]
               PROVE  job'[s][k] = "none"
    BY DEF Untried
  <2>1. job[s][k] = "none"
    BY DEF Untried
  <2> QED
    BY <1>2, <2>1
<1> QED
  BY <1>3, <1>4, <1>5

-----------------------------------------------------------------------------

LEMMA InitHolds == RateInit => RateIInv
<1> SUFFICES ASSUME RateInit PROVE RateIInv
  OBVIOUS
<1> USE DEF RateInit, Value, LifeOf
<1>1. 1 \in Tries
  BY LimitAssumption DEF Tries
<1>2. RateTypeOK
  BY <1>1 DEF RateTypeOK
<1>3. Numbered /\ NoTwice /\ HasNumber /\ HasPass /\ Untried
  BY DEF Numbered, NoTwice, HasNumber, HasPass, Untried
<1>4. ExpiryIsComing
  BY DEF ExpiryIsComing
<1> QED
  BY <1>2, <1>3, <1>4 DEF RateIInv

\* An INCR draws a number that nobody has.
LEMMA IncrHolds ==
    ASSUME RateIInv, NEW r \in Requests, NEW n \in Tries, Incr(r, n)
    PROVE  RateIInv'
<1> USE DEF RateIInv, Incr
<1>w. PICK where \in IF count = 0 THEN {"expiring"} ELSE HowItEnds : JobGoes(r, n, where)
  OBVIOUS
<1>0. /\ where \in States
      /\ count = 0 => where = "expiring"
      /\ RateTypeOK
      /\ count \in Nat /\ life \in Nat
      /\ drawn \in [Requests -> [Tries -> [life : Nat, value : Nat]]]
  BY <1>w DEF HowItEnds, States, RateTypeOK
<1>1. /\ job' \in [Requests -> [Tries -> States]]
      /\ job'[r][n] = where
      /\ \A s \in Requests, k \in Tries : s # r \/ k # n => job'[s][k] = job[s][k]
  <2> HIDE DEF RateIInv
  <2> QED
    BY <1>w, <1>0, OneJob
<1>2. /\ drawn' \in [Requests -> [Tries -> [life : Nat, value : Nat]]]
      /\ drawn'[r][n] = [life |-> life, value |-> count + 1]
      /\ \A s \in Requests, k \in Tries : s # r \/ k # n => drawn'[s][k] = drawn[s][k]
  BY <1>0
<1>3. RateTypeOK'
  BY <1>0, <1>1, <1>2 DEF RateTypeOK, States
<1>4. Numbered'
  <2> SUFFICES ASSUME NEW s \in Requests, NEW k \in Tries, Value(s, k)' > 0
               PROVE  /\ LifeOf(s, k)' <= life
                      /\ LifeOf(s, k)' = life => Value(s, k)' <= count'
    BY DEF Numbered
  <2>1. CASE s = r /\ k = n
    BY <1>0, <1>2, <2>1 DEF Value, LifeOf
  <2>2. CASE s # r \/ k # n
    <3>1. drawn'[s][k] = drawn[s][k] /\ drawn[s][k].value \in Nat /\ drawn[s][k].life \in Nat
      BY <1>0, <1>2, <2>2
    <3> QED
      BY <1>0, <3>1 DEF Value, LifeOf, Numbered
  <2> QED
    BY <2>1, <2>2
<1>5. NoTwice'
  <2>1. ASSUME NEW s \in Requests, NEW k \in Tries, s # r \/ k # n, Value(s, k)' > 0,
               LifeOf(s, k)' = life
        PROVE  Value(s, k)' # count + 1
    <3>1. drawn'[s][k] = drawn[s][k] /\ drawn[s][k].value \in Nat
      BY <1>0, <1>2, <2>1
    <3> QED
      BY <1>0, <2>1, <3>1 DEF Value, LifeOf, Numbered
  <2> SUFFICES ASSUME NEW s \in Requests, NEW t \in Requests, NEW k \in Tries, NEW m \in Tries,
                      Value(s, k)' > 0, Value(s, k)' = Value(t, m)',
                      LifeOf(s, k)' = LifeOf(t, m)'
               PROVE  s = t /\ k = m
    BY DEF NoTwice
  <2>2. Value(r, n)' = count + 1 /\ LifeOf(r, n)' = life
    BY <1>2 DEF Value, LifeOf
  <2>3. CASE s = r /\ k = n
    BY <2>1, <2>2, <2>3
  <2>4. CASE t = r /\ m = n
    BY <2>1, <2>2, <2>4
  <2>5. CASE (s # r \/ k # n) /\ (t # r \/ m # n)
    <3>1. drawn'[s][k] = drawn[s][k] /\ drawn'[t][m] = drawn[t][m]
      BY <1>2, <2>5
    <3> QED
      BY <3>1 DEF Value, LifeOf, NoTwice
  <2> QED
    BY <2>3, <2>4, <2>5
<1>6. HasNumber'
  <2> SUFFICES ASSUME NEW s \in Requests, NEW k \in Tries, job'[s][k] \in {"expiring", "done"}
               PROVE  drawn'[s][k].value > 0
    BY DEF HasNumber, Value
  <2>1. CASE s = r /\ k = n
    BY <1>0, <1>2, <2>1
  <2>2. CASE s # r \/ k # n
    BY <1>1, <1>2, <2>2 DEF HasNumber, Value
  <2> QED
    BY <2>1, <2>2
<1>7. HasPass'
  <2> SUFFICES ASSUME NEW s \in Requests, request[s] = "allowed"
               PROVE  job'[s][try[s]] = "done" /\ drawn'[s][try[s]].value <= MaxRequests
    BY DEF HasPass, Value
  <2>1. job[s][try[s]] = "done" /\ drawn[s][try[s]].value <= MaxRequests /\ try[s] \in Tries
    BY DEF HasPass, RateTypeOK, Value
  <2> QED
    BY <1>1, <1>2, <2>1
<1>8. Untried'
  <2> SUFFICES ASSUME NEW s \in Requests, NEW k \in Tries, request[s] = "new" \/ k > try[s]
               PROVE  job'[s][k] = "none"
    BY DEF Untried
  <2>1. job[s][k] = "none"
    BY DEF Untried
  <2> QED
    BY <1>1, <2>1
<1>9. ExpiryIsComing'
  <2>1. CASE count = 0
    <3>1. job'[r][n] = "expiring" /\ drawn'[r][n].life = life'
      BY <1>0, <1>1, <1>2, <2>1
    <3> QED
      BY <3>1 DEF ExpiryIsComing
  <2>2. CASE count > 0
    <3> SUFFICES ASSUME ~expires, ~orphan
                 PROVE  \E s \in Requests, k \in Tries :
                            job'[s][k] = "expiring" /\ drawn'[s][k].life = life'
      BY DEF ExpiryIsComing
    <3>1. PICK s \in Requests, k \in Tries : job[s][k] = "expiring" /\ drawn[s][k].life = life
      BY <2>2 DEF ExpiryIsComing
    <3>2. job'[s][k] = "expiring" /\ drawn'[s][k].life = life'
      BY <1>1, <1>2, <3>1
    <3> QED
      BY <3>2
  <2> QED
    BY <1>0, <2>1, <2>2
<1> HIDE DEF Incr
<1> QED
  BY <1>3, <1>4, <1>5, <1>6, <1>7, <1>8, <1>9

\* The other moves of a job.
LEMMA JobHolds ==
    ASSUME RateIInv, NEW r \in Requests, NEW n \in Tries,
           IncrFails(r, n) \/ Expire(r, n) \/ ExpireFails(r, n) \/ Withdraw(r, n)
    PROVE  RateIInv'
<1>0. /\ RateTypeOK /\ Numbered /\ NoTwice /\ HasNumber /\ ExpiryIsComing
      /\ count \in Nat /\ life \in Nat /\ expires \in BOOLEAN /\ orphan \in BOOLEAN
  BY DEF RateIInv, RateTypeOK
<1>1. PICK w \in States : JobGoes(r, n, w) /\ (w = "done" => job[r][n] = "expiring") /\ w # "expiring"
  BY DEF IncrFails, Expire, ExpireFails, Withdraw, HowItEnds, States
<1>2. /\ job[r][n] \in {"queued", "expiring"}
      /\ UNCHANGED <<limiter, life, request, try, drawn>>
      /\ count' \in {count, count + 1}
      /\ expires' \in BOOLEAN /\ orphan' \in BOOLEAN
  BY <1>0 DEF IncrFails, Expire, ExpireFails, Withdraw, key
<1>3. /\ job' \in [Requests -> [Tries -> States]]
      /\ job'[r][n] = w
      /\ \A s \in Requests, k \in Tries : s # r \/ k # n => job'[s][k] = job[s][k]
  BY <1>0, <1>1, OneJob
<1>4. RateTypeOK'
  BY <1>0, <1>2, <1>3 DEF RateTypeOK, States
<1>5. Numbered' /\ NoTwice'
  BY <1>0, <1>2, NumbersStay
<1>6. w \in {"done", "expiring"} => Value(r, n) > 0
  BY <1>0, <1>1 DEF HasNumber
<1>7. HasNumber' /\ HasPass' /\ Untried'
  BY <1>1, <1>2, <1>6, QuietJob
<1>8. ExpiryIsComing'
  <2> SUFFICES ASSUME count' > 0, ~expires', ~orphan'
               PROVE  \E s \in Requests, k \in Tries :
                          job'[s][k] = "expiring" /\ drawn[s][k].life = life
    BY <1>2 DEF ExpiryIsComing
  <2>1. count > 0 /\ ~expires /\ ~orphan
    <3>1. CASE IncrFails(r, n)
      <4>0. /\ expires' = expires
            /\ \/ orphan' = orphan /\ count' = count
               \/ orphan' <=> (orphan \/ count = 0)
        BY <3>1 DEF IncrFails
      <4>1. ~orphan /\ (count' = count \/ count # 0) /\ ~expires
        BY <4>0
      <4> QED
        BY <1>0, <4>1
    <3>2. CASE Expire(r, n) \/ ExpireFails(r, n) \/ Withdraw(r, n)
      <4>0. /\ count' = count
            /\ expires' = expires \/ (expires' <=> (expires \/ LifeOf(r, n) = life))
            /\ orphan' = orphan \/ (orphan' <=> (orphan \/ LifeOf(r, n) = life))
        BY <3>2 DEF Expire, ExpireFails, Withdraw, key, LifeOf
      <4>1. ~orphan /\ count' = count /\ ~expires
        BY <4>0
      <4> QED
        BY <4>1
    <3> QED
      BY <3>1, <3>2
  <2>2. PICK s \in Requests, k \in Tries : job[s][k] = "expiring" /\ drawn[s][k].life = life
    BY <1>0, <2>1 DEF ExpiryIsComing
  <2>3. s # r \/ k # n
    BY <1>2, <2>2 DEF IncrFails, Expire, ExpireFails, Withdraw
  <2> QED
    BY <1>3, <2>2, <2>3
<1> QED
  BY <1>4, <1>5, <1>7, <1>8 DEF RateIInv

\* The moves of a request, which draw nothing.
LEMMA HandlerHolds ==
    ASSUME RateIInv, NEW r \in Requests, RequestStep(r)
    PROVE  RateIInv'
<1>a. RateTypeOK /\ Numbered /\ NoTwice /\ HasNumber /\ HasPass /\ Untried /\ ExpiryIsComing
  BY DEF RateIInv
<1>0. /\ count \in Nat /\ life \in Nat /\ orphan \in BOOLEAN
      /\ request \in [Requests -> {"new", "skipped", "waiting", "allowed", "refused",
                                   "unlimited", "dead"}]
      /\ try \in [Requests -> Tries]
      /\ job \in [Requests -> [Tries -> States]]
      /\ drawn \in [Requests -> [Tries -> [life : Nat, value : Nat]]]
  BY <1>a DEF RateTypeOK, States
<1>b. 1 \in Tries
  BY LimitAssumption DEF Tries
<1>1. /\ request[r] \in {"new", "waiting"}
      /\ UNCHANGED <<limiter, count, expires, life, drawn>>
      /\ request[r] = "new" \/ request'[r] # "new"
      /\ \A s \in Requests : s # r => request'[s] = request[s] /\ try'[s] = try[s] /\ job'[s] = job[s]
  BY <1>a, <1>b, <1>0 DEF RequestStep, Skip, Arrive, Decide, JobFailed, TimeOut, Die, GiveUp, Unnumbered, Answer, JobGoes, key
<1>2. /\ request' \in [Requests -> {"new", "skipped", "waiting", "allowed", "refused",
                                    "unlimited", "dead"}]
      /\ try' \in [Requests -> Tries]
      /\ job' \in [Requests -> [Tries -> States]]
      /\ orphan' \in BOOLEAN
  <2>1. CASE Skip(r) \/ Arrive(r) \/ Decide(r) \/ Die(r)
    <3>1. /\ request' \in [Requests -> {"new", "skipped", "waiting", "allowed", "refused",
                                         "unlimited", "dead"}]
          /\ try' = try
      BY <1>0, <2>1 DEF Skip, Arrive, Decide, Die, Answer
    <3>2. job' \in [Requests -> [Tries -> States]]
      <4>1. CASE Arrive(r)
        <5>1. job' = [job EXCEPT ![r][1] = "queued"] /\ "queued" \in States
          BY <4>1 DEF Arrive, JobGoes, States
        <5> QED
          BY <1>0, <1>b, <5>1
      <4>2. CASE Die(r)
        <5>1. job' = [job EXCEPT ![r] = [n \in Tries |-> "none"]] /\ "none" \in States
          BY <4>2 DEF Die, States
        <5> QED
          BY <1>0, <5>1
      <4>3. CASE Skip(r) \/ Decide(r)
        BY <1>0, <4>3 DEF Skip, Decide
      <4> QED
        BY <2>1, <4>1, <4>2, <4>3
    <3>3. orphan' \in BOOLEAN
      BY <1>0, <2>1 DEF Skip, Arrive, Decide, Die, key
    <3> QED
      BY <1>0, <3>1, <3>2, <3>3
  <2>2. CASE JobFailed(r) \/ TimeOut(r)
    <3>1. GiveUp(r) /\ orphan' = orphan
      BY <2>2 DEF JobFailed, TimeOut, key
    <3>2. CASE TriesLeft(r)
      <4>1. try[r] + 1 \in Tries
        BY <1>a, <1>b, <1>0, <3>2, LimitAssumption DEF TriesLeft, Tries
      <4>2. /\ try' = [try EXCEPT ![r] = try[r] + 1]
            /\ job' = [job EXCEPT ![r][try[r] + 1] = "queued"]
            /\ request' = request
        BY <3>1, <3>2 DEF GiveUp
      <4>3. "queued" \in States /\ orphan' \in BOOLEAN
        BY <1>0, <3>1 DEF States
      <4> QED
        BY <1>0, <4>1, <4>2, <4>3
    <3>3. CASE ~TriesLeft(r)
      BY <1>a, <1>b, <1>0, <3>1, <3>3 DEF GiveUp, Unnumbered, Answer
    <3> QED
      BY <3>2, <3>3
  <2> QED
    BY <2>1, <2>2 DEF RequestStep
<1>3. RateTypeOK'
  BY <1>a, <1>b, <1>0, <1>1, <1>2 DEF RateTypeOK, States
<1>4. Numbered' /\ NoTwice'
  BY <1>a, <1>b, <1>0, <1>1, NumbersStay
<1>5. \* What becomes of the jobs of r.
      /\ \A k \in Tries : job'[r][k] \in {"expiring", "done"} => job'[r][k] = job[r][k]
      /\ \A k \in Tries : job[r][k] = "expiring" /\ job'[r][k] # "expiring" =>
             (drawn[r][k].life = life => orphan')
      /\ orphan => orphan'
      /\ request'[r] = "allowed" => Decide(r)
      /\ \A k \in Tries : request'[r] = "new" \/ k > try'[r] => job'[r][k] = "none"
  <2>1. CASE Skip(r)
    BY <1>a, <1>b, <1>0, <2>1 DEF Skip, Answer, key, Untried
  <2>2. CASE Arrive(r)
    <3>1. /\ \A k \in Tries : job[r][k] = "none"
          /\ \A k \in Tries : job'[r][k] = IF k = 1 THEN "queued" ELSE job[r][k]
          /\ request'[r] = "waiting" /\ try' = try /\ orphan' = orphan
      BY <1>a, <1>b, <1>0, <2>2 DEF Arrive, Answer, JobGoes, key, Untried
    <3>2. \A k \in Tries : k > try[r] => k # 1
      BY <1>a, <1>b, <1>0 DEF Tries
    <3> QED
      BY <3>1, <3>2
  <2>3. CASE Decide(r)
    BY <1>a, <1>b, <1>0, <2>3 DEF Decide, Answer, key, Untried
  <2>4. CASE JobFailed(r) \/ TimeOut(r)
    <3>1. GiveUp(r) /\ orphan' = orphan /\ request[r] = "waiting"
      BY <2>4 DEF JobFailed, TimeOut, key
    <3>2. CASE TriesLeft(r)
      <4>1. try[r] + 1 \in Tries /\ try[r] \in Nat
        BY <1>a, <1>b, <1>0, <3>2, LimitAssumption DEF TriesLeft, Tries
      <4>2. job[r][try[r] + 1] = "none"
        BY <1>a, <1>b, <1>0, <4>1 DEF Untried
      <4>3. /\ \A k \in Tries : job'[r][k] = IF k = try[r] + 1 THEN "queued" ELSE job[r][k]
            /\ try'[r] = try[r] + 1 /\ request' = request
        BY <1>a, <1>b, <1>0, <3>1, <3>2, <4>1 DEF GiveUp
      <4>4. \A k \in Tries : k > try[r] + 1 => k > try[r] /\ k # try[r] + 1
        BY <4>1 DEF Tries
      <4> QED
        BY <1>a, <1>b, <1>0, <3>1, <4>2, <4>3, <4>4 DEF Untried
    <3>3. CASE ~TriesLeft(r)
      BY <1>a, <1>b, <1>0, <3>1, <3>3 DEF GiveUp, Unnumbered, Answer, Untried
    <3> QED
      BY <3>2, <3>3
  <2>5. CASE Die(r)
    BY <1>a, <1>b, <1>0, <2>5 DEF Die, Answer
  <2> QED
    BY <2>1, <2>2, <2>3, <2>4, <2>5 DEF RequestStep
<1>6. HasNumber'
  <2> SUFFICES ASSUME NEW s \in Requests, NEW k \in Tries, job'[s][k] \in {"expiring", "done"}
               PROVE  Value(s, k) > 0
    BY <1>1 DEF HasNumber, Value
  <2>1. job'[s][k] = job[s][k]
    BY <1>1, <1>5
  <2> QED
    BY <1>a, <1>b, <1>0, <2>1 DEF HasNumber
<1>7. HasPass'
  <2> SUFFICES ASSUME NEW s \in Requests, request'[s] = "allowed"
               PROVE  job'[s][try'[s]] = "done" /\ Value(s, try'[s]) <= MaxRequests
    BY <1>1 DEF HasPass, Value
  <2>1. CASE s # r
    BY <1>a, <1>b, <1>0, <1>1, <2>1 DEF HasPass
  <2>2. CASE s = r
    <3>1. Decide(r)
      BY <1>5, <2>2
    <3> QED
      BY <1>a, <1>b, <1>0, <2>2, <3>1 DEF Decide, Answer, Value
  <2> QED
    BY <2>1, <2>2
<1>8. Untried'
  <2> SUFFICES ASSUME NEW s \in Requests, NEW k \in Tries, request'[s] = "new" \/ k > try'[s]
               PROVE  job'[s][k] = "none"
    BY DEF Untried
  <2>1. CASE s = r
    BY <1>5, <2>1
  <2>2. CASE s # r
    BY <1>a, <1>1, <2>2 DEF Untried
  <2> QED
    BY <2>1, <2>2
<1>9. ExpiryIsComing'
  <2> SUFFICES ASSUME count > 0, ~expires, ~orphan'
               PROVE  \E s \in Requests, k \in Tries :
                          job'[s][k] = "expiring" /\ drawn[s][k].life = life
    BY <1>1 DEF ExpiryIsComing
  <2>1. PICK s \in Requests, k \in Tries : job[s][k] = "expiring" /\ drawn[s][k].life = life
    BY <1>a, <1>b, <1>0, <1>5 DEF ExpiryIsComing
  <2>2. job'[s][k] = "expiring"
    BY <1>1, <1>5, <2>1
  <2> QED
    BY <2>1, <2>2
<1> QED
  BY <1>3, <1>4, <1>6, <1>7, <1>8, <1>9 DEF RateIInv

\* The key's life ends: the numbers drawn from it are of an earlier life now.
LEMMA NewLifeHolds ==
    ASSUME RateIInv, NewLife
    PROVE  RateIInv'
<1>0. RateTypeOK /\ Numbered /\ NoTwice /\ HasNumber /\ HasPass /\ Untried
  BY DEF RateIInv
<1> USE DEF NewLife
<1>1. RateTypeOK'
  <2>1. count' \in Nat /\ life' \in Nat
    BY <1>0 DEF RateTypeOK
  <2>2. expires' \in BOOLEAN /\ orphan' \in BOOLEAN
    OBVIOUS
  <2> QED
    BY <1>0, <2>1, <2>2 DEF RateTypeOK
<1>2. Numbered'
  <2> SUFFICES ASSUME NEW r \in Requests, NEW n \in Tries, Value(r, n) > 0
               PROVE  LifeOf(r, n) <= life + 1 /\ LifeOf(r, n) # life + 1
    BY DEF Numbered, Value, LifeOf
  <2>1. LifeOf(r, n) \in Nat /\ life \in Nat
    BY <1>0 DEF RateTypeOK, LifeOf
  <2> QED
    BY <1>0, <2>1 DEF Numbered
<1>3. NoTwice' /\ HasNumber' /\ HasPass' /\ Untried'
  BY <1>0 DEF NoTwice, HasNumber, HasPass, Untried, Value, LifeOf
<1>4. ExpiryIsComing'
  BY DEF ExpiryIsComing
<1> QED
  BY <1>1, <1>2, <1>3, <1>4 DEF RateIInv

LEMMA NextHolds == RateIInv /\ [RateNext]_rateVars => RateIInv'
<1> SUFFICES ASSUME RateIInv, [RateNext]_rateVars PROVE RateIInv'
  OBVIOUS
<1>1. ASSUME NEW r \in Requests, RequestStep(r)
      PROVE  RateIInv'
  BY <1>1, HandlerHolds
<1>2. ASSUME NEW r \in Requests, NEW n \in Tries, Job(r, n)
      PROVE  RateIInv'
  BY <1>2, IncrHolds, JobHolds DEF Job
<1>3. CASE Expired \/ NextWindow
  BY <1>3, NewLifeHolds DEF Expired, NextWindow
<1>4. CASE UNCHANGED rateVars
  BY <1>4 DEF rateVars, RateIInv, RateTypeOK, Numbered, NoTwice, HasNumber, HasPass, Untried,
              ExpiryIsComing, Value, LifeOf
<1> QED
  BY <1>1, <1>2, <1>3, <1>4 DEF RateNext

\* A failed job stays failed, so who goes without a number has lost it for good.
LEMMA OpenHolds ==
    ASSUME RateTypeOK, OpenOnFailure, [RateNext]_rateVars
    PROVE  OpenOnFailure'
<1> SUFFICES ASSUME NEW r \in Requests, request'[r] = "unlimited"
             PROVE  limiter' = "api" /\ job'[r][try'[r]] = "failed"
  BY DEF OpenOnFailure
<1>0. /\ request \in [Requests -> {"new", "skipped", "waiting", "allowed", "refused",
                                   "unlimited", "dead"}]
      /\ job \in [Requests -> [Tries -> States]] /\ try \in [Requests -> Tries]
      /\ limiter \in {"gateway", "api"}
  BY DEF RateTypeOK, States
<1>1. ASSUME NEW s \in Requests, RequestStep(s), s # r
      PROVE  limiter' = limiter /\ UNCHANGED <<request[r], job[r], try[r]>>
  BY <1>0, <1>1 DEF RequestStep, Skip, Arrive, Decide, JobFailed, TimeOut, Die, GiveUp, Answer,
                    JobGoes
<1>2. CASE RequestStep(r)
  <2>1. GiveUp(r) /\ limiter' = limiter /\ request[r] = "waiting"
    BY <1>0, <1>2 DEF RequestStep, Skip, Arrive, Decide, JobFailed, TimeOut, Die, Answer
  <2>2. ~TriesLeft(r) /\ UNCHANGED <<try, job>> /\ limiter = "api"
    BY <1>0, <2>1 DEF GiveUp, Answer, Unnumbered
  <2>3. JobFailed(r)
    BY <1>0, <1>2, <2>1, <2>2 DEF RequestStep, Skip, Arrive, Decide, TimeOut, Die, Answer
  <2> QED
    BY <2>1, <2>2, <2>3 DEF JobFailed
<1>3. ASSUME NEW s \in Requests, NEW n \in Tries, Job(s, n)
      PROVE  limiter' = limiter /\ request' = request /\ try' = try
             /\ (job[r][try[r]] = "failed" => job'[r][try[r]] = "failed")
  <2>1. PICK w \in States : JobGoes(s, n, w) /\ job[s][n] # "failed"
    BY <1>3 DEF Job, Incr, IncrFails, Expire, ExpireFails, Withdraw, HowItEnds, States
  <2> QED
    BY <1>0, <1>3, <2>1 DEF Job, Incr, IncrFails, Expire, ExpireFails, Withdraw, JobGoes, key
<1>4. CASE NewLife \/ UNCHANGED rateVars
  BY <1>4 DEF NewLife, rateVars, OpenOnFailure
<1> QED
  BY <1>1, <1>2, <1>3, <1>4 DEF RateNext, Expired, NextWindow, OpenOnFailure

LEMMA RateInductive == RateSpec => [](RateIInv /\ OpenOnFailure)
<1>1. RateInit => OpenOnFailure
  BY DEF RateInit, OpenOnFailure
<1>2. RateIInv => RateTypeOK
  BY DEF RateIInv
<1> QED
  BY <1>1, <1>2, InitHolds, NextHolds, OpenHolds, PTL DEF RateSpec

\* The limiter's key, requests and jobs keep their shape.
THEOREM LimiterTypeCorrect == RateSpec => []RateTypeOK
<1>1. RateIInv => RateTypeOK
  BY DEF RateIInv
<1> QED
  BY <1>1, RateInductive, PTL

\* The requests let through in one life were let through by different numbers
\* between 1 and the limit.
LEMMA FewPass == RateIInv => \A l \in 0 .. life : Cardinality(AllowedIn(l)) <= MaxRequests
<1> SUFFICES ASSUME RateIInv, NEW l \in 0 .. life
             PROVE  Cardinality(AllowedIn(l)) <= MaxRequests
  OBVIOUS
<1> DEFINE f == [r \in AllowedIn(l) |-> Value(r, try[r])]
<1>1. ASSUME NEW r \in AllowedIn(l)
      PROVE  Value(r, try[r]) \in 1 .. MaxRequests
  <2>1. /\ r \in Requests /\ request[r] = "allowed" /\ try[r] \in Tries
        /\ Value(r, try[r]) \in Nat
    BY DEF AllowedIn, RateIInv, RateTypeOK, Value
  <2>2. Value(r, try[r]) > 0 /\ Value(r, try[r]) <= MaxRequests
    BY <2>1 DEF RateIInv, HasPass, HasNumber
  <2> QED
    BY <2>1, <2>2, LimitAssumption
<1>2. f \in Injection(AllowedIn(l), 1 .. MaxRequests)
  <2>1. f \in [AllowedIn(l) -> 1 .. MaxRequests]
    BY <1>1
  <2>2. ASSUME NEW r \in AllowedIn(l), NEW s \in AllowedIn(l), f[r] = f[s]
        PROVE  r = s
    <3>1. /\ r \in Requests /\ s \in Requests /\ try[r] \in Tries /\ try[s] \in Tries
          /\ LifeOf(r, try[r]) = l /\ LifeOf(s, try[s]) = l
      BY DEF AllowedIn, RateIInv, RateTypeOK, LifeOf
    <3>2. Value(r, try[r]) = Value(s, try[s]) /\ Value(r, try[r]) > 0
      BY <1>1, <2>2
    <3> QED
      BY <3>1, <3>2 DEF RateIInv, NoTwice
  <2> QED
    BY <2>1, <2>2 DEF Injection, IsInjective
<1>3. IsFiniteSet(1 .. MaxRequests) /\ Cardinality(1 .. MaxRequests) = MaxRequests
  BY LimitAssumption, FS_Interval
<1> HIDE DEF f
<1> QED
  BY <1>2, <1>3, FS_Injection

\* The numbers of a window let no more requests through than its limit, and without
\* a number only the API lets a request through, whose own job failed: for any number
\* of requests, retries, processes and crashes.
THEOREM LimitHolds == RateSpec => []AtMostMax
<1>1. RateIInv /\ OpenOnFailure => AtMostMax
  BY FewPass DEF AtMostMax, OpenOnFailure
<1> QED
  BY <1>1, RateInductive, PTL

\* A key that would refuse its identity for ever has lost the job that made it.
THEOREM ExpiryComes == RateSpec => []ExpiryIsComing
<1>1. RateIInv => ExpiryIsComing
  BY DEF RateIInv
<1> QED
  BY <1>1, RateInductive, PTL
=============================================================================
