------------------------- MODULE ConversationProofs -------------------------
(***************************************************************************)
(* Proofs about Conversation, for any set of turns and of /new commands:   *)
(* the shape of the state, cache and disk, one consolidation at a time,    *)
(* and what a session keeps and HISTORY.md gets.                           *)
(*                                                                         *)
(* IInv ties handlers, jobs and locks to the objects; KInv adds that the   *)
(* handlers of the current conversation hold the cached object; HInv adds  *)
(* where each turn is on its way from its handler to HISTORY.md.           *)
(***************************************************************************)
EXTENDS Conversation, SequenceTheorems, TLAPS

Fg(t) == <<t, "fg">>
Bg(t) == <<t, "bg">>

(* A turn still holds its session: its handler runs, or its background job. *)
Live(t) == pc[t] \in Busy \/ job[Bg(t)].at # "off"

(* What ties a turn to its session object and to its two consolidations. *)
TurnInv(t) ==
    /\ Live(t) => sess[t] \in DOMAIN objs
    /\ job[Fg(t)].at # "off" => pc[t] = "consolidating"
    /\ job[Bg(t)].at # "off" => pc[t] \in {"saved"} \cup Over

Working == \A t \in Turns : TurnInv(t)

(* A consolidation that asks the model holds the lock. *)
LockHeld == \A j \in Jobs : job[j].at = "asking" => consLock = j

JobType == [at : {"off", "waiting", "asking"}, upto : Nat, chunk : Seq(Turns)]

(* The parts of TypeOK: the objects, the cache and the file; the handlers,    *)
(* the jobs and the locks (with the two invariants above); what is left.      *)
Store ==
    /\ objs \in Seq(Sessions)
    /\ cache \in DOMAIN objs \cup {None}
    /\ file \in Sessions

Control ==
    /\ pc \in [Messages -> {"idle"} \cup Busy \cup Over]
    /\ sess \in [Messages -> DOMAIN objs \cup {None}]
    /\ direct \in BOOLEAN
    /\ procLock \in {m \in Messages : ~direct /\ pc[m] \in Busy} \cup {None}
    /\ job \in [Jobs -> JobType]
    /\ consLock \in {j \in Jobs : job[j].at = "asking"} \cup {None}
    /\ Working
    /\ LockHeld

Records ==
    /\ pending \in [News -> Seq(Turns)]
    /\ archived \in [Turns -> Nat]
    /\ redis \in SUBSET Turns
    /\ restarts \in 0..MaxRestarts
    /\ epoch \in Nat
    /\ born \in [Turns -> Nat]
    /\ straddled \in BOOLEAN

IInv == Store /\ DiskMatchesCache /\ Control /\ Records

-----------------------------------------------------------------------------
(* The session manager.                                                    *)

(* Saving a well formed session keeps the store well formed and in step. *)
LEMMA SaveEffect ==
    ASSUME Store, NEW o \in DOMAIN objs, NEW s \in Sessions, Save(o, s)
    PROVE  /\ Store'
           /\ DOMAIN objs' = DOMAIN objs
           /\ DiskMatchesCache'
           /\ cache' = o /\ file' = s
  <1>1. /\ objs' = [objs EXCEPT ![o] = s]
        /\ file' = s
        /\ cache' = o
    BY DEF Save
  <1>2. objs \in Seq(Sessions) /\ o \in 1..Len(objs)
    BY LenProperties DEF Store
  <1>3. /\ objs' \in Seq(Sessions)
        /\ DOMAIN objs' = DOMAIN objs
        /\ objs'[o] = s
    BY <1>1, <1>2, ExceptSeq
  <1>4. QED
    BY <1>1, <1>3 DEF Store, DiskMatchesCache

(* Appending what is on disk as a new object keeps the others. *)
LEMMA LoadEffect ==
    ASSUME Store
    PROVE  /\ Append(objs, file) \in Seq(Sessions)
           /\ Len(Append(objs, file)) \in DOMAIN Append(objs, file)
           /\ Len(Append(objs, file)) \notin DOMAIN objs
           /\ DOMAIN objs \subseteq DOMAIN Append(objs, file)
           /\ Append(objs, file)[Len(Append(objs, file))] = file
           /\ \A o \in DOMAIN objs : Append(objs, file)[o] = objs[o]
  BY AppendProperties, LenProperties DEF Store

(* get_or_create leaves the disk alone and hands out the cached object. *)
LEMMA FetchEffect ==
    ASSUME Store, DiskMatchesCache, NEW m, sess \in [Messages -> DOMAIN objs \cup {None}],
           m \in Messages, GetOrCreate(m)
    PROVE  /\ Store'
           /\ DOMAIN objs \subseteq DOMAIN objs'
           /\ DiskMatchesCache'
           /\ cache' \in DOMAIN objs'
           /\ cache # None => cache' = cache
           /\ cache = None => cache' \notin DOMAIN objs
           /\ sess' = [sess EXCEPT ![m] = cache']
           /\ sess' \in [Messages -> DOMAIN objs' \cup {None}]
           /\ file' = file
  <1>1. CASE cache # None
    BY <1>1 DEF GetOrCreate, Store, store, DiskMatchesCache
  <1>2. CASE cache = None
    <2>1. /\ objs' = Append(objs, file)
          /\ cache' = Len(objs')
          /\ sess' = [sess EXCEPT ![m] = Len(objs')]
          /\ file' = file
      BY <1>2 DEF GetOrCreate
    <2>2. QED
      BY <1>2, <2>1, LoadEffect DEF Store, DiskMatchesCache
  <1>3. QED
    BY <1>1, <1>2

(* The session that a turn saves, and its parts, are well formed. *)
LEMMA SessionValues ==
    ASSUME NEW s \in Sessions
    PROVE  /\ \A t \in Turns : AddTurn(s, t) \in Sessions
           /\ \A e \in Nat : [s EXCEPT !.off = e] \in Sessions
           /\ History(s) \in Seq(Turns)
           /\ Empty \in Sessions
           /\ \A e \in (s.off + 1)..(Len(s.msgs) - 1) :
                Asking(s, e) \in JobType
  <1>0. s.msgs \in Seq(Turns) /\ s.off \in Nat /\ Len(s.msgs) \in Nat
    BY LenProperties DEF Sessions
  <1>1. ASSUME NEW t \in Turns PROVE AddTurn(s, t) \in Sessions
    <2>1. Append(s.msgs, t) \in Seq(Turns)
      BY <1>0, AppendProperties
    <2>2. QED
      BY <2>1 DEF AddTurn, Sessions
  <1>2. ASSUME NEW e \in Nat PROVE [s EXCEPT !.off = e] \in Sessions
    BY DEF Sessions
  <1>3. History(s) \in Seq(Turns)
    <2>1. CASE s.off + 1 <= Len(s.msgs)
      BY <1>0, <2>1, SubSeqProperties DEF History
    <2>2. CASE ~(s.off + 1 <= Len(s.msgs))
      <3>1. SubSeq(s.msgs, s.off + 1, Len(s.msgs)) = <<>>
        BY <1>0, <2>2, SubSeqEmpty
      <3>2. QED
        BY <3>1, EmptySeq DEF History
    <2>3. QED
      BY <2>1, <2>2
  <1>4. Empty \in Sessions
    BY EmptySeq DEF Empty, Sessions
  <1>5. ASSUME NEW e \in (s.off + 1)..(Len(s.msgs) - 1)
        PROVE  Asking(s, e) \in JobType
    <2>1. SubSeq(s.msgs, s.off + 1, e) \in Seq(Turns) /\ e \in Nat
      BY <1>0, SubSeqProperties
    <2>2. QED
      BY <2>1 DEF Asking, JobType
  <1>6. QED
    BY <1>1, <1>2, <1>3, <1>4, <1>5

-----------------------------------------------------------------------------
(* The handlers, the jobs and the locks.                                   *)

(* A message goes to another place and keeps or drops the processing lock. *)
LEMMA GotoControl ==
    ASSUME Control, NEW m \in Messages, NEW l \in {"idle"} \cup Busy \cup Over, Goto(m, l),
           UNCHANGED <<sess, job, consLock, direct>>, DOMAIN objs' = DOMAIN objs,
           \/ l \in Busy /\ procLock' = procLock
           \/ Release(m),
           m \in Turns => /\ job[Fg(m)].at = "off"
                          /\ job[Bg(m)].at # "off" => l \in {"saved"} \cup Over
                          /\ l \in Busy => sess[m] \in DOMAIN objs
    PROVE  Control'
  <1>1. /\ pc' = [pc EXCEPT ![m] = l]
        /\ pc' \in [Messages -> {"idle"} \cup Busy \cup Over]
    BY DEF Control, Goto
  <1>2. procLock' \in {n \in Messages : ~direct' /\ pc'[n] \in Busy} \cup {None}
    BY <1>1 DEF Control, Release
  <1>3. Working'
    <2>1. ASSUME NEW t \in Turns PROVE TurnInv(t)'
      <3>1. TurnInv(t) /\ t \in Messages
        BY DEF Control, Working, Messages
      <3>2. CASE t = m
        BY <1>1, <3>1, <3>2 DEF TurnInv, Live, Fg, Bg, Control
      <3>3. CASE t # m
        BY <1>1, <3>1, <3>3 DEF TurnInv, Live, Fg, Bg, Control
      <3>4. QED
        BY <3>2, <3>3
    <2>2. QED
      BY <2>1 DEF Working
  <1>4. QED
    BY <1>1, <1>2, <1>3 DEF Control, LockHeld

(* Jobs are told apart by turn and kind. *)
LEMMA JobParts ==
    /\ \A j \in Jobs : j[1] \in Turns /\ j[1] \in Messages /\ j[2] \in {"fg", "bg"}
    /\ \A j \in Jobs : (j = Fg(j[1]) /\ j[2] = "fg") \/ (j = Bg(j[1]) /\ j[2] = "bg")
    /\ \A t \in Turns : Fg(t) \in Jobs /\ Bg(t) \in Jobs /\ Fg(t) # Bg(t)
    /\ \A t, u \in Turns : t # u => Fg(t) # Fg(u) /\ Bg(t) # Bg(u)
    /\ \A t, u \in Turns : Fg(t) # Bg(u)
    /\ None \notin Jobs
  BY NoneIsNothing DEF Jobs, Fg, Bg, Messages

(* A job that is not off ends. *)
LEMMA FinishControl ==
    ASSUME Control, NEW j \in Jobs, job[j].at # "off", FinishJob(j),
           UNCHANGED <<sess, procLock, direct>>, DOMAIN objs' = DOMAIN objs
    PROVE  Control'
  <1>1. /\ job' = [job EXCEPT ![j] = Idle]
        /\ pc' = IF j[2] = "fg" THEN [pc EXCEPT ![j[1]] = "prompting"] ELSE pc
        /\ consLock' = IF consLock = j THEN None ELSE consLock
    BY DEF FinishJob
  <1>2. Idle \in JobType /\ Idle.at = "off"
    BY EmptySeq DEF Idle, JobType
  <1>3. pc' \in [Messages -> {"idle"} \cup Busy \cup Over]
    BY <1>1, JobParts DEF Control, Busy
  <1>4. job' \in [Jobs -> JobType] /\ \A i \in Jobs : job'[i] = IF i = j THEN Idle ELSE job[i]
    BY <1>1, <1>2 DEF Control
  <1>5. procLock' \in {m \in Messages : ~direct' /\ pc'[m] \in Busy} \cup {None}
    <2>1. \A m \in Messages : pc[m] \in Busy => pc'[m] \in Busy
      BY <1>1, JobParts DEF Control, Busy
    <2>2. QED
      BY <2>1 DEF Control
  <1>6. consLock' \in {i \in Jobs : job'[i].at = "asking"} \cup {None}
    BY <1>1, <1>4 DEF Control
  <1>7. LockHeld'
    BY <1>1, <1>2, <1>4 DEF Control, LockHeld
  <1>8. Working'
    <2>1. ASSUME NEW t \in Turns PROVE TurnInv(t)'
      <3>1. TurnInv(t) /\ t \in Messages
        BY DEF Control, Working, Messages
      <3>2. CASE j = Fg(t)
        <4>1. pc'[t] = "prompting" /\ pc[t] = "consolidating"
          BY <1>1, <3>1, <3>2 DEF TurnInv, Fg, Control
        <4>2. job'[Fg(t)].at = "off" /\ job'[Bg(t)] = job[Bg(t)]
          BY <1>2, <1>4, <3>2, JobParts
        <4>3. QED
          BY <3>1, <4>1, <4>2 DEF TurnInv, Live, Busy, Over
      <3>3. CASE j # Fg(t)
        <4>1. pc'[t] = pc[t]
          BY <1>1, <3>1, <3>3, JobParts DEF Control
        <4>2. job'[Fg(t)] = job[Fg(t)] /\ (job'[Bg(t)].at # "off" => job'[Bg(t)] = job[Bg(t)])
          BY <1>2, <1>4, <3>3, JobParts
        <4>3. QED
          BY <3>1, <4>1, <4>2 DEF TurnInv, Live
      <3>4. QED
        BY <3>2, <3>3
    <2>2. QED
      BY <2>1 DEF Working
  <1>9. QED
    BY <1>3, <1>4, <1>5, <1>6, <1>7, <1>8 DEF Control

(* A job that is not off, with the lock free or its own, asks the model. *)
LEMMA AskControl ==
    ASSUME Control, NEW j \in Jobs, job[j].at # "off", consLock \in {None, j},
           NEW s \in Sessions, AskRound(j, s),
           UNCHANGED <<sess, procLock, direct>>, DOMAIN objs' = DOMAIN objs
    PROVE  Control'
  <1>1. PICK e \in (s.off + 1)..(Len(s.msgs) - 1) :
          /\ job' = [job EXCEPT ![j] = Asking(s, e)]
          /\ consLock' = j
          /\ pc' = pc
    BY DEF AskRound
  <1>2. Asking(s, e) \in JobType /\ Asking(s, e).at = "asking"
    BY SessionValues DEF Asking
  <1>3. job' \in [Jobs -> JobType] /\ \A i \in Jobs : job'[i] = IF i = j THEN Asking(s, e) ELSE job[i]
    BY <1>1, <1>2 DEF Control
  <1>4. consLock' \in {i \in Jobs : job'[i].at = "asking"} \cup {None}
    BY <1>1, <1>2, <1>3
  <1>5. LockHeld'
    <2>1. \A i \in Jobs : i # j => job[i].at # "asking"
      BY JobParts DEF Control, LockHeld
    <2>2. QED
      BY <1>1, <1>3, <2>1 DEF LockHeld
  <1>6. Working'
    <2>1. ASSUME NEW t \in Turns PROVE TurnInv(t)'
      <3>1. TurnInv(t)
        BY DEF Control, Working
      <3>2. /\ job'[Fg(t)].at # "off" => job[Fg(t)].at # "off"
            /\ job'[Bg(t)].at # "off" => job[Bg(t)].at # "off"
        BY <1>3, JobParts
      <3>3. QED
        BY <1>1, <3>1, <3>2 DEF TurnInv, Live
    <2>2. QED
      BY <2>1 DEF Working
  <1>7. QED
    BY <1>1, <1>3, <1>4, <1>5, <1>6 DEF Control

(* A turn that is being handled goes on and its consolidation is scheduled. *)
LEMMA ScheduleControl ==
    ASSUME Control, NEW t \in Turns, pc[t] \in {"routing", "asking"},
           \/ Goto(t, "consolidating") /\ job' = [job EXCEPT ![Fg(t)] = Waiting]
           \/ Goto(t, "saved") /\ job' = [job EXCEPT ![Bg(t)] = Waiting],
           UNCHANGED <<sess, procLock, consLock, direct>>, DOMAIN objs' = DOMAIN objs
    PROVE  Control'
  <1>0. PICK j \in Jobs, l \in {"consolidating", "saved"} :
          /\ Goto(t, l)
          /\ job' = [job EXCEPT ![j] = Waiting]
          /\ \/ j = Fg(t) /\ l = "consolidating"
             \/ j = Bg(t) /\ l = "saved"
    BY JobParts
  <1>1. t \in Messages /\ TurnInv(t) /\ job[Fg(t)].at = "off" /\ job[Bg(t)].at = "off"
    <2>1. t \in Messages /\ TurnInv(t)
      BY DEF Control, Working, Messages
    <2>2. QED
      BY <2>1 DEF TurnInv, Over
  <1>2. Waiting \in JobType /\ Waiting.at = "waiting"
    BY EmptySeq DEF Waiting, JobType
  <1>3. /\ job' \in [Jobs -> JobType]
        /\ \A i \in Jobs : job'[i] = IF i = j THEN Waiting ELSE job[i]
    BY <1>0, <1>2 DEF Control
  <1>4. /\ pc' \in [Messages -> {"idle"} \cup Busy \cup Over]
        /\ \A m \in Messages : pc'[m] = IF m = t THEN l ELSE pc[m]
        /\ l \in Busy
    BY <1>0, <1>1 DEF Control, Goto, Busy
  <1>5. procLock' \in {m \in Messages : ~direct' /\ pc'[m] \in Busy} \cup {None}
    BY <1>4 DEF Control
  <1>6. consLock' \in {i \in Jobs : job'[i].at = "asking"} \cup {None}
    <2>1. job[j].at = "off"
      BY <1>0, <1>1
    <2>2. QED
      BY <1>3, <2>1 DEF Control
  <1>7. LockHeld'
    BY <1>2, <1>3 DEF Control, LockHeld
  <1>8. Working'
    <2>1. ASSUME NEW u \in Turns PROVE TurnInv(u)'
      <3>1. TurnInv(u) /\ u \in Messages
        BY DEF Control, Working, Messages
      <3>2. CASE u = t
        <4>1. pc[t] \in Busy
          BY DEF Busy
        <4>2. sess[t] \in DOMAIN objs
          BY <3>1, <3>2, <4>1 DEF TurnInv, Live
        <4>3. CASE j = Fg(t) /\ l = "consolidating"
          <5>1. job'[Bg(t)].at = "off"
            BY <1>1, <1>3, <4>3, JobParts
          <5>2. QED
            BY <1>1, <1>4, <3>2, <4>2, <4>3, <5>1 DEF TurnInv
        <4>4. CASE j = Bg(t) /\ l = "saved"
          <5>1. job'[Fg(t)].at = "off"
            BY <1>1, <1>3, <4>4, JobParts
          <5>2. QED
            BY <1>1, <1>4, <3>2, <4>2, <4>4, <5>1 DEF TurnInv
        <4>5. QED
          BY <1>0, <4>3, <4>4
      <3>3. CASE u # t
        <4>1. job'[Fg(u)] = job[Fg(u)] /\ job'[Bg(u)] = job[Bg(u)]
          BY <1>3, <3>3, JobParts
        <4>2. QED
          BY <1>4, <3>1, <3>3, <4>1 DEF TurnInv, Live
      <3>4. QED
        BY <3>2, <3>3
    <2>2. QED
      BY <2>1 DEF Working
  <1>9. QED
    BY <1>3, <1>4, <1>5, <1>6, <1>7, <1>8 DEF Control

(* /stop cancels a handler and its foreground consolidation, with their locks. *)
LEMMA StopControl ==
    ASSUME Control, NEW m \in Messages, Stop(m)
    PROVE  Control'
  <1>1. /\ ~direct /\ pc[m] \in Busy \cup {"idle"}
        /\ pc' = [pc EXCEPT ![m] = "cancelled"]
        /\ procLock' = IF procLock = m THEN None ELSE procLock
        /\ job' = [j \in Jobs |-> IF j = <<m, "fg">> THEN Idle ELSE job[j]]
        /\ consLock' = IF consLock = <<m, "fg">> THEN None ELSE consLock
        /\ UNCHANGED <<objs, sess, direct>>
    BY DEF Stop, Goto, Release, store, process
  <1>2. Idle \in JobType /\ Idle.at = "off"
    BY EmptySeq DEF Idle, JobType
  <1>3. /\ pc' \in [Messages -> {"idle"} \cup Busy \cup Over]
        /\ \A n \in Messages : pc'[n] = IF n = m THEN "cancelled" ELSE pc[n]
    BY <1>1 DEF Control, Over
  <1>4. /\ job' \in [Jobs -> JobType]
        /\ \A j \in Jobs : job'[j] = IF j = Fg(m) THEN Idle ELSE job[j]
    BY <1>1, <1>2 DEF Control, Fg
  <1>5. procLock' \in {n \in Messages : ~direct' /\ pc'[n] \in Busy} \cup {None}
    BY <1>1, <1>3 DEF Control
  <1>6. consLock' \in {j \in Jobs : job'[j].at = "asking"} \cup {None}
    BY <1>1, <1>4 DEF Control, Fg
  <1>7. LockHeld'
    BY <1>1, <1>2, <1>4 DEF Control, LockHeld, Fg
  <1>8. Working'
    <2>1. ASSUME NEW t \in Turns PROVE TurnInv(t)'
      <3>1. TurnInv(t) /\ t \in Messages
        BY DEF Control, Working, Messages
      <3>2. /\ job'[Bg(t)] = job[Bg(t)]
            /\ job'[Fg(t)] = IF t = m THEN Idle ELSE job[Fg(t)]
        <4>1. Fg(t) \in Jobs /\ Bg(t) \in Jobs /\ Bg(t) # Fg(m) /\ (Fg(t) = Fg(m) <=> t = m)
          BY DEF Fg, Bg, Jobs
        <4>2. QED
          BY <1>4, <4>1
      <3>3. CASE t = m
        <4>1. pc'[t] = "cancelled" /\ job'[Fg(t)].at = "off"
          BY <1>2, <1>3, <3>2, <3>3
        <4>2. QED
          BY <1>1, <3>1, <3>2, <4>1 DEF TurnInv, Live, Busy, Over
      <3>4. CASE t # m
        BY <1>1, <1>3, <3>1, <3>2, <3>4 DEF TurnInv, Live
      <3>5. QED
        BY <3>3, <3>4
    <2>2. QED
      BY <2>1 DEF Working
  <1>9. QED
    BY <1>1, <1>3, <1>4, <1>5, <1>6, <1>7, <1>8 DEF Control

(* A message fetches its session: more objects, and one more holder. *)
LEMMA FetchControl ==
    ASSUME Control, NEW m \in Messages, NEW o \in DOMAIN objs', sess' = [sess EXCEPT ![m] = o],
           DOMAIN objs \subseteq DOMAIN objs', Enter(m), NEW l, Goto(m, l),
           \/ l = "routing" /\ TakeLock(m)
           \/ m \in News /\ l = "done" /\ procLock' = procLock,
           UNCHANGED <<job, consLock, direct>>
    PROVE  Control'
  <1>1. /\ pc[m] = "idle"
        /\ pc' = [pc EXCEPT ![m] = l]
        /\ pc' \in [Messages -> {"idle"} \cup Busy \cup Over]
    BY DEF Control, Goto, Enter, Busy, Over
  <1>2. /\ sess' \in [Messages -> DOMAIN objs' \cup {None}]
        /\ \A n \in Messages : sess'[n] = IF n = m THEN o ELSE sess[n]
    BY DEF Control
  <1>3. procLock' \in {n \in Messages : ~direct' /\ pc'[n] \in Busy} \cup {None}
    <2>1. \A n \in Messages : pc[n] \in Busy => pc'[n] \in Busy
      BY <1>1 DEF Control, Busy
    <2>2. l = "routing" => pc'[m] \in Busy
      BY <1>1 DEF Control, Busy
    <2>3. procLock' = procLock \/ (procLock' = m /\ ~direct /\ l = "routing")
      BY DEF TakeLock
    <2>4. QED
      BY <2>1, <2>2, <2>3 DEF Control
  <1>4. Working'
    <2>1. ASSUME NEW t \in Turns PROVE TurnInv(t)'
      <3>1. TurnInv(t) /\ t \in Messages
        BY DEF Control, Working, Messages
      <3>2. CASE t = m
        <4>1. job[Fg(t)].at = "off" /\ job[Bg(t)].at = "off"
          BY <1>1, <3>1, <3>2 DEF TurnInv, Over
        <4>2. QED
          BY <1>2, <3>1, <3>2, <4>1 DEF TurnInv, Fg, Bg
      <3>3. CASE t # m
        <4>1. pc'[t] = pc[t] /\ sess'[t] = sess[t]
          BY <1>1, <1>2, <3>1, <3>3 DEF Control
        <4>2. job'[Fg(t)] = job[Fg(t)] /\ job'[Bg(t)] = job[Bg(t)]
          OBVIOUS
        <4>3. QED
          BY <3>1, <4>1, <4>2 DEF TurnInv, Live
      <3>4. QED
        BY <3>2, <3>3
    <2>2. QED
      BY <2>1 DEF Working
  <1>5. QED
    BY <1>1, <1>2, <1>3, <1>4 DEF Control, LockHeld

(* After a restart nothing runs and no lock is held. *)
LEMMA RestartControl ==
    ASSUME Control, Restart
    PROVE  Control'
  <1>1. /\ pc' = [m \in Messages |-> IF pc[m] \in Busy THEN "lost" ELSE pc[m]]
        /\ procLock' = None /\ consLock' = None
        /\ job' = [j \in Jobs |-> Idle]
        /\ UNCHANGED <<objs, sess, direct>>
    BY DEF Restart
  <1>2. Idle \in JobType /\ Idle.at = "off"
    BY EmptySeq DEF Idle, JobType
  <1>3. /\ pc' \in [Messages -> {"idle"} \cup Busy \cup Over]
        /\ \A m \in Messages : pc'[m] \notin Busy
    BY <1>1 DEF Control, Busy, Over
  <1>4. job' \in [Jobs -> JobType] /\ \A j \in Jobs : job'[j].at = "off"
    BY <1>1, <1>2
  <1>5. Working'
    BY <1>3, <1>4, JobParts DEF Working, TurnInv, Live, Messages
  <1>6. QED
    BY <1>1, <1>3, <1>4, <1>5 DEF Control, LockHeld

-----------------------------------------------------------------------------
(* Type correctness, cache and disk, one consolidation.                    *)

LEMMA IInvInit == Init => IInv
  <1> SUFFICES ASSUME Init PROVE IInv
    OBVIOUS
  <1>1. Store /\ DiskMatchesCache
    BY SessionValues, EmptySeq DEF Init, Store, DiskMatchesCache, Empty, Sessions
  <1>2. Idle \in JobType /\ Idle.at = "off"
    BY EmptySeq DEF Idle, JobType
  <1>3. Control
    <2>1. job \in [Jobs -> JobType] /\ \A j \in Jobs : job[j].at = "off"
      BY <1>2 DEF Init
    <2>2. Working
      BY <2>1, JobParts DEF Init, Working, TurnInv, Live, Messages, Busy
    <2>3. QED
      BY <2>1, <2>2 DEF Init, Control, LockHeld
  <1>4. Records
    <2>1. pending \in [News -> Seq(Turns)]
      BY EmptySeq DEF Init
    <2>2. restarts \in 0..MaxRestarts
      BY RestartsNat DEF Init
    <2>3. QED
      BY <2>1, <2>2 DEF Init, Records
  <1>5. QED
    BY <1>1, <1>3, <1>4 DEF IInv

(* Counting the turns of a slice in HISTORY.md. *)
LEMMA WriteHistoryType ==
    ASSUME archived \in [Turns -> Nat], NEW chunk, WriteHistory(chunk)
    PROVE  /\ archived' \in [Turns -> Nat]
           /\ \A t \in Turns : archived'[t] >= archived[t]
           /\ \A t \in Turns : t \in Elems(chunk) => archived'[t] > 0
  BY DEF WriteHistory

(* A running turn and a job that is not off have a session to work on. *)
LEMMA HasSession ==
    ASSUME IInv
    PROVE  /\ \A t \in Turns : pc[t] \in Busy => objs[sess[t]] \in Sessions /\ sess[t] \in DOMAIN objs
           /\ \A j \in Jobs : job[j].at # "off" =>
                objs[sess[j[1]]] \in Sessions /\ sess[j[1]] \in DOMAIN objs
  <1>1. \A o \in DOMAIN objs : objs[o] \in Sessions
    BY ElementOfSeq, LenProperties DEF IInv, Store
  <1>2. \A t \in Turns : TurnInv(t)
    BY DEF IInv, Control, Working
  <1>3. \A j \in Jobs : job[j].at # "off" => Live(j[1])
    BY <1>2, JobParts DEF TurnInv, Live, Busy
  <1>4. QED
    BY <1>1, <1>2, <1>3, JobParts DEF TurnInv, Live

(* A consolidation step keeps the invariant. *)
LEMMA IInvConsolidation ==
    ASSUME IInv, NEW j \in Jobs, Consolidation(j)
    PROVE  IInv'
  <1>1. CASE Consolidate(j) \/ ConsolidateEmpty(j) \/ ConsolidateFail(j)
    <2>1. /\ job[j].at # "off"
          /\ UNCHANGED <<objs, cache, file, sess, procLock, direct>>
      BY <1>1 DEF Consolidate, ConsolidateEmpty, ConsolidateFail, store, process
    <2>2. ASSUME FinishJob(j) PROVE Control'
      BY <2>1, <2>2, FinishControl DEF IInv
    <2>3. ASSUME consLock = None, AskRound(j, objs[sess[j[1]]]) PROVE Control'
      BY <2>1, <2>3, HasSession, AskControl DEF IInv
    <2>4. Control'
      BY <1>1, <2>2, <2>3 DEF Consolidate, ConsolidateEmpty, ConsolidateFail, IInv
    <2>5. Store' /\ DiskMatchesCache'
      BY <2>1 DEF IInv, Store, DiskMatchesCache
    <2>6. Records'
      BY <1>1 DEF IInv, Records, Consolidate, ConsolidateEmpty, ConsolidateFail, process, ghosts
    <2>7. QED
      BY <2>4, <2>5, <2>6 DEF IInv
  <1>2. CASE ConsolidateOk(j)
    <2> DEFINE o == sess[j[1]]
               s == [objs[o] EXCEPT !.off = job[j].upto]
    <2>1. /\ job[j].at = "asking"
          /\ Save(o, s)
          /\ FinishJob(j) \/ AskRound(j, s)
          /\ WriteHistory(job[j].chunk)
          /\ straddled' = (straddled \/ Straddles(j[1]))
          /\ UNCHANGED <<sess, procLock, pending, redis, restarts, direct, epoch, born>>
      BY <1>2 DEF ConsolidateOk, process
    <2>2. o \in DOMAIN objs /\ s \in Sessions
      <3>1. job[j].upto \in Nat
        BY DEF IInv, Control, JobType
      <3>2. QED
        BY <2>1, <3>1, HasSession, SessionValues
    <2>3. Store' /\ DiskMatchesCache' /\ DOMAIN objs' = DOMAIN objs
      BY <2>1, <2>2, SaveEffect DEF IInv
    <2>4. consLock = j
      BY <2>1 DEF IInv, Control, LockHeld
    <2>5. Control'
      <3>1. CASE FinishJob(j)
        BY <2>1, <2>3, <3>1, FinishControl DEF IInv
      <3>2. CASE AskRound(j, s)
        <4> HIDE DEF s
        <4>1. QED
          BY <2>1, <2>2, <2>3, <2>4, <3>2, AskControl DEF IInv
      <3>3. QED
        BY <2>1, <3>1, <3>2
    <2>6. Records'
      <3>1. archived' \in [Turns -> Nat]
        BY <2>1, WriteHistoryType DEF IInv, Records
      <3>2. QED
        BY <2>1, <3>1 DEF IInv, Records, Straddles
    <2>7. QED
      BY <2>3, <2>5, <2>6 DEF IInv
  <1>3. QED
    BY <1>1, <1>2 DEF Consolidation

(* A step of a turn keeps the invariant. *)
LEMMA IInvTurn ==
    ASSUME IInv, NEW t \in Turns, Turn(t)
    PROVE  IInv'
  <1>0. t \in Messages /\ TurnInv(t)
    BY DEF IInv, Control, Working, Messages
  <1>1. CASE Start(t)
    <2>1. /\ Enter(t) /\ GetOrCreate(t) /\ TakeLock(t) /\ Goto(t, "routing")
          /\ born' = [born EXCEPT ![t] = epoch]
          /\ UNCHANGED <<job, consLock, pending, archived, redis, restarts, direct, epoch, straddled>>
      BY <1>1 DEF Start, process
    <2>2. /\ Store' /\ DiskMatchesCache' /\ DOMAIN objs \subseteq DOMAIN objs'
          /\ cache' \in DOMAIN objs' /\ sess' = [sess EXCEPT ![t] = cache']
      BY <1>0, <2>1, FetchEffect DEF IInv, Control
    <2>3. Control'
      BY <1>0, <2>1, <2>2, FetchControl DEF IInv
    <2>4. Records'
      BY <2>1 DEF IInv, Records
    <2>5. QED
      BY <2>2, <2>3, <2>4 DEF IInv
  <1>2. CASE Shortcut(t)
    <2>1. /\ pc[t] = "routing"
          /\ Save(sess[t], AddTurn(objs[sess[t]], t))
          /\ Goto(t, "saved")
          /\ straddled' = (straddled \/ Straddles(t))
          /\ UNCHANGED <<sess, procLock, job, consLock, pending, archived, redis, restarts, direct,
                         epoch, born>>
      BY <1>2 DEF Shortcut, process
    <2>2. sess[t] \in DOMAIN objs /\ AddTurn(objs[sess[t]], t) \in Sessions
      BY <2>1, HasSession, SessionValues DEF Busy
    <2>3. Store' /\ DiskMatchesCache' /\ DOMAIN objs' = DOMAIN objs
      BY <2>1, <2>2, SaveEffect DEF IInv
    <2>4. Control'
      <3>1. job[Fg(t)].at = "off" /\ job[Bg(t)].at = "off"
        BY <1>0, <2>1 DEF TurnInv, Over
      <3>2. QED
        BY <1>0, <2>1, <2>2, <2>3, <3>1, GotoControl DEF IInv, Busy
    <2>5. Records'
      BY <2>1 DEF IInv, Records, Straddles
    <2>6. QED
      BY <2>3, <2>4, <2>5 DEF IInv
  <1>3. CASE Consult(t)
    <2>1. Control'
      <3>1. /\ pc[t] = "routing" /\ Goto(t, "consolidating")
            /\ job' = [job EXCEPT ![Fg(t)] = Waiting]
            /\ UNCHANGED <<objs, sess, procLock, consLock, direct>>
        BY <1>3 DEF Consult, store, process, Fg
      <3>2. QED
        BY <3>1, ScheduleControl DEF IInv
    <2>2. QED
      BY <1>3, <2>1 DEF Consult, IInv, Store, DiskMatchesCache, Records, store, process, ghosts
  <1>4. CASE Ask(t)
    <2>1. Control'
      <3>1. /\ pc[t] = "prompting" /\ Goto(t, "asking")
            /\ UNCHANGED <<objs, sess, procLock, job, consLock, direct>>
        BY <1>4 DEF Ask, store, process
      <3>2. job[Fg(t)].at = "off" /\ job[Bg(t)].at = "off" /\ sess[t] \in DOMAIN objs
        BY <1>0, <3>1 DEF TurnInv, Live, Over, Busy
      <3>3. QED
        BY <1>0, <3>1, <3>2, GotoControl DEF IInv, Busy
    <2>2. QED
      BY <1>4, <2>1 DEF Ask, IInv, Store, DiskMatchesCache, Records, store, process, ghosts
  <1>5. CASE Reply(t)
    <2>1. /\ pc[t] = "asking"
          /\ Save(sess[t], AddTurn(objs[sess[t]], t))
          /\ Goto(t, "saved")
          /\ job' = [job EXCEPT ![Bg(t)] = Waiting]
          /\ straddled' = (straddled \/ Straddles(t))
          /\ UNCHANGED <<sess, procLock, consLock, pending, archived, redis, restarts, direct,
                         epoch, born>>
      BY <1>5 DEF Reply, process, Bg
    <2>2. sess[t] \in DOMAIN objs /\ AddTurn(objs[sess[t]], t) \in Sessions
      BY <2>1, HasSession, SessionValues DEF Busy
    <2>3. Store' /\ DiskMatchesCache' /\ DOMAIN objs' = DOMAIN objs
      BY <2>1, <2>2, SaveEffect DEF IInv
    <2>4. Control'
      BY <2>1, <2>3, JobParts, ScheduleControl DEF IInv
    <2>5. Records'
      BY <2>1 DEF IInv, Records, Straddles
    <2>6. QED
      BY <2>3, <2>4, <2>5 DEF IInv
  <1>6. CASE Fail(t)
    <2>1. Control'
      <3>1. /\ pc[t] = "asking" /\ Goto(t, "failed") /\ Release(t)
            /\ UNCHANGED <<objs, sess, job, consLock, direct>>
        BY <1>6 DEF Fail, store, process
      <3>2. job[Fg(t)].at = "off" /\ job[Bg(t)].at = "off"
        BY <1>0, <3>1 DEF TurnInv, Over
      <3>3. QED
        BY <1>0, <3>1, <3>2, GotoControl DEF IInv, Busy, Over
    <2>2. QED
      BY <1>6, <2>1 DEF Fail, IInv, Store, DiskMatchesCache, Records, store, process, ghosts
  <1>7. CASE Remember(t)
    <2>1. Control'
      <3>1. /\ pc[t] = "saved" /\ Goto(t, "done") /\ Release(t)
            /\ UNCHANGED <<objs, sess, job, consLock, direct>>
        BY <1>7 DEF Remember, store, process
      <3>2. job[Fg(t)].at = "off"
        BY <1>0, <3>1 DEF TurnInv
      <3>3. QED
        BY <1>0, <3>1, <3>2, GotoControl DEF IInv, Busy, Over
    <2>2. redis' \in SUBSET Turns
      BY <1>7 DEF Remember, IInv, Records
    <2>3. QED
      BY <1>7, <2>1, <2>2 DEF Remember, IInv, Store, DiskMatchesCache, Records, store, process, ghosts
  <1>8. QED
    BY <1>1, <1>2, <1>3, <1>4, <1>5, <1>6, <1>7 DEF Turn

(* The session that /new clears: the cached one, or one loaded for it. *)
Loaded == IF cache # None THEN objs ELSE Append(objs, file)
Cleared == IF cache # None THEN cache ELSE Len(Loaded)

LEMMA NewEffect ==
    ASSUME IInv, NEW n \in News, New(n)
    PROVE  /\ Enter(n) /\ Goto(n, "done")
           /\ sess' = [sess EXCEPT ![n] = Cleared]
           /\ Cleared \in DOMAIN objs' /\ DOMAIN objs \subseteq DOMAIN objs'
           /\ objs' \in Seq(Sessions)
           /\ file' = Empty /\ cache' = None
           /\ pending' \in [News -> Seq(Turns)]
           /\ pending' = [pending EXCEPT ![n] = History(file)]
           /\ epoch' = epoch + 1
           /\ UNCHANGED <<procLock, job, consLock, archived, redis, restarts, direct, born, straddled>>
  <1>1. /\ Enter(n) /\ Goto(n, "done")
        /\ objs' = [Loaded EXCEPT ![Cleared] = Empty]
        /\ sess' = [sess EXCEPT ![n] = Cleared]
        /\ pending' = [pending EXCEPT ![n] = History(Loaded[Cleared])]
        /\ file' = Empty /\ cache' = None
        /\ epoch' = epoch + 1
        /\ UNCHANGED <<procLock, job, consLock, archived, redis, restarts, direct, born, straddled>>
    BY DEF New, Loaded, Cleared, process
  <1>2. Store
    BY DEF IInv
  <1>3. /\ Loaded \in Seq(Sessions) /\ Cleared \in DOMAIN Loaded
        /\ DOMAIN objs \subseteq DOMAIN Loaded
    <2>1. CASE cache # None
      BY <1>2, <2>1 DEF Store, Loaded, Cleared
    <2>2. CASE cache = None
      BY <1>2, <2>2, LoadEffect DEF Loaded, Cleared
    <2>3. QED
      BY <2>1, <2>2
  <1>4. Cleared \in 1..Len(Loaded) /\ Empty \in Sessions
    <2>1. Empty \in Sessions
      BY EmptySeq DEF Empty, Sessions
    <2>2. QED
      BY <1>3, <2>1, LenProperties
  <1>5. objs' \in Seq(Sessions) /\ DOMAIN objs' = DOMAIN Loaded
    BY <1>1, <1>3, <1>4, ExceptSeq
  <1>6. pending' \in [News -> Seq(Turns)]
    <2>1. Loaded[Cleared] \in Sessions
      BY <1>3, <1>4, ElementOfSeq
    <2>2. History(Loaded[Cleared]) \in Seq(Turns)
      BY <2>1, SessionValues
    <2>3. QED
      BY <1>1, <2>2 DEF IInv, Records
  <1>7. Loaded[Cleared] = file
    <2>1. CASE cache # None
      BY <2>1 DEF IInv, DiskMatchesCache, Loaded, Cleared
    <2>2. CASE cache = None
      BY <1>2, <2>2, LoadEffect DEF Loaded, Cleared
    <2>3. QED
      BY <2>1, <2>2
  <1>8. QED
    BY <1>1, <1>3, <1>5, <1>6, <1>7

(* /new keeps the invariant. *)
LEMMA IInvNew ==
    ASSUME IInv, NEW n \in News, New(n)
    PROVE  IInv'
  <1>1. /\ Enter(n) /\ Goto(n, "done")
        /\ sess' = [sess EXCEPT ![n] = Cleared]
        /\ Cleared \in DOMAIN objs' /\ DOMAIN objs \subseteq DOMAIN objs'
        /\ objs' \in Seq(Sessions) /\ file' = Empty /\ cache' = None
        /\ pending' \in [News -> Seq(Turns)]
        /\ epoch' = epoch + 1
        /\ UNCHANGED <<procLock, job, consLock, archived, redis, restarts, direct, born, straddled>>
    BY NewEffect
  <1>2. Control'
    <2>1. n \in Messages /\ Control
      BY DEF Messages, IInv
    <2>2. QED
      BY <1>1, <2>1, FetchControl
  <1>3. Store' /\ DiskMatchesCache'
    BY <1>1, EmptySeq DEF Store, DiskMatchesCache, Empty, Sessions
  <1>4. Records'
    BY <1>1 DEF IInv, Records
  <1>5. QED
    BY <1>2, <1>3, <1>4 DEF IInv

LEMMA IInvNext == IInv /\ [Next]_vars => IInv'
  <1> SUFFICES ASSUME IInv, [Next]_vars PROVE IInv'
    OBVIOUS
  <1>1. ASSUME NEW t \in Turns, Turn(t) PROVE IInv'
    BY <1>1, IInvTurn
  <1>2. ASSUME NEW m \in Messages, Stop(m) PROVE IInv'
    <2>1. Control'
      BY <1>2, StopControl DEF IInv
    <2>2. QED
      BY <1>2, <2>1 DEF Stop, IInv, Store, DiskMatchesCache, Records, store, process, ghosts
  <1>3. ASSUME NEW j \in Jobs, Consolidation(j) PROVE IInv'
    BY <1>3, IInvConsolidation
  <1>4. ASSUME NEW n \in News, New(n) PROVE IInv'
    BY <1>4, IInvNew
  <1>5. ASSUME NEW n \in News, Archive(n) PROVE IInv'
    <2>1. /\ UNCHANGED <<objs, cache, file, pc, sess, procLock, job, consLock, redis, restarts,
                          direct, epoch, born, straddled>>
          /\ pending' = [pending EXCEPT ![n] = <<>>]
          /\ WriteHistory(pending[n]) \/ UNCHANGED archived
      BY <1>5 DEF Archive, store, process, ghosts
    <2>2. archived' \in [Turns -> Nat]
      BY <2>1, WriteHistoryType DEF IInv, Records
    <2>3. pending' \in [News -> Seq(Turns)]
      BY <2>1, EmptySeq DEF IInv, Records
    <2>4. Control'
      BY <2>1 DEF IInv, Control, Working, TurnInv, Live, LockHeld
    <2>5. QED
      BY <2>1, <2>2, <2>3, <2>4 DEF IInv, Store, DiskMatchesCache, Records
  <1>6. CASE Restart
    <2>1. Control'
      BY <1>6, RestartControl DEF IInv
    <2>2. /\ restarts < MaxRestarts /\ restarts' = restarts + 1
          /\ cache' = None
          /\ pending' = [n \in News |-> <<>>]
          /\ UNCHANGED <<objs, file, archived, redis, epoch, born, straddled>>
      BY <1>6 DEF Restart, ghosts
    <2>3. pending' \in [News -> Seq(Turns)]
      BY <2>2, EmptySeq
    <2>4. restarts' \in 0..MaxRestarts
      BY <2>2, RestartsNat DEF IInv, Records
    <2>5. QED
      BY <2>1, <2>2, <2>3, <2>4 DEF IInv, Store, DiskMatchesCache, Records
  <1>7. CASE UNCHANGED vars
    <2>1. UNCHANGED <<objs, cache, file, pc, sess, procLock, job, consLock, pending, archived,
                      redis, restarts, direct, epoch, born, straddled>>
      BY <1>7 DEF vars
    <2>2. Control'
      BY <2>1 DEF IInv, Control, Working, TurnInv, Live, LockHeld
    <2>3. QED
      BY <2>1, <2>2 DEF IInv, Store, DiskMatchesCache, Records
  <1>8. QED
    BY <1>1, <1>2, <1>3, <1>4, <1>5, <1>6, <1>7 DEF Next, Quiet

LEMMA Invariant == Spec => []IInv
  BY IInvInit, IInvNext, PTL DEF Spec

(* The state keeps its shape: handlers and jobs hold objects that exist, and  *)
(* a lock is held only by a message that is being handled or by a job that    *)
(* asks the model - whatever is cancelled or restarted.                       *)
THEOREM TypeCorrect == Spec => []TypeOK
  <1>1. IInv => TypeOK
    BY DEF IInv, Store, Control, Records, TypeOK, JobType
  <1>2. QED
    BY <1>1, Invariant, PTL

(* What is cached is what is on disk, for any number of messages and /new:    *)
(* no handler holding an old session object can bring the two apart.          *)
THEOREM CacheIsDisk == Spec => []DiskMatchesCache
  <1>1. IInv => DiskMatchesCache
    BY DEF IInv
  <1>2. QED
    BY <1>1, Invariant, PTL

(* Two consolidations never ask the model at the same time, foreground or     *)
(* background, through cancellations and restarts.                            *)
THEOREM OneAtATime == Spec => []OneConsolidation
  <1>1. IInv => OneConsolidation
    BY DEF IInv, Control, LockHeld, OneConsolidation
  <1>2. QED
    BY <1>1, Invariant, PTL

-----------------------------------------------------------------------------
(* What a session keeps.                                                   *)

(* While nothing straddles a /new, the handlers and jobs of the current       *)
(* conversation all hold the cached object.                                   *)
Current == straddled \/ \A t \in Turns : Live(t) /\ born[t] = epoch => sess[t] = cache

(* The slice that is being consolidated is what the file will hide. *)
Covers(j) ==
    /\ job[j].upto \in 0..Len(file.msgs)
    /\ \A k \in (file.off + 1)..job[j].upto : file.msgs[k] \in Elems(job[j].chunk)

ChunkCovers ==
    straddled \/ \A j \in Jobs : job[j].at = "asking" /\ born[j[1]] = epoch => Covers(j)

KInv ==
    /\ \A t \in Turns : born[t] <= epoch
    /\ Current
    /\ ChunkCovers
    /\ TurnKept
    /\ HiddenWasArchived

LEMMA KInvInit == Init => KInv
  <1> SUFFICES ASSUME Init PROVE KInv
    OBVIOUS
  <1>1. \A t \in Turns : born[t] = 0 /\ epoch = 0 /\ pc[t] = "idle"
    BY DEF Init, Messages
  <1>2. \A j \in Jobs : job[j].at = "off"
    BY DEF Init, Idle
  <1>3. Current /\ ChunkCovers /\ TurnKept
    BY <1>1, <1>2, JobParts DEF Current, ChunkCovers, TurnKept, Live, Busy
  <1>4. HiddenWasArchived
    <2>1. file.off = 0 /\ file.msgs = <<>>
      BY DEF Init, Empty
    <2>2. Len(file.msgs) = 0 /\ Hidden(file) = {}
      BY <2>1 DEF Hidden
    <2>3. QED
      BY <2>1, <2>2 DEF HiddenWasArchived
  <1>5. QED
    BY <1>1, <1>3, <1>4 DEF KInv

(* A step that starts nothing and saves nothing keeps what KInv says. *)
LEMMA KInvQuiet ==
    ASSUME IInv, KInv, UNCHANGED <<file, epoch, born, straddled>>,
           \A t \in Turns : Live(t)' => Live(t) /\ sess'[t] = sess[t] /\ cache' = cache,
           \A t \in Turns : pc'[t] \in {"saved", "done"} => pc[t] \in {"saved", "done"},
           \A j \in Jobs : job'[j].at = "asking" => job'[j] = job[j],
           \A t \in Turns : archived'[t] >= archived[t],
           archived \in [Turns -> Nat], archived' \in [Turns -> Nat]
    PROVE  KInv'
  <1>1. (\A t \in Turns : born[t] <= epoch)'
    BY DEF KInv
  <1>2. Current'
    BY DEF KInv, Current
  <1>3. ChunkCovers'
    BY DEF KInv, ChunkCovers, Covers
  <1>4. TurnKept'
    BY DEF KInv, TurnKept
  <1>5. HiddenWasArchived'
    <2>1. \A k \in DOMAIN file.msgs : file.msgs[k] \in Turns
      BY ElementOfSeq, LenProperties DEF IInv, Store, Sessions
    <2>2. Hidden(file) \subseteq Turns
      BY <2>1 DEF Hidden
    <2>3. \A t \in Turns : archived[t] > 0 => archived'[t] > 0
      OBVIOUS
    <2>4. QED
      BY <2>2, <2>3 DEF KInv, HiddenWasArchived, Hidden
  <1>6. QED
    BY <1>1, <1>2, <1>3, <1>4, <1>5 DEF KInv

(* Without straddling, a handler of this conversation works on the file. *)
LEMMA OwnSession ==
    ASSUME IInv, KInv, NEW t \in Turns, Live(t), ~straddled, born[t] = epoch
    PROVE  sess[t] = cache /\ objs[sess[t]] = file
  <1>1. sess[t] = cache /\ sess[t] \in DOMAIN objs
    BY DEF KInv, Current, IInv, Control, Working, TurnInv
  <1>2. cache # None
    BY <1>1, NoneIsNothing, LenProperties DEF IInv, Store
  <1>3. QED
    BY <1>1, <1>2 DEF IInv, DiskMatchesCache

(* The slice of a round covers what its end will hide. *)
LEMMA AskCovers ==
    ASSUME NEW s \in Sessions, NEW e \in (s.off + 1)..(Len(s.msgs) - 1)
    PROVE  /\ Asking(s, e).upto \in 0..Len(s.msgs)
           /\ \A k \in (s.off + 1)..Asking(s, e).upto : s.msgs[k] \in Elems(Asking(s, e).chunk)
  <1> DEFINE c == SubSeq(s.msgs, s.off + 1, e)
  <1>1. /\ s.msgs \in Seq(Turns) /\ s.off \in Nat /\ Len(s.msgs) \in Nat /\ e \in Nat
        /\ Asking(s, e).upto = e /\ Asking(s, e).chunk = c
    BY LenProperties DEF Sessions, Asking
  <1>2. \A i \in (s.off + 1)..e : s.msgs[i] \in Turns
    BY <1>1, ElementOfSeq
  <1>3. /\ c \in Seq(Turns) /\ Len(c) = e - s.off
        /\ \A i \in 1..(e - s.off) : c[i] = s.msgs[s.off + i]
    <2>1. /\ c \in Seq(Turns)
          /\ Len(c) = IF s.off + 1 <= e THEN e - (s.off + 1) + 1 ELSE 0
          /\ \A i \in 1..(e - (s.off + 1) + 1) : c[i] = s.msgs[(s.off + 1) + i - 1]
      <3>1. s.off + 1 \in Int /\ e \in Int
        BY <1>1
      <3> HIDE DEF c
      <3>2. c = SubSeq(s.msgs, s.off + 1, e)
        BY DEF c
      <3>3. QED
        BY <1>2, <3>1, <3>2, SubSeqProperties
    <2>2. e - (s.off + 1) + 1 = e - s.off /\ s.off + 1 <= e
      BY <1>1
    <2>3. ASSUME NEW i \in 1..(e - s.off) PROVE c[i] = s.msgs[s.off + i]
      <3>1. i \in 1..(e - (s.off + 1) + 1) /\ (s.off + 1) + i - 1 = s.off + i
        BY <1>1, <2>2
      <3>2. QED
        BY <2>1, <3>1
    <2>4. QED
      BY <2>1, <2>2, <2>3
  <1>4. ASSUME NEW k \in (s.off + 1)..e PROVE s.msgs[k] \in Elems(c)
    <2>1. k - s.off \in 1..(e - s.off) /\ s.off + (k - s.off) = k
      BY <1>1
    <2>2. k - s.off \in DOMAIN c /\ c[k - s.off] = s.msgs[k]
      BY <1>1, <1>3, <2>1, LenProperties
    <2>3. QED
      BY <2>2 DEF Elems
  <1>5. QED
    BY <1>1, <1>4

(* What saving a turn adds to the file, and what it keeps of it. *)
LEMMA AddTurnEffect ==
    ASSUME NEW s \in Sessions, NEW t \in Turns
    PROVE  /\ AddTurn(s, t).off = s.off
           /\ Len(AddTurn(s, t).msgs) = Len(s.msgs) + 1
           /\ \A k \in 1..Len(s.msgs) : AddTurn(s, t).msgs[k] = s.msgs[k]
           /\ t \in Elems(AddTurn(s, t).msgs)
           /\ Elems(s.msgs) \subseteq Elems(AddTurn(s, t).msgs)
  <1>1. s.msgs \in Seq(Turns) /\ s.off \in Nat /\ Len(s.msgs) \in Nat
    BY LenProperties DEF Sessions
  <1> DEFINE a == Append(s.msgs, t)
  <1>2. AddTurn(s, t).off = s.off /\ AddTurn(s, t).msgs = a
    BY DEF AddTurn, Sessions
  <1>3. /\ a \in Seq(Turns) /\ Len(a) = Len(s.msgs) + 1
        /\ \A k \in 1..Len(s.msgs) : a[k] = s.msgs[k]
        /\ a[Len(s.msgs) + 1] = t
    BY <1>1, AppendProperties
  <1>4. DOMAIN a = 1..(Len(s.msgs) + 1) /\ DOMAIN s.msgs = 1..Len(s.msgs)
    BY <1>1, <1>3, LenProperties
  <1> HIDE DEF a
  <1>5. t \in Elems(a)
    BY <1>1, <1>3, <1>4 DEF Elems
  <1>6. Elems(s.msgs) \subseteq Elems(a)
    <2>1. ASSUME NEW k \in DOMAIN s.msgs PROVE s.msgs[k] \in Elems(a)
      <3>1. k \in DOMAIN a /\ a[k] = s.msgs[k]
        BY <1>1, <1>3, <1>4
      <3>2. QED
        BY <3>1 DEF Elems
    <2>2. QED
      BY <2>1 DEF Elems
  <1>7. QED
    BY <1>2, <1>3, <1>5, <1>6

(* A turn that is saved keeps what KInv says: it extends the file, or it      *)
(* straddles a /new.                                                       *)
LEMMA KInvSave ==
    ASSUME IInv, KInv, NEW t \in Turns, Live(t),
           Save(sess[t], AddTurn(objs[sess[t]], t)), Goto(t, "saved"),
           straddled' = (straddled \/ Straddles(t)),
           UNCHANGED <<sess, archived, epoch, born>>,
           \A u \in Turns : Live(u)' => Live(u),
           \A j \in Jobs : job'[j].at = "asking" => job'[j] = job[j]
    PROVE  KInv'
  <1>1. (\A u \in Turns : born[u] <= epoch)'
    BY DEF KInv
  <1>2. CASE straddled'
    BY <1>1, <1>2 DEF KInv, Current, ChunkCovers, TurnKept, HiddenWasArchived
  <1>3. CASE ~straddled'
    <2>1. ~straddled /\ ~straddled' /\ born[t] = epoch
      BY <1>3 DEF Straddles
    <2>2. sess[t] = cache /\ objs[sess[t]] = file
      BY <2>1, OwnSession
    <2>3. cache' = cache /\ file' = AddTurn(file, t)
      BY <2>2 DEF Save
    <2>4. file \in Sessions /\ file.off \in Nat /\ Len(file.msgs) \in Nat /\ file.msgs \in Seq(Turns)
      BY LenProperties DEF IInv, Store, Sessions
    <2>5. /\ file'.off = file.off
          /\ Len(file'.msgs) = Len(file.msgs) + 1
          /\ \A k \in 1..Len(file.msgs) : file'.msgs[k] = file.msgs[k]
          /\ t \in Elems(file'.msgs)
          /\ Elems(file.msgs) \subseteq Elems(file'.msgs)
      BY <2>3, <2>4, AddTurnEffect
    <2>6. Current'
      BY <2>1, <2>3 DEF KInv, Current
    <2>7. TurnKept'
      <3>1. \A u \in Turns : u # t => pc'[u] = pc[u]
        BY DEF Goto, IInv, Control, Messages
      <3>2. QED
        BY <2>1, <2>5, <3>1 DEF KInv, TurnKept
    <2>8. ChunkCovers'
      <3>1. ASSUME NEW j \in Jobs, job'[j].at = "asking", born[j[1]] = epoch PROVE Covers(j)'
        <4>1. job'[j] = job[j] /\ Covers(j)
          BY <2>1, <3>1 DEF KInv, ChunkCovers
        <4>2. job'[j].upto \in 0..Len(file'.msgs)
          BY <2>4, <2>5, <4>1 DEF Covers
        <4>3. \A k \in (file'.off + 1)..job'[j].upto : file'.msgs[k] \in Elems(job'[j].chunk)
          BY <2>4, <2>5, <4>1 DEF Covers
        <4>4. QED
          BY <4>2, <4>3 DEF Covers
      <3>2. QED
        BY <3>1 DEF ChunkCovers
    <2>9. HiddenWasArchived'
      <3>1. file.off <= Len(file.msgs) /\ \A u \in Hidden(file) : archived[u] > 0
        BY <2>1 DEF KInv, HiddenWasArchived
      <3>2. DOMAIN file'.msgs = 1..(Len(file.msgs) + 1) /\ DOMAIN file.msgs = 1..Len(file.msgs)
        <4>1. file'.msgs \in Seq(Turns)
          BY <2>3, <2>4, SessionValues DEF Sessions
        <4>2. QED
          BY <2>4, <2>5, <4>1, LenProperties
      <3>3. ASSUME NEW k \in DOMAIN file'.msgs, k <= file'.off
            PROVE  file'.msgs[k] \in Hidden(file)
        <4>1. k \in DOMAIN file.msgs /\ k <= file.off /\ file'.msgs[k] = file.msgs[k]
          BY <2>4, <2>5, <3>1, <3>2, <3>3
        <4>2. QED
          BY <4>1 DEF Hidden
      <3>4. \A u \in Hidden(file') : u \in Hidden(file)
        BY <3>3 DEF Hidden
      <3>5. file'.off <= Len(file'.msgs)
        BY <2>4, <2>5, <3>1
      <3>6. QED
        BY <3>1, <3>4, <3>5 DEF HiddenWasArchived
    <2>10. QED
      BY <1>1, <2>6, <2>7, <2>8, <2>9 DEF KInv
  <1>4. QED
    BY <1>2, <1>3

(* What a job that ends or asks again does to the places and the jobs. *)
LEMMA JobStep ==
    ASSUME IInv, NEW j \in Jobs, job[j].at # "off", NEW s,
           FinishJob(j) \/ AskRound(j, s)
    PROVE  /\ \A t \in Turns : pc'[t] \in {"saved", "done"} => pc[t] = pc'[t]
           /\ \A t \in Turns : Live(t)' => Live(t)
           /\ \A i \in Jobs : i # j => job'[i] = job[i]
           /\ FinishJob(j) => job'[j].at = "off"
  <1>1. \A t \in Turns : TurnInv(t) /\ t \in Messages
    BY DEF IInv, Control, Working, Messages
  <1>2. CASE FinishJob(j)
    <2>1. /\ job' = [job EXCEPT ![j] = Idle]
          /\ pc' = IF j[2] = "fg" THEN [pc EXCEPT ![j[1]] = "prompting"] ELSE pc
      BY <1>2 DEF FinishJob
    <2>2. Idle.at = "off"
      BY DEF Idle
    <2>3. \A i \in Jobs : job'[i] = IF i = j THEN Idle ELSE job[i]
      BY <2>1 DEF IInv, Control
    <2>4. \A t \in Turns : pc'[t] = IF j = Fg(t) THEN "prompting" ELSE pc[t]
      <3>1. ASSUME NEW t \in Turns PROVE (j[2] = "fg" /\ j[1] = t) <=> j = Fg(t)
        BY JobParts DEF Fg, Bg
      <3>2. QED
        BY <1>1, <2>1, <3>1, JobParts DEF IInv, Control
    <2>5. \A t \in Turns : j = Fg(t) => pc[t] \in Busy
      BY <1>1 DEF TurnInv, Busy
    <2>6. \A t \in Turns : Live(t)' => Live(t)
      BY <2>2, <2>3, <2>4, <2>5, JobParts DEF Live
    <2>7. QED
      BY <2>2, <2>3, <2>4, <2>6
  <1>3. CASE AskRound(j, s)
    <2>1. PICK e \in (s.off + 1)..(Len(s.msgs) - 1) :
            job' = [job EXCEPT ![j] = Asking(s, e)] /\ pc' = pc
      BY <1>3 DEF AskRound
    <2>2. \A i \in Jobs : job'[i] = IF i = j THEN Asking(s, e) ELSE job[i]
      BY <2>1 DEF IInv, Control
    <2>3. ~FinishJob(j)
      <3>1. job'[j].at = "asking"
        BY <2>2 DEF Asking
      <3>2. CASE FinishJob(j)
        BY <3>1, <3>2 DEF FinishJob, Idle, IInv, Control
      <3>3. QED
        BY <3>2
    <2>4. QED
      BY <2>1, <2>2, <2>3, JobParts DEF Live
  <1>4. QED
    BY <1>2, <1>3

(* The end of a round: the offset hides what the slice had in HISTORY.md. *)
LEMMA KInvConsolidateOk ==
    ASSUME IInv, KInv, NEW j \in Jobs, ConsolidateOk(j)
    PROVE  KInv'
  <1> DEFINE o == sess[j[1]]
             s == [objs[o] EXCEPT !.off = job[j].upto]
  <1>1. /\ job[j].at = "asking"
        /\ Save(o, s)
        /\ FinishJob(j) \/ AskRound(j, s)
        /\ WriteHistory(job[j].chunk)
        /\ straddled' = (straddled \/ Straddles(j[1]))
        /\ UNCHANGED <<sess, epoch, born>>
    BY DEF ConsolidateOk
  <1>2. (\A u \in Turns : born[u] <= epoch)'
    BY <1>1 DEF KInv
  <1>3. CASE straddled'
    BY <1>2, <1>3 DEF KInv, Current, ChunkCovers, TurnKept, HiddenWasArchived
  <1>4. CASE ~straddled'
    <2>1. ~straddled /\ born[j[1]] = epoch
      BY <1>1, <1>4 DEF Straddles
    <2>2. Live(j[1])
      <3>1. TurnInv(j[1])
        BY JobParts DEF IInv, Control, Working
      <3>2. QED
        BY <1>1, <3>1, JobParts DEF TurnInv, Live, Busy
    <2>3. o = cache /\ objs[o] = file
      BY <2>1, <2>2, OwnSession, JobParts
    <2>4. cache' = cache /\ file' = [file EXCEPT !.off = job[j].upto] /\ file' = s
      BY <1>1, <2>3 DEF Save
    <2>5. /\ file \in Sessions /\ file.off \in Nat /\ Len(file.msgs) \in Nat
          /\ DOMAIN file.msgs = 1..Len(file.msgs)
          /\ job[j].upto \in Nat
      BY LenProperties DEF IInv, Store, Sessions, Control, JobType
    <2>6. file' \in Sessions /\ file'.msgs = file.msgs /\ file'.off = job[j].upto
      BY <2>4, <2>5 DEF Sessions
    <2>7. /\ \A t \in Turns : pc'[t] \in {"saved", "done"} => pc[t] = pc'[t]
          /\ \A t \in Turns : Live(t)' => Live(t)
          /\ \A i \in Jobs : i # j => job'[i] = job[i]
          /\ FinishJob(j) => job'[j].at = "off"
      <3> HIDE DEF s
      <3>1. QED
        BY <1>1, JobStep
    <2>8. Current'
      BY <1>1, <2>1, <2>4, <2>7 DEF KInv, Current
    <2>9. TurnKept'
      BY <1>1, <2>1, <2>6, <2>7 DEF KInv, TurnKept
    <2>10. ChunkCovers'
      <3>1. \A i \in Jobs : i # j => job'[i].at # "asking"
        BY <1>1, <2>7, JobParts DEF IInv, Control, LockHeld
      <3>2. ASSUME job'[j].at = "asking" PROVE Covers(j)'
        <4>1. AskRound(j, file')
          BY <1>1, <2>4, <2>7, <3>2
        <4>2. PICK e \in (file'.off + 1)..(Len(file'.msgs) - 1) : job'[j] = Asking(file', e)
          BY <4>1 DEF AskRound, IInv, Control
        <4>3. /\ job'[j].upto \in 0..Len(file'.msgs)
              /\ \A k \in (file'.off + 1)..job'[j].upto : file'.msgs[k] \in Elems(job'[j].chunk)
          BY <2>6, <4>2, AskCovers
        <4>4. QED
          BY <4>3 DEF Covers
      <3>3. QED
        BY <3>1, <3>2 DEF ChunkCovers
    <2>11. HiddenWasArchived'
      <3>1. /\ file.off <= Len(file.msgs)
            /\ \A u \in Hidden(file) : archived[u] > 0
        BY <2>1 DEF KInv, HiddenWasArchived
      <3>2. Covers(j)
        BY <1>1, <2>1 DEF KInv, ChunkCovers
      <3>3. /\ \A t \in Turns : archived[t] \in Nat /\ archived'[t] \in Nat
            /\ \A t \in Turns : archived'[t] >= archived[t]
            /\ \A t \in Turns : t \in Elems(job[j].chunk) => archived'[t] > 0
        <4>1. archived \in [Turns -> Nat]
          BY DEF IInv, Records
        <4>2. QED
          BY <1>1, <4>1, WriteHistoryType
      <3>4. ASSUME NEW k \in DOMAIN file.msgs, k <= job[j].upto PROVE archived'[file.msgs[k]] > 0
        <4>1. file.msgs[k] \in Turns
          BY <2>5, ElementOfSeq DEF Sessions
        <4>2. CASE k <= file.off
          <5>1. file.msgs[k] \in Hidden(file)
            BY <4>2 DEF Hidden
          <5>2. QED
            BY <3>1, <3>3, <4>1, <5>1
        <4>3. CASE ~(k <= file.off)
          <5>1. k \in (file.off + 1)..job[j].upto
            BY <2>5, <3>4, <4>3
          <5>2. QED
            BY <3>2, <3>3, <4>1, <5>1 DEF Covers
        <4>4. QED
          BY <4>2, <4>3
      <3>5. \A u \in Hidden(file') : archived'[u] > 0
        BY <2>6, <3>4 DEF Hidden
      <3>6. file'.off <= Len(file'.msgs)
        BY <2>5, <2>6, <3>2 DEF Covers
      <3>7. QED
        BY <3>5, <3>6 DEF HiddenWasArchived
    <2>12. QED
      BY <1>2, <2>8, <2>9, <2>10, <2>11 DEF KInv
  <1>5. QED
    BY <1>3, <1>4

(* The other consolidation steps save nothing; a slice they cut is covered. *)
LEMMA KInvConsolidate ==
    ASSUME IInv, KInv, NEW j \in Jobs,
           Consolidate(j) \/ ConsolidateEmpty(j) \/ ConsolidateFail(j)
    PROVE  KInv'
  <1> DEFINE s == objs[sess[j[1]]]
  <1>1. /\ job[j].at # "off"
        /\ FinishJob(j) \/ (consLock = None /\ AskRound(j, s))
        /\ UNCHANGED <<objs, cache, file, sess, archived, epoch, born, straddled>>
    BY DEF Consolidate, ConsolidateEmpty, ConsolidateFail, store, ghosts
  <1>2. /\ \A t \in Turns : pc'[t] \in {"saved", "done"} => pc[t] = pc'[t]
        /\ \A t \in Turns : Live(t)' => Live(t)
        /\ \A i \in Jobs : i # j => job'[i] = job[i]
        /\ FinishJob(j) => job'[j].at = "off"
    <2> HIDE DEF s
    <2>1. QED
      BY <1>1, JobStep
  <1>3. archived \in [Turns -> Nat] /\ \A t \in Turns : archived'[t] >= archived[t]
    BY <1>1 DEF IInv, Records
  <1>4. CASE FinishJob(j)
    <2>1. \A i \in Jobs : job'[i].at = "asking" => job'[i] = job[i]
      BY <1>2, <1>4
    <2>2. QED
      BY <1>1, <1>2, <1>3, <2>1, KInvQuiet
  <1>5. CASE consLock = None /\ AskRound(j, s)
    <2>1. (\A t \in Turns : born[t] <= epoch)' /\ Current' /\ TurnKept' /\ HiddenWasArchived'
      BY <1>1, <1>2 DEF KInv, Current, TurnKept, HiddenWasArchived, Hidden
    <2>2. ChunkCovers'
      <3>1. \A i \in Jobs : i # j => job'[i].at # "asking"
        BY <1>2, <1>5, JobParts DEF IInv, Control, LockHeld
      <3>2. ASSUME ~straddled, born[j[1]] = epoch PROVE Covers(j)'
        <4>1. Live(j[1])
          <5>1. TurnInv(j[1])
            BY JobParts DEF IInv, Control, Working
          <5>2. QED
            BY <1>1, <5>1, JobParts DEF TurnInv, Live, Busy
        <4>2. s = file /\ file \in Sessions
          BY <3>2, <4>1, OwnSession, JobParts DEF IInv, Store
        <4>3. PICK e \in (file.off + 1)..(Len(file.msgs) - 1) : job'[j] = Asking(file, e)
          BY <1>5, <4>2 DEF AskRound, IInv, Control
        <4>4. /\ job'[j].upto \in 0..Len(file.msgs)
              /\ \A k \in (file.off + 1)..job'[j].upto : file.msgs[k] \in Elems(job'[j].chunk)
          BY <4>2, <4>3, AskCovers
        <4>5. QED
          BY <1>1, <4>4 DEF Covers
      <3>3. QED
        BY <1>1, <3>1, <3>2 DEF ChunkCovers
    <2>3. QED
      BY <2>1, <2>2 DEF KInv
  <1>6. QED
    BY <1>1, <1>4, <1>5

(* A turn begins in the current conversation, with the cached object. *)
LEMMA KInvStart ==
    ASSUME IInv, KInv, NEW t \in Turns, Start(t)
    PROVE  KInv'
  <1>1. /\ pc[t] = "idle" /\ GetOrCreate(t) /\ Goto(t, "routing")
        /\ born' = [born EXCEPT ![t] = epoch]
        /\ UNCHANGED <<job, archived, epoch, straddled>>
    BY DEF Start, Enter
  <1>2. /\ cache # None => cache' = cache
        /\ sess' = [sess EXCEPT ![t] = cache']
        /\ file' = file
    BY <1>1, FetchEffect DEF IInv, Control, Messages
  <1>3. /\ \A u \in Turns : TurnInv(u) /\ u \in Messages
        /\ born \in [Turns -> Nat] /\ epoch \in Nat
    BY DEF IInv, Control, Working, Messages, Records
  <1>4. job[Fg(t)].at = "off" /\ job[Bg(t)].at = "off"
    BY <1>1, <1>3 DEF TurnInv, Over
  <1>5. \A u \in Turns : pc'[u] = IF u = t THEN "routing" ELSE pc[u]
    BY <1>1, <1>3 DEF Goto, IInv, Control
  <1>6. \A u \in Turns : born'[u] = IF u = t THEN epoch ELSE born[u]
    BY <1>1, <1>3
  <1>7. (\A u \in Turns : born[u] <= epoch)'
    BY <1>1, <1>3, <1>6 DEF KInv
  <1>8. Current'
    <2>1. ASSUME ~straddled, NEW u \in Turns, Live(u)', born'[u] = epoch PROVE sess'[u] = cache'
      <3>1. CASE u = t
        BY <1>2, <1>3, <3>1 DEF IInv, Control
      <3>2. CASE u # t
        <4>1. Live(u) /\ born[u] = epoch
          BY <1>1, <1>5, <1>6, <2>1, <3>2 DEF Live
        <4>2. sess[u] = cache /\ sess[u] \in DOMAIN objs
          BY <1>3, <2>1, <4>1 DEF KInv, Current, TurnInv
        <4>3. cache # None
          BY <4>2, NoneIsNothing, LenProperties DEF IInv, Store
        <4>4. sess'[u] = sess[u]
          BY <1>2, <1>3, <3>2 DEF IInv, Control
        <4>5. QED
          BY <1>2, <4>2, <4>3, <4>4
      <3>3. QED
        BY <3>1, <3>2
    <2>2. QED
      BY <1>1, <2>1 DEF Current
  <1>9. ChunkCovers'
    <2>1. \A j \in Jobs : job[j].at = "asking" => j[1] # t
      BY <1>4, JobParts
    <2>2. QED
      BY <1>1, <1>2, <1>6, <2>1, JobParts DEF KInv, ChunkCovers, Covers
  <1>10. TurnKept'
    BY <1>1, <1>2, <1>5, <1>6 DEF KInv, TurnKept
  <1>11. HiddenWasArchived'
    BY <1>1, <1>2 DEF KInv, HiddenWasArchived, Hidden
  <1>12. QED
    BY <1>7, <1>8, <1>9, <1>10, <1>11 DEF KInv

(* /new: the file is empty, and whatever still runs belongs to the past. *)
LEMMA KInvNew ==
    ASSUME IInv, KInv, NEW n \in News, New(n)
    PROVE  KInv'
  <1>1. /\ file' = Empty /\ epoch' = epoch + 1
        /\ UNCHANGED <<archived, born, straddled>>
    BY NewEffect
  <1>2. \A t \in Turns : born'[t] < epoch' /\ born'[t] # epoch'
    BY <1>1 DEF KInv, IInv, Records
  <1>3. (\A t \in Turns : born[t] <= epoch)'
    BY <1>1 DEF KInv, IInv, Records
  <1>4. Current' /\ ChunkCovers' /\ TurnKept'
    BY <1>2, JobParts DEF Current, ChunkCovers, TurnKept
  <1>5. HiddenWasArchived'
    <2>1. file'.off = 0 /\ file'.msgs = <<>>
      BY <1>1 DEF Empty
    <2>2. Len(file'.msgs) = 0 /\ Hidden(file') = {}
      BY <2>1 DEF Hidden
    <2>3. QED
      BY <2>1, <2>2 DEF HiddenWasArchived
  <1>6. QED
    BY <1>3, <1>4, <1>5 DEF KInv

(* The steps that save nothing and start nothing. *)
Idler(t) == Consult(t) \/ Ask(t) \/ Fail(t) \/ Remember(t)

LEMMA IdlerEffect ==
    ASSUME IInv, NEW t \in Turns, Idler(t)
    PROVE  /\ UNCHANGED <<objs, cache, file, sess, pending, archived, epoch, born, straddled>>
           /\ \A u \in Turns : Live(u)' => Live(u)
           /\ \A u \in Turns : pc'[u] \in {"saved", "done"} => pc[u] \in {"saved", "done"}
           /\ \A j \in Jobs : job'[j].at = "asking" => job'[j] = job[j]
           /\ pc[t] \in Busy /\ \A u \in Turns : u # t => pc'[u] = pc[u]
  <1>1. /\ UNCHANGED <<objs, cache, file, sess, pending, archived, epoch, born, straddled>>
        /\ pc[t] \in Busy /\ t \in Messages /\ pc \in [Messages -> {"idle"} \cup Busy \cup Over]
        /\ pc' = [pc EXCEPT ![t] = pc'[t]]
        /\ pc'[t] \in {"saved", "done"} => pc[t] = "saved"
    BY DEF Idler, Consult, Ask, Fail, Remember, store, ghosts, Busy, Messages, Goto, IInv, Control
  <1>2. \/ job' = job
        \/ job' = [job EXCEPT ![Fg(t)] = Waiting]
    BY DEF Idler, Consult, Ask, Fail, Remember, Fg
  <1>3. /\ \A j \in Jobs : job'[j].at = "asking" => job'[j] = job[j]
        /\ \A u \in Turns : job'[Bg(u)] = job[Bg(u)]
    BY <1>2, JobParts DEF Waiting, IInv, Control
  <1>4. \A u \in Turns : u # t => pc'[u] = pc[u]
    BY <1>1 DEF Messages
  <1>5. \A u \in Turns : Live(u)' => Live(u)
    BY <1>1, <1>3, <1>4 DEF Live
  <1>6. QED
    BY <1>1, <1>3, <1>4, <1>5

(* What /stop, a restart and a stutter leave as it is. *)
LEMMA EndEffect ==
    ASSUME IInv, (\E m \in Messages : Stop(m)) \/ Restart \/ UNCHANGED vars
    PROVE  /\ UNCHANGED <<file, sess, archived, epoch, born, straddled>>
           /\ \A u \in Turns : Live(u)' => Live(u) /\ cache' = cache
           /\ \A u \in Turns : pc'[u] = pc[u] \/ pc'[u] \in {"cancelled", "lost"}
           /\ \A j \in Jobs : job'[j].at = "asking" => job'[j] = job[j]
           /\ pending' = pending \/ pending' = [n \in News |-> <<>>]
  <1>1. CASE UNCHANGED vars
    BY <1>1 DEF vars, Live
  <1>2. CASE Restart
    <2>1. /\ \A j \in Jobs : job'[j].at = "off"
          /\ \A u \in Turns : pc'[u] = (IF pc[u] \in Busy THEN "lost" ELSE pc[u])
          /\ \A u \in Turns : pc'[u] \notin Busy
      BY <1>2 DEF Restart, Idle, Messages, Busy
    <2>2. QED
      BY <1>2, <2>1, JobParts DEF Restart, ghosts, Live
  <1>3. ASSUME NEW m \in Messages, Stop(m)
        PROVE  /\ UNCHANGED <<file, sess, archived, epoch, born, straddled, cache, pending>>
               /\ \A u \in Turns : Live(u)' => Live(u)
               /\ \A u \in Turns : pc'[u] = pc[u] \/ pc'[u] \in {"cancelled", "lost"}
               /\ \A j \in Jobs : job'[j].at = "asking" => job'[j] = job[j]
    <2>1. UNCHANGED <<file, sess, archived, epoch, born, straddled, cache, pending>>
      BY <1>3 DEF Stop, store, ghosts
    <2>2. \A u \in Turns : pc'[u] = IF u = m THEN "cancelled" ELSE pc[u]
      BY <1>3 DEF Stop, Goto, Messages, IInv, Control
    <2>3. /\ \A j \in Jobs : job'[j] = IF j = Fg(m) THEN Idle ELSE job[j]
          /\ \A u \in Turns : Bg(u) # Fg(m)
      BY <1>3 DEF Stop, Fg, Bg
    <2>4. Idle.at = "off" /\ "cancelled" \notin Busy
      BY DEF Idle, Busy
    <2>5. \A u \in Turns : Live(u)' => Live(u)
      BY <2>2, <2>3, <2>4, JobParts DEF Live
    <2>6. QED
      BY <2>1, <2>2, <2>3, <2>4, <2>5
  <1>4. QED
    BY <1>1, <1>2, <1>3

LEMMA KInvNext == IInv /\ KInv /\ [Next]_vars => KInv'
  <1> SUFFICES ASSUME IInv, KInv, [Next]_vars PROVE KInv'
    OBVIOUS
  <1>0. archived \in [Turns -> Nat]
    BY DEF IInv, Records
  <1>1. ASSUME NEW t \in Turns, Start(t) PROVE KInv'
    BY <1>1, KInvStart
  <1>2. ASSUME NEW t \in Turns, Shortcut(t) \/ Reply(t) PROVE KInv'
    <2>1. /\ pc[t] \in Busy /\ Live(t)
          /\ Save(sess[t], AddTurn(objs[sess[t]], t)) /\ Goto(t, "saved")
          /\ straddled' = (straddled \/ Straddles(t))
          /\ UNCHANGED <<sess, archived, epoch, born>>
      BY <1>2 DEF Shortcut, Reply, Live, Busy
    <2>2. job' = job \/ job' = [job EXCEPT ![Bg(t)] = Waiting]
      BY <1>2 DEF Shortcut, Reply, Bg
    <2>3. \A u \in Turns : u # t => pc'[u] = pc[u] /\ job'[Bg(u)] = job[Bg(u)]
      BY <2>1, <2>2, JobParts DEF Goto, IInv, Control, Messages
    <2>4. \A u \in Turns : Live(u)' => Live(u)
      BY <2>1, <2>3 DEF Live
    <2>5. \A j \in Jobs : job'[j].at = "asking" => job'[j] = job[j]
      BY <2>2, JobParts DEF Waiting, IInv, Control
    <2>6. QED
      BY <2>1, <2>4, <2>5, KInvSave
  <1>3. ASSUME NEW t \in Turns, Idler(t) PROVE KInv'
    BY <1>0, <1>3, IdlerEffect, KInvQuiet
  <1>4. CASE (\E m \in Messages : Stop(m)) \/ Restart \/ UNCHANGED vars
    BY <1>0, <1>4, EndEffect, KInvQuiet
  <1>5. ASSUME NEW j \in Jobs, Consolidation(j) PROVE KInv'
    BY <1>5, KInvConsolidate, KInvConsolidateOk DEF Consolidation
  <1>6. ASSUME NEW n \in News, New(n) PROVE KInv'
    BY <1>6, KInvNew
  <1>7. ASSUME NEW n \in News, Archive(n) PROVE KInv'
    <2>1. /\ UNCHANGED <<objs, cache, file, pc, sess, job, epoch, born, straddled>>
          /\ WriteHistory(pending[n]) \/ UNCHANGED archived
      BY <1>7 DEF Archive, store, ghosts
    <2>2. archived' \in [Turns -> Nat] /\ \A t \in Turns : archived'[t] >= archived[t]
      BY <1>0, <2>1, WriteHistoryType
    <2>3. QED
      BY <1>0, <2>1, <2>2, KInvQuiet DEF Live
  <1>8. QED
    BY <1>1, <1>2, <1>3, <1>4, <1>5, <1>6, <1>7 DEF Next, Turn, Quiet, Idler

LEMMA KeptInvariant == Spec => [](IInv /\ KInv)
  <1>1. Init => IInv /\ KInv
    BY IInvInit, KInvInit
  <1>2. (IInv /\ KInv) /\ [Next]_vars => (IInv /\ KInv)'
    BY IInvNext, KInvNext
  <1>3. QED
    BY <1>1, <1>2, PTL DEF Spec

(* A turn of the current conversation that was answered is in the session's   *)
(* file, whatever was cancelled, consolidated or restarted, unless something  *)
(* that began before a /new saved after it.                                   *)
THEOREM AnsweredTurnKept == Spec => []TurnKept
  <1>1. KInv => TurnKept
    BY DEF KInv
  <1>2. QED
    BY <1>1, KeptInvariant, PTL

(* With the same exception, what the offset hides from the model is in        *)
(* HISTORY.md.                                                             *)
THEOREM NothingHiddenUnread == Spec => []HiddenWasArchived
  <1>1. KInv => HiddenWasArchived
    BY DEF KInv
  <1>2. QED
    BY <1>1, KeptInvariant, PTL

-----------------------------------------------------------------------------
(* No turn is consolidated twice.                                          *)

(* A turn that was not saved is nowhere; a turn of the file is there once,    *)
(* and not archived beyond the offset; a snapshot of a /new shares nothing    *)
(* with the file or another snapshot; a slice is cut from the file.           *)
Unsaved(t) == pc[t] \in {"idle", "routing", "consolidating", "prompting", "asking"}

Nowhere(t) ==
    /\ archived[t] = 0
    /\ t \notin Elems(file.msgs)
    /\ \A n \in News : t \notin Elems(pending[n])

FileOnce == \A i, k \in DOMAIN file.msgs : file.msgs[i] = file.msgs[k] => i = k

TailUnread == \A k \in DOMAIN file.msgs : k > file.off => archived[file.msgs[k]] = 0

Snapshots ==
    \A n \in News : \A t \in Elems(pending[n]) :
        /\ archived[t] = 0
        /\ t \notin Elems(file.msgs)
        /\ \A m \in News : t \in Elems(pending[m]) => m = n

FromFile(j) ==
    /\ file.off <= job[j].upto
    /\ \A t \in Elems(job[j].chunk) :
          \E k \in (file.off + 1)..job[j].upto : k \in DOMAIN file.msgs /\ file.msgs[k] = t

SliceOfFile ==
    \A j \in Jobs : job[j].at = "asking" /\ born[j[1]] = epoch => FromFile(j)

HInv ==
    straddled \/ /\ \A t \in Turns : archived[t] <= 1
                 /\ \A t \in Turns : Unsaved(t) => Nowhere(t)
                 /\ FileOnce
                 /\ TailUnread
                 /\ Snapshots
                 /\ SliceOfFile

LEMMA HInvInit == Init => HInv
  <1> SUFFICES ASSUME Init PROVE HInv
    OBVIOUS
  <1>1. /\ file.off = 0 /\ file.msgs = <<>> /\ Elems(file.msgs) = {}
        /\ \A n \in News : pending[n] = <<>> /\ Elems(pending[n]) = {}
        /\ \A t \in Turns : archived[t] = 0
        /\ \A j \in Jobs : job[j].at = "off"
    BY DEF Init, Empty, Elems, Idle
  <1>2. /\ \A t \in Turns : archived[t] <= 1
        /\ \A t \in Turns : Unsaved(t) => Nowhere(t)
    <2>1. \A t \in Turns : archived[t] <= 1
      <3>1. ASSUME NEW t \in Turns PROVE archived[t] <= 1
        <4>1. archived[t] = 0 /\ archived[t] \in Nat
          BY <1>1
        <4>2. QED
          BY <4>1, SMT
      <3>2. QED
        BY <3>1
    <2>2. \A t \in Turns : Nowhere(t)
      BY <1>1 DEF Nowhere
    <2>3. QED
      BY <2>1, <2>2
  <1>3. FileOnce /\ TailUnread
    BY <1>1 DEF FileOnce, TailUnread
  <1>4. Snapshots /\ SliceOfFile
    BY <1>1 DEF Snapshots, SliceOfFile
  <1>5. QED
    BY <1>2, <1>3, <1>4 DEF HInv

(* A step that writes no file and no history keeps what HInv says. *)
LEMMA HInvQuiet ==
    ASSUME HInv, UNCHANGED <<file, archived, epoch, straddled>>,
           \A t \in Turns : Unsaved(t)' => Unsaved(t),
           \A j \in Jobs : job'[j].at = "asking" =>
                              job'[j] = job[j] /\ born'[j[1]] = born[j[1]],
           pending' = pending \/ pending' = [n \in News |-> <<>>]
    PROVE  HInv'
  <1>1. \A n \in News : Elems(pending'[n]) \subseteq Elems(pending[n])
    <2>1. Elems(<<>>) = {}
      BY DEF Elems
    <2>2. QED
      BY <2>1
  <1>2. CASE straddled
    BY <1>2 DEF HInv
  <1>3. CASE ~straddled
    <2>1. /\ \A t \in Turns : archived[t] <= 1
          /\ \A t \in Turns : Unsaved(t) => Nowhere(t)
          /\ FileOnce /\ TailUnread /\ Snapshots /\ SliceOfFile
      BY <1>3 DEF HInv
    <2>2. \A t \in Turns : Nowhere(t) => Nowhere(t)'
      BY <1>1 DEF Nowhere
    <2>3. FileOnce' /\ TailUnread'
      BY <2>1 DEF FileOnce, TailUnread
    <2>4. Snapshots'
      BY <1>1, <2>1 DEF Snapshots
    <2>5. SliceOfFile'
      <3>1. ASSUME NEW j \in Jobs, job'[j].at = "asking", born'[j[1]] = epoch
            PROVE  /\ file.off <= job'[j].upto
                   /\ \A t \in Elems(job'[j].chunk) :
                         \E k \in (file.off + 1)..job'[j].upto :
                             k \in DOMAIN file.msgs /\ file.msgs[k] = t
        <4>1. job'[j] = job[j] /\ job[j].at = "asking" /\ born[j[1]] = epoch
          BY <3>1
        <4>2. /\ file.off <= job[j].upto
              /\ \A t \in Elems(job[j].chunk) :
                    \E k \in (file.off + 1)..job[j].upto :
                        k \in DOMAIN file.msgs /\ file.msgs[k] = t
          BY <2>1, <4>1 DEF SliceOfFile, FromFile
        <4>3. QED
          BY <4>1, <4>2
      <3>2. QED
        BY <3>1 DEF SliceOfFile, FromFile
    <2>6. QED
      BY <2>1, <2>2, <2>3, <2>4, <2>5 DEF HInv
  <1>4. QED
    BY <1>2, <1>3

(* A turn that is saved was nowhere before. *)
LEMMA HInvSave ==
    ASSUME IInv, KInv, HInv, NEW t \in Turns, Live(t), Unsaved(t),
           Save(sess[t], AddTurn(objs[sess[t]], t)), Goto(t, "saved"),
           straddled' = (straddled \/ Straddles(t)),
           UNCHANGED <<sess, pending, archived, epoch, born>>,
           \A j \in Jobs : job'[j].at = "asking" => job'[j] = job[j]
    PROVE  HInv'
  <1>1. CASE straddled'
    BY <1>1 DEF HInv
  <1>2. CASE ~straddled'
    <2>1. ~straddled /\ born[t] = epoch
      BY <1>2 DEF Straddles
    <2>2. file' = AddTurn(file, t)
      BY <2>1, OwnSession DEF Save
    <2>3. /\ \A u \in Turns : archived[u] <= 1
          /\ \A u \in Turns : Unsaved(u) => Nowhere(u)
          /\ FileOnce /\ TailUnread /\ Snapshots /\ SliceOfFile
          /\ Nowhere(t)
      BY <2>1 DEF HInv
    <2>4. file \in Sessions /\ file.msgs \in Seq(Turns) /\ Len(file.msgs) \in Nat /\ file.off \in Nat
      BY LenProperties DEF IInv, Store, Sessions
    <2>5. /\ file'.off = file.off
          /\ file'.msgs = Append(file.msgs, t)
      BY <2>2, <2>4 DEF AddTurn, Sessions
    <2>6. /\ DOMAIN file.msgs = 1..Len(file.msgs)
          /\ DOMAIN file'.msgs = 1..(Len(file.msgs) + 1)
          /\ \A k \in 1..Len(file.msgs) : file'.msgs[k] = file.msgs[k]
          /\ file'.msgs[Len(file.msgs) + 1] = t
      <3>1. Append(file.msgs, t) \in Seq(Turns) /\ Len(Append(file.msgs, t)) = Len(file.msgs) + 1
        BY <2>4, AppendProperties
      <3>2. QED
        BY <2>4, <2>5, <3>1, LenProperties, AppendProperties
    <2>7. \A k \in DOMAIN file'.msgs :
            \/ k \in DOMAIN file.msgs /\ file'.msgs[k] = file.msgs[k] /\ file.msgs[k] # t
            \/ k = Len(file.msgs) + 1 /\ file'.msgs[k] = t /\ k \notin DOMAIN file.msgs
      <3>1. \A k \in DOMAIN file.msgs : file.msgs[k] # t
        BY <2>3 DEF Nowhere, Elems
      <3>2. QED
        BY <2>4, <2>6, <3>1
    <2>8. Elems(file'.msgs) \subseteq Elems(file.msgs) \cup {t}
      BY <2>7 DEF Elems
    <2>9. \A u \in Turns : Unsaved(u)' => Nowhere(u)'
      <3>1. \A u \in Turns : pc'[u] = IF u = t THEN "saved" ELSE pc[u]
        BY DEF Goto, IInv, Control, Messages
      <3>2. \A u \in Turns : Unsaved(u)' => u # t /\ Unsaved(u)
        BY <3>1 DEF Unsaved
      <3>3. QED
        BY <2>3, <2>8, <3>2 DEF Nowhere
    <2>10. FileOnce'
      BY <2>3, <2>7 DEF FileOnce
    <2>11. TailUnread'
      BY <2>3, <2>5, <2>7 DEF TailUnread, Nowhere
    <2>12. Snapshots'
      BY <2>3, <2>8 DEF Snapshots, Nowhere
    <2>13. SliceOfFile'
      <3>1. ASSUME NEW j \in Jobs, job'[j].at = "asking", born[j[1]] = epoch,
                   NEW u \in Elems(job'[j].chunk)
            PROVE  \E k \in (file'.off + 1)..job'[j].upto : k \in DOMAIN file'.msgs /\ file'.msgs[k] = u
        <4>1. PICK k \in (file.off + 1)..job[j].upto : k \in DOMAIN file.msgs /\ file.msgs[k] = u
          BY <2>3, <3>1 DEF SliceOfFile, FromFile
        <4>2. k \in DOMAIN file'.msgs /\ file'.msgs[k] = u /\ job'[j] = job[j]
          BY <2>4, <2>6, <3>1, <4>1
        <4>3. QED
          BY <2>5, <4>1, <4>2
      <3>2. \A j \in Jobs : job'[j].at = "asking" /\ born[j[1]] = epoch => file'.off <= job'[j].upto
        BY <2>3, <2>5 DEF SliceOfFile, FromFile
      <3>3. QED
        BY <3>1, <3>2 DEF SliceOfFile, FromFile
    <2>14. QED
      BY <2>3, <2>9, <2>10, <2>11, <2>12, <2>13 DEF HInv
  <1>3. QED
    BY <1>1, <1>2

(* The slice of a round has nothing that is not in the file. *)
LEMMA AskFromFile ==
    ASSUME NEW s \in Sessions, NEW e \in (s.off + 1)..(Len(s.msgs) - 1)
    PROVE  /\ s.off <= Asking(s, e).upto
           /\ \A t \in Elems(Asking(s, e).chunk) :
                 \E k \in (s.off + 1)..Asking(s, e).upto : k \in DOMAIN s.msgs /\ s.msgs[k] = t
  <1> DEFINE c == SubSeq(s.msgs, s.off + 1, e)
  <1>1. /\ s.msgs \in Seq(Turns) /\ s.off \in Nat /\ Len(s.msgs) \in Nat /\ e \in Nat
        /\ DOMAIN s.msgs = 1..Len(s.msgs)
        /\ Asking(s, e).upto = e /\ Asking(s, e).chunk = c
    BY LenProperties DEF Sessions, Asking
  <1>2. /\ c \in Seq(Turns)
        /\ Len(c) = IF s.off + 1 <= e THEN e - (s.off + 1) + 1 ELSE 0
        /\ \A i \in 1..(e - (s.off + 1) + 1) : c[i] = s.msgs[(s.off + 1) + i - 1]
    <2>1. s.off + 1 \in Int /\ e \in Int /\ \A i \in (s.off + 1)..e : s.msgs[i] \in Turns
      BY <1>1, ElementOfSeq
    <2>2. c = SubSeq(s.msgs, s.off + 1, e)
      OBVIOUS
    <2> HIDE DEF c
    <2>3. QED
      BY <2>1, <2>2, SubSeqProperties
  <1> HIDE DEF c
  <1>3. DOMAIN c = 1..(e - s.off)
    <2>1. Len(c) = e - s.off
      BY <1>1, <1>2
    <2>2. QED
      BY <1>2, <2>1, LenProperties
  <1>4. ASSUME NEW i \in DOMAIN c
        PROVE  \E k \in (s.off + 1)..e : k \in DOMAIN s.msgs /\ s.msgs[k] = c[i]
    <2>1. /\ i \in 1..(e - (s.off + 1) + 1)
          /\ (s.off + 1) + i - 1 = s.off + i
          /\ s.off + i \in (s.off + 1)..e
          /\ s.off + i \in 1..Len(s.msgs)
      BY <1>1, <1>3
    <2>2. c[i] = s.msgs[s.off + i]
      BY <1>2, <2>1
    <2>3. QED
      BY <1>1, <2>1, <2>2
  <1>5. QED
    BY <1>1, <1>4 DEF Elems

(* Finishing or cutting a slice keeps what HInv says. *)
LEMMA HInvConsolidate ==
    ASSUME IInv, KInv, HInv, NEW j \in Jobs,
           Consolidate(j) \/ ConsolidateEmpty(j) \/ ConsolidateFail(j)
    PROVE  HInv'
  <1> DEFINE s == objs[sess[j[1]]]
  <1>1. /\ job[j].at # "off"
        /\ FinishJob(j) \/ (consLock = None /\ AskRound(j, s))
        /\ UNCHANGED <<objs, cache, file, sess, archived, pending, epoch, born, straddled>>
    BY DEF Consolidate, ConsolidateEmpty, ConsolidateFail, store, ghosts
  <1>2. /\ \A i \in Jobs : i # j => job'[i] = job[i]
        /\ FinishJob(j) => job'[j].at = "off"
    <2> HIDE DEF s
    <2>1. QED
      BY <1>1, JobStep
  <1>3. \A t \in Turns : Unsaved(t)' => Unsaved(t)
    <2>1. \A t \in Turns : TurnInv(t)
      BY DEF IInv, Control, Working
    <2>2. \A t \in Turns : pc'[t] = pc[t] \/ Unsaved(t)
      BY <1>1, <2>1, JobParts DEF FinishJob, AskRound, TurnInv, Unsaved, IInv, Control, Messages
    <2>3. QED
      BY <2>2 DEF Unsaved
  <1>4. CASE FinishJob(j)
    <2>1. \A i \in Jobs : job'[i].at = "asking" => job'[i] = job[i] /\ born'[i[1]] = born[i[1]]
      BY <1>1, <1>2, <1>4
    <2>2. QED
      BY <1>1, <1>3, <2>1, HInvQuiet
  <1>5. CASE consLock = None /\ AskRound(j, s)
    <2>1. CASE straddled
      BY <1>1, <2>1 DEF HInv
    <2>2. CASE ~straddled
      <3>1. /\ \A t \in Turns : archived[t] <= 1
            /\ \A t \in Turns : Unsaved(t) => Nowhere(t)
            /\ FileOnce /\ TailUnread /\ Snapshots
        BY <2>2 DEF HInv
      <3>2. /\ \A t \in Turns : Unsaved(t)' => Nowhere(t)'
            /\ FileOnce' /\ TailUnread' /\ Snapshots'
        BY <1>1, <1>3, <3>1 DEF Nowhere, FileOnce, TailUnread, Snapshots
      <3>3. SliceOfFile'
        <4>1. \A i \in Jobs : i # j => job'[i].at # "asking"
          BY <1>2, <1>5, JobParts DEF IInv, Control, LockHeld
        <4>2. ASSUME born[j[1]] = epoch PROVE FromFile(j)'
          <5>1. Live(j[1])
            <6>1. TurnInv(j[1])
              BY JobParts DEF IInv, Control, Working
            <6>2. QED
              BY <1>1, <6>1, JobParts DEF TurnInv, Live, Busy
          <5>2. s = file /\ file \in Sessions
            BY <2>2, <4>2, <5>1, OwnSession, JobParts DEF IInv, Store
          <5>3. PICK e \in (file.off + 1)..(Len(file.msgs) - 1) : job'[j] = Asking(file, e)
            BY <1>5, <5>2 DEF AskRound, IInv, Control
          <5>4. /\ file.off <= job'[j].upto
                /\ \A t \in Elems(job'[j].chunk) :
                      \E k \in (file.off + 1)..job'[j].upto :
                          k \in DOMAIN file.msgs /\ file.msgs[k] = t
            BY <5>2, <5>3, AskFromFile
          <5>5. QED
            BY <1>1, <5>4 DEF FromFile
        <4>3. QED
          BY <1>1, <4>1, <4>2 DEF SliceOfFile
      <3>4. QED
        BY <1>1, <3>1, <3>2, <3>3 DEF HInv
    <2>3. QED
      BY <2>1, <2>2
  <1>6. QED
    BY <1>1, <1>4, <1>5

(* What HISTORY.md gains is the slice, once. *)
LEMMA WriteHistoryOnce ==
    ASSUME archived \in [Turns -> Nat], NEW chunk, WriteHistory(chunk)
    PROVE  /\ \A t \in Turns : t \notin Elems(chunk) => archived'[t] = archived[t]
           /\ \A t \in Turns : t \in Elems(chunk) /\ archived[t] = 0 => archived'[t] = 1
  BY DEF WriteHistory

(* The end of a round archives turns that the offset did not hide yet. *)
LEMMA HInvConsolidateOk ==
    ASSUME IInv, KInv, HInv, NEW j \in Jobs, ConsolidateOk(j)
    PROVE  HInv'
  <1> DEFINE o == sess[j[1]]
             s == [objs[o] EXCEPT !.off = job[j].upto]
             c == job[j].chunk
  <1>1. /\ job[j].at = "asking"
        /\ Save(o, s)
        /\ FinishJob(j) \/ AskRound(j, s)
        /\ WriteHistory(c)
        /\ straddled' = (straddled \/ Straddles(j[1]))
        /\ UNCHANGED <<sess, pending, epoch, born>>
    BY DEF ConsolidateOk
  <1>2. CASE straddled'
    BY <1>2 DEF HInv
  <1>3. CASE ~straddled'
    <2>1. ~straddled /\ born[j[1]] = epoch
      BY <1>1, <1>3 DEF Straddles
    <2>2. /\ \A u \in Turns : archived[u] <= 1
          /\ \A u \in Turns : Unsaved(u) => Nowhere(u)
          /\ FileOnce /\ TailUnread /\ Snapshots /\ FromFile(j)
      BY <1>1, <2>1 DEF HInv, SliceOfFile
    <2>3. Live(j[1])
      <3>1. TurnInv(j[1])
        BY JobParts DEF IInv, Control, Working
      <3>2. QED
        BY <1>1, <3>1, JobParts DEF TurnInv, Live, Busy
    <2>4. file' = [file EXCEPT !.off = job[j].upto] /\ file' = s
      BY <1>1, <2>1, <2>3, OwnSession, JobParts DEF Save
    <2>5. /\ file \in Sessions /\ file.off \in Nat /\ Len(file.msgs) \in Nat
          /\ DOMAIN file.msgs = 1..Len(file.msgs)
          /\ \A k \in DOMAIN file.msgs : file.msgs[k] \in Turns
          /\ job[j].upto \in Nat /\ c \in Seq(Turns)
      BY LenProperties, ElementOfSeq DEF IInv, Store, Sessions, Control, JobType
    <2>6. file' \in Sessions /\ file'.msgs = file.msgs /\ file'.off = job[j].upto
      BY <2>4, <2>5 DEF Sessions
    <2>7. /\ \A i \in Jobs : i # j => job'[i] = job[i]
          /\ FinishJob(j) => job'[j].at = "off"
      <3> HIDE DEF s
      <3>1. QED
        BY <1>1, JobStep
    <2> HIDE DEF s, c
    <2>8. /\ archived \in [Turns -> Nat]
          /\ \A t \in Turns : t \notin Elems(c) => archived'[t] = archived[t]
          /\ \A t \in Turns : t \in Elems(c) /\ archived[t] = 0 => archived'[t] = 1
      <3>1. archived \in [Turns -> Nat]
        BY DEF IInv, Records
      <3>2. QED
        BY <1>1, <3>1, WriteHistoryOnce
    <2>9. \A t \in Elems(c) : \E k \in (file.off + 1)..job[j].upto :
                                  k \in DOMAIN file.msgs /\ file.msgs[k] = t
      BY <2>2 DEF FromFile, c
    <2>10. /\ \A t \in Elems(c) : t \in Elems(file.msgs) /\ t \in Turns
           /\ \A t \in Elems(c) : archived[t] = 0
      <3>1. ASSUME NEW t \in Elems(c)
            PROVE  t \in Elems(file.msgs) /\ t \in Turns /\ archived[t] = 0
        <4>1. PICK k \in (file.off + 1)..job[j].upto : k \in DOMAIN file.msgs /\ file.msgs[k] = t
          BY <2>9
        <4>2. k > file.off
          BY <2>5, <4>1
        <4>3. QED
          BY <2>2, <2>5, <4>1, <4>2 DEF TailUnread, Elems
      <3>2. QED
        BY <3>1
    <2>11. \A t \in Turns : archived'[t] <= 1
      <3>1. ASSUME NEW t \in Turns PROVE archived'[t] <= 1
        <4>1. CASE t \in Elems(c)
          <5>1. archived'[t] = 1
            BY <2>8, <2>10, <4>1
          <5>2. QED
            BY <5>1, SMT
        <4>2. CASE t \notin Elems(c)
          BY <2>2, <2>8, <4>2
        <4>3. QED
          BY <4>1, <4>2
      <3>2. QED
        BY <3>1
    <2>12. \A t \in Turns : Unsaved(t)' => Nowhere(t)'
      <3>1. \A t \in Turns : pc'[t] = pc[t] \/ Unsaved(t)
        <4>1. \A t \in Turns : TurnInv(t)
          BY DEF IInv, Control, Working
        <4>2. QED
          BY <1>1, <4>1, JobParts DEF FinishJob, AskRound, TurnInv, Unsaved, IInv, Control, Messages
      <3>2. \A t \in Turns : Unsaved(t)' => Unsaved(t)
        BY <3>1 DEF Unsaved
      <3>3. QED
        BY <1>1, <2>2, <2>6, <2>8, <2>10, <3>2 DEF Nowhere
    <2>13. FileOnce'
      BY <2>2, <2>6 DEF FileOnce
    <2>14. TailUnread'
      <3>1. ASSUME NEW k \in DOMAIN file.msgs, k > job[j].upto PROVE archived'[file.msgs[k]] = 0
        <4>1. k > file.off
          BY <2>2, <2>5, <3>1 DEF FromFile
        <4>2. file.msgs[k] \notin Elems(c)
          <5>1. ASSUME file.msgs[k] \in Elems(c) PROVE FALSE
            <6>1. PICK i \in (file.off + 1)..job[j].upto :
                    i \in DOMAIN file.msgs /\ file.msgs[i] = file.msgs[k]
              BY <2>9, <5>1
            <6>2. i = k
              BY <2>2, <6>1 DEF FileOnce
            <6>3. QED
              BY <2>5, <3>1, <6>1, <6>2
          <5>2. QED
            BY <5>1
        <4>3. archived[file.msgs[k]] = 0 /\ file.msgs[k] \in Turns
          BY <2>2, <2>5, <4>1 DEF TailUnread
        <4>4. QED
          BY <2>8, <4>2, <4>3
      <3>2. QED
        BY <2>6, <3>1 DEF TailUnread
    <2>15. Snapshots'
      <3>1. \A n \in News : \A t \in Elems(pending[n]) : t \in Turns
        BY ElementOfSeq, LenProperties DEF IInv, Records, Elems
      <3>2. QED
        BY <1>1, <2>2, <2>6, <2>8, <2>10, <3>1 DEF Snapshots
    <2>16. SliceOfFile'
      <3>1. \A i \in Jobs : i # j => job'[i].at # "asking"
        BY <1>1, <2>7, JobParts DEF IInv, Control, LockHeld
      <3>2. ASSUME job'[j].at = "asking" PROVE FromFile(j)'
        <4>1. AskRound(j, file')
          BY <1>1, <2>4, <2>7, <3>2
        <4>2. PICK e \in (file'.off + 1)..(Len(file'.msgs) - 1) : job'[j] = Asking(file', e)
          BY <4>1 DEF AskRound, IInv, Control
        <4>3. PICK f \in Sessions : f = file'
          BY <2>6
        <4>4. /\ f.off <= Asking(f, e).upto
              /\ \A t \in Elems(Asking(f, e).chunk) :
                    \E k \in (f.off + 1)..Asking(f, e).upto : k \in DOMAIN f.msgs /\ f.msgs[k] = t
          BY <4>2, <4>3, AskFromFile
        <4>5. QED
          BY <4>2, <4>3, <4>4 DEF FromFile
      <3>3. QED
        BY <3>1, <3>2 DEF SliceOfFile
    <2>17. QED
      BY <2>11, <2>12, <2>13, <2>14, <2>15, <2>16 DEF HInv
  <1>4. QED
    BY <1>2, <1>3

(* /new moves what was not consolidated from the file to a snapshot. *)
LEMMA HInvNew ==
    ASSUME IInv, KInv, HInv, NEW n \in News, New(n)
    PROVE  HInv'
  <1>1. /\ file' = Empty /\ epoch' = epoch + 1
        /\ pending' = [pending EXCEPT ![n] = History(file)]
        /\ Enter(n) /\ Goto(n, "done")
        /\ UNCHANGED <<archived, born, straddled, job>>
    BY NewEffect
  <1>2. CASE straddled
    BY <1>1, <1>2 DEF HInv
  <1>3. CASE ~straddled
    <2>1. /\ \A u \in Turns : archived[u] <= 1
          /\ \A u \in Turns : Unsaved(u) => Nowhere(u)
          /\ TailUnread /\ Snapshots
      BY <1>3 DEF HInv
    <2>2. /\ file \in Sessions /\ file.msgs \in Seq(Turns) /\ Len(file.msgs) \in Nat /\ file.off \in Nat
          /\ DOMAIN file.msgs = 1..Len(file.msgs)
      BY LenProperties DEF IInv, Store, Sessions
    <2> DEFINE h == History(file)
    <2>3. \A u \in Elems(h) : u \in Elems(file.msgs) /\ archived[u] = 0
      <3>1. /\ h \in Seq(Turns)
            /\ Len(h) = IF file.off + 1 <= Len(file.msgs) THEN Len(file.msgs) - (file.off + 1) + 1 ELSE 0
            /\ \A i \in 1..(Len(file.msgs) - (file.off + 1) + 1) : h[i] = file.msgs[(file.off + 1) + i - 1]
        <4>1. \A i \in (file.off + 1)..Len(file.msgs) : file.msgs[i] \in Turns
          BY <2>2, ElementOfSeq
        <4>2. file.off + 1 \in Int /\ Len(file.msgs) \in Int
          BY <2>2
        <4>3. h = SubSeq(file.msgs, file.off + 1, Len(file.msgs))
          BY DEF History
        <4> HIDE DEF h
        <4>4. QED
          BY <4>1, <4>2, <4>3, SubSeqProperties
      <3> HIDE DEF h
      <3>2. ASSUME NEW i \in DOMAIN h PROVE h[i] \in Elems(file.msgs) /\ archived[h[i]] = 0
        <4>1. i \in 1..Len(h) /\ Len(h) \in Nat
          BY <3>1, LenProperties
        <4>2. /\ i \in 1..(Len(file.msgs) - (file.off + 1) + 1)
              /\ (file.off + 1) + i - 1 = file.off + i
              /\ file.off + i \in 1..Len(file.msgs)
              /\ file.off + i > file.off
          <5>1. file.off + 1 <= Len(file.msgs)
            BY <3>1, <4>1
          <5>2. Len(h) = Len(file.msgs) - (file.off + 1) + 1
            BY <3>1, <5>1
          <5>3. QED
            BY <2>2, <4>1, <5>2
        <4>3. h[i] = file.msgs[file.off + i]
          BY <3>1, <4>2
        <4>4. QED
          BY <2>1, <2>2, <4>2, <4>3 DEF TailUnread, Elems
      <3>3. QED
        BY <3>2 DEF Elems
    <2>4. \A m \in News : pending'[m] = IF m = n THEN h ELSE pending[m]
      BY <1>1 DEF IInv, Records
    <2>5. file'.off = 0 /\ file'.msgs = <<>> /\ Elems(file'.msgs) = {}
      BY <1>1 DEF Empty, Elems
    <2>6. \A u \in Turns : Unsaved(u)' => Unsaved(u)
      BY <1>1, Distinct DEF Goto, Unsaved, IInv, Control, Messages
    <2> HIDE DEF h
    <2>7. \A u \in Turns : Unsaved(u)' => Nowhere(u)'
      BY <1>1, <2>1, <2>3, <2>4, <2>5, <2>6 DEF Nowhere
    <2>8. FileOnce' /\ TailUnread'
      BY <2>5 DEF FileOnce, TailUnread
    <2>9. Snapshots'
      <3>1. ASSUME NEW m \in News, NEW u \in Elems(pending'[m])
            PROVE  /\ archived[u] = 0
                   /\ \A k \in News : u \in Elems(pending'[k]) => k = m
        <4>1. CASE m = n
          BY <2>1, <2>3, <2>4, <3>1, <4>1 DEF Snapshots
        <4>2. CASE m # n
          BY <2>1, <2>3, <2>4, <3>1, <4>2 DEF Snapshots
        <4>3. QED
          BY <4>1, <4>2
      <3>2. QED
        BY <1>1, <2>5, <3>1 DEF Snapshots
    <2>10. SliceOfFile'
      <3>1. \A t \in Turns : born'[t] # epoch'
        BY <1>1 DEF KInv, IInv, Records
      <3>2. QED
        BY <3>1, JobParts DEF SliceOfFile
    <2>11. QED
      BY <1>1, <2>1, <2>7, <2>8, <2>9, <2>10 DEF HInv
  <1>4. QED
    BY <1>2, <1>3

(* The snapshot of a /new is written once, and then there is none. *)
LEMMA HInvArchive ==
    ASSUME IInv, HInv, NEW n \in News, Archive(n)
    PROVE  HInv'
  <1>1. /\ UNCHANGED <<file, pc, job, epoch, born, straddled>>
        /\ pending' = [pending EXCEPT ![n] = <<>>]
        /\ WriteHistory(pending[n]) \/ UNCHANGED archived
    BY DEF Archive, store, ghosts
  <1>2. CASE straddled
    BY <1>1, <1>2 DEF HInv
  <1>3. CASE ~straddled
    <2>1. /\ \A u \in Turns : archived[u] <= 1
          /\ \A u \in Turns : Unsaved(u) => Nowhere(u)
          /\ FileOnce /\ TailUnread /\ Snapshots /\ SliceOfFile
      BY <1>3 DEF HInv
    <2>2. /\ \A t \in Turns : t \notin Elems(pending[n]) => archived'[t] = archived[t]
          /\ \A t \in Turns : t \in Elems(pending[n]) => archived'[t] \in {0, 1}
      <3>1. archived \in [Turns -> Nat]
        BY DEF IInv, Records
      <3>2. \A t \in Elems(pending[n]) : archived[t] = 0
        BY <2>1 DEF Snapshots
      <3>3. QED
        BY <1>1, <3>1, <3>2, WriteHistoryOnce
    <2>3. \A m \in News : Elems(pending'[m]) = IF m = n THEN {} ELSE Elems(pending[m])
      <3>1. Elems(<<>>) = {}
        BY DEF Elems
      <3>2. QED
        BY <1>1, <3>1 DEF IInv, Records
    <2>4. \A t \in Turns : archived'[t] <= 1
      <3>1. ASSUME NEW t \in Turns PROVE archived'[t] <= 1
        <4>1. CASE archived'[t] = archived[t]
          BY <2>1, <4>1
        <4>2. CASE archived'[t] \in {0, 1}
          BY <4>2, SMT
        <4>3. QED
          BY <2>2, <4>1, <4>2
      <3>2. QED
        BY <3>1
    <2>5. \A u \in Turns : Unsaved(u)' => Nowhere(u)'
      BY <1>1, <2>1, <2>2, <2>3 DEF Unsaved, Nowhere
    <2>6. FileOnce' /\ SliceOfFile'
      BY <1>1, <2>1 DEF FileOnce, SliceOfFile, FromFile
    <2>7. TailUnread'
      <3>1. \A k \in DOMAIN file.msgs : file.msgs[k] \in Turns /\ file.msgs[k] \in Elems(file.msgs)
        BY ElementOfSeq, LenProperties DEF IInv, Store, Sessions, Elems
      <3>2. QED
        BY <1>1, <2>1, <2>2, <3>1 DEF TailUnread, Snapshots
    <2>8. Snapshots'
      <3>1. \A m \in News : \A t \in Elems(pending[m]) : t \in Turns
        BY ElementOfSeq, LenProperties DEF IInv, Records, Elems
      <3>2. QED
        BY <1>1, <2>1, <2>2, <2>3, <3>1 DEF Snapshots
    <2>9. QED
      BY <2>4, <2>5, <2>6, <2>7, <2>8 DEF HInv
  <1>4. QED
    BY <1>2, <1>3

LEMMA HInvNext == IInv /\ KInv /\ HInv /\ [Next]_vars => HInv'
  <1> SUFFICES ASSUME IInv, KInv, HInv, [Next]_vars PROVE HInv'
    OBVIOUS
  <1>0. \A t \in Turns : TurnInv(t) /\ t \in Messages
    BY DEF IInv, Control, Working, Messages
  <1>1. ASSUME NEW t \in Turns, Start(t) PROVE HInv'
    <2>1. /\ pc[t] = "idle" /\ GetOrCreate(t) /\ Goto(t, "routing")
          /\ born' = [born EXCEPT ![t] = epoch]
          /\ UNCHANGED <<job, pending, archived, epoch, straddled>>
      BY <1>1 DEF Start, Enter
    <2>2. file' = file
      BY <2>1 DEF GetOrCreate, store
    <2>3. \A u \in Turns : Unsaved(u)' => Unsaved(u)
      BY <1>0, <2>1 DEF Goto, Unsaved, IInv, Control
    <2>4. \A j \in Jobs : job[j].at = "asking" => j[1] # t
      BY <1>0, <2>1, JobParts DEF TurnInv, Over
    <2>5. \A j \in Jobs : job[j].at = "asking" => born'[j[1]] = born[j[1]]
      BY <2>1, <2>4, JobParts DEF IInv, Records
    <2>6. QED
      BY <2>1, <2>2, <2>3, <2>5, HInvQuiet
  <1>2. ASSUME NEW t \in Turns, Shortcut(t) \/ Reply(t) PROVE HInv'
    <2>1. /\ Live(t) /\ Unsaved(t)
          /\ Save(sess[t], AddTurn(objs[sess[t]], t)) /\ Goto(t, "saved")
          /\ straddled' = (straddled \/ Straddles(t))
          /\ UNCHANGED <<sess, pending, archived, epoch, born>>
      BY <1>2 DEF Shortcut, Reply, Live, Busy, Unsaved
    <2>2. job' = job \/ job' = [job EXCEPT ![Bg(t)] = Waiting]
      BY <1>2 DEF Shortcut, Reply, Bg
    <2>3. \A j \in Jobs : job'[j].at = "asking" => job'[j] = job[j]
      BY <2>2, JobParts DEF Waiting, IInv, Control
    <2>4. QED
      BY <2>1, <2>3, HInvSave
  <1>3. ASSUME NEW t \in Turns, Idler(t) PROVE HInv'
    <2>1. pc[t] \in {"routing", "prompting", "asking"} \/ pc'[t] = "done"
      BY <1>0, <1>3 DEF Idler, Consult, Ask, Fail, Remember, Goto, IInv, Control
    <2>2. \A u \in Turns : Unsaved(u)' => Unsaved(u)
      BY <1>3, <2>1, IdlerEffect DEF Unsaved
    <2>3. \A j \in Jobs : job'[j].at = "asking" => job'[j] = job[j] /\ born'[j[1]] = born[j[1]]
      BY <1>3, IdlerEffect
    <2>4. QED
      BY <1>3, <2>2, <2>3, IdlerEffect, HInvQuiet
  <1>4. CASE (\E m \in Messages : Stop(m)) \/ Restart \/ UNCHANGED vars
    <2>1. \A u \in Turns : Unsaved(u)' => Unsaved(u)
      BY <1>4, EndEffect DEF Unsaved
    <2>2. \A j \in Jobs : job'[j].at = "asking" => job'[j] = job[j] /\ born'[j[1]] = born[j[1]]
      BY <1>4, EndEffect
    <2>3. QED
      BY <1>4, <2>1, <2>2, EndEffect, HInvQuiet
  <1>5. ASSUME NEW j \in Jobs, Consolidation(j) PROVE HInv'
    BY <1>5, HInvConsolidate, HInvConsolidateOk DEF Consolidation
  <1>6. ASSUME NEW n \in News, New(n) PROVE HInv'
    BY <1>6, HInvNew
  <1>7. ASSUME NEW n \in News, Archive(n) PROVE HInv'
    BY <1>7, HInvArchive
  <1>8. QED
    BY <1>1, <1>2, <1>3, <1>4, <1>5, <1>6, <1>7 DEF Next, Turn, Quiet, Idler

LEMMA ConversationInvariant == Spec => [](IInv /\ KInv /\ HInv)
  <1>1. Init => IInv /\ KInv /\ HInv
    BY IInvInit, KInvInit, HInvInit
  <1>2. (IInv /\ KInv /\ HInv) /\ [Next]_vars => (IInv /\ KInv /\ HInv)'
    BY IInvNext, KInvNext, HInvNext
  <1>3. QED
    BY <1>1, <1>2, PTL DEF Spec

(* No turn is written to HISTORY.md twice, although foreground and background *)
(* consolidations and the archiving of a /new all cut slices off one session, *)
(* unless something that began before a /new saved after it.                  *)
THEOREM NoTurnTwice == Spec => []ArchivedOnce
  <1>1. HInv => ArchivedOnce
    BY DEF HInv, ArchivedOnce
  <1>2. QED
    BY <1>1, ConversationInvariant, PTL

-----------------------------------------------------------------------------
(* What the steps do to the session's file.                                *)

LEMMA ExtendsItself ==
    ASSUME NEW s \in Sessions
    PROVE  Extends(s, s)
  BY DEF Extends, Sessions

(* A turn that is saved extends the file: its handler holds the cached object. *)
LEMMA SavedTurnExtends ==
    ASSUME IInv, KInv, NEW t \in Turns, Shortcut(t) \/ Reply(t), ~straddled'
    PROVE  Extends(file', file)
  <1>1. /\ Live(t)
        /\ Save(sess[t], AddTurn(objs[sess[t]], t))
        /\ ~straddled /\ born[t] = epoch
    BY DEF Shortcut, Reply, Live, Busy, Straddles
  <1>2. file' = AddTurn(file, t)
    BY <1>1, OwnSession DEF Save
  <1>3. /\ file \in Sessions /\ file' \in Sessions
        /\ file.msgs \in Seq(Turns) /\ file'.msgs \in Seq(Turns)
        /\ file.off \in Nat /\ Len(file.msgs) \in Nat
    BY <1>2, SessionValues, LenProperties DEF IInv, Store, Sessions
  <1>4. /\ file'.off = file.off
        /\ Len(file'.msgs) = Len(file.msgs) + 1
        /\ \A k \in 1..Len(file.msgs) : file'.msgs[k] = file.msgs[k]
    BY <1>2, <1>3, AddTurnEffect
  <1>5. DOMAIN file.msgs = 1..Len(file.msgs) /\ DOMAIN file'.msgs = 1..(Len(file.msgs) + 1)
    BY <1>3, <1>4, LenProperties
  <1>6. QED
    BY <1>3, <1>4, <1>5 DEF Extends

(* The end of a round moves the offset forward: no other slice is out, and    *)
(* this one was cut behind the offset.                                        *)
LEMMA ConsolidationExtends ==
    ASSUME IInv, KInv, HInv, NEW j \in Jobs, ConsolidateOk(j), ~straddled'
    PROVE  Extends(file', file)
  <1>1. /\ job[j].at = "asking" /\ j[1] \in Turns
        /\ ~straddled /\ born[j[1]] = epoch
        /\ Save(sess[j[1]], [objs[sess[j[1]]] EXCEPT !.off = job[j].upto])
    BY JobParts DEF ConsolidateOk, Straddles
  <1>2. Live(j[1])
    <2>1. TurnInv(j[1])
      BY <1>1 DEF IInv, Control, Working
    <2>2. QED
      BY <1>1, <2>1, JobParts DEF TurnInv, Live, Busy
  <1>3. file' = [file EXCEPT !.off = job[j].upto]
    BY <1>1, <1>2, OwnSession DEF Save
  <1>4. file \in Sessions /\ file.off <= job[j].upto
    BY <1>1 DEF IInv, Store, HInv, SliceOfFile, FromFile
  <1>5. file'.msgs = file.msgs /\ file'.off = job[j].upto
    BY <1>3, <1>4 DEF Sessions
  <1>6. QED
    BY <1>4, <1>5 DEF Extends

(* No other step writes the file, but /new. *)
LEMMA OthersKeepFile ==
    ASSUME IInv, [Next]_vars, epoch' = epoch,
           ~\E t \in Turns : Shortcut(t) \/ Reply(t),
           ~\E j \in Jobs : ConsolidateOk(j)
    PROVE  file' = file
  <1>1. ASSUME NEW t \in Turns, Turn(t) PROVE file' = file
    BY <1>1 DEF Turn, Start, GetOrCreate, Consult, Ask, Fail, Remember, store
  <1>2. ASSUME NEW j \in Jobs, Consolidation(j) PROVE file' = file
    BY <1>2 DEF Consolidation, Consolidate, ConsolidateEmpty, ConsolidateFail, store
  <1>3. ASSUME NEW n \in News, New(n) PROVE FALSE
    BY <1>3 DEF New, IInv, Records
  <1>4. ASSUME NEW n \in News, Archive(n) PROVE file' = file
    BY <1>4 DEF Archive, store
  <1>5. CASE (\E m \in Messages : Stop(m)) \/ Restart \/ UNCHANGED vars
    BY <1>5, EndEffect
  <1>6. QED
    BY <1>1, <1>2, <1>3, <1>4, <1>5 DEF Next, Quiet

(* Between two /new a session's file is only extended and its offset only     *)
(* moves forward, whatever turns and consolidations overlap (memory.py:       *)
(* 241-270, manager.py:135-149), unless something that began before a /new    *)
(* saved after it.                                                            *)
THEOREM FileGrows == Spec => FileOnlyGrows
  <1>1. ASSUME IInv, KInv, HInv, [Next]_vars, epoch' = epoch, ~straddled'
        PROVE  Extends(file', file)
    <2>1. CASE \E t \in Turns : Shortcut(t) \/ Reply(t)
      BY <1>1, <2>1, SavedTurnExtends
    <2>2. CASE \E j \in Jobs : ConsolidateOk(j)
      BY <1>1, <2>2, ConsolidationExtends
    <2>3. CASE ~(\E t \in Turns : Shortcut(t) \/ Reply(t)) /\ ~\E j \in Jobs : ConsolidateOk(j)
      BY <1>1, <2>3, OthersKeepFile, ExtendsItself DEF IInv, Store
    <2>4. QED
      BY <2>1, <2>2, <2>3
  <1>2. (IInv /\ KInv /\ HInv) /\ [Next]_vars
           => [epoch' = epoch /\ ~straddled' => Extends(file', file)]_vars
    BY <1>1
  <1>3. QED
    BY <1>2, ConversationInvariant, PTL DEF Spec, FileOnlyGrows
=============================================================================
