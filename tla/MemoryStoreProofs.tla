-------------------------- MODULE MemoryStoreProofs --------------------------
(***************************************************************************)
(* Proofs about MemoryStore, for any jobs, processes and limits: the shape *)
(* of its state, what reaches HISTORY.md and how often, and what stays in  *)
(* MEMORY.md.                                                              *)
(***************************************************************************)
EXTENDS MemoryStore, TLAPS

(* A job whose prompt was built and whose update is not written yet. *)
Prompted == {"asking", "entered", "truncated"}

(* A snapshot nobody took up has not been given to the model. *)
Untried == \A s \in Snapshots : at[s] = "waiting" => tries[s] = 0

(* The count holds the failures of a snapshot that is being tried, unless     *)
(* another job set it back or an earlier try left an entry behind.            *)
OwnFailuresCount ==
    \A s \in Snapshots :
        at[s] = "asking" =>
            s \in robbed \/ history[s] > 0 \/ failures[home[s]] >= tries[s] - 1

(* Where a job is says whether its last try left an entry.  One that is over  *)
(* without is a snapshot, taken for archived after its last try.              *)
EntriesMatch ==
    \A x \in Jobs :
        /\ at[x] \in Synchronous => history[x] = broken[x] + 1
        /\ at[x] \in {"waiting", "asking", "lost"} => history[x] = broken[x]
        /\ at[x] = "over" => \/ history[x] = broken[x] + 1
                             \/ x \in Snapshots /\ history[x] = broken[x]

(* What MEMORY.md has got is in the text a prompt was built from, or is noted *)
(* as missing from it.                                                        *)
PromptsKnow ==
    \A x \in Jobs : at[x] \in Prompted =>
        \A f \in written \ overlaid : f \in base[x] \/ <<f, x>> \in late

(* Only a crash or a disk error breaks a try. *)
BrokenByFaults == \A x \in Jobs : broken[x] <= faults

IInv ==
    /\ TypeOK
    /\ Untried
    /\ OwnFailuresCount
    /\ SnapshotKept
    /\ EntriesMatch
    /\ PromptsKnow
    /\ UpdateKept
    /\ BrokenByFaults

Places == {"waiting", "asking", "over", "lost"} \cup Synchronous

-----------------------------------------------------------------------------
(* The parts of the steps.                                                   *)

LEMMA InitHolds == Init => IInv
  BY TwoKinds, Bounds
  DEF Init, IInv, TypeOK, Untried, OwnFailuresCount, SnapshotKept, EntriesMatch, PromptsKnow,
      UpdateKept, BrokenByFaults, Synchronous, Prompted, Jobs, Torn

(* A prompt knows what was written before it: from the file, or, where the   *)
(* file was empty, by the note that it does not.                              *)
LEMMA FreshPrompt ==
    ASSUME IInv, NEW x \in Jobs, BuildPrompt(x), UNCHANGED written, overlaid \subseteq overlaid'
    PROVE  /\ base' \in [Jobs -> SUBSET Jobs]
           /\ late' \in SUBSET (Jobs \X Jobs)
           /\ \A f \in written' \ overlaid' : f \in base'[x] \/ <<f, x>> \in late'
           /\ \A y \in Jobs \ {x} : base'[y] = base[y]
           /\ \A y \in Jobs \ {x}, f \in Jobs : <<f, y>> \in late' <=> <<f, y>> \in late
  BY DEF IInv, TypeOK, BuildPrompt, SeesFacts, UpdateKept

(* Who set the count back is noted at the snapshots that were counting on it. *)
LEMMA CountReset ==
    ASSUME IInv, NEW x \in Jobs, ResetFailures(x), UNCHANGED home,
           \A y \in Jobs \ {x} : at'[y] = at[y] /\ tries'[y] = tries[y] /\ history'[y] = history[y]
    PROVE  /\ failures' \in [Processes -> 0 .. MaxFailures - 1]
           /\ robbed' \in SUBSET Snapshots
           /\ robbed \subseteq robbed'
           /\ \A s \in Snapshots \ {x} : at'[s] = "asking" =>
                 s \in robbed' \/ history'[s] > 0 \/ failures'[home'[s]] >= tries'[s] - 1
<1>1. /\ home \in [Jobs -> Processes] /\ failures \in [Processes -> 0 .. MaxFailures - 1]
      /\ tries \in [Jobs -> Nat] /\ robbed \in SUBSET Snapshots
      /\ history \in [Jobs -> Nat]
  BY DEF IInv, TypeOK
<1>2. failures' \in [Processes -> 0 .. MaxFailures - 1]
  BY <1>1, Bounds DEF ResetFailures
<1>3. robbed' \in SUBSET Snapshots /\ robbed \subseteq robbed'
  BY <1>1 DEF ResetFailures
<1>4. ASSUME NEW s \in Snapshots \ {x}, at'[s] = "asking"
      PROVE  s \in robbed' \/ history'[s] > 0 \/ failures'[home'[s]] >= tries'[s] - 1
  <2>1. s \in Jobs \ {x} /\ at[s] = "asking" /\ tries'[s] = tries[s] /\ history'[s] = history[s]
    BY <1>4 DEF Jobs
  <2>2. s \in robbed \/ history[s] > 0 \/ failures[home[s]] >= tries[s] - 1
    BY <2>1 DEF IInv, OwnFailuresCount
  <2>3. CASE home[s] # home[x]
    BY <1>1, <1>3, <2>1, <2>2, <2>3 DEF ResetFailures
  <2>4. CASE home[s] = home[x] /\ tries[s] > 1
    BY <2>1, <2>4 DEF ResetFailures
  <2>5. CASE home[s] = home[x] /\ ~(tries[s] > 1)
    <3>1. failures'[home'[s]] = 0
      BY <1>1, <2>5 DEF ResetFailures
    <3>2. tries[s] \in Nat
      BY <1>1, <2>1
    <3> QED
      BY <2>1, <2>5, <3>1, <3>2
  <2> QED
    BY <2>3, <2>4, <2>5
<1> QED
  BY <1>2, <1>3, <1>4

-----------------------------------------------------------------------------
(* consolidate, up to the call of the model.                                 *)

LEMMA BeginKeeps ==
    ASSUME IInv, NEW x \in Jobs, Begin(x)
    PROVE  IInv'
<1> USE TwoKinds, Bounds
<1>0. /\ at[x] = "waiting"
      /\ at' = [at EXCEPT ![x] = "asking"]
      /\ tries' = [tries EXCEPT ![x] = @ + 1]
      /\ x \in Slices => tries[x] < MaxTries
      /\ BuildPrompt(x)
      /\ UNCHANGED <<home, failures, memory, history, faults, robbed, broken, written, overlaid>>
  BY DEF Begin, files
<1>1. TypeOK
  BY DEF IInv
<1>2. /\ base' \in [Jobs -> SUBSET Jobs]
      /\ late' \in SUBSET (Jobs \X Jobs)
      /\ \A f \in written' \ overlaid' : f \in base'[x] \/ <<f, x>> \in late'
      /\ \A y \in Jobs \ {x} : base'[y] = base[y]
      /\ \A y \in Jobs \ {x}, f \in Jobs : <<f, y>> \in late' <=> <<f, y>> \in late
  BY <1>0, FreshPrompt
<1>3. x \in Snapshots => tries[x] = 0
  BY <1>0 DEF IInv, Untried
<1>4. TypeOK'
  BY <1>0, <1>1, <1>2, <1>3 DEF TypeOK, Jobs
<1>5. Untried'
  BY <1>0, <1>1 DEF IInv, TypeOK, Untried, Jobs
<1>6. OwnFailuresCount'
  BY <1>0, <1>1, <1>3 DEF IInv, TypeOK, OwnFailuresCount, Jobs
<1>7. SnapshotKept'
  BY <1>0, <1>1 DEF IInv, TypeOK, SnapshotKept, Jobs
<1>8. EntriesMatch'
  BY <1>0, <1>1 DEF IInv, TypeOK, EntriesMatch, Synchronous
<1>9. PromptsKnow'
  BY <1>0, <1>1, <1>2 DEF IInv, TypeOK, PromptsKnow, Prompted
<1>10. UpdateKept'
  BY <1>0, <1>1 DEF IInv, TypeOK, UpdateKept, Torn
<1>11. BrokenByFaults'
  BY <1>0 DEF IInv, BrokenByFaults
<1> QED
  BY <1>4, <1>5, <1>6, <1>7, <1>8, <1>9, <1>10, <1>11 DEF IInv

(* Steps of one job that leave prompts and counts alone. *)
LEMMA CancelKeeps ==
    ASSUME IInv, NEW x \in Jobs, Cancel(x)
    PROVE  IInv'
<1> USE TwoKinds, Bounds
<1>0. /\ x \in Slices /\ at[x] = "asking"
      /\ at' = [at EXCEPT ![x] = "waiting"]
      /\ UNCHANGED <<home, tries, base, failures, memory, history, faults, robbed, broken,
                     written, late, overlaid>>
  BY DEF Cancel, files, ghosts
<1>1. TypeOK
  BY DEF IInv
<1>2. TypeOK'
  BY <1>0, <1>1 DEF TypeOK, Jobs
<1>3. Untried'
  BY <1>0, <1>1 DEF IInv, TypeOK, Untried, Jobs
<1>4. OwnFailuresCount'
  BY <1>0, <1>1 DEF IInv, TypeOK, OwnFailuresCount, Jobs
<1>5. SnapshotKept'
  BY <1>0, <1>1 DEF IInv, TypeOK, SnapshotKept, Jobs
<1>6. EntriesMatch'
  BY <1>0, <1>1 DEF IInv, TypeOK, EntriesMatch, Synchronous
<1>7. PromptsKnow'
  BY <1>0, <1>1 DEF IInv, TypeOK, PromptsKnow, Prompted
<1>8. UpdateKept'
  BY <1>0, <1>1 DEF IInv, TypeOK, UpdateKept, Torn
<1>9. BrokenByFaults'
  BY <1>0 DEF IInv, BrokenByFaults
<1> QED
  BY <1>2, <1>3, <1>4, <1>5, <1>6, <1>7, <1>8, <1>9 DEF IInv

-----------------------------------------------------------------------------
(* A failure: the provider's, or the disk's after the entry was appended.    *)

(* What both have in common: a try whose entry is there is broken, and with a *)
(* torn file goes what it held.                                               *)
LEMMA FailureEffect ==
    ASSUME IInv, NEW x \in Jobs, Fail(x) \/ WriteFails(x)
    PROVE  /\ at[x] \in Prompted
           /\ FailOrRawArchive(x)
           /\ broken' = [broken EXCEPT ![x] = history[x]]
           /\ overlaid' = overlaid \cup TornBy(x)
           /\ faults' \in faults .. MaxFaults
           /\ broken'[x] <= faults'
           /\ UNCHANGED <<home, memory, written>>
<1> USE Bounds
<1>1. /\ broken \in [Jobs -> Nat] /\ history \in [Jobs -> Nat] /\ faults \in 0 .. MaxFaults
      /\ broken[x] <= faults
  BY DEF IInv, TypeOK, BrokenByFaults
<1>2. CASE Fail(x)
  <2>1. history[x] = broken[x] /\ TornBy(x) = {}
    BY <1>2 DEF Fail, IInv, EntriesMatch, TornBy
  <2> QED
    BY <1>1, <1>2, <2>1 DEF Fail, Prompted
<1>3. CASE WriteFails(x)
  <2>1. history[x] = broken[x] + 1
    BY <1>3 DEF WriteFails, IInv, EntriesMatch, Synchronous
  <2> QED
    BY <1>1, <1>3, <2>1 DEF WriteFails, Fault, Prompted
<1> QED
  BY <1>2, <1>3

(* MEMORY.md stands as it was, and a torn one has lost what is noted as lost. *)
LEMMA FailureKeepsUpdates ==
    ASSUME IInv, NEW x \in Jobs, at[x] \in Prompted, NEW w \in Places \ {"truncated"},
           at' = [at EXCEPT ![x] = w],
           overlaid' = overlaid \cup TornBy(x), UNCHANGED <<memory, written>>
    PROVE  UpdateKept'
<1>1. at \in [Jobs -> Places]
  BY DEF IInv, TypeOK, Places
<1>2. CASE at[x] = "truncated"
  BY <1>2 DEF TornBy, UpdateKept
<1>3. CASE at[x] # "truncated"
  <2>1. Torn' <=> Torn
    BY <1>1, <1>3 DEF Torn
  <2> QED
    BY <2>1 DEF IInv, UpdateKept
<1> QED
  BY <1>2, <1>3

(* The last failure in a row: the messages are archived raw. *)
LEMMA RawArchiveKeeps ==
    ASSUME IInv, NEW x \in Jobs, Fail(x) \/ WriteFails(x), RawArchive(x)
    PROVE  IInv'
<1> USE TwoKinds, Bounds
<1> DEFINE w == IF x \in Slices THEN "kept" ELSE "over"
<1>0. /\ at[x] \in Prompted
      /\ at' = [at EXCEPT ![x] = w]
      /\ history' = [history EXCEPT ![x] = @ + 1]
      /\ ResetFailures(x)
      /\ broken' = [broken EXCEPT ![x] = history[x]]
      /\ overlaid' = overlaid \cup TornBy(x)
      /\ faults' \in faults .. MaxFaults /\ broken'[x] <= faults'
      /\ UNCHANGED <<home, tries, base, memory, written, late>>
  BY FailureEffect DEF RawArchive, Success
<1>1. TypeOK
  BY DEF IInv
<1>2. w \in Places \ {"truncated"} /\ w \notin {"waiting", "asking", "lost"}
      /\ (w = "over" => x \in Snapshots)
  BY DEF Places, Synchronous, Jobs
<1> HIDE DEF w
<1>3. /\ failures' \in [Processes -> 0 .. MaxFailures - 1]
      /\ robbed' \in SUBSET Snapshots
      /\ robbed \subseteq robbed'
      /\ \A s \in Snapshots \ {x} : at'[s] = "asking" =>
            s \in robbed' \/ history'[s] > 0 \/ failures'[home'[s]] >= tries'[s] - 1
  <2>1. \A y \in Jobs \ {x} : at'[y] = at[y] /\ tries'[y] = tries[y] /\ history'[y] = history[y]
    BY <1>0, <1>1 DEF TypeOK
  <2> QED
    BY <1>0, <2>1, CountReset
<1>4. TypeOK'
  <2>1. overlaid' \in SUBSET written'
    BY <1>0, <1>1 DEF TypeOK, TornBy
  <2>2. at' \in [Jobs -> Places]
    BY <1>0, <1>1, <1>2 DEF TypeOK, Places
  <2>3. faults' \in 0 .. MaxFaults
    BY <1>0, <1>1 DEF TypeOK
  <2> QED
    BY <1>0, <1>1, <1>3, <2>1, <2>2, <2>3 DEF TypeOK, Places
<1>5. Untried'
  BY <1>0, <1>1, <1>2 DEF IInv, TypeOK, Untried, Jobs
<1>6. OwnFailuresCount'
  BY <1>0, <1>1, <1>2, <1>3 DEF TypeOK, OwnFailuresCount, Jobs
<1>7. SnapshotKept'
  BY <1>0, <1>1, <1>2, <1>3 DEF IInv, TypeOK, SnapshotKept, Jobs
<1>8. EntriesMatch'
  BY <1>0, <1>1, <1>2 DEF IInv, TypeOK, EntriesMatch, Synchronous, Places
<1>9. PromptsKnow'
  BY <1>0, <1>1, <1>2 DEF IInv, TypeOK, PromptsKnow, Prompted, Places, Synchronous
<1>10. UpdateKept'
  BY <1>0, <1>2, FailureKeepsUpdates
<1>11. BrokenByFaults'
  BY <1>0, <1>1 DEF IInv, TypeOK, BrokenByFaults
<1> QED
  BY <1>4, <1>5, <1>6, <1>7, <1>8, <1>9, <1>10, <1>11 DEF IInv

(* Another failure, and a snapshot is given to the model again. *)
LEMMA AgainKeeps ==
    ASSUME IInv, NEW x \in Jobs, Fail(x) \/ WriteFails(x), Count(x), TriesLeft(x), AskAgain(x)
    PROVE  IInv'
<1> USE TwoKinds, Bounds
<1>0. /\ at[x] \in Prompted
      /\ x \in Snapshots /\ tries[x] < MaxFailures
      /\ at' = [at EXCEPT ![x] = "asking"]
      /\ tries' = [tries EXCEPT ![x] = @ + 1]
      /\ BuildPrompt(x)
      /\ ~(failures[home[x]] + 1 >= MaxFailures)
      /\ failures' = [failures EXCEPT ![home[x]] = @ + 1]
      /\ broken' = [broken EXCEPT ![x] = history[x]]
      /\ overlaid' = overlaid \cup TornBy(x)
      /\ faults' \in faults .. MaxFaults /\ broken'[x] <= faults'
      /\ UNCHANGED <<home, history, robbed, memory, written>>
  BY FailureEffect DEF Count, LastFailure, TriesLeft, AskAgain
<1>1. TypeOK
  BY DEF IInv
<1>2. /\ base' \in [Jobs -> SUBSET Jobs]
      /\ late' \in SUBSET (Jobs \X Jobs)
      /\ \A f \in written' \ overlaid' : f \in base'[x] \/ <<f, x>> \in late'
      /\ \A y \in Jobs \ {x} : base'[y] = base[y]
      /\ \A y \in Jobs \ {x}, f \in Jobs : <<f, y>> \in late' <=> <<f, y>> \in late
  BY <1>0, FreshPrompt
<1>3. failures' \in [Processes -> 0 .. MaxFailures - 1]
      /\ \A p \in Processes : failures'[p] >= failures[p]
      /\ failures'[home[x]] = failures[home[x]] + 1
  BY <1>0, <1>1 DEF TypeOK
<1>4. TypeOK'
  <2>1. overlaid' \in SUBSET written'
    BY <1>0, <1>1 DEF TypeOK, TornBy
  <2>2. at' \in [Jobs -> Places]
    BY <1>0, <1>1 DEF TypeOK, Places
  <2>3. faults' \in 0 .. MaxFaults
    BY <1>0, <1>1 DEF TypeOK
  <2>4. /\ tries' \in [Jobs -> Nat]
        /\ \A y \in Jobs : tries'[y] <= IF y \in Slices THEN MaxTries ELSE MaxFailures
    BY <1>0, <1>1 DEF TypeOK
  <2>5. broken' \in [Jobs -> Nat]
    BY <1>0, <1>1 DEF TypeOK
  <2> QED
    BY <1>0, <1>1, <1>2, <1>3, <2>1, <2>2, <2>3, <2>4, <2>5 DEF TypeOK, Places
<1>5. Untried'
  BY <1>0, <1>1 DEF IInv, TypeOK, Untried, Jobs
<1>6. OwnFailuresCount'
  <2> SUFFICES ASSUME NEW s \in Snapshots, at'[s] = "asking"
               PROVE  s \in robbed' \/ history'[s] > 0 \/ failures'[home'[s]] >= tries'[s] - 1
    BY DEF OwnFailuresCount
  <2>1. home[s] \in Processes /\ tries[s] \in Nat /\ failures[home[s]] \in Nat
    BY <1>1 DEF TypeOK, Jobs
  <2>2. CASE s = x /\ at[x] = "asking"
    BY <1>0, <1>1, <1>3, <2>1, <2>2 DEF IInv, OwnFailuresCount, TypeOK
  <2>3. CASE s = x /\ at[x] # "asking"
    <3>1. history[x] = broken[x] + 1
      BY <1>0, <2>3 DEF IInv, EntriesMatch, Prompted, Synchronous
    <3> QED
      BY <1>0, <1>1, <2>3, <3>1 DEF TypeOK
  <2>4. CASE s # x
    BY <1>0, <1>1, <1>3, <2>1, <2>4 DEF IInv, OwnFailuresCount, TypeOK, Jobs
  <2> QED
    BY <2>2, <2>3, <2>4
<1>7. SnapshotKept'
  BY <1>0, <1>1 DEF IInv, TypeOK, SnapshotKept, Jobs
<1>8. EntriesMatch'
  BY <1>0, <1>1 DEF IInv, TypeOK, EntriesMatch, Synchronous
<1>9. PromptsKnow'
  BY <1>0, <1>1, <1>2 DEF IInv, TypeOK, PromptsKnow, Prompted
<1>10. UpdateKept'
  BY <1>0, FailureKeepsUpdates DEF Places
<1>11. BrokenByFaults'
  BY <1>0, <1>1 DEF IInv, TypeOK, BrokenByFaults
<1> QED
  BY <1>4, <1>5, <1>6, <1>7, <1>8, <1>9, <1>10, <1>11 DEF IInv

(* Another failure, and the job is left: the slice to a later turn, the       *)
(* snapshot for good.  That was the snapshot's last try, so the count would   *)
(* have been at its limit had nobody set it back.                             *)
LEMMA LeftKeeps ==
    ASSUME IInv, NEW x \in Jobs, Fail(x) \/ WriteFails(x), Count(x), ~TriesLeft(x),
           at' = [at EXCEPT ![x] = IF x \in Slices THEN "waiting" ELSE "over"],
           UNCHANGED <<tries, base, late>>
    PROVE  IInv'
<1> USE TwoKinds, Bounds
<1> DEFINE w == IF x \in Slices THEN "waiting" ELSE "over"
<1>0. /\ at[x] \in Prompted
      /\ x \in Snapshots => tries[x] >= MaxFailures
      /\ at' = [at EXCEPT ![x] = w]
      /\ ~(failures[home[x]] + 1 >= MaxFailures)
      /\ failures' = [failures EXCEPT ![home[x]] = @ + 1]
      /\ broken' = [broken EXCEPT ![x] = history[x]]
      /\ overlaid' = overlaid \cup TornBy(x)
      /\ faults' \in faults .. MaxFaults /\ broken'[x] <= faults'
      /\ UNCHANGED <<home, tries, base, late, history, robbed, memory, written>>
  <2>1. tries[x] \in Nat
    BY DEF IInv, TypeOK
  <2> QED
    BY <2>1, FailureEffect DEF Count, LastFailure, TriesLeft
<1>1. TypeOK
  BY DEF IInv
<1>2. w \in {"waiting", "over"} /\ (x \in Snapshots <=> w = "over")
  BY DEF Jobs
<1> HIDE DEF w
<1>3. failures' \in [Processes -> 0 .. MaxFailures - 1]
      /\ \A p \in Processes : failures'[p] >= failures[p]
  BY <1>0, <1>1 DEF TypeOK
<1>4. TypeOK'
  <2>1. overlaid' \in SUBSET written'
    BY <1>0, <1>1 DEF TypeOK, TornBy
  <2>2. at' \in [Jobs -> Places]
    BY <1>0, <1>1, <1>2 DEF TypeOK, Places
  <2>3. faults' \in 0 .. MaxFaults
    BY <1>0, <1>1 DEF TypeOK
  <2>4. broken' \in [Jobs -> Nat]
    BY <1>0, <1>1 DEF TypeOK
  <2> QED
    BY <1>0, <1>1, <1>3, <2>1, <2>2, <2>3, <2>4 DEF TypeOK, Places
<1>5. Untried'
  BY <1>0, <1>1, <1>2 DEF IInv, TypeOK, Untried, Jobs
<1>6. OwnFailuresCount'
  <2> SUFFICES ASSUME NEW s \in Snapshots, at'[s] = "asking"
               PROVE  s \in robbed \/ history[s] > 0 \/ failures'[home[s]] >= tries[s] - 1
    BY <1>0 DEF OwnFailuresCount
  <2>1. s \in Jobs /\ at[s] = "asking"
    BY <1>0, <1>1, <1>2 DEF TypeOK, Jobs
  <2>2. home[s] \in Processes /\ tries[s] \in Nat /\ failures[home[s]] \in Nat
    BY <1>1, <2>1 DEF TypeOK
  <2> QED
    BY <1>3, <2>1, <2>2 DEF IInv, OwnFailuresCount
<1>7. SnapshotKept'
  <2>1. CASE x \in Snapshots
    <3>1. history[x] > 0 \/ x \in robbed
      <4>1. CASE at[x] = "asking"
        BY <1>0, <1>1, <2>1, <4>1 DEF IInv, TypeOK, OwnFailuresCount
      <4>2. CASE at[x] # "asking"
        <5>1. history[x] = broken[x] + 1
          BY <1>0, <4>2 DEF IInv, EntriesMatch, Prompted, Synchronous
        <5> QED
          BY <1>1, <5>1 DEF TypeOK
      <4> QED
        BY <4>1, <4>2
    <3> QED
      BY <1>0, <1>1, <3>1 DEF IInv, TypeOK, SnapshotKept, Jobs
  <2>2. CASE x \notin Snapshots
    BY <1>0, <1>1, <2>2 DEF IInv, TypeOK, SnapshotKept, Jobs
  <2> QED
    BY <2>1, <2>2
<1>8. EntriesMatch'
  BY <1>0, <1>1, <1>2 DEF IInv, TypeOK, EntriesMatch, Synchronous
<1>9. PromptsKnow'
  BY <1>0, <1>1, <1>2 DEF IInv, TypeOK, PromptsKnow, Prompted
<1>10. UpdateKept'
  BY <1>0, <1>2, FailureKeepsUpdates DEF Places
<1>11. BrokenByFaults'
  BY <1>0, <1>1 DEF IInv, TypeOK, BrokenByFaults
<1> QED
  BY <1>4, <1>5, <1>6, <1>7, <1>8, <1>9, <1>10, <1>11 DEF IInv

LEMMA FailureKeeps ==
    ASSUME IInv, NEW x \in Jobs, Fail(x) \/ WriteFails(x)
    PROVE  IInv'
<1>1. RawArchive(x) \/ Count(x)
  BY FailureEffect DEF FailOrRawArchive
<1>2. CASE RawArchive(x)
  BY <1>2, RawArchiveKeeps
<1>3. CASE Count(x)
  <2>1. \/ TriesLeft(x) /\ AskAgain(x)
        \/ /\ ~TriesLeft(x)
           /\ at' = [at EXCEPT ![x] = IF x \in Slices THEN "waiting" ELSE "over"]
           /\ UNCHANGED <<tries, base, late>>
    BY <1>3 DEF Count, GiveBack
  <2> QED
    BY <1>3, <2>1, AgainKeeps, LeftKeeps
<1> QED
  BY <1>1, <1>2, <1>3

-----------------------------------------------------------------------------
(* consolidate, from the model's answer on.                                  *)

LEMMA AnswerKeeps ==
    ASSUME IInv, NEW x \in Jobs, Answer(x)
    PROVE  IInv'
<1> USE TwoKinds, Bounds
<1>0. /\ at[x] = "asking"
      /\ at' = [at EXCEPT ![x] = "entered"]
      /\ history' = [history EXCEPT ![x] = @ + 1]
      /\ UNCHANGED <<home, tries, base, failures, memory, faults, robbed, broken, written,
                     late, overlaid>>
  BY DEF Answer, ghosts
<1>1. TypeOK
  BY DEF IInv
<1>2. history[x] = broken[x]
  BY <1>0 DEF IInv, EntriesMatch
<1>3. TypeOK'
  BY <1>0, <1>1 DEF TypeOK, Jobs, Synchronous
<1>4. Untried'
  BY <1>0, <1>1 DEF IInv, TypeOK, Untried, Jobs
<1>5. OwnFailuresCount'
  BY <1>0, <1>1 DEF IInv, TypeOK, OwnFailuresCount, Jobs
<1>6. SnapshotKept'
  BY <1>0, <1>1 DEF IInv, TypeOK, SnapshotKept, Jobs
<1>7. EntriesMatch'
  BY <1>0, <1>1, <1>2 DEF IInv, TypeOK, EntriesMatch, Synchronous
<1>8. PromptsKnow'
  BY <1>0, <1>1 DEF IInv, TypeOK, PromptsKnow, Prompted
<1>9. UpdateKept'
  BY <1>0, <1>1 DEF IInv, TypeOK, UpdateKept, Torn
<1>10. BrokenByFaults'
  BY <1>0 DEF IInv, BrokenByFaults
<1> QED
  BY <1>3, <1>4, <1>5, <1>6, <1>7, <1>8, <1>9, <1>10 DEF IInv

LEMMA TruncateKeeps ==
    ASSUME IInv, NEW x \in Jobs, Truncate(x)
    PROVE  IInv'
<1> USE TwoKinds, Bounds
<1>0. /\ at[x] = "entered"
      /\ at' = [at EXCEPT ![x] = "truncated"]
      /\ memory' = {}
      /\ UNCHANGED <<home, tries, base, failures, history, faults, robbed, broken, written,
                     late, overlaid>>
  BY DEF Truncate, ghosts
<1>1. TypeOK
  BY DEF IInv
<1>2. TypeOK'
  BY <1>0, <1>1 DEF TypeOK, Jobs, Synchronous
<1>3. Untried'
  BY <1>0, <1>1 DEF IInv, TypeOK, Untried, Jobs
<1>4. OwnFailuresCount'
  BY <1>0, <1>1 DEF IInv, TypeOK, OwnFailuresCount, Jobs
<1>5. SnapshotKept'
  BY <1>0, <1>1 DEF IInv, TypeOK, SnapshotKept, Jobs
<1>6. EntriesMatch'
  BY <1>0, <1>1 DEF IInv, TypeOK, EntriesMatch, Synchronous
<1>7. PromptsKnow'
  BY <1>0, <1>1 DEF IInv, TypeOK, PromptsKnow, Prompted
<1>8. UpdateKept'
  BY <1>0, <1>1 DEF TypeOK, UpdateKept, Torn
<1>9. BrokenByFaults'
  BY <1>0 DEF IInv, BrokenByFaults
<1> QED
  BY <1>2, <1>3, <1>4, <1>5, <1>6, <1>7, <1>8, <1>9 DEF IInv

(* What the end of a consolidation does to the counts and the entries: the    *)
(* update was written, or there was nothing to write.                         *)
LEMMA SuccessKeeps ==
    ASSUME IInv, NEW x \in Jobs, at[x] \in {"entered", "truncated"},
           ResetFailures(x), Success(x), UNCHANGED <<home, tries, history, faults, broken>>
    PROVE  /\ at' \in [Jobs -> Places]
           /\ failures' \in [Processes -> 0 .. MaxFailures - 1]
           /\ robbed' \in SUBSET Snapshots
           /\ Untried' /\ OwnFailuresCount' /\ SnapshotKept' /\ EntriesMatch' /\ BrokenByFaults'
<1> USE TwoKinds, Bounds
<1> DEFINE w == IF x \in Slices THEN "kept" ELSE "over"
<1>1. TypeOK
  BY DEF IInv
<1>2. w \in {"kept", "over"} /\ at' = [at EXCEPT ![x] = w]
  BY DEF Success
<1> HIDE DEF w
<1>3. history[x] = broken[x] + 1 /\ history[x] > 0
  BY <1>1 DEF IInv, EntriesMatch, Synchronous, TypeOK
<1>4. at' \in [Jobs -> Places]
  BY <1>1, <1>2 DEF TypeOK, Places, Synchronous
<1>5. /\ failures' \in [Processes -> 0 .. MaxFailures - 1]
      /\ robbed' \in SUBSET Snapshots
      /\ robbed \subseteq robbed'
      /\ \A s \in Snapshots \ {x} : at'[s] = "asking" =>
            s \in robbed' \/ history'[s] > 0 \/ failures'[home'[s]] >= tries'[s] - 1
  <2>1. \A y \in Jobs \ {x} : at'[y] = at[y] /\ tries'[y] = tries[y] /\ history'[y] = history[y]
    BY <1>1, <1>2 DEF TypeOK
  <2> QED
    BY <2>1, CountReset
<1>6. Untried'
  BY <1>1, <1>2 DEF IInv, TypeOK, Untried, Jobs
<1>7. OwnFailuresCount'
  BY <1>1, <1>2, <1>5 DEF TypeOK, OwnFailuresCount, Jobs
<1>8. SnapshotKept'
  BY <1>1, <1>2, <1>3, <1>5 DEF IInv, TypeOK, SnapshotKept, Jobs
<1>9. EntriesMatch'
  BY <1>1, <1>2, <1>3 DEF IInv, TypeOK, EntriesMatch, Synchronous
<1>10. BrokenByFaults'
  BY DEF IInv, BrokenByFaults
<1> QED
  BY <1>4, <1>5, <1>6, <1>7, <1>8, <1>9, <1>10

LEMMA UnchangedKeeps ==
    ASSUME IInv, NEW x \in Jobs, Unchanged(x)
    PROVE  IInv'
<1> USE TwoKinds, Bounds
<1>0. /\ at[x] = "entered"
      /\ ResetFailures(x)
      /\ Success(x)
      /\ UNCHANGED <<home, tries, base, memory, history, faults, broken, written, late,
                     overlaid>>
  BY DEF Unchanged, files
<1>1. TypeOK
  BY DEF IInv
<1>2. /\ at' \in [Jobs -> Places]
      /\ failures' \in [Processes -> 0 .. MaxFailures - 1]
      /\ robbed' \in SUBSET Snapshots
      /\ Untried' /\ OwnFailuresCount' /\ SnapshotKept' /\ EntriesMatch' /\ BrokenByFaults'
  BY <1>0, SuccessKeeps
<1>3. TypeOK'
  BY <1>0, <1>1, <1>2 DEF TypeOK, Places
<1>4. \A y \in Jobs : at'[y] \in Prompted => at[y] \in Prompted
  BY <1>0, <1>1 DEF TypeOK, Success, Prompted
<1>5. PromptsKnow'
  BY <1>0, <1>4 DEF IInv, PromptsKnow
<1>6. UpdateKept'
  BY <1>0, <1>1 DEF IInv, TypeOK, UpdateKept, Torn, Success
<1> QED
  BY <1>2, <1>3, <1>5, <1>6 DEF IInv

(* The update replaces the file: what it does not hold is noted as replaced,  *)
(* and who was asked before it is noted not to know it.                       *)
LEMMA WriteKeeps ==
    ASSUME IInv, NEW x \in Jobs, Write(x)
    PROVE  IInv'
<1> USE TwoKinds, Bounds
<1>0. /\ at[x] = "truncated"
      /\ \E rest \in SUBSET memory : memory' = base[x] \cup {x} \cup rest
      /\ ResetFailures(x)
      /\ Success(x)
      /\ written' = written \cup {x}
      /\ overlaid' = (overlaid \cup {f \in written : <<f, x>> \in late}) \ {x}
      /\ late' = late \cup {<<x, y>> : y \in {y \in Jobs \ {x} : at[y] # "waiting"}}
      /\ UNCHANGED <<home, tries, base, history, faults, broken>>
  BY DEF Write
<1>1. TypeOK
  BY DEF IInv
<1>2. /\ at' \in [Jobs -> Places]
      /\ failures' \in [Processes -> 0 .. MaxFailures - 1]
      /\ robbed' \in SUBSET Snapshots
      /\ Untried' /\ OwnFailuresCount' /\ SnapshotKept' /\ EntriesMatch' /\ BrokenByFaults'
  BY <1>0, SuccessKeeps
<1>3. /\ memory' \in SUBSET Jobs /\ written' \in SUBSET Jobs
      /\ overlaid' \in SUBSET written' /\ late' \in SUBSET (Jobs \X Jobs)
  BY <1>0, <1>1 DEF TypeOK
<1>4. TypeOK'
  BY <1>0, <1>1, <1>2, <1>3 DEF TypeOK, Places
<1>5. \A y \in Jobs : at'[y] \in Prompted => y # x /\ at[y] \in Prompted
  BY <1>0, <1>1 DEF TypeOK, Success, Prompted
<1>6. PromptsKnow'
  <2> SUFFICES ASSUME NEW y \in Jobs, at'[y] \in Prompted,
                      NEW f \in written' \ overlaid'
               PROVE  f \in base[y] \/ <<f, y>> \in late'
    BY <1>0 DEF PromptsKnow
  <2>1. y # x /\ at[y] \in Prompted
    BY <1>5
  <2>2. CASE f = x
    BY <1>0, <2>1, <2>2 DEF Prompted
  <2>3. CASE f # x
    <3>1. f \in written \ overlaid
      BY <1>0, <2>3
    <3> QED
      BY <1>0, <2>1, <3>1 DEF IInv, PromptsKnow
  <2> QED
    BY <2>2, <2>3
<1>7. UpdateKept'
  <2> SUFFICES ASSUME NEW f \in written'
               PROVE  f \in memory' \cup overlaid'
    BY DEF UpdateKept
  <2>1. CASE f = x
    BY <1>0, <2>1
  <2>2. CASE f # x
    <3>1. f \in written
      BY <1>0, <2>2
    <3>2. f \in overlaid \/ f \in base[x] \/ <<f, x>> \in late
      BY <1>0, <3>1 DEF IInv, PromptsKnow, Prompted
    <3> QED
      BY <1>0, <2>2, <3>1, <3>2
  <2> QED
    BY <2>1, <2>2
<1> QED
  BY <1>2, <1>4, <1>6, <1>7 DEF IInv

LEMMA SaveKeeps ==
    ASSUME IInv, NEW x \in Jobs, Save(x)
    PROVE  IInv'
<1> USE TwoKinds, Bounds
<1>0. /\ at[x] = "kept"
      /\ at' = [at EXCEPT ![x] = "over"]
      /\ UNCHANGED <<home, tries, base, failures, memory, history, faults, robbed, broken,
                     written, late, overlaid>>
  BY DEF Save, files, ghosts
<1>1. TypeOK
  BY DEF IInv
<1>2. history[x] = broken[x] + 1
  BY <1>0 DEF IInv, EntriesMatch, Synchronous
<1>3. TypeOK'
  BY <1>0, <1>1 DEF TypeOK, Jobs
<1>4. Untried'
  BY <1>0, <1>1 DEF IInv, TypeOK, Untried, Jobs
<1>5. OwnFailuresCount'
  BY <1>0, <1>1 DEF IInv, TypeOK, OwnFailuresCount, Jobs
<1>6. SnapshotKept'
  BY <1>0, <1>1, <1>2 DEF IInv, TypeOK, SnapshotKept, Jobs
<1>7. EntriesMatch'
  BY <1>0, <1>1, <1>2 DEF IInv, TypeOK, EntriesMatch, Synchronous
<1>8. PromptsKnow'
  BY <1>0, <1>1 DEF IInv, TypeOK, PromptsKnow, Prompted
<1>9. UpdateKept'
  BY <1>0, <1>1 DEF IInv, TypeOK, UpdateKept, Torn
<1>10. BrokenByFaults'
  BY <1>0 DEF IInv, BrokenByFaults
<1> QED
  BY <1>3, <1>4, <1>5, <1>6, <1>7, <1>8, <1>9, <1>10 DEF IInv

-----------------------------------------------------------------------------
(* A process dies: its count and its snapshots are gone, and with a file it   *)
(* had emptied what that held.                                                *)
LEMMA CrashKeeps ==
    ASSUME IInv, NEW p \in Processes, Crash(p)
    PROVE  IInv'
<1> USE TwoKinds, Bounds
<1>1. TypeOK
  BY DEF IInv
<1>0. /\ faults < MaxFaults /\ faults' = faults + 1
      /\ failures' = [failures EXCEPT ![p] = 0]
      /\ overlaid' = overlaid \cup UNION {TornBy(x) : x \in {x \in Jobs : home[x] = p}}
      /\ UNCHANGED <<home, tries, base, memory, history, robbed, written, late>>
  BY DEF Crash, Fault, files
<1>2. /\ at' \in [Jobs -> Places]
      /\ broken' \in [Jobs -> Nat]
      /\ \A x \in Jobs : home[x] # p \/ at[x] = "over" => at'[x] = at[x] /\ broken'[x] = broken[x]
      /\ \A x \in Jobs : home[x] = p /\ at[x] # "over" =>
            /\ at'[x] = IF x \in Slices THEN "waiting" ELSE "lost"
            /\ broken'[x] = IF at[x] \in Synchronous THEN broken[x] + 1 ELSE broken[x]
  BY <1>1 DEF Crash, TypeOK, Places, Synchronous
<1>3. overlaid \subseteq overlaid' /\ overlaid' \in SUBSET written'
  BY <1>0, <1>1 DEF TypeOK, TornBy
<1>4. TypeOK'
  <2>1. failures' \in [Processes -> 0 .. MaxFailures - 1]
    BY <1>0, <1>1 DEF TypeOK
  <2>2. faults' \in 0 .. MaxFaults
    BY <1>0, <1>1 DEF TypeOK
  <2> QED
    BY <1>0, <1>1, <1>2, <1>3, <2>1, <2>2 DEF TypeOK, Places
<1>5. Untried'
  BY <1>0, <1>1, <1>2 DEF IInv, Untried, Jobs
<1>6. OwnFailuresCount'
  <2> SUFFICES ASSUME NEW s \in Snapshots, at'[s] = "asking"
               PROVE  s \in robbed \/ history[s] > 0 \/ failures'[home[s]] >= tries[s] - 1
    BY <1>0 DEF OwnFailuresCount
  <2>1. s \in Jobs /\ home[s] # p /\ at[s] = "asking"
    BY <1>2 DEF Jobs
  <2> QED
    BY <1>0, <1>1, <2>1 DEF IInv, TypeOK, OwnFailuresCount
<1>7. SnapshotKept'
  BY <1>0, <1>2 DEF IInv, SnapshotKept, Jobs
<1>8. EntriesMatch'
  <2> SUFFICES ASSUME NEW x \in Jobs
               PROVE  /\ at'[x] \in Synchronous => history[x] = broken'[x] + 1
                      /\ at'[x] \in {"waiting", "asking", "lost"} => history[x] = broken'[x]
                      /\ at'[x] = "over" => \/ history[x] = broken'[x] + 1
                                            \/ x \in Snapshots /\ history[x] = broken'[x]
    BY <1>0 DEF EntriesMatch
  <2>1. CASE home[x] # p \/ at[x] = "over"
    BY <1>2, <2>1 DEF IInv, EntriesMatch
  <2>2. CASE home[x] = p /\ at[x] # "over"
    <3>1. at'[x] \in {"waiting", "lost"}
      BY <1>2, <2>2
    <3>2. at[x] \in Synchronous \/ at[x] \in {"waiting", "asking", "lost"}
      BY <1>1, <2>2 DEF TypeOK
    <3>3. history[x] = broken'[x]
      BY <1>2, <2>2, <3>2 DEF IInv, EntriesMatch, Synchronous
    <3> QED
      BY <3>1, <3>3 DEF Synchronous
  <2> QED
    BY <2>1, <2>2
<1>9. PromptsKnow'
  <2>1. \A x \in Jobs : at'[x] \in Prompted => at[x] \in Prompted
    BY <1>2 DEF Prompted
  <2> QED
    BY <1>0, <1>3, <2>1 DEF IInv, PromptsKnow
<1>10. UpdateKept'
  <2>1. CASE \E x \in Jobs : home[x] = p /\ at[x] = "truncated"
    BY <1>0, <2>1 DEF UpdateKept, TornBy
  <2>2. CASE \A x \in Jobs : home[x] = p => at[x] # "truncated"
    <3>1. Torn' <=> Torn
      BY <1>2, <2>2 DEF Torn
    <3> QED
      BY <1>0, <1>3, <3>1 DEF IInv, UpdateKept
  <2> QED
    BY <2>1, <2>2
<1>11. BrokenByFaults'
  BY <1>0, <1>1, <1>2 DEF IInv, TypeOK, BrokenByFaults
<1> QED
  BY <1>4, <1>5, <1>6, <1>7, <1>8, <1>9, <1>10, <1>11 DEF IInv

LEMMA StutterKeeps == IInv /\ UNCHANGED vars => IInv'
  BY DEF vars, files, ghosts, IInv, TypeOK, Untried, OwnFailuresCount, SnapshotKept, EntriesMatch,
         PromptsKnow, UpdateKept, BrokenByFaults, Torn

LEMMA NextKeeps == IInv /\ [Next]_vars => IInv'
<1> SUFFICES ASSUME IInv, [Next]_vars
             PROVE  IInv'
  OBVIOUS
<1>1. ASSUME NEW x \in Jobs, Job(x) \/ WriteFails(x)
      PROVE  IInv'
  BY <1>1, BeginKeeps, CancelKeeps, FailureKeeps, AnswerKeeps, UnchangedKeeps, TruncateKeeps,
     WriteKeeps, SaveKeeps
  DEF Job
<1>2. ASSUME NEW p \in Processes, Crash(p)
      PROVE  IInv'
  BY <1>2, CrashKeeps
<1>3. CASE UNCHANGED vars
  BY <1>3, StutterKeeps
<1> QED
  BY <1>1, <1>2, <1>3 DEF Next

LEMMA Invariant == Spec => []IInv
  BY InitHolds, NextKeeps, PTL DEF Spec

-----------------------------------------------------------------------------
(* The theorems.                                                             *)

(* Jobs, files and counts keep their shape: in particular                    *)
(* _fail_or_raw_archive always resets the count of failures before it gets to *)
(* the limit, and archive_messages never makes more tries than the limit.     *)
THEOREM StoreTypeCorrect == Spec => []TypeOK
  BY Invariant, PTL DEF IInv

(* What a /new left to archive_messages is in HISTORY.md once that is done,   *)
(* unless another job of the process reset the count of failures meanwhile.   *)
THEOREM SnapshotsKept == Spec => []SnapshotKept
  BY Invariant, PTL DEF IInv

(* consolidate appends before it can fail: a session's slice is in HISTORY.md *)
(* when its offset has moved, and more than once only after broken tries.     *)
THEOREM HistoryOnce == Spec => []InHistoryOnce
<1>1. IInv => InHistoryOnce
  BY TwoKinds DEF IInv, TypeOK, EntriesMatch, InHistoryOnce, Synchronous, Jobs
<1> QED
  BY <1>1, Invariant, PTL

(* HISTORY.md has the messages of a job at most once more than there were     *)
(* crashes and disk errors: a provider that fails, a retry, a /stop, another  *)
(* process never make consolidate write an entry again.                       *)
THEOREM DuplicatesNeedFaults == Spec => [](\A x \in Jobs : history[x] <= faults + 1)
<1>1. IInv => \A x \in Jobs : history[x] <= faults + 1
  <2> SUFFICES ASSUME IInv, NEW x \in Jobs
               PROVE  history[x] <= faults + 1
    OBVIOUS
  <2>1. history[x] \in {broken[x], broken[x] + 1}
    BY DEF IInv, TypeOK, EntriesMatch
  <2>2. broken[x] <= faults /\ broken[x] \in Nat /\ faults \in Nat
    BY Bounds DEF IInv, TypeOK, BrokenByFaults
  <2> QED
    BY <2>1, <2>2
<1> QED
  BY <1>1, Invariant, PTL

(* A write of MEMORY.md loses no facts but those its prompt was built         *)
(* without, as noted in late, and those a torn file took along.               *)
THEOREM UpdatesKept == Spec => []UpdateKept
  BY Invariant, PTL DEF IInv
=============================================================================
