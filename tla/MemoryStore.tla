----------------------------- MODULE MemoryStore -----------------------------
(***************************************************************************)
(* The memory all conversations share: MEMORY.md, a text each              *)
(* consolidation rewrites, and HISTORY.md, which they append to.           *)
(*   core/agent/memory.py (MemoryStore, MemoryConsolidator)                *)
(*                                                                         *)
(* A job gives messages to the model: a SLICE of a session, which moves    *)
(* the session's offset when it is done (maybe_consolidate_by_tokens), or  *)
(* the SNAPSHOT a /new left behind (archive_messages).  The sessions' own  *)
(* locks keep two slices of a session apart and nothing else: the jobs of  *)
(* a process interleave at the call to the model, those of several         *)
(* gateway processes anywhere.  MEMORY.md is the set of jobs whose facts   *)
(* it holds; the model is taken to keep the facts its prompt showed.       *)
(***************************************************************************)
EXTENDS Integers

CONSTANTS
    Slices,         \* slices of sessions, each session served by one process
    Snapshots,      \* what the /new commands left to archive
    Processes,      \* the gateway's workers, over one workspace directory
    MaxFailures,    \* _MAX_FAILURES_BEFORE_RAW_ARCHIVE
    MaxTries,       \* bound: turns that try to consolidate a slice
    MaxFaults       \* bound: crashes and disk errors

ASSUME TwoKinds == Slices \cap Snapshots = {}
ASSUME Bounds == MaxFailures \in Nat \ {0} /\ MaxTries \in Nat /\ MaxFaults \in Nat

Jobs == Slices \cup Snapshots

VARIABLES
    home,       \* the process a job runs in
    at,         \* where the job is
    tries,      \* how often it went to the model
    base,       \* the facts MEMORY.md showed when its prompt was built
    failures,   \* _consecutive_failures, of the process's MemoryStore
    memory,     \* MEMORY.md
    history,    \* HISTORY.md: the entries of each job
    faults,
    robbed,     \* history: snapshots that failed before another job reset the count
    broken,     \* history: tries of a job that ended between its entry and its success
    written,    \* history: the jobs that wrote their facts
    late,       \* history: <<f, x>>: x's prompt was built without the facts of f
    overlaid    \* history: facts replaced by a late write, or gone with a torn file

files == <<memory, history>>
ghosts == <<robbed, broken, written, late, overlaid>>
vars == <<home, at, tries, base, failures, files, faults, ghosts>>

Init ==
    /\ home \in [Jobs -> Processes]
    /\ at = [x \in Jobs |-> "waiting"]
    /\ tries = [x \in Jobs |-> 0]
    /\ base = [x \in Jobs |-> {}]
    /\ failures = [p \in Processes |-> 0]
    /\ memory = {}
    /\ history = [x \in Jobs |-> 0]
    /\ faults = 0
    /\ robbed = {}
    /\ broken = [x \in Jobs |-> 0]
    /\ written = {}
    /\ late = {}
    /\ overlaid = {}

(* Between the model's answer and the next await a job has its event loop    *)
(* to itself; only another process moves.                                    *)
Synchronous == {"entered", "truncated", "kept"}
MayRun(p) == \A x \in Jobs : home[x] = p => at[x] \notin Synchronous

Torn == \E x \in Jobs : at[x] = "truncated"

-----------------------------------------------------------------------------
(* consolidate, up to the call of the model.                                 *)

(* Its try misses no facts now, but those it could have found in a torn file. *)
SeesFacts(x) ==
    late' = {e \in late : e[2] # x} \cup {<<f, x>> : f \in IF Torn THEN written ELSE {}}

(* MEMORY.md is read (and found empty while another process rewrites it).    *)
BuildPrompt(x) ==
    /\ base' = [base EXCEPT ![x] = memory]
    /\ SeesFacts(x)

Begin(x) ==
    /\ at[x] = "waiting"
    /\ x \in Slices => tries[x] < MaxTries
    /\ MayRun(home[x])
    /\ at' = [at EXCEPT ![x] = "asking"]
    /\ tries' = [tries EXCEPT ![x] = @ + 1]
    /\ BuildPrompt(x)
    /\ UNCHANGED <<home, failures, files, faults, robbed, broken, written, overlaid>>

(* /stop cancels the turn that consolidates a slice: the offset stays. *)
Cancel(x) ==
    /\ x \in Slices
    /\ at[x] = "asking"
    /\ MayRun(home[x])
    /\ at' = [at EXCEPT ![x] = "waiting"]
    /\ UNCHANGED <<home, tries, base, failures, files, faults, ghosts>>

-----------------------------------------------------------------------------
(* _fail_or_raw_archive: the counter is the process's, not the job's.        *)

(* The counter starts again at zero, whoever else was counting on it. *)
ResetFailures(x) ==
    /\ failures' = [failures EXCEPT ![home[x]] = 0]
    /\ robbed' = robbed \cup
           {s \in Snapshots \ {x} : home[s] = home[x] /\ at[s] = "asking" /\ tries[s] > 1}

(* mutation: one failure more is allowed than archive_messages makes *)
LastFailureLate(x) == failures[home[x]] + 1 > MaxFailures

LastFailure(x) == failures[home[x]] + 1 >= MaxFailures

(* mutation: a retry keeps the prompt of the first try *)
ReuseAgain(x) ==
    /\ at' = [at EXCEPT ![x] = "asking"]
    /\ tries' = [tries EXCEPT ![x] = @ + 1]
    /\ SeesFacts(x)
    /\ UNCHANGED base

(* archive_messages: the next try starts from MEMORY.md as it is now. *)
AskAgain(x) ==
    /\ at' = [at EXCEPT ![x] = "asking"]
    /\ tries' = [tries EXCEPT ![x] = @ + 1]
    /\ BuildPrompt(x)

TriesLeft(x) == x \in Snapshots /\ tries[x] < MaxFailures

(* False for the caller: a slice waits for a later turn, a snapshot is tried *)
(* again at once, and after the last try taken for archived all the same.    *)
GiveBack(x) ==
    \/ TriesLeft(x) /\ AskAgain(x)
    \/ /\ ~TriesLeft(x)
       /\ at' = [at EXCEPT ![x] = IF x \in Slices THEN "waiting" ELSE "over"]
       /\ UNCHANGED <<tries, base, late>>

(* True for the caller: the session's offset moves next, a snapshot is done. *)
Success(x) == at' = [at EXCEPT ![x] = IF x \in Slices THEN "kept" ELSE "over"]

(* mutation: the raw archive is reported as a failure *)
RawArchiveUnreported(x) ==
    /\ LastFailure(x)
    /\ history' = [history EXCEPT ![x] = @ + 1]
    /\ ResetFailures(x)
    /\ GiveBack(x)

(* The last failure in a row puts the messages into HISTORY.md as they are. *)
RawArchive(x) ==
    /\ LastFailure(x)
    /\ history' = [history EXCEPT ![x] = @ + 1]
    /\ ResetFailures(x)
    /\ Success(x)
    /\ UNCHANGED <<tries, base, late>>

Count(x) ==
    /\ ~LastFailure(x)
    /\ failures' = [failures EXCEPT ![home[x]] = @ + 1]
    /\ GiveBack(x)
    /\ UNCHANGED <<history, robbed>>

FailOrRawArchive(x) == RawArchive(x) \/ Count(x)

(* The provider failed, or its answer is not a save_memory call. *)
Fail(x) ==
    /\ at[x] = "asking"
    /\ MayRun(home[x])
    /\ FailOrRawArchive(x)
    /\ UNCHANGED <<home, memory, faults, broken, written, overlaid>>

-----------------------------------------------------------------------------
(* consolidate, from the model's answer on.                                  *)

(* The summary goes to HISTORY.md first. *)
Answer(x) ==
    /\ at[x] = "asking"
    /\ MayRun(home[x])
    /\ history' = [history EXCEPT ![x] = @ + 1]
    /\ at' = [at EXCEPT ![x] = "entered"]
    /\ UNCHANGED <<home, tries, base, failures, memory, faults, ghosts>>

(* The update is what the prompt showed: MEMORY.md is left alone. *)
Unchanged(x) ==
    /\ at[x] = "entered"
    /\ ResetFailures(x)
    /\ Success(x)
    /\ UNCHANGED <<home, tries, base, files, faults, broken, written, late, overlaid>>

(* write_text opens the file, which empties it ... *)
Truncate(x) ==
    /\ at[x] = "entered"
    /\ at' = [at EXCEPT ![x] = "truncated"]
    /\ memory' = {}
    /\ UNCHANGED <<home, tries, base, failures, history, faults, ghosts>>

(* ... and writes what the model made of the text it was shown.  The end of a *)
(* longer text that another process wrote in between remains behind it.      *)
Write(x) ==
    /\ at[x] = "truncated"
    /\ \E rest \in SUBSET memory : memory' = base[x] \cup {x} \cup rest
    /\ ResetFailures(x)
    /\ Success(x)
    /\ written' = written \cup {x}
    /\ overlaid' = (overlaid \cup {f \in written : <<f, x>> \in late}) \ {x}
    /\ late' = late \cup {<<x, y>> : y \in {y \in Jobs \ {x} : at[y] # "waiting"}}
    /\ UNCHANGED <<home, tries, base, history, faults, broken>>

(* The caller of a slice moves the offset and saves the session. *)
Save(x) ==
    /\ at[x] = "kept"
    /\ at' = [at EXCEPT ![x] = "over"]
    /\ UNCHANGED <<home, tries, base, failures, files, faults, ghosts>>

-----------------------------------------------------------------------------
(* Faults.                                                                   *)

Fault == faults < MaxFaults /\ faults' = faults + 1

TornBy(x) == IF at[x] = "truncated" THEN written \ memory ELSE {}

(* MEMORY.md cannot be written: the except clause counts a failure, although *)
(* HISTORY.md has the entry.                                                 *)
WriteFails(x) ==
    /\ at[x] \in {"entered", "truncated"}
    /\ Fault
    /\ broken' = [broken EXCEPT ![x] = @ + 1]
    /\ overlaid' = overlaid \cup TornBy(x)
    /\ FailOrRawArchive(x)
    /\ UNCHANGED <<home, memory, written>>

(* A process dies and is started again: its slices are where their sessions' *)
(* files are, its snapshots were nowhere else.                               *)
Crash(p) ==
    LET Here == {x \in Jobs : home[x] = p}
        Alive == {x \in Here : at[x] # "over"}
    IN  /\ Fault
        /\ at' = [x \in Jobs |->
                     IF x \notin Alive THEN at[x]
                     ELSE IF x \in Slices THEN "waiting" ELSE "lost"]
        /\ failures' = [failures EXCEPT ![p] = 0]
        /\ broken' = [x \in Jobs |->
                         IF x \in Here /\ at[x] \in Synchronous THEN broken[x] + 1
                                                               ELSE broken[x]]
        /\ overlaid' = overlaid \cup UNION {TornBy(x) : x \in Here}
        /\ UNCHANGED <<home, tries, base, files, robbed, written, late>>

Job(x) ==
    \/ Begin(x) \/ Cancel(x) \/ Fail(x) \/ Answer(x) \/ Unchanged(x) \/ Truncate(x)
    \/ Write(x) \/ Save(x)

Next ==
    \/ \E x \in Jobs : Job(x) \/ WriteFails(x)
    \/ \E p \in Processes : Crash(p)

Spec == Init /\ [][Next]_vars

-----------------------------------------------------------------------------
(* Properties.                                                               *)

(* The shape of the state: no count of failures reaches the limit, and no    *)
(* snapshot is given to the model more often than archive_messages' loop.    *)
TypeOK ==
    /\ home \in [Jobs -> Processes]
    /\ at \in [Jobs -> {"waiting", "asking", "over", "lost"} \cup Synchronous]
    /\ tries \in [Jobs -> Nat]
    /\ \A x \in Jobs : tries[x] <= IF x \in Slices THEN MaxTries ELSE MaxFailures
    /\ base \in [Jobs -> SUBSET Jobs]
    /\ failures \in [Processes -> 0 .. MaxFailures - 1]
    /\ memory \in SUBSET Jobs
    /\ history \in [Jobs -> Nat]
    /\ faults \in 0 .. MaxFaults
    /\ robbed \in SUBSET Snapshots
    /\ broken \in [Jobs -> Nat]
    /\ written \in SUBSET Jobs
    /\ late \in SUBSET (Jobs \X Jobs)
    /\ overlaid \in SUBSET written

(* The messages a /new archives reach HISTORY.md in one form or another      *)
(* unless another job of the process set the shared count of failures back   *)
(* between the snapshot's own: archive_messages then reports success and     *)
(* nothing was written.                                                      *)
SnapshotKept ==
    \A s \in Snapshots : at[s] = "over" => history[s] > 0 \/ s \in robbed

(* A slice whose offset moved is in HISTORY.md, and HISTORY.md has no        *)
(* messages twice, but for the tries that a crash or a disk error ended      *)
(* after their entry was appended.                                           *)
InHistoryOnce ==
    \A x \in Jobs : /\ history[x] <= broken[x] + 1
                    /\ x \in Slices /\ at[x] = "over" => history[x] > 0

(* What a consolidation wrote into MEMORY.md stays there while others        *)
(* rewrite the file from what they read, but for the two ways the code       *)
(* leaves open: a rewrite whose prompt was built before (or from the file    *)
(* while it was empty), and a file torn by a crash or a disk error.          *)
UpdateKept == Torn \/ written \subseteq memory \cup overlaid
=============================================================================
