------------------------------ MODULE ToolLoop ------------------------------
(***************************************************************************)
(* One tool loop of an agent (tools/tools.go, efficiency.go, loopdetect.go, *)
(* filetracker.go, multiedit.go, retry.go): the model is called, its batch  *)
(* of tool calls is executed on files that others edit too, and what the    *)
(* calls did decides what the next batch may do.  The enforcers that drive  *)
(* an agent from reading to editing, the cache that answers a repeated read *)
(* with a stub, the compactions that take content out of the conversation   *)
(* and the detectors of loops all watch the same batches.                   *)
(*                                                                         *)
(* Contents are not compared: a file is known as it is ("current") or as it *)
(* was ("changed"), and no change restores an earlier content.             *)
(***************************************************************************)
EXTENDS LoopPromise, Sequences, FiniteSets

CONSTANTS
  Files,         \* the files the agent works on
  Batches,       \* bound: the batches of calls the model may ask for
  MaxIter,       \* RunWithToolsConfig.MaxIterations
  Deadlines,     \* the RunWithToolsConfig.EditDeadline of agents, 0 = none
  NudgeAfter,    \* defaultPhaseNudgeIters
  ReadRepeats,   \* maxReadToolRepeat: equal single calls in a row
  ToolRepeats,   \* maxSameToolRepeat
  EditRepeats,   \* maxMutatingToolRepeat
  LoopWindow,    \* loopWindowSize
  LoopRepeats,   \* loopMaxRepeats
  StreakLimit,   \* cacheHitStreakThreshold
  KeepRecent,    \* keepRecentMessages, in iterations
  RollInterval,  \* rollingCompactInterval
  Attempts,      \* MaxRetries + 1
  MaxChanges     \* bound: changes others make to the files

\* "Peek" is a Read with offset or limit, "Bash" a command that only reads,
\* "Bad" a call no handler runs for: unknown, denied or with invalid arguments.
EditTools == {"Edit", "MultiEdit", "Write"}
Tools     == {"Read", "Peek", "Grep", "Bash", "Bad"} \cup EditTools
Serial    == EditTools \cup {"Bash"}
Calls     == Tools \X Files

ASSUME ToolLoopAssumption ==
  /\ IsFiniteSet(Files)
  /\ Batches \subseteq Seq(Calls) \ {<<>>}
  /\ {MaxIter, GracePeriod, NudgeAfter, ReadRepeats, ToolRepeats, EditRepeats,
      LoopWindow, LoopRepeats, StreakLimit, RollInterval, Attempts} \subseteq Nat \ {0}
  /\ Deadlines \subseteq Nat /\ KeepRecent \in Nat /\ MaxChanges \in Nat

\* With those of LoopPromise, which every part of the loop sets:
VARIABLES
  pc,        \* where the loop is
  closing,   \* in finishToolLoop: the call without tools
  iter,      \* i of the loop
  attempt,   \* failed attempts of the current model call
  cancelled, \* ctx.Err() != nil
  over,      \* Metrics.BudgetExceeded(): the run's cost only grows
  batch,     \* mergedToolCalls
  parts,     \* the results of the batch so far
  seen,      \* FileTracker: never read, read since the last change, or stale
  known,     \* ReadCache.entries: absent, with the hash of the file, or another
  evicted,   \* IsStaleAfterCompaction of a file's entry
  streak,    \* ReadCache.cacheStreak
  content,   \* the last content of a file put in the conversation
  aimed,     \* the files edit calls of the conversation name (CollectEditedFiles)
  idleIters, \* EditEnforcer.readOnlyIters
  phase,     \* PhaseEnforcer: [idle, nudges]
  grace,     \* graceState: [reached, remaining, editFailed]
  repeat,    \* RepeatTracker: [sig, count]
  steps,     \* LoopDetector.signatures, the last LoopWindow of them
  before,    \* cacheSizeBefore
  changes    \* history, read by properties and bounds only: changes made by others

config   == <<split, deadline>>
files    == <<seen, known, evicted, streak, content, writes, changes>>
tracking == <<aimed, edited, idleIters, phase, grace, steps, idle>>
request  == <<closing, iter, attempt, over, late, repeat, before>>
vars == <<config, pc, cancelled, batch, parts, outcome, files, tracking, request>>

Pending  == {"todo", "read", "readOld", "held", "heldOld"}
Reported == {"content", "part of file", "stub", "disabled", "blocked", "ran", "error",
             "whole", "partial", "guarded"}
Todo     == [kind |-> "todo", n |-> 0]
Plain(k) == [kind |-> k, n |-> 0]
NoBatch  == <<>>

TypeOK ==
  /\ split \in BOOLEAN /\ deadline \in Deadlines /\ closing \in BOOLEAN /\ cancelled \in BOOLEAN
  /\ over \in BOOLEAN /\ edited \in BOOLEAN
  /\ pc \in {"call", "inflight", "backoff", "execute", "done"}
  /\ iter \in 0..MaxIter /\ attempt \in 0..(Attempts - 1)
  /\ batch \in Batches \cup {NoBatch}
  /\ parts \in Seq([kind : Pending \cup Reported, n : Nat]) /\ Len(parts) = Len(batch)
  /\ seen \in [Files -> {"never", "fresh", "stale"}]
  /\ known \in [Files -> {"absent", "current", "changed"}]
  /\ evicted \in [Files -> BOOLEAN] /\ streak \in Nat
  /\ content \in [Files -> [state : {"none", "full", "rolled", "gone"},
                            at : 0..MaxIter, kept : BOOLEAN]]
  /\ aimed \subseteq Files /\ idleIters \in Nat
  /\ phase \in [idle : Nat, nudges : Nat]
  /\ grace \in [reached : BOOLEAN, remaining : Int, editFailed : BOOLEAN]
  /\ repeat.count \in Nat /\ Len(steps) <= LoopWindow /\ before \in Nat
  /\ outcome \in [reason : {"none", "answered", "repeat", "deadline", "loop", "budget",
                            "iterations", "error"},
                  answer : {"none", "answer", "partial", "nothing", "budget", "failed"}]
  /\ writes \subseteq {"whole", "partial", "unseen"} /\ idle \in Nat /\ late \in Nat
  /\ changes \in 0..MaxChanges

Init ==
  /\ split \in BOOLEAN /\ deadline \in Deadlines
  /\ pc = "call" /\ closing = FALSE /\ iter = 0 /\ attempt = 0
  /\ cancelled = FALSE /\ over = FALSE
  /\ batch = NoBatch /\ parts = <<>>
  /\ seen = [f \in Files |-> "never"] /\ known = [f \in Files |-> "absent"]
  /\ evicted = [f \in Files |-> FALSE] /\ streak = 0
  /\ content = [f \in Files |-> [state |-> "none", at |-> 0, kept |-> FALSE]]
  /\ aimed = {} /\ edited = FALSE /\ idleIters = 0
  /\ phase = [idle |-> 0, nudges |-> 0]
  /\ grace = [reached |-> FALSE, remaining |-> 0, editFailed |-> FALSE]
  /\ repeat = [sig |-> NoBatch, count |-> 0]
  /\ steps = <<>> /\ before = 0
  /\ outcome = [reason |-> "none", answer |-> "none"]
  /\ writes = {} /\ idle = 0 /\ late = 0 /\ changes = 0

----------------------------------------------------------------------------
(* The model call (retryGenerateContent).                                  *)

\* The caller cancels the run's context.  The calls of a batch do not look at it:
\* a cancellation while they run is one before the next model call.
Cancel ==
  /\ pc \in {"call", "inflight", "backoff"} /\ ~cancelled /\ cancelled' = TRUE
  /\ UNCHANGED <<config, pc, batch, parts, outcome, files, tracking, request>>

\* What finishToolLoop is left with: the last text of the model, if there was any.
Fallbacks == IF over THEN {"budget"} ELSE {"partial", "nothing"}
\* What RunWithTools returns when a model call fails for good.
Unanswered == IF closing THEN Fallbacks ELSE {"failed"}

CallFailed ==
  /\ pc' = "done"
  /\ \E a \in Unanswered :
       outcome' = [reason |-> IF closing THEN outcome.reason ELSE "error", answer |-> a]
  /\ UNCHANGED <<config, cancelled, batch, parts, files, tracking, request>>

\* The head of an attempt.
StartAttempt ==
  /\ pc = "call"
  /\ IF cancelled
       THEN CallFailed
       ELSE pc' = "inflight"
            /\ UNCHANGED <<config, cancelled, batch, parts, outcome, files, tracking, request>>

\* An error that isRetryable refuses, the last attempt, or a cancelled context.
AttemptFails == pc = "inflight" /\ CallFailed

AttemptFailsForNowUncounted ==
  /\ pc = "inflight" /\ ~cancelled /\ attempt < Attempts - 1 /\ pc' = "backoff"
  /\ UNCHANGED <<config, cancelled, batch, parts, outcome, files, tracking, request>>
AttemptFailsForNow ==
  /\ pc = "inflight" /\ ~cancelled /\ attempt < Attempts - 1
  /\ attempt' = attempt + 1 /\ pc' = "backoff"
  /\ UNCHANGED <<config, cancelled, batch, parts, outcome, files, tracking,
                 closing, iter, over, late, repeat, before>>

Backoff ==
  /\ pc = "backoff"
  /\ IF cancelled
       THEN CallFailed
       ELSE pc' = "call"
            /\ UNCHANGED <<config, cancelled, batch, parts, outcome, files, tracking, request>>

\* extractTokenUsage: the tokens of a response are added to the cost.
Charge == /\ over' \in {over, TRUE}
          /\ late' = IF over THEN late + 1 ELSE late

\* The response of the closing call, with content or without.
FinalResponse(text) ==
  /\ pc = "inflight" /\ closing
  /\ Charge
  /\ \E a \in IF text /\ ~over THEN {"answer"} ELSE Fallbacks :
       outcome' = [outcome EXCEPT !.answer = a]
  /\ pc' = "done"
  /\ UNCHANGED <<config, cancelled, batch, parts, files, tracking,
                 closing, iter, attempt, repeat, before>>

\* No tool call: the response is the answer.
Answer ==
  /\ pc = "inflight" /\ ~closing /\ Charge
  /\ pc' = "done" /\ outcome' = [reason |-> "answered", answer |-> "answer"]
  /\ UNCHANGED <<config, cancelled, batch, parts, files, tracking,
                 closing, iter, attempt, repeat, before>>

----------------------------------------------------------------------------
(* What a batch may do (RepeatTracker, EditEnforcer, graceState).          *)

EditCalls(b) == {k \in DOMAIN b : b[k][1] \in EditTools}
NameOf(c)    == IF c[1] = "Peek" THEN "Read" ELSE c[1]

Updated(b) ==
  IF Len(b) = 1 /\ b = repeat.sig
    THEN [repeat EXCEPT !.count = @ + 1]
    ELSE [sig |-> IF Len(b) = 1 THEN b ELSE NoBatch, count |-> 1]

RepeatLimit(b) ==
  IF Len(b) # 1 THEN ToolRepeats
  ELSE CASE b[1][1] \in EditTools -> EditRepeats
         [] NameOf(b[1]) \in {"Read", "Grep"} -> ReadRepeats
         [] OTHER -> ToolRepeats

Exceeded(b) == Updated(b).count >= RepeatLimit(b)

CountsAsIdle(b) == deadline > 0 /\ ~edited /\ EditCalls(b) = {}
DeadlineHit(b)  == CountsAsIdle(b) /\ idleIters + 1 >= deadline

\* Mutant of GraceAfterHit: every hit starts the grace period again.
GraceAfterHitRestarts == [grace EXCEPT !.reached = TRUE, !.remaining = GracePeriod]
\* graceState.handleEditDeadline
GraceAfterHit ==
  IF grace.reached THEN [grace EXCEPT !.remaining = @ - 1]
                   ELSE [grace EXCEPT !.reached = TRUE, !.remaining = GracePeriod]
GraceOver(b) == DeadlineHit(b) /\ grace.reached /\ GraceAfterHit.remaining <= 0

\* The loop ends; finishToolLoop makes one more call, its attempts from zero.
Finish(reason) ==
  /\ closing' = TRUE /\ pc' = "call" /\ attempt' = 0
  /\ outcome' = [outcome EXCEPT !.reason = reason]

KnownFiles == {f \in Files : known[f] # "absent"}

\* A response with tool calls: the trackers see it before anything runs.
Request(b) ==
  /\ pc = "inflight" /\ ~closing /\ Charge
  /\ repeat' = Updated(b)
  /\ idleIters' = IF ~Exceeded(b) /\ CountsAsIdle(b) THEN idleIters + 1 ELSE idleIters
  /\ grace' = IF ~Exceeded(b) /\ DeadlineHit(b) THEN GraceAfterHit ELSE grace
  /\ \/ /\ Exceeded(b) /\ Finish("repeat")
        /\ UNCHANGED <<iter, batch, parts, aimed, before>>
     \/ /\ ~Exceeded(b) /\ GraceOver(b) /\ Finish("deadline")
        /\ UNCHANGED <<iter, batch, parts, aimed, before>>
     \/ /\ ~Exceeded(b) /\ ~GraceOver(b)
        /\ pc' = "execute" /\ batch' = b /\ parts' = [k \in DOMAIN b |-> Todo]
        /\ aimed' = aimed \cup {b[k][2] : k \in EditCalls(b)}
        /\ before' = Cardinality(KnownFiles) /\ attempt' = 0
        /\ UNCHANGED <<closing, iter, outcome>>
  /\ UNCHANGED <<config, cancelled, files, edited, phase, steps, idle>>

----------------------------------------------------------------------------
(* Executing a batch (executeToolCalls): all calls at once when there are  *)
(* several and none is serial, one after the other otherwise.              *)

Parallel == Len(batch) > 1 /\ \A k \in DOMAIN batch : batch[k][1] \notin Serial
Turn(k)  == Parallel \/ \A j \in DOMAIN batch : j < k => parts[j].kind \in Reported
Runs(k, tools, kind) ==
  pc = "execute" /\ k \in DOMAIN batch /\ Turn(k)
  /\ batch[k][1] \in tools /\ parts[k].kind = kind

Becomes(k, kind) == parts' = [parts EXCEPT ![k] = Plain(kind)]

\* EditEnforcer.ShouldBlockReads, PhaseEnforcer.ShouldBlockReads and the
\* recovery after a failed edit of the grace period (shouldBlockReadTools).
BlockAfter == IF deadline \div 2 < 2 THEN 2 ELSE deadline \div 2
ReadsBlocked ==
  /\ ~grace.editFailed /\ ~edited
  /\ \/ deadline > 0 /\ idleIters >= BlockAfter
     \/ phase.nudges >= 2

\* The content of f on disk changes: what was read of it is no longer what is
\* there, and no later step repeats an earlier content.
Forget(f) ==
  [s \in DOMAIN steps |->
     IF \E k \in DOMAIN steps[s] :
          steps[s][k][1][2] = f /\ steps[s][k][2].kind \in {"content", "part of file"}
       THEN NoBatch ELSE steps[s]]
Dirty(f) ==
  /\ seen' = [seen EXCEPT ![f] = IF @ = "fresh" THEN "stale" ELSE @]
  /\ known' = [known EXCEPT ![f] = IF @ = "current" THEN "changed" ELSE @]
  /\ steps' = Forget(f)
Overtaken(k, f) ==
  IF batch[k][2] # f THEN parts[k]
  ELSE CASE parts[k].kind = "read" -> Plain("readOld")
         [] parts[k].kind = "held" -> Plain("heldOld")
         [] OTHER -> parts[k]

\* Someone else writes f while a batch runs.  A change between two batches is
\* one before the first call of the next.
ExternalChange(f) ==
  /\ pc = "execute" /\ changes < MaxChanges /\ changes' = changes + 1 /\ Dirty(f)
  /\ parts' = [k \in DOMAIN parts |-> Overtaken(k, f)]
  /\ UNCHANGED <<config, pc, cancelled, batch, outcome, evicted, streak, content, writes,
                 aimed, edited, idleIters, phase, grace, idle, request>>

\* readTool up to os.ReadFile.
ReadFile(k) ==
  /\ Runs(k, {"Read", "Peek"}, "todo")
  /\ Becomes(k, IF ReadsBlocked /\ known[batch[k][2]] # "absent" THEN "blocked" ELSE "read")
  /\ UNCHANGED <<config, pc, cancelled, batch, outcome, files, tracking, request>>

\* readTool from RecordRead on: a part is returned as it is; a whole file goes
\* through checkReadCache.
ServeFile(k) ==
  LET f    == batch[k][2]
      old  == parts[k].kind = "readOld"
      hit  == ~old /\ known[f] = "current" /\ ~evicted[f]
  IN /\ \/ Runs(k, {"Read", "Peek"}, "read") \/ Runs(k, {"Read", "Peek"}, "readOld")
     /\ seen' = [seen EXCEPT ![f] = "fresh"]
     /\ \/ /\ batch[k][1] = "Peek" /\ Becomes(k, "part of file")
           /\ UNCHANGED <<known, evicted, streak, content>>
        \/ /\ batch[k][1] = "Read" /\ hit
           /\ streak' = streak + 1
           /\ parts' = [parts EXCEPT ![k] = IF streak' >= StreakLimit
                                              THEN [kind |-> "disabled", n |-> streak']
                                              ELSE Plain("stub")]
           /\ UNCHANGED <<known, evicted, content>>
        \/ /\ batch[k][1] = "Read" /\ ~hit /\ Becomes(k, "content")
           /\ known' = [known EXCEPT ![f] = IF old THEN "changed" ELSE "current"]
           /\ evicted' = [evicted EXCEPT ![f] = FALSE] /\ streak' = 0
           /\ content' = [content EXCEPT ![f] = [state |-> "full", at |-> iter, kept |-> FALSE]]
     /\ UNCHANGED <<config, pc, cancelled, batch, outcome, writes, changes, tracking, request>>

\* executeToolCall finds no handler to run or denies the call.
Refuse(k) ==
  /\ Runs(k, {"Bad"}, "todo") /\ Becomes(k, "error")
  /\ UNCHANGED <<config, pc, cancelled, batch, outcome, files, tracking, request>>

\* globTool and grepTool walk the tree; they are never blocked.
Search(k) ==
  /\ Runs(k, {"Grep"}, "todo") /\ Becomes(k, "ran")
  /\ UNCHANGED <<config, pc, cancelled, batch, outcome, files, tracking, request>>

\* A Bash command that reads is blocked like a Read; others are not modelled.
RunBash(k) ==
  /\ Runs(k, {"Bash"}, "todo")
  /\ Becomes(k, IF ReadsBlocked THEN "blocked" ELSE "ran")
  /\ UNCHANGED <<config, pc, cancelled, batch, outcome, files, tracking, request>>

\* editTool and multiEditTool up to os.ReadFile: ValidateBeforeEdit refuses a
\* file that was not read or was modified since.
OpenForEdit(k) ==
  /\ Runs(k, {"Edit", "MultiEdit"}, "todo")
  /\ Becomes(k, IF seen[batch[k][2]] = "fresh" THEN "held" ELSE "error")
  /\ UNCHANGED <<config, pc, cancelled, batch, outcome, files, tracking, request>>

\* The call changes the file and reports it; what was written in between is lost.
Writes(k, kind) ==
  /\ Becomes(k, kind) /\ Dirty(batch[k][2])
  /\ writes' = writes \cup {kind} \cup (IF parts[k].kind = "heldOld" THEN {"unseen"} ELSE {})
  /\ UNCHANGED <<config, pc, cancelled, batch, outcome, evicted, streak, content, changes,
                 aimed, edited, idleIters, phase, grace, idle, request>>

\* The text is there and replaced, or the call is refused: its text is not
\* found or a guard rejects the replacement.
ApplyEdit(k) ==
  /\ Runs(k, {"Edit", "MultiEdit"}, "held") \/ Runs(k, {"Edit", "MultiEdit"}, "heldOld")
  /\ \/ Writes(k, "whole")
     \/ batch[k][1] = "MultiEdit" /\ Writes(k, "partial")
     \/ /\ Becomes(k, "error")
        /\ UNCHANGED <<config, pc, cancelled, batch, outcome, files, tracking, request>>
     \/ /\ batch[k][1] = "MultiEdit" /\ Becomes(k, "guarded")
        /\ UNCHANGED <<config, pc, cancelled, batch, outcome, files, tracking, request>>

\* writeTool asks nobody what was read; it refuses an existing test file.
WriteFile(k) ==
  /\ Runs(k, {"Write"}, "todo")
  /\ \/ Writes(k, "whole")
     \/ /\ Becomes(k, "error")
        /\ UNCHANGED <<config, pc, cancelled, batch, outcome, files, tracking, request>>

----------------------------------------------------------------------------
(* After the batch (trackPostExecution and the rest of the iteration).     *)

\* extractToolResults reads the last message: with split results that is the
\* result of the last call only.
\* Mutant of Visible: a batched result message is read like a split one.
VisibleLastOnly(k) == k = Len(batch)
Visible(k)     == split => k = Len(batch)
LooksFailed(k) == parts[k].kind \in {"error", "partial"}
EditConfirmed  == \E k \in EditCalls(batch) : Visible(k) /\ ~LooksFailed(k)
StreakReset    == \E k \in EditCalls(batch) : Visible(k) => ~LooksFailed(k)
EditFailed     == \E k \in EditCalls(batch) : Visible(k) /\ LooksFailed(k)
NewFiles       == Cardinality(KnownFiles) > before

Edited == edited \/ EditConfirmed
GraceAfter ==
  [reached    |-> grace.reached /\ ~(deadline > 0 /\ Edited),
   remaining  |-> grace.remaining,
   editFailed |-> IF grace.reached THEN EditFailed ELSE grace.editFailed]

\* LoopDetector: the calls of the step with the results it was shown.
Signature == [k \in DOMAIN batch |-> <<batch[k], IF Visible(k) THEN parts[k] ELSE Todo>>]
StepsAfter ==
  LET s == Append(steps, Signature)
  IN IF Len(s) > LoopWindow THEN Tail(s) ELSE s
Stuck == \E i \in DOMAIN StepsAfter :
           /\ StepsAfter[i] # NoBatch
           /\ Cardinality({j \in DOMAIN StepsAfter : StepsAfter[j] = StepsAfter[i]}) >= LoopRepeats

PhaseReset == IF NewFiles /\ ~Edited THEN [idle |-> 0, nudges |-> 0] ELSE phase
\* PhaseEnforcer.ObserveTools, asked only when no new file was read.
Nudged ==
  IF NewFiles \/ Edited \/ EditCalls(batch) # {} THEN PhaseReset
  ELSE LET n == phase.idle + 1
       IN [idle |-> n,
           nudges |-> IF n >= NudgeAfter /\ (n - NudgeAfter) % NudgeAfter = 0
                        THEN phase.nudges + 1 ELSE phase.nudges]

\* What both compactions spare: the recent messages; the rolling one also the
\* reads of files that edit calls name, the full one messages that report an edit.
Old(f) == content[f].state # "none" /\ content[f].at + KeepRecent <= iter
Kept(f, m) == m[f].kept \/ ~Old(f)
ReportsEdit == ~split /\ \E k \in EditCalls(batch) : parts[k].kind \in {"whole", "partial"}
Pinned == [f \in Files |->
             IF content[f].at = iter /\ content[f].state = "full" /\ ReportsEdit
               THEN [content[f] EXCEPT !.kept = TRUE] ELSE content[f]]
Rolled(m) == [f \in Files |-> IF Old(f) /\ f \notin aimed /\ m[f].state = "full"
                                THEN [m[f] EXCEPT !.state = "rolled"] ELSE m[f]]
Compacted(m) == [f \in Files |-> IF Kept(f, m) \/ m[f].state = "none"
                                   THEN m[f] ELSE [m[f] EXCEPT !.state = "gone"]]

\* rollingCompact every RollInterval iterations, compactMessages above its
\* threshold: both depend on the tokens of the conversation.
Compactions(m) ==
  \E rolls \in BOOLEAN, compacts \in BOOLEAN :
    LET r == IF rolls /\ iter # 0 /\ iter % RollInterval = 0 THEN Rolled(m) ELSE m
    IN IF compacts
         THEN content' = Compacted(r) /\ evicted' = [f \in Files |-> known[f] # "absent"]
         ELSE content' = r /\ UNCHANGED evicted

OverBudget == over

After ==
  /\ pc = "execute" /\ \A k \in DOMAIN parts : parts[k].kind \in Reported
  /\ edited' = Edited
  /\ grace' = GraceAfter
  /\ streak' = IF StreakReset THEN 0 ELSE streak
  /\ idleIters' = IF NewFiles /\ ~Edited THEN 0 ELSE idleIters
  /\ steps' = StepsAfter
  /\ idle' = IF NewFiles \/ EditCalls(batch) # {} THEN 0 ELSE idle + 1
  /\ batch' = NoBatch /\ parts' = <<>>
  /\ \/ /\ Stuck /\ Finish("loop")
        /\ phase' = PhaseReset
        /\ UNCHANGED <<iter, content, evicted>>
     \/ /\ ~Stuck /\ OverBudget /\ Finish("budget")
        /\ phase' = PhaseReset
        /\ UNCHANGED <<iter, content, evicted>>
     \/ /\ ~Stuck /\ ~OverBudget /\ iter + 1 = MaxIter /\ Finish("iterations")
        /\ phase' = Nudged /\ Compactions(Pinned)
        /\ UNCHANGED iter
     \/ /\ ~Stuck /\ ~OverBudget /\ iter + 1 < MaxIter
        /\ iter' = iter + 1 /\ pc' = "call"
        /\ phase' = Nudged /\ Compactions(Pinned)
        /\ UNCHANGED <<closing, attempt, outcome>>
  /\ UNCHANGED <<config, cancelled, over, seen, known, writes, changes, aimed, repeat, before, late>>

Terminating == pc = "done" /\ UNCHANGED vars

Model == StartAttempt \/ AttemptFails \/ AttemptFailsForNow \/ Backoff
         \/ Answer \/ (\E text \in BOOLEAN : FinalResponse(text))
         \/ (\E b \in Batches : Request(b))
ToolCalls == \E k \in 1..Len(batch) :
               ReadFile(k) \/ ServeFile(k) \/ Refuse(k) \/ Search(k) \/ RunBash(k)
               \/ OpenForEdit(k) \/ ApplyEdit(k) \/ WriteFile(k)
Next == Cancel \/ Model \/ ToolCalls \/ After
        \/ (\E f \in Files : ExternalChange(f)) \/ Terminating

\* Model calls return (GenerateContent takes the context), tools return, the
\* backoff ends; nobody has to cancel or to change files.
Spec == Init /\ [][Next]_vars /\ WF_vars(Model) /\ WF_vars(ToolCalls) /\ WF_vars(After)

----------------------------------------------------------------------------
(* Properties.                                                             *)

\* A read answered with "Content was already provided" is of a file whose
\* content the conversation still has, at most shortened by the rolling
\* compaction (efficiency.go:64, IsStaleAfterCompaction, tools.go:1486).
StubsReferToContent ==
  \A f \in Files :
    (known[f] = "current" /\ ~evicted[f]) => content[f].state \in {"full", "rolled"}

\* RunWithTools returns.
LoopReturns == <>(pc = "done")

\* The stage of the one invocation the loop is.
stageBar == [a \in {"agent"} |->
  IF pc = "done" THEN IF outcome.answer \in {"answer", "partial"} THEN "succeeded" ELSE "failed"
  ELSE IF closing THEN "final"
  ELSE IF pc = "execute" THEN "tools" ELSE "model"]

\* Metrics.BudgetExceeded() of it.
overBar == [a \in {"agent"} |-> over]

\* The loop is the invocation of one agent: no request is made over the budget but
\* the closing one, and the budget before it decides (toolLoop, finishToolLoop).
Lone == INSTANCE Invocations WITH Agents <- {"agent"}, stage <- stageBar, over <- overBar
ImplementsInvocations == Lone!Spec

\* "re-serve it if compaction evicted this content" (tools.go:1500): a stub
\* refers to content that is there in full.  Rolling compaction does not raise
\* the epoch.
StubsReferToFullContent ==
  \A f \in Files : (known[f] = "current" /\ ~evicted[f]) => content[f].state = "full"

\* The deadline is for agents "endlessly reading without producing edits"
\* (tools.go:206), however the provider wants its results.
SplitSeesEdits == outcome.reason = "deadline" => "whole" \notin writes

\* "verify the agent has seen the current content" (filetracker.go:11): no edit
\* overwrites a change that nobody read.
EditsSeeCurrentContent == "unseen" \notin writes
=============================================================================
