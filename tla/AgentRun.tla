------------------------------ MODULE AgentRun ------------------------------
(***************************************************************************)
(* What `squad run' does around and inside one agent (runner/run.go,        *)
(* model.go, apply.go, agentic.go, responses/responses.go) and what it      *)
(* leaves in the session log (session/*.go): several runs, each a process   *)
(* that may be killed, share a working tree and the directory of sessions;  *)
(* a run may resume the newest session.                                    *)
(*                                                                         *)
(* Three kinds of provider: "responses" keeps the conversation on the       *)
(* server and names the last response it continues from; "chain" is the     *)
(* tool loop of module ToolLoop, here one step; "cli" is an external agent. *)
(* A response's text is the set of what the validation looks for in it:     *)
(* a unified diff, the words "files touched", a file named after them, the  *)
(* words "no changes".  No text at all is NoText.                          *)
(***************************************************************************)
EXTENDS Integers, FiniteSets

CONSTANTS
  Runs,         \* the processes; a session is named after the run that made it
  Options,      \* bound: the RunOptions each run may be given
  Directories,  \* bound: the working directories: in a git repository or not, with changes
  Texts,        \* bound: what the model may write
  MaxIter,      \* maxIterations
  Deadline,     \* bundle.EditDeadline, 0 = none
  ReadRepeats,  \* maxReadToolRepeat
  EditRepeats   \* maxMutatingToolRepeat

Statuses == {"running", "completed", "error", "budget_exceeded"}
Errors   == {"none", "setup", "error", "budget", "rejected"}
Marks    == {"diff", "report", "claims", "no changes"}
NoText   == {"no text"}
NoCalls  == "no calls"
Calls    == {NoCalls, "Read", "Edit"}      \* one call at a time

ASSUME AgentRunAssumption ==
  /\ IsFiniteSet(Runs) /\ {"none", "user"} \cap Runs = {}
  /\ DOMAIN Options = Runs /\ \A r \in Runs : Options[r] # {}
  /\ \A r \in Runs :
       Options[r] \subseteq [provider : {"responses", "chain", "cli"}, resume : BOOLEAN,
                             require : BOOLEAN, edit : BOOLEAN, apply : {"no", "git", "fallback"}]
  /\ Directories \subseteq [git : BOOLEAN, tree : {{}, {"user"}}]
  /\ Texts \subseteq (SUBSET Marks) \cup {NoText}
  /\ MaxIter \in Nat \ {0} /\ Deadline \in Nat /\ {ReadRepeats, EditRepeats} \subseteq Nat \ {0}

VARIABLES
  git,       \* isGitRepo of the working directory
  tree,      \* whose uncommitted changes the working tree holds ("user": from before)
  session,   \* the directory of a session: [state, at, meta], meta = meta.json
  index,     \* the sessions index.jsonl names
  pc,        \* where a run is
  opt,       \* its RunOptions, after applyProviderConstraints
  logger,    \* its session.Logger: [session, meta], meta = the copy it rewrites
  loop,      \* toolLoop: [i, calls, text?, tool, count, idle, responses]
  over,      \* the runs whose BudgetExceeded() holds
  applied,   \* the runs whose EditsApplied() holds
  hit,       \* the runs whose EditDeadlineReached() holds
  snapshot,  \* agenticWorktreeSnapshot before the CLI ran
  result,    \* what InvokeModel returned, then what ExecuteRun did: [text, err]
  \* History, read by properties only:
  changed,   \* the runs that changed a file, by whatever means
  vouched,   \* the runs credited with changes the tree had or got from others
  late,      \* requests a run sent after its budget was exceeded
  newest,    \* the last response recorded for a session, by any run
  shared     \* sessions that two live runs wrote to

disk    == <<session, index>>
work    == <<tree, changed>>
running == <<opt, loop, over, applied, hit, snapshot>>
history == <<vouched, late, newest, shared>>
vars == <<git, work, disk, pc, logger, running, result, history>>

NoResponse == [run |-> "none", n |-> 0, pending |-> FALSE]
NoResult   == [text |-> NoText, err |-> "none"]
Start      == [i |-> 0, calls |-> NoCalls, text |-> FALSE, tool |-> NoCalls, count |-> 0,
               idle |-> 0, n |-> 0]
NewMeta    == [status |-> "running", last |-> NoResponse]
NoLogger   == [session |-> "none", meta |-> NewMeta]
NoSession  == [state |-> "absent", at |-> 0, meta |-> NewMeta]

Live(r) == pc[r] \notin {"idle", "exited", "killed"}
Go(r, where) == pc' = [pc EXCEPT ![r] = where]

\* Where runs, their loops and the sessions on disk are, at any time.
TypeOK ==
  /\ git \in BOOLEAN /\ tree \subseteq Runs \cup {"user"}
  /\ \A s \in Runs : /\ session[s].state \in {"absent", "partial", "whole", "deleted"}
                     /\ session[s].at \in 0..Cardinality(Runs)
                     /\ session[s].meta.status \in Statuses
  /\ index \subseteq Runs
  /\ pc \in [Runs -> {"idle", "invoke", "turn", "follow", "resolve", "final",
                      "cli", "handle", "close", "exited", "killed"}]
  /\ \A r \in Runs : /\ logger[r].session \in Runs \cup {"none"}
                     /\ loop[r].i \in 0..MaxIter /\ loop[r].calls \in Calls
                     /\ pc[r] = "turn" => loop[r].i < MaxIter
                     /\ pc[r] = "resolve" => loop[r].calls # NoCalls
                     /\ result[r] \in [text : Texts \cup {NoText}, err : Errors]
  /\ over \cup applied \cup hit \cup changed \cup vouched \subseteq Runs

Init ==
  /\ \E d \in Directories : git = d.git /\ tree = d.tree
  /\ session = [s \in Runs |-> NoSession] /\ index = {}
  /\ pc = [r \in Runs |-> "idle"] /\ opt = [r \in Runs |-> CHOOSE o \in Options[r] : TRUE]
  /\ logger = [r \in Runs |-> NoLogger] /\ loop = [r \in Runs |-> Start]
  /\ over = {} /\ applied = {} /\ hit = {}
  /\ snapshot = [r \in Runs |-> {}] /\ result = [r \in Runs |-> NoResult]
  /\ changed = {} /\ vouched = {} /\ late = [r \in Runs |-> 0]
  /\ newest = [s \in Runs |-> NoResponse] /\ shared = {}

-----------------------------------------------------------------------------
(* Setup and the session log. *)

Now == LET made == {session[s].at : s \in Runs} IN CHOOSE t \in made : \A u \in made : u <= t

\* writeMeta: the whole file, from the logger's own copy.
WriteMeta(r, s, m) ==
  /\ logger' = [logger EXCEPT ![r] = [session |-> s, meta |-> m]]
  /\ session' = [session EXCEPT ![s].meta = m]

NewSession(r) ==
  /\ session' = [session EXCEPT ![r] = [state |-> "whole", at |-> Now + 1, meta |-> NewMeta]]
  /\ index' = index \cup {r}
  /\ logger' = [logger EXCEPT ![r] = [session |-> r, meta |-> NewMeta]]
  /\ UNCHANGED shared

\* Meta files first, then the index for sessions whose meta cannot be read.
Readable == {s \in Runs : session[s].state = "whole"}
Listed   == Readable \cup index
Latest   == {s \in Listed : \A t \in Listed : session[t].at <= session[s].at}

OpenForResume(r) ==
  \E s \in Latest :
    IF s \in Readable
    THEN /\ WriteMeta(r, s, [session[s].meta EXCEPT !.status = "running"])
         /\ shared' = shared \cup {t \in {s} : \E q \in Runs \ {r} :
                                      Live(q) /\ logger[q].session = s}
    ELSE UNCHANGED <<logger, session, shared>>

\* Without a session, new or old, the run goes on with a warning.
OpenSession(r, resume) ==
  \/ ~resume /\ NewSession(r)
  \/ resume /\ OpenForResume(r) /\ UNCHANGED index
  \/ (resume => Latest = {}) /\ UNCHANGED <<session, index, logger, shared>>

\* applyProviderConstraints: a CLI's edits cannot be seen outside a git repository.
Accepted(r) ==
  \E o \in Options[r] :
    opt' = [opt EXCEPT ![r] = [o EXCEPT !.require = @ /\ (o.provider = "cli" => git)]]

\* Prompt, working directory, isolation, bundle and model; what fails there, and
\* --dry-run, ends the run before it has a session.
Begin(r) ==
  /\ pc[r] = "idle" /\ Accepted(r)
  /\ \/ /\ Go(r, "exited") /\ result' = [result EXCEPT ![r].err = "setup"]
        /\ UNCHANGED <<session, index, logger, shared>>
     \/ /\ Go(r, "invoke") /\ UNCHANGED result
        /\ OpenSession(r, opt'[r].resume)
  /\ UNCHANGED <<git, work, loop, over, applied, hit, snapshot, vouched, late, newest>>

\* A process killed inside New leaves less than a session.
KilledInNew(r) ==
  /\ pc[r] = "idle" /\ Go(r, "killed")
  /\ \/ session' = [session EXCEPT ![r].state = "partial"]
     \/ session' = [session EXCEPT ![r] = [state |-> "whole", at |-> Now + 1, meta |-> NewMeta]]
  /\ UNCHANGED <<git, work, index, logger, running, result, history>>

\* Mutant of Record: the id is kept in memory and written with the end of the run.
RecordInMemory(r, response) ==
  IF logger[r] = NoLogger
  THEN UNCHANGED <<logger, session, newest>>
  ELSE /\ logger' = [logger EXCEPT ![r].meta.last = response]
       /\ newest' = [newest EXCEPT ![logger[r].session] = response]
       /\ UNCHANGED session
\* recordResponse, SetLastResponseID: written at once.
Record(r, response) ==
  IF logger[r] = NoLogger
  THEN UNCHANGED <<logger, session, newest>>
  ELSE LET s == logger[r].session IN
       /\ WriteMeta(r, s, [logger[r].meta EXCEPT !.last = response])
       /\ newest' = [newest EXCEPT ![s] = response]

-----------------------------------------------------------------------------
(* The Responses loop. *)

Return(r, text, err) ==
  /\ result' = [result EXCEPT ![r] = [text |-> text, err |-> err]]
  /\ Go(r, "handle")

\* No key, no executor, no MCP server, no CLI.
CannotCall(r) ==
  /\ pc[r] = "invoke" /\ Return(r, NoText, "error")
  /\ UNCHANGED <<git, work, disk, logger, running, history>>

\* ResumeResponseID: the chain the initial request continues.
Chain(r) == IF opt[r].resume /\ logger[r] # NoLogger THEN logger[r].meta.last ELSE NoResponse

Send(r) == late' = [late EXCEPT ![r] = @ + IF r \in over THEN 1 ELSE 0]
Spend(r) == over' \in {over, over \cup {r}}

\* callResponsesAPI: no text of a failed call is kept.
Fails(r) ==
  /\ Return(r, NoText, "error")
  /\ UNCHANGED <<logger, session, newest, loop, over>>

Received(r, calls, text) ==
  /\ loop' = [loop EXCEPT ![r].calls = calls, ![r].text = text, ![r].n = @ + 1]
  /\ Record(r, [run |-> r, n |-> loop[r].n + 1, pending |-> calls # NoCalls])

\* The service rejects a plain prompt after a response whose calls have no outputs.
Initial(r) ==
  /\ pc[r] = "invoke" /\ opt[r].provider = "responses" /\ Send(r)
  /\ \/ Fails(r)
     \/ /\ ~Chain(r).pending
        /\ \E calls \in Calls, text \in BOOLEAN : Received(r, calls, text)
        /\ Spend(r) /\ Go(r, "turn") /\ UNCHANGED result
  /\ UNCHANGED <<git, work, index, opt, applied, hit, snapshot, vouched, shared>>

\* trackEdits: an edit call that succeeded.
ToolEdits(r) ==
  applied' = applied \cup {r} /\ tree' = tree \cup {r} /\ changed' = changed \cup {r}

RepeatLimit(tool) == IF tool = "Edit" THEN EditRepeats ELSE ReadRepeats

\* What is left of the loop when it stops with calls nobody will execute.
LoopEnds(r, l) ==
  IF l.text
  THEN \E text \in Texts : Return(r, text, "none")
  ELSE /\ Go(r, IF l.calls = NoCalls THEN "final" ELSE "resolve") /\ UNCHANGED result

\* A call that reads, fails, or is denied by a skill, the mode or the sign-off
\* gate changes nothing.
Execute(r, calls) ==
  \/ calls = "Edit" /\ ToolEdits(r)
  \/ UNCHANGED <<applied, tree, changed>>

\* One pass over a response: no calls, calls once too often, too late, or executed.
Turn(r) ==
  /\ pc[r] = "turn"
  /\ LET l == loop[r]
     IN IF l.calls = NoCalls
        THEN /\ LoopEnds(r, l)
             /\ UNCHANGED <<loop, applied, hit, tree, changed>>
        ELSE \E same \in (IF l.calls = l.tool THEN BOOLEAN ELSE {FALSE}) :
             LET count == IF same THEN l.count + 1 ELSE 1
                 idle  == IF Deadline > 0 /\ l.calls # "Edit" THEN l.idle + 1 ELSE l.idle
                 stuck == count >= RepeatLimit(l.calls)
                 tooLate == ~stuck /\ Deadline > 0 /\ l.calls # "Edit" /\ idle >= Deadline
             IN /\ loop' = [loop EXCEPT ![r].tool = l.calls, ![r].count = count,
                                        ![r].idle = IF stuck THEN @ ELSE idle]
                /\ hit' = IF tooLate THEN hit \cup {r} ELSE hit
                /\ IF stuck \/ tooLate
                   THEN LoopEnds(r, l) /\ UNCHANGED <<applied, tree, changed>>
                   ELSE Execute(r, l.calls) /\ Go(r, "follow") /\ UNCHANGED result
  /\ UNCHANGED <<git, disk, logger, opt, over, snapshot, history>>

MoreIterations(l) == l.i < MaxIter

\* The calls' outputs are sent; the budget and the input cap are checked on
\* what comes back.  callResponsesAPI keeps the text of a spent budget only.
Follow(r) ==
  /\ pc[r] = "follow" /\ Send(r)
  /\ \/ Fails(r)
     \/ \E calls \in Calls, text \in BOOLEAN, capped \in BOOLEAN :
          /\ Spend(r)
          /\ LET l == [loop[r] EXCEPT !.i = @ + 1, !.calls = calls, !.text = text, !.n = @ + 1]
             IN /\ loop' = [loop EXCEPT ![r] = l]
                /\ Record(r, [run |-> r, n |-> l.n, pending |-> calls # NoCalls])
                /\ CASE r \in over' -> \E t \in IF text THEN Texts ELSE {NoText} : Return(r, t, "budget")
                     [] r \notin over' /\ capped -> Return(r, NoText, "error")
                     [] r \notin over' /\ ~capped /\ MoreIterations(l) ->
                          Go(r, "turn") /\ UNCHANGED result
                     [] OTHER -> LoopEnds(r, l)
  /\ UNCHANGED <<git, work, index, opt, applied, hit, snapshot, vouched, shared>>

\* resolvePendingCalls: dummy outputs.  Its response is not recorded.
Resolve(r) ==
  /\ pc[r] = "resolve" /\ Send(r)
  /\ \/ Return(r, NoText, "error") /\ UNCHANGED over
     \/ /\ Spend(r)
        /\ \/ \E text \in Texts : Return(r, text, "none")
           \/ Go(r, "final") /\ UNCHANGED result
  /\ UNCHANGED <<git, work, disk, logger, opt, loop, applied, hit, snapshot, vouched, newest, shared>>

\* requestFinal, refused without budget: RunWithTools then reports a plain error.
RequestFinal(r) ==
  /\ pc[r] = "final"
  /\ IF r \in over
     THEN Return(r, NoText, "error") /\ UNCHANGED <<over, late>>
     ELSE /\ Send(r)
          /\ \/ Return(r, NoText, "error") /\ UNCHANGED over
             \/ Spend(r) /\ \E text \in Texts : Return(r, text, "none")
  /\ UNCHANGED <<git, work, disk, logger, opt, loop, applied, hit, snapshot, vouched, newest, shared>>

-----------------------------------------------------------------------------
(* The other providers. *)

\* callLangChainLLM: one step here, module ToolLoop in detail.
ToolLoop(r) ==
  /\ pc[r] = "invoke" /\ opt[r].provider = "chain"
  /\ \E edits \in BOOLEAN, text \in Texts \cup {NoText}, err \in {"none", "budget", "error"} :
       /\ err = "none" => text # NoText
       /\ err = "error" => text = NoText
       /\ IF edits THEN ToolEdits(r) ELSE UNCHANGED <<applied, tree, changed>>
       /\ hit' \in {hit, IF edits THEN hit ELSE hit \cup {r}}
       /\ Return(r, text, err)
  /\ UNCHANGED <<git, disk, logger, opt, loop, over, snapshot, history>>

\* invokeAgenticCLI takes the fingerprint of the working tree and starts the CLI.
StartCLI(r) ==
  /\ pc[r] = "invoke" /\ opt[r].provider = "cli" /\ Go(r, "cli")
  /\ snapshot' = [snapshot EXCEPT ![r] = tree]
  /\ UNCHANGED <<git, work, disk, logger, opt, loop, over, applied, hit, result, history>>

\* The CLI edits, and may commit, what it likes while it runs.  Only a
\* difference of the working tree is noticed, only when the CLI succeeds.
AgenticCLI(r) ==
  /\ pc[r] = "cli"
  /\ \E does \in {"nothing", "edits", "edits and commits"} :
       /\ tree' = CASE does = "nothing" -> tree
                    [] does = "edits" -> tree \cup {r}
                    [] OTHER -> {}
       /\ does = "edits and commits" => git
       /\ changed' = IF does = "nothing" THEN changed ELSE changed \cup {r}
       /\ \/ Return(r, NoText, "error") /\ UNCHANGED applied
          \/ /\ \E text \in Texts : Return(r, text, "none")
             /\ applied' = IF git /\ tree' # snapshot[r] THEN applied \cup {r} ELSE applied
       /\ vouched' = IF does = "nothing" /\ tree # snapshot[r] THEN vouched \cup {r} ELSE vouched
  /\ UNCHANGED <<git, disk, logger, opt, loop, over, hit, snapshot, late, newest, shared>>

-----------------------------------------------------------------------------
(* After the model: the answer is checked, applied and written. *)

HasDiff(text)        == "diff" \in text        \* extractUnifiedDiff succeeds
ClaimsSpecific(text) == "claims" \in text      \* claimsSpecificFilesTouched

\* validateActionableResponse.
Actionable(r) ==
  LET text == result[r].text IN
  \/ r \in applied
  \/ r \notin hit /\ text \cap {"diff", "report", "no changes"} # {}
\* Mutant of Fabricated: "no changes" is believed of a report that names files.
FabricatedUnlessDenied(r) ==
  LET text == result[r].text IN
  /\ r \notin applied /\ ~HasDiff(text) /\ ClaimsSpecific(text) /\ git /\ tree = {}
  /\ "no changes" \notin text
\* validateActionableChanges, in edit mode: anybody's changes vouch for a report.
Fabricated(r) ==
  LET text == result[r].text IN
  r \notin applied /\ ~HasDiff(text) /\ ClaimsSpecific(text) /\ git /\ tree = {}
Validated(r) ==
  opt[r].require => Actionable(r) /\ (opt[r].edit => ~Fabricated(r))

Refused(r, ok) == IF ok \/ result[r].err = "budget" THEN result[r].err ELSE "rejected"

Ends(r, ok) == result' = [result EXCEPT ![r].err = Refused(r, ok)]

\* applyUnifiedDiff: git apply takes all of a diff or nothing, patch what fits.
Patches(r) == tree' = tree \cup {r} /\ changed' = changed \cup {r}
ApplyDiff(r) ==
  \/ Ends(r, TRUE) /\ Patches(r)
  \/ Ends(r, FALSE) /\ UNCHANGED work
  \/ opt[r].apply = "fallback" /\ Ends(r, FALSE) /\ Patches(r)

\* applyResponseDiff: the diff of a run whose tools have edited is not applied.
ApplyResponse(r) ==
  LET text == result[r].text IN
  IF opt[r].apply = "no" \/ r \in applied \/ (~HasDiff(text) /\ "no changes" \in text)
  THEN Ends(r, TRUE) /\ UNCHANGED work
  ELSE IF ~HasDiff(text) THEN Ends(r, FALSE) /\ UNCHANGED work ELSE ApplyDiff(r)

\* What the run kept for its model calls goes with them.
Done(r) ==
  /\ loop' = [loop EXCEPT ![r] = Start] /\ snapshot' = [snapshot EXCEPT ![r] = {}]
  /\ over' = over \ {r} /\ hit' = hit \ {r} /\ late' = [late EXCEPT ![r] = 0]

\* invokeAndHandle.  The answer of a run that spent its budget is handled too,
\* and what goes wrong with it only logged.
Handle(r) ==
  /\ pc[r] = "handle" /\ Go(r, "close")
  /\ IF result[r].err = "error" \/ result[r].text = NoText
     THEN UNCHANGED <<work, result, vouched>>
     ELSE /\ vouched' = IF tree # {} THEN vouched \cup {r} ELSE vouched
          /\ IF ~Validated(r)
             THEN Ends(r, FALSE) /\ UNCHANGED work
             ELSE \/ ApplyResponse(r)
                  \/ Ends(r, FALSE) /\ UNCHANGED work   \* the output file cannot be written
  /\ Done(r)
  /\ UNCHANGED <<git, disk, logger, opt, applied, newest, shared>>

Gone(r) ==
  applied' = applied \ {r} /\ changed' = changed \ {r} /\ vouched' = vouched \ {r}

\* Mutant of Status: the error of the model call, not of the run.
StatusOfCall(r) == CASE result[r].err = "budget" -> "budget_exceeded"
                     [] result[r].err = "error"  -> "error"
                     [] OTHER                    -> "completed"
\* closeSession, deferred: what the run returned, with everything that went wrong.
Status(r) == CASE result[r].err = "budget" -> "budget_exceeded"
               [] result[r].err = "none"   -> "completed"
               [] OTHER                    -> "error"
CloseSession(r) ==
  /\ pc[r] = "close" /\ Go(r, "exited")
  /\ IF logger[r] = NoLogger
     THEN UNCHANGED session
     ELSE session' = [session EXCEPT ![logger[r].session].meta =
                        [logger[r].meta EXCEPT !.status = Status(r)]]
  /\ result' = [result EXCEPT ![r].text = NoText] /\ Gone(r)
  /\ UNCHANGED <<git, tree, index, logger, opt, loop, over, hit, snapshot, late, newest, shared>>

\* The process dies.  Nothing of it is undone.
Kill(r) ==
  /\ Live(r) /\ Go(r, "killed")
  /\ Done(r)
  /\ result' = [result EXCEPT ![r] = NoResult] /\ Gone(r)
  /\ UNCHANGED <<git, tree, disk, logger, opt, newest, shared>>

\* Someone removes the directory of a session no run writes to.
Delete(s) ==
  /\ session[s].state = "whole"
  /\ \A r \in Runs : Live(r) => logger[r].session # s
  /\ session' = [session EXCEPT ![s].state = "deleted"]
  /\ UNCHANGED <<git, work, index, pc, logger, running, result, history>>

-----------------------------------------------------------------------------
Step(r) ==
  \/ Begin(r) \/ CannotCall(r)
  \/ Initial(r) \/ Turn(r) \/ Follow(r) \/ Resolve(r) \/ RequestFinal(r)
  \/ ToolLoop(r) \/ StartCLI(r) \/ AgenticCLI(r)
  \/ Handle(r) \/ CloseSession(r)

Next == \E r \in Runs : Step(r) \/ KilledInNew(r) \/ Kill(r) \/ Delete(r)

Spec == Init /\ [][Next]_vars

-----------------------------------------------------------------------------
Users(s) == {r \in Runs : logger[r].session = s}

\* A session's status is the outcome of the run that wrote it, with what went
\* wrong after the model had answered, and "running" only while a run is alive
\* or after one was killed (invokeAndHandle's deferred closeSession).
StatusIsOutcome ==
  \A s \in Runs : session[s].state = "whole" =>
    /\ \A r \in Users(s) :
         Users(s) = {r} /\ pc[r] = "exited" =>
           session[s].meta.status = (CASE result[r].err = "none"   -> "completed"
                                       [] result[r].err = "budget" -> "budget_exceeded"
                                       [] OTHER                    -> "error")
    /\ session[s].meta.status = "running" =>
         pc[s] = "killed" \/ \E r \in Users(s) : Live(r) \/ pc[r] = "killed"

\* A run that must act and reports files it touched has changed something, or
\* has put its change in the answer; only in a tree that held somebody's
\* changes can it have made the report up (validateActionableChanges).
ReportsAreBacked ==
  \A r \in Runs :
    /\ pc[r] = "close" /\ result[r].err = "none"
    /\ opt[r].require /\ opt[r].edit /\ git
    /\ result[r].text # NoText /\ "claims" \in result[r].text
    => r \in changed \/ "diff" \in result[r].text \/ r \in vouched

\* One request at most is sent once the budget is gone: the outputs of the
\* calls of the first response, or the dummy outputs of a loop that was cut.
SpendingStops == \A r \in Runs : late[r] <= 1

\* meta.json names the last response of the session's conversation, also after
\* a crash, so a resumed run continues where the last one stopped; two runs on
\* one session at a time overwrite each other's meta (recordResponse, Open).
ResumesContinue ==
  \A s \in Runs \ shared :
    session[s].state = "whole" /\ s \in Users(s) => session[s].meta.last = newest[s]

-----------------------------------------------------------------------------
(* Claims of comments that the code does not keep. *)

\* "... resolve them with dummy outputs so PreviousResponseID chaining doesn't
\* fail": the response with the pending calls stays the one a resume names.
ChainsStayClean ==
  \A r \in Runs : pc[r] = "exited" /\ result[r].err = "none" /\ logger[r] # NoLogger
                  => ~logger[r].meta.last.pending

\* "Edits made out-of-band by an agentic CLI can be detected afterwards": not
\* those it committed in a clean tree.
CommittedWorkCounts ==
  \A r \in Runs :
    opt[r].provider = "cli" /\ git /\ r \in changed /\ pc[r] = "close"
    /\ result[r].text # NoText => r \in applied

\* "Only a confirmed-clean tree is a fabrication": changes that were there
\* before, or another run's, are taken for the agent's.
FabricationsFail ==
  \A r \in Runs :
    /\ pc[r] = "close" /\ result[r].err = "none"
    /\ opt[r].require /\ opt[r].edit /\ git
    /\ result[r].text # NoText /\ "claims" \in result[r].text
    => r \in changed \/ "diff" \in result[r].text

\* A resumed run has its session: the newest may exist in the index only.
ResumesHaveSessions ==
  \A r \in Runs : Live(r) /\ opt[r].resume /\ Readable # {}
                  => logger[r] # NoLogger
=============================================================================
