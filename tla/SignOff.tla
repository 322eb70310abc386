------------------------------ MODULE SignOff ------------------------------
(***************************************************************************)
(* The sign-off gate of `squad run --interactive' (tools/signoff.go,        *)
(* tools/confirm.go) and the claude-code session it is enforced in from     *)
(* outside (runner/signoff_claude.go, agenticcli/claude_live.go).           *)
(*                                                                         *)
(* All agents of a run, native ones and live sessions, share one            *)
(* SignOffRuntime and one terminal.  ExecuteRun refuses --interactive       *)
(* without a terminal, so IsTTY holds and a plan is never empty.  The       *)
(* terminal is in canonical mode: a read returns one line, so nothing is    *)
(* ever buffered behind a line (reader.Buffered() = 0).  A line is what     *)
(* matters of it: an approving or refusing word, other text, or nothing.    *)
(*                                                                         *)
(* The external claude process is free in what it writes, except that it    *)
(* waits for the answer to a permission request before it goes on, runs an  *)
(* edit only when that answer allows it, and is silent after its result.    *)
(***************************************************************************)
EXTENDS Integers, Sequences, FiniteSets

CONSTANTS
  Natives,    \* agents squad runs the tool loop of
  Lives,      \* claude-code sessions
  Root,       \* the run's own agent, whose response the run handles
  Applies,    \* is --apply given?
  Pastes,     \* bound: what the user may put in at once, a sequence of lines
  Confirms,   \* whether native agents call Confirm, too
  Events,     \* bound: what a claude process may write
  MaxLines,   \* bound: how many lines the user puts in
  MaxEvents,  \* bound: how many events a claude process writes
  MaxPipe     \* bound: how many of them its output holds unread

Agents == Natives \cup Lives
Lines == {"yes", "no", "text", "blank"}
NoOne == "no one"
MaxProtocolErrors == 2
AllEvents == {"init", "prose", "edit?", "other?", "odd?", "garbage", "noise", "result", "bad result"}

ASSUME SignOffAssumption ==
  /\ Natives \cap Lives = {} /\ NoOne \notin Natives \cup Lives
  /\ Root \in Natives \cup Lives /\ Applies \in BOOLEAN
  /\ Pastes \subseteq Seq(Lines) /\ Confirms \in BOOLEAN
  /\ Events \subseteq AllEvents
  /\ {MaxLines, MaxEvents, MaxPipe} \subseteq Nat

VARIABLES
  stage,     \* where an agent is: "none", waiting at "lock", at a prompt, or "done"
  mu,        \* who holds SignOffRuntime.mu
  approved,  \* SignOffRuntime.approved
  tty,       \* lines put in and not read: [kind, ahead = no plan was on display, tail = not the first of a paste]
  eof,       \* the user has ended the input
  typed,     \* how many lines were put in
  live,      \* a session's liveSession, gate and process, see LiveType
  \* History, read by properties only:
  top,       \* whose plan was displayed last
  answers,   \* what was taken for the answer to a plan: [line, by, met = it was the plan displayed last]
  edited,    \* who has changed a file, with a tool or as a session
  patched    \* has the run changed files with the diff of its response?

term == <<tty, eof, typed>>
changes == <<edited, patched>>
history == <<top, answers, changes>>
vars == <<stage, mu, approved, term, live, history>>

LiveType ==
  [cli   : {"runs", "asks edit", "asks other", "over", "dead"},
   wrote : 0..MaxEvents,                    \* events, up to the bound
   pipe  : Seq(AllEvents),                  \* stdout, not yet read
   reply : {"none", "allow", "deny"},       \* a control_response on stdin
   phase : {"loop", "wait", "returned"},    \* of RunLive
   stdin : BOOLEAN,                         \* ~stdinClosed
   result : BOOLEAN,                        \* resultSeen
   errs  : 0..MaxProtocolErrors,            \* protoErrs
   prose : BOOLEAN,                         \* latestAssistantText() # ""
   failed : BOOLEAN,                        \* the loop has ended in an error
   rejected : BOOLEAN]                      \* claudeSignOffGate.rejected

TypeOK ==
  /\ stage \in [Agents -> {"none", "lock", "answer", "body", "confirm", "done"}]
  /\ mu \in Agents \cup {NoOne} /\ approved \in BOOLEAN /\ eof \in BOOLEAN
  /\ \A i \in DOMAIN tty : tty[i].kind \in Lines
  /\ live \in [Lives -> LiveType]
  /\ edited \subseteq Agents /\ patched \in BOOLEAN

Init ==
  /\ stage = [a \in Agents |-> "none"]
  /\ mu = NoOne /\ approved = FALSE
  /\ tty = <<>> /\ eof = FALSE /\ typed = 0
  /\ live = [s \in Lives |->
       [cli |-> "runs", wrote |-> 0, pipe |-> <<>>, reply |-> "none", phase |-> "loop",
        stdin |-> TRUE, result |-> FALSE, errs |-> 0, prose |-> FALSE,
        failed |-> FALSE, rejected |-> FALSE]]
  /\ top = NoOne /\ answers = {} /\ edited = {} /\ patched = FALSE

----------------------------------------------------------------------------
(* The user at the terminal. *)

Put ==
  \E p \in Pastes :
    /\ ~eof /\ typed + Len(p) <= MaxLines
    /\ typed' = typed + Len(p)
    /\ tty' = tty \o [i \in DOMAIN p |->
                       [kind |-> p[i], ahead |-> mu = NoOne, tail |-> i > 1]]
    /\ UNCHANGED <<stage, mu, approved, eof, live, history>>

EndInput ==
  /\ ~eof /\ eof' = TRUE
  /\ UNCHANGED <<stage, mu, approved, tty, typed, live, history>>

TakeLine == tty # <<>> /\ tty' = Tail(tty) /\ UNCHANGED <<eof, typed>>
AtEOF == tty = <<>> /\ eof /\ UNCHANGED term

----------------------------------------------------------------------------
(* Native agents. *)

SignOffDenial == ~approved       \* of a mutating tool; Bash is exempt

\* A denied call returns a message and changes nothing.
Edit(a) ==
  /\ stage[a] = "none" /\ ~SignOffDenial
  /\ edited' = edited \cup {a}
  /\ UNCHANGED <<stage, mu, approved, term, live, top, answers, patched>>

ProposePlan(a) ==
  /\ stage[a] = "none"
  /\ stage' = [stage EXCEPT ![a] = "lock"]
  /\ UNCHANGED <<mu, approved, term, live, history>>

\* Confirm reads through a reader of its own and does not take mu.
Confirm(a) ==
  /\ Confirms /\ stage[a] = "none"
  /\ stage' = [stage EXCEPT ![a] = "confirm"]
  /\ UNCHANGED <<mu, approved, term, live, history>>

\* promptTTY takes one line, whatever it is.
ConfirmReads(a) ==
  /\ stage[a] = "confirm" /\ (TakeLine \/ AtEOF)
  /\ stage' = [stage EXCEPT ![a] = "none"]
  /\ UNCHANGED <<mu, approved, live, history>>

Finish(a) ==
  /\ stage[a] = "none"
  /\ stage' = [stage EXCEPT ![a] = "done"]
  /\ UNCHANGED <<mu, approved, term, live, history>>

----------------------------------------------------------------------------
(* A live session: what its loop does with an event. *)

\* A fatal event closes stdin and kills the process: it edits nothing more.
Fatal(l) == [l EXCEPT !.phase = "wait", !.stdin = FALSE, !.cli = "dead", !.pipe = <<>>,
                      !.reply = "none", !.failed = TRUE]

\* send fails when stdin is closed or nobody reads it.
Send(l, reply) ==
  IF l.stdin /\ l.cli # "dead" THEN [l EXCEPT !.reply = reply] ELSE Fatal(l)

\* An error is fatal only when the one before it was not followed by a good event.
ProtocolError(l) ==
  LET next == [l EXCEPT !.errs = @ + 1] IN
    IF next.errs = MaxProtocolErrors THEN Fatal(next) ELSE next

Good(l) == [l EXCEPT !.errs = 0]

\* The end of a review: the gate opens or not, and a session answers its request.
\* Rejected, a native agent gets an error and a session an interrupt as well.
Decide(a, outcome) ==
  /\ mu' = NoOne
  /\ stage' = [stage EXCEPT ![a] = "none"]
  /\ approved' = (approved \/ outcome = "approved")
  /\ live' = IF a \notin Lives THEN live
             ELSE LET l == live[a] IN
               [live EXCEPT ![a] =
                  CASE outcome = "approved" -> Send(l, "allow")
                    [] outcome = "rejected" -> Send([l EXCEPT !.rejected = TRUE], "deny")
                    [] outcome = "feedback" -> Send(l, "deny")
                    [] outcome = "error"    -> Fatal(l)]
  /\ UNCHANGED changes

\* canUseTool for a mutating tool, up to the review: "review" when there must be one.
CanUseTool(l) ==
  IF approved THEN "allow"
  ELSE IF l.rejected \/ ~l.prose THEN "deny" ELSE "review"

Handle(s) ==
  LET l == [live[s] EXCEPT !.pipe = Tail(@)]
      e == Head(live[s].pipe)
      review == e = "edit?" /\ CanUseTool(l) = "review"
  IN
    /\ live[s].phase = "loop" /\ stage[s] = "none" /\ live[s].pipe # <<>>
    /\ stage' = IF review THEN [stage EXCEPT ![s] = "lock"] ELSE stage
    /\ live' = [live EXCEPT ![s] =
         CASE e = "init"    -> Good(l)
           [] e = "prose"   -> Good([l EXCEPT !.prose = TRUE])
           [] e = "noise"   -> l
           [] e = "garbage" -> ProtocolError(l)
           [] e = "odd?"    -> ProtocolError(Send(l, "deny"))
           [] e = "other?"  -> Good(Send(l, "allow"))
           [] e = "edit?"   -> Good(IF review THEN l ELSE Send(l, CanUseTool(l)))
           [] e = "result"  -> Good([l EXCEPT !.result = TRUE, !.stdin = FALSE])
           [] e = "bad result" -> [Fatal(l) EXCEPT !.result = TRUE]]
    /\ UNCHANGED <<mu, approved, term, history>>

\* The loop ends with the output.
Drained(s) ==
  /\ live[s].phase = "loop" /\ stage[s] = "none" /\ live[s].pipe = <<>> /\ live[s].cli = "dead"
  /\ live' = [live EXCEPT ![s].phase = "wait", ![s].stdin = FALSE]
  /\ UNCHANGED <<stage, mu, approved, term, history>>

\* Mutant of Watchdog: armed only once the loop has ended.
LateWatchdog(s) ==
  /\ live[s].phase = "wait" /\ live[s].cli # "dead"
  /\ live' = [live EXCEPT ![s].cli = "dead", ![s].reply = "none"]
  /\ UNCHANGED <<stage, mu, approved, term, history>>

\* The timer armed by the result, or the one armed before cmd.Wait, kills the process.
Watchdog(s) ==
  /\ live[s].phase = "wait" \/ live[s].result
  /\ live[s].cli # "dead"
  /\ live' = [live EXCEPT ![s].cli = "dead", ![s].reply = "none"]
  /\ UNCHANGED <<stage, mu, approved, term, history>>

Waited(s) ==
  /\ live[s].phase = "wait" /\ live[s].cli = "dead"
  /\ live' = [live EXCEPT ![s] = [@ EXCEPT !.phase = "returned", !.errs = 0, !.prose = FALSE, !.wrote = MaxEvents]]
  /\ stage' = [stage EXCEPT ![s] = "done"]
  /\ UNCHANGED <<mu, approved, term, history>>

----------------------------------------------------------------------------
(* A review, by native agents and live sessions alike. *)

\* Mutant of Lock: the plan is displayed first, and the lock taken to read.
LockToRead(a) ==
  /\ stage[a] = "lock"
  /\ mu' = a
  /\ stage' = [stage EXCEPT ![a] = "answer"]
  /\ top' = a
  /\ UNCHANGED <<approved, term, live, answers, changes>>

Lock(a) ==
  /\ stage[a] = "lock" /\ mu = NoOne
  /\ mu' = a
  /\ stage' = [stage EXCEPT ![a] = "answer"]
  /\ top' = a
  /\ UNCHANGED <<approved, term, live, answers, changes>>

\* promptSignOff: a blank line prompts again, the end of the input is an error.
Answer(a) ==
  /\ stage[a] = "answer"
  /\ \/ /\ AtEOF /\ Decide(a, "error") /\ UNCHANGED answers
     \/ /\ TakeLine
        /\ LET line == Head(tty) IN
           /\ answers' = IF line.kind = "blank" THEN answers
                         ELSE answers \cup {[line |-> line, by |-> a, met |-> top = a]}
           /\ CASE line.kind = "yes"   -> Decide(a, "approved")
                [] line.kind = "no"    -> Decide(a, "rejected")
                [] line.kind = "blank" -> UNCHANGED <<stage, mu, approved, live, changes>>
                [] line.kind = "text"  -> stage' = [stage EXCEPT ![a] = "body"]
                                          /\ UNCHANGED <<mu, approved, live, changes>>
  /\ UNCHANGED top

\* Mutant of Body: a word of the feedback that approves is taken for the answer.
BodyApproves(a) ==
  /\ stage[a] = "body"
  /\ \/ AtEOF /\ Decide(a, "feedback")
     \/ /\ TakeLine
        /\ CASE Head(tty).kind = "blank" -> Decide(a, "feedback")
             [] Head(tty).kind = "yes"   -> Decide(a, "approved")
             [] Head(tty).kind \in {"no", "text"} -> UNCHANGED <<stage, mu, approved, live, changes>>
  /\ UNCHANGED <<top, answers>>

\* readFeedbackBody: up to a blank line or the end of the input.
Body(a) ==
  /\ stage[a] = "body"
  /\ \/ AtEOF /\ Decide(a, "feedback")
     \/ /\ TakeLine
        /\ IF Head(tty).kind = "blank" THEN Decide(a, "feedback")
           ELSE UNCHANGED <<stage, mu, approved, live, changes>>
  /\ UNCHANGED <<top, answers>>

----------------------------------------------------------------------------
(* The claude process. *)

Emit(s) ==
  \E e \in Events :
    /\ live[s].cli = "runs" /\ live[s].wrote < MaxEvents /\ Len(live[s].pipe) < MaxPipe
    /\ live' = [live EXCEPT ![s].wrote = @ + 1,
                            ![s].pipe = IF live[s].phase = "loop" THEN Append(@, e) ELSE @,
                            ![s].cli = CASE e = "edit?" -> "asks edit"
                                         [] e \in {"other?", "odd?"} -> "asks other"
                                         [] e \in {"result", "bad result"} -> "over"
                                         [] OTHER -> "runs"]
    /\ UNCHANGED <<stage, mu, approved, term, history>>

\* It reads the answer and, if that allows it, runs the tool.
Proceed(s) ==
  /\ live[s].reply # "none" /\ live[s].cli \in {"asks edit", "asks other"}
  /\ edited' = IF live[s].cli = "asks edit" /\ live[s].reply = "allow" THEN edited \cup {s} ELSE edited
  /\ live' = [live EXCEPT ![s].cli = "runs", ![s].reply = "none"]
  /\ UNCHANGED <<stage, mu, approved, term, top, answers, patched>>

\* It ends, of itself or killed when the run is cancelled; what it wrote can still be read.
Exit(s) ==
  /\ live[s].cli # "dead"
  /\ live' = [live EXCEPT ![s].cli = "dead", ![s].reply = "none"]
  /\ UNCHANGED <<stage, mu, approved, term, history>>

----------------------------------------------------------------------------
(* The end of the run. *)

\* A rejected or failed session ends the run with an error.  A result that reports one
\* is not told apart.
HasResponse ==
  /\ stage[Root] = "done"
  /\ Root \in Lives => live[Root].result /\ ~live[Root].failed /\ ~live[Root].rejected

\* handleResponse: with --apply the working tree is patched with the diff in the
\* response, if there is one, unless a tool has edited a file.  The gate is not
\* consulted.  What a session has changed counts when git shows it and its call
\* succeeded, which is left open.
ApplyResponse ==
  /\ Applies /\ HasResponse /\ ~patched
  /\ edited \cap Natives = {}
  /\ patched' = TRUE
  /\ UNCHANGED <<stage, mu, approved, term, live, top, answers, edited>>

----------------------------------------------------------------------------

Agent(a) == Lock(a) \/ Answer(a) \/ Body(a)
Native(a) == Edit(a) \/ ProposePlan(a) \/ Confirm(a) \/ ConfirmReads(a) \/ Finish(a)
RunLive(s) == Handle(s) \/ Drained(s) \/ Watchdog(s) \/ Waited(s)
Claude(s) == Emit(s) \/ Proceed(s) \/ Exit(s)

Next ==
  \/ Put \/ EndInput \/ ApplyResponse
  \/ \E a \in Agents : Agent(a)
  \/ \E a \in Natives : Native(a)
  \/ \E s \in Lives : RunLive(s) \/ Claude(s)

\* The loop of a session and its timers run on; nothing is assumed of the user or claude.
Fairness ==
  \A s \in Lives : WF_vars(Handle(s)) /\ WF_vars(Drained(s)) /\ WF_vars(Watchdog(s)) /\ WF_vars(Waited(s))

Spec == Init /\ [][Next]_vars /\ Fairness

----------------------------------------------------------------------------
(* Properties. *)

\* A tool or a session changes a file only once a line that was taken for the answer
\* to a plan, not for a part of some feedback or for a Confirm, approved one
\* (SignOffDenial and canUseTool consult the same latch).  The patch of --apply is
\* excepted (ChangesNeedSignOff below).
EditsAreApproved == edited # {} => \E r \in answers : r.line.kind = "yes"

\* "mu serializes prompt I/O": an answer is for the plan displayed last, never
\* for one that a second review has scrolled away.
AnswersMeetLastPlan == \A r \in answers : r.met

\* A session whose plan the reviewer refused never puts another one in front
\* of them ("without re-prompting the reviewer").
Refused(s) == \E r \in answers : r.by = s /\ r.line.kind = "no"
RefusedIsQuiet == \A s \in Lives : Refused(s) => stage[s] \notin {"lock", "answer", "body"}

\* RunLive returns once the result is in or an error has ended its loop, also
\* when claude hangs (watchdog, exitGuard).
SessionsEnd == \A s \in Lives : (live[s].result \/ live[s].phase = "wait") ~> (live[s].phase = "returned")

(* What comments say and the code does not ensure. *)

\* "Require sign-off before file modifications" (--interactive): the diff in a
\* response is applied without one, also when the user has just refused the plan.
ChangesNeedSignOff == edited # {} \/ patched => \E r \in answers : r.line.kind = "yes"

\* "multi-paragraph pastes survive intact" (readFeedbackBody): no later part of
\* a paste is the answer to a plan.  On a terminal the first blank line ends the
\* feedback and the rest answers the next plan.
PastesSurviveIntact == \A r \in answers : ~r.line.tail

\* The plan "is everything the user sees before deciding" (definitionProposePlan):
\* an approval was typed with a plan on display.  Lines typed ahead answer whatever comes.
ApprovalsAreSeen == \A r \in answers : r.line.kind = "yes" => ~r.line.ahead

\* "a refused plan keeps every later mutating call locked" (claudeSignOffGate):
\* violated when another agent of the run gets its plan approved.
RefusedIsLocked ==
  [][\A s \in Lives : Refused(s) /\ s \notin edited => s \notin edited']_vars

\* "two prompts racing on one terminal would ... steal each other's input"
\* (serialTools): two agents are never both at a prompt.  Confirm takes no lock.
PromptsDoNotRace ==
  Cardinality({a \in Agents : stage[a] \in {"answer", "body", "confirm"}}) <= 1
=============================================================================
