------------------------------- MODULE Dashboard -------------------------------
(***************************************************************************)
(* The terminal dashboard, squad ui: the rows it keeps of the sessions     *)
(* below its root (ui/app), the tailer that reads each one from disk       *)
(* (watch), and the child processes it starts (ui/registry), beside the    *)
(* runs of other terminals that write those sessions (session).            *)
(*                                                                         *)
(* A session is a number, larger when newer, as the names of their         *)
(* directories sort. A child that the dashboard starts never writes one:   *)
(* its command line has a --prompt that `squad run` does not declare, so   *)
(* every session belongs to a run of another terminal.                     *)
(***************************************************************************)
EXTENDS DashboardPromise, FiniteSetsExt

CONSTANTS
    MaxWork,        \* bound: the launches, and the lines of all events.jsonl, together
    MaxPerGroup,    \* the rows a group of the sidebar lists, 8 in the code
    Ends,           \* the statuses with which the runs may finish
    Torn,           \* whether a reader may see half of a line being written
    CoarseTime      \* whether two writes of meta.json may have one mtime

ASSUME DashboardAssumption ==
    /\ Sessions \in Nat \ {0} /\ MaxWork \in Nat
    /\ MaxPerGroup \in Nat \ {0}
    /\ Ends \subseteq {"completed", "error", "budget_exceeded"}
    /\ Torn \in BOOLEAN /\ CoarseTime \in BOOLEAN

VARIABLES
    \* on disk, and the runs that write it
    runner,         \* "none", "live" or "dead", of each session
    status,         \* the status in meta.json, "" before there is one
    quiet,          \* whether it says "running" and Updated is older than the threshold
    \* the dashboard
    rows,           \* the tailers, newest first
    known,          \* knownDirs
    unread,         \* whether the mtime of meta.json is newer than the tailer's
    seen,           \* the tailer's meta: [status, quiet]
    selected, forced,
    toast           \* what the cancel key told of its signal; any other step clears it

disk == <<runner, status, quiet, lines>>
tail == <<unread, seen, pos, applied>>
list == <<rows, known, selected, pending, pairs>>
vars == <<disk, tail, list, forced, toast, children>>

Statuses == {"running", "completed", "error", "budget_exceeded"}
Unseen == [status |-> "", quiet |-> FALSE]
Toasts == {"", "sent", "cancel failed"}

TypeOK ==
    /\ runner \in [Dirs -> {"none", "live", "dead"}]
    /\ status \in [Dirs -> Statuses \cup {""}]
    /\ quiet \in [Dirs -> BOOLEAN] /\ unread \in [Dirs -> BOOLEAN]
    /\ \A d \in Dirs : lines[d] \in Seq({"event", "bad", "torn"})
    /\ rows \in Seq(Dirs) /\ known \subseteq Dirs
    /\ seen \in [Dirs -> [status : Statuses \cup {""}, quiet : BOOLEAN]]
    /\ applied \in [Dirs -> Nat] /\ \A d \in Dirs : pos[d] \in 0 .. Len(lines[d])
    /\ selected \in Dirs \cup {NoRun} /\ pending \in Seq(1 .. Len(children))
    /\ pairs \in [Dirs -> 0 .. Len(children)]
    /\ forced \in BOOLEAN /\ toast \in Toasts
    /\ children \in Seq({"running", "exited", "failed"})

-----------------------------------------------------------------------------
(* What a row shows. *)

\* A run that says it is running and has long been silent is taken for dead.
\* Mutant of StateOf: it is not.
StateWithoutGate(d) ==
    CASE seen[d].status = "" -> "Connecting"
      [] seen[d].status = "running" -> "Working"
      [] seen[d].status = "error" -> "Failed"
      [] seen[d].status = "budget_exceeded" -> "Budget"
      [] OTHER -> "Completed"

StateOf(d) ==
    CASE seen[d].status = "" -> "Connecting"
      [] seen[d].status = "running" /\ ~seen[d].quiet -> "Working"
      [] seen[d].status = "running" /\ seen[d].quiet -> "Failed"
      [] seen[d].status = "error" -> "Failed"
      [] seen[d].status = "budget_exceeded" -> "Budget"
      [] OTHER -> "Completed"

\* The budget is that of the launch the row is paired with.
HasBudget(d) == pairs[d] # NoRun

\* What the sidebar and the focused panel say of a session.
Row(d) == [state |-> StateOf(d),
           alive |-> StateOf(d) \in {"Connecting", "Working"},
           tools |-> applied[d],
           budget |-> HasBudget(d)]

\* An exited run that lasted no second and made no call; the model lets a run be that short.
IsStub(d) == ~Row(d).alive /\ Row(d).tools = 0

Visible == SelectSeq(rows, LAMBDA d : ~IsStub(d) \/ d = selected)

Group(d) == IF Row(d).alive THEN "WORKING" ELSE "RECENT"

\* The rows that the sidebar prints: the first few of each group.
Printed ==
    UNION {LET group == SelectSeq(Visible, LAMBDA d : Group(d) = g)
           IN  ToSet(SubSeq(group, 1, Min({MaxPerGroup, Len(group)}))) : g \in {"WORKING", "RECENT"}}

-----------------------------------------------------------------------------
(* The tailer of one session. *)

\* Reads what follows the offset; a last line without its newline is read as one too.
\* Mutant of EventsRead: the offset is counted from the lines that parse.
EventsReadAgain(d) == [at |-> Events(lines[d]), new |-> Events(SubSeq(lines[d], pos[d] + 1, Len(lines[d])))]

EventsRead(d) == [at |-> Len(lines[d]), new |-> Events(SubSeq(lines[d], pos[d] + 1, Len(lines[d])))]

MetaRead(d) == IF unread[d] THEN [status |-> status[d], quiet |-> quiet[d]] ELSE seen[d]

\* Every tailer in ds is refreshed, its metadata before its events.
Refresh(ds) ==
    /\ seen' = [d \in Dirs |-> IF d \in ds THEN MetaRead(d) ELSE seen[d]]
    /\ unread' = [d \in Dirs |-> unread[d] /\ d \notin ds]
    /\ pos' = [d \in Dirs |-> IF d \in ds THEN EventsRead(d).at ELSE pos[d]]
    /\ applied' = [d \in Dirs |-> IF d \in ds THEN applied[d] + EventsRead(d).new ELSE applied[d]]

-----------------------------------------------------------------------------
(* The list of rows. *)

OnDisk == {d \in Dirs : runner[d] # "none"}
Discover(ds) == SetToSortSeq(ds, >)          \* the names, in descending order

NewDirs == OnDisk \ known

\* Which launch a new directory takes: the newest has the one that waited longest.
Place(d) == Cardinality({e \in NewDirs : e >= d})

\* Mutant of StillPending: a launch goes on waiting when it was taken.
AllPending == pending

StillPending == SubSeq(pending, Cardinality(NewDirs) + 1, Len(pending))

\* The new directories, newest first: each row goes on top of the one before, and takes the
\* oldest launch that has none; the first is selected when nothing was.
Rediscover ==
    /\ rows' = Reverse(Discover(NewDirs)) \o rows
    /\ pairs' = [d \in Dirs |-> IF d \in NewDirs /\ Place(d) <= Len(pending) THEN pending[Place(d)]
                               ELSE pairs[d]]
    /\ pending' = StillPending
    /\ selected' = IF selected = NoRun /\ NewDirs # {} THEN Max(NewDirs) ELSE selected
    /\ known' = known \cup NewDirs
    /\ forced' = FALSE

\* The clock of the program: refresh, and look for new directories now and then.
Frame(scan) ==
    /\ forced => scan
    /\ IF scan THEN Rediscover /\ Refresh(ToSet(rows) \cup NewDirs)
       ELSE Refresh(ToSet(rows)) /\ UNCHANGED <<list, forced>>
    /\ toast' = "" /\ UNCHANGED <<disk, children>>

\* The arrow keys, from any region.
Cycle(delta) ==
    /\ Visible # <<>>
    /\ LET at == SelectInSeq(Visible, LAMBDA d : d = selected)
           from == IF at = 0 THEN 0 ELSE at - 1
       IN  selected' = Visible[((from + delta + Len(Visible)) % Len(Visible)) + 1]
    /\ UNCHANGED <<disk, tail, rows, known, pending, pairs, forced, children>> /\ toast' = ""

-----------------------------------------------------------------------------
(* Launching and cancelling. *)

MayWork == Len(children) + FoldFunction(LAMBDA ls, n : Len(ls) + n, 0, lines) < MaxWork

Start == children' = Append(children, "running")

\* The command starts; the next frame looks for its session.
Launch ==
    /\ MayWork
    /\ Start
    /\ pending' = Append(pending, Len(children) + 1)
    /\ forced' = TRUE
    /\ toast' = ""
    /\ UNCHANGED <<disk, tail, rows, known, selected, pairs>>

\* The flags on the command line of a child, and those that `squad run` declares.
LaunchFlags == {"agent", "prompt", "working-dir", "print"}
RunFlags == {"agent", "agents-dir", "working-dir", "provider", "model", "system", "out", "print", "dry-run", "apply",
             "mode", "max-iterations", "max-cost", "var", "stream", "json", "resume", "isolate", "interactive"}

\* A child with a flag it does not know prints its usage and exits with an error.
Reap(c) ==
    /\ children[c] = "running"
    /\ children' = [children EXCEPT ![c] = IF LaunchFlags \subseteq RunFlags THEN "exited" ELSE "failed"]
    /\ toast' = ""
    /\ UNCHANGED <<disk, tail, list, forced>>

\* What Stop returns, as the toast of it. It looks at the status and then signals: a child
\* reaped in between gives an error, one reaped before gives none.
StopResults(c) == IF children[c] = "running" THEN {"sent", "cancel failed"} ELSE {"sent"}

Cancel ==
    /\ toast' \in IF selected # NoRun /\ pairs[selected] # NoRun THEN StopResults(pairs[selected]) ELSE {""}
    /\ UNCHANGED <<disk, tail, list, forced, children>>

-----------------------------------------------------------------------------
(* The runs of other terminals. *)

\* meta.json is rewritten; with a coarse clock its mtime may be the one last read.
WriteMeta(d, s) ==
    /\ status' = [status EXCEPT ![d] = s]
    /\ quiet' = [quiet EXCEPT ![d] = FALSE]
    /\ \E newer \in IF CoarseTime /\ status[d] # "" THEN BOOLEAN ELSE {TRUE} :
        unread' = [unread EXCEPT ![d] = @ \/ newer]

\* A line is added; one that was cut short runs on into it, and neither parses.
\* A line being written whose first half was already read is an event all the same.
Written(ls) == IF ls # <<>> /\ Last(ls) = "torn" THEN Front(ls) \o <<"bad">> ELSE Append(ls, "event")
Completed(ls) == Front(ls) \o <<"event">>

MakeDir(d) ==
    /\ runner[d] = "none" /\ \A e \in Dirs : e < d => runner[e] # "none"
    /\ runner' = [runner EXCEPT ![d] = "live"]
    /\ UNCHANGED <<status, quiet, lines, tail, list, forced, children>> /\ toast' = ""

FirstMeta(d) ==
    /\ runner[d] = "live" /\ status[d] = ""
    /\ WriteMeta(d, "running")
    /\ UNCHANGED <<runner, lines, seen, pos, applied, list, forced, children>> /\ toast' = ""

AppendEvent(d) ==
    /\ runner[d] = "live" /\ status[d] = "running" /\ MayWork
    /\ lines' = [lines EXCEPT ![d] =
                    IF Torn /\ @ # <<>> /\ Last(@) = "torn" THEN Completed(@) ELSE Written(@)]
    /\ UNCHANGED <<runner, status, quiet, tail, list, forced, children>> /\ toast' = ""

\* Half of a line, seen by the reader or left by a crash.
WriteHalf(d, survives) ==
    /\ runner[d] = "live" /\ status[d] = "running" /\ MayWork
    /\ survives => Torn
    /\ lines' = [lines EXCEPT ![d] = IF @ # <<>> /\ Last(@) = "torn" THEN @ ELSE Append(@, "torn")]
    /\ runner' = IF survives THEN runner ELSE [runner EXCEPT ![d] = "dead"]
    /\ UNCHANGED <<status, quiet, tail, list, forced, children>> /\ toast' = ""

\* The totals of a turn; only the loop over the Responses API writes them.
UpdateMetrics(d) ==
    /\ runner[d] = "live" /\ status[d] = "running"
    /\ WriteMeta(d, "running")
    /\ UNCHANGED <<runner, lines, seen, pos, applied, list, forced, children>> /\ toast' = ""

Finish(d, s) ==
    /\ runner[d] = "live" /\ status[d] = "running"
    /\ WriteMeta(d, s)
    /\ runner' = [runner EXCEPT ![d] = "dead"]
    /\ UNCHANGED <<lines, seen, pos, applied, list, forced, children>> /\ toast' = ""

Crash(d) ==
    /\ runner[d] = "live"
    /\ runner' = [runner EXCEPT ![d] = "dead"]
    /\ UNCHANGED <<status, quiet, lines, tail, list, forced, children>> /\ toast' = ""

\* squad run --resume: the same files, running again, and an event that says so.
Resume(d) ==
    /\ runner[d] = "dead" /\ status[d] # "" /\ MayWork
    /\ runner' = [runner EXCEPT ![d] = "live"]
    /\ WriteMeta(d, "running")
    /\ lines' = [lines EXCEPT ![d] = Written(@)]
    /\ UNCHANGED <<seen, pos, applied, list, forced, children>> /\ toast' = ""

\* A quarter of an hour without a write of meta.json.
TimePasses ==
    /\ quiet' = [d \in Dirs |-> status[d] = "running"]
    /\ seen' = [d \in Dirs |-> [seen[d] EXCEPT !.quiet = seen[d].status = "running"]]
    /\ UNCHANGED <<runner, status, lines, unread, pos, applied, list, forced, children>> /\ toast' = ""

-----------------------------------------------------------------------------
\* The dashboard starts beside sessions that are there already, each finished.
Init ==
    \E old \in 0 .. 1 :
        /\ runner = [d \in Dirs |-> IF d <= old THEN "dead" ELSE "none"]
        /\ status = [d \in Dirs |-> IF d <= old THEN "completed" ELSE ""]
        /\ quiet = [d \in Dirs |-> FALSE] /\ lines = [d \in Dirs |-> <<>>]
        /\ rows = Discover(1 .. old) /\ known = 1 .. old
        /\ unread = [d \in Dirs |-> FALSE]
        /\ seen = [d \in Dirs |-> [status |-> status[d], quiet |-> quiet[d]]]
        /\ pos = [d \in Dirs |-> 0] /\ applied = [d \in Dirs |-> 0]
        /\ selected = old /\ pending = <<>> /\ pairs = [d \in Dirs |-> NoRun]
        /\ forced = TRUE /\ toast = "" /\ children = <<>>

Frames == \E scan \in BOOLEAN : Frame(scan)
Keys == (\E delta \in {-1, 1} : Cycle(delta)) \/ Launch \/ Cancel
Child == \E c \in DOMAIN children : Reap(c)
Run(d) ==
    \/ MakeDir(d) \/ FirstMeta(d) \/ AppendEvent(d) \/ UpdateMetrics(d) \/ Crash(d) \/ Resume(d)
    \/ \E survives \in BOOLEAN : WriteHalf(d, survives)
    \/ \E s \in Ends : Finish(d, s)
OtherRuns == \E d \in Dirs : Run(d)

Next == Frames \/ Keys \/ Child \/ OtherRuns \/ TimePasses

\* The frame timer fires again and again and scans twice a second; time passes.
\* Nothing is assumed of the runs.
Spec == Init /\ [][Next]_vars /\ WF_vars(Frame(TRUE)) /\ WF_vars(TimePasses)

-----------------------------------------------------------------------------
(* Properties, beside those of DashboardPromise. *)

(***************************************************************************)
(* Every session has one row, the selected run is one of them and is       *)
(* among the rows handed to the sidebar, so the arrow keys start at it     *)
(* (ui/app/app.go rediscover, visibleRuns, cycleSelection).                *)
(***************************************************************************)
RowsAreSessions ==
    /\ Len(rows) = Cardinality(ToSet(rows)) /\ ToSet(rows) = known
    /\ rows = <<>> <=> selected = NoRun
    /\ selected # NoRun => selected \in ToSet(Visible)

(***************************************************************************)
(* The row of a run that died with its metadata on disk stops saying that  *)
(* the run is alive, unless it is resumed: by the status that the run left,*)
(* or by the stale threshold when there is none or its write went          *)
(* unnoticed (ui/app/app.go stateFromMeta).                                *)
(***************************************************************************)
DeadRowsSettle ==
    \A d \in Dirs : (runner[d] = "dead" /\ status[d] # "") ~> (runner[d] = "live" \/ ~Row(d).alive)

-----------------------------------------------------------------------------
(* What the code's comments say and the code does not do (README, section 6). *)

(***************************************************************************)
(* app.go 63-65: the pairs let cancel "signal the correct child"; a row    *)
(* with a pair would be a run that the dashboard started. The children end *)
(* at their flags, so every paired session is of another terminal.         *)
(***************************************************************************)
PairsAreOwn == \A d \in Dirs : pairs[d] = NoRun

(***************************************************************************)
(* app.go 765-767: cancel is a "no-op (with explanatory toast)" when the   *)
(* child has exited; the toast says that the signal was sent.              *)
(***************************************************************************)
CancelSaysWhatItDid == [][toast' = "sent" /\ Cancel => children[pairs[selected]] = "running"]_vars

(***************************************************************************)
(* app.go 474: "prepend (newest first)"; two sessions found by one scan    *)
(* are put on top newest first, and so end with the older one above.       *)
(***************************************************************************)
NewestFirst == \A i, j \in DOMAIN rows : i < j => rows[i] > rows[j]

(***************************************************************************)
(* app.go 437-438: the selected run stays visible, "so focus never points  *)
(* at a row the sidebar doesn't show"; the sidebar prints the first rows   *)
(* of a group only.                                                        *)
(***************************************************************************)
SelectedIsPrinted == selected # NoRun => selected \in Printed

(***************************************************************************)
(* app.go 1134-1135: "a healthy runner bumps Updated every model turn"; a  *)
(* run over any other API writes its metadata at its start and its end.    *)
(***************************************************************************)
LiveRowsAreAlive == \A d \in Dirs : StateOf(d) = "Failed" /\ ~unread[d] /\ status[d] = "running" => runner[d] = "dead"

(***************************************************************************)
(* app.go 1143: without the gate "the row would haunt WORKING         *)
(* forever"; a run that dies before its first meta.json does.              *)
(***************************************************************************)
NothingHaunts == \A d \in Dirs : (runner[d] = "dead") ~> (runner[d] = "live" \/ ~Row(d).alive \/ d \notin known)

(***************************************************************************)
(* tailer.go 103-104: "partially-written lines at the end are deferred     *)
(* until the next call"; the scanner returns the last line without its     *)
(* newline too, which is skipped as malformed and never read again.        *)
(***************************************************************************)
TornLinesAreDeferred == TailIsExact

(***************************************************************************)
(* tailer.go 17-18: meta.json is parsed again "when its mtime changes"; a  *)
(* rewrite within one tick of the file system's clock is not noticed, and  *)
(* a finished run is shown as failed.                                      *)
(***************************************************************************)
FinalStatusIsShown ==
    \A d \in Dirs : (runner[d] = "dead" /\ status[d] = "completed")
                        ~> (runner[d] = "live" \/ StateOf(d) = "Completed")
================================================================================
