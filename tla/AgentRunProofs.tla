--------------------------- MODULE AgentRunProofs ---------------------------
(***************************************************************************)
(* Theorems about AgentRun for any finite number of runs, any options and  *)
(* directories, any answers of the model and any limits; about Skills,     *)
(* whose stack is part of what a resumed run is given back; and about      *)
(* Sources, which both come from.                                          *)
(***************************************************************************)
EXTENDS AgentRun, SkillsPromise, SourcesPromise, FiniteSetTheorems, WellFoundedInduction, TLAPS

USE DEF vars, disk, work, running, history

(***************************************************************************)
(* Types                                                                   *)
(***************************************************************************)

ResponseType == [run : Runs \cup {"none"}, n : Nat, pending : BOOLEAN]
MetaType     == [status : Statuses, last : ResponseType]
SessionType  == [state : {"absent", "partial", "whole", "deleted"}, at : Nat, meta : MetaType]
LoggerType   == [session : Runs \cup {"none"}, meta : MetaType]
OptionType   == [provider : {"responses", "chain", "cli"}, resume : BOOLEAN,
                 require : BOOLEAN, edit : BOOLEAN, apply : {"no", "git", "fallback"}]
LoopType     == [i : 0..MaxIter, calls : Calls, text : BOOLEAN, tool : Calls, count : Nat,
                 idle : Nat, n : Nat]
ResultType   == [text : Texts \cup {NoText}, err : Errors]
PCs == {"idle", "invoke", "turn", "follow", "resolve", "final",
        "cli", "handle", "close", "exited", "killed"}

DiskType ==
  /\ session \in [Runs -> SessionType] /\ index \subseteq Runs
  /\ logger \in [Runs -> LoggerType]
  /\ newest \in [Runs -> ResponseType] /\ shared \subseteq Runs

RunType ==
  /\ git \in BOOLEAN /\ tree \subseteq Runs \cup {"user"}
  /\ pc \in [Runs -> PCs] /\ opt \in [Runs -> OptionType]
  /\ loop \in [Runs -> LoopType] /\ result \in [Runs -> ResultType]
  /\ over \cup applied \cup hit \cup changed \cup vouched \subseteq Runs
  /\ late \in [Runs -> Nat]

LoopInv ==
  \A r \in Runs :
    /\ pc[r] \in {"idle", "invoke"} => loop[r] = Start
    /\ pc[r] = "turn" => loop[r].i < MaxIter
    /\ pc[r] = "follow" => loop[r].i < MaxIter
    /\ pc[r] = "resolve" => loop[r].calls # NoCalls

\* The sessions made so far are numbered without gaps.
Made == {s \in Runs : session[s].at # 0}
MadeInv == \A s \in Runs : session[s].at <= Cardinality(Made)

TInv == DiskType /\ RunType /\ LoopInv /\ MadeInv

(***************************************************************************)
(* Sessions.  A run's Logger holds a copy of the meta file and rewrites it *)
(* whole; the copy is good as long as no other live run writes there.      *)
(***************************************************************************)

\* A run that has not begun has left no trace.
IdleInv ==
  \A r \in Runs : pc[r] = "idle" =>
    /\ session[r] = NoSession /\ logger[r] = NoLogger /\ newest[r] = NoResponse
    /\ Users(r) = {}

LoggerInv == \A r \in Runs : logger[r].session = "none" => logger[r] = NoLogger

OneWriterInv ==
  \A q, r \in Runs :
    /\ Live(q) /\ Live(r) /\ logger[q].session = logger[r].session
    /\ logger[r].session \in Runs \ shared
    => q = r

CopyInv ==
  \A r \in Runs : Live(r) /\ logger[r].session \in Runs \ shared =>
    logger[r].meta.last = session[logger[r].session].meta.last

LastInv == \A s \in Runs \ shared : session[s].meta.last = newest[s]

SessionsInv == IdleInv /\ LoggerInv /\ OneWriterInv /\ CopyInv /\ LastInv /\ StatusIsOutcome

(***************************************************************************)
(* Edits and the budget.                                                   *)
(***************************************************************************)

\* What counts as the run's edits is a change of its own, or one of others.
EditsInv == applied \subseteq changed \cup vouched

BackedInv == EditsInv /\ ReportsAreBacked

\* A loop goes on after a request without budget only to be refused the next.
SpendInv ==
  \A r \in Runs :
    /\ pc[r] \in {"idle", "invoke"} => r \notin over
    /\ pc[r] \in {"idle", "invoke", "turn", "follow", "resolve", "cli"} => late[r] = 0
    /\ pc[r] = "final" /\ r \notin over => late[r] = 0
    /\ late[r] <= 1

IInv == TInv /\ SessionsInv /\ BackedInv /\ SpendInv

(***************************************************************************)
(* Types: what the helpers do                                              *)
(***************************************************************************)

ConstantsTyped ==
  /\ IsFiniteSet(Runs) /\ "none" \notin Runs /\ "user" \notin Runs
  /\ MaxIter \in Nat /\ MaxIter > 0 /\ Deadline \in Nat
  /\ NoCalls \in Calls /\ NoText \in Texts \cup {NoText}

LEMMA Constants == ConstantsTyped
<1>1. IsFiniteSet(Runs) /\ {"none", "user"} \cap Runs = {} /\ MaxIter \in Nat \ {0}
      /\ Deadline \in Nat
  BY AgentRunAssumption
<1>2. "none" \notin Runs /\ "user" \notin Runs /\ MaxIter \in Nat /\ MaxIter > 0
  BY <1>1
<1> QED BY <1>1, <1>2 DEF ConstantsTyped, Calls

LEMMA Beginnings ==
  /\ NoResponse \in ResponseType /\ NewMeta \in MetaType
  /\ NoSession \in SessionType /\ NoLogger \in LoggerType
  /\ Start \in LoopType /\ NoResult \in ResultType
<1>1. NoResponse \in ResponseType
  BY DEF NoResponse, ResponseType
<1>2. NewMeta \in MetaType
  BY <1>1 DEF NewMeta, MetaType, Statuses
<1>3. NoSession \in SessionType /\ NoLogger \in LoggerType
  BY <1>2 DEF NoSession, NoLogger, SessionType, LoggerType
<1>4. Start \in LoopType
  <2>1. 0 \in 0..MaxIter
    BY Constants DEF ConstantsTyped
  <2> QED BY <2>1 DEF Start, LoopType, Calls, NoCalls
<1>5. NoResult \in ResultType
  BY DEF NoResult, ResultType, Errors
<1> QED BY <1>1, <1>2, <1>3, <1>4, <1>5

LEMMA OptionsTyped ==
  ASSUME NEW r \in Runs, NEW o \in Options[r]
  PROVE  o \in OptionType /\ [o EXCEPT !.require = @ /\ (o.provider = "cli" => git)] \in OptionType
<1>1. o \in OptionType
  BY AgentRunAssumption DEF OptionType
<1> QED BY <1>1 DEF OptionType

LEMMA AcceptedTyped ==
  ASSUME RunType, NEW r \in Runs, Accepted(r)
  PROVE  opt' \in [Runs -> OptionType]
<1>1. PICK o \in Options[r] :
        opt' = [opt EXCEPT ![r] = [o EXCEPT !.require = @ /\ (o.provider = "cli" => git)]]
  BY DEF Accepted
<1>2. [o EXCEPT !.require = @ /\ (o.provider = "cli" => git)] \in OptionType
  BY OptionsTyped
<1>3. opt \in [Runs -> OptionType]
  BY DEF RunType
<1> QED BY <1>1, <1>2, <1>3

\* What Record does: the last response of the run's session, in the logger's
\* copy and in the file.
LEMMA RecordDoes ==
  ASSUME DiskType, LoggerInv, NEW r \in Runs, NEW response \in ResponseType, Record(r, response)
  PROVE  /\ session' \in [Runs -> SessionType] /\ logger' \in [Runs -> LoggerType]
         /\ newest' \in [Runs -> ResponseType]
         /\ \A s \in Runs : session'[s].at = session[s].at /\ session'[s].state = session[s].state
         /\ \A q \in Runs : logger'[q].session = logger[q].session
         /\ \A q \in Runs : logger'[q] # logger[q] => q = r /\ logger[q].session \in Runs
         /\ \A s \in Runs \ {logger[r].session} : session'[s] = session[s] /\ newest'[s] = newest[s]
         /\ logger[r].session \in Runs =>
              LET s == logger[r].session IN
              /\ session'[s].meta = logger'[r].meta /\ newest'[s] = response
              /\ logger'[r].meta = [logger[r].meta EXCEPT !.last = response]
         /\ logger[r].session = "none" => logger'[r] = logger[r]
<1>t. /\ session \in [Runs -> SessionType] /\ logger \in [Runs -> LoggerType]
      /\ newest \in [Runs -> ResponseType]
  BY DEF DiskType
<1>n. "none" \notin Runs /\ NoLogger.session = "none"
  BY Constants DEF ConstantsTyped, NoLogger
<1>1. CASE logger[r] = NoLogger
  <2>1. UNCHANGED <<logger, session, newest>>
    BY <1>1 DEF Record
  <2> QED BY <2>1, <1>1, <1>t, <1>n
<1>2. CASE logger[r] # NoLogger
  <2> DEFINE s == logger[r].session
             m == [logger[r].meta EXCEPT !.last = response]
  <2>1. s \in Runs /\ logger[r].meta \in MetaType
    BY <1>2, <1>t DEF LoggerInv, LoggerType
  <2>2. m \in MetaType /\ m.last = response /\ m.status = logger[r].meta.status
    BY <2>1 DEF MetaType
  <2>3. /\ logger' = [logger EXCEPT ![r] = [session |-> s, meta |-> m]]
        /\ session' = [session EXCEPT ![s].meta = m]
        /\ newest' = [newest EXCEPT ![s] = response]
    BY <1>2 DEF Record, WriteMeta
  <2> HIDE DEF m
  <2>4. [session |-> s, meta |-> m] \in LoggerType
    BY <2>1, <2>2 DEF LoggerType
  <2>5. session' \in [Runs -> SessionType]
    BY <1>t, <2>1, <2>2, <2>3 DEF SessionType
  <2>6. \A t \in Runs : session'[t].at = session[t].at /\ session'[t].state = session[t].state
    BY <1>t, <2>1, <2>3 DEF SessionType
  <2>7. session'[s].meta = m /\ newest'[s] = response /\ logger'[r].meta = m /\ logger'[r].session = s
    BY <1>t, <2>1, <2>3 DEF SessionType
  <2>8. \A q \in Runs : q # r => logger'[q] = logger[q]
    BY <1>t, <2>3
  <2>9. \A t \in Runs \ {s} : session'[t] = session[t] /\ newest'[t] = newest[t]
    BY <1>t, <2>3
  <2>10. logger' \in [Runs -> LoggerType] /\ newest' \in [Runs -> ResponseType]
    BY <1>t, <2>1, <2>3, <2>4
  <2> QED BY <2>1, <2>5, <2>6, <2>7, <2>8, <2>9, <2>10, <1>n DEF m
<1> QED BY <1>1, <1>2

LEMMA LessIsWellFounded ==
  IsWellFoundedOn({ss \in Nat \X Nat : ss[1] < ss[2]}, Nat)
BY ONLY NatLessThanWellFounded, Zenon DEF OpToRel

LEMMA Largest ==
  ASSUME NEW n \in Nat, NEW S \in SUBSET (0..n), S # {}
  PROVE  \E x \in S : \A y \in S : y <= x
<1> DEFINE less == {ss \in Nat \X Nat : ss[1] < ss[2]}
           below == {n - x : x \in S}
<1>1. \A x \in S : x \in Nat /\ n - x \in Nat
  OBVIOUS
<1>2. below \in SUBSET Nat /\ below # {}
  BY <1>1
<1>3. PICK b \in below : \A y \in below : <<y, b>> \notin less
  <2> HIDE DEF less, below
  <2> QED BY <1>2, LessIsWellFounded, WFMin DEF less
<1>4. PICK x \in S : b = n - x
  BY <1>3
<1>5. \A y \in S : n - y \in below
  OBVIOUS
<1>6. \A y \in S : ~ (n - y < n - x)
  BY <1>1, <1>3, <1>4, <1>5
<1> QED BY <1>1, <1>6

LEMMA MadeIsFinite ==
  /\ IsFiniteSet(Made) /\ Cardinality(Made) \in Nat
  /\ IsFiniteSet(Runs) /\ Cardinality(Runs) \in Nat /\ Cardinality(Made) <= Cardinality(Runs)
<1>1. IsFiniteSet(Runs) /\ Made \in SUBSET Runs
  BY Constants DEF ConstantsTyped, Made
<1> QED BY <1>1, FS_Subset, FS_CardinalityType

LEMMA NowTyped ==
  ASSUME DiskType, MadeInv, Runs # {}
  PROVE  Now \in Nat /\ Now <= Cardinality(Made)
<1> DEFINE made == {session[s].at : s \in Runs}
<1>1. Cardinality(Made) \in Nat
  BY MadeIsFinite
<1>2. \A s \in Runs : session[s].at \in Nat /\ session[s].at <= Cardinality(Made)
  BY DEF DiskType, SessionType, MadeInv
<1>3. made \in SUBSET (0..Cardinality(Made)) /\ made # {}
  BY <1>1, <1>2
<1>4. \E x \in made : \A y \in made : y <= x
  <2> HIDE DEF made
  <2> QED BY <1>1, <1>3, Largest
<1>5. Now \in made
  BY <1>4 DEF Now
<1> QED BY <1>1, <1>3, <1>5

\* A session that is made is the newest of all.
LEMMA MadeGrows ==
  ASSUME DiskType, MadeInv, NEW r \in Runs, session[r].at = 0, NEW m \in SessionType,
         m.at = Now + 1, session' = [session EXCEPT ![r] = m]
  PROVE  MadeInv'
<1>1. session \in [Runs -> SessionType]
  BY DEF DiskType
<1>2. Now \in Nat /\ Now <= Cardinality(Made) /\ m.at # 0
  BY NowTyped
<1>3. Made' = Made \cup {r} /\ r \notin Made
  BY <1>1, <1>2 DEF Made
<1>4. Cardinality(Made') = Cardinality(Made) + 1 /\ Cardinality(Made) \in Nat
  BY <1>3, MadeIsFinite, FS_AddElement
<1>5. \A s \in Runs : session'[s].at = (IF s = r THEN Now + 1 ELSE session[s].at)
  BY <1>1
<1>6. \A s \in Runs : session[s].at \in Nat /\ session[s].at <= Cardinality(Made)
  BY <1>1 DEF SessionType, MadeInv
<1>7. SUFFICES ASSUME NEW s \in Runs
               PROVE  session'[s].at <= Cardinality(Made)'
  BY DEF MadeInv
<1>8. Cardinality(Made)' = Cardinality(Made')
  OBVIOUS
<1> QED BY <1>2, <1>4, <1>5, <1>6, <1>8

LEMMA MadeKept ==
  ASSUME MadeInv, \A s \in Runs : session'[s].at = session[s].at
  PROVE  MadeInv'
<1>1. Made' = Made
  BY DEF Made
<1> QED BY <1>1 DEF MadeInv

(***************************************************************************)
(* Types: what the steps do                                                *)
(***************************************************************************)

\* How a step of r may move: to a place that asks nothing of the loop, or with it.
LEMMA LoopInvKept ==
  ASSUME RunType, LoopInv, NEW r \in Runs, NEW where \in PCs, Go(r, where),
         \A q \in Runs \ {r} : loop'[q] = loop[q],
         where \in {"idle", "invoke"} => loop'[r] = Start,
         where \in {"turn", "follow"} => loop'[r].i < MaxIter,
         where = "resolve" => loop'[r].calls # NoCalls
  PROVE  LoopInv' /\ pc' \in [Runs -> PCs]
<1>1. pc \in [Runs -> PCs] /\ pc' = [pc EXCEPT ![r] = where]
  BY DEF RunType, Go
<1>2. pc'[r] = where /\ \A q \in Runs \ {r} : pc'[q] = pc[q]
  BY <1>1
<1>3. SUFFICES ASSUME NEW q \in Runs
               PROVE  /\ pc'[q] \in {"idle", "invoke"} => loop'[q] = Start
                      /\ pc'[q] = "turn" => loop'[q].i < MaxIter
                      /\ pc'[q] = "follow" => loop'[q].i < MaxIter
                      /\ pc'[q] = "resolve" => loop'[q].calls # NoCalls
  BY <1>1 DEF LoopInv
<1>4. CASE q = r
  BY <1>2, <1>4
<1>5. CASE q # r
  BY <1>2, <1>5 DEF LoopInv
<1> QED BY <1>4, <1>5

LEMMA ReturnTyped ==
  ASSUME RunType, NEW r \in Runs, NEW text \in Texts \cup {NoText}, NEW err \in Errors,
         Return(r, text, err)
  PROVE  /\ result' \in [Runs -> ResultType] /\ Go(r, "handle") /\ "handle" \in PCs
         /\ result'[r].text = text /\ result'[r].err = err
<1>1. [text |-> text, err |-> err] \in ResultType
  BY DEF ResultType
<1>2. result \in [Runs -> ResultType]
  BY DEF RunType
<1> QED BY <1>1, <1>2 DEF Return, PCs

\* The disk is left alone.
LEMMA DiskKept ==
  ASSUME DiskType, MadeInv, UNCHANGED <<disk, logger, newest, shared>>
  PROVE  DiskType' /\ MadeInv'
<1>1. DiskType'
  BY DEF DiskType
<1> QED BY <1>1, MadeKept

LEMMA SendTyped ==
  ASSUME RunType, NEW r \in Runs, Send(r)
  PROVE  /\ late' \in [Runs -> Nat]
         /\ \A q \in Runs \ {r} : late'[q] = late[q]
         /\ late'[r] = late[r] + (IF r \in over THEN 1 ELSE 0)
<1>1. late \in [Runs -> Nat]
  BY DEF RunType
<1>2. late[r] + (IF r \in over THEN 1 ELSE 0) \in Nat
  BY <1>1
<1> QED BY <1>1, <1>2 DEF Send

LEMMA BeginTyped ==
  ASSUME TInv, IdleInv, NEW r \in Runs, Begin(r)
  PROVE  TInv'
<1> USE DEF TInv
<1>t. /\ session \in [Runs -> SessionType] /\ logger \in [Runs -> LoggerType]
      /\ pc \in [Runs -> PCs] /\ result \in [Runs -> ResultType] /\ index \subseteq Runs
      /\ shared \subseteq Runs
  BY DEF DiskType, RunType
<1>1. RunType' /\ LoopInv'
  <2>1. opt' \in [Runs -> OptionType]
    BY AcceptedTyped DEF Begin
  <2>2. \E where \in {"exited", "invoke"} : Go(r, where)
    BY DEF Begin
  <2>3. LoopInv' /\ pc' \in [Runs -> PCs]
    BY <2>2, LoopInvKept DEF Begin, LoopInv, PCs
  <2>4. result' \in [Runs -> ResultType]
    BY <1>t DEF Begin, ResultType, Errors
  <2> QED BY <2>1, <2>3, <2>4 DEF Begin, RunType
<1>2. CASE UNCHANGED <<session, index, logger, shared>>
  BY <1>1, <1>2, DiskKept DEF Begin
<1>3. CASE NewSession(r)
  <2> DEFINE m == [state |-> "whole", at |-> Now + 1, meta |-> NewMeta]
  <2>1. m \in SessionType /\ m.at = Now + 1
    BY Beginnings, NowTyped DEF SessionType
  <2>2. session[r].at = 0
    BY DEF Begin, IdleInv, NoSession
  <2>3. session' = [session EXCEPT ![r] = m]
    BY <1>3 DEF NewSession
  <2> HIDE DEF m
  <2>4. MadeInv'
    BY <2>1, <2>2, <2>3, MadeGrows
  <2>5. logger' \in [Runs -> LoggerType]
    <3>1. [session |-> r, meta |-> NewMeta] \in LoggerType
      BY Beginnings DEF LoggerType
    <3> QED BY <1>3, <1>t, <3>1 DEF NewSession
  <2>6. session' \in [Runs -> SessionType] /\ index' \subseteq Runs /\ UNCHANGED <<shared, newest>>
    BY <1>3, <1>t, <2>1, <2>3 DEF NewSession, Begin
  <2>7. DiskType'
    BY <2>5, <2>6 DEF DiskType
  <2> QED BY <1>1, <2>4, <2>7
<1>4. CASE OpenForResume(r) /\ UNCHANGED index
  <2>1. PICK s \in Latest :
          IF s \in Readable
          THEN /\ WriteMeta(r, s, [session[s].meta EXCEPT !.status = "running"])
               /\ shared' = shared \cup {t \in {s} : \E q \in Runs \ {r} :
                                            Live(q) /\ logger[q].session = s}
          ELSE UNCHANGED <<logger, session, shared>>
    BY <1>4 DEF OpenForResume
  <2>2. s \in Runs
    BY <1>t DEF Latest, Listed, Readable
  <2>3. CASE s \notin Readable
    BY <1>1, <1>4, <2>1, <2>3, DiskKept DEF Begin
  <2>4. CASE s \in Readable
    <3> DEFINE m == [session[s].meta EXCEPT !.status = "running"]
    <3>1. m \in MetaType
      BY <1>t, <2>2 DEF SessionType, MetaType, Statuses
    <3>2. /\ logger' = [logger EXCEPT ![r] = [session |-> s, meta |-> m]]
          /\ session' = [session EXCEPT ![s].meta = m]
      BY <2>1, <2>4 DEF WriteMeta
    <3> HIDE DEF m
    <3>3. [session |-> s, meta |-> m] \in LoggerType
      BY <2>2, <3>1 DEF LoggerType
    <3>4. logger' \in [Runs -> LoggerType]
      BY <1>t, <3>2, <3>3
    <3>5. session' \in [Runs -> SessionType] /\ \A t \in Runs : session'[t].at = session[t].at
      BY <1>t, <3>1, <3>2 DEF SessionType
    <3>6. shared' \subseteq Runs
      BY <1>t, <2>1, <2>2, <2>4
    <3>7. DiskType'
      BY <1>4, <3>4, <3>5, <3>6 DEF DiskType, Begin
    <3> QED BY <1>1, <3>5, <3>7, MadeKept
  <2> QED BY <2>3, <2>4
<1> QED BY <1>1, <1>2, <1>3, <1>4 DEF Begin, OpenSession

LEMMA KilledInNewTyped ==
  ASSUME TInv, IdleInv, NEW r \in Runs, KilledInNew(r)
  PROVE  TInv'
<1> USE DEF TInv
<1>1. RunType' /\ LoopInv'
  <2>1. LoopInv' /\ pc' \in [Runs -> PCs]
    BY LoopInvKept DEF KilledInNew, PCs
  <2> QED BY <2>1 DEF KilledInNew, RunType
<1>2. session \in [Runs -> SessionType] /\ session[r].at = 0
  BY DEF DiskType, KilledInNew, IdleInv, NoSession
<1>3. CASE session' = [session EXCEPT ![r].state = "partial"]
  <2>1. session' \in [Runs -> SessionType] /\ \A t \in Runs : session'[t].at = session[t].at
    BY <1>2, <1>3 DEF SessionType
  <2>2. DiskType'
    BY <2>1 DEF DiskType, KilledInNew
  <2> QED BY <1>1, <2>1, <2>2, MadeKept
<1>4. CASE session' = [session EXCEPT ![r] = [state |-> "whole", at |-> Now + 1, meta |-> NewMeta]]
  <2> DEFINE m == [state |-> "whole", at |-> Now + 1, meta |-> NewMeta]
  <2>1. m \in SessionType /\ m.at = Now + 1
    BY Beginnings, NowTyped DEF SessionType
  <2>2. session' = [session EXCEPT ![r] = m]
    BY <1>4
  <2> HIDE DEF m
  <2>3. MadeInv'
    BY <1>2, <2>1, <2>2, MadeGrows
  <2>4. DiskType'
    <3>1. session' \in [Runs -> SessionType]
      BY <1>2, <2>1, <2>2
    <3> QED BY <3>1 DEF DiskType, KilledInNew
  <2> QED BY <1>1, <2>3, <2>4
<1> QED BY <1>3, <1>4 DEF KilledInNew

LEMMA InitialTyped ==
  ASSUME TInv, LoggerInv, NEW r \in Runs, Initial(r)
  PROVE  TInv'
<1> USE DEF TInv
<1>1. late' \in [Runs -> Nat]
  BY SendTyped DEF Initial
<1>2. CASE Fails(r)
  <2>1. result' \in [Runs -> ResultType] /\ Go(r, "handle") /\ "handle" \in PCs
    BY <1>2, ReturnTyped DEF Fails, Errors
  <2>2. LoopInv' /\ pc' \in [Runs -> PCs]
    BY <1>2, <2>1, LoopInvKept DEF Fails
  <2>3. RunType'
    BY <1>1, <1>2, <2>1, <2>2 DEF RunType, Initial, Fails
  <2>4. UNCHANGED <<disk, logger, newest, shared>>
    BY <1>2 DEF Initial, Fails
  <2> QED BY <2>2, <2>3, <2>4, DiskKept
<1>3. CASE /\ \E calls \in Calls, text \in BOOLEAN : Received(r, calls, text)
           /\ Spend(r) /\ Go(r, "turn") /\ UNCHANGED result
  <2>1. PICK calls \in Calls, text \in BOOLEAN : Received(r, calls, text)
    BY <1>3
  <2>2. loop \in [Runs -> LoopType] /\ loop[r].n + 1 \in Nat
    BY DEF RunType, LoopType
  <2>3. loop' \in [Runs -> LoopType] /\ \A q \in Runs \ {r} : loop'[q] = loop[q]
    BY <2>1, <2>2 DEF Received, LoopType
  <2>4. loop'[r].i = loop[r].i
    BY <2>1, <2>2 DEF Received, LoopType
  <2>5. loop[r].i < MaxIter
    BY Constants DEF ConstantsTyped, Initial, LoopInv, Start
  <2>6. LoopInv' /\ pc' \in [Runs -> PCs]
    BY <1>3, <2>3, <2>4, <2>5, LoopInvKept DEF PCs
  <2>7. RunType'
    BY <1>1, <1>3, <2>3, <2>6 DEF RunType, Initial, Spend
  <2>8. [run |-> r, n |-> loop[r].n + 1, pending |-> calls # NoCalls] \in ResponseType
    BY <2>2 DEF ResponseType
  <2>9. DiskType' /\ MadeInv'
    <3>1. Record(r, [run |-> r, n |-> loop[r].n + 1, pending |-> calls # NoCalls])
      BY <2>1 DEF Received
    <3>2. /\ session' \in [Runs -> SessionType] /\ logger' \in [Runs -> LoggerType]
          /\ newest' \in [Runs -> ResponseType]
          /\ \A s \in Runs : session'[s].at = session[s].at
      BY <2>8, <3>1, RecordDoes
    <3> QED BY <3>2, MadeKept DEF DiskType, Initial
  <2> QED BY <2>6, <2>7, <2>9
<1> QED BY <1>2, <1>3 DEF Initial

\* The end of the loop: a text is returned, or the rest of the calls resolved.
LEMMA LoopEndsTyped ==
  ASSUME RunType, LoopInv, NEW r \in Runs, NEW l \in LoopType, LoopEnds(r, l),
         \A q \in Runs \ {r} : loop'[q] = loop[q], loop'[r].calls = l.calls
  PROVE  /\ result' \in [Runs -> ResultType] /\ LoopInv' /\ pc' \in [Runs -> PCs]
         /\ \E where \in {"handle", "final", "resolve"} : Go(r, where)
<1>1. CASE l.text
  <2>1. PICK text \in Texts : Return(r, text, "none")
    BY <1>1 DEF LoopEnds
  <2>2. result' \in [Runs -> ResultType] /\ Go(r, "handle") /\ "handle" \in PCs
    BY <2>1, ReturnTyped DEF Errors
  <2> QED BY <2>2, LoopInvKept
<1>2. CASE ~ l.text
  <2>1. CASE l.calls = NoCalls
    <3>1. Go(r, "final") /\ UNCHANGED result
      BY <1>2, <2>1 DEF LoopEnds
    <3> QED BY <3>1, LoopInvKept DEF PCs, RunType
  <2>2. CASE l.calls # NoCalls
    <3>1. Go(r, "resolve") /\ UNCHANGED result
      BY <1>2, <2>2 DEF LoopEnds
    <3> QED BY <3>1, <2>2, LoopInvKept DEF PCs, RunType
  <2> QED BY <2>1, <2>2
<1> QED BY <1>1, <1>2

LEMMA TurnTyped ==
  ASSUME TInv, NEW r \in Runs, Turn(r)
  PROVE  TInv'
<1> USE DEF TInv
<1> DEFINE l == loop[r]
<1>t. /\ loop \in [Runs -> LoopType] /\ l \in LoopType /\ tree \subseteq Runs \cup {"user"}
      /\ applied \subseteq Runs /\ changed \subseteq Runs /\ hit \subseteq Runs
  BY DEF RunType
<1>1. DiskType' /\ MadeInv'
  BY DiskKept DEF Turn
<1>2. SUFFICES /\ result' \in [Runs -> ResultType] /\ LoopInv' /\ pc' \in [Runs -> PCs]
               /\ loop' \in [Runs -> LoopType]
               /\ tree' \subseteq Runs \cup {"user"}
               /\ applied' \subseteq Runs /\ changed' \subseteq Runs /\ hit' \subseteq Runs
  BY <1>1 DEF RunType, Turn
<1>3. CASE l.calls = NoCalls
  <2>1. LoopEnds(r, l) /\ UNCHANGED <<loop, applied, hit, tree, changed>>
    BY <1>3 DEF Turn
  <2> QED BY <1>t, <2>1, LoopEndsTyped
<1>4. CASE l.calls # NoCalls
  <2>1. PICK same \in BOOLEAN :
          LET count == IF same THEN l.count + 1 ELSE 1
              idle  == IF Deadline > 0 /\ l.calls # "Edit" THEN l.idle + 1 ELSE l.idle
              stuck == count >= RepeatLimit(l.calls)
              tooLate == ~stuck /\ Deadline > 0 /\ l.calls # "Edit" /\ idle >= Deadline
          IN /\ loop' = [loop EXCEPT ![r].tool = l.calls, ![r].count = count,
                                     ![r].idle = IF stuck THEN @ ELSE idle]
             /\ hit' = IF tooLate THEN hit \cup {r} ELSE hit
             /\ IF stuck \/ tooLate
                THEN LoopEnds(r, l) /\ UNCHANGED <<applied, tree, changed>>
                ELSE Execute(r, l.calls) /\ Go(r, "follow") /\ UNCHANGED result
    BY <1>4 DEF Turn
  <2>2. PICK count \in Nat, idle \in Nat :
          loop' = [loop EXCEPT ![r].tool = l.calls, ![r].count = count, ![r].idle = idle]
    <3>1. l.count \in Nat /\ l.idle \in Nat /\ l.count + 1 \in Nat /\ l.idle + 1 \in Nat
      BY <1>t DEF LoopType
    <3> QED BY <2>1, <3>1
  <2>3. loop' \in [Runs -> LoopType] /\ \A q \in Runs \ {r} : loop'[q] = loop[q]
    BY <1>t, <2>2 DEF LoopType
  <2>4. loop'[r].calls = l.calls /\ loop'[r].i = l.i
    BY <1>t, <2>2 DEF LoopType
  <2>5. hit' \subseteq Runs
    BY <1>t, <2>1
  <2>6. CASE LoopEnds(r, l) /\ UNCHANGED <<applied, tree, changed>>
    BY <1>t, <2>3, <2>4, <2>5, <2>6, LoopEndsTyped
  <2>7. CASE Execute(r, l.calls) /\ Go(r, "follow") /\ UNCHANGED result
    <3>1. tree' \subseteq Runs \cup {"user"} /\ applied' \subseteq Runs /\ changed' \subseteq Runs
      BY <1>t, <2>7 DEF Execute, ToolEdits
    <3>2. l.i < MaxIter
      BY DEF LoopInv, Turn
    <3>3. LoopInv' /\ pc' \in [Runs -> PCs]
      BY <2>3, <2>4, <2>7, <3>2, LoopInvKept DEF PCs
    <3>4. result' \in [Runs -> ResultType]
      BY <2>7 DEF RunType
    <3> QED BY <2>3, <2>5, <3>1, <3>3, <3>4
  <2> QED BY <2>1, <2>6, <2>7
<1> QED BY <1>3, <1>4

LEMMA FollowTyped ==
  ASSUME TInv, LoggerInv, NEW r \in Runs, Follow(r)
  PROVE  TInv'
<1> USE DEF TInv
<1>t. loop \in [Runs -> LoopType] /\ loop[r] \in LoopType /\ loop[r].i < MaxIter /\ result \in [Runs -> ResultType]
  BY DEF RunType, LoopInv, Follow
<1>1. late' \in [Runs -> Nat]
  BY SendTyped DEF Follow
<1>2. CASE Fails(r)
  <2>1. result' \in [Runs -> ResultType] /\ Go(r, "handle") /\ "handle" \in PCs
    BY <1>2, ReturnTyped DEF Fails, Errors
  <2>2. LoopInv' /\ pc' \in [Runs -> PCs]
    BY <1>2, <2>1, LoopInvKept DEF Fails
  <2>3. RunType'
    BY <1>1, <1>2, <2>1, <2>2 DEF RunType, Follow, Fails
  <2>4. UNCHANGED <<disk, logger, newest, shared>>
    BY <1>2 DEF Follow, Fails
  <2> QED BY <2>2, <2>3, <2>4, DiskKept
<1>3. ASSUME NEW calls \in Calls, NEW text \in BOOLEAN, NEW capped \in BOOLEAN, Spend(r),
             LET l == [loop[r] EXCEPT !.i = @ + 1, !.calls = calls, !.text = text, !.n = @ + 1]
             IN /\ loop' = [loop EXCEPT ![r] = l]
                /\ Record(r, [run |-> r, n |-> l.n, pending |-> calls # NoCalls])
                /\ CASE r \in over' -> \E t \in IF text THEN Texts ELSE {NoText} : Return(r, t, "budget")
                     [] r \notin over' /\ capped -> Return(r, NoText, "error")
                     [] r \notin over' /\ ~capped /\ MoreIterations(l) ->
                          Go(r, "turn") /\ UNCHANGED result
                     [] OTHER -> LoopEnds(r, l)
      PROVE  TInv'
  <2> DEFINE l == [loop[r] EXCEPT !.i = @ + 1, !.calls = calls, !.text = text, !.n = @ + 1]
  <2>1. loop[r].i + 1 \in 0..MaxIter /\ loop[r].n + 1 \in Nat
    <3>1. loop[r].i \in 0..MaxIter /\ loop[r].n \in Nat /\ MaxIter \in Nat
      BY <1>t, Constants DEF ConstantsTyped, LoopType
    <3> QED BY <1>t, <3>1
  <2>2. l \in LoopType /\ l.calls = calls /\ l.i = loop[r].i + 1 /\ l.n = loop[r].n + 1
    BY <1>t, <2>1 DEF LoopType
  <2>3. /\ loop' = [loop EXCEPT ![r] = l]
        /\ Record(r, [run |-> r, n |-> l.n, pending |-> calls # NoCalls])
        /\ \/ \E t \in Texts \cup {NoText}, e \in Errors : Return(r, t, e)
           \/ MoreIterations(l) /\ Go(r, "turn") /\ UNCHANGED result
           \/ LoopEnds(r, l)
    BY <1>3 DEF Errors
  <2> HIDE DEF l
  <2>4. /\ loop' \in [Runs -> LoopType] /\ \A q \in Runs \ {r} : loop'[q] = loop[q]
        /\ loop'[r] = l
    BY <1>t, <2>2, <2>3
  <2>5. DiskType' /\ MadeInv'
    <3>1. [run |-> r, n |-> l.n, pending |-> calls # NoCalls] \in ResponseType
      BY <2>1, <2>2 DEF ResponseType
    <3>2. /\ session' \in [Runs -> SessionType] /\ logger' \in [Runs -> LoggerType]
          /\ newest' \in [Runs -> ResponseType]
          /\ \A s \in Runs : session'[s].at = session[s].at
      BY <2>3, <3>1, RecordDoes
    <3> QED BY <3>2, MadeKept DEF DiskType, Follow
  <2>6. result' \in [Runs -> ResultType] /\ LoopInv' /\ pc' \in [Runs -> PCs]
    <3>1. ASSUME NEW t \in Texts \cup {NoText}, NEW e \in Errors, Return(r, t, e)
          PROVE  result' \in [Runs -> ResultType] /\ LoopInv' /\ pc' \in [Runs -> PCs]
      BY <2>4, <3>1, ReturnTyped, LoopInvKept
    <3>2. CASE MoreIterations(l) /\ Go(r, "turn") /\ UNCHANGED result
      <4>1. loop'[r].i < MaxIter
        BY <2>4, <3>2 DEF MoreIterations
      <4> QED BY <1>t, <2>4, <3>2, <4>1, LoopInvKept DEF PCs
    <3>3. CASE LoopEnds(r, l)
      BY <2>2, <2>4, <3>3, LoopEndsTyped
    <3> QED BY <2>3, <3>1, <3>2, <3>3
  <2>7. RunType'
    BY <1>1, <1>3, <2>4, <2>6 DEF RunType, Follow, Spend
  <2> QED BY <2>5, <2>6, <2>7
<1> QED BY <1>2, <1>3 DEF Follow

\* A step that ends the loop, or tries once more.
LEMMA CallTyped ==
  ASSUME TInv, NEW r \in Runs,
         \/ \E t \in Texts \cup {NoText}, e \in Errors : Return(r, t, e)
         \/ (\E where \in {"final", "cli"} : Go(r, where)) /\ UNCHANGED result,
         UNCHANGED <<git, opt, loop, disk, logger, newest, shared>>,
         over' \cup applied' \cup hit' \cup changed' \cup vouched' \subseteq Runs,
         tree' \subseteq Runs \cup {"user"}, late' \in [Runs -> Nat]
  PROVE  TInv'
<1> USE DEF TInv
<1>1. DiskType' /\ MadeInv'
  BY DiskKept
<1>2. result' \in [Runs -> ResultType] /\ LoopInv' /\ pc' \in [Runs -> PCs]
  <2>1. CASE \E t \in Texts \cup {NoText}, e \in Errors : Return(r, t, e)
    BY <2>1, ReturnTyped, LoopInvKept
  <2>2. CASE (\E where \in {"final", "cli"} : Go(r, where)) /\ UNCHANGED result
    BY <2>2, LoopInvKept DEF PCs, RunType
  <2> QED BY <2>1, <2>2
<1>3. RunType'
  BY <1>2 DEF RunType
<1> QED BY <1>1, <1>2, <1>3

LEMMA CallsTyped ==
  ASSUME TInv, NEW r \in Runs,
         CannotCall(r) \/ Resolve(r) \/ RequestFinal(r) \/ ToolLoop(r) \/ StartCLI(r) \/ AgenticCLI(r)
  PROVE  TInv'
<1>t. /\ late \in [Runs -> Nat] /\ tree \subseteq Runs \cup {"user"}
      /\ over \subseteq Runs /\ applied \subseteq Runs /\ hit \subseteq Runs
      /\ changed \subseteq Runs /\ vouched \subseteq Runs
      /\ NoText \in Texts \cup {NoText}
  BY DEF TInv, RunType
<1>s. Send(r) => late' \in [Runs -> Nat]
  BY SendTyped DEF TInv
<1>1. CASE CannotCall(r)
  <2>1. \E t \in Texts \cup {NoText}, e \in Errors : Return(r, t, e)
    BY <1>1 DEF CannotCall, Errors
  <2> QED BY <1>1, <1>t, <2>1, CallTyped DEF CannotCall
<1>2. CASE Resolve(r)
  <2>1. \/ \E t \in Texts \cup {NoText}, e \in Errors : Return(r, t, e)
        \/ Go(r, "final") /\ UNCHANGED result
    BY <1>2 DEF Resolve, Errors
  <2> QED BY <1>2, <1>t, <1>s, <2>1, CallTyped DEF Resolve, Spend
<1>3. CASE RequestFinal(r)
  <2>1. \E t \in Texts \cup {NoText}, e \in Errors : Return(r, t, e)
    BY <1>3 DEF RequestFinal, Errors
  <2> QED BY <1>3, <1>t, <1>s, <2>1, CallTyped DEF RequestFinal, Spend
<1>4. CASE ToolLoop(r)
  <2>1. \E t \in Texts \cup {NoText}, e \in Errors : Return(r, t, e)
    BY <1>4 DEF ToolLoop, Errors
  <2>2. hit' \subseteq Runs
    BY <1>4, <1>t DEF ToolLoop
  <2>3. applied' \cup changed' \subseteq Runs /\ tree' \subseteq Runs \cup {"user"}
    BY <1>4, <1>t DEF ToolLoop, ToolEdits
  <2> QED BY <1>4, <1>t, <2>1, <2>2, <2>3, CallTyped DEF ToolLoop
<1>5. CASE StartCLI(r)
  BY <1>5, <1>t, CallTyped DEF StartCLI
<1>6. CASE AgenticCLI(r)
  <2>1. \E t \in Texts \cup {NoText}, e \in Errors : Return(r, t, e)
    BY <1>6 DEF AgenticCLI, Errors
  <2>2. applied' \cup changed' \cup vouched' \subseteq Runs /\ tree' \subseteq Runs \cup {"user"}
    BY <1>6, <1>t DEF AgenticCLI
  <2> QED BY <1>6, <1>t, <2>1, <2>2, CallTyped DEF AgenticCLI
<1> QED BY <1>1, <1>2, <1>3, <1>4, <1>5, <1>6

LEMMA EndsTyped ==
  ASSUME RunType, NEW r \in Runs, NEW ok \in BOOLEAN, Ends(r, ok)
  PROVE  result' \in [Runs -> ResultType]
<1>1. result \in [Runs -> ResultType]
  BY DEF RunType
<1>2. Refused(r, ok) \in Errors
  BY <1>1 DEF Refused, ResultType, Errors
<1> QED BY <1>1, <1>2 DEF Ends, ResultType

\* What Handle may do to the answer and the files: the diff is applied, or not.
LEMMA HandleDoes ==
  ASSUME NEW r \in Runs, Handle(r)
  PROVE  /\ \/ UNCHANGED <<result, vouched>> /\ (result[r].err = "error" \/ result[r].text = NoText)
            \/ /\ Ends(r, FALSE) \/ (Validated(r) /\ Ends(r, TRUE))
               /\ vouched' = IF tree # {} THEN vouched \cup {r} ELSE vouched
         /\ UNCHANGED work \/ Patches(r)
<1>1. CASE result[r].err = "error" \/ result[r].text = NoText
  BY <1>1 DEF Handle
<1>2. CASE ~ (result[r].err = "error" \/ result[r].text = NoText)
  <2>1. /\ vouched' = IF tree # {} THEN vouched \cup {r} ELSE vouched
        /\ \/ ApplyResponse(r) /\ Validated(r)
           \/ Ends(r, FALSE) /\ UNCHANGED work
    BY <1>2 DEF Handle
  <2>2. CASE ApplyResponse(r) /\ Validated(r)
    BY <2>1, <2>2 DEF ApplyResponse, ApplyDiff
  <2>3. CASE Ends(r, FALSE) /\ UNCHANGED work
    BY <2>1, <2>3
  <2> QED BY <2>1, <2>2, <2>3
<1> QED BY <1>1, <1>2

LEMMA DoneTyped ==
  ASSUME RunType, LoopInv, NEW r \in Runs, Done(r), NEW where \in {"close", "killed"}, Go(r, where)
  PROVE  /\ loop' \in [Runs -> LoopType] /\ late' \in [Runs -> Nat]
         /\ over' \subseteq Runs /\ hit' \subseteq Runs
         /\ LoopInv' /\ pc' \in [Runs -> PCs]
<1>1. /\ loop \in [Runs -> LoopType] /\ late \in [Runs -> Nat]
      /\ over \subseteq Runs /\ hit \subseteq Runs
  BY DEF RunType
<1>2. /\ loop' \in [Runs -> LoopType] /\ \A q \in Runs \ {r} : loop'[q] = loop[q]
      /\ late' \in [Runs -> Nat] /\ over' \subseteq Runs /\ hit' \subseteq Runs
  BY <1>1, Beginnings DEF Done
<1> QED BY <1>2, LoopInvKept DEF PCs

LEMMA HandleTyped ==
  ASSUME TInv, NEW r \in Runs, Handle(r)
  PROVE  TInv'
<1> USE DEF TInv
<1>1. DiskType' /\ MadeInv'
  BY DiskKept DEF Handle
<1>2. result' \in [Runs -> ResultType]
  BY HandleDoes, EndsTyped DEF RunType
<1>3. /\ loop' \in [Runs -> LoopType] /\ late' \in [Runs -> Nat]
      /\ over' \subseteq Runs /\ hit' \subseteq Runs
      /\ LoopInv' /\ pc' \in [Runs -> PCs]
  BY DoneTyped DEF Handle
<1>4. /\ tree' \subseteq Runs \cup {"user"} /\ changed' \cup vouched' \subseteq Runs
  BY HandleDoes DEF RunType, Patches
<1>5. RunType'
  BY <1>2, <1>3, <1>4 DEF RunType, Handle
<1> QED BY <1>1, <1>3, <1>5

LEMMA CloseTyped ==
  ASSUME TInv, LoggerInv, NEW r \in Runs, CloseSession(r)
  PROVE  TInv'
<1> USE DEF TInv
<1>t. session \in [Runs -> SessionType] /\ logger \in [Runs -> LoggerType]
      /\ result \in [Runs -> ResultType] /\ pc \in [Runs -> PCs]
  BY DEF DiskType, RunType
<1>1. session' \in [Runs -> SessionType] /\ \A t \in Runs : session'[t].at = session[t].at
  <2>1. CASE logger[r] = NoLogger
    BY <1>t, <2>1 DEF CloseSession
  <2>2. CASE logger[r] # NoLogger
    <3> DEFINE m == [logger[r].meta EXCEPT !.status = Status(r)]
               s == logger[r].session
    <3>1. s \in Runs /\ logger[r].meta \in MetaType
      BY <1>t, <2>2 DEF LoggerInv, LoggerType
    <3>2. m \in MetaType
      BY <3>1 DEF MetaType, Status, Statuses
    <3>3. session' = [session EXCEPT ![s].meta = m]
      BY <2>2 DEF CloseSession
    <3> HIDE DEF m
    <3> QED BY <1>t, <3>1, <3>2, <3>3 DEF SessionType
  <2> QED BY <2>1, <2>2
<1>2. DiskType' /\ MadeInv'
  BY <1>1, MadeKept DEF CloseSession, DiskType
<1>3. LoopInv' /\ pc' \in [Runs -> PCs]
  BY LoopInvKept DEF CloseSession, PCs
<1>4. result' \in [Runs -> ResultType]
  BY <1>t DEF CloseSession, ResultType
<1>5. RunType'
  BY <1>3, <1>4 DEF CloseSession, RunType, Gone
<1> QED BY <1>2, <1>3, <1>5

LEMMA KillTyped ==
  ASSUME TInv, NEW r \in Runs, Kill(r)
  PROVE  TInv'
<1> USE DEF TInv
<1>1. DiskType' /\ MadeInv'
  BY DiskKept DEF Kill
<1>2. result' \in [Runs -> ResultType]
  BY Beginnings DEF Kill, RunType
<1>3. /\ loop' \in [Runs -> LoopType] /\ late' \in [Runs -> Nat]
      /\ over' \subseteq Runs /\ hit' \subseteq Runs
      /\ LoopInv' /\ pc' \in [Runs -> PCs]
  BY DoneTyped DEF Kill
<1>4. RunType'
  BY <1>2, <1>3 DEF RunType, Kill, Gone
<1> QED BY <1>1, <1>3, <1>4

LEMMA DeleteTyped ==
  ASSUME TInv, NEW s \in Runs, Delete(s)
  PROVE  TInv'
<1> USE DEF TInv
<1>1. session' \in [Runs -> SessionType] /\ \A t \in Runs : session'[t].at = session[t].at
  BY DEF DiskType, Delete, SessionType
<1>2. DiskType' /\ MadeInv'
  BY <1>1, MadeKept DEF Delete, DiskType
<1>3. RunType' /\ LoopInv'
  BY DEF Delete, RunType, LoopInv
<1> QED BY <1>2, <1>3

LEMMA TypesBegin == Init => TInv /\ IdleInv /\ LoggerInv
<1> SUFFICES ASSUME Init PROVE TInv /\ IdleInv /\ LoggerInv
  OBVIOUS
<1>1. DiskType
  BY Beginnings DEF Init, DiskType
<1>2. opt \in [Runs -> OptionType]
  <2>1. \A r \in Runs : Options[r] # {} /\ \A o \in Options[r] : o \in OptionType
    BY AgentRunAssumption, OptionsTyped
  <2> QED BY <2>1 DEF Init
<1>3. git \in BOOLEAN /\ tree \subseteq Runs \cup {"user"}
  BY AgentRunAssumption DEF Init
<1>4. RunType
  BY <1>2, <1>3, Beginnings DEF Init, RunType, PCs
<1>5. LoopInv
  BY DEF Init, LoopInv
<1>6. MadeInv
  BY MadeIsFinite DEF Init, MadeInv, NoSession
<1>7. IdleInv
  BY Constants DEF ConstantsTyped, Init, IdleInv, Users, NoLogger
<1>8. LoggerInv
  BY DEF Init, LoggerInv
<1> QED BY <1>1, <1>4, <1>5, <1>6, <1>7, <1>8 DEF TInv

LEMMA TypesKept ==
  ASSUME TInv, IdleInv, LoggerInv, [Next]_vars
  PROVE  TInv'
<1>1. CASE UNCHANGED vars
  BY <1>1 DEF TInv, DiskType, RunType, LoopInv, MadeInv, Made
<1>2. ASSUME NEW r \in Runs, Step(r)
      PROVE  TInv'
  BY <1>2, BeginTyped, InitialTyped, TurnTyped, FollowTyped, CallsTyped, HandleTyped, CloseTyped
     DEF Step
<1> QED BY <1>1, <1>2, KilledInNewTyped, KillTyped, DeleteTyped DEF Next

LEMMA TypeParts == TInv => TypeOK
<1> SUFFICES ASSUME TInv PROVE TypeOK
  OBVIOUS
<1>1. \A s \in Runs : session[s].at \in 0..Cardinality(Runs)
  <2>1. \A s \in Runs : session[s].at \in Nat /\ session[s].at <= Cardinality(Made)
    BY DEF TInv, DiskType, SessionType, MadeInv
  <2> QED BY <2>1, MadeIsFinite
<1>2. \A s \in Runs : /\ session[s].state \in {"absent", "partial", "whole", "deleted"}
                      /\ session[s].meta.status \in Statuses
  BY DEF TInv, DiskType, SessionType, MetaType
<1>3. \A r \in Runs : /\ logger[r].session \in Runs \cup {"none"}
                      /\ loop[r].i \in 0..MaxIter /\ loop[r].calls \in Calls
                      /\ pc[r] = "turn" => loop[r].i < MaxIter
                      /\ pc[r] = "resolve" => loop[r].calls # NoCalls
                      /\ result[r] \in [text : Texts \cup {NoText}, err : Errors]
  BY DEF TInv, DiskType, RunType, LoopInv, LoggerType, LoopType, ResultType
<1> QED BY <1>1, <1>2, <1>3 DEF TInv, DiskType, RunType, TypeOK, PCs

(***************************************************************************)
(* Sessions: what the steps do                                             *)
(***************************************************************************)

\* The outcome of a run, as its session is to name it.
Outcome(r) == CASE result[r].err = "none"   -> "completed"
                [] result[r].err = "budget" -> "budget_exceeded"
                [] OTHER                    -> "error"

\* What a session says is true of the runs that use it.
SessionOK(s) ==
  session[s].state = "whole" =>
    /\ \A q \in Runs : Users(s) = {q} /\ pc[q] = "exited" => session[s].meta.status = Outcome(q)
    /\ session[s].meta.status = "running" =>
         pc[s] = "killed" \/ \E q \in Users(s) : Live(q) \/ pc[q] = "killed"

LEMMA StatusParts == StatusIsOutcome <=> \A s \in Runs : SessionOK(s)
BY DEF StatusIsOutcome, SessionOK, Outcome, Users

LEMMA StatusPartsNext == StatusIsOutcome' <=> \A s \in Runs : SessionOK(s)'
BY DEF StatusIsOutcome, SessionOK, Outcome, Users

SessionsNext(r) == \* how r moves while it leaves the sessions alone
  /\ UNCHANGED <<session, logger, newest, shared>>
  /\ Live(r) /\ pc'[r] \notin {"idle", "exited"}
  /\ \A q \in Runs \ {r} : pc'[q] = pc[q] /\ result'[q] = result[q]

LEMMA SessionsKept ==
  ASSUME SessionsInv, NEW r \in Runs, SessionsNext(r)
  PROVE  SessionsInv'
<1> USE DEF SessionsInv, SessionsNext
<1>1. /\ \A q \in Runs : Live(q)' => Live(q)
      /\ \A q \in Runs : pc'[q] = "idle" => pc[q] = "idle"
      /\ \A q \in Runs : pc'[q] = "exited" => pc[q] = "exited" /\ result'[q] = result[q]
      /\ \A q \in Runs : Live(q) \/ pc[q] = "killed" => Live(q)' \/ pc'[q] = "killed"
      /\ \A q \in Runs : pc[q] = "killed" => pc'[q] = "killed"
  BY DEF Live
<1>2. \A s : Users(s)' = Users(s)
  BY DEF Users
<1>3. IdleInv' /\ LoggerInv'
  BY <1>1, <1>2 DEF IdleInv, LoggerInv
<1>4. OneWriterInv'
  BY <1>1 DEF OneWriterInv
<1>5. CopyInv' /\ LastInv'
  BY <1>1 DEF CopyInv, LastInv
<1>6. \A s \in Runs : SessionOK(s)'
  <2>1. SUFFICES ASSUME NEW s \in Runs
                 PROVE  SessionOK(s)'
    OBVIOUS
  <2>2. SessionOK(s) /\ Users(s) \subseteq Runs
    BY StatusParts DEF Users
  <2>3. \A q \in Runs : pc'[q] = "exited" => Outcome(q)' = Outcome(q)
    BY <1>1 DEF Outcome
  <2> QED BY <1>1, <1>2, <2>2, <2>3 DEF SessionOK
<1> QED BY <1>3, <1>4, <1>5, <1>6, StatusPartsNext


\* r goes on after a response that is recorded.
LEMMA RecordKeeps ==
  ASSUME TInv, SessionsInv, NEW r \in Runs, NEW response \in ResponseType,
         Record(r, response), UNCHANGED shared,
         Live(r), Live(r)', \A q \in Runs \ {r} : pc'[q] = pc[q] /\ result'[q] = result[q]
  PROVE  SessionsInv'
<1> USE DEF SessionsInv
<1> DEFINE s == logger[r].session
<1>t. "none" \notin Runs /\ s \in Runs \cup {"none"}
  BY Constants DEF ConstantsTyped, TInv, DiskType, LoggerType
<1>1. /\ \A q \in Runs : logger'[q].session = logger[q].session
      /\ \A q \in Runs : logger'[q] # logger[q] => q = r /\ logger[q].session \in Runs
      /\ \A t \in Runs : session'[t].state = session[t].state
      /\ \A t \in Runs \ {s} : session'[t] = session[t] /\ newest'[t] = newest[t]
      /\ s \in Runs => /\ session'[s].meta = logger'[r].meta /\ newest'[s] = response
                       /\ logger'[r].meta = [logger[r].meta EXCEPT !.last = response]
  BY RecordDoes DEF TInv
<1>2. /\ \A q \in Runs : Live(q)' <=> Live(q)
      /\ \A q \in Runs : ~ Live(q) => pc'[q] = pc[q] /\ result'[q] = result[q]
      /\ \A q \in Runs : pc'[q] \in {"idle", "exited", "killed"} => ~ Live(q)
      /\ \A q \in Runs : pc[q] = "killed" => pc'[q] = "killed"
  BY DEF Live
<1>3. \A t : Users(t)' = Users(t)
  BY <1>1 DEF Users
<1>4. IdleInv'
  <2>1. ASSUME NEW q \in Runs, pc'[q] = "idle"
        PROVE  /\ session'[q] = NoSession /\ logger'[q] = NoLogger /\ newest'[q] = NoResponse
               /\ Users(q)' = {}
    <3>1. q # r /\ pc[q] = "idle"
      BY <1>2, <2>1
    <3>2. q # s
      BY <3>1 DEF IdleInv, Users
    <3> QED BY <1>1, <1>3, <3>1, <3>2 DEF IdleInv
  <2> QED BY <2>1 DEF IdleInv
<1>5. LoggerInv'
  BY <1>t, <1>1 DEF LoggerInv
<1>6. OneWriterInv'
  BY <1>1, <1>2 DEF OneWriterInv
<1>7. CopyInv'
  <2>1. SUFFICES ASSUME NEW q \in Runs, Live(q), logger[q].session \in Runs \ shared
                 PROVE  logger'[q].meta.last = session'[logger[q].session].meta.last
    BY <1>1, <1>2 DEF CopyInv
  <2>2. CASE logger[q].session = s
    <3>1. q = r
      BY <2>1, <2>2 DEF OneWriterInv
    <3> QED BY <1>1, <2>1, <3>1
  <2>3. CASE logger[q].session # s
    BY <1>1, <2>1, <2>3 DEF CopyInv
  <2> QED BY <2>2, <2>3
<1>8. LastInv'
  <2>1. s \in Runs => session'[s].meta.last = newest'[s]
    <3>1. logger[r].meta \in MetaType
      BY DEF TInv, DiskType, LoggerType
    <3> QED BY <1>1, <3>1 DEF MetaType
  <2> QED BY <1>1, <2>1 DEF LastInv
<1>9. \A t \in Runs : SessionOK(t)'
  <2>1. SUFFICES ASSUME NEW t \in Runs
                 PROVE  SessionOK(t)'
    OBVIOUS
  <2>2. SessionOK(t)
    BY StatusParts
  <2>3. \A q \in Runs : pc'[q] = "exited" => pc[q] = "exited" /\ Outcome(q)' = Outcome(q)
    BY <1>2 DEF Outcome
  <2>4. CASE t = s
    <3>1. r \in Users(t) /\ pc'[r] # "exited"
      BY <1>2, <2>4 DEF Users
    <3> QED BY <1>3, <3>1 DEF SessionOK
  <2>5. CASE t # s
    <3>1. session'[t] = session[t] /\ Users(t) \subseteq Runs
      BY <1>1, <2>5 DEF Users
    <3>2. \A q \in Users(t) : Live(q) \/ pc[q] = "killed" => Live(q)' \/ pc'[q] = "killed"
      BY <1>2, <3>1
    <3> QED BY <1>2, <1>3, <2>2, <2>3, <3>1, <3>2 DEF SessionOK
  <2> QED BY <2>4, <2>5
<1> QED BY <1>4, <1>5, <1>6, <1>7, <1>8, <1>9, StatusPartsNext

LEMMA CloseKeeps ==
  ASSUME TInv, SessionsInv, NEW r \in Runs, CloseSession(r)
  PROVE  SessionsInv'
<1> USE DEF SessionsInv
<1> DEFINE s == logger[r].session
<1>t. /\ session \in [Runs -> SessionType] /\ logger \in [Runs -> LoggerType]
      /\ pc \in [Runs -> PCs] /\ result \in [Runs -> ResultType]
      /\ "none" \notin Runs /\ s \in Runs \cup {"none"}
  BY Constants DEF ConstantsTyped, TInv, DiskType, RunType, LoggerType
<1>1. /\ UNCHANGED <<logger, newest, shared>>
      /\ \A q \in Runs \ {r} : pc'[q] = pc[q] /\ result'[q] = result[q]
      /\ pc[r] = "close" /\ pc'[r] = "exited" /\ result'[r].err = result[r].err
  BY <1>t DEF CloseSession, Go, ResultType
<1>2. /\ \A t \in Runs \ {s} : session'[t] = session[t]
      /\ s \in Runs => /\ session'[s].state = session[s].state
                       /\ session'[s].meta.status = Status(r)
                       /\ session'[s].meta.last = logger[r].meta.last
  <2>1. CASE s = "none"
    BY <1>t, <2>1 DEF LoggerInv, CloseSession
  <2>2. CASE s # "none"
    <3>1. s \in Runs /\ logger[r] # NoLogger /\ logger[r].meta \in MetaType
      BY <1>t, <2>2 DEF LoggerType, NoLogger
    <3> DEFINE m == [logger[r].meta EXCEPT !.status = Status(r)]
    <3>2. m.status = Status(r) /\ m.last = logger[r].meta.last
      BY <3>1 DEF MetaType
    <3>3. session' = [session EXCEPT ![s].meta = m]
      BY <3>1 DEF CloseSession
    <3> HIDE DEF m
    <3> QED BY <1>t, <3>1, <3>2, <3>3 DEF SessionType
  <2> QED BY <2>1, <2>2
<1>3. /\ \A q \in Runs : Live(q)' => Live(q)
      /\ \A q \in Runs \ {r} : Live(q) => Live(q)'
      /\ Live(r)
  BY <1>1 DEF Live
<1>4. \A t : Users(t)' = Users(t)
  BY <1>1 DEF Users
<1>5. IdleInv'
  BY <1>1, <1>2, <1>4 DEF IdleInv, Users
<1>6. LoggerInv' /\ OneWriterInv'
  BY <1>1, <1>3 DEF LoggerInv, OneWriterInv
<1>7. CopyInv'
  <2>1. SUFFICES ASSUME NEW q \in Runs, Live(q)', logger[q].session \in Runs \ shared
                 PROVE  logger[q].meta.last = session'[logger[q].session].meta.last
    BY <1>1 DEF CopyInv
  <2>2. q # r
    BY <1>1, <2>1 DEF Live
  <2>3. logger[q].session # s
    BY <1>3, <2>1, <2>2 DEF OneWriterInv
  <2> QED BY <1>2, <1>3, <2>1, <2>3 DEF CopyInv
<1>8. LastInv'
  <2>1. s \in Runs \ shared => session'[s].meta.last = newest[s]
    BY <1>2, <1>3 DEF CopyInv, LastInv
  <2> QED BY <1>1, <1>2, <2>1 DEF LastInv
<1>9. \A t \in Runs : SessionOK(t)'
  <2>1. SUFFICES ASSUME NEW t \in Runs
                 PROVE  SessionOK(t)'
    OBVIOUS
  <2>2. SessionOK(t)
    BY StatusParts
  <2>3. \A q \in Runs : Outcome(q)' = Outcome(q)
    BY <1>1 DEF Outcome
  <2>4. CASE t = s
    <3>1. r \in Users(t)
      BY <2>4 DEF Users
    <3>2. Status(r) = Outcome(r) /\ Status(r) # "running"
      BY DEF Status, Outcome
    <3> QED BY <1>2, <1>4, <2>3, <2>4, <3>1, <3>2 DEF SessionOK
  <2>5. CASE t # s
    <3>1. session'[t] = session[t] /\ r \notin Users(t) /\ Users(t) \subseteq Runs
      BY <1>2, <2>5 DEF Users
    <3>2. \A q \in Users(t) : pc'[q] = pc[q] /\ (Live(q)' <=> Live(q))
      BY <1>1, <3>1 DEF Live
    <3>3. pc[t] = "killed" => pc'[t] = "killed"
      BY <1>1
    <3> QED BY <1>4, <2>2, <2>3, <3>1, <3>2, <3>3 DEF SessionOK
  <2> QED BY <2>4, <2>5
<1> QED BY <1>5, <1>6, <1>7, <1>8, <1>9, StatusPartsNext

LEMMA KilledInNewKeeps ==
  ASSUME TInv, SessionsInv, NEW r \in Runs, KilledInNew(r)
  PROVE  SessionsInv'
<1> USE DEF SessionsInv
<1>t. /\ session \in [Runs -> SessionType] /\ pc \in [Runs -> PCs]
      /\ session[r] = NoSession /\ newest[r] = NoResponse /\ Users(r) = {}
      /\ NoSession.meta.last = NoResponse /\ NewMeta.last = NoResponse
  BY DEF TInv, DiskType, RunType, IdleInv, KilledInNew, NoSession, NewMeta
<1>1. /\ UNCHANGED <<logger, newest, shared, result>>
      /\ \A q \in Runs \ {r} : pc'[q] = pc[q] /\ session'[q] = session[q]
      /\ pc[r] = "idle" /\ pc'[r] = "killed"
  BY <1>t DEF KilledInNew, Go
<1>2. session'[r].meta.last = newest'[r]
  BY <1>t, <1>1 DEF KilledInNew, SessionType
<1>3. \A q \in Runs : Live(q)' <=> Live(q)
  BY <1>1 DEF Live
<1>4. \A t : Users(t)' = Users(t)
  BY <1>1 DEF Users
<1>5. IdleInv' /\ LoggerInv'
  BY <1>1, <1>4 DEF IdleInv, LoggerInv
<1>6. OneWriterInv'
  BY <1>1, <1>3 DEF OneWriterInv
<1>7. CopyInv'
  <2>1. \A q \in Runs : logger[q].session # r
    BY <1>t DEF Users
  <2> QED BY <1>1, <1>3, <2>1 DEF CopyInv
<1>8. LastInv'
  BY <1>1, <1>2 DEF LastInv
<1>9. \A t \in Runs : SessionOK(t)'
  <2>1. SUFFICES ASSUME NEW t \in Runs
                 PROVE  SessionOK(t)'
    OBVIOUS
  <2>2. SessionOK(t)
    BY StatusParts
  <2>3. \A q \in Runs : Outcome(q)' = Outcome(q)
    BY <1>1 DEF Outcome
  <2>4. CASE t = r
    BY <1>t, <1>1, <1>4, <2>4 DEF SessionOK
  <2>5. CASE t # r
    <3>1. \A q \in Users(t) : q \in Runs /\ (pc[q] \in {"killed", "exited"} => pc'[q] = pc[q])
      BY <1>1 DEF Users
    <3>2. \A q \in Runs : Users(t) = {q} /\ pc'[q] = "exited" => pc[q] = "exited"
      BY <1>1, <3>1
    <3> QED BY <1>1, <1>3, <1>4, <2>2, <2>3, <2>5, <3>1, <3>2 DEF SessionOK
  <2> QED BY <2>4, <2>5
<1> QED BY <1>5, <1>6, <1>7, <1>8, <1>9, StatusPartsNext

LEMMA DeleteKeeps ==
  ASSUME TInv, SessionsInv, NEW s \in Runs, Delete(s)
  PROVE  SessionsInv'
<1> USE DEF SessionsInv
<1>t. session \in [Runs -> SessionType]
  BY DEF TInv, DiskType
<1>1. /\ UNCHANGED <<pc, logger, newest, shared, result>>
      /\ \A q \in Runs : session'[q].meta = session[q].meta
      /\ \A q \in Runs \ {s} : session'[q] = session[q]
      /\ session[s].state = "whole"
      /\ \A q \in Runs : session'[q].state = "whole" => session[q].state = "whole"
  BY <1>t DEF Delete, SessionType
<1>2. \A q : /\ Live(q)' = Live(q) /\ Users(q)' = Users(q)
  BY <1>1 DEF Live, Users
<1>3. IdleInv'
  BY <1>1, <1>2 DEF IdleInv, NoSession
<1>4. LoggerInv' /\ OneWriterInv' /\ CopyInv' /\ LastInv'
  BY <1>1, <1>2 DEF LoggerInv, OneWriterInv, CopyInv, LastInv
<1>5. \A t \in Runs : SessionOK(t)'
  <2>1. SUFFICES ASSUME NEW t \in Runs
                 PROVE  SessionOK(t)'
    OBVIOUS
  <2>2. SessionOK(t)
    BY StatusParts
  <2>3. \A q \in Runs : Outcome(q)' = Outcome(q)
    BY <1>1 DEF Outcome
  <2> QED BY <1>1, <1>2, <2>2, <2>3 DEF SessionOK
<1> QED BY <1>3, <1>4, <1>5, StatusPartsNext

\* A run begins with the sessions as they are, with one of its own, or with the
\* newest one.
LEMMA BeginDoes ==
  ASSUME TInv, SessionsInv, NEW r \in Runs, Begin(r)
  PROVE  /\ pc[r] = "idle" /\ UNCHANGED newest
         /\ session[r] = NoSession /\ logger[r] = NoLogger /\ newest[r] = NoResponse
         /\ Users(r) = {}
         /\ \A q \in Runs \ {r} : pc'[q] = pc[q] /\ result'[q] = result[q]
         /\ \/ UNCHANGED <<session, logger, shared>> /\ pc'[r] \in {"exited", "invoke"}
            \/ NewSession(r) /\ pc'[r] = "invoke"
            \/ /\ pc'[r] = "invoke"
               /\ \E s \in Readable :
                    /\ WriteMeta(r, s, [session[s].meta EXCEPT !.status = "running"])
                    /\ shared' = shared \cup {t \in {s} : \E q \in Runs \ {r} :
                                                 Live(q) /\ logger[q].session = s}
<1>t. pc \in [Runs -> PCs] /\ result \in [Runs -> ResultType]
  BY DEF TInv, RunType
<1>1. /\ pc[r] = "idle" /\ UNCHANGED newest
      /\ session[r] = NoSession /\ logger[r] = NoLogger /\ newest[r] = NoResponse
      /\ Users(r) = {}
  BY DEF Begin, SessionsInv, IdleInv
<1>2. CASE /\ Go(r, "exited") /\ result' = [result EXCEPT ![r].err = "setup"]
           /\ UNCHANGED <<session, index, logger, shared>>
  <2>1. /\ \A q \in Runs \ {r} : pc'[q] = pc[q] /\ result'[q] = result[q]
        /\ pc'[r] = "exited"
    BY <1>t, <1>2 DEF Go
  <2> QED BY <1>1, <1>2, <2>1
<1>3. CASE Go(r, "invoke") /\ UNCHANGED result /\ OpenSession(r, opt'[r].resume)
  <2>1. /\ \A q \in Runs \ {r} : pc'[q] = pc[q] /\ result'[q] = result[q]
        /\ pc'[r] = "invoke"
    BY <1>t, <1>3 DEF Go
  <2>2. \/ NewSession(r)
        \/ OpenForResume(r)
        \/ UNCHANGED <<session, logger, shared>>
    BY <1>3 DEF OpenSession
  <2>3. CASE OpenForResume(r)
    BY <1>1, <2>1, <2>3 DEF OpenForResume
  <2> QED BY <1>1, <2>1, <2>2, <2>3
<1> QED BY <1>2, <1>3 DEF Begin

LEMMA BeginKeeps ==
  ASSUME TInv, SessionsInv, NEW r \in Runs, Begin(r)
  PROVE  SessionsInv'
<1> USE DEF SessionsInv
<1>t. /\ session \in [Runs -> SessionType] /\ logger \in [Runs -> LoggerType]
      /\ "none" \notin Runs
      /\ NoLogger.session = "none" /\ NoSession.meta.last = NoResponse /\ NewMeta.last = NoResponse
      /\ NoSession.state = "absent" /\ NewMeta.status = "running"
  BY Constants DEF ConstantsTyped, TInv, DiskType, NoSession, NoLogger, NewMeta
<1>b. /\ pc[r] = "idle" /\ UNCHANGED newest
      /\ session[r] = NoSession /\ logger[r] = NoLogger /\ newest[r] = NoResponse
      /\ Users(r) = {}
      /\ \A q \in Runs \ {r} : pc'[q] = pc[q] /\ result'[q] = result[q]
      /\ pc'[r] \in {"exited", "invoke"}
  BY BeginDoes
<1>p. /\ \A q \in Runs \ {r} : (Live(q)' <=> Live(q)) /\ Outcome(q)' = Outcome(q)
      /\ ~ Live(r) /\ (pc'[r] = "invoke" => Live(r)')
      /\ \A q \in Runs : pc[q] = "killed" => pc'[q] = "killed"
      /\ \A q \in Runs : pc'[q] = "idle" => q # r /\ pc[q] = "idle"
  BY <1>b DEF Live, Outcome
<1>u. \A t \in Runs : r \notin Users(t) /\ Users(t) \subseteq Runs
  BY <1>b, <1>t DEF Users
<1>1. CASE UNCHANGED <<session, logger, shared>>
  <2>1. \A t : Users(t)' = Users(t)
    BY <1>1 DEF Users
  <2>2. IdleInv' /\ LoggerInv'
    BY <1>1, <1>b, <1>p, <2>1 DEF IdleInv, LoggerInv
  <2>3. \A q \in Runs : logger[q].session \in Runs => q # r
    BY <1>b, <1>t
  <2>4. OneWriterInv'
    BY <1>1, <1>p, <2>3 DEF OneWriterInv
  <2>5. CopyInv' /\ LastInv'
    BY <1>1, <1>b, <1>p, <2>3 DEF CopyInv, LastInv
  <2>6. \A t \in Runs : SessionOK(t)'
    <3>1. SUFFICES ASSUME NEW t \in Runs
                   PROVE  SessionOK(t)'
      OBVIOUS
    <3>2. SessionOK(t)
      BY StatusParts
    <3>3. \A q \in Users(t) : pc'[q] = pc[q] /\ (Live(q)' <=> Live(q)) /\ Outcome(q)' = Outcome(q)
      BY <1>b, <1>p, <1>u
    <3> QED BY <1>1, <1>p, <1>u, <2>1, <3>2, <3>3 DEF SessionOK
  <2> QED BY <2>2, <2>4, <2>5, <2>6, StatusPartsNext
<1>2. CASE NewSession(r) /\ pc'[r] = "invoke"
  <2>1. /\ session'[r].meta = NewMeta /\ \A t \in Runs \ {r} : session'[t] = session[t]
        /\ logger'[r].session = r /\ logger'[r].meta = NewMeta
        /\ \A q \in Runs \ {r} : logger'[q] = logger[q]
        /\ UNCHANGED shared
    BY <1>2, <1>t DEF NewSession
  <2>2. \A t \in Runs \ {r} : Users(t)' = Users(t)
    BY <1>b, <1>t, <2>1 DEF Users
  <2>3. Users(r)' = {r} /\ \A q \in Runs : logger[q].session # r
    BY <1>b, <2>1 DEF Users
  <2>4. IdleInv'
    BY <1>b, <1>p, <2>1, <2>2 DEF IdleInv
  <2>5. LoggerInv'
    BY <1>t, <2>1 DEF LoggerInv
  <2>6. OneWriterInv'
    BY <1>p, <2>1, <2>3 DEF OneWriterInv
  <2>7. CopyInv' /\ LastInv'
    BY <1>b, <1>t, <1>p, <2>1, <2>3 DEF CopyInv, LastInv
  <2>8. \A t \in Runs : SessionOK(t)'
    <3>1. SUFFICES ASSUME NEW t \in Runs
                   PROVE  SessionOK(t)'
      OBVIOUS
    <3>2. SessionOK(t)
      BY StatusParts
    <3>3. CASE t = r
      BY <1>2, <1>p, <2>3, <3>3 DEF SessionOK
    <3>4. CASE t # r
      <4>1. \A q \in Users(t) : pc'[q] = pc[q] /\ (Live(q)' <=> Live(q)) /\ Outcome(q)' = Outcome(q)
        BY <1>b, <1>p, <1>u
      <4> QED BY <1>p, <1>u, <2>1, <2>2, <3>2, <3>4, <4>1 DEF SessionOK
    <3> QED BY <3>3, <3>4
  <2> QED BY <2>4, <2>5, <2>6, <2>7, <2>8, StatusPartsNext
<1>3. ASSUME pc'[r] = "invoke", NEW s \in Readable,
             WriteMeta(r, s, [session[s].meta EXCEPT !.status = "running"]),
             shared' = shared \cup {t \in {s} : \E q \in Runs \ {r} :
                                       Live(q) /\ logger[q].session = s}
      PROVE  SessionsInv'
  <2> DEFINE m == [session[s].meta EXCEPT !.status = "running"]
  <2>0. s \in Runs /\ s # r /\ session[s].state = "whole" /\ session[s].meta \in MetaType
    BY <1>t, <1>b DEF Readable, SessionType
  <2>m. m.last = session[s].meta.last
    BY <2>0 DEF MetaType
  <2>1. /\ session'[s].meta = m /\ \A t \in Runs \ {s} : session'[t] = session[t]
        /\ logger'[r].session = s /\ logger'[r].meta = m
        /\ \A q \in Runs \ {r} : logger'[q] = logger[q]
    <3> HIDE DEF m
    <3>1. /\ logger' = [logger EXCEPT ![r] = [session |-> s, meta |-> m]]
          /\ session' = [session EXCEPT ![s].meta = m]
      BY <1>3 DEF WriteMeta, m
    <3> QED BY <1>t, <2>0, <3>1 DEF SessionType
  <2> HIDE DEF m
  <2>s. /\ shared \subseteq shared' /\ shared' \subseteq shared \cup {s}
        /\ \A q \in Runs \ {r} : Live(q) /\ logger[q].session = s => s \in shared'
    BY <1>3
  <2>2. \A t \in Runs \ {s} : Users(t)' = Users(t)
    BY <1>b, <1>t, <2>1 DEF Users
  <2>3. r \in Users(s)'
    BY <2>1 DEF Users
  <2>4. IdleInv'
    BY <1>b, <1>t, <1>p, <2>0, <2>1, <2>2 DEF IdleInv
  <2>5. LoggerInv'
    BY <1>t, <2>0, <2>1 DEF LoggerInv
  <2>6. OneWriterInv'
    <3>1. SUFFICES ASSUME NEW x \in Runs, NEW y \in Runs, Live(x)', Live(y)',
                          logger'[x].session = logger'[y].session,
                          logger'[y].session \in Runs \ shared'
                   PROVE  x = y
      BY DEF OneWriterInv
    <3>2. CASE logger'[y].session = s
      BY <1>p, <2>1, <2>s, <3>1, <3>2
    <3>3. CASE logger'[y].session # s
      BY <1>p, <2>1, <2>s, <3>1, <3>3 DEF OneWriterInv
    <3> QED BY <3>2, <3>3
  <2>7. CopyInv'
    <3>1. SUFFICES ASSUME NEW q \in Runs, Live(q)', logger'[q].session \in Runs \ shared'
                   PROVE  logger'[q].meta.last = session'[logger'[q].session].meta.last
      BY DEF CopyInv
    <3>2. CASE q = r
      BY <2>1, <3>2
    <3>3. CASE q # r
      <4>1. Live(q) /\ logger'[q] = logger[q] /\ logger[q].session # s
        BY <1>p, <2>1, <2>s, <3>1, <3>3
      <4> QED BY <2>1, <2>s, <3>1, <4>1 DEF CopyInv
    <3> QED BY <3>2, <3>3
  <2>8. LastInv'
    BY <1>b, <2>m, <2>1, <2>s DEF LastInv
  <2>9. \A t \in Runs : SessionOK(t)'
    <3>1. SUFFICES ASSUME NEW t \in Runs
                   PROVE  SessionOK(t)'
      OBVIOUS
    <3>2. SessionOK(t)
      BY StatusParts
    <3>3. CASE t = s
      BY <1>3, <1>p, <2>3, <3>3 DEF SessionOK
    <3>4. CASE t # s
      <4>1. \A q \in Users(t) : pc'[q] = pc[q] /\ (Live(q)' <=> Live(q)) /\ Outcome(q)' = Outcome(q)
        BY <1>b, <1>p, <1>u
      <4> QED BY <1>p, <1>u, <2>1, <2>2, <3>2, <3>4, <4>1 DEF SessionOK
    <3> QED BY <3>3, <3>4
  <2> QED BY <2>4, <2>5, <2>6, <2>7, <2>8, <2>9, StatusPartsNext
<1> QED BY <1>1, <1>2, <1>3, BeginDoes

\* How a run moves once it has begun.
Moves(r) ==
  \/ \E t \in Texts \cup {NoText}, e \in Errors : Return(r, t, e)
  \/ (\E where \in PCs \ {"idle", "invoke", "close", "exited", "killed"} : Go(r, where)) /\ UNCHANGED result

LEMMA MovesDo ==
  ASSUME RunType, NEW r \in Runs, Moves(r)
  PROVE  /\ pc'[r] \in PCs \ {"idle", "invoke", "close", "exited", "killed"} /\ Live(r)'
         /\ \A q \in Runs \ {r} : pc'[q] = pc[q] /\ result'[q] = result[q]
<1>t. pc \in [Runs -> PCs] /\ result \in [Runs -> ResultType]
  BY DEF RunType
<1>1. CASE \E t \in Texts \cup {NoText}, e \in Errors : Return(r, t, e)
  BY <1>t, <1>1 DEF Return, Go, Live, PCs
<1>2. CASE (\E where \in PCs \ {"idle", "invoke", "close", "exited", "killed"} : Go(r, where)) /\ UNCHANGED result
  BY <1>t, <1>2 DEF Go, Live
<1> QED BY <1>1, <1>2 DEF Moves

LEMMA LoopEndsMoves ==
  ASSUME NEW r \in Runs, NEW l, LoopEnds(r, l)
  PROVE  Moves(r)
BY DEF LoopEnds, Moves, PCs, Errors

LEMMA StepsMove ==
  ASSUME NEW r \in Runs,
         \/ CannotCall(r) \/ Initial(r) \/ Turn(r) \/ Follow(r) \/ Resolve(r) \/ RequestFinal(r)
         \/ ToolLoop(r) \/ StartCLI(r) \/ AgenticCLI(r)
  PROVE  Moves(r) /\ Live(r) /\ UNCHANGED <<git, opt, shared>>
<1>t. NoText \in Texts \cup {NoText} /\ {"none", "error", "budget"} \subseteq Errors
  BY DEF Errors
<1>1. CASE CannotCall(r)
  BY <1>1, <1>t DEF CannotCall, Moves, Live
<1>2. CASE Initial(r)
  BY <1>2, <1>t DEF Initial, Fails, Moves, Live, PCs
<1>3. CASE Turn(r)
  <2>1. LoopEnds(r, loop[r]) \/ (Go(r, "follow") /\ UNCHANGED result)
    BY <1>3 DEF Turn
  <2> QED BY <1>3, <2>1, LoopEndsMoves DEF Turn, Moves, Live, PCs
<1>4. CASE Follow(r)
  <2>1. \/ \E t \in Texts \cup {NoText}, e \in {"error", "budget"} : Return(r, t, e)
        \/ Go(r, "turn") /\ UNCHANGED result
        \/ \E l : LoopEnds(r, l)
    BY <1>4 DEF Follow, Fails
  <2> QED BY <1>4, <1>t, <2>1, LoopEndsMoves DEF Follow, Moves, Live, PCs
<1>5. CASE Resolve(r)
  BY <1>5, <1>t DEF Resolve, Moves, Live, PCs
<1>6. CASE RequestFinal(r)
  BY <1>6, <1>t DEF RequestFinal, Moves, Live
<1>7. CASE ToolLoop(r)
  BY <1>7, <1>t DEF ToolLoop, Moves, Live
<1>8. CASE StartCLI(r)
  BY <1>8 DEF StartCLI, Moves, Live, PCs
<1>9. CASE AgenticCLI(r)
  BY <1>9, <1>t DEF AgenticCLI, Moves, Live
<1> QED BY <1>1, <1>2, <1>3, <1>4, <1>5, <1>6, <1>7, <1>8, <1>9

LEMMA HandleMoves ==
  ASSUME RunType, NEW r \in Runs, Handle(r)
  PROVE  /\ pc[r] = "handle" /\ pc'[r] = "close" /\ Live(r)
         /\ \A q \in Runs \ {r} : pc'[q] = pc[q] /\ result'[q] = result[q]
<1>t. pc \in [Runs -> PCs] /\ result \in [Runs -> ResultType]
  BY DEF RunType
<1>1. \A q \in Runs \ {r} : result'[q] = result[q]
  BY <1>t, HandleDoes DEF Ends
<1> QED BY <1>t, <1>1 DEF Handle, Go, Live

LEMMA KillMoves ==
  ASSUME RunType, NEW r \in Runs, Kill(r)
  PROVE  /\ Live(r) /\ pc'[r] = "killed" /\ UNCHANGED <<session, logger, newest, shared>>
         /\ \A q \in Runs \ {r} : pc'[q] = pc[q] /\ result'[q] = result[q]
<1>t. pc \in [Runs -> PCs] /\ result \in [Runs -> ResultType]
  BY DEF RunType
<1> QED BY <1>t DEF Kill, Go

LEMMA SessionsKeptByNext ==
  ASSUME TInv, SessionsInv, [Next]_vars
  PROVE  SessionsInv'
<1>t. RunType /\ loop \in [Runs -> LoopType]
  BY DEF TInv, RunType
<1>1. CASE UNCHANGED vars
  BY <1>1 DEF SessionsInv, IdleInv, Users, LoggerInv, OneWriterInv, CopyInv, LastInv, Live,
              StatusIsOutcome
<1>2. ASSUME NEW r \in Runs, CannotCall(r) \/ Turn(r) \/ Resolve(r) \/ RequestFinal(r)
                             \/ ToolLoop(r) \/ StartCLI(r) \/ AgenticCLI(r)
      PROVE  SessionsInv'
  <2>1. UNCHANGED <<session, logger, newest, shared>>
    BY <1>2 DEF CannotCall, Turn, Resolve, RequestFinal, ToolLoop, StartCLI, AgenticCLI
  <2>2. SessionsNext(r)
    BY <1>2, <1>t, <2>1, StepsMove, MovesDo DEF SessionsNext
  <2> QED BY <2>2, SessionsKept
<1>3. ASSUME NEW r \in Runs, Initial(r) \/ Follow(r)
      PROVE  SessionsInv'
  <2>1. /\ Live(r) /\ Live(r)' /\ UNCHANGED shared
        /\ pc'[r] \notin {"idle", "exited"}
        /\ \A q \in Runs \ {r} : pc'[q] = pc[q] /\ result'[q] = result[q]
    BY <1>3, <1>t, StepsMove, MovesDo
  <2>2. \/ UNCHANGED <<session, logger, newest>>
        \/ \E calls \in Calls : Record(r, [run |-> r, n |-> loop[r].n + 1, pending |-> calls # NoCalls])
    <3>1. CASE Initial(r)
      BY <3>1 DEF Initial, Fails, Received
    <3>2. CASE Follow(r)
      <4>1. CASE Fails(r)
        BY <4>1 DEF Fails
      <4>2. ASSUME NEW calls \in Calls, NEW text \in BOOLEAN,
                   LET l == [loop[r] EXCEPT !.i = @ + 1, !.calls = calls, !.text = text, !.n = @ + 1]
                   IN Record(r, [run |-> r, n |-> l.n, pending |-> calls # NoCalls])
            PROVE  \E c \in Calls : Record(r, [run |-> r, n |-> loop[r].n + 1, pending |-> c # NoCalls])
        <5>1. [loop[r] EXCEPT !.i = @ + 1, !.calls = calls, !.text = text, !.n = @ + 1].n = loop[r].n + 1
          BY <1>t DEF LoopType
        <5> QED BY <4>2, <5>1
      <4> QED BY <3>2, <4>1, <4>2 DEF Follow
    <3> QED BY <1>3, <3>1, <3>2
  <2>3. CASE UNCHANGED <<session, logger, newest>>
    BY <2>1, <2>3, SessionsKept DEF SessionsNext
  <2>4. ASSUME NEW calls \in Calls, Record(r, [run |-> r, n |-> loop[r].n + 1, pending |-> calls # NoCalls])
        PROVE  SessionsInv'
    <3>1. loop[r].n + 1 \in Nat
      BY <1>t DEF LoopType
    <3>2. [run |-> r, n |-> loop[r].n + 1, pending |-> calls # NoCalls] \in ResponseType
      BY <3>1 DEF ResponseType
    <3> QED BY <2>1, <2>4, <3>2, RecordKeeps
  <2> QED BY <2>2, <2>3, <2>4
<1>4. ASSUME NEW r \in Runs, Handle(r)
      PROVE  SessionsInv'
  <2>1. SessionsNext(r)
    BY <1>4, <1>t, HandleMoves DEF SessionsNext, Handle
  <2> QED BY <2>1, SessionsKept
<1>5. ASSUME NEW r \in Runs, Kill(r)
      PROVE  SessionsInv'
  <2>1. SessionsNext(r)
    BY <1>5, <1>t, KillMoves DEF SessionsNext
  <2> QED BY <2>1, SessionsKept
<1> QED BY <1>1, <1>2, <1>3, <1>4, <1>5, BeginKeeps, CloseKeeps, KilledInNewKeeps, DeleteKeeps
        DEF Next, Step

(***************************************************************************)
(* Edits: what the steps do                                                *)
(***************************************************************************)

\* No run comes to its end.
LEMMA BackedKept ==
  ASSUME ReportsAreBacked, UNCHANGED git,
         \A q \in Runs : pc'[q] = "close" =>
           /\ pc[q] = "close" /\ opt'[q] = opt[q] /\ result'[q] = result[q]
           /\ q \in changed => q \in changed'
           /\ q \in vouched => q \in vouched'
  PROVE  ReportsAreBacked'
BY DEF ReportsAreBacked

LEMMA EditsKept ==
  ASSUME EditsInv, NEW r \in Runs,
         \/ CannotCall(r) \/ Initial(r) \/ Turn(r) \/ Follow(r) \/ Resolve(r) \/ RequestFinal(r)
         \/ ToolLoop(r) \/ StartCLI(r) \/ AgenticCLI(r)
  PROVE  EditsInv' /\ changed \subseteq changed' /\ vouched \subseteq vouched'
<1>1. CASE CannotCall(r) \/ Initial(r) \/ Follow(r) \/ Resolve(r) \/ RequestFinal(r) \/ StartCLI(r)
  BY <1>1 DEF CannotCall, Initial, Follow, Resolve, RequestFinal, StartCLI, EditsInv
<1>2. CASE Turn(r)
  <2>1. UNCHANGED vouched /\ (UNCHANGED <<applied, changed>> \/ ToolEdits(r))
    BY <1>2 DEF Turn, Execute
  <2> QED BY <2>1 DEF ToolEdits, EditsInv
<1>3. CASE ToolLoop(r)
  <2>1. UNCHANGED vouched /\ (UNCHANGED <<applied, changed>> \/ ToolEdits(r))
    BY <1>3 DEF ToolLoop
  <2> QED BY <2>1 DEF ToolEdits, EditsInv
<1>4. CASE AgenticCLI(r)
  <2>1. PICK does \in {"nothing", "edits", "edits and commits"} :
          /\ tree' = CASE does = "nothing" -> tree
                       [] does = "edits" -> tree \cup {r}
                       [] OTHER -> {}
          /\ changed' = IF does = "nothing" THEN changed ELSE changed \cup {r}
          /\ applied' \in {applied, IF git /\ tree' # snapshot[r] THEN applied \cup {r} ELSE applied}
          /\ vouched' = IF does = "nothing" /\ tree # snapshot[r] THEN vouched \cup {r} ELSE vouched
    BY <1>4 DEF AgenticCLI
  <2>2. CASE does = "nothing"
    BY <2>1, <2>2 DEF EditsInv
  <2>3. CASE does # "nothing"
    BY <2>1, <2>3 DEF EditsInv
  <2> QED BY <2>2, <2>3
<1> QED BY <1>1, <1>2, <1>3, <1>4

\* The answer of a run that ends without an error has been validated.
LEMMA HandleBacked ==
  ASSUME TInv, BackedInv, NEW r \in Runs, Handle(r)
  PROVE  BackedInv'
<1> USE DEF BackedInv, TInv
<1>t. result \in [Runs -> ResultType]
  BY DEF RunType
<1>1. changed \subseteq changed' /\ vouched \subseteq vouched' /\ UNCHANGED <<applied, git, opt>>
  BY HandleDoes DEF Handle, Patches
<1>2. EditsInv'
  BY <1>1 DEF EditsInv
<1>3. /\ pc[r] = "handle" /\ pc'[r] = "close"
      /\ \A q \in Runs \ {r} : pc'[q] = pc[q] /\ result'[q] = result[q]
  BY HandleMoves
<1>4. ASSUME result'[r].err = "none", opt[r].require, opt[r].edit, git,
             result'[r].text # NoText, "claims" \in result'[r].text
      PROVE  r \in changed' \/ "diff" \in result'[r].text \/ r \in vouched'
  <2>1. CASE UNCHANGED <<result, vouched>> /\ (result[r].err = "error" \/ result[r].text = NoText)
    BY <1>4, <2>1
  <2>2. CASE Ends(r, FALSE)
    <3>1. Refused(r, FALSE) # "none" /\ result'[r].err = Refused(r, FALSE)
      BY <1>t, <2>2 DEF Refused, Ends, ResultType
    <3> QED BY <1>4, <3>1
  <2>3. CASE /\ Validated(r) /\ Ends(r, TRUE)
             /\ vouched' = IF tree # {} THEN vouched \cup {r} ELSE vouched
    <3>1. result'[r].text = result[r].text
      BY <1>t, <2>3 DEF Ends, ResultType
    <3>2. ~ Fabricated(r)
      BY <1>4, <2>3 DEF Validated
    <3>3. CASE r \in applied
      BY <1>1, <3>3 DEF EditsInv
    <3>4. CASE r \notin applied
      <4>1. HasDiff(result[r].text) \/ tree # {}
        BY <1>4, <3>1, <3>2, <3>4 DEF Fabricated, ClaimsSpecific
      <4> QED BY <2>3, <3>1, <4>1 DEF HasDiff
    <3> QED BY <3>3, <3>4
  <2> QED BY <2>1, <2>2, <2>3, HandleDoes
<1>5. ReportsAreBacked'
  <2>1. SUFFICES ASSUME NEW q \in Runs, pc'[q] = "close", result'[q].err = "none",
                        opt'[q].require, opt'[q].edit, git',
                        result'[q].text # NoText, "claims" \in result'[q].text
                 PROVE  q \in changed' \/ "diff" \in result'[q].text \/ q \in vouched'
    BY DEF ReportsAreBacked
  <2>2. CASE q = r
    BY <1>1, <1>4, <2>1, <2>2
  <2>3. CASE q # r
    BY <1>1, <1>3, <2>1, <2>3 DEF ReportsAreBacked
  <2> QED BY <2>2, <2>3
<1> QED BY <1>2, <1>5

LEMMA BackedByNext ==
  ASSUME TInv, BackedInv, [Next]_vars
  PROVE  BackedInv'
<1> USE DEF BackedInv
<1>t. RunType /\ pc \in [Runs -> PCs] /\ result \in [Runs -> ResultType] /\ opt \in [Runs -> OptionType]
  BY DEF TInv, RunType
<1>1. CASE UNCHANGED vars
  BY <1>1 DEF EditsInv, ReportsAreBacked
<1>2. ASSUME NEW r \in Runs, Begin(r)
      PROVE  BackedInv'
  <2>1. /\ pc'[r] # "close" /\ \A q \in Runs \ {r} : pc'[q] = pc[q] /\ result'[q] = result[q]
    BY <1>2, <1>t DEF Begin, Go
  <2>2. \A q \in Runs \ {r} : opt'[q] = opt[q]
    BY <1>2, <1>t DEF Begin, Accepted
  <2>3. UNCHANGED <<git, applied, changed, vouched>>
    BY <1>2 DEF Begin
  <2> QED BY <2>1, <2>2, <2>3, BackedKept DEF EditsInv
<1>3. ASSUME NEW r \in Runs,
             \/ CannotCall(r) \/ Initial(r) \/ Turn(r) \/ Follow(r) \/ Resolve(r) \/ RequestFinal(r)
             \/ ToolLoop(r) \/ StartCLI(r) \/ AgenticCLI(r)
      PROVE  BackedInv'
  <2>1. /\ pc'[r] # "close" /\ UNCHANGED <<git, opt>>
        /\ \A q \in Runs \ {r} : pc'[q] = pc[q] /\ result'[q] = result[q]
    BY <1>3, <1>t, StepsMove, MovesDo
  <2>2. EditsInv' /\ changed \subseteq changed' /\ vouched \subseteq vouched'
    BY <1>3, EditsKept
  <2> QED BY <2>1, <2>2, BackedKept
<1>4. ASSUME NEW r \in Runs, CloseSession(r) \/ Kill(r)
      PROVE  BackedInv'
  <2>1. /\ pc'[r] # "close" /\ UNCHANGED <<git, opt>> /\ Gone(r)
        /\ \A q \in Runs \ {r} : pc'[q] = pc[q] /\ result'[q] = result[q]
    BY <1>4, <1>t DEF CloseSession, Kill, Go
  <2> QED BY <2>1, BackedKept DEF Gone, EditsInv
<1>5. ASSUME NEW r \in Runs, KilledInNew(r)
      PROVE  BackedInv'
  <2>1. /\ pc'[r] # "close" /\ UNCHANGED <<git, opt, result, applied, changed, vouched>>
        /\ \A q \in Runs \ {r} : pc'[q] = pc[q]
    BY <1>5, <1>t DEF KilledInNew, Go
  <2> QED BY <2>1, BackedKept DEF EditsInv
<1>6. ASSUME NEW s \in Runs, Delete(s)
      PROVE  BackedInv'
  BY <1>6, BackedKept DEF EditsInv, Delete
<1> QED BY <1>1, <1>2, <1>3, <1>4, <1>5, <1>6, HandleBacked DEF Next, Step

(***************************************************************************)
(* The budget: what the steps do                                           *)
(***************************************************************************)

Thrifty(q) ==
  /\ pc[q] \in {"idle", "invoke"} => q \notin over
  /\ pc[q] \in {"idle", "invoke", "turn", "follow", "resolve", "cli"} => late[q] = 0
  /\ pc[q] = "final" /\ q \notin over => late[q] = 0
  /\ late[q] <= 1

LEMMA ThriftyParts == (SpendInv <=> \A q \in Runs : Thrifty(q)) /\ (SpendInv' <=> \A q \in Runs : Thrifty(q)')
BY DEF SpendInv, Thrifty

\* A request, and what is spent on it, is of one run.
LEMMA OthersThrifty ==
  ASSUME RunType, NEW r \in Runs, \A q \in Runs : Thrifty(q), Thrifty(r)',
         \/ UNCHANGED <<over, late>>
         \/ (Send(r) \/ UNCHANGED late) /\ (Spend(r) \/ UNCHANGED over)
         \/ Done(r),
         \A q \in Runs \ {r} : pc'[q] = pc[q]
  PROVE  SpendInv'
<1>t. late \in [Runs -> Nat]
  BY DEF RunType
<1>1. \A q \in Runs \ {r} : late'[q] = late[q] /\ (q \in over' <=> q \in over)
  BY <1>t, SendTyped DEF Spend, Done
<1>2. \A q \in Runs \ {r} : Thrifty(q)'
  BY <1>1 DEF Thrifty
<1> QED BY <1>2, ThriftyParts

LEMMA CallsThrifty ==
  ASSUME RunType, NEW r \in Runs, \A q \in Runs : Thrifty(q),
         \/ CannotCall(r) \/ Initial(r) \/ Turn(r) \/ Follow(r) \/ Resolve(r) \/ RequestFinal(r)
         \/ ToolLoop(r) \/ StartCLI(r) \/ AgenticCLI(r)
  PROVE  SpendInv'
<1>t. late \in [Runs -> Nat] /\ pc \in [Runs -> PCs] /\ result \in [Runs -> ResultType]
  BY DEF RunType
<1>m. /\ pc'[r] \in PCs \ {"idle", "invoke", "close", "exited", "killed"}
      /\ \A q \in Runs \ {r} : pc'[q] = pc[q]
  BY StepsMove, MovesDo
<1>s. Send(r) => late'[r] = late[r] + (IF r \in over THEN 1 ELSE 0)
  BY SendTyped
<1>p. Spend(r) => over \subseteq over'
  BY DEF Spend
<1>1. CASE CannotCall(r) \/ Turn(r) \/ ToolLoop(r) \/ StartCLI(r) \/ AgenticCLI(r)
  <2>1. UNCHANGED <<over, late>>
    BY <1>1 DEF CannotCall, Turn, ToolLoop, StartCLI, AgenticCLI
  <2>2. pc[r] \in {"invoke", "turn", "cli"}
    BY <1>1 DEF CannotCall, Turn, ToolLoop, StartCLI, AgenticCLI
  <2>3. Thrifty(r)'
    BY <1>m, <2>1, <2>2 DEF Thrifty
  <2> QED BY <1>m, <2>1, <2>3, OthersThrifty
<1>2. CASE Initial(r)
  <2>1. pc[r] = "invoke" /\ Send(r) /\ (Spend(r) \/ UNCHANGED over)
    BY <1>2 DEF Initial, Fails
  <2>2. r \notin over /\ late[r] = 0
    BY <2>1 DEF Thrifty
  <2>3. late'[r] = 0
    BY <1>s, <2>1, <2>2
  <2>4. Thrifty(r)'
    BY <1>m, <2>3 DEF Thrifty
  <2> QED BY <1>m, <2>1, <2>4, OthersThrifty
<1>3. CASE Follow(r) \/ Resolve(r)
  <2>1. pc[r] \in {"follow", "resolve"} /\ Send(r) /\ (Spend(r) \/ UNCHANGED over)
    BY <1>3 DEF Follow, Resolve, Fails
  <2>2. late[r] = 0
    BY <2>1 DEF Thrifty
  <2>3. late'[r] = (IF r \in over THEN 1 ELSE 0) /\ over \subseteq over'
    BY <1>s, <1>p, <2>1, <2>2
  <2>4. pc'[r] \in {"handle", "final"} \/ (Follow(r) /\ r \notin over')
    <3>1. CASE Resolve(r)
      BY <1>t, <3>1 DEF Resolve, Return, Go
    <3>2. CASE Follow(r)
      <4>1. Fails(r) \/ r \notin over' \/ \E x \in Texts \cup {NoText} : Return(r, x, "budget")
        BY <3>2 DEF Follow
      <4> QED BY <1>t, <3>2, <4>1 DEF Fails, Return, Go
    <3> QED BY <1>3, <3>1, <3>2
  <2>5. Thrifty(r)'
    BY <1>m, <2>3, <2>4 DEF Thrifty
  <2> QED BY <1>m, <2>1, <2>5, OthersThrifty
<1>4. CASE RequestFinal(r)
  <2>1. /\ pc[r] = "final" /\ pc'[r] = "handle"
        /\ \/ UNCHANGED <<over, late>>
           \/ r \notin over /\ Send(r) /\ (Spend(r) \/ UNCHANGED over)
    BY <1>4, <1>t DEF RequestFinal, Return, Go
  <2>2. late'[r] <= 1
    BY <1>s, <2>1 DEF Thrifty
  <2>3. Thrifty(r)'
    BY <2>1, <2>2 DEF Thrifty
  <2> QED BY <1>m, <2>1, <2>3, OthersThrifty
<1> QED BY <1>1, <1>2, <1>3, <1>4

LEMMA SpendByNext ==
  ASSUME TInv, SpendInv, [Next]_vars
  PROVE  SpendInv'
<1>t. RunType /\ pc \in [Runs -> PCs] /\ late \in [Runs -> Nat]
  BY DEF TInv, RunType
<1>0. \A q \in Runs : Thrifty(q)
  BY ThriftyParts
<1>1. CASE UNCHANGED vars
  BY <1>1 DEF SpendInv
<1>2. ASSUME NEW r \in Runs, Begin(r) \/ KilledInNew(r) \/ CloseSession(r)
      PROVE  SpendInv'
  <2>1. /\ UNCHANGED <<over, late>> /\ pc'[r] \in {"exited", "killed", "invoke"}
        /\ pc'[r] = "invoke" => pc[r] = "idle"
        /\ \A q \in Runs \ {r} : pc'[q] = pc[q]
    BY <1>2, <1>t DEF Begin, KilledInNew, CloseSession, Go
  <2>2. Thrifty(r)'
    BY <1>0, <2>1 DEF Thrifty
  <2> QED BY <1>0, <1>t, <2>1, <2>2, OthersThrifty
<1>3. ASSUME NEW r \in Runs, Handle(r) \/ Kill(r)
      PROVE  SpendInv'
  <2>1. /\ Done(r) /\ pc'[r] \in {"close", "killed"} /\ late'[r] = 0
        /\ \A q \in Runs \ {r} : pc'[q] = pc[q]
    BY <1>3, <1>t DEF Handle, Kill, Go, Done
  <2>2. Thrifty(r)'
    BY <2>1 DEF Thrifty
  <2> QED BY <1>0, <1>t, <2>1, <2>2, OthersThrifty
<1>4. ASSUME NEW s \in Runs, Delete(s)
      PROVE  SpendInv'
  BY <1>4 DEF Delete, SpendInv
<1> QED BY <1>0, <1>t, <1>1, <1>2, <1>3, <1>4, CallsThrifty DEF Next, Step

(***************************************************************************)
(* The theorems                                                            *)
(***************************************************************************)

LEMMA AllBegin == Init => IInv
<1> SUFFICES ASSUME Init PROVE IInv
  OBVIOUS
<1>1. TInv /\ IdleInv /\ LoggerInv
  BY TypesBegin
<1>2. \A r \in Runs : ~ Live(r)
  BY DEF Init, Live
<1>3. OneWriterInv /\ CopyInv
  BY <1>2 DEF OneWriterInv, CopyInv
<1>4. LastInv /\ StatusIsOutcome
  BY DEF Init, LastInv, StatusIsOutcome, NoSession, NewMeta
<1>5. BackedInv /\ SpendInv
  BY DEF Init, BackedInv, EditsInv, ReportsAreBacked, SpendInv
<1> QED BY <1>1, <1>3, <1>4, <1>5 DEF IInv, SessionsInv

LEMMA AllKept == IInv /\ [Next]_vars => IInv'
BY TypesKept, SessionsKeptByNext, BackedByNext, SpendByNext DEF IInv, SessionsInv

LEMMA AlwaysIInv == Spec => []IInv
BY AllBegin, AllKept, PTL DEF Spec

\* Every step of a run leaves its loop, its session and its answer in a shape the
\* next handler expects, and the sessions numbered without gaps (runner/run.go,
\* session/session.go).
THEOREM TypeCorrect == Spec => []TypeOK
<1>1. IInv => TypeOK
  BY TypeParts DEF IInv
<1> QED BY <1>1, AlwaysIInv, PTL

\* A session's status is the outcome of the one run that wrote it, and "running"
\* only while a run lives or after one was killed (invokeAndHandle's deferred
\* closeSession), for any number of runs that resume, die and are deleted.
THEOREM StatusSound == Spec => []StatusIsOutcome
<1>1. IInv => StatusIsOutcome
  BY DEF IInv, SessionsInv
<1> QED BY <1>1, AlwaysIInv, PTL

\* A resumed run continues from the last response: meta.json names it at every
\* moment, a crash included, unless two live runs shared the session
\* (recordResponse, SetLastResponseID, Open).
THEOREM ResumesSound == Spec => []ResumesContinue
<1>1. IInv => ResumesContinue
  BY DEF IInv, SessionsInv, LastInv, ResumesContinue
<1> QED BY <1>1, AlwaysIInv, PTL

\* No run that must act ends well with a report of files nobody touched, in a
\* tree that was clean (validateActionableResponse, validateActionableChanges).
THEOREM ReportsSound == Spec => []ReportsAreBacked
<1>1. IInv => ReportsAreBacked
  BY DEF IInv, BackedInv
<1> QED BY <1>1, AlwaysIInv, PTL

\* Whatever the responses cost, at most one request follows the one that spent
\* the budget (RunWithTools, resolvePendingCalls, requestFinal).
THEOREM SpendingSound == Spec => []SpendingStops
<1>1. IInv => SpendingStops
  BY DEF IInv, SpendInv, SpendingStops
<1> QED BY <1>1, AlwaysIInv, PTL

-----------------------------------------------------------------------------
(***************************************************************************)
(* The skills of a run and of the runs that resume it: Skills, for every   *)
(* catalog, session log and batch of calls, and any number of crashes.     *)
(***************************************************************************)
CONSTANTS WorkDir, Disks, Configs, ChatLoop, Tools, SerialTools, Batches, Files, Outside,
          AppendFails, MaxBatches, MaxCrashes
VARIABLES found, log, batches, crashes

Sk == INSTANCE Skills WITH disk <- found

Elements(s) == {s[i] : i \in DOMAIN s}

\* A catalog has one entry of a name, and one of a directory.
Distinct(es) == \A e, f \in es : e.name = f.name \/ e.dir = f.dir => e = f

Logged == Elements(log)

\* The agent's skill n is on its stack, if it has one.
Held(a, n) == \A e \in entries[a] : e.name = n => e \in Elements(stack[a])

\* A skill is on the stack before its load is logged, and in the log before the
\* agent is given its text.
CallOK(a, c) ==
  /\ c = [tool |-> c.tool, arg |-> c.arg, pc |-> c.pc, got |-> c.got]
  /\ c.tool = "Skill" =>
       /\ c.pc = "pushed" => Held(a, c.arg)
       /\ c.pc = "done" /\ c.got # Sk!Refused => c.got \in Logged /\ Held(a, c.got)

AgentOK(a) ==
  /\ Distinct(entries[a]) /\ stack[a] \in Seq(entries[a])
  /\ a \notin live => entries[a] = {} /\ stack[a] = <<>> /\ batch[a] = <<>>
  /\ \A n \in told[a] : n \in Logged /\ Held(a, n)
  /\ \A i \in DOMAIN batch[a] : CallOK(a, batch[a][i])

PerAgent(f) == f = [a \in Agents |-> f[a]]

SkillsInv ==
  /\ found \in Disks /\ log \in Seq(Logged) /\ live \subseteq Agents
  /\ PerAgent(entries) /\ PerAgent(stack) /\ PerAgent(batch) /\ PerAgent(told)
  /\ \A a \in Agents : AgentOK(a)

LEMMA AppendedTo ==
  ASSUME NEW S, NEW s \in Seq(S), NEW x
  PROVE  /\ Elements(Append(s, x)) = Elements(s) \cup {x}
         /\ x \in S => Append(s, x) \in Seq(S)
         /\ s \in Seq(Elements(s)) => Append(s, x) \in Seq(Elements(s) \cup {x})
<1>1. /\ DOMAIN s = 1..Len(s) /\ Len(s) \in Nat
      /\ DOMAIN Append(s, x) = 1..(Len(s) + 1)
      /\ \A i \in 1..Len(s) : Append(s, x)[i] = s[i]
      /\ Append(s, x)[Len(s) + 1] = x
  OBVIOUS
<1>2. Elements(Append(s, x)) = Elements(s) \cup {x}
  <2>1. \A i \in DOMAIN s : i \in DOMAIN Append(s, x) /\ Append(s, x)[i] = s[i]
    BY <1>1
  <2>2. \A i \in DOMAIN Append(s, x) : i \in DOMAIN s \/ i = Len(s) + 1
    BY <1>1
  <2>3. Len(s) + 1 \in DOMAIN Append(s, x)
    BY <1>1
  <2> QED BY <1>1, <2>1, <2>2, <2>3 DEF Elements
<1>3. x \in S => Append(s, x) \in Seq(S)
  OBVIOUS
<1>4. s \in Seq(Elements(s)) => Append(s, x) \in Seq(Elements(s) \cup {x})
  <2> DEFINE E == Elements(s) \cup {x}
  <2>1. ASSUME s \in Seq(Elements(s)) PROVE s \in Seq(E) /\ x \in E
    <3>1. Elements(s) \subseteq E
      OBVIOUS
    <3> QED BY <2>1, <3>1
  <2> QED BY <2>1
<1> QED BY <1>2, <1>3, <1>4

LEMMA LeastNumber ==
  ASSUME NEW S \in SUBSET Nat, S # {}
  PROVE  \E x \in S : \A y \in S : x <= y
<1> DEFINE less == {ss \in Nat \X Nat : ss[1] < ss[2]}
<1>1. PICK x \in S : \A y \in S : <<y, x>> \notin less
  <2> HIDE DEF less
  <2> QED BY LessIsWellFounded, WFMin DEF less
<1>2. \A y \in S : ~(y < x)
  BY <1>1
<1> QED BY <1>2

LEMMA PlaceCounts ==
  ASSUME NEW S, NEW i
  PROVE  Sk!Place(S, i) = Cardinality({j \in S : j <= i})
BY Zenon DEF Sk!Place, Sk!Cardinality, Cardinality

\* The places of the members of a set of numbers are the numbers up to its size.
LEMMA PlacesFill ==
  ASSUME NEW S \in SUBSET Nat, IsFiniteSet(S)
  PROVE  /\ Cardinality(S) \in Nat
         /\ \A i \in S : Sk!Place(S, i) \in 1..Cardinality(S)
         /\ \A i, j \in S : Sk!Place(S, i) = Sk!Place(S, j) => i = j
         /\ \A k \in 1..Cardinality(S) : \E i \in S : Sk!Place(S, i) = k
<1>0. Cardinality(S) \in Nat
  BY FS_CardinalityType
<1>1. ASSUME NEW i \in S PROVE Sk!Place(S, i) \in 1..Cardinality(S)
  <2> DEFINE A == {j \in S : j <= i}
  <2>1. A \in SUBSET S /\ i \in A
    OBVIOUS
  <2>2. IsFiniteSet(A) /\ Cardinality(A) <= Cardinality(S) /\ Cardinality(A) \in Nat
    BY <2>1, FS_Subset, FS_CardinalityType
  <2>3. Cardinality(A) # 0
    BY <2>1, <2>2, FS_EmptySet
  <2> QED BY <1>0, <2>2, <2>3, PlaceCounts
<1>2. ASSUME NEW i \in S, NEW j \in S, i < j
      PROVE  Sk!Place(S, i) < Sk!Place(S, j)
  <2> DEFINE A == {x \in S : x <= i}
             B == {x \in S : x <= j}
  <2>0. /\ \A x \in S : x <= i => x <= j
        /\ j <= j /\ ~(j <= i)
    BY <1>2
  <2>1. A \in SUBSET B /\ B \in SUBSET S /\ j \in B /\ j \notin A
    BY <1>2, <2>0
  <2>2. IsFiniteSet(B) /\ Cardinality(B) \in Nat
    BY <2>1, FS_Subset, FS_CardinalityType
  <2>3. Cardinality(A) <= Cardinality(B) /\ Cardinality(A) # Cardinality(B) /\ Cardinality(A) \in Nat
    BY <2>1, <2>2, FS_Subset, FS_CardinalityType
  <2> QED BY <2>2, <2>3, PlaceCounts
<1>3. \A i, j \in S : Sk!Place(S, i) = Sk!Place(S, j) => i = j
  <2> SUFFICES ASSUME NEW i \in S, NEW j \in S, Sk!Place(S, i) = Sk!Place(S, j), i # j
               PROVE  FALSE
    OBVIOUS
  <2>1. i < j \/ j < i
    OBVIOUS
  <2>2. Sk!Place(S, i) \in Int /\ Sk!Place(S, j) \in Int
    BY <1>0, <1>1
  <2> QED BY <1>2, <2>1, <2>2
<1>4. \A k \in 1..Cardinality(S) : \E i \in S : Sk!Place(S, i) = k
  <2> DEFINE f == [i \in S |-> Sk!Place(S, i)]
             R == {Sk!Place(S, i) : i \in S}
  <2>1. f \in [S -> R] /\ \A i, j \in S : f[i] = f[j] => i = j
    BY <1>3
  <2>2. f \in Injection(S, R)
    BY <2>1 DEF Injection, IsInjective
  <2>3. \A k \in R : \E i \in S : f[i] = k
    OBVIOUS
  <2>4. f \in Surjection(S, R)
    BY <2>1, <2>3 DEF Surjection
  <2>5. ExistsBijection(S, R)
    BY <2>2, <2>4 DEF Bijection, ExistsBijection
  <2>6. Cardinality(R) = Cardinality(S)
    BY <2>5, FS_Bijection
  <2>7. R \in SUBSET (1..Cardinality(S))
    BY <1>1
  <2>8. IsFiniteSet(1..Cardinality(S)) /\ Cardinality(1..Cardinality(S)) = Cardinality(S)
    BY <1>0, FS_Interval
  <2>9. R = 1..Cardinality(S)
    BY <2>6, <2>7, <2>8, FS_Subset
  <2> QED BY <2>9
<1> QED BY <1>0, <1>1, <1>3, <1>4

\* Of the skills of a name, and of those of a directory, the catalog has one.
LEMMA CatalogIsDistinct ==
  ASSUME Sk!SkillsAssumption, NEW d \in Disks, NEW a
  PROVE  Distinct(Sk!Visible(d)) /\ Distinct(Sk!resolveSkills(a, d))
<1>1. /\ d \in Seq({d[i] : i \in DOMAIN d})
      /\ \A i \in DOMAIN d : d[i].scope \in 0..2
      /\ \A i, j \in DOMAIN d : d[i].dir = d[j].dir => d[i].name = d[j].name
  BY DEF Sk!SkillsAssumption, Sk!Repo, Sk!Shared
<1>2. Sk!resolveSkills(a, d) \subseteq Sk!Visible(d)
  BY DEF Sk!resolveSkills, Sk!Filter
<1>3. ASSUME NEW i \in Sk!Discover(d) \ Sk!Shadowed(d), NEW j \in Sk!Discover(d) \ Sk!Shadowed(d),
             d[i].name = d[j].name
      PROVE  i = j
  <2>1. i \in Int /\ j \in Int /\ d[i].scope \in Int /\ d[j].scope \in Int
    BY <1>1 DEF Sk!Discover
  <2>2. /\ ~(d[j].scope < d[i].scope \/ (d[j].scope = d[i].scope /\ j < i))
        /\ ~(d[i].scope < d[j].scope \/ (d[i].scope = d[j].scope /\ i < j))
    BY <1>3 DEF Sk!Shadowed
  <2> QED BY <2>1, <2>2
<1>4. ASSUME NEW e \in Sk!Visible(d), NEW f \in Sk!Visible(d), e.name = f.name \/ e.dir = f.dir
      PROVE  e = f
  <2>1. PICK i \in Sk!Discover(d) \ Sk!Shadowed(d) : e = d[i]
    BY DEF Sk!Visible
  <2>2. PICK j \in Sk!Discover(d) \ Sk!Shadowed(d) : f = d[j]
    BY DEF Sk!Visible
  <2>3. i \in DOMAIN d /\ j \in DOMAIN d
    BY DEF Sk!Discover
  <2>4. d[i].name = d[j].name
    BY <1>1, <1>4, <2>1, <2>2, <2>3
  <2> QED BY <1>3, <2>1, <2>2, <2>4
<1> QED BY <1>2, <1>4 DEF Distinct

\* A replay of the log pushes every skill that was loaded and is still there.
LEMMA ReplayIsComplete ==
  ASSUME NEW es, Distinct(es), NEW names, names \in Seq(Elements(names))
  PROVE  /\ Sk!Rehydrate(es, names) \in Seq(es)
         /\ \A e \in es : e.name \in Elements(names) => e \in Elements(Sk!Rehydrate(es, names))
<1> DEFINE entry(i) == CHOOSE e \in es : e.name = names[i]
           known == {i \in DOMAIN names : \E e \in es : e.name = names[i]}
           pushed == {i \in known : \A j \in known : entry(j).dir = entry(i).dir => i <= j}
           at(k) == CHOOSE i \in pushed : Sk!Place(pushed, i) = k
           n == Cardinality(pushed)
<1>1. \A i \in known : entry(i) \in es /\ entry(i).name = names[i]
  OBVIOUS
<1>2. known \in SUBSET Nat /\ known \subseteq DOMAIN names
  OBVIOUS
<1>3. pushed \in SUBSET known /\ pushed \in SUBSET Nat /\ IsFiniteSet(pushed)
  <2>1. pushed \in SUBSET known
    OBVIOUS
  <2>2. DOMAIN names = 1..Len(names) /\ Len(names) \in Nat
    OBVIOUS
  <2>3. pushed \in SUBSET (1..Len(names))
    BY <1>2, <2>1, <2>2
  <2>4. IsFiniteSet(1..Len(names))
    BY <2>2, FS_Interval
  <2>5. IsFiniteSet(pushed)
    <3> HIDE DEF pushed
    <3> QED BY <2>3, <2>4, FS_Subset
  <2> QED BY <1>2, <2>1, <2>5
<1>4. ASSUME NEW i \in known
      PROVE  \E j \in pushed : entry(j).dir = entry(i).dir
  <2> DEFINE same == {j \in known : entry(j).dir = entry(i).dir}
  <2>1. same \in SUBSET Nat /\ same # {}
    BY <1>2
  <2>2. PICK j \in same : \A k \in same : j <= k
    <3> HIDE DEF same
    <3> QED BY <2>1, LeastNumber
  <2> HIDE DEF entry, known, pushed, same
  <2>3. j \in known /\ entry(j).dir = entry(i).dir
    BY <2>2 DEF same
  <2>4. \A k \in known : entry(k).dir = entry(j).dir => j <= k
    BY <2>2, <2>3 DEF same
  <2>5. j \in pushed
    BY <2>3, <2>4 DEF pushed
  <2> QED BY <2>3, <2>5
<1>5. Sk!Rehydrate(es, names) = [k \in 1..n |-> entry(at(k))]
  <2>1. Sk!Cardinality(pushed) = n
    BY Zenon DEF Sk!Cardinality, Cardinality
  <2> QED BY <2>1 DEF Sk!Rehydrate
<1> HIDE DEF pushed, n
<1>6. /\ n \in Nat
      /\ \A i \in pushed : Sk!Place(pushed, i) \in 1..n
      /\ \A i, j \in pushed : Sk!Place(pushed, i) = Sk!Place(pushed, j) => i = j
      /\ \A k \in 1..n : \E i \in pushed : Sk!Place(pushed, i) = k
  BY <1>3, PlacesFill DEF n
<1>7. \A k \in 1..n : at(k) \in pushed /\ Sk!Place(pushed, at(k)) = k
  BY <1>6
<1>8. \A i \in pushed : at(Sk!Place(pushed, i)) = i
  BY <1>6, <1>7
<1> HIDE DEF at, entry, known
<1> DEFINE r == [k \in 1..n |-> entry(at(k))]
<1>9. r \in Seq(es)
  <2>1. \A k \in 1..n : entry(at(k)) \in es
    BY <1>1, <1>3, <1>7
  <2> QED BY <1>6, <2>1
<1>10. ASSUME NEW e \in es, e.name \in Elements(names)
       PROVE  e \in Elements(r)
  <2>1. PICK i \in known : names[i] = e.name
    BY <1>10 DEF Elements, known
  <2>2. PICK j \in pushed : entry(j).dir = entry(i).dir
    BY <1>4
  <2>3. entry(i) = e /\ entry(j) = e
    BY <1>1, <1>3, <2>1, <2>2 DEF Distinct
  <2>4. r[Sk!Place(pushed, j)] = e /\ Sk!Place(pushed, j) \in DOMAIN r
    BY <1>6, <1>8, <2>3
  <2> HIDE DEF r
  <2> QED BY <2>4 DEF Elements
<1> QED BY <1>5, <1>9, <1>10

\* Nothing is lost of an agent whose share of the state stays, while others log.
LEMMA AgentStays ==
  ASSUME NEW b \in Agents, AgentOK(b), b \in live' <=> b \in live,
         entries'[b] = entries[b], batch'[b] = batch[b], told'[b] = told[b],
         stack'[b] = stack[b], Logged \subseteq Logged'
  PROVE  AgentOK(b)'
<1>1. \A n : Held(b, n) => Held(b, n)'
  BY DEF Held
<1>2. \A c : CallOK(b, c) => CallOK(b, c)'
  <2> SUFFICES ASSUME NEW c, CallOK(b, c) PROVE CallOK(b, c)'
    OBVIOUS
  <2> QED BY <1>1 DEF CallOK
<1>3. (\A i \in DOMAIN batch[b] : CallOK(b, batch[b][i]))'
  BY <1>2 DEF AgentOK
<1>4. (\A n \in told[b] : n \in Logged /\ Held(b, n))'
  BY <1>1 DEF AgentOK
<1> QED BY <1>3, <1>4 DEF AgentOK

\* An agent that begins, with what its session has told it or nothing.
LEMMA AgentStarts ==
  ASSUME Sk!SkillsAssumption, SkillsInv, NEW a \in Agents, a \notin live, found' \in Disks,
         Sk!Start(a), UNCHANGED <<batch, log>>, PerAgent(told)',
         told'[a] \subseteq told[a], \A b \in Agents \ {a} : told'[b] = told[b]
  PROVE  SkillsInv'
<1> DEFINE es == Sk!resolveSkills(a, found')
           st == Sk!Rehydrate(es, log)
<1>1. /\ live' = live \cup {a}
      /\ entries' = [entries EXCEPT ![a] = es]
      /\ stack' = [stack EXCEPT ![a] = st]
  BY DEF Sk!Start
<1>2. PerAgent(entries)' /\ PerAgent(stack)' /\ PerAgent(batch)'
  BY <1>1 DEF SkillsInv, PerAgent
<1>3. entries'[a] = es /\ stack'[a] = st /\ batch'[a] = <<>>
  BY <1>1 DEF SkillsInv, PerAgent, AgentOK
<1>4. Distinct(es)
  BY CatalogIsDistinct
<1>5. st \in Seq(es) /\ \A e \in es : e.name \in Logged => e \in Elements(st)
  <2> HIDE DEF es
  <2> QED BY <1>4, ReplayIsComplete DEF SkillsInv, Logged
<1>6. Logged' = Logged
  BY DEF Logged
<1>7. \A n \in Logged : Held(a, n)'
  BY <1>3, <1>5 DEF Held
<1> HIDE DEF es, st
<1>8. AgentOK(a)'
  <2>1. \A n \in told'[a] : n \in Logged
    BY DEF SkillsInv, AgentOK
  <2>2. (\A n \in told[a] : n \in Logged /\ Held(a, n))'
    BY <1>6, <1>7, <2>1
  <2> QED BY <1>1, <1>3, <1>4, <1>5, <2>2 DEF AgentOK
<1>9. ASSUME NEW b \in Agents, b # a PROVE AgentOK(b)'
  <2>1. entries'[b] = entries[b] /\ stack'[b] = stack[b] /\ batch'[b] = batch[b] /\ told'[b] = told[b]
    BY <1>1, <1>9 DEF SkillsInv, PerAgent
  <2>2. b \in live' <=> b \in live
    BY <1>1, <1>9
  <2>3. AgentOK(b)
    BY DEF SkillsInv
  <2> QED BY <1>6, <2>1, <2>2, <2>3, AgentStays
<1>10. (\A b \in Agents : AgentOK(b))'
  BY <1>8, <1>9
<1>11. log' \in Seq(Logged') /\ live' \subseteq Agents
  BY <1>1, <1>6 DEF SkillsInv
<1> QED BY <1>2, <1>10, <1>11 DEF SkillsInv

\* An agent of which nothing is left, its session's record of what it was told apart.
LEMMA NothingLeft ==
  ASSUME NEW a \in Agents, entries'[a] = {}, stack'[a] = <<>>, batch'[a] = <<>>,
         \A n \in told'[a] : n \in Logged'
  PROVE  AgentOK(a)'
<1>1. (\A n \in told[a] : n \in Logged /\ Held(a, n))'
  BY DEF Held
<1>2. stack'[a] \in Seq(entries'[a])
  OBVIOUS
<1>3. Distinct(entries'[a])
  BY DEF Distinct
<1> QED BY <1>1, <1>2, <1>3 DEF AgentOK

LEMMA CallChanges ==
  ASSUME PerAgent(batch), NEW a \in Agents, NEW i \in DOMAIN batch[a], NEW p, NEW g,
         CallOK(a, batch[a][i]), Sk!Set(a, i, p, g)
  PROVE  /\ PerAgent(batch)' /\ DOMAIN batch'[a] = DOMAIN batch[a]
         /\ \A b \in Agents \ {a} : batch'[b] = batch[b]
         /\ \A j \in DOMAIN batch[a] \ {i} : batch'[a][j] = batch[a][j]
         /\ batch'[a][i] = [tool |-> batch[a][i].tool, arg |-> batch[a][i].arg, pc |-> p, got |-> g]
<1> DEFINE c == batch[a][i]
<1>1. c = [tool |-> c.tool, arg |-> c.arg, pc |-> c.pc, got |-> c.got]
  BY DEF CallOK
<1>2. DOMAIN batch = Agents
  BY DEF PerAgent
<1>3. batch' = [batch EXCEPT ![a] = [batch[a] EXCEPT ![i] = [[c EXCEPT !.pc = p] EXCEPT !.got = g]]]
  BY <1>2 DEF Sk!Set
<1>4. [[c EXCEPT !.pc = p] EXCEPT !.got = g] = [tool |-> c.tool, arg |-> c.arg, pc |-> p, got |-> g]
  <2> DEFINE t == c.tool
             x == c.arg
             q == c.pc
             h == c.got
  <2>1. c = [tool |-> t, arg |-> x, pc |-> q, got |-> h]
    BY <1>1
  <2> HIDE DEF c, t, x, q, h
  <2> DEFINE d == [tool |-> t, arg |-> x, pc |-> p, got |-> h]
  <2>2. [c EXCEPT !.pc = p] = d
    BY <2>1
  <2>3. [d EXCEPT !.got = g] = [tool |-> t, arg |-> x, pc |-> p, got |-> g]
    OBVIOUS
  <2> HIDE DEF d
  <2>4. [[c EXCEPT !.pc = p] EXCEPT !.got = g] = [d EXCEPT !.got = g]
    BY Zenon, <2>2
  <2> QED BY <2>3, <2>4 DEF t, x
<1> HIDE DEF c
<1> QED BY <1>2, <1>3, <1>4 DEF PerAgent, c

\* A call moves on; stacks and the log only grow.
LEMMA CallMoves ==
  ASSUME SkillsInv, NEW a \in Agents, NEW i \in DOMAIN batch[a], NEW x, batch[a][i].arg = x,
         NEW p, NEW g, Sk!Set(a, i, p, g),
         UNCHANGED <<found, live, entries, told>>,
         log' \in Seq(Logged'), Logged \subseteq Logged',
         PerAgent(stack)', \A b \in Agents \ {a} : stack'[b] = stack[b],
         stack'[a] \in Seq(entries[a]), Elements(stack[a]) \subseteq Elements(stack'[a]),
         batch[a][i].tool = "Skill" =>
           /\ p = "pushed" => Held(a, x)'
           /\ p = "done" /\ g # Sk!Refused => g \in Logged' /\ Held(a, g)'
  PROVE  SkillsInv'
<1>0. AgentOK(a) /\ CallOK(a, batch[a][i])
  BY DEF SkillsInv, AgentOK
<1>1. /\ PerAgent(batch)' /\ DOMAIN batch'[a] = DOMAIN batch[a]
      /\ \A b \in Agents \ {a} : batch'[b] = batch[b]
      /\ \A j \in DOMAIN batch[a] \ {i} : batch'[a][j] = batch[a][j]
      /\ batch'[a][i] = [tool |-> batch[a][i].tool, arg |-> batch[a][i].arg, pc |-> p, got |-> g]
  BY <1>0, CallChanges DEF SkillsInv
<1>2. \A n : Held(a, n) => Held(a, n)'
  BY DEF Held
<1>3. a \in live
  <2>1. a \notin live => batch[a] = <<>>
    BY <1>0 DEF AgentOK
  <2> QED BY <2>1
<1>4. (\A j \in DOMAIN batch[a] : CallOK(a, batch[a][j]))'
  <2>1. CallOK(a, batch[a][i])'
    BY <1>1 DEF CallOK
  <2>2. ASSUME NEW j \in DOMAIN batch[a] \ {i} PROVE CallOK(a, batch[a][j])'
    <3>1. CallOK(a, batch[a][j]) /\ batch'[a][j] = batch[a][j]
      BY <1>0, <1>1 DEF AgentOK
    <3> QED BY <1>2, <3>1 DEF CallOK
  <2> QED BY <1>1, <2>1, <2>2
<1>5. (\A n \in told[a] : n \in Logged /\ Held(a, n))'
  BY <1>0, <1>2 DEF AgentOK
<1>6. AgentOK(a)'
  BY <1>0, <1>3, <1>4, <1>5 DEF AgentOK
<1>7. ASSUME NEW b \in Agents, b # a PROVE AgentOK(b)'
  <2>1. AgentOK(b)
    BY DEF SkillsInv
  <2> QED BY <1>1, <1>7, <2>1, AgentStays
<1>8. (\A b \in Agents : AgentOK(b))'
  BY <1>6, <1>7
<1> QED BY <1>1, <1>8 DEF SkillsInv, PerAgent

LEMMA SkillsInitially == Sk!Init => SkillsInv
<1> SUFFICES ASSUME Sk!Init PROVE SkillsInv
  OBVIOUS
<1>1. /\ found \in Disks /\ live = {} /\ log = <<>>
      /\ entries = [a \in Agents |-> {}] /\ told = [a \in Agents |-> {}]
      /\ stack = [a \in Agents |-> <<>>] /\ batch = [a \in Agents |-> <<>>]
  BY DEF Sk!Init, Sk!Agents, Agents
<1>2. PerAgent(entries) /\ PerAgent(stack) /\ PerAgent(batch) /\ PerAgent(told)
  BY <1>1 DEF PerAgent
<1>3. ASSUME NEW a \in Agents PROVE AgentOK(a)
  <2>1. entries[a] = {} /\ told[a] = {} /\ stack[a] = <<>> /\ batch[a] = <<>>
    BY <1>1
  <2> QED BY <2>1 DEF AgentOK, Distinct
<1> QED BY <1>1, <1>2, <1>3 DEF SkillsInv

\* One call of a batch: checked, loading, logged, or run.
LEMMA CallStep ==
  ASSUME ~AppendFails, SkillsInv, NEW a \in Agents, NEW i \in DOMAIN batch[a],
         Sk!Check(a, i) \/ Sk!Load(a, i) \/ Sk!OnLoad(a, i) \/ Sk!RunTool(a, i)
  PROVE  SkillsInv'
<1>x. PICK x : batch[a][i].arg = x
  OBVIOUS
<1>0. AgentOK(a) /\ CallOK(a, batch[a][i]) /\ PerAgent(stack) /\ log \in Seq(Logged)
  BY DEF SkillsInv, AgentOK
<1>1. ASSUME UNCHANGED <<stack, log>>
      PROVE  /\ log' \in Seq(Logged') /\ Logged \subseteq Logged' /\ PerAgent(stack)'
             /\ \A b \in Agents \ {a} : stack'[b] = stack[b]
             /\ stack'[a] \in Seq(entries[a]) /\ Elements(stack[a]) \subseteq Elements(stack'[a])
  BY <1>0, <1>1 DEF Logged, PerAgent, AgentOK
<1>2. CASE Sk!Check(a, i)
  <2>1. UNCHANGED <<found, live, entries, told, stack, log>>
    BY <1>2 DEF Sk!Check
  <2>2. Sk!Set(a, i, "runs", Sk!Nowhere) \/ Sk!Set(a, i, "done", Sk!Refused)
    BY <1>2 DEF Sk!Check
  <2> QED BY <1>1, <2>1, <2>2, <1>x, CallMoves
<1>3. CASE Sk!Load(a, i)
  <2> DEFINE known == {f \in entries[a] : f.name = x}
  <2>1. UNCHANGED <<found, live, entries, told, log>>
    BY <1>3 DEF Sk!Load
  <2>2. CASE known = {}
    <3>1. Sk!Set(a, i, "done", Sk!Refused) /\ UNCHANGED stack
      BY <1>x, <1>3, <2>2 DEF Sk!Load
    <3> QED BY <1>1, <2>1, <3>1, <1>x, CallMoves
  <2>3. CASE known # {}
    <3>0. PICK e : e = CHOOSE f \in known : TRUE
      OBVIOUS
    <3>1. /\ Sk!Set(a, i, "pushed", Sk!Nowhere)
          /\ stack' = [stack EXCEPT ![a] = Sk!Push(stack[a], e)]
      BY <1>x, <1>3, <2>3, <3>0 DEF Sk!Load
    <3>2. e \in entries[a] /\ e.name = x
      BY <2>3, <3>0
    <3> HIDE DEF known
    <3>3. stack[a] \in Seq(entries[a]) /\ Distinct(entries[a])
      BY <1>0 DEF AgentOK
    <3>4. /\ Sk!Push(stack[a], e) \in Seq(entries[a])
          /\ e \in Elements(Sk!Push(stack[a], e))
          /\ Elements(stack[a]) \subseteq Elements(Sk!Push(stack[a], e))
      <4>1. CASE e.dir \in Sk!DirsOf(stack[a])
        <5>1. PICK k \in DOMAIN stack[a] : stack[a][k].dir = e.dir
          BY <4>1 DEF Sk!DirsOf
        <5>2. stack[a][k] \in entries[a]
          BY <3>3
        <5>3. stack[a][k] = e
          BY <3>2, <3>3, <5>1, <5>2 DEF Distinct
        <5> QED BY <3>3, <4>1, <5>3 DEF Sk!Push, Elements
      <4>2. CASE e.dir \notin Sk!DirsOf(stack[a])
        <5>1. Sk!Push(stack[a], e) = Append(stack[a], e)
          BY <4>2 DEF Sk!Push
        <5>2. /\ Elements(Append(stack[a], e)) = Elements(stack[a]) \cup {e}
              /\ Append(stack[a], e) \in Seq(entries[a])
          BY <3>2, <3>3, AppendedTo
        <5> QED BY <5>1, <5>2
      <4> QED BY <4>1, <4>2
    <3>5. stack'[a] = Sk!Push(stack[a], e) /\ PerAgent(stack)'
      BY <1>0, <3>1 DEF PerAgent
    <3>6. \A b \in Agents \ {a} : stack'[b] = stack[b]
      BY <1>0, <3>1 DEF PerAgent
    <3>7. Held(a, x)'
      <4>1. \A f \in entries[a] : f.name = x => f = e
        BY <3>2, <3>3 DEF Distinct
      <4> QED BY <2>1, <3>4, <3>5, <4>1 DEF Held
    <3>8. log' \in Seq(Logged') /\ Logged \subseteq Logged'
      BY <1>0, <2>1 DEF Logged
    <3> QED BY <2>1, <3>1, <3>4, <3>5, <3>6, <3>7, <3>8, <1>x, CallMoves
  <2> QED BY <2>2, <2>3
<1>4. CASE Sk!OnLoad(a, i)
  <2>1. /\ UNCHANGED <<found, live, entries, told, stack>> /\ Sk!Set(a, i, "done", x)
        /\ batch[a][i].pc = "pushed" /\ log' = Append(log, x)
    BY <1>x, <1>4 DEF Sk!OnLoad
  <2>2. Logged' = Logged \cup {x} /\ log' \in Seq(Logged')
    <3>1. log \in Seq(Elements(log))
      BY <1>0 DEF Logged
    <3>2. /\ Elements(Append(log, x)) = Elements(log) \cup {x}
          /\ Append(log, x) \in Seq(Elements(log) \cup {x})
      BY <3>1, AppendedTo
    <3> QED BY <2>1, <3>2 DEF Logged
  <2>3. batch[a][i].tool = "Skill" => Held(a, x)'
    <3>1. batch[a][i].tool = "Skill" => Held(a, x)
      BY <1>0, <1>x, <2>1 DEF CallOK
    <3> QED BY <2>1, <3>1 DEF Held
  <2>4. /\ PerAgent(stack)' /\ \A b \in Agents \ {a} : stack'[b] = stack[b]
        /\ stack'[a] \in Seq(entries[a]) /\ Elements(stack[a]) \subseteq Elements(stack'[a])
    BY <1>0, <2>1 DEF PerAgent, AgentOK
  <2>5. Logged \subseteq Logged' /\ x \in Logged'
    BY <2>2
  <2> QED BY <2>1, <2>2, <2>3, <2>4, <2>5, <1>x, CallMoves
<1>5. CASE Sk!RunTool(a, i)
  <2>1. UNCHANGED <<found, live, entries, told, stack, log>> /\ batch[a][i].tool # "Skill"
    BY <1>x, <1>5 DEF Sk!RunTool
  <2>2. Sk!Set(a, i, "done", Sk!Resolve(Sk!Active(a), x))
    BY <1>x, <1>5 DEF Sk!RunTool
  <2> DEFINE g == Sk!Resolve(Sk!Active(a), x)
  <2> HIDE DEF g
  <2>3. Sk!Set(a, i, "done", g)
    BY <2>2 DEF g
  <2> QED BY <1>1, <2>1, <2>3, <1>x, CallMoves
<1> QED BY <1>2, <1>3, <1>4, <1>5

\* The answers go back: what a load returned is known and held.
LEMMA AnswerStep ==
  ASSUME SkillsInv, NEW a \in Agents, Sk!Answer(a)
  PROVE  SkillsInv'
<1> DEFINE loads == {batch[a][i].got : i \in {i \in DOMAIN batch[a] :
                                   batch[a][i].tool = "Skill" /\ batch[a][i].got # Sk!Refused}}
<1>1. /\ told' = [told EXCEPT ![a] = told[a] \cup loads]
      /\ batch' = [batch EXCEPT ![a] = <<>>]
      /\ \A i \in DOMAIN batch[a] : batch[a][i].pc = "done"
      /\ UNCHANGED <<found, live, entries, stack, log>>
  BY DEF Sk!Answer
<1>2. \A n \in loads : n \in Logged /\ Held(a, n)
  BY <1>1 DEF SkillsInv, AgentOK, CallOK
<1> HIDE DEF loads
<1>3. PerAgent(told)' /\ PerAgent(batch)' /\ PerAgent(entries)' /\ PerAgent(stack)'
  BY <1>1 DEF SkillsInv, PerAgent
<1>4. told'[a] = told[a] \cup loads /\ batch'[a] = <<>>
  BY <1>1 DEF SkillsInv, PerAgent
<1>5. Logged' = Logged /\ \A n : Held(a, n) => Held(a, n)'
  BY <1>1 DEF Logged, Held
<1>6. AgentOK(a)'
  <2>1. AgentOK(a)
    BY DEF SkillsInv
  <2>2. (\A n \in told[a] : n \in Logged /\ Held(a, n))'
    BY <1>2, <1>4, <1>5, <2>1 DEF AgentOK
  <2> QED BY <1>1, <1>4, <2>1, <2>2 DEF AgentOK
<1>7. ASSUME NEW b \in Agents, b # a PROVE AgentOK(b)'
  <2>1. entries'[b] = entries[b] /\ stack'[b] = stack[b] /\ batch'[b] = batch[b] /\ told'[b] = told[b]
    BY <1>1, <1>7 DEF SkillsInv, PerAgent
  <2>2. AgentOK(b)
    BY DEF SkillsInv
  <2> QED BY <1>1, <1>5, <2>1, <2>2, AgentStays
<1>8. (\A b \in Agents : AgentOK(b))'
  BY <1>6, <1>7
<1>9. log' \in Seq(Logged') /\ found' \in Disks /\ live' \subseteq Agents
  BY <1>1, <1>5 DEF SkillsInv
<1> QED BY <1>3, <1>8, <1>9 DEF SkillsInv

LEMMA EmitStep ==
  ASSUME SkillsInv, NEW a \in Agents, Sk!Emit(a)
  PROVE  SkillsInv'
<1>1. PICK calls \in Batches :
        batch' = [batch EXCEPT ![a] =
          [i \in DOMAIN calls |-> [tool |-> calls[i].tool, arg |-> calls[i].arg,
                                   pc |-> "new", got |-> Sk!Nowhere]]]
  BY DEF Sk!Emit
<1>2. a \in live /\ UNCHANGED <<found, live, entries, stack, log, told>>
  BY DEF Sk!Emit
<1>3. PerAgent(told)' /\ PerAgent(batch)' /\ PerAgent(entries)' /\ PerAgent(stack)'
  BY <1>1, <1>2 DEF SkillsInv, PerAgent
<1>4. batch'[a] = [i \in DOMAIN calls |-> [tool |-> calls[i].tool, arg |-> calls[i].arg,
                                           pc |-> "new", got |-> Sk!Nowhere]]
  BY <1>1 DEF SkillsInv, PerAgent
<1>5. Logged' = Logged /\ \A n : Held(a, n) => Held(a, n)'
  BY <1>2 DEF Logged, Held
<1>6. AgentOK(a)'
  <2>1. AgentOK(a)
    BY DEF SkillsInv
  <2>2. (\A n \in told[a] : n \in Logged /\ Held(a, n))'
    BY <1>2, <1>5, <2>1 DEF AgentOK
  <2>3. (\A i \in DOMAIN batch[a] : CallOK(a, batch[a][i]))'
    BY <1>4 DEF CallOK
  <2> QED BY <1>2, <2>1, <2>2, <2>3 DEF AgentOK
<1>7. ASSUME NEW b \in Agents, b # a PROVE AgentOK(b)'
  <2>1. entries'[b] = entries[b] /\ stack'[b] = stack[b] /\ batch'[b] = batch[b] /\ told'[b] = told[b]
    BY <1>1, <1>2, <1>7 DEF SkillsInv, PerAgent
  <2>2. AgentOK(b)
    BY DEF SkillsInv
  <2> QED BY <1>2, <1>5, <2>1, <2>2, AgentStays
<1>8. (\A b \in Agents : AgentOK(b))'
  BY <1>6, <1>7
<1>9. log' \in Seq(Logged') /\ found' \in Disks /\ live' \subseteq Agents
  BY <1>2, <1>5 DEF SkillsInv
<1> QED BY <1>3, <1>8, <1>9 DEF SkillsInv

LEMMA SkillsNext ==
  ASSUME Sk!SkillsAssumption, ~AppendFails, SkillsInv, [Sk!Next]_Sk!vars
  PROVE  SkillsInv'
<1>a. Main \in Agents /\ Sub \in Agents /\ Main # Sub /\ Sk!Agents = Agents
  BY DEF Agents, Sk!Agents, Sk!SkillsAssumption
<1>1. CASE Sk!Run
  <2>1. /\ Main \notin live /\ Sk!Start(Main) /\ UNCHANGED <<batch, log, told>>
        /\ found' \in Disks
    BY <1>1 DEF Sk!Run, SkillsInv
  <2>2. PerAgent(told)'
    BY <2>1 DEF SkillsInv, PerAgent
  <2> QED BY <1>a, <2>1, <2>2, AgentStarts
<1>2. CASE Sk!Spawn
  <2>1. /\ Sub \notin live /\ Sk!Start(Sub) /\ UNCHANGED <<found, batch, log>>
        /\ told' = [told EXCEPT ![Sub] = {}]
    BY <1>2 DEF Sk!Spawn
  <2>2. /\ PerAgent(told)' /\ told'[Sub] \subseteq told[Sub]
        /\ \A b \in Agents \ {Sub} : told'[b] = told[b]
    BY <1>a, <2>1 DEF SkillsInv, PerAgent
  <2>3. found' \in Disks
    BY <2>1 DEF SkillsInv
  <2> QED BY <1>a, <2>1, <2>2, <2>3, AgentStarts
<1>3. CASE Sk!SubReturns
  <2>1. /\ batch[Sub] = <<>> /\ UNCHANGED <<found, batch, log>>
        /\ live' = live \ {Sub}
        /\ entries' = [entries EXCEPT ![Sub] = {}]
        /\ stack' = [stack EXCEPT ![Sub] = <<>>]
        /\ told' = [told EXCEPT ![Sub] = {}]
    BY <1>3 DEF Sk!SubReturns
  <2>2. PerAgent(told)' /\ PerAgent(batch)' /\ PerAgent(entries)' /\ PerAgent(stack)'
    BY <2>1 DEF SkillsInv, PerAgent
  <2>3. Logged' = Logged
    BY <2>1 DEF Logged
  <2>4. entries'[Sub] = {} /\ stack'[Sub] = <<>> /\ batch'[Sub] = <<>> /\ told'[Sub] = {}
    BY <1>a, <2>1 DEF SkillsInv, PerAgent
  <2>5. AgentOK(Sub)'
    BY <1>a, <2>4, NothingLeft
  <2>6. ASSUME NEW b \in Agents, b # Sub PROVE AgentOK(b)'
    <3>1. entries'[b] = entries[b] /\ stack'[b] = stack[b] /\ batch'[b] = batch[b] /\ told'[b] = told[b]
      BY <2>1, <2>6 DEF SkillsInv, PerAgent
    <3>2. AgentOK(b) /\ (b \in live' <=> b \in live)
      BY <2>1, <2>6 DEF SkillsInv
    <3> QED BY <2>3, <3>1, <3>2, AgentStays
  <2>7. (\A b \in Agents : AgentOK(b))'
    BY <2>5, <2>6
  <2>8. log' \in Seq(Logged') /\ found' \in Disks /\ live' \subseteq Agents
    BY <2>1, <2>3 DEF SkillsInv
  <2> QED BY <2>2, <2>7, <2>8 DEF SkillsInv
<1>4. CASE Sk!Crash
  <2>1. /\ UNCHANGED <<found, log>> /\ live' = {}
        /\ entries' = [a \in Agents |-> {}] /\ stack' = [a \in Agents |-> <<>>]
        /\ batch' = [a \in Agents |-> <<>>] /\ told' = [told EXCEPT ![Sub] = {}]
    BY <1>4, <1>a DEF Sk!Crash
  <2>2. PerAgent(told)' /\ PerAgent(batch)' /\ PerAgent(entries)' /\ PerAgent(stack)'
    BY <2>1 DEF SkillsInv, PerAgent
  <2>3. Logged' = Logged
    BY <2>1 DEF Logged
  <2>4. ASSUME NEW b \in Agents PROVE AgentOK(b)'
    <3>1. entries'[b] = {} /\ stack'[b] = <<>> /\ batch'[b] = <<>>
      BY <2>1
    <3>2. told'[b] \subseteq told[b]
      BY <1>a, <2>1 DEF SkillsInv, PerAgent
    <3>3. \A n \in told'[b] : n \in Logged'
      BY <2>3, <3>2 DEF SkillsInv, AgentOK
    <3> QED BY <3>1, <3>3, NothingLeft
  <2>5. (\A b \in Agents : AgentOK(b))'
    BY <2>4
  <2>6. log' \in Seq(Logged') /\ found' \in Disks /\ live' \subseteq Agents
    BY <2>1, <2>3 DEF SkillsInv
  <2> QED BY <2>2, <2>5, <2>6 DEF SkillsInv
<1>5. ASSUME NEW a \in Agents, Sk!Emit(a) \/ Sk!Answer(a) PROVE SkillsInv'
  BY <1>5, EmitStep, AnswerStep
<1>6. ASSUME NEW a \in Agents, NEW i \in DOMAIN batch[a],
             Sk!Check(a, i) \/ Sk!Load(a, i) \/ Sk!OnLoad(a, i) \/ Sk!RunTool(a, i)
      PROVE  SkillsInv'
  BY <1>6, CallStep
<1>7. CASE UNCHANGED Sk!vars
  <2>1. UNCHANGED <<found, live, entries, stack, batch, log, told>>
    BY <1>7 DEF Sk!vars
  <2>2. Logged' = Logged
    BY <2>1 DEF Logged
  <2>3. ASSUME NEW b \in Agents PROVE AgentOK(b)'
    <3>1. AgentOK(b)
      BY DEF SkillsInv
    <3> QED BY <2>1, <2>2, <3>1, AgentStays
  <2>4. (\A b \in Agents : AgentOK(b))'
    BY <2>3
  <2> QED BY <2>1, <2>2, <2>4 DEF SkillsInv, PerAgent
<1> QED BY <1>a, <1>1, <1>2, <1>3, <1>4, <1>5, <1>6, <1>7 DEF Sk!Next

LEMMA SkillsInvHolds ==
  ASSUME Sk!SkillsAssumption, ~AppendFails
  PROVE  Sk!Spec => []SkillsInv
<1>1. SkillsInv /\ [Sk!Next]_Sk!vars => SkillsInv'
  BY SkillsNext
<1> QED BY <1>1, SkillsInitially, PTL DEF Sk!Spec

\* A skill whose text an agent was given is on the agent's stack, through any
\* batches, crashes and changes of the catalog, as long as session events can be
\* written (runner/model.go rehydrateSkillStack, tools/skill.go skillTool).
THEOREM LoadsSound ==
  ASSUME Sk!SkillsAssumption, ~AppendFails
  PROVE  Sk!Spec => []LoadsSurvive
<1>1. SkillsInv => LoadsSurvive
  <2> SUFFICES ASSUME SkillsInv, NEW a \in live, NEW e \in entries[a], e.name \in told[a]
               PROVE  e.name \in NamesOf(stack[a])
    BY DEF LoadsSurvive
  <2>1. a \in Agents
    BY DEF SkillsInv
  <2>2. e \in Elements(stack[a])
    BY <2>1 DEF SkillsInv, AgentOK, Held
  <2> QED BY <2>2 DEF Elements, NamesOf
<1> QED BY <1>1, SkillsInvHolds, PTL

\* A call that starts is allowed by every skill whose text was given to the agent
\* that owns the runtime: one on the stack would have stopped it
\* (tools/tools.go executeToolCall, tools/skill.go AllowsTool).
THEOREM RestrictionsSound ==
  ASSUME Sk!SkillsAssumption, ~AppendFails
  PROVE  Sk!Spec => RestrictionsHold
<1>1. ASSUME SkillsInv, [Sk!Next]_Sk!vars
      PROVE  [StartsAreAllowed]_<<live, entries, stack, batch, told>>
  <2> SUFFICES ASSUME Sk!Next PROVE StartsAreAllowed
    BY <1>1 DEF Sk!vars
  <2> SUFFICES ASSUME NEW a \in Agents, NEW i \in DOMAIN batch[a],
                      batch[a][i].pc = "new", batch[a][i].tool # "Skill", Owner(a) # NoOwner,
                      i \in DOMAIN batch'[a], batch'[a][i].pc = "runs",
                      NEW e \in entries[Owner(a)], e.name \in told[Owner(a)]
               PROVE  Allows(e, batch[a][i].tool)
    BY DEF StartsAreAllowed
  <2>a. DOMAIN batch = Agents /\ PerAgent(batch) /\ Sk!Agents = Agents
    BY <1>1 DEF SkillsInv, PerAgent, Sk!Agents, Agents
  <2>b. batch'[a] # batch[a] /\ batch[a] # <<>> /\ batch'[a] # <<>>
    OBVIOUS
  <2>c. ASSUME NEW b \in Agents, NEW j \in DOMAIN batch[b], NEW p, NEW g, Sk!Set(b, j, p, g)
        PROVE  b = a /\ j = i /\ p = "runs"
    <3>1. CallOK(b, batch[b][j])
      BY <1>1 DEF SkillsInv, AgentOK
    <3>2. /\ \A c \in Agents \ {b} : batch'[c] = batch[c]
          /\ \A k \in DOMAIN batch[b] \ {j} : batch'[b][k] = batch[b][k]
          /\ batch'[b][j] = [tool |-> batch[b][j].tool, arg |-> batch[b][j].arg, pc |-> p, got |-> g]
      BY <2>a, <2>c, <3>1, CallChanges
    <3>3. b = a
      BY <2>b, <3>2
    <3>4. j = i
      BY <3>2, <3>3
    <3> QED BY <3>2, <3>3, <3>4
  <2>1. Sk!Check(a, i)
    <3>1. ~(Sk!Run \/ Sk!Spawn \/ Sk!SubReturns \/ Sk!Crash)
      BY <2>a, <2>b DEF Sk!Run, Sk!Spawn, Sk!SubReturns, Sk!Crash
    <3>2. ASSUME NEW b \in Agents, Sk!Emit(b) \/ Sk!Answer(b) PROVE FALSE
      BY <2>a, <2>b, <3>2 DEF Sk!Emit, Sk!Answer
    <3>3. ASSUME NEW b \in Agents, NEW j \in DOMAIN batch[b],
                 Sk!Load(b, j) \/ Sk!OnLoad(b, j) \/ Sk!RunTool(b, j)
          PROVE  FALSE
      <4>1. batch[b][j].pc \in {"runs", "pushed"}
        BY <3>3 DEF Sk!Load, Sk!OnLoad, Sk!RunTool
      <4>2. \E p, g : Sk!Set(b, j, p, g)
        BY <3>3 DEF Sk!Load, Sk!OnLoad, Sk!RunTool
      <4> QED BY <2>c, <4>1, <4>2
    <3>4. PICK b \in Agents : \E j \in DOMAIN batch[b] : Sk!Check(b, j)
      BY <2>a, <3>1, <3>2, <3>3 DEF Sk!Next
    <3>5. PICK j \in DOMAIN batch[b] : Sk!Check(b, j)
      BY <3>4
    <3>6. \E p, g : Sk!Set(b, j, p, g)
      BY <3>5 DEF Sk!Check
    <3> QED BY <2>c, <3>5, <3>6
  <2>2. Sk!AllowsTool(Sk!Active(a), batch[a][i].tool)
    <3>1. ~Sk!Set(a, i, "done", Sk!Refused)
      BY <2>c
    <3> QED BY <2>1, <3>1 DEF Sk!Check
  <2> DEFINE o == Owner(a)
  <2>3. o \in Agents
    BY DEF Owner, Agents
  <2>4. Sk!Active(a) = stack[o]
    BY DEF Sk!Active, Sk!Owner, Owner, Sk!NoOwner, NoOwner
  <2>5. e \in Elements(stack[o])
    BY <1>1, <2>3 DEF SkillsInv, AgentOK, Held
  <2> HIDE DEF o
  <2>6. PICK k \in DOMAIN stack[o] : stack[o][k] = e
    BY <2>5 DEF Elements
  <2> QED BY <2>2, <2>4, <2>6 DEF Sk!AllowsTool, Sk!Allows, Allows
<1> QED BY <1>1, SkillsInvHolds, PTL DEF Sk!Spec, RestrictionsHold


\* Every name that can be loaded is in the catalog, with the lowest scope that has it.
LEMMA CatalogIsComplete ==
  ASSUME Sk!SkillsAssumption, NEW d \in Disks
  PROVE  /\ \A i \in Sk!Discover(d) : \E e \in Sk!Visible(d) : e.name = d[i].name
         /\ \A e \in Sk!Visible(d) : \A i \in Sk!Discover(d) : d[i].name = e.name => e.scope <= d[i].scope
<1>1. \A i \in DOMAIN d : i \in Nat /\ d[i].scope \in Nat
  <2>1. d \in Seq({d[i] : i \in DOMAIN d}) /\ \A i \in DOMAIN d : d[i].scope \in 0..2
    BY DEF Sk!SkillsAssumption, Sk!Repo, Sk!Shared
  <2> QED BY <2>1
<1>2. \A i \in Sk!Discover(d) : i \in DOMAIN d
  BY DEF Sk!Discover
<1>3. ASSUME NEW i \in Sk!Discover(d)
      PROVE  \E e \in Sk!Visible(d) : e.name = d[i].name
  <2> DEFINE same == {j \in Sk!Discover(d) : d[j].name = d[i].name}
             scopes == {d[j].scope : j \in same}
  <2>1. scopes \in SUBSET Nat /\ scopes # {}
    BY <1>1, <1>2
  <2>2. PICK m \in scopes : \A s \in scopes : m <= s
    <3> HIDE DEF scopes
    <3> QED BY <2>1, LeastNumber
  <2> DEFINE first == {j \in same : d[j].scope = m}
  <2>3. first \in SUBSET Nat /\ first # {}
    BY <1>1, <1>2, <2>2
  <2>4. PICK k \in first : \A j \in first : k <= j
    <3> HIDE DEF first
    <3> QED BY <2>3, LeastNumber
  <2>5. k \notin Sk!Shadowed(d)
    <3> SUFFICES ASSUME NEW j \in same, d[j].scope < d[k].scope \/ (d[j].scope = d[k].scope /\ j < k)
                 PROVE  FALSE
      BY DEF Sk!Shadowed
    <3>1. m <= d[j].scope /\ d[k].scope = m /\ d[j].scope \in Nat /\ m \in Nat
      BY <1>1, <1>2, <2>2
    <3>2. j \in first /\ j < k
      BY <3>1
    <3>3. j \in Nat /\ k \in Nat /\ k <= j
      BY <1>1, <1>2, <2>4, <3>2
    <3> QED BY <3>2, <3>3
  <2> QED BY <2>4, <2>5 DEF Sk!Visible
<1>4. ASSUME NEW e \in Sk!Visible(d), NEW i \in Sk!Discover(d), d[i].name = e.name
      PROVE  e.scope <= d[i].scope
  <2>1. PICK k \in Sk!Discover(d) \ Sk!Shadowed(d) : e = d[k]
    BY DEF Sk!Visible
  <2>2. ~(d[i].scope < d[k].scope)
    BY <1>4, <2>1 DEF Sk!Shadowed
  <2>3. d[i].scope \in Nat /\ d[k].scope \in Nat
    BY <1>1, <1>2, <2>1
  <2> QED BY <2>1, <2>2, <2>3
<1> QED BY <1>3, <1>4

\* A child runs within its parent, and no skill outlives the files it was found in
\* while an agent has it.
CatalogInv ==
  /\ found \in Disks /\ PerAgent(entries) /\ live \subseteq Agents
  /\ Sub \in live => Main \in live
  /\ \A a \in Agents : entries[a] \subseteq IF a \in live THEN Sk!Visible(found) ELSE {}

LEMMA CatalogNext ==
  ASSUME Sk!SkillsAssumption, CatalogInv, [Sk!Next]_Sk!vars
  PROVE  CatalogInv'
<1>a. Main \in Agents /\ Sub \in Agents /\ Main # Sub /\ Agents = {Main, Sub} /\ Sk!Agents = Agents
  BY DEF Agents, Sk!Agents, Sk!SkillsAssumption
<1>b. \A a, d : Sk!resolveSkills(a, d) \subseteq Sk!Visible(d)
  BY DEF Sk!resolveSkills, Sk!Filter
<1>c. DOMAIN entries = Agents
  BY DEF CatalogInv, PerAgent
<1>d. PerAgent(entries)' <=> entries' = [a \in Agents |-> entries'[a]]
  BY DEF PerAgent
<1>1. CASE Sk!Run
  <2>1. /\ Main \notin live /\ live' = live \cup {Main} /\ found' \in Disks
        /\ entries' = [entries EXCEPT ![Main] = Sk!resolveSkills(Main, found')]
    BY <1>1 DEF Sk!Run, Sk!Start, CatalogInv
  <2>2. Sub \notin live /\ entries[Sub] = {}
    BY <1>a, <2>1 DEF CatalogInv
  <2>3. entries'[Sub] = {} /\ entries'[Main] = Sk!resolveSkills(Main, found') /\ DOMAIN entries' = Agents
    BY <1>a, <1>c, <2>1, <2>2
  <2>4. PerAgent(entries)'
    BY <1>c, <1>d, <2>1
  <2> QED BY <1>a, <1>b, <2>1, <2>2, <2>3, <2>4 DEF CatalogInv
<1>2. CASE Sk!Spawn
  <2>1. /\ Main \in live /\ live' = live \cup {Sub} /\ found' = found
        /\ entries' = [entries EXCEPT ![Sub] = Sk!resolveSkills(Sub, found')]
    BY <1>2 DEF Sk!Spawn, Sk!Start
  <2>2. PerAgent(entries)'
    BY <1>c, <1>d, <2>1
  <2> QED BY <1>a, <1>b, <1>c, <2>1, <2>2 DEF CatalogInv
<1>3. CASE Sk!SubReturns
  <2>1. live' = live \ {Sub} /\ found' = found /\ entries' = [entries EXCEPT ![Sub] = {}]
    BY <1>3 DEF Sk!SubReturns
  <2>2. PerAgent(entries)'
    BY <1>c, <1>d, <2>1
  <2> QED BY <1>a, <1>c, <2>1, <2>2 DEF CatalogInv
<1>4. CASE Sk!Crash
  <2>1. live' = {} /\ found' = found /\ entries' = [a \in Agents |-> {}]
    BY <1>a, <1>4 DEF Sk!Crash
  <2> QED BY <2>1 DEF CatalogInv, PerAgent
<1>5. CASE UNCHANGED <<found, live, entries>>
  BY <1>5 DEF CatalogInv, PerAgent
<1>6. ASSUME NEW a \in Agents,
             \/ Sk!Emit(a) \/ Sk!Answer(a)
             \/ \E i \in DOMAIN batch[a] :
                  Sk!Check(a, i) \/ Sk!Load(a, i) \/ Sk!OnLoad(a, i) \/ Sk!RunTool(a, i)
      PROVE  UNCHANGED <<found, live, entries>>
  BY <1>6 DEF Sk!Emit, Sk!Answer, Sk!Check, Sk!Load, Sk!OnLoad, Sk!RunTool
<1>7. UNCHANGED Sk!vars => UNCHANGED <<found, live, entries>>
  BY DEF Sk!vars
<1> QED BY <1>a, <1>1, <1>2, <1>3, <1>4, <1>5, <1>6, <1>7 DEF Sk!Next

\* The catalog has every name `squad skill validate' passes, and of a name one skill,
\* that of the first scope which has one, in whatever order directories were read
\* (skill/catalog.go resolveCollisions, Visible).
THEOREM CatalogSound ==
  ASSUME Sk!SkillsAssumption
  PROVE  Sk!Spec => []Sk!CatalogIsRight
<1>1. Sk!Init => CatalogInv
  BY DEF Sk!Init, CatalogInv, PerAgent, Sk!Agents, Agents
<1>2. CatalogInv /\ [Sk!Next]_Sk!vars => CatalogInv'
  BY CatalogNext
<1>3. CatalogInv => Sk!CatalogIsRight
  <2> SUFFICES ASSUME CatalogInv PROVE Sk!CatalogIsRight
    OBVIOUS
  <2>1. \A i \in DOMAIN found : Sk!Loads(found[i]) <=> i \in Sk!Discover(found)
    BY DEF Sk!Discover
  <2>2. \A i \in DOMAIN found : Sk!Validates(found[i]) => Sk!Loads(found[i])
    BY DEF Sk!Validates, Sk!Loads
  <2>3. \A i \in DOMAIN found : Sk!Validates(found[i]) =>
          found[i].name \in {e.name : e \in Sk!Visible(found)}
    BY <2>1, <2>2, CatalogIsComplete DEF CatalogInv
  <2>4. ASSUME NEW a \in live, NEW e \in entries[a]
        PROVE  /\ \A f \in entries[a] : f.name = e.name => f = e
               /\ \A i \in DOMAIN found : Sk!Loads(found[i]) /\ found[i].name = e.name =>
                    e.scope <= found[i].scope
    <3>1. entries[a] \subseteq Sk!Visible(found) /\ found \in Disks
      BY DEF CatalogInv
    <3>2. Distinct(Sk!Visible(found))
      BY <3>1, CatalogIsDistinct
    <3> QED BY <2>1, <3>1, <3>2, CatalogIsComplete DEF Distinct
  <2> QED BY <2>3, <2>4 DEF Sk!CatalogIsRight
<1> QED BY <1>1, <1>2, <1>3, PTL DEF Sk!Spec

-----------------------------------------------------------------------------
(***************************************************************************)
(* Where skills and agents come from: Sources, for any number of processes *)
(* that do any commands on any repositories, over any network.             *)
(***************************************************************************)
CONSTANTS Commands, FileUrl, Other, Token, NetFails, MaxHead, MaxRuns
VARIABLES file, head, runs

So == INSTANCE Sources

Fetching == {"updates", "clones", "checks out"}

ProcessDomain == {"pc", "op", "cfg", "todo", "cur", "ok"}

\* A process that works on clones does an update or an addition; what it has yet
\* to do is registered in its copy of the configuration, and is pinned only if
\* the update is forced.
ProcessOK(q) ==
  /\ DOMAIN q = ProcessDomain
  /\ q.pc \notin Fetching => q.cur = {}
  /\ q.pc \in Fetching =>
       /\ q.op.cmd \in {"update", "add"} /\ q.todo \cup q.cur \subseteq q.cfg.repos
       /\ q.op.cmd = "update" => \A s \in q.todo \cup q.cur : s.ref = "" \/ q.op.force

\* The process p is filling the clone of the repository u.
Fills(p, k, u) == proc[p].pc = "clones" /\ \E s \in proc[p].cur : s.kind = k /\ s.url = u

\* A clone that is being filled is partial, and one process fills it.
FillsAlone ==
  \A k \in Kinds, u \in Urls, p \in Procs : Fills(p, k, u) =>
    /\ clone[<<k, u>>].state = "partial"
    /\ \A q \in Procs : Fills(q, k, u) => q = p

ClonesInv ==
  /\ clone = [c \in Kinds \X Urls |-> clone[c]]
  /\ proc = [p \in Procs |-> proc[p]]
  /\ \A p \in Procs : ProcessOK(proc[p])
  /\ FillsAlone

USE DEF So!vars, So!Cached, So!Goto

LEMMA ClonesInit == So!Init => ClonesInv
<1> SUFFICES ASSUME So!Init PROVE ClonesInv
  OBVIOUS
<1>1. proc = [p \in Procs |-> So!Idle]
  BY Zenon DEF So!Init
<1>2. So!Idle.pc = "idle" /\ So!Idle.cur = {} /\ DOMAIN So!Idle = ProcessDomain
  BY DEF So!Idle, ProcessDomain
<1>3. \A p \in Procs : proc[p].pc = "idle" /\ proc[p].cur = {} /\ DOMAIN proc[p] = ProcessDomain
  BY <1>1, <1>2
<1>4. clone = [c \in Kinds \X Urls |-> clone[c]] /\ proc = [p \in Procs |-> proc[p]]
  <2>1. clone = [c \in Kinds \X Urls |-> So!Absent]
    BY Zenon DEF So!Init, So!Kinds, Kinds
  <2> QED BY <1>1, <2>1, Zenon
<1> QED BY <1>3, <1>4 DEF ClonesInv, ProcessOK, FillsAlone, Fills, Fetching

(* What a step of the process p does to its own record, and to the clones.  *)
\* The clone of k, u is the same.
Kept(k, u) == clone'[<<k, u>>] = clone[<<k, u>>]

LEMMA OneProcess ==
  ASSUME ClonesInv, NEW p \in Procs, NEW q,
         proc' = [proc EXCEPT ![p] = q], ProcessOK(q),
         clone' = [c \in Kinds \X Urls |-> clone'[c]], FillsAlone'
  PROVE  ClonesInv'
<1>1. proc' = [r \in Procs |-> IF r = p THEN q ELSE proc[r]]
  BY DEF ClonesInv
<1>2. \A r \in Procs : ProcessOK(proc'[r])
  BY <1>1 DEF ClonesInv
<1>3. proc' = [r \in Procs |-> proc'[r]]
  BY <1>1, Zenon
<1> QED BY <1>2, <1>3 DEF ClonesInv

\* A step of p that fills nothing keeps what others fill.
LEMMA FillingNothing ==
  ASSUME ClonesInv, NEW p \in Procs, NEW q,
         proc' = [proc EXCEPT ![p] = q], q.pc # "clones",
         \A k \in Kinds, u \in Urls : (clone[<<k, u>>].state = "partial" => Kept(k, u)) \/ Fills(p, k, u)
  PROVE  FillsAlone'
<1>1. \A r \in Procs : proc'[r] = IF r = p THEN q ELSE proc[r]
  BY DEF ClonesInv
<1> SUFFICES ASSUME NEW k \in Kinds, NEW u \in Urls, NEW r \in Procs, Fills(r, k, u)'
             PROVE  /\ clone'[<<k, u>>].state = "partial"
                    /\ \A t \in Procs : Fills(t, k, u)' => t = r
  BY Zenon DEF FillsAlone
<1>2. \A t \in Procs : Fills(t, k, u)' => t # p /\ Fills(t, k, u)
  BY <1>1 DEF Fills
<1>3. /\ r # p /\ Fills(r, k, u) /\ clone[<<k, u>>].state = "partial"
      /\ \A t \in Procs : Fills(t, k, u) => t = r
  BY <1>2, Zenon DEF ClonesInv, FillsAlone
<1>4. ~Fills(p, k, u)
  BY <1>3
<1> QED BY <1>2, <1>3, <1>4 DEF Kept

\* A step of p that leaves the clones alone keeps what is filled.
LEMMA ClonesAlone ==
  ASSUME ClonesInv, NEW p \in Procs, NEW q, ProcessOK(q), q.pc # "clones",
         proc' = [proc EXCEPT ![p] = q], UNCHANGED clone
  PROVE  ClonesInv'
<1>1. FillsAlone'
  BY FillingNothing DEF Kept
<1>2. clone' = [c \in Kinds \X Urls |-> clone'[c]]
  BY DEF ClonesInv
<1> QED BY <1>1, <1>2, OneProcess

LEMMA StartClones == ASSUME ClonesInv, NEW p \in Procs, So!Start(p) PROVE ClonesInv'
<1>1. PICK o \in Commands :
        proc' = [proc EXCEPT ![p] = [So!Idle EXCEPT !.pc = "loaded", !.op = o, !.cfg = So!Loaded(o, file)]]
  BY Zenon DEF So!Start
<1> DEFINE cfg == So!Loaded(o, file)
           q == [So!Idle EXCEPT !.pc = "loaded", !.op = o, !.cfg = cfg]
<1>2. proc' = [proc EXCEPT ![p] = q] /\ UNCHANGED clone
  BY <1>1, Zenon DEF So!Start
<1>3. DOMAIN So!Idle = ProcessDomain /\ So!Idle.cur = {}
  BY DEF So!Idle, ProcessDomain
<1>4. q.pc = "loaded" /\ q.cur = {} /\ DOMAIN q = ProcessDomain
  <2> HIDE DEF cfg
  <2> QED BY <1>3 DEF ProcessDomain
<1> HIDE DEF q
<1>5. ProcessOK(q) /\ q.pc # "clones"
  BY <1>4 DEF ProcessOK, Fetching
<1> QED BY <1>2, <1>5, ClonesAlone

\* An update of the processes that sets fields of one.
LEMMA SetFields ==
  ASSUME ClonesInv, NEW p \in Procs, NEW to, NEW x, NEW y
  PROVE  /\ [proc EXCEPT ![p].pc = to, ![p].cur = y, ![p].todo = x] =
              [proc EXCEPT ![p] = [proc[p] EXCEPT !.pc = to, !.cur = y, !.todo = x]]
         /\ [proc EXCEPT ![p].pc = to, ![p].cur = y, ![p].ok = x] =
              [proc EXCEPT ![p] = [proc[p] EXCEPT !.pc = to, !.cur = y, !.ok = x]]
         /\ [proc EXCEPT ![p].pc = to, ![p].todo = x] =
              [proc EXCEPT ![p] = [proc[p] EXCEPT !.pc = to, !.todo = x]]
         /\ [proc EXCEPT ![p].pc = to, ![p].ok = x] =
              [proc EXCEPT ![p] = [proc[p] EXCEPT !.pc = to, !.ok = x]]
         /\ [proc EXCEPT ![p].pc = to, ![p].cfg = x] =
              [proc EXCEPT ![p] = [proc[p] EXCEPT !.pc = to, !.cfg = x]]
         /\ [proc EXCEPT ![p].pc = to] = [proc EXCEPT ![p] = [proc[p] EXCEPT !.pc = to]]
BY Zenon DEF ClonesInv

\* The fields of a record so updated.
LEMMA FieldsSet ==
  ASSUME NEW r, DOMAIN r = ProcessDomain, NEW to, NEW x, NEW y
  PROVE  /\ LET q == [r EXCEPT !.pc = to, !.cur = y, !.todo = x]
            IN  /\ DOMAIN q = ProcessDomain /\ q.pc = to /\ q.cur = y /\ q.todo = x
                /\ q.op = r.op /\ q.cfg = r.cfg
         /\ LET q == [r EXCEPT !.pc = to, !.cur = y, !.ok = x]
            IN  DOMAIN q = ProcessDomain /\ q.pc = to /\ q.cur = y
         /\ LET q == [r EXCEPT !.pc = to, !.todo = x]
            IN  /\ DOMAIN q = ProcessDomain /\ q.pc = to /\ q.todo = x
                /\ q.cur = r.cur /\ q.op = r.op /\ q.cfg = r.cfg
         /\ LET q == [r EXCEPT !.pc = to, !.ok = x]
            IN  /\ DOMAIN q = ProcessDomain /\ q.pc = to /\ q.todo = r.todo
                /\ q.cur = r.cur /\ q.op = r.op /\ q.cfg = r.cfg
         /\ LET q == [r EXCEPT !.pc = to, !.cfg = x]
            IN  DOMAIN q = ProcessDomain /\ q.pc = to /\ q.cur = r.cur /\ q.op = r.op
         /\ LET q == [r EXCEPT !.pc = to]
            IN  /\ DOMAIN q = ProcessDomain /\ q.pc = to /\ q.todo = r.todo
                /\ q.cur = r.cur /\ q.op = r.op /\ q.cfg = r.cfg
BY DEF ProcessDomain

\* What is due is registered, and unpinned unless the update is forced.
LEMMA DueIsRegistered ==
  ASSUME NEW c, NEW o
  PROVE  /\ So!Due(c, o) \subseteq c.repos
         /\ o.cmd = "update" => \A s \in So!Due(c, o) : s.ref = "" \/ o.force
BY DEF So!Due

\* A process that gets work from its configuration.
LEMMA GivenWork ==
  ASSUME ClonesInv, NEW p \in Procs, proc[p].pc \in {"loaded", "writes"},
         proc[p].op.cmd \in {"update", "add"},
         proc' = [proc EXCEPT ![p].pc = "updates", ![p].todo = So!Due(proc[p].cfg, proc[p].op)],
         UNCHANGED clone
  PROVE  ClonesInv'
<1> DEFINE due == So!Due(proc[p].cfg, proc[p].op)
           q == [proc[p] EXCEPT !.pc = "updates", !.todo = due]
<1>1. DOMAIN proc[p] = ProcessDomain /\ proc[p].cur = {}
  BY DEF ClonesInv, ProcessOK, Fetching
<1>2. /\ DOMAIN q = ProcessDomain /\ q.pc = "updates" /\ q.todo = due
      /\ q.cur = proc[p].cur /\ q.op = proc[p].op /\ q.cfg = proc[p].cfg
  BY <1>1, FieldsSet
<1>3. proc' = [proc EXCEPT ![p] = q]
  BY SetFields, Zenon
<1>4. /\ due \subseteq proc[p].cfg.repos
      /\ proc[p].op.cmd = "update" => \A s \in due : s.ref = "" \/ proc[p].op.force
  BY DueIsRegistered, Zenon
<1> HIDE DEF due, q
<1>5. ProcessOK(q)
  BY <1>1, <1>2, <1>4 DEF ProcessOK, Fetching
<1> QED BY <1>2, <1>3, <1>5, ClonesAlone

\* A process that has no work, or is done with it.
LEMMA WithoutWork ==
  ASSUME ClonesInv, NEW p \in Procs, UNCHANGED clone,
         NEW q, DOMAIN q = ProcessDomain, q.cur = {}, q.pc \notin Fetching,
         proc' = [proc EXCEPT ![p] = q]
  PROVE  ClonesInv'
BY ClonesAlone DEF ProcessOK, Fetching

LEMMA EditClones == ASSUME ClonesInv, NEW p \in Procs, So!Edit(p) PROVE ClonesInv'
<1> DEFINE o == proc[p].op
           c == proc[p].cfg
<1>0. /\ proc[p].pc = "loaded" /\ UNCHANGED clone
      /\ \/ o.cmd = "update" /\ proc' = [proc EXCEPT ![p].pc = "updates", ![p].todo = So!Due(c, o)]
         \/ proc' = [proc EXCEPT ![p].pc = "over", ![p].ok = FALSE]
         \/ proc' = [proc EXCEPT ![p].pc = "saves", ![p].cfg = So!Edited(c, o)]
  <2>1. /\ proc[p].pc = "loaded" /\ UNCHANGED clone
        /\ CASE o.cmd = "update" ->
                  proc' = [proc EXCEPT ![p].pc = "updates", ![p].todo = So!Due(c, o)]
             [] o.cmd # "update" /\ So!Refuses(c, o) ->
                  proc' = [proc EXCEPT ![p].pc = "over", ![p].ok = FALSE]
             [] OTHER ->
                  proc' = [proc EXCEPT ![p].pc = "saves", ![p].cfg = So!Edited(c, o)]
    BY DEF So!Edit
  <2> QED BY <2>1
<1>1. DOMAIN proc[p] = ProcessDomain /\ proc[p].cur = {}
  BY <1>0 DEF ClonesInv, ProcessOK, Fetching
<1>2. CASE o.cmd = "update" /\ proc' = [proc EXCEPT ![p].pc = "updates", ![p].todo = So!Due(c, o)]
  BY <1>0, <1>2, GivenWork
<1>3. CASE proc' = [proc EXCEPT ![p].pc = "over", ![p].ok = FALSE]
  <2> DEFINE q == [proc[p] EXCEPT !.pc = "over", !.ok = FALSE]
  <2>1. proc' = [proc EXCEPT ![p] = q]
    BY <1>3, SetFields, Zenon
  <2>2. DOMAIN q = ProcessDomain /\ q.cur = {} /\ q.pc = "over"
    BY <1>1, FieldsSet
  <2> HIDE DEF q
  <2> QED BY <1>0, <2>1, <2>2, WithoutWork DEF Fetching
<1>4. CASE proc' = [proc EXCEPT ![p].pc = "saves", ![p].cfg = So!Edited(c, o)]
  <2> DEFINE q == [proc[p] EXCEPT !.pc = "saves", !.cfg = So!Edited(c, o)]
  <2>1. proc' = [proc EXCEPT ![p] = q]
    BY <1>4, SetFields, Zenon
  <2>2. DOMAIN q = ProcessDomain /\ q.cur = {} /\ q.pc = "saves"
    BY <1>1, FieldsSet
  <2> HIDE DEF q
  <2> QED BY <1>0, <2>1, <2>2, WithoutWork DEF Fetching
<1> QED BY <1>0, <1>2, <1>3, <1>4

LEMMA SaveClones ==
  ASSUME ClonesInv, NEW p \in Procs, So!Truncate(p) \/ So!Save(p) \/ So!Exit(p) \/ So!Finish(p)
  PROVE  ClonesInv'
<1>1. DOMAIN proc[p] = ProcessDomain
  BY DEF ClonesInv, ProcessOK
<1>2. ASSUME NEW to, proc' = [proc EXCEPT ![p].pc = to], to \notin Fetching,
             proc[p].pc \notin Fetching, UNCHANGED clone
      PROVE  ClonesInv'
  <2> DEFINE q == [proc[p] EXCEPT !.pc = to]
  <2>1. proc' = [proc EXCEPT ![p] = q]
    BY <1>2, SetFields, Zenon
  <2>2. DOMAIN q = ProcessDomain /\ q.cur = proc[p].cur /\ q.pc = to
    BY <1>1, FieldsSet
  <2>3. proc[p].cur = {}
    BY <1>2 DEF ClonesInv, ProcessOK
  <2> HIDE DEF q
  <2> QED BY <1>2, <2>1, <2>2, <2>3, WithoutWork
<1>3. CASE So!Truncate(p)
  <2>1. proc' = [proc EXCEPT ![p].pc = "writes"] /\ proc[p].pc = "saves" /\ UNCHANGED clone
    BY <1>3 DEF So!Truncate
  <2>2. "writes" \notin Fetching /\ "saves" \notin Fetching
    BY DEF Fetching
  <2> QED BY <1>2, <2>1, <2>2, Zenon
<1>4. CASE So!Save(p)
  <2>1. proc[p].pc = "writes" /\ UNCHANGED clone
    BY <1>4 DEF So!Save
  <2>2. CASE proc[p].op.cmd = "add" /\ proc[p].op.kind = "skills"
    BY <1>4, <2>1, <2>2, GivenWork DEF So!Save
  <2>3. CASE ~(proc[p].op.cmd = "add" /\ proc[p].op.kind = "skills")
    <3>1. proc' = [proc EXCEPT ![p].pc = "over"]
      BY <1>4, <2>3 DEF So!Save
    <3>2. "over" \notin Fetching /\ "writes" \notin Fetching
      BY DEF Fetching
    <3> QED BY <1>2, <2>1, <3>1, <3>2, Zenon
  <2> QED BY <2>2, <2>3
<1>5. CASE So!Exit(p)
  <2>1. DOMAIN So!Idle = ProcessDomain /\ So!Idle.cur = {} /\ So!Idle.pc = "idle"
    BY DEF So!Idle, ProcessDomain
  <2>2. proc' = [proc EXCEPT ![p] = So!Idle] /\ UNCHANGED clone
    BY <1>5, Zenon DEF So!Exit
  <2> QED BY <2>1, <2>2, WithoutWork DEF Fetching
<1>6. CASE So!Finish(p)
  <2> DEFINE ok == proc[p].ok \/ proc[p].op.cmd # "update"
             q == [proc[p] EXCEPT !.pc = "over", !.cur = {}, !.ok = ok]
  <2>1. proc' = [proc EXCEPT ![p].pc = "over", ![p].cur = {}, ![p].ok = ok] /\ UNCHANGED clone
    BY <1>6, Zenon DEF So!Finish, ClonesInv
  <2>2. proc' = [proc EXCEPT ![p] = q]
    BY <2>1, SetFields, Zenon
  <2>3. DOMAIN q = ProcessDomain /\ q.cur = {} /\ q.pc = "over"
    <3> HIDE DEF ok
    <3> QED BY <1>1, FieldsSet
  <2> HIDE DEF q
  <2> QED BY <2>1, <2>2, <2>3, WithoutWork DEF Fetching
<1> QED BY <1>3, <1>4, <1>5, <1>6

\* A step of p that takes up work, or ends it, and may change one clone.
LEMMA OneClone ==
  ASSUME ClonesInv, NEW p \in Procs, NEW q, ProcessOK(q), q.pc # "clones",
         proc' = [proc EXCEPT ![p] = q],
         NEW s, NEW c, clone' = [clone EXCEPT ![<<s.kind, s.url>>] = c],
         \/ Fills(p, s.kind, s.url)
         \/ clone[<<s.kind, s.url>>].state # "partial"
  PROVE  ClonesInv'
<1>1. clone' = [x \in Kinds \X Urls |-> IF x = <<s.kind, s.url>> THEN c ELSE clone[x]]
  BY DEF ClonesInv
<1>2. clone' = [x \in Kinds \X Urls |-> clone'[x]]
  BY <1>1, Zenon
<1>3. ASSUME NEW k \in Kinds, NEW u \in Urls
      PROVE  (clone[<<k, u>>].state = "partial" => Kept(k, u)) \/ Fills(p, k, u)
  <2>1. CASE <<k, u>> = <<s.kind, s.url>>
    <3>1. k = s.kind /\ u = s.url
      BY <2>1
    <3> QED BY <3>1
  <2>2. CASE <<k, u>> # <<s.kind, s.url>>
    <3>1. <<k, u>> \in Kinds \X Urls
      OBVIOUS
    <3> QED BY <1>1, <2>2, <3>1 DEF Kept
  <2> QED BY <2>1, <2>2
<1>4. FillsAlone'
  BY <1>3, FillingNothing
<1> QED BY <1>2, <1>4, OneProcess

LEMMA PullClones == ASSUME ClonesInv, NEW p \in Procs, So!Pull(p) PROVE ClonesInv'
<1>1. PICK s \in proc[p].todo :
        /\ \/ /\ clone[<<s.kind, s.url>>].state = "cloned"
              /\ clone' = [clone EXCEPT ![<<s.kind, s.url>>] = So!Pulled(@, head[s.url])]
           \/ UNCHANGED clone
        /\ proc' = [proc EXCEPT ![p].pc = "checks out", ![p].cur = {s}, ![p].todo = @ \ {s}]
  BY Zenon DEF So!Pull
<1> DEFINE q == [proc[p] EXCEPT !.pc = "checks out", !.cur = {s}, !.todo = proc[p].todo \ {s}]
<1>2. proc[p].pc = "updates"
  BY DEF So!Pull
<1>3. ProcessOK(proc[p]) /\ DOMAIN proc[p] = ProcessDomain
  BY DEF ClonesInv, ProcessOK
<1>4. proc' = [proc EXCEPT ![p].pc = "checks out", ![p].cur = {s}, ![p].todo = proc[p].todo \ {s}]
  BY <1>1, Zenon DEF ClonesInv
<1>5. proc' = [proc EXCEPT ![p] = q]
  BY <1>4, SetFields, Zenon
<1>6. /\ DOMAIN q = ProcessDomain /\ q.pc = "checks out" /\ q.cur = {s} /\ q.todo = proc[p].todo \ {s}
      /\ q.op = proc[p].op /\ q.cfg = proc[p].cfg
  BY <1>3, FieldsSet
<1> HIDE DEF q
<1>7. ProcessOK(q)
  BY <1>2, <1>3, <1>6 DEF ProcessOK, Fetching
<1>8. CASE UNCHANGED clone
  BY <1>5, <1>6, <1>7, <1>8, ClonesAlone
<1>9. CASE /\ clone[<<s.kind, s.url>>].state = "cloned"
           /\ clone' = [clone EXCEPT ![<<s.kind, s.url>>] = So!Pulled(@, head[s.url])]
  <2> DEFINE c == So!Pulled(clone[<<s.kind, s.url>>], head[s.url])
  <2>1. clone' = [clone EXCEPT ![<<s.kind, s.url>>] = c]
    BY <1>9, Zenon DEF ClonesInv
  <2>2. clone[<<s.kind, s.url>>].state # "partial"
    BY <1>9
  <2> HIDE DEF c
  <2> QED BY <1>5, <1>6, <1>7, <2>1, <2>2, OneClone
<1> QED BY <1>1, <1>8, <1>9

LEMMA BeginClones == ASSUME ClonesInv, NEW p \in Procs, So!BeginClone(p) PROVE ClonesInv'
<1>1. PICK s \in proc[p].todo :
        /\ clone[<<s.kind, s.url>>].state = "absent"
        /\ clone' = [clone EXCEPT ![<<s.kind, s.url>>] = So!Partial]
        /\ proc' = [proc EXCEPT ![p].pc = "clones", ![p].cur = {s}, ![p].todo = @ \ {s}]
  BY Zenon DEF So!BeginClone
<1> DEFINE q == [proc[p] EXCEPT !.pc = "clones", !.cur = {s}, !.todo = proc[p].todo \ {s}]
<1>2. proc[p].pc = "updates"
  BY DEF So!BeginClone
<1>3. ProcessOK(proc[p]) /\ DOMAIN proc[p] = ProcessDomain
  BY DEF ClonesInv, ProcessOK
<1>4. proc' = [proc EXCEPT ![p].pc = "clones", ![p].cur = {s}, ![p].todo = proc[p].todo \ {s}]
  BY <1>1, Zenon DEF ClonesInv
<1>5. proc' = [proc EXCEPT ![p] = q]
  BY <1>4, SetFields, Zenon
<1>6. /\ DOMAIN q = ProcessDomain /\ q.pc = "clones" /\ q.cur = {s} /\ q.todo = proc[p].todo \ {s}
      /\ q.op = proc[p].op /\ q.cfg = proc[p].cfg
  BY <1>3, FieldsSet
<1> HIDE DEF q
<1>7. ProcessOK(q)
  BY <1>2, <1>3, <1>6 DEF ProcessOK, Fetching
<1>8. So!Partial.state = "partial"
  BY DEF So!Partial, So!Absent
<1>9. clone' = [x \in Kinds \X Urls |-> IF x = <<s.kind, s.url>> THEN So!Partial ELSE clone[x]]
  BY <1>1 DEF ClonesInv
<1>10. clone' = [x \in Kinds \X Urls |-> clone'[x]]
  BY <1>9, Zenon
<1>11. \A r \in Procs : proc'[r] = IF r = p THEN q ELSE proc[r]
  BY <1>5 DEF ClonesInv
<1>12. ASSUME NEW k \in Kinds, NEW u \in Urls, NEW r \in Procs, Fills(r, k, u)'
       PROVE  /\ clone'[<<k, u>>].state = "partial"
              /\ \A t \in Procs : Fills(t, k, u)' => t = r
  <2>1. <<k, u>> \in Kinds \X Urls
    OBVIOUS
  <2>2. CASE k = s.kind /\ u = s.url
    <3>1. \A t \in Procs : ~Fills(t, k, u)
      BY <1>1, <2>2 DEF ClonesInv, FillsAlone
    <3>2. \A t \in Procs : t # p => ~Fills(t, k, u)'
      BY <1>11, <3>1 DEF Fills
    <3>3. r = p /\ \A t \in Procs : Fills(t, k, u)' => t = p
      BY <1>12, <3>2, Zenon
    <3>4. clone'[<<k, u>>] = So!Partial
      BY <1>9, <2>1, <2>2
    <3> QED BY <1>8, <3>3, <3>4, Zenon
  <2>3. CASE ~(k = s.kind /\ u = s.url)
    <3>1. <<k, u>> # <<s.kind, s.url>>
      BY <2>3
    <3>2. clone'[<<k, u>>] = clone[<<k, u>>]
      BY <1>9, <2>1, <3>1
    <3>3. \A t \in Procs : Fills(t, k, u)' => Fills(t, k, u)
      BY <1>6, <1>11, <2>3 DEF Fills
    <3>4. /\ clone[<<k, u>>].state = "partial"
          /\ \A t \in Procs : Fills(t, k, u) => t = r
      BY <1>12, <3>3, Zenon DEF ClonesInv, FillsAlone
    <3> QED BY <3>2, <3>3, <3>4, Zenon
  <2> QED BY <2>2, <2>3
<1>13. FillsAlone'
  BY <1>12, Zenon DEF FillsAlone
<1> QED BY <1>5, <1>7, <1>10, <1>13, OneProcess

\* A process that ends the work on a clone.
LEMMA WorkDone ==
  ASSUME ClonesInv, NEW p \in Procs, proc[p].pc \in Fetching, NEW to \in {"updates", "checks out"}
  PROVE  /\ LET q == [proc[p] EXCEPT !.pc = to] IN ProcessOK(q) /\ q.pc = to
         /\ LET q == [proc[p] EXCEPT !.pc = to, !.ok = FALSE] IN ProcessOK(q) /\ q.pc = to
<1>1. ProcessOK(proc[p]) /\ DOMAIN proc[p] = ProcessDomain
  BY DEF ClonesInv, ProcessOK
<1> DEFINE q1 == [proc[p] EXCEPT !.pc = to]
           q2 == [proc[p] EXCEPT !.pc = to, !.ok = FALSE]
<1>2. /\ DOMAIN q1 = ProcessDomain /\ q1.pc = to /\ q1.todo = proc[p].todo
      /\ q1.cur = proc[p].cur /\ q1.op = proc[p].op /\ q1.cfg = proc[p].cfg
  BY <1>1 DEF ProcessDomain
<1>3. /\ DOMAIN q2 = ProcessDomain /\ q2.pc = to /\ q2.todo = proc[p].todo
      /\ q2.cur = proc[p].cur /\ q2.op = proc[p].op /\ q2.cfg = proc[p].cfg
  BY <1>1 DEF ProcessDomain
<1> HIDE DEF q1, q2
<1>5. ProcessOK(q1)
  BY <1>1, <1>2 DEF ProcessOK, Fetching
<1>6. ProcessOK(q2)
  BY <1>1, <1>3 DEF ProcessOK, Fetching
<1>7. ProcessOK(q1) /\ q1.pc = to /\ ProcessOK(q2) /\ q2.pc = to
  BY <1>2, <1>3, <1>5, <1>6
<1> QED BY <1>7, Zenon DEF q1, q2

LEMMA EndClones == ASSUME ClonesInv, NEW p \in Procs, So!EndClone(p) PROVE ClonesInv'
<1>1. PICK s, c, q :
        /\ s \in proc[p].cur
        /\ clone' = [clone EXCEPT ![<<s.kind, s.url>>] = c]
        /\ proc' = [proc EXCEPT ![p] = q]
        /\ \/ q = [proc[p] EXCEPT !.pc = "checks out"]
           \/ q = [proc[p] EXCEPT !.pc = "updates", !.ok = FALSE]
  <2>1. PICK s \in proc[p].cur :
          \/ /\ clone' = [clone EXCEPT ![<<s.kind, s.url>>] =
                            [state |-> "cloned", at |-> head[s.url], onMain |-> TRUE, main |-> head[s.url]]]
             /\ proc' = [proc EXCEPT ![p].pc = "checks out"]
          \/ /\ clone' = [clone EXCEPT ![<<s.kind, s.url>>] = So!Absent]
             /\ proc' = [proc EXCEPT ![p].pc = "updates", ![p].ok = FALSE]
    BY Zenon DEF So!EndClone
  <2>2. /\ [proc EXCEPT ![p].pc = "checks out"] =
             [proc EXCEPT ![p] = [proc[p] EXCEPT !.pc = "checks out"]]
        /\ [proc EXCEPT ![p].pc = "updates", ![p].ok = FALSE] =
             [proc EXCEPT ![p] = [proc[p] EXCEPT !.pc = "updates", !.ok = FALSE]]
    BY SetFields, Zenon
  <2> QED BY <2>1, <2>2, Zenon
<1>2. proc[p].pc = "clones"
  BY DEF So!EndClone
<1>3. ProcessOK(q) /\ q.pc \in {"updates", "checks out"}
  BY <1>1, <1>2, WorkDone DEF Fetching
<1>4. Fills(p, s.kind, s.url)
  BY <1>1, <1>2 DEF Fills
<1> QED BY <1>1, <1>3, <1>4, OneClone

LEMMA CheckoutClones == ASSUME ClonesInv, NEW p \in Procs, So!Checkout(p) PROVE ClonesInv'
<1>1. PICK s, q :
        /\ s \in proc[p].cur
        /\ \/ UNCHANGED clone
           \/ /\ clone[<<s.kind, s.url>>].state = "cloned"
              /\ \E c : clone' = [clone EXCEPT ![<<s.kind, s.url>>] = c]
        /\ proc' = [proc EXCEPT ![p] = q]
        /\ \/ q = [proc[p] EXCEPT !.pc = "updates"]
           \/ q = [proc[p] EXCEPT !.pc = "updates", !.ok = FALSE]
  <2>1. PICK s \in proc[p].cur :
          LET c == clone[<<s.kind, s.url>>]
          IN  IF s.ref = "" THEN So!Goto(p, "updates") /\ UNCHANGED clone
              ELSE IF s.ref = "gone" \/ c.state # "cloned"
              THEN /\ proc' = [proc EXCEPT ![p].pc = "updates", ![p].ok = FALSE]
                   /\ UNCHANGED clone
              ELSE /\ clone' = [clone EXCEPT ![<<s.kind, s.url>>] =
                                  [c EXCEPT !.at = So!resolveRef(c, s.ref), !.onMain = FALSE]]
                   /\ So!Goto(p, "updates")
    BY Zenon DEF So!Checkout
  <2>2. /\ [proc EXCEPT ![p].pc = "updates"] =
             [proc EXCEPT ![p] = [proc[p] EXCEPT !.pc = "updates"]]
        /\ [proc EXCEPT ![p].pc = "updates", ![p].ok = FALSE] =
             [proc EXCEPT ![p] = [proc[p] EXCEPT !.pc = "updates", !.ok = FALSE]]
    BY SetFields, Zenon
  <2> QED BY <2>1, <2>2, Zenon
<1>2. proc[p].pc = "checks out"
  BY DEF So!Checkout
<1>3. ProcessOK(q) /\ q.pc = "updates"
  BY <1>1, <1>2, WorkDone DEF Fetching
<1>4. CASE UNCHANGED clone
  BY <1>1, <1>3, <1>4, ClonesAlone
<1>5. CASE /\ clone[<<s.kind, s.url>>].state = "cloned"
           /\ \E c : clone' = [clone EXCEPT ![<<s.kind, s.url>>] = c]
  BY <1>1, <1>3, <1>5, OneClone
<1> QED BY <1>1, <1>4, <1>5

LEMMA ClonesNext == ClonesInv /\ [So!Next]_(So!vars) => ClonesInv'
<1> SUFFICES ASSUME ClonesInv, [So!Next]_(So!vars) PROVE ClonesInv'
  OBVIOUS
<1>1. CASE UNCHANGED <<clone, proc>>
  <2>1. clone' = clone /\ proc' = proc
    BY <1>1
  <2>2. \A k \in Kinds, u \in Urls, p \in Procs : Fills(p, k, u)' <=> Fills(p, k, u)
    BY <2>1 DEF Fills
  <2>3. FillsAlone'
    BY <2>1, <2>2, Zenon DEF FillsAlone, ClonesInv
  <2> QED BY <2>1, <2>3 DEF ClonesInv
<1>2. CASE \E p \in Procs : \/ So!Start(p) \/ So!Edit(p) \/ So!Truncate(p) \/ So!Save(p) \/ So!Exit(p)
                            \/ So!Pull(p) \/ So!BeginClone(p) \/ So!EndClone(p) \/ So!Checkout(p)
                            \/ So!Finish(p)
  BY <1>2, StartClones, EditClones, SaveClones, PullClones, BeginClones, EndClones, CheckoutClones
<1> QED BY <1>1, <1>2 DEF So!Next, So!Push

LEMMA AlwaysClonesInv == So!Spec => []ClonesInv
BY ClonesInit, ClonesNext, PTL DEF So!Spec

(* What a pinned source offers changes only in a forced update or as it is  *)
(* added, so far as no other source has the same repository unpinned,       *)
(* however many commands run at a time, fail or are killed                  *)
(* (source/manager.go UpdateRepositories, source/git.go CloneOrUpdate).     *)
THEOREM PinsSound == So!Spec => PinsFreeze
<1>1. ASSUME ClonesInv, So!Next PROVE ClonesMoveByName
  <2> SUFFICES ASSUME NEW k \in Kinds, NEW u \in Urls,
                      clone[<<k, u>>].state = "cloned", clone'[<<k, u>>] # clone[<<k, u>>]
               PROVE  \E p \in Procs : /\ proc[p].pc \in {"updates", "checks out"}
                                       /\ \/ proc[p].op.force
                                          \/ proc[p].op.cmd = "add"
                                          \/ \E s \in proc[p].cfg.repos :
                                               s.kind = k /\ s.url = u /\ s.ref = ""
    BY Zenon DEF ClonesMoveByName
  <2>1. PICK p \in Procs : So!Pull(p) \/ So!BeginClone(p) \/ So!EndClone(p) \/ So!Checkout(p)
    BY <1>1 DEF So!Next, So!Start, So!Edit, So!Truncate, So!Save, So!Exit, So!Finish, So!Push
  <2>2. PICK s, c :
          /\ s \in proc[p].todo \cup proc[p].cur
          /\ proc[p].pc \in Fetching
          /\ clone' = [clone EXCEPT ![<<s.kind, s.url>>] = c]
          /\ proc[p].pc = "clones" => s \in proc[p].cur
    <3>1. CASE So!Pull(p) \/ So!BeginClone(p)
      <4>1. proc[p].pc = "updates"
        BY <3>1 DEF So!Pull, So!BeginClone
      <4>2. \E s \in proc[p].todo : \E c : clone' = [clone EXCEPT ![<<s.kind, s.url>>] = c]
        BY <3>1, Zenon DEF So!Pull, So!BeginClone
      <4>3. "updates" \in Fetching /\ "updates" # "clones"
        BY DEF Fetching
      <4> QED BY <4>1, <4>2, <4>3, Zenon
    <3>2. CASE So!EndClone(p)
      <4>1. proc[p].pc = "clones"
        BY <3>2 DEF So!EndClone
      <4>2. \E s \in proc[p].cur : \E c : clone' = [clone EXCEPT ![<<s.kind, s.url>>] = c]
        BY <3>2, Zenon DEF So!EndClone
      <4>3. "clones" \in Fetching
        BY DEF Fetching
      <4> QED BY <4>1, <4>2, <4>3, Zenon
    <3>3. CASE So!Checkout(p)
      <4>1. proc[p].pc = "checks out"
        BY <3>3 DEF So!Checkout
      <4>2. \E s \in proc[p].cur : \E c : clone' = [clone EXCEPT ![<<s.kind, s.url>>] = c]
        BY <3>3, Zenon DEF So!Checkout
      <4>3. "checks out" \in Fetching /\ "checks out" # "clones"
        BY DEF Fetching
      <4> QED BY <4>1, <4>2, <4>3, Zenon
    <3> QED BY <2>1, <3>1, <3>2, <3>3
  <2>3. s.kind = k /\ s.url = u
    <3>1. <<k, u>> = <<s.kind, s.url>>
      BY <1>1, <2>2 DEF ClonesInv
    <3> QED BY <3>1
  <2>4. proc[p].pc # "clones"
    BY <1>1, <2>2, <2>3 DEF ClonesInv, FillsAlone, Fills
  <2>5. /\ proc[p].op.cmd \in {"update", "add"} /\ s \in proc[p].cfg.repos
        /\ proc[p].op.cmd = "update" => s.ref = "" \/ proc[p].op.force
    BY <1>1, <2>2 DEF ClonesInv, ProcessOK
  <2> QED BY <2>2, <2>3, <2>4, <2>5 DEF Fetching
<1>2. ClonesInv /\ [So!Next]_(So!vars) => [ClonesMoveByName]_<<clone, proc>>
  BY <1>1
<1> QED BY <1>2, AlwaysClonesInv, PTL DEF So!Spec, PinsFreeze

=============================================================================
