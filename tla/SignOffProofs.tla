--------------------------- MODULE SignOffProofs ---------------------------
(***************************************************************************)
(* Theorems about SignOff for any native agents and live sessions, whatever *)
(* the user types and the claude processes write.                          *)
(***************************************************************************)
EXTENDS SignOff, TLAPS

USE DEF vars, term, changes, history

(***************************************************************************)
(* What is kept about one session.  claude waits for the answer to a       *)
(* request: a request is the last thing in its output, and an answer is    *)
(* for the request that was read last.                                     *)
(***************************************************************************)

Requests == {"edit?", "other?", "odd?"}
InReview == {"lock", "answer", "body"}

NoRequest(l) == \A i \in DOMAIN l.pipe : l.pipe[i] \notin Requests

PipeOK(l) ==
  /\ \A i \in DOMAIN l.pipe : l.pipe[i] \in Requests =>
       /\ i = Len(l.pipe)
       /\ l.cli \in {IF l.pipe[i] = "edit?" THEN "asks edit" ELSE "asks other", "dead"}
  /\ l.reply # "none" => NoRequest(l) /\ l.cli \in {"asks edit", "asks other"}
  /\ l.phase = "loop" => l.errs < MaxProtocolErrors

\* A review of a session's plan: the request is read, not answered, and it is the
\* first plan the reviewer could refuse.
ReviewOK(l) ==
  /\ NoRequest(l) /\ l.reply = "none"
  /\ l.cli \in {"asks edit", "dead"}
  /\ l.phase = "loop" /\ ~l.rejected

MayEdit(l) == l.cli = "asks edit" /\ l.reply = "allow"

SomeYes == \E r \in answers : r.line.kind = "yes"

SessionOK(s) ==
  /\ PipeOK(live[s])
  /\ stage[s] \in InReview => ReviewOK(live[s])
  /\ MayEdit(live[s]) => SomeYes
  /\ Refused(s) => live[s].rejected

SessionInv == \A s \in Lives : SessionOK(s)

GateInv == approved \/ edited # {} => SomeYes

\* mu serializes the prompts.
PromptInv ==
  \A a \in Agents :
    /\ stage[a] \in {"answer", "body"} => mu = a
    /\ stage[a] = "answer" => top = a

LineType == [kind : Lines, ahead : BOOLEAN, tail : BOOLEAN]

TInv == TypeOK /\ tty \in Seq(LineType)

IInv == TInv /\ SessionInv /\ GateInv /\ PromptInv /\ AnswersMeetLastPlan

(***************************************************************************)
(* What the loop does with a session's record                              *)
(***************************************************************************)

LEMMA FatalOK ==
  ASSUME NEW l \in LiveType
  PROVE  /\ Fatal(l) \in LiveType /\ PipeOK(Fatal(l)) /\ Fatal(l).rejected = l.rejected
         /\ Fatal(l).cli = "dead" /\ Fatal(l).phase = "wait" /\ Fatal(l).errs = l.errs
         /\ Fatal(l).result = l.result
<1>1. <<>> \in Seq(AllEvents) /\ DOMAIN <<>> = {}
  OBVIOUS
<1>2. Fatal(l) \in LiveType
  BY <1>1 DEF Fatal, LiveType
<1>3. /\ Fatal(l).pipe = <<>> /\ Fatal(l).cli = "dead" /\ Fatal(l).phase = "wait"
      /\ Fatal(l).reply = "none" /\ Fatal(l).rejected = l.rejected /\ Fatal(l).errs = l.errs
      /\ Fatal(l).result = l.result
  BY DEF Fatal, LiveType
<1> HIDE DEF Fatal
<1>4. PipeOK(Fatal(l))
  BY <1>1, <1>3 DEF PipeOK
<1> QED BY <1>2, <1>3, <1>4

\* An answer to the request that was read last.
LEMMA SendOK ==
  ASSUME NEW l \in LiveType, NoRequest(l), l.cli \in {"asks edit", "asks other", "dead"},
         l.phase = "loop", l.errs < MaxProtocolErrors, NEW reply \in {"allow", "deny"}
  PROVE  LET x == Send(l, reply) IN
         /\ x \in LiveType /\ PipeOK(x) /\ x.rejected = l.rejected /\ x.errs = l.errs
         /\ MayEdit(x) => l.cli = "asks edit" /\ reply = "allow"
<1>1. CASE l.stdin /\ l.cli # "dead"
  <2> DEFINE x == [l EXCEPT !.reply = reply]
  <2>1. Send(l, reply) = x
    BY <1>1 DEF Send
  <2>2. /\ x \in LiveType /\ x.pipe = l.pipe /\ x.cli = l.cli /\ x.reply = reply
        /\ x.phase = l.phase /\ x.errs = l.errs /\ x.rejected = l.rejected
    BY DEF LiveType
  <2> HIDE DEF x
  <2>3. PipeOK(x)
    BY <1>1, <2>2 DEF PipeOK, NoRequest
  <2> QED BY <2>1, <2>2, <2>3 DEF MayEdit
<1>2. CASE ~(l.stdin /\ l.cli # "dead")
  BY <1>2, FatalOK DEF Send, MayEdit
<1> QED BY <1>1, <1>2

LEMMA ProtocolErrorOK ==
  ASSUME NEW l \in LiveType, PipeOK(l), l.errs < MaxProtocolErrors
  PROVE  LET x == ProtocolError(l) IN
         /\ x \in LiveType /\ PipeOK(x) /\ x.rejected = l.rejected
         /\ MayEdit(x) => MayEdit(l)
<1> DEFINE next == [l EXCEPT !.errs = @ + 1]
<1>1. /\ next.errs = l.errs + 1 /\ next.pipe = l.pipe /\ next.cli = l.cli
      /\ next.reply = l.reply /\ next.phase = l.phase /\ next.rejected = l.rejected
  BY DEF LiveType
<1>3. l.errs \in 0..MaxProtocolErrors /\ MaxProtocolErrors \in Nat
  BY DEF LiveType, MaxProtocolErrors
<1>2. next \in LiveType
  <2>1. l.errs + 1 \in 0..MaxProtocolErrors
    BY <1>3
  <2> QED BY <2>1 DEF LiveType
<1>4. ProtocolError(l) = IF next.errs = MaxProtocolErrors THEN Fatal(next) ELSE next
  BY DEF ProtocolError
<1> HIDE DEF next
<1>5. CASE next.errs = MaxProtocolErrors
  <2>1. ProtocolError(l) = Fatal(next)
    BY <1>4, <1>5
  <2>2. ~MayEdit(Fatal(next))
    BY <1>2, FatalOK DEF MayEdit
  <2> QED BY <1>1, <1>2, <2>1, <2>2, FatalOK
<1>6. CASE next.errs # MaxProtocolErrors
  <2>1. next.errs < MaxProtocolErrors
    BY <1>1, <1>3, <1>6 DEF MaxProtocolErrors
  <2>2. PipeOK(next)
    BY <1>1, <2>1 DEF PipeOK, NoRequest
  <2> QED BY <1>1, <1>2, <1>4, <1>6, <2>2 DEF MayEdit
<1> QED BY <1>5, <1>6

LEMMA GoodOK ==
  ASSUME NEW l \in LiveType
  PROVE  /\ Good(l) \in LiveType /\ Good(l).rejected = l.rejected /\ (MayEdit(Good(l)) <=> MayEdit(l))
         /\ PipeOK(l) => PipeOK(Good(l))
         /\ NoRequest(l) => NoRequest(Good(l))
         /\ Good(l).cli = l.cli /\ Good(l).reply = l.reply /\ Good(l).phase = l.phase
<1>1. /\ Good(l) \in LiveType
      /\ Good(l).pipe = l.pipe /\ Good(l).cli = l.cli /\ Good(l).reply = l.reply
      /\ Good(l).phase = l.phase /\ Good(l).rejected = l.rejected /\ Good(l).errs = 0
  <2>1. 0 \in 0..MaxProtocolErrors
    BY DEF MaxProtocolErrors
  <2> QED BY <2>1 DEF Good, LiveType
<1>2. 0 < MaxProtocolErrors
  BY DEF MaxProtocolErrors
<1> HIDE DEF Good
<1>3. PipeOK(l) => PipeOK(Good(l))
  BY <1>1, <1>2 DEF PipeOK, NoRequest
<1>4. NoRequest(l) => NoRequest(Good(l))
  BY <1>1 DEF NoRequest
<1>5. MayEdit(Good(l)) <=> MayEdit(l)
  BY <1>1 DEF MayEdit
<1> QED BY <1>1, <1>3, <1>4, <1>5

\* Reading an event takes it out of the output; a request leaves nothing behind it.
LEMMA ReadOK ==
  ASSUME NEW l \in LiveType, PipeOK(l), l.pipe # <<>>
  PROVE  LET x == [l EXCEPT !.pipe = Tail(@)]
             e == Head(l.pipe)
         IN
         /\ e \in AllEvents /\ x \in LiveType /\ PipeOK(x)
         /\ x.cli = l.cli /\ x.reply = l.reply /\ x.phase = l.phase /\ x.errs = l.errs
         /\ x.rejected = l.rejected /\ x.prose = l.prose
         /\ e \in Requests =>
              /\ NoRequest(x) /\ x.reply = "none"
              /\ x.cli \in {IF e = "edit?" THEN "asks edit" ELSE "asks other", "dead"}
<1> DEFINE x == [l EXCEPT !.pipe = Tail(@)]
           e == Head(l.pipe)
<1>1. l.pipe \in Seq(AllEvents)
  BY DEF LiveType
<1>2. /\ e \in AllEvents /\ Tail(l.pipe) \in Seq(AllEvents) /\ e = l.pipe[1] /\ 1 \in DOMAIN l.pipe
      /\ Len(Tail(l.pipe)) = Len(l.pipe) - 1 /\ Len(l.pipe) \in Nat
      /\ \A i \in DOMAIN Tail(l.pipe) : i + 1 \in DOMAIN l.pipe /\ Tail(l.pipe)[i] = l.pipe[i + 1]
      /\ DOMAIN Tail(l.pipe) = 1..(Len(l.pipe) - 1)
  BY <1>1
<1>3. /\ x \in LiveType /\ x.pipe = Tail(l.pipe) /\ x.cli = l.cli /\ x.reply = l.reply
      /\ x.phase = l.phase /\ x.errs = l.errs /\ x.rejected = l.rejected /\ x.prose = l.prose
  BY <1>2 DEF LiveType
<1> HIDE DEF x, e
<1>4. NoRequest(l) => NoRequest(x)
  BY <1>2, <1>3 DEF NoRequest
<1>5. PipeOK(x)
  <2>1. ASSUME NEW i \in DOMAIN x.pipe, x.pipe[i] \in Requests
        PROVE  /\ i = Len(x.pipe)
               /\ x.cli \in {IF x.pipe[i] = "edit?" THEN "asks edit" ELSE "asks other", "dead"}
    <3>1. i + 1 \in DOMAIN l.pipe /\ x.pipe[i] = l.pipe[i + 1] /\ i \in Nat
      BY <1>2, <1>3, <2>1
    <3>2. /\ i + 1 = Len(l.pipe)
          /\ l.cli \in {IF l.pipe[i + 1] = "edit?" THEN "asks edit" ELSE "asks other", "dead"}
      BY <2>1, <3>1 DEF PipeOK
    <3>3. i = Len(x.pipe)
      <4>1. Len(x.pipe) = Len(l.pipe) - 1 /\ Len(l.pipe) \in Nat
        BY <1>2, <1>3
      <4>2. i \in Nat /\ i + 1 = Len(l.pipe)
        BY <3>1, <3>2
      <4> QED BY <4>1, <4>2
    <3> QED BY <1>3, <3>1, <3>2, <3>3
  <2> QED BY <1>3, <1>4, <2>1 DEF PipeOK
<1>6. ASSUME e \in Requests
      PROVE  /\ NoRequest(x) /\ x.reply = "none"
             /\ x.cli \in {IF e = "edit?" THEN "asks edit" ELSE "asks other", "dead"}
  <2>1. Len(l.pipe) = 1
    BY <1>2, <1>6 DEF PipeOK
  <2>2. NoRequest(x)
    BY <1>2, <1>3, <2>1 DEF NoRequest
  <2>3. ~NoRequest(l)
    BY <1>2, <1>6 DEF NoRequest
  <2>4. x.reply = "none"
    BY <1>3, <2>3 DEF PipeOK
  <2>5. l.cli \in {IF e = "edit?" THEN "asks edit" ELSE "asks other", "dead"}
    BY <1>2, <1>6 DEF PipeOK
  <2> QED BY <1>3, <2>2, <2>4, <2>5
<1> QED BY <1>2, <1>3, <1>5, <1>6 DEF x, e

(***************************************************************************)
(* Steps                                                                   *)
(***************************************************************************)

\* A session that a step leaves alone, or takes out of a review.
LEMMA SessionUntouched ==
  ASSUME NEW s \in Lives, SessionOK(s), live'[s] = live[s],
         stage'[s] \in InReview => stage[s] \in InReview,
         answers \subseteq answers',
         \A r \in answers' \ answers : r.by # s
  PROVE  SessionOK(s)'
BY DEF SessionOK, Refused, SomeYes

\* A step of a session that is in no review afterwards.
LEMMA SessionMoves ==
  ASSUME NEW s \in Lives, SessionOK(s), NEW x, live'[s] = x, PipeOK(x),
         stage'[s] \in InReview => ReviewOK(x),
         MayEdit(x) => SomeYes',
         live[s].rejected => x.rejected,
         \A r \in answers' \ answers : r.by = s /\ r.line.kind = "no" => x.rejected
  PROVE  SessionOK(s)'
BY DEF SessionOK, Refused

\* Sessions that wait at a prompt do so in Agents.
LEMMA Members ==
  ASSUME TypeOK
  PROVE  /\ \A a \in Agents : stage[a] \in {"none", "lock", "answer", "body", "confirm", "done"}
         /\ \A s \in Lives : s \in Agents /\ live[s] \in LiveType
         /\ \A a \in Natives : a \in Agents /\ a \notin Lives
         /\ live \in [Lives -> LiveType]
BY SignOffAssumption DEF TypeOK, Agents

\* The terminal is read.
LEMMA LineRead ==
  ASSUME TInv, TakeLine \/ AtEOF
  PROVE  /\ tty' \in Seq(LineType) /\ eof' = eof
         /\ TakeLine => Head(tty).kind \in Lines
<1>1. tty \in Seq(LineType)
  BY DEF TInv
<1>2. tty # <<>> => Tail(tty) \in Seq(LineType) /\ Head(tty) \in LineType
  BY <1>1
<1> QED BY <1>1, <1>2 DEF TakeLine, AtEOF, LineType

LEMMA LinesType ==
  ASSUME TInv, tty' \in Seq(LineType)
  PROVE  \A i \in DOMAIN tty' : tty'[i].kind \in Lines
<1>1. \A i \in DOMAIN tty' : tty'[i] \in LineType
  OBVIOUS
<1> QED BY <1>1 DEF LineType

\* The end of a review.
LEMMA DecideStep ==
  ASSUME TInv, SessionInv, PromptInv, NEW a \in Agents, stage[a] \in InReview,
         NEW outcome \in {"approved", "rejected", "feedback", "error"}, Decide(a, outcome),
         answers \subseteq answers', \A r \in answers' \ answers : r.by = a,
         outcome = "approved" => SomeYes',
         \A r \in answers' \ answers : r.line.kind = "no" => outcome = "rejected"
  PROVE  /\ SessionInv' /\ live' \in [Lives -> LiveType]
         /\ mu' = NoOne /\ stage' = [stage EXCEPT ![a] = "none"]
         /\ approved' => approved \/ outcome = "approved"
         /\ approved' \in BOOLEAN /\ UNCHANGED changes
<1>1. /\ mu' = NoOne /\ stage' = [stage EXCEPT ![a] = "none"] /\ UNCHANGED changes
      /\ approved' = (approved \/ outcome = "approved")
  BY DEF Decide
<1>2. stage'[a] = "none" /\ \A s \in Agents \ {a} : stage'[s] = stage[s]
  BY <1>1 DEF TInv, TypeOK
<1>3. "none" \notin InReview
  BY DEF InReview
<1>4. CASE a \notin Lives
  <2>1. live' = live
    BY <1>4 DEF Decide
  <2>2. \A s \in Lives : s # a /\ s \in Agents
    BY <1>4 DEF Agents
  <2>3. SessionInv'
    BY <1>2, <2>1, <2>2, SessionUntouched DEF SessionInv
  <2> QED BY <1>1, <2>1, <2>3, Members DEF TInv, TypeOK
<1>5. CASE a \in Lives
  <2> DEFINE l == live[a]
             m == [l EXCEPT !.rejected = TRUE]
             x == CASE outcome = "approved" -> Send(l, "allow")
                    [] outcome = "rejected" -> Send(m, "deny")
                    [] outcome = "feedback" -> Send(l, "deny")
                    [] outcome = "error"    -> Fatal(l)
  <2>1. l \in LiveType /\ PipeOK(l) /\ ReviewOK(l) /\ (l.errs < MaxProtocolErrors)
    BY <1>5, Members DEF SessionInv, SessionOK, TInv, PipeOK, ReviewOK
  <2>2. /\ m \in LiveType /\ m.rejected = TRUE /\ m.errs = l.errs /\ m.cli = l.cli
        /\ m.phase = l.phase /\ m.pipe = l.pipe
    BY <2>1 DEF LiveType
  <2>3. live' = [live EXCEPT ![a] = x]
    BY <1>5 DEF Decide
  <2> HIDE DEF m, l
  <2>4. /\ Send(l, "allow") \in LiveType /\ PipeOK(Send(l, "allow"))
        /\ Send(l, "allow").rejected = l.rejected
    BY <2>1, SendOK DEF ReviewOK
  <2>5. /\ Send(l, "deny") \in LiveType /\ PipeOK(Send(l, "deny"))
        /\ Send(l, "deny").rejected = l.rejected /\ ~MayEdit(Send(l, "deny"))
    BY <2>1, SendOK DEF ReviewOK
  <2>6. /\ Send(m, "deny") \in LiveType /\ PipeOK(Send(m, "deny"))
        /\ Send(m, "deny").rejected = TRUE /\ ~MayEdit(Send(m, "deny"))
    <3>1. NoRequest(m) /\ m.cli \in {"asks edit", "asks other", "dead"} /\ m.phase = "loop"
      BY <2>1, <2>2 DEF ReviewOK, NoRequest
    <3> QED BY <2>1, <2>2, <3>1, SendOK
  <2>7. /\ Fatal(l) \in LiveType /\ PipeOK(Fatal(l)) /\ Fatal(l).rejected = l.rejected
        /\ ~MayEdit(Fatal(l))
    BY <2>1, FatalOK DEF MayEdit
  <2>8. /\ x \in LiveType /\ PipeOK(x) /\ (l.rejected => x.rejected)
        /\ MayEdit(x) => outcome = "approved"
        /\ outcome = "rejected" => x.rejected
    <3>1. CASE outcome = "approved"
      BY <2>4, <3>1
    <3>2. CASE outcome = "rejected"
      BY <2>6, <3>2
    <3>3. CASE outcome = "feedback"
      BY <2>5, <3>3
    <3>4. CASE outcome = "error"
      BY <2>7, <3>4
    <3> QED BY <3>1, <3>2, <3>3, <3>4
  <2> HIDE DEF x
  <2>9. live'[a] = x /\ (\A s \in Lives \ {a} : live'[s] = live[s]) /\ live' \in [Lives -> LiveType]
    BY <1>5, <2>3, <2>8, Members DEF TInv
  <2>10. SessionOK(a)'
    <3>1. SessionOK(a)
      BY <1>5 DEF SessionInv
    <3> QED BY <1>2, <1>3, <1>5, <2>8, <2>9, <3>1, SessionMoves DEF l
  <2>11. ASSUME NEW s \in Lives, s # a
         PROVE  SessionOK(s)'
    BY <1>2, <2>9, <2>11, SessionUntouched DEF SessionInv, Agents
  <2> QED BY <1>1, <2>9, <2>10, <2>11 DEF SessionInv, TInv, TypeOK
<1> QED BY <1>4, <1>5

\* An event of a session.
LEMMA HandleStep ==
  ASSUME TInv, SessionInv, GateInv, NEW s \in Lives, Handle(s)
  PROVE  SessionInv' /\ live' \in [Lives -> LiveType]
<1> DEFINE o == live[s]
           l == [o EXCEPT !.pipe = Tail(@)]
           e == Head(o.pipe)
           review == e = "edit?" /\ CanUseTool(l) = "review"
           x == CASE e = "init"    -> Good(l)
                  [] e = "prose"   -> Good([l EXCEPT !.prose = TRUE])
                  [] e = "noise"   -> l
                  [] e = "garbage" -> ProtocolError(l)
                  [] e = "odd?"    -> ProtocolError(Send(l, "deny"))
                  [] e = "other?"  -> Good(Send(l, "allow"))
                  [] e = "edit?"   -> Good(IF review THEN l ELSE Send(l, CanUseTool(l)))
                  [] e = "result"  -> Good([l EXCEPT !.result = TRUE, !.stdin = FALSE])
                  [] e = "bad result" -> [Fatal(l) EXCEPT !.result = TRUE]
<1>1. /\ o.phase = "loop" /\ stage[s] = "none" /\ o.pipe # <<>>
      /\ stage' = IF review THEN [stage EXCEPT ![s] = "lock"] ELSE stage
      /\ live' = [live EXCEPT ![s] = x]
      /\ UNCHANGED <<mu, approved, tty, eof, typed, top, answers, changes>>
  BY DEF Handle
<1>2. o \in LiveType /\ PipeOK(o) /\ (MayEdit(o) => SomeYes) /\ s \in Agents
  BY Members DEF SessionInv, SessionOK, TInv
<1> HIDE DEF o
<1>3. /\ e \in AllEvents /\ l \in LiveType /\ PipeOK(l)
      /\ l.cli = o.cli /\ l.reply = o.reply /\ l.phase = "loop" /\ l.errs = o.errs
      /\ l.rejected = o.rejected
      /\ e \in Requests =>
           /\ NoRequest(l) /\ l.reply = "none"
           /\ l.cli \in {IF e = "edit?" THEN "asks edit" ELSE "asks other", "dead"}
  BY <1>1, <1>2, ReadOK
<1>4. l.errs < MaxProtocolErrors
  BY <1>1, <1>2, <1>3 DEF PipeOK
<1>5. MayEdit(l) => SomeYes
  BY <1>2, <1>3 DEF MayEdit
<1> HIDE DEF l, e
<1>6. /\ x \in LiveType /\ PipeOK(x)
      /\ review => ReviewOK(x)
      /\ MayEdit(x) => SomeYes
      /\ l.rejected => x.rejected
  <2>1. CASE e = "init"
    BY <1>3, <1>5, <2>1, GoodOK
  <2>2. CASE e = "prose"
    <3> DEFINE m == [l EXCEPT !.prose = TRUE]
    <3>1. /\ m \in LiveType /\ m.cli = l.cli /\ m.reply = l.reply /\ m.pipe = l.pipe
          /\ m.phase = l.phase /\ m.errs = l.errs /\ m.rejected = l.rejected
      BY <1>3 DEF LiveType
    <3> HIDE DEF m
    <3>2. PipeOK(m) /\ (MayEdit(m) => SomeYes)
      BY <1>3, <1>5, <3>1 DEF PipeOK, NoRequest, MayEdit
    <3>3. x = Good(m) /\ ~review
      BY <2>2 DEF m
    <3> HIDE DEF x, review
    <3> QED BY <3>1, <3>2, <3>3, GoodOK
  <2>3. CASE e = "noise"
    BY <1>3, <1>5, <2>3
  <2>4. CASE e = "garbage"
    BY <1>3, <1>4, <1>5, <2>4, ProtocolErrorOK
  <2>5. CASE e = "odd?"
    <3> DEFINE m == Send(l, "deny")
    <3>1. NoRequest(l) /\ l.cli \in {"asks edit", "asks other", "dead"}
      BY <1>3, <2>5 DEF Requests
    <3>2. /\ m \in LiveType /\ PipeOK(m) /\ m.rejected = l.rejected /\ m.errs = l.errs
          /\ ~MayEdit(m)
      BY <1>3, <1>4, <3>1, SendOK
    <3>3. x = ProtocolError(m) /\ ~review
      BY <2>5
    <3> HIDE DEF m, x, review
    <3> QED BY <1>4, <3>2, <3>3, ProtocolErrorOK
  <2>6. CASE e = "other?"
    <3> DEFINE m == Send(l, "allow")
    <3>1. NoRequest(l) /\ l.cli \in {"asks other", "dead"}
      BY <1>3, <2>6 DEF Requests
    <3>2. /\ m \in LiveType /\ PipeOK(m) /\ m.rejected = l.rejected /\ ~MayEdit(m)
      BY <1>3, <1>4, <3>1, SendOK
    <3>3. x = Good(m) /\ ~review
      BY <2>6
    <3> HIDE DEF m, x, review
    <3> QED BY <3>2, <3>3, GoodOK
  <2>7. CASE e = "edit?" /\ review
    <3>1. ~l.rejected /\ ~approved
      BY <2>7 DEF CanUseTool
    <3>2. x = Good(l)
      BY <2>7
    <3>3. NoRequest(l) /\ l.reply = "none" /\ l.cli \in {"asks edit", "dead"}
      BY <1>3, <2>7 DEF Requests
    <3> HIDE DEF x, review
    <3> QED BY <1>3, <1>5, <3>1, <3>2, <3>3, GoodOK DEF ReviewOK
  <2>8. CASE e = "edit?" /\ ~review
    <3> DEFINE m == Send(l, CanUseTool(l))
    <3>1. NoRequest(l) /\ l.cli \in {"asks edit", "asks other", "dead"}
      BY <1>3, <2>8 DEF Requests
    <3>2. CanUseTool(l) \in {"allow", "deny"} /\ (CanUseTool(l) = "allow" => approved)
      BY <2>8 DEF CanUseTool
    <3>3. /\ m \in LiveType /\ PipeOK(m) /\ m.rejected = l.rejected
          /\ MayEdit(m) => CanUseTool(l) = "allow"
      BY <1>3, <1>4, <3>1, <3>2, SendOK
    <3>4. MayEdit(m) => SomeYes
      BY <3>2, <3>3 DEF GateInv
    <3>5. x = Good(m) /\ ~review
      BY <2>8
    <3> HIDE DEF m, x, review
    <3> QED BY <3>3, <3>4, <3>5, GoodOK
  <2>9. CASE e = "result"
    <3> DEFINE m == [l EXCEPT !.result = TRUE, !.stdin = FALSE]
    <3>1. /\ m \in LiveType /\ m.cli = l.cli /\ m.reply = l.reply /\ m.pipe = l.pipe
          /\ m.phase = l.phase /\ m.errs = l.errs /\ m.rejected = l.rejected
      BY <1>3 DEF LiveType
    <3> HIDE DEF m
    <3>2. PipeOK(m) /\ (MayEdit(m) => SomeYes)
      BY <1>3, <1>5, <3>1 DEF PipeOK, NoRequest, MayEdit
    <3>3. x = Good(m) /\ ~review
      BY <2>9 DEF m
    <3> HIDE DEF x, review
    <3> QED BY <3>1, <3>2, <3>3, GoodOK
  <2>10. CASE e = "bad result"
    <3> DEFINE f == Fatal(l)
    <3>1. f \in LiveType /\ PipeOK(f) /\ f.rejected = l.rejected /\ f.cli = "dead"
      BY <1>3, FatalOK
    <3>2. x = [f EXCEPT !.result = TRUE] /\ ~review
      BY <2>10
    <3> HIDE DEF f, x, review
    <3>3. /\ x \in LiveType /\ x.cli = "dead" /\ x.reply = f.reply /\ x.pipe = f.pipe
          /\ x.phase = f.phase /\ x.errs = f.errs /\ x.rejected = f.rejected
      BY <3>1, <3>2 DEF LiveType
    <3>4. PipeOK(x) /\ ~MayEdit(x)
      BY <3>1, <3>3 DEF PipeOK, NoRequest, MayEdit
    <3> QED BY <3>1, <3>2, <3>3, <3>4
  <2> QED
    BY <1>3, <2>1, <2>2, <2>3, <2>4, <2>5, <2>6, <2>7, <2>8, <2>9, <2>10 DEF AllEvents
<1> HIDE DEF x, review
<1>7. /\ live'[s] = x /\ (\A q \in Lives \ {s} : live'[q] = live[q])
      /\ live' \in [Lives -> LiveType]
  BY <1>1, <1>6, Members DEF TInv
<1>8. /\ stage'[s] \in InReview => review
      /\ \A q \in Lives \ {s} : stage'[q] = stage[q]
      /\ answers' = answers
  BY <1>1, <1>2 DEF InReview
<1>9. SessionOK(s)'
  <2>1. SessionOK(s) /\ (SomeYes => SomeYes')
    BY <1>8 DEF SessionInv, SomeYes
  <2>2. live[s].rejected => x.rejected
    BY <1>3, <1>6 DEF o
  <2> QED BY <1>6, <1>7, <1>8, <2>1, <2>2, SessionMoves
<1>10. ASSUME NEW q \in Lives, q # s
       PROVE  SessionOK(q)'
  BY <1>7, <1>8, <1>10, SessionUntouched DEF SessionInv
<1> QED BY <1>7, <1>9, <1>10 DEF SessionInv

\* A step of a session that reads nothing and answers nothing.
LEMMA SessionChanges ==
  ASSUME TInv, SessionInv, NEW s \in Lives, NEW x \in LiveType,
         live' = [live EXCEPT ![s] = x], UNCHANGED answers,
         \A q \in Lives \ {s} : stage'[q] = stage[q],
         PipeOK(x), stage'[s] \in InReview => ReviewOK(x),
         MayEdit(x) => SomeYes, x.rejected = live[s].rejected
  PROVE  SessionInv' /\ live' \in [Lives -> LiveType]
<1>1. /\ live'[s] = x /\ (\A q \in Lives \ {s} : live'[q] = live[q])
      /\ live' \in [Lives -> LiveType]
  BY Members DEF TInv
<1>2. SessionOK(s)'
  <2>1. SessionOK(s) /\ (SomeYes => SomeYes')
    BY DEF SessionInv, SomeYes
  <2> QED BY <1>1, <2>1, SessionMoves
<1>3. ASSUME NEW q \in Lives, q # s
      PROVE  SessionOK(q)'
  BY <1>1, <1>3, SessionUntouched DEF SessionInv
<1> QED BY <1>1, <1>2, <1>3 DEF SessionInv

\* A process that ends can neither ask nor edit.
LEMMA DeadOK ==
  ASSUME NEW l \in LiveType, PipeOK(l)
  PROVE  LET x == [l EXCEPT !.cli = "dead", !.reply = "none"] IN
         /\ x \in LiveType /\ PipeOK(x) /\ ~MayEdit(x) /\ x.rejected = l.rejected
         /\ ReviewOK(l) => ReviewOK(x)
<1> DEFINE x == [l EXCEPT !.cli = "dead", !.reply = "none"]
<1>1. /\ x \in LiveType /\ x.cli = "dead" /\ x.reply = "none" /\ x.pipe = l.pipe
      /\ x.phase = l.phase /\ x.errs = l.errs /\ x.rejected = l.rejected
  BY DEF LiveType
<1> HIDE DEF x
<1>2. PipeOK(x) /\ ~MayEdit(x) /\ (ReviewOK(l) => ReviewOK(x))
  BY <1>1 DEF PipeOK, NoRequest, MayEdit, ReviewOK
<1> QED BY <1>1, <1>2 DEF x

LEMMA RunLiveStep ==
  ASSUME TInv, SessionInv, NEW s \in Lives, Drained(s) \/ Watchdog(s) \/ Waited(s) \/ Exit(s)
  PROVE  SessionInv' /\ live' \in [Lives -> LiveType]
<1> DEFINE l == live[s]
<1>1. /\ l \in LiveType /\ PipeOK(l) /\ s \in Agents /\ (MayEdit(l) => SomeYes)
      /\ stage[s] \in InReview => ReviewOK(l)
  BY Members DEF SessionInv, SessionOK, TInv
<1>2. UNCHANGED answers
  BY DEF Drained, Watchdog, Waited, Exit
<1>3. CASE Watchdog(s) \/ Exit(s)
  <2>1. live' = [live EXCEPT ![s] = [l EXCEPT !.cli = "dead", !.reply = "none"]] /\ stage' = stage
    BY <1>3, <1>1 DEF Watchdog, Exit
  <2> QED BY <1>1, <1>2, <2>1, DeadOK, SessionChanges
<1>4. CASE Drained(s)
  <2> DEFINE x == [l EXCEPT !.phase = "wait", !.stdin = FALSE]
  <2>1. live' = [live EXCEPT ![s] = x] /\ stage' = stage /\ stage[s] = "none"
    BY <1>4 DEF Drained
  <2>2. /\ x \in LiveType /\ x.cli = l.cli /\ x.reply = l.reply /\ x.pipe = l.pipe
        /\ x.phase = "wait" /\ x.rejected = l.rejected
    BY <1>1 DEF LiveType
  <2> HIDE DEF x
  <2>3. PipeOK(x) /\ (MayEdit(x) => SomeYes)
    BY <1>1, <2>2 DEF PipeOK, NoRequest, MayEdit
  <2> QED BY <1>2, <2>1, <2>2, <2>3, SessionChanges DEF InReview
<1>5. CASE Waited(s)
  <2> DEFINE x == [l EXCEPT !.phase = "returned", !.errs = 0, !.prose = FALSE, !.wrote = MaxEvents]
  <2>1. live' = [live EXCEPT ![s] = x] /\ stage' = [stage EXCEPT ![s] = "done"]
    BY <1>5 DEF Waited
  <2>2. MaxEvents \in 0..MaxEvents /\ 0 \in 0..MaxProtocolErrors
    BY SignOffAssumption DEF MaxProtocolErrors
  <2>3. /\ x \in LiveType /\ x.cli = l.cli /\ x.reply = l.reply /\ x.pipe = l.pipe
        /\ x.phase = "returned" /\ x.rejected = l.rejected
    BY <1>1, <2>2 DEF LiveType
  <2> HIDE DEF x
  <2>4. PipeOK(x) /\ (MayEdit(x) => SomeYes)
    BY <1>1, <2>3 DEF PipeOK, NoRequest, MayEdit
  <2>5. stage'[s] = "done" /\ \A q \in Lives \ {s} : stage'[q] = stage[q]
    BY <1>1, <2>1 DEF TInv, TypeOK
  <2> QED BY <1>2, <2>1, <2>3, <2>4, <2>5, SessionChanges DEF InReview
<1> QED BY <1>3, <1>4, <1>5

LEMMA EmitStep ==
  ASSUME TInv, SessionInv, NEW s \in Lives, Emit(s)
  PROVE  SessionInv' /\ live' \in [Lives -> LiveType]
<1> DEFINE l == live[s]
<1>1. /\ l \in LiveType /\ PipeOK(l) /\ s \in Agents
      /\ stage[s] \in InReview => ReviewOK(l)
  BY Members DEF SessionInv, SessionOK, TInv
<1>a. l.pipe \in Seq(AllEvents) /\ l.wrote \in 0..MaxEvents
  BY <1>1 DEF LiveType
<1>b. MaxEvents \in Nat
  BY SignOffAssumption
<1>2. PICK e \in Events :
        /\ l.cli = "runs" /\ l.wrote < MaxEvents
        /\ live' = [live EXCEPT ![s].wrote = @ + 1,
                      ![s].pipe = IF l.phase = "loop" THEN Append(@, e) ELSE @,
                      ![s].cli = CASE e = "edit?" -> "asks edit"
                                   [] e \in {"other?", "odd?"} -> "asks other"
                                   [] e \in {"result", "bad result"} -> "over"
                                   [] OTHER -> "runs"]
        /\ UNCHANGED <<stage, answers>>
  BY DEF Emit
<1> DEFINE pipe == IF l.phase = "loop" THEN Append(l.pipe, e) ELSE l.pipe
           cli == CASE e = "edit?" -> "asks edit"
                    [] e \in {"other?", "odd?"} -> "asks other"
                    [] e \in {"result", "bad result"} -> "over"
                    [] OTHER -> "runs"
           x == [l EXCEPT !.wrote = l.wrote + 1, !.pipe = pipe, !.cli = cli]
<1>3. live' = [live EXCEPT ![s] = x]
  <2> HIDE DEF cli
  <2>1. live' = [live EXCEPT ![s].wrote = @ + 1,
                   ![s].pipe = IF l.phase = "loop" THEN Append(@, e) ELSE @, ![s].cli = cli]
    BY <1>2 DEF cli
  <2>2. live \in [Lives -> LiveType]
    BY Members DEF TInv
  <2> QED BY <1>1, <2>1, <2>2 DEF LiveType
<1>4. e \in AllEvents /\ stage[s] \notin InReview
  BY <1>1, <1>2, SignOffAssumption DEF ReviewOK
<1>5. NoRequest(l) /\ l.reply = "none"
  BY <1>1, <1>2 DEF PipeOK, NoRequest
<1>6. /\ pipe \in Seq(AllEvents) /\ Len(pipe) \in Nat /\ DOMAIN pipe = 1..Len(pipe)
      /\ \A i \in DOMAIN pipe : (i = Len(pipe) /\ pipe[i] = e) \/ pipe[i] \notin Requests
  <2>1. CASE l.phase = "loop"
    <3>1. pipe = Append(l.pipe, e) /\ pipe \in Seq(AllEvents) /\ Len(pipe) = Len(l.pipe) + 1
      BY <1>a, <1>4, <2>1
    <3> HIDE DEF pipe
    <3>2. \A i \in 1..Len(l.pipe) : i \in DOMAIN l.pipe /\ pipe[i] = l.pipe[i]
      BY <1>a, <1>4, <3>1
    <3>3. pipe[Len(pipe)] = e /\ Len(l.pipe) \in Nat
      BY <1>a, <1>4, <3>1
    <3> QED BY <1>5, <3>1, <3>2, <3>3 DEF NoRequest
  <2>2. CASE l.phase # "loop"
    BY <1>a, <1>5, <2>2 DEF NoRequest
  <2> QED BY <2>1, <2>2
<1>7. /\ cli \in {"runs", "asks edit", "asks other", "over"}
      /\ e \in Requests => cli = IF e = "edit?" THEN "asks edit" ELSE "asks other"
  BY DEF Requests
<1> HIDE DEF pipe, cli
<1>8. /\ x \in LiveType /\ x.pipe = pipe /\ x.cli = cli /\ x.reply = "none"
      /\ x.phase = l.phase /\ x.errs = l.errs /\ x.rejected = l.rejected
  <2>1. l.wrote + 1 \in 0..MaxEvents
    <3>1. l.wrote < MaxEvents /\ l.wrote \in 0..MaxEvents
      BY <1>2, <1>a
    <3> QED BY <3>1, <1>b
  <2> QED BY <1>1, <1>5, <1>6, <1>7, <2>1 DEF LiveType
<1> HIDE DEF x
<1>9. PipeOK(x) /\ ~MayEdit(x)
  <2>1. ASSUME NEW i \in DOMAIN x.pipe, x.pipe[i] \in Requests
        PROVE  /\ i = Len(x.pipe)
               /\ x.cli \in {IF x.pipe[i] = "edit?" THEN "asks edit" ELSE "asks other", "dead"}
    BY <1>6, <1>7, <1>8, <2>1
  <2> QED BY <1>1, <1>8, <2>1 DEF PipeOK, MayEdit
<1> QED BY <1>2, <1>3, <1>4, <1>8, <1>9, SessionChanges

LEMMA ProceedStep ==
  ASSUME TInv, SessionInv, NEW s \in Lives, Proceed(s)
  PROVE  /\ SessionInv' /\ live' \in [Lives -> LiveType]
         /\ edited' \subseteq edited \cup {s} /\ (edited' # edited => SomeYes)
<1> DEFINE l == live[s]
           x == [l EXCEPT !.cli = "runs", !.reply = "none"]
<1>1. /\ l \in LiveType /\ PipeOK(l) /\ s \in Agents /\ (MayEdit(l) => SomeYes)
      /\ stage[s] \in InReview => ReviewOK(l)
  BY Members DEF SessionInv, SessionOK, TInv
<1>2. /\ l.reply # "none" /\ live' = [live EXCEPT ![s] = x] /\ UNCHANGED <<stage, answers>>
      /\ edited' = IF MayEdit(l) THEN edited \cup {s} ELSE edited
  BY DEF Proceed, MayEdit
<1>3. NoRequest(l) /\ stage[s] \notin InReview
  BY <1>1, <1>2 DEF PipeOK, ReviewOK
<1>4. /\ x \in LiveType /\ x.cli = "runs" /\ x.reply = "none" /\ x.pipe = l.pipe
      /\ x.phase = l.phase /\ x.errs = l.errs /\ x.rejected = l.rejected
  BY <1>1 DEF LiveType
<1> HIDE DEF x
<1>5. PipeOK(x) /\ ~MayEdit(x)
  BY <1>1, <1>3, <1>4 DEF PipeOK, NoRequest, MayEdit
<1>6. SessionInv' /\ live' \in [Lives -> LiveType]
  BY <1>2, <1>3, <1>4, <1>5, SessionChanges
<1> QED BY <1>1, <1>2, <1>6

\* Lines that are put in are lines.
LEMMA PutType ==
  ASSUME TInv, Put
  PROVE  tty' \in Seq(LineType)
<1>1. PICK p \in Pastes : tty' = tty \o [i \in DOMAIN p |->
                            [kind |-> p[i], ahead |-> mu = NoOne, tail |-> i > 1]]
  BY DEF Put
<1> DEFINE q == [i \in DOMAIN p |-> [kind |-> p[i], ahead |-> mu = NoOne, tail |-> i > 1]]
<1>2. p \in Seq(Lines)
  BY SignOffAssumption
<1>3. /\ DOMAIN p = 1..Len(p) /\ Len(p) \in Nat
      /\ \A i \in 1..Len(p) : p[i] \in Lines
  BY <1>2
<1>4. q \in [1..Len(p) -> LineType]
  BY <1>3 DEF LineType
<1>5. q \in Seq(LineType)
  <2> HIDE DEF q
  <2> QED BY <1>3, <1>4
<1> QED BY <1>1, <1>5 DEF TInv

\* The parts of TypeOK that are not the terminal's or the sessions'.
LEMMA TInvParts ==
  ASSUME TInv,
         stage' \in [Agents -> {"none", "lock", "answer", "body", "confirm", "done"}],
         mu' \in Agents \cup {NoOne}, approved' \in BOOLEAN, eof' \in BOOLEAN,
         tty' \in Seq(LineType), live' \in [Lives -> LiveType], edited' \subseteq Agents,
         patched' \in BOOLEAN
  PROVE  TInv'
<1>1. \A i \in DOMAIN tty' : tty'[i].kind \in Lines
  BY LinesType
<1> QED BY <1>1 DEF TInv, TypeOK

\* A step of agent a at a prompt that ends its review.
LEMMA ReviewEnds ==
  ASSUME IInv, NEW a \in Agents, stage[a] \in {"answer", "body"},
         NEW outcome \in {"approved", "rejected", "feedback", "error"}, Decide(a, outcome),
         TakeLine \/ AtEOF, UNCHANGED top,
         answers \subseteq answers', \A r \in answers' \ answers : r.by = a /\ r.met,
         outcome = "approved" => SomeYes',
         \A r \in answers' \ answers : r.line.kind = "no" => outcome = "rejected"
  PROVE  IInv'
<1> USE DEF IInv
<1>0. stage[a] \in InReview /\ "none" \notin {"answer", "body"}
  BY DEF InReview
<1>1. /\ SessionInv' /\ live' \in [Lives -> LiveType]
      /\ mu' = NoOne /\ stage' = [stage EXCEPT ![a] = "none"]
      /\ (approved' => approved \/ outcome = "approved")
      /\ approved' \in BOOLEAN /\ UNCHANGED changes
  BY <1>0, DecideStep
<1>2. tty' \in Seq(LineType) /\ eof' = eof
  BY LineRead
<1>3. TInv'
  BY <1>1, <1>2, TInvParts DEF TInv, TypeOK
<1>4. GateInv'
  BY <1>1 DEF GateInv, SomeYes
<1>5. PromptInv'
  <2>1. \A b \in Agents \ {a} : stage'[b] = stage[b] /\ stage[b] \notin {"answer", "body"}
    <3>1. a # NoOne
      BY SignOffAssumption DEF Agents
    <3>2. mu = a
      BY DEF PromptInv
    <3> QED BY <1>1, <3>2 DEF PromptInv
  <2>2. stage'[a] = "none"
    BY <1>1 DEF TInv, TypeOK
  <2> QED BY <1>0, <2>1, <2>2 DEF PromptInv
<1>6. AnswersMeetLastPlan'
  BY DEF AnswersMeetLastPlan
<1> QED BY <1>1, <1>3, <1>4, <1>5, <1>6

\* A step that leaves the sessions' records, the gate and the history alone, and
\* moves no agent into or within a review.
LEMMA Elsewhere ==
  ASSUME IInv, UNCHANGED <<mu, approved, live, top, answers, changes>>,
         stage' \in [Agents -> {"none", "lock", "answer", "body", "confirm", "done"}],
         tty' \in Seq(LineType), eof' \in BOOLEAN,
         \A a \in Agents : stage'[a] \in {"answer", "body"} => stage'[a] = stage[a],
         \A s \in Lives : stage'[s] = stage[s]
  PROVE  IInv'
<1> USE DEF IInv
<1>1. TInv'
  BY TInvParts DEF TInv, TypeOK
<1>2. SessionInv'
  BY SessionUntouched DEF SessionInv
<1>3. GateInv' /\ AnswersMeetLastPlan'
  BY DEF GateInv, SomeYes, AnswersMeetLastPlan
<1>4. PromptInv'
  BY DEF PromptInv
<1> QED BY <1>1, <1>2, <1>3, <1>4

LEMMA AnswerStep ==
  ASSUME IInv, NEW a \in Agents, Answer(a)
  PROVE  IInv'
<1> USE DEF IInv
<1>1. stage[a] = "answer" /\ top = a /\ mu = a /\ UNCHANGED top
  BY DEF Answer, PromptInv
<1>2. CASE AtEOF /\ Decide(a, "error") /\ UNCHANGED answers
  BY <1>1, <1>2, ReviewEnds
<1>3. CASE /\ TakeLine
           /\ Head(tty).kind \in {"yes", "no"}
           /\ answers' = answers \cup {[line |-> Head(tty), by |-> a, met |-> top = a]}
           /\ Decide(a, IF Head(tty).kind = "yes" THEN "approved" ELSE "rejected")
  <2> DEFINE r == [line |-> Head(tty), by |-> a, met |-> top = a]
             outcome == IF Head(tty).kind = "yes" THEN "approved" ELSE "rejected"
  <2>1. /\ answers' = answers \cup {r} /\ r.by = a /\ r.met /\ r.line.kind = Head(tty).kind
    BY <1>1, <1>3
  <2>2. /\ Decide(a, outcome) /\ outcome \in {"approved", "rejected", "feedback", "error"}
        /\ outcome = "approved" => r.line.kind = "yes"
        /\ r.line.kind = "no" => outcome = "rejected"
    BY <1>3, <2>1
  <2> HIDE DEF outcome, r
  <2>3. outcome = "approved" => SomeYes'
    BY <2>1, <2>2 DEF SomeYes
  <2>4. \A x \in answers' \ answers : x = r
    BY <2>1
  <2> QED BY <1>1, <1>3, <2>1, <2>2, <2>3, <2>4, ReviewEnds
<1>4. CASE /\ TakeLine
           /\ Head(tty).kind = "blank" /\ UNCHANGED <<answers, stage, mu, approved, live, changes>>
  <2>1. tty' \in Seq(LineType) /\ eof' = eof
    BY <1>4, LineRead
  <2> QED BY <1>1, <1>4, <2>1, Elsewhere DEF TInv, TypeOK
<1>5. CASE /\ TakeLine
           /\ Head(tty).kind = "text"
           /\ answers' = answers \cup {[line |-> Head(tty), by |-> a, met |-> top = a]}
           /\ stage' = [stage EXCEPT ![a] = "body"] /\ UNCHANGED <<mu, approved, live, changes>>
  <2> DEFINE r == [line |-> Head(tty), by |-> a, met |-> top = a]
  <2>1. /\ answers' = answers \cup {r} /\ r.by = a /\ r.met /\ r.line.kind = "text"
    BY <1>1, <1>5
  <2> HIDE DEF r
  <2>2. tty' \in Seq(LineType) /\ eof' = eof
    BY <1>5, LineRead
  <2>3. /\ stage' \in [Agents -> {"none", "lock", "answer", "body", "confirm", "done"}]
        /\ stage'[a] = "body" /\ \A b \in Agents \ {a} : stage'[b] = stage[b]
    BY <1>5 DEF TInv, TypeOK
  <2>4. TInv'
    BY <1>5, <2>2, <2>3, TInvParts DEF TInv, TypeOK
  <2>5. ASSUME NEW s \in Lives
        PROVE  SessionOK(s)'
    <3>1. stage'[s] \in InReview => stage[s] \in InReview
      BY <1>1, <2>3, Members DEF TInv, InReview
    <3>2. \A x \in answers' : x.line.kind = "no" => x \in answers
      BY <2>1
    <3>3. Refused(s)' => Refused(s)
      BY <3>2 DEF Refused
    <3>4. SomeYes => SomeYes'
      BY <2>1 DEF SomeYes
    <3>5. SessionOK(s) /\ live'[s] = live[s]
      BY <1>5 DEF SessionInv
    <3> QED BY <3>1, <3>3, <3>4, <3>5 DEF SessionOK
  <2>6. GateInv' /\ AnswersMeetLastPlan'
    BY <1>5, <2>1 DEF GateInv, SomeYes, AnswersMeetLastPlan
  <2>7. PromptInv'
    BY <1>1, <1>5, <2>3 DEF PromptInv
  <2> QED BY <2>4, <2>5, <2>6, <2>7 DEF SessionInv
<1>6. TakeLine => Head(tty).kind \in Lines
  BY LineRead
<1> QED BY <1>2, <1>3, <1>4, <1>5, <1>6 DEF Answer, Lines

LEMMA BodyStep ==
  ASSUME IInv, NEW a \in Agents, Body(a)
  PROVE  IInv'
<1> USE DEF IInv
<1>1. stage[a] = "body" /\ UNCHANGED <<top, answers>> /\ (TakeLine \/ AtEOF)
  BY DEF Body
<1>2. CASE Decide(a, "feedback")
  BY <1>1, <1>2, ReviewEnds
<1>3. CASE UNCHANGED <<stage, mu, approved, live, changes>>
  <2>1. tty' \in Seq(LineType) /\ eof' = eof
    BY <1>1, LineRead
  <2> QED BY <1>1, <1>3, <2>1, Elsewhere DEF TInv, TypeOK
<1> QED BY <1>2, <1>3 DEF Body

LEMMA LockStep ==
  ASSUME IInv, NEW a \in Agents, Lock(a)
  PROVE  IInv'
<1> USE DEF IInv
<1>1. /\ stage[a] = "lock" /\ mu = NoOne /\ mu' = a /\ top' = a
      /\ stage' = [stage EXCEPT ![a] = "answer"]
      /\ UNCHANGED <<approved, tty, eof, live, answers, changes>>
  BY DEF Lock
<1>2. /\ stage' \in [Agents -> {"none", "lock", "answer", "body", "confirm", "done"}]
      /\ stage'[a] = "answer" /\ \A b \in Agents \ {a} : stage'[b] = stage[b]
  BY <1>1 DEF TInv, TypeOK
<1>3. TInv'
  BY <1>1, <1>2, TInvParts DEF TInv, TypeOK
<1>4. SessionInv'
  <2>1. \A s \in Lives : stage'[s] \in InReview => stage[s] \in InReview
    BY <1>1, <1>2, Members DEF TInv, InReview
  <2> QED BY <1>1, <2>1, SessionUntouched DEF SessionInv
<1>5. GateInv' /\ AnswersMeetLastPlan'
  BY <1>1 DEF GateInv, SomeYes, AnswersMeetLastPlan
<1>6. PromptInv'
  <2>1. \A b \in Agents : stage[b] \notin {"answer", "body"}
    BY <1>1, SignOffAssumption DEF PromptInv, Agents
  <2> QED BY <1>1, <1>2, <2>1 DEF PromptInv
<1> QED BY <1>3, <1>4, <1>5, <1>6

LEMMA NativeStep ==
  ASSUME IInv, NEW a \in Natives, Native(a)
  PROVE  IInv'
<1> USE DEF IInv
<1>0. a \in Agents /\ \A s \in Lives : s # a
  BY Members DEF TInv
<1>1. CASE Edit(a)
  <2>1. /\ approved /\ edited' = edited \cup {a}
        /\ UNCHANGED <<stage, mu, approved, tty, eof, live, top, answers, patched>>
    BY <1>1 DEF Edit, SignOffDenial
  <2>2. TInv'
    BY <1>0, <2>1, TInvParts DEF TInv, TypeOK
  <2>3. SessionInv'
    BY <2>1, SessionUntouched DEF SessionInv
  <2>4. GateInv' /\ AnswersMeetLastPlan' /\ PromptInv'
    BY <2>1 DEF GateInv, SomeYes, AnswersMeetLastPlan, PromptInv
  <2> QED BY <2>2, <2>3, <2>4
<1>2. ASSUME NEW x \in {"lock", "confirm", "none", "done"}, stage' = [stage EXCEPT ![a] = x],
             UNCHANGED <<mu, approved, live, top, answers, changes>>,
             tty' \in Seq(LineType), eof' = eof
      PROVE  IInv'
  <2>1. /\ stage' \in [Agents -> {"none", "lock", "answer", "body", "confirm", "done"}]
        /\ stage'[a] = x /\ \A b \in Agents \ {a} : stage'[b] = stage[b]
    BY <1>0, <1>2 DEF TInv, TypeOK
  <2>2. \A b \in Agents : stage'[b] \in {"answer", "body"} => stage'[b] = stage[b]
    BY <2>1
  <2>3. \A s \in Lives : stage'[s] = stage[s]
    BY <1>0, <2>1, Members DEF TInv
  <2> QED BY <1>2, <2>1, <2>2, <2>3, Elsewhere DEF TInv, TypeOK
<1>3. CASE ConfirmReads(a)
  <2>1. tty' \in Seq(LineType) /\ eof' = eof
    BY <1>3, LineRead DEF ConfirmReads
  <2>2. stage' = [stage EXCEPT ![a] = "none"] /\ UNCHANGED <<mu, approved, live, top, answers, changes>>
    BY <1>3 DEF ConfirmReads
  <2> QED BY <1>2, <2>1, <2>2
<1>4. CASE ProposePlan(a) \/ Confirm(a) \/ Finish(a)
  <2>1. /\ \E x \in {"lock", "confirm", "none", "done"} : stage' = [stage EXCEPT ![a] = x]
        /\ UNCHANGED <<mu, approved, live, top, answers, changes, tty, eof>>
    BY <1>4 DEF ProposePlan, Confirm, Finish
  <2>2. tty' \in Seq(LineType)
    BY <2>1 DEF TInv
  <2> QED BY <1>2, <2>1, <2>2
<1> QED BY <1>1, <1>3, <1>4 DEF Native

\* A step of a session or of its process.
LEMMA LiveStep ==
  ASSUME IInv, NEW s \in Lives, RunLive(s) \/ Claude(s)
  PROVE  IInv'
<1> USE DEF IInv
<1>0. s \in Agents
  BY Members DEF TInv
<1>1. SessionInv' /\ live' \in [Lives -> LiveType]
  BY HandleStep, RunLiveStep, EmitStep, ProceedStep DEF RunLive, Claude
<1>2. UNCHANGED <<mu, approved, tty, eof, top, answers, patched>>
  BY DEF RunLive, Claude, Handle, Drained, Watchdog, Waited, Emit, Proceed, Exit
<1>3. \/ edited' = edited
      \/ edited' \subseteq edited \cup {s} /\ SomeYes
  <2>1. CASE Proceed(s)
    BY <2>1, ProceedStep
  <2>2. CASE ~Proceed(s)
    BY <2>2 DEF RunLive, Claude, Handle, Drained, Watchdog, Waited, Emit, Exit
  <2> QED BY <2>1, <2>2
<1>4. stage' = stage \/ \E x \in {"lock", "done"} : stage' = [stage EXCEPT ![s] = x]
  <2>1. CASE Handle(s)
    BY <2>1 DEF Handle
  <2>2. CASE Drained(s) \/ Watchdog(s) \/ Waited(s) \/ Claude(s)
    BY <2>2 DEF Claude, Drained, Watchdog, Waited, Emit, Proceed, Exit
  <2> QED BY <2>1, <2>2 DEF RunLive
<1>5. /\ stage' \in [Agents -> {"none", "lock", "answer", "body", "confirm", "done"}]
      /\ \A b \in Agents : stage'[b] \in {"answer", "body"} => stage'[b] = stage[b]
  BY <1>0, <1>4 DEF TInv, TypeOK
<1>6. TInv'
  BY <1>0, <1>1, <1>2, <1>3, <1>5, TInvParts DEF TInv, TypeOK
<1>7. GateInv' /\ AnswersMeetLastPlan'
  BY <1>2, <1>3 DEF GateInv, SomeYes, AnswersMeetLastPlan
<1>8. PromptInv'
  BY <1>2, <1>5 DEF PromptInv
<1> QED BY <1>1, <1>6, <1>7, <1>8

LEMMA IInvStep ==
  ASSUME IInv, [Next]_vars
  PROVE  IInv'
<1>1. CASE Put
  BY <1>1, PutType, Elsewhere DEF Put, IInv, TInv, TypeOK
<1>2. CASE EndInput
  BY <1>2, Elsewhere DEF EndInput, IInv, TInv, TypeOK
<1>3. CASE \E a \in Agents : Agent(a)
  BY <1>3, LockStep, AnswerStep, BodyStep DEF Agent
<1>4. CASE UNCHANGED vars
  BY <1>4, Elsewhere DEF IInv, TInv, TypeOK
<1>5. CASE ApplyResponse
  <2>1. UNCHANGED <<stage, mu, approved, tty, eof, live, top, answers, edited>> /\ patched' = TRUE
    BY <1>5 DEF ApplyResponse
  <2>2. TInv'
    BY <2>1, TInvParts DEF IInv, TInv, TypeOK
  <2>3. SessionInv'
    BY <2>1, SessionUntouched DEF IInv, SessionInv
  <2>4. GateInv' /\ AnswersMeetLastPlan' /\ PromptInv'
    BY <2>1 DEF IInv, GateInv, SomeYes, AnswersMeetLastPlan, PromptInv
  <2> QED BY <2>2, <2>3, <2>4 DEF IInv
<1> QED BY <1>1, <1>2, <1>3, <1>4, <1>5, NativeStep, LiveStep DEF Next

LEMMA IInvInit == Init => IInv
<1> SUFFICES ASSUME Init PROVE IInv
  OBVIOUS
<1>0. <<>> \in Seq(LineType) /\ <<>> \in Seq(AllEvents) /\ DOMAIN <<>> = {}
  OBVIOUS
<1>1. {MaxEvents} \subseteq Nat /\ 0 \in 0..MaxProtocolErrors
  BY SignOffAssumption DEF MaxProtocolErrors
<1>2. 0 \in 0..MaxEvents
  BY <1>1
<1> DEFINE l == [cli |-> "runs", wrote |-> 0, pipe |-> <<>>, reply |-> "none", phase |-> "loop",
                 stdin |-> TRUE, result |-> FALSE, errs |-> 0, prose |-> FALSE,
                 failed |-> FALSE, rejected |-> FALSE]
<1>3. l \in LiveType
  BY <1>0, <1>1, <1>2 DEF LiveType
<1>4. PipeOK(l) /\ ~MayEdit(l)
  BY <1>0 DEF PipeOK, MayEdit, MaxProtocolErrors
<1>5. live = [s \in Lives |-> l] /\ stage = [a \in Agents |-> "none"] /\ tty = <<>>
  BY DEF Init
<1> HIDE DEF l
<1>6. TInv
  BY <1>0, <1>3, <1>5 DEF Init, TInv, TypeOK
<1>7. \A s \in Lives : stage[s] = "none"
  BY <1>5 DEF Agents
<1>8. SessionInv
  BY <1>4, <1>5, <1>7 DEF Init, SessionInv, SessionOK, Refused, InReview
<1>9. GateInv /\ PromptInv /\ AnswersMeetLastPlan
  BY <1>5 DEF Init, GateInv, PromptInv, AnswersMeetLastPlan
<1> QED BY <1>6, <1>8, <1>9 DEF IInv

LEMMA IInvHolds == Spec => []IInv
<1>1. Init => IInv
  BY IInvInit
<1>2. IInv /\ [Next]_vars => IInv'
  BY IInvStep
<1> QED BY <1>1, <1>2, PTL DEF Spec

\* Every reachable state has its types, whatever the processes write: a session
\* never counts more than MaxProtocolErrors (claude_live.go).
THEOREM TypeCorrect == Spec => []TypeOK
<1>1. IInv => TypeOK
  BY DEF IInv, TInv
<1> QED BY <1>1, IInvHolds, PTL

\* No tool and no session changes a file before a line that was taken for the answer
\* to a plan has approved one: not by a native agent (SignOffDenial), and not by a
\* claude process, which edits only on an answer given under the latch (canUseTool).
\* It says nothing of the diff of a response, which --apply applies without a sign-off.
THEOREM EditsSound == Spec => []EditsAreApproved
<1>1. IInv => EditsAreApproved
  BY DEF IInv, GateInv, SomeYes, EditsAreApproved
<1> QED BY <1>1, IInvHolds, PTL

\* An answer is for the plan that was displayed last, since the lock that is held
\* from the display to the decision serializes reviews (promptSignOff).
THEOREM AnswersSound == Spec => []AnswersMeetLastPlan
<1>1. IInv => AnswersMeetLastPlan
  BY DEF IInv
<1> QED BY <1>1, IInvHolds, PTL

\* A session whose plan was refused never prompts the reviewer again, though
\* other agents share the gate and may open it (claudeSignOffGate.rejected).
THEOREM RefusalsAreQuiet == Spec => []RefusedIsQuiet
<1>1. IInv => RefusedIsQuiet
  BY DEF IInv, SessionInv, SessionOK, ReviewOK, InReview, RefusedIsQuiet
<1> QED BY <1>1, IInvHolds, PTL

=============================================================================
