------------------------- MODULE SessionEndingsProofs -------------------------
(***************************************************************************)
(* Proofs about SessionEndings, for any number of sessions, handlers,      *)
(* sweeps, requests and crashes: the types, the chain of the audit log and *)
(* what a revocation's answer is worth.                                    *)
(***************************************************************************)
EXTENDS SessionEndings, SequenceTheorems, TLAPS

\* The parameters as the leaves use them.
LEMMA Parameters ==
  /\ Timed \in SUBSET Sessions /\ Contested \in SUBSET Sessions
  /\ \A h \in Handlers : h \notin Sweeps /\ h \notin Requests
  /\ \A w \in Sweeps : w \notin Requests
  /\ IdleLimit \in Nat /\ IdleLimit > 0 /\ MaxCrashes \in Nat
  /\ \A reason \in Leaving : reason \in Reasons
  /\ None \notin Sessions
BY EndingsParameters DEF Reasons

-----------------------------------------------------------------------------
\* Types

\* The part of the type invariant that the frames and the answers are in.
FrameType ==
  /\ tracked \in SUBSET Timed /\ todo \in [Sweeps -> SUBSET Timed]
  /\ pc \in [Tasks -> Points] /\ on \in [Tasks -> Sessions \cup {None}]
  /\ answer \in [Requests -> Answers]
  /\ \A a \in Tasks : pc[a] # "idle" => on[a] \in Sessions
  /\ why \in [Handlers -> Leaving \cup {"none"}]
  /\ \A h \in Handlers : pc[h] # "idle" => why[h] \in Leaving
  /\ \A a \in Tasks \ Requests : pc[a] \in {"idle", "update", "read", "insert"}
  /\ \A r \in Requests : pc[r] = "done" <=> answer[r] # "none"

\* And the rest of it.
RestType ==
  /\ row \in [Sessions -> Statuses] /\ revoked \in SUBSET Sessions
  /\ audit \in [Sessions -> Seq([event : Events, prev : Nat])]
  /\ silent \in [Sessions -> 0..IdleLimit] /\ tail \in [Tasks -> Nat]
  /\ quiet \in SUBSET Sessions /\ crashes \in 0..MaxCrashes

\* The two parts together are the type invariant, before a step and after it.
LEMMA TypeParts == (TypeOK <=> FrameType /\ RestType) /\ (TypeOK' <=> FrameType' /\ RestType')
BY DEF TypeOK, FrameType, RestType

\* A sweep that takes a session keeps its frame in shape.
LEMMA TakesType ==
  ASSUME FrameType, NEW w \in Sweeps, NEW s \in Sessions, NEW rest \in SUBSET Timed,
         Takes(w, s, rest), UNCHANGED <<answer, why>>
  PROVE  FrameType'
<1>1. w \in Tasks /\ w \notin Requests /\ "update" \in Points
  BY Parameters DEF Tasks, Points
<1>2. /\ pc' \in [Tasks -> Points] /\ on' \in [Tasks -> Sessions \cup {None}]
      /\ todo' \in [Sweeps -> SUBSET Timed] /\ tracked' \in SUBSET Timed
  BY <1>1 DEF FrameType, Takes
<1>3. \A a \in Tasks \ {w} : pc'[a] = pc[a] /\ on'[a] = on[a]
  BY DEF FrameType, Takes
<1>4. pc'[w] = "update" /\ on'[w] = s
  BY <1>1 DEF FrameType, Takes
<1> QED BY <1>1, <1>2, <1>3, <1>4, Parameters DEF FrameType, Tasks

\* So does a task that goes to its next await.
LEMMA GotoType ==
  ASSUME FrameType, NEW a \in Tasks, pc[a] # "idle",
         NEW p \in Points \ {"idle", "done"}, Goto(a, p), UNCHANGED <<answer, why>>,
         pc[a] # "done", a \in Requests \/ p \in {"update", "read", "insert"}
  PROVE  FrameType'
<1>1. pc' \in [Tasks -> Points]
  BY DEF FrameType, Goto, Points
<1> QED BY <1>1 DEF FrameType, Goto, Tasks

\* A request that gives its answer.
LEMMA ReplyType ==
  ASSUME FrameType, NEW r \in Requests, pc[r] # "idle",
         NEW status \in Answers \ {"none"}, Goto(r, "done"), Reply(r, status),
         UNCHANGED why
  PROVE  FrameType'
<1>1. r \in Tasks /\ pc' \in [Tasks -> Points] /\ answer' \in [Requests -> Answers]
  BY DEF FrameType, Goto, Reply, Points, Tasks
<1> QED BY <1>1 DEF FrameType, Goto, Reply, Tasks

\* A sweep that goes on to its next session, or ends.
LEMMA SweepGoesOnType ==
  ASSUME FrameType, NEW w \in Sweeps, SweepGoesOn(w), UNCHANGED <<answer, why>>
  PROVE  FrameType'
<1>1. CASE todo[w] = {}
  <2>1. w \in Tasks /\ pc' \in [Tasks -> Points] /\ on' \in [Tasks -> Sessions \cup {None}]
    BY <1>1 DEF FrameType, SweepGoesOn, Finish, Points, Tasks
  <2> QED BY <1>1, <2>1, Parameters DEF FrameType, SweepGoesOn, Finish, Tasks
<1>2. CASE todo[w] # {}
  <2>1. PICK s \in todo[w] : Takes(w, s, todo[w] \ {s})
    BY <1>2 DEF SweepGoesOn
  <2>2. todo[w] \in SUBSET Timed
    BY DEF FrameType
  <2> QED BY <2>1, <2>2, TakesType, Parameters
<1> QED BY <1>1, <1>2

\* The caller that endSession returns to.
LEMMA ReturnsType ==
  ASSUME FrameType, NEW a \in Tasks, pc[a] \notin {"idle", "done"}, Returns(a), UNCHANGED why
  PROVE  FrameType'
<1>1. CASE a \in Handlers /\ Finish(a) /\ UNCHANGED answer
  <2>1. a \notin Requests /\ pc' \in [Tasks -> Points] /\ on' \in [Tasks -> Sessions \cup {None}]
    BY <1>1, Parameters DEF FrameType, Finish, Points
  <2> QED BY <1>1, <2>1 DEF FrameType, Finish, Tasks
<1>2. CASE a \in Sweeps /\ SweepGoesOn(a) /\ UNCHANGED answer
  BY <1>2, SweepGoesOnType
<1>3. CASE a \in Requests /\ Goto(a, "done") /\ Reply(a, "200")
  BY <1>3, ReplyType DEF Answers
<1> QED BY <1>1, <1>2, <1>3 DEF Returns

\* The reason a task gives.
LEMMA CauseType ==
  ASSUME FrameType, NEW a \in Tasks, pc[a] # "idle"
  PROVE  Cause(a) \in Reasons
BY Parameters DEF Cause, FrameType, Tasks, Reasons

\* The sessions' rows after an UPDATE.
LEMMA EndedByType ==
  ASSUME TypeOK, NEW a \in Tasks, pc[a] # "idle"
  PROVE  EndedBy(a) \in [Sessions -> Statuses]
BY CauseType, TypeParts DEF EndedBy, RestType, Statuses

\* An UPDATE ends an active session, and changes no other row.
LEMMA EndedByRows ==
  ASSUME TypeOK, NEW a \in Tasks, pc[a] # "idle"
  PROVE  \A s \in Sessions :
           EndedBy(a)[s] = row[s] \/ (row[s] = "active" /\ EndedBy(a)[s] \in Reasons)
<1>1. row \in [Sessions -> Statuses] /\ on[a] \in Sessions /\ Cause(a) \in Reasons
  BY CauseType, TypeParts DEF FrameType, RestType
<1> QED BY <1>1 DEF EndedBy

\* Pairing and input.
LEMMA ClockType ==
  ASSUME TypeOK, NEW s \in Sessions, Pair(s) \/ StartIdleTimer(s) \/ Input(s)
  PROVE  TypeOK'
<1>1. CASE Pair(s)
  <2>1. <<AuditRow("paired", 0)>> \in Seq([event : Events, prev : Nat])
    BY DEF AuditRow, Events
  <2>4. audit' \in [Sessions -> Seq([event : Events, prev : Nat])]
    <3> DEFINE Row == [event : Events, prev : Nat]
               rows == <<AuditRow("paired", 0)>>
    <3>1. audit \in [Sessions -> Seq(Row)] /\ rows \in Seq(Row) /\ audit' = [audit EXCEPT ![s] = rows]
      BY <1>1, <2>1 DEF Pair, TypeOK
    <3> HIDE DEF Row, rows
    <3>2. audit' \in [Sessions -> Seq(Row)]
      BY <3>1
    <3> QED BY <3>2 DEF Row
  <2>5. row' \in [Sessions -> Statuses] /\ silent' \in [Sessions -> 0..IdleLimit]
    BY <1>1, Parameters DEF Pair, TypeOK, Statuses
  <2>2. RestType'
    BY <1>1, <2>4, <2>5, TypeParts DEF Pair, RestType, frame
  <2>3. FrameType'
    BY <1>1, TypeParts DEF Pair, FrameType, frame
  <2> QED BY <2>2, <2>3, TypeParts
<1>2. CASE Input(s)
  <2>1. silent' \in [Sessions -> 0..IdleLimit]
    BY <1>2, Parameters DEF Input, ResetIdleTimer, TypeOK
  <2> QED BY <1>2, <2>1, TypeParts DEF Input, ResetIdleTimer, FrameType, RestType, database, frame
<1>3. CASE StartIdleTimer(s)
  <2>1. silent' \in [Sessions -> 0..IdleLimit] /\ tracked' \in SUBSET Timed
    BY <1>3, Parameters DEF StartIdleTimer, TypeOK
  <2> QED BY <1>3, <2>1, TypeParts DEF StartIdleTimer, FrameType, RestType, database, frame
<1> QED BY <1>1, <1>2, <1>3

\* Time.
LEMMA TickType == TypeOK /\ Tick => TypeOK'
<1> SUFFICES ASSUME TypeOK, Tick PROVE TypeOK'
  OBVIOUS
<1>1. silent' \in [Sessions -> 0..IdleLimit]
  BY Parameters DEF Tick, TypeOK
<1>2. quiet' \in SUBSET Sessions
  BY DEF Tick, TypeOK
<1> QED BY <1>1, <1>2, TypeParts DEF Tick, FrameType, RestType, database, frame

\* A sweep or a handler starts, or a request arrives.
LEMMA StartType ==
  ASSUME TypeOK
  PROVE  /\ \A w \in Sweeps : SweepStarts(w) => TypeOK'
         /\ \A h \in Handlers : HandlerStarts(h) => TypeOK'
         /\ \A r \in Requests, s \in Sessions : RevokeArrives(r, s) => TypeOK'
<1>1. ASSUME NEW w \in Sweeps, SweepStarts(w) PROVE TypeOK'
  <2>1. PICK s \in Sessions : Takes(w, s, {t \in Sessions : Overdue(t)} \ {s})
    BY <1>1 DEF SweepStarts
  <2>2. {t \in Sessions : Overdue(t)} \ {s} \in SUBSET Timed
    BY DEF Overdue, TypeOK
  <2>3. FrameType'
    BY <1>1, <2>1, <2>2, TakesType, TypeParts DEF SweepStarts
  <2> QED BY <1>1, <2>3, TypeParts DEF SweepStarts, RestType, database
<1>2. ASSUME NEW h \in Handlers, HandlerStarts(h) PROVE TypeOK'
  <2>1. /\ h \in Tasks /\ h \notin Requests
        /\ pc' \in [Tasks -> Points] /\ on' \in [Tasks -> Sessions \cup {None}]
        /\ why' \in [Handlers -> Leaving \cup {"none"}]
        /\ why'[h] \in Leaving /\ on'[h] \in Sessions
        /\ \A k \in Handlers \ {h} : why'[k] = why[k]
        /\ \A a \in Tasks \ {h} : on'[a] = on[a] /\ pc'[a] = pc[a]
    BY <1>2, Parameters DEF HandlerStarts, TypeOK, Tasks, Points
  <2>2. FrameType'
    BY <1>2, <2>1, TypeParts DEF HandlerStarts, FrameType, idle
  <2> QED BY <1>2, <2>2, TypeParts DEF HandlerStarts, RestType, database, idle
<1>3. ASSUME NEW r \in Requests, NEW s \in Sessions, RevokeArrives(r, s) PROVE TypeOK'
  <2>1. r \in Tasks /\ pc' \in [Tasks -> Points] /\ on' \in [Tasks -> Sessions \cup {None}]
    BY <1>3 DEF RevokeArrives, TypeOK, Tasks, Points
  <2>2. FrameType'
    BY <1>3, <2>1, Parameters, TypeParts DEF RevokeArrives, FrameType, idle
  <2> QED BY <1>3, <2>2, TypeParts DEF RevokeArrives, RestType, database, idle
<1> QED BY <1>1, <1>2, <1>3

\* A query of endSession is answered, or fails.
LEMMA EndType ==
  ASSUME TypeOK, NEW a \in Tasks, Answered(a) \/ Failed(a)
  PROVE  TypeOK'
<1>1. pc[a] \in {"update", "read", "insert"} /\ on[a] \in Sessions /\ FrameType /\ RestType
  BY TypeParts DEF Answered, Failed, EndUpdate, EndRead, EndInsert, AuditFails, SweepFails, FrameType
<1>2. CASE EndUpdate(a)
  <2>1. row' \in [Sessions -> Statuses]
    BY <1>1, <1>2, EndedByType DEF EndUpdate
  <2>2. FrameType'
    BY <1>1, <1>2, GotoType, ReturnsType DEF EndUpdate, Points
  <2> QED BY <1>1, <1>2, <2>1, <2>2, TypeParts DEF EndUpdate, RestType
<1>3. CASE EndRead(a)
  <2>1. tail' \in [Tasks -> Nat]
    BY <1>1, <1>3 DEF EndRead, RestType
  <2>2. FrameType'
    BY <1>1, <1>3, GotoType DEF EndRead, Points
  <2> QED BY <1>1, <1>3, <2>1, <2>2, TypeParts DEF EndRead, RestType, database
<1>4. CASE EndInsert(a)
  <2>1. AuditRow(Cause(a), tail[a]) \in [event : Events, prev : Nat]
    BY <1>1, CauseType DEF RestType, AuditRow, Events
  <2> DEFINE Row == [event : Events, prev : Nat]
  <2>4. Append(audit[on[a]], AuditRow(Cause(a), tail[a])) \in Seq(Row)
    <3>1. audit[on[a]] \in Seq(Row) /\ AuditRow(Cause(a), tail[a]) \in Row
      BY <1>1, <2>1 DEF RestType
    <3> HIDE DEF Row
    <3> QED BY <3>1
  <2>2. tail' \in [Tasks -> Nat] /\ audit' \in [Sessions -> Seq(Row)]
    BY <1>1, <1>4, <2>4 DEF EndInsert, RestType
  <2>3. FrameType'
    BY <1>1, <1>4, ReturnsType DEF EndInsert
  <2> QED BY <1>1, <1>4, <2>2, <2>3, TypeParts DEF EndInsert, RestType
<1>5. CASE AuditFails(a)
  <2>1. tail' \in [Tasks -> Nat] /\ FrameType'
    BY <1>1, <1>5, ReturnsType DEF AuditFails, RestType
  <2> QED BY <1>1, <1>5, <2>1, TypeParts DEF AuditFails, RestType, database
<1>6. CASE a \in Sweeps /\ SweepFails(a)
  <2>1. row' \in [Sessions -> Statuses]
    BY <1>1, <1>6, EndedByType DEF SweepFails, RestType
  <2>2. FrameType'
    BY <1>1, <1>6, SweepGoesOnType DEF SweepFails
  <2> QED BY <1>1, <1>6, <2>1, <2>2, TypeParts DEF SweepFails, RestType
<1> QED BY <1>2, <1>3, <1>4, <1>5, <1>6 DEF Answered, Failed

\* A step of the revocation route.
LEMMA RequestType ==
  ASSUME TypeOK, NEW r \in Requests, Request(r)
  PROVE  TypeOK'
<1>1. r \in Tasks /\ FrameType /\ RestType
  BY TypeParts DEF Tasks
<1>2. CASE \E s \in Contested : RevokeArrives(r, s)
  BY <1>2, StartType, Parameters
<1>3. CASE \E owner \in BOOLEAN : RevokeSelect(r, owner)
  <2>1. PICK owner \in BOOLEAN : RevokeSelect(r, owner)
    BY <1>3
  <2>2. CASE Refusal(on[r], owner) = "none"
    <3>1. Goto(r, "mark") /\ pc[r] = "select" /\ UNCHANGED <<answer, why>>
      <4>1. pc[r] = "select" => answer[r] = "none"
        BY <1>1 DEF FrameType
      <4> QED BY <1>1, <2>1, <2>2, <4>1 DEF RevokeSelect, Reply, FrameType
    <3>2. FrameType'
      BY <1>1, <3>1, GotoType DEF Points
    <3> QED BY <1>1, <2>1, <3>2, TypeParts DEF RevokeSelect, RestType, database
  <2>3. CASE Refusal(on[r], owner) # "none"
    <3>1. Refusal(on[r], owner) \in Answers \ {"none"}
      BY <2>3 DEF Refusal, Answers
    <3>2. FrameType'
      BY <1>1, <2>1, <2>3, <3>1, ReplyType DEF RevokeSelect
    <3> QED BY <1>1, <2>1, <3>2, TypeParts DEF RevokeSelect, RestType, database
  <2> QED BY <2>2, <2>3
<1>4. CASE RevokeMark(r)
  <2>1. on[r] \in Sessions
    BY <1>1, <1>4 DEF RevokeMark, FrameType
  <2>2. FrameType'
    BY <1>1, <1>4, GotoType DEF RevokeMark, Points
  <2> QED BY <1>1, <1>4, <2>1, <2>2, TypeParts DEF RevokeMark, RestType
<1>5. CASE RevokeList(r)
  <2>1. FrameType'
    BY <1>1, <1>5, GotoType, ReplyType DEF RevokeList, Points, Answers
  <2> QED BY <1>1, <1>5, <2>1, TypeParts DEF RevokeList, RestType, database
<1>6. CASE RevokeFails(r)
  <2>1. on[r] \in Sessions /\ pc[r] # "idle"
    BY <1>1, <1>6 DEF RevokeFails, FrameType
  <2>2. row' \in [Sessions -> Statuses] /\ revoked' \in SUBSET Sessions
    BY <1>1, <1>6, <2>1, EndedByType DEF RevokeFails, RestType
  <2>3. FrameType'
    BY <1>1, <1>6, <2>1, ReplyType DEF RevokeFails, Answers
  <2> QED BY <1>1, <1>6, <2>2, <2>3, TypeParts DEF RevokeFails, RestType
<1> QED BY <1>2, <1>3, <1>4, <1>5, <1>6 DEF Request

\* The death of the backend.
LEMMA CrashType == TypeOK /\ Crash => TypeOK'
<1> SUFFICES ASSUME TypeOK, Crash PROVE TypeOK'
  OBVIOUS
<1>1. /\ pc' \in [Tasks -> Points] /\ on' \in [Tasks -> Sessions \cup {None}]
      /\ todo' \in [Sweeps -> SUBSET Timed] /\ tracked' \in SUBSET Timed
      /\ answer' \in [Requests -> Answers] /\ tail' \in [Tasks -> Nat]
  BY DEF Crash, TypeOK, Points, Answers
<1>2. \A r \in Requests : pc'[r] = "done" <=> answer'[r] # "none"
  <2> SUFFICES ASSUME NEW r \in Requests PROVE pc'[r] = "done" <=> answer'[r] # "none"
    OBVIOUS
  <2>1. r \in Tasks /\ pc'[r] = (IF on[r] # None THEN "done" ELSE "idle")
        /\ answer'[r] = (IF on[r] # None /\ answer[r] = "none" THEN "lost" ELSE answer[r])
    BY DEF Crash, Tasks
  <2> QED BY <2>1, Parameters DEF TypeOK
<1>3. \A a \in Tasks : pc'[a] # "idle" => on'[a] \in Sessions
  BY Parameters DEF Crash, TypeOK
<1>4. \A a \in Tasks \ Requests : pc'[a] = "idle"
  BY DEF Crash
<1>5. \A h \in Handlers : pc'[h] = "idle"
  BY <1>4, Parameters DEF Tasks
<1>6. crashes' \in 0..MaxCrashes
  BY Parameters DEF Crash, TypeOK
<1>7. FrameType'
  BY <1>1, <1>2, <1>3, <1>4, <1>5, TypeParts DEF FrameType, Crash
<1>8. RestType'
  BY <1>1, <1>6, TypeParts DEF RestType, Crash, database
<1> QED BY <1>7, <1>8, TypeParts

\* Every step keeps the types.
LEMMA NextType == TypeOK /\ [Next]_vars => TypeOK'
<1> SUFFICES ASSUME TypeOK, [Next]_vars PROVE TypeOK'
  OBVIOUS
<1>1. CASE UNCHANGED vars
  <2>1. FrameType' /\ RestType'
    BY <1>1, TypeParts DEF vars, database, idle, frame, FrameType, RestType
  <2> QED BY <2>1, TypeParts
<1>2. CASE (\E s \in Sessions : Pair(s) \/ StartIdleTimer(s) \/ Input(s)) \/ Tick
  <2>1. CASE \E s \in Sessions : Pair(s) \/ StartIdleTimer(s) \/ Input(s)
    BY <2>1, ClockType
  <2>2. CASE Tick
    BY <2>2, TickType
  <2> QED BY <1>2, <2>1, <2>2
<1>3. CASE \/ \E w \in Sweeps : SweepStarts(w)
           \/ \E h \in Handlers : HandlerStarts(h)
  BY <1>3, StartType
<1>4. CASE \E a \in Tasks : Answered(a) \/ Failed(a)
  BY <1>4, EndType
<1>5. CASE \E r \in Requests : Request(r)
  BY <1>5, RequestType
<1>6. CASE Crash
  BY <1>6, CrashType
<1> QED BY <1>1, <1>2, <1>3, <1>4, <1>5, <1>6 DEF Next

(***************************************************************************)
(* Every variable keeps its type; a task that runs has its session, and    *)
(* the route answers last of all, and once.                                *)
(***************************************************************************)
THEOREM EndingsTypeCorrect == Spec => []TypeOK
<1>1. Init => TypeOK
  <2> SUFFICES ASSUME Init PROVE TypeOK
    OBVIOUS
  <2>1. <<>> \in Seq([event : Events, prev : Nat])
    OBVIOUS
  <2>2. FrameType
    BY DEF Init, FrameType, Points, Answers, Tasks
  <2>3. RestType
    BY <2>1, Parameters DEF Init, RestType, Statuses
  <2> QED BY <2>2, <2>3, TypeParts
<1> QED BY <1>1, NextType, PTL DEF Spec

-----------------------------------------------------------------------------
\* The audit log

\* The tasks that are about to write the disconnect row of a session.
Writing(a) == pc[a] \in {"read", "insert"}

(***************************************************************************)
(* Why the log is a chain: only the task whose UPDATE found the session    *)
(* active comes to write, so there is one per session at most; until it    *)
(* has written, the log holds the row of the pairing alone, and that is    *)
(* the row it has read.                                                    *)
(***************************************************************************)
WriterInv ==
  /\ \A a \in Tasks : Writing(a) =>
        /\ on[a] \in Sessions /\ row[on[a]] = Cause(a) /\ Len(audit[on[a]]) = 1
        /\ pc[a] = "insert" => tail[a] = 1
  /\ \A a, b \in Tasks : Writing(a) /\ Writing(b) /\ on[a] = on[b] => a = b
  /\ \A s \in Sessions : /\ row[s] = "none" => audit[s] = <<>>
                         /\ row[s] = "active" => Len(audit[s]) = 1

AuditInv == WriterInv /\ AuditChained

\* What endSession's caller does to the frames: every other task's frame stays, and
\* its own does not write.
LEMMA ReturnsFrame ==
  ASSUME TypeOK, NEW a \in Tasks, pc[a] # "idle", Returns(a)
  PROVE  /\ \A b \in Tasks \ {a} : pc'[b] = pc[b] /\ on'[b] = on[b]
         /\ ~Writing(a)'
BY Parameters DEF Returns, Finish, Goto, SweepGoesOn, Takes, Writing, TypeOK

\* No change of the rows, the log, the reasons and of what writers have read: the
\* invariant stays if nobody comes to write.
LEMMA NoWriter ==
  ASSUME TypeOK, AuditInv, UNCHANGED audit,
         \A s \in Sessions : row'[s] = row[s] \/ (row[s] = "active" /\ row'[s] \in Reasons),
         \A a \in Tasks : Writing(a)' =>
            /\ Writing(a) /\ pc'[a] = pc[a] /\ on'[a] = on[a] /\ tail'[a] = tail[a]
            /\ Cause(a)' = Cause(a)
  PROVE  AuditInv'
<1>1. WriterInv'
  <2>1. ASSUME NEW a \in Tasks, Writing(a)'
        PROVE  /\ on'[a] \in Sessions /\ row'[on'[a]] = Cause(a)' /\ Len(audit'[on'[a]]) = 1
               /\ pc'[a] = "insert" => tail'[a] = 1
    <3>1. Writing(a) /\ on'[a] = on[a] /\ on[a] \in Sessions /\ row[on[a]] = Cause(a)
      BY <2>1 DEF AuditInv, WriterInv
    <3>2. Cause(a) \in Reasons
      BY <3>1, CauseType, TypeParts DEF Writing
    <3>3. row'[on[a]] = row[on[a]]
      BY <3>1, <3>2 DEF Reasons
    <3> QED BY <2>1, <3>1, <3>3 DEF AuditInv, WriterInv
  <2>2. ASSUME NEW a \in Tasks, NEW b \in Tasks, Writing(a)', Writing(b)', on'[a] = on'[b]
        PROVE  a = b
    BY <2>2 DEF AuditInv, WriterInv
  <2>3. \A s \in Sessions : /\ row'[s] = "none" => audit'[s] = <<>>
                            /\ row'[s] = "active" => Len(audit'[s]) = 1
    <3> SUFFICES ASSUME NEW s \in Sessions
                 PROVE  /\ row'[s] = "none" => audit[s] = <<>>
                        /\ row'[s] = "active" => Len(audit[s]) = 1
      OBVIOUS
    <3>1. row'[s] \in {"none", "active"} => row'[s] = row[s]
      BY DEF Reasons
    <3> QED BY <3>1 DEF AuditInv, WriterInv
  <2> QED BY <2>1, <2>2, <2>3 DEF WriterInv
<1>2. AuditChained'
  <2> SUFFICES ASSUME NEW s \in Sessions
               PROVE  /\ \A i \in 1..Len(audit'[s]) : audit'[s][i].prev = i - 1
                      /\ Len(audit'[s]) <= 2
                      /\ Len(audit'[s]) = 2 => row'[s] \in Reasons /\ audit'[s][2].event = row'[s]
    BY DEF AuditChained, Ended
  <2>1. Len(audit[s]) = 2 => row'[s] = row[s]
    BY DEF AuditInv, AuditChained, Ended, Reasons
  <2> QED BY <2>1 DEF AuditInv, AuditChained, Ended
<1> QED BY <1>1, <1>2 DEF AuditInv

\* The UPDATE that finds the session active makes its task the writer.
LEMMA BecomesWriter ==
  ASSUME TypeOK, AuditInv, NEW a \in Tasks, EndUpdate(a), row[on[a]] = "active"
  PROVE  AuditInv'
<1>1. /\ on[a] \in Sessions /\ Cause(a) \in Reasons
      /\ pc' = [pc EXCEPT ![a] = "read"] /\ row' = [row EXCEPT ![on[a]] = Cause(a)]
      /\ on' = on /\ audit' = audit /\ tail' = tail /\ why' = why /\ pc[a] = "update"
  BY CauseType, TypeParts DEF EndUpdate, EndedBy, Goto, FrameType
<1>2. \A b \in Tasks : Cause(b)' = Cause(b)
  BY <1>1 DEF Cause
<1>3. \A b \in Tasks : /\ Writing(b)' <=> b = a \/ Writing(b)
                       /\ b # a => pc'[b] = pc[b]
                       /\ b = a => pc'[b] = "read"
  BY <1>1 DEF Writing, TypeOK
<1>4. \A b \in Tasks : Writing(b) => on[b] # on[a]
  BY <1>1, CauseType, TypeParts DEF AuditInv, WriterInv, Writing, Reasons
<1>5. Len(audit[on[a]]) = 1
  BY <1>1 DEF AuditInv, WriterInv
<1>6. WriterInv'
  <2>1. ASSUME NEW b \in Tasks, Writing(b)'
        PROVE  /\ on'[b] \in Sessions /\ row'[on'[b]] = Cause(b)' /\ Len(audit'[on'[b]]) = 1
               /\ pc'[b] = "insert" => tail'[b] = 1
    <3>1. CASE b = a
      BY <1>1, <1>2, <1>3, <1>5, <3>1 DEF TypeOK
    <3>2. CASE b # a
      BY <1>1, <1>2, <1>3, <1>4, <2>1, <3>2 DEF AuditInv, WriterInv, TypeOK
    <3> QED BY <3>1, <3>2
  <2>2. \A b, c \in Tasks : Writing(b)' /\ Writing(c)' /\ on'[b] = on'[c] => b = c
    BY <1>1, <1>3, <1>4 DEF AuditInv, WriterInv
  <2>3. \A s \in Sessions : /\ row'[s] = "none" => audit'[s] = <<>>
                            /\ row'[s] = "active" => Len(audit'[s]) = 1
    <3> SUFFICES ASSUME NEW s \in Sessions
                 PROVE  /\ row'[s] = "none" => audit[s] = <<>>
                        /\ row'[s] = "active" => Len(audit[s]) = 1
      BY <1>1
    <3>1. row'[s] \in {"none", "active"} => row'[s] = row[s]
      BY <1>1 DEF Reasons, TypeOK
    <3> QED BY <3>1 DEF AuditInv, WriterInv
  <2> QED BY <2>1, <2>2, <2>3 DEF WriterInv
<1>7. AuditChained'
  <2> SUFFICES ASSUME NEW s \in Sessions
               PROVE  /\ \A i \in 1..Len(audit[s]) : audit[s][i].prev = i - 1
                      /\ Len(audit[s]) <= 2
                      /\ Len(audit[s]) = 2 => row'[s] \in Reasons /\ audit[s][2].event = row'[s]
    BY <1>1 DEF AuditChained, Ended
  <2>1. Len(audit[s]) = 2 => row'[s] = row[s]
    <3>1. row \in [Sessions -> Statuses]
      BY DEF TypeOK
    <3> QED BY <1>1, <1>5, <3>1
  <2> QED BY <2>1 DEF AuditInv, AuditChained, Ended
<1> QED BY <1>6, <1>7 DEF AuditInv

\* The writer reads the pairing's row.
LEMMA WriterReads ==
  ASSUME TypeOK, AuditInv, NEW a \in Tasks, EndRead(a)
  PROVE  AuditInv'
<1>1. /\ pc' = [pc EXCEPT ![a] = "insert"] /\ tail' = [tail EXCEPT ![a] = Len(audit[on[a]])]
      /\ UNCHANGED <<on, row, audit, why>> /\ pc[a] = "read"
  BY DEF EndRead, Goto, database
<1>2. \A b \in Tasks : Cause(b)' = Cause(b) /\ (Writing(b)' <=> Writing(b))
  BY <1>1 DEF Cause, Writing, TypeOK
<1>3. Len(audit[on[a]]) = 1
  BY <1>1 DEF AuditInv, WriterInv, Writing
<1>4. \A b \in Tasks : pc'[b] = "insert" => \/ b = a /\ tail'[b] = 1
                                            \/ pc[b] = "insert" /\ tail'[b] = tail[b]
  <2>1. pc \in [Tasks -> Points] /\ tail \in [Tasks -> Nat]
    BY DEF TypeOK
  <2>2. tail'[a] = 1 /\ \A b \in Tasks \ {a} : tail'[b] = tail[b] /\ pc'[b] = pc[b]
    BY <1>1, <1>3, <2>1
  <2> QED BY <2>2
<1>5. WriterInv'
  BY <1>1, <1>2, <1>4 DEF AuditInv, WriterInv, Writing
<1>6. AuditChained'
  BY <1>1 DEF AuditInv, AuditChained, Ended
<1> QED BY <1>5, <1>6 DEF AuditInv

\* The writer writes: the second row, which names the first.
LEMMA WriterWrites ==
  ASSUME TypeOK, AuditInv, NEW a \in Tasks, EndInsert(a)
  PROVE  AuditInv'
<1> DEFINE s == on[a]
           new == AuditRow(Cause(a), tail[a])
<1>1. /\ s \in Sessions /\ row[s] = Cause(a) /\ Cause(a) \in Reasons
      /\ Len(audit[s]) = 1 /\ tail[a] = 1 /\ Writing(a)
  BY CauseType, TypeParts DEF EndInsert, AuditInv, WriterInv, Writing
<1>2. /\ audit' = [audit EXCEPT ![s] = Append(audit[s], new)]
      /\ row' = row /\ why' = why /\ tail' = [tail EXCEPT ![a] = 0]
  BY DEF EndInsert
<1>3. /\ \A b \in Tasks \ {a} : pc'[b] = pc[b] /\ on'[b] = on[b]
      /\ ~Writing(a)'
  BY <1>1, ReturnsFrame DEF EndInsert, Writing
<1>4. \A b \in Tasks : Writing(b)' =>
         /\ b # a /\ Writing(b) /\ on'[b] = on[b] /\ on[b] # s /\ pc'[b] = pc[b]
         /\ tail'[b] = tail[b] /\ Cause(b)' = Cause(b)
  BY <1>1, <1>2, <1>3 DEF AuditInv, WriterInv, Writing, Cause, TypeOK
<1>5. \A t \in Sessions \ {s} : audit'[t] = audit[t]
  BY <1>2 DEF TypeOK
<1>6. /\ audit'[s] = Append(audit[s], new) /\ Len(audit'[s]) = 2
      /\ audit'[s][1] = audit[s][1] /\ audit'[s][2] = new
  <2> DEFINE Row == [event : Events, prev : Nat]
  <2>1. audit[s] \in Seq(Row) /\ audit \in [Sessions -> Seq(Row)]
    BY <1>1 DEF TypeOK
  <2>2. new \in Row
    BY <1>1 DEF AuditRow, Events
  <2> HIDE DEF s, new, Row
  <2>3. audit'[s] = Append(audit[s], new)
    BY <1>1, <1>2, <2>1
  <2>4. /\ Len(Append(audit[s], new)) = Len(audit[s]) + 1
        /\ \A i \in 1..Len(audit[s]) : Append(audit[s], new)[i] = audit[s][i]
        /\ Append(audit[s], new)[Len(audit[s]) + 1] = new
    BY <2>1, <2>2, AppendProperties
  <2> QED BY <1>1, <2>3, <2>4
<1>7. new.event = row[s] /\ new.prev = 1
  BY <1>1 DEF AuditRow
<1> HIDE DEF s, new
<1>8. WriterInv'
  <2>1. ASSUME NEW b \in Tasks, Writing(b)'
        PROVE  /\ on'[b] \in Sessions /\ row'[on'[b]] = Cause(b)' /\ Len(audit'[on'[b]]) = 1
               /\ pc'[b] = "insert" => tail'[b] = 1
    BY <1>2, <1>4, <1>5, <2>1 DEF AuditInv, WriterInv
  <2>2. \A b, c \in Tasks : Writing(b)' /\ Writing(c)' /\ on'[b] = on'[c] => b = c
    BY <1>4 DEF AuditInv, WriterInv
  <2>3. \A t \in Sessions : /\ row'[t] = "none" => audit'[t] = <<>>
                            /\ row'[t] = "active" => Len(audit'[t]) = 1
    BY <1>1, <1>2, <1>5 DEF AuditInv, WriterInv, Reasons
  <2> QED BY <2>1, <2>2, <2>3 DEF WriterInv
<1>9. AuditChained'
  <2> SUFFICES ASSUME NEW t \in Sessions
               PROVE  /\ \A i \in 1..Len(audit'[t]) : audit'[t][i].prev = i - 1
                      /\ Len(audit'[t]) <= 2
                      /\ Len(audit'[t]) = 2 => row'[t] \in Reasons /\ audit'[t][2].event = row'[t]
    BY DEF AuditChained, Ended
  <2>1. CASE t # s
    BY <1>2, <1>5, <2>1 DEF AuditInv, AuditChained, Ended
  <2>2. CASE t = s
    <3>1. audit[s][1].prev = 0
      BY <1>1 DEF AuditInv, AuditChained
    <3>2. \A i \in 1..2 : i = 1 \/ i = 2
      OBVIOUS
    <3> QED BY <1>1, <1>2, <1>6, <1>7, <2>2, <3>1, <3>2
  <2> QED BY <2>1, <2>2
<1> QED BY <1>8, <1>9 DEF AuditInv

\* Every step keeps the invariant.
LEMMA AuditNext == TypeOK /\ AuditInv /\ [Next]_vars => AuditInv'
<1> SUFFICES ASSUME TypeOK, AuditInv, [Next]_vars PROVE AuditInv'
  OBVIOUS
<1>1. CASE UNCHANGED vars
  BY <1>1, NoWriter DEF vars, database, frame, Writing, Cause
<1>2. ASSUME NEW s \in Sessions, Pair(s) PROVE AuditInv'
  <2>1. /\ row[s] = "none" /\ row' = [row EXCEPT ![s] = "active"]
        /\ audit' = [audit EXCEPT ![s] = <<AuditRow("paired", 0)>>]
        /\ UNCHANGED frame /\ row \in [Sessions -> Statuses] /\ DOMAIN audit = Sessions
    BY <1>2 DEF Pair, TypeOK
  <2>2. \A t \in Sessions \ {s} : row'[t] = row[t] /\ audit'[t] = audit[t]
    BY <2>1
  <2>3. row'[s] = "active" /\ Len(audit'[s]) = 1 /\ audit'[s][1].prev = 0
    BY <2>1 DEF AuditRow
  <2>4. \A a \in Tasks : Writing(a) => on[a] # s
    BY <2>1, CauseType, TypeParts DEF AuditInv, WriterInv, Writing, Reasons
  <2>5. WriterInv'
    BY <2>1, <2>2, <2>3, <2>4 DEF AuditInv, WriterInv, Writing, Cause, frame
  <2>6. AuditChained'
    <3> SUFFICES ASSUME NEW t \in Sessions
                 PROVE  /\ \A i \in 1..Len(audit'[t]) : audit'[t][i].prev = i - 1
                        /\ Len(audit'[t]) <= 2
                        /\ Len(audit'[t]) = 2 => row'[t] \in Reasons /\ audit'[t][2].event = row'[t]
      BY DEF AuditChained, Ended
    <3>1. \A i \in 1..1 : i = 1
      OBVIOUS
    <3>2. CASE t = s
      BY <2>3, <3>1, <3>2
    <3>3. CASE t # s
      BY <2>2, <3>3 DEF AuditInv, AuditChained, Ended
    <3> QED BY <3>2, <3>3
  <2> QED BY <2>5, <2>6 DEF AuditInv
<1>3. CASE (\E s \in Sessions : StartIdleTimer(s) \/ Input(s)) \/ Tick
  BY <1>3, NoWriter DEF StartIdleTimer, Input, ResetIdleTimer, Tick, database, frame, Writing, Cause
<1>4. ASSUME NEW w \in Sweeps, SweepStarts(w) PROVE AuditInv'
  <2>1. w \in Tasks /\ \E s \in Sessions : \E rest : Takes(w, s, rest)
    BY <1>4 DEF SweepStarts, Tasks
  <2>2. \A a \in Tasks : Writing(a)' => Writing(a) /\ pc'[a] = pc[a] /\ on'[a] = on[a]
    BY <2>1 DEF Takes, Writing, TypeOK
  <2> QED BY <1>4, <2>2, NoWriter DEF SweepStarts, database, Cause
<1>5. ASSUME NEW h \in Handlers, HandlerStarts(h) PROVE AuditInv'
  <2>1. \A a \in Tasks : Writing(a)' => /\ Writing(a) /\ a # h /\ pc'[a] = pc[a] /\ on'[a] = on[a]
                                        /\ Cause(a)' = Cause(a)
    BY <1>5, Parameters DEF HandlerStarts, Writing, TypeOK, Cause, Tasks
  <2> QED BY <1>5, <2>1, NoWriter DEF HandlerStarts, database
<1>6. ASSUME NEW a \in Tasks, Answered(a) PROVE AuditInv'
  <2>1. CASE EndUpdate(a) /\ row[on[a]] # "active"
    <3>1. Returns(a) /\ UNCHANGED <<audit, tail, why>> /\ row' = row /\ pc[a] = "update"
      BY <2>1 DEF EndUpdate, EndedBy
    <3>2. \A b \in Tasks : Writing(b)' => Writing(b) /\ pc'[b] = pc[b] /\ on'[b] = on[b]
      BY <3>1, ReturnsFrame DEF Writing
    <3> QED BY <3>1, <3>2, NoWriter DEF Cause
  <2> QED BY <1>6, <2>1, BecomesWriter, WriterReads, WriterWrites DEF Answered
<1>7. ASSUME NEW a \in Tasks, AuditFails(a) PROVE AuditInv'
  <2>1. \A b \in Tasks : Writing(b)' => b # a /\ Writing(b) /\ pc'[b] = pc[b] /\ on'[b] = on[b]
    BY <1>7, ReturnsFrame DEF AuditFails, Writing
  <2>2. \A b \in Tasks \ {a} : tail'[b] = tail[b]
    BY <1>7 DEF AuditFails, TypeOK
  <2> QED BY <1>7, <2>1, <2>2, NoWriter DEF AuditFails, database, Cause
<1>8. ASSUME NEW w \in Sweeps, SweepFails(w) PROVE AuditInv'
  <2>1. w \in Tasks /\ pc[w] = "update" /\ Returns(w) /\ UNCHANGED <<audit, tail, why>>
    BY <1>8 DEF SweepFails, Returns, Tasks
  <2>2. \A b \in Tasks : Writing(b)' => Writing(b) /\ pc'[b] = pc[b] /\ on'[b] = on[b]
    BY <2>1, ReturnsFrame DEF Writing
  <2>3. \A s \in Sessions : row'[s] = row[s] \/ (row[s] = "active" /\ row'[s] \in Reasons)
    BY <1>8, <2>1, EndedByRows DEF SweepFails
  <2> QED BY <2>1, <2>2, <2>3, NoWriter DEF Cause
<1>9. ASSUME NEW r \in Requests, Request(r) PROVE AuditInv'
  <2>1. r \in Tasks /\ UNCHANGED <<audit, tail, why>>
    BY <1>9 DEF Request, RevokeArrives, RevokeSelect, RevokeMark, RevokeList, RevokeFails, database, Tasks
  <2>2. \A b \in Tasks : Writing(b)' => Writing(b) /\ pc'[b] = pc[b] /\ on'[b] = on[b]
    BY <1>9, <2>1 DEF Request, RevokeArrives, RevokeSelect, RevokeMark, RevokeList, RevokeFails,
                     Goto, Writing, TypeOK
  <2>3. \A s \in Sessions : row'[s] = row[s] \/ (row[s] = "active" /\ row'[s] \in Reasons)
    <3>1. CASE RevokeFails(r)
      BY <2>1, <3>1, EndedByRows DEF RevokeFails
    <3>2. CASE ~RevokeFails(r)
      BY <1>9, <3>2 DEF Request, RevokeArrives, RevokeSelect, RevokeMark, RevokeList, database
    <3> QED BY <3>1, <3>2
  <2> QED BY <2>1, <2>2, <2>3, NoWriter DEF Cause
<1>10. CASE Crash
  <2>1. \A a \in Tasks : ~Writing(a)'
    BY <1>10 DEF Crash, Writing
  <2> QED BY <1>10, <2>1, NoWriter DEF Crash, database
<1> QED BY <1>1, <1>2, <1>3, <1>4, <1>5, <1>6, <1>7, <1>8, <1>9, <1>10 DEF Next, Failed

(***************************************************************************)
(* However many tasks end a session at once, its log is one chain.         *)
(***************************************************************************)
THEOREM LogIsAChain == Spec => []AuditChained
<1>1. Init => AuditInv
  BY DEF Init, AuditInv, WriterInv, AuditChained, Ended, Writing
<1>2. AuditInv => AuditChained
  BY DEF AuditInv
<1> QED BY <1>1, <1>2, AuditNext, EndingsTypeCorrect, PTL DEF Spec

-----------------------------------------------------------------------------
\* Revocation

\* How far a request has come, and what it may rely on there.
RequestOK(r) ==
  /\ pc[r] \in {"mark", "list", "update", "read", "insert"} => row[on[r]] # "none"
  /\ pc[r] \in {"list", "update"} => on[r] \in revoked
  /\ pc[r] \in {"read", "insert"} \/ answer[r] = "200" => on[r] \in revoked /\ Ended(on[r])

RevokeInv == /\ \A r \in Requests : RequestOK(r)
             /\ \A s \in revoked : row[s] # "none"
             /\ RevokedNotForgotten

\* A session's row changes only forwards.
Forwards(s) == \/ row'[s] = row[s]
               \/ row[s] = "none" /\ row'[s] = "active"
               \/ row[s] = "active" /\ row'[s] \in Reasons

\* What the step of another task leaves of a request.
Untouched(r) == pc'[r] = pc[r] /\ on'[r] = on[r] /\ answer'[r] = answer[r]

\* Rows change only forwards, in every step.
LEMMA AllForwards ==
  ASSUME TypeOK, [Next]_vars
  PROVE  \A s \in Sessions : Forwards(s)
<1>1. CASE UNCHANGED vars
  BY <1>1 DEF vars, database, Forwards
<1>2. CASE \E s \in Sessions : Pair(s) \/ StartIdleTimer(s) \/ Input(s)
  BY <1>2 DEF Pair, StartIdleTimer, Input, ResetIdleTimer, database, Forwards, TypeOK
<1>3. CASE Tick \/ Crash
  BY <1>3 DEF Tick, Crash, database, Forwards
<1>4. CASE (\E w \in Sweeps : SweepStarts(w)) \/ (\E h \in Handlers : HandlerStarts(h))
  BY <1>4 DEF SweepStarts, HandlerStarts, database, Forwards
<1>5. ASSUME NEW a \in Tasks, Answered(a) \/ Failed(a) PROVE \A s \in Sessions : Forwards(s)
  BY <1>5, EndedByRows
     DEF Answered, Failed, EndUpdate, EndRead, EndInsert, AuditFails, SweepFails, database, Forwards
<1>6. ASSUME NEW r \in Requests, Request(r) PROVE \A s \in Sessions : Forwards(s)
  <2>1. r \in Tasks
    BY DEF Tasks
  <2> QED BY <1>6, <2>1, EndedByRows
          DEF Request, RevokeArrives, RevokeSelect, RevokeMark, RevokeList, RevokeFails, database, Forwards
<1> QED BY <1>1, <1>2, <1>3, <1>4, <1>5, <1>6 DEF Next

\* A request that is not touched keeps what it relies on.
LEMMA RequestKept ==
  ASSUME TypeOK, RevokeInv, [Next]_vars, NEW r \in Requests, Untouched(r),
         \A s \in revoked : s \in revoked'
  PROVE  RequestOK(r)'
<1>1. r \in Tasks /\ (pc[r] # "idle" => on[r] \in Sessions)
  BY DEF TypeOK, Tasks
<1>2. answer[r] = "200" => pc[r] # "idle"
  BY DEF TypeOK
<1>3. RequestOK(r)
  BY DEF RevokeInv
<1> QED BY <1>1, <1>2, <1>3, AllForwards DEF RequestOK, Untouched, Forwards, Ended, Reasons

\* Nor is the session of a revoked device forgotten by it.
LEMMA NoneForgotten ==
  ASSUME TypeOK, RevokeInv, [Next]_vars,
         \A s \in revoked : s \in revoked',
         \A s \in revoked' : s \in revoked \/
            \E r \in Requests : on'[r] = s /\ (pc'[r] = "list" \/ answer'[r] = "500") /\ row[s] # "none",
         \A r \in Requests :
            \/ Untouched(r)
            \/ pc[r] \notin {"list", "update"} /\ answer[r] \notin {"500", "lost"}
            \/ on'[r] = on[r] /\ (pc'[r] = "update" \/ answer'[r] \in {"500", "lost"})
            \/ row[on[r]] # "active" \/ row'[on[r]] # "active"
  PROVE  RevokedNotForgotten' /\ \A s \in revoked' : row'[s] # "none"
<1>1. \A s \in revoked' : row[s] # "none" /\ s \in Sessions
  BY NextType DEF RevokeInv, TypeOK
<1>2. \A s \in revoked' : row'[s] # "none"
  BY <1>1, AllForwards DEF Forwards, Reasons
<1>3. ASSUME NEW s \in revoked', row'[s] = "active"
      PROVE  \E r \in Requests : on'[r] = s /\ (pc'[r] \in {"list", "update"} \/ answer'[r] \in {"500", "lost"})
  <2>1. row[s] = "active"
    BY <1>1, <1>3, AllForwards DEF Forwards, Reasons
  <2>2. CASE s \notin revoked
    BY <2>2
  <2>3. CASE s \in revoked
    <3>1. PICK r \in Requests : on[r] = s /\ (pc[r] \in {"list", "update"} \/ answer[r] \in {"500", "lost"})
      BY <2>1, <2>3 DEF RevokeInv, RevokedNotForgotten
    <3> QED BY <1>3, <2>1, <3>1 DEF Untouched
  <2> QED BY <2>2, <2>3
<1> QED BY <1>2, <1>3 DEF RevokedNotForgotten

\* A step of no request.
LEMMA OthersStep ==
  ASSUME TypeOK, RevokeInv, [Next]_vars, revoked' = revoked, \A r \in Requests : Untouched(r)
  PROVE  RevokeInv'
BY RequestKept, NoneForgotten DEF RevokeInv

\* A step of a request itself leaves the others alone.
LEMMA OnlyItself ==
  ASSUME TypeOK, NEW r \in Requests, Request(r) \/ Answered(r) \/ AuditFails(r)
  PROVE  \A q \in Requests \ {r} : Untouched(q)
<1>1. r \in Tasks /\ r \notin Handlers /\ r \notin Sweeps
  BY Parameters DEF Tasks
<1>2. CASE Request(r)
  BY <1>2 DEF Request, RevokeArrives, RevokeSelect, RevokeMark, RevokeList, RevokeFails, Goto, Reply,
              Untouched, TypeOK, Tasks
<1>3. CASE Answered(r) \/ AuditFails(r)
  BY <1>1, <1>3 DEF Answered, EndUpdate, EndRead, EndInsert, AuditFails, Returns, Goto, Reply,
              Untouched, TypeOK, Tasks
<1> QED BY <1>2, <1>3

\* A step of the route: what the request then relies on was found or done.
LEMMA RouteStep ==
  ASSUME TypeOK, RevokeInv, [Next]_vars, NEW r \in Requests, Request(r)
  PROVE  RevokeInv'
<1> DEFINE s == on[r]
<1>1. /\ r \in Tasks /\ (pc[r] # "idle" => s \in Sessions) /\ RequestOK(r)
      /\ \A q \in Requests \ {r} : Untouched(q)
      /\ pc \in [Tasks -> Points] /\ on \in [Tasks -> Sessions \cup {None}]
      /\ answer \in [Requests -> Answers]
      /\ (pc[r] # "done" => answer[r] = "none")
  BY OnlyItself DEF TypeOK, Tasks, RevokeInv
<1>2. pc[r] # "idle" => Forwards(s)
  BY <1>1, AllForwards
<1>3. CASE \E t \in Contested : RevokeArrives(r, t)
  <2>1. /\ pc'[r] = "select" /\ answer'[r] = "none" /\ pc[r] = "idle" /\ revoked' = revoked
    BY <1>1, <1>3 DEF RevokeArrives, database
  <2>2. RequestOK(r)'
    BY <2>1 DEF RequestOK
  <2> QED BY <1>1, <2>1, <2>2, RequestKept, NoneForgotten DEF RevokeInv
<1>4. CASE \E owner \in BOOLEAN : RevokeSelect(r, owner)
  <2>1. /\ pc[r] = "select" /\ on' = on /\ row' = row /\ revoked' = revoked
        /\ pc'[r] \in {"mark", "done"} /\ answer'[r] # "200"
        /\ pc'[r] = "mark" => row[s] # "none"
    BY <1>1, <1>4 DEF RevokeSelect, Goto, Reply, Refusal, database
  <2>2. RequestOK(r)'
    BY <2>1 DEF RequestOK
  <2> QED BY <1>1, <2>1, <2>2, RequestKept, NoneForgotten DEF RevokeInv
<1>5. CASE RevokeMark(r)
  <2>1. /\ pc[r] = "mark" /\ on' = on /\ row' = row /\ revoked' = revoked \cup {s}
        /\ pc'[r] = "list" /\ answer'[r] = "none" /\ row[s] # "none"
    BY <1>1, <1>5 DEF RevokeMark, Goto, RequestOK
  <2>2. RequestOK(r)'
    BY <2>1 DEF RequestOK
  <2> QED BY <1>1, <2>1, <2>2, RequestKept, NoneForgotten DEF RevokeInv
<1>6. CASE RevokeList(r)
  <2>1. /\ pc[r] = "list" /\ on' = on /\ row' = row /\ revoked' = revoked /\ s \in revoked
        /\ row[s] # "none" /\ row[s] \in Statuses
        /\ \/ pc'[r] = "update" /\ answer'[r] = "none" /\ row[s] = "active"
           \/ pc'[r] = "done" /\ answer'[r] = "200" /\ row[s] # "active"
    BY <1>1, <1>6 DEF RevokeList, Goto, Reply, RequestOK, TypeOK, database
  <2>2. RequestOK(r)'
    BY <2>1 DEF RequestOK, Ended, Statuses
  <2> QED BY <1>1, <2>1, <2>2, RequestKept, NoneForgotten DEF RevokeInv
<1>7. CASE RevokeFails(r)
  <2>1. /\ on' = on /\ pc'[r] = "done" /\ answer'[r] = "500"
        /\ revoked' = revoked \/ (revoked' = revoked \cup {s} /\ row[s] # "none")
    BY <1>1, <1>7 DEF RevokeFails, Goto, Reply, RequestOK
  <2>2. RequestOK(r)'
    BY <2>1 DEF RequestOK
  <2> QED BY <1>1, <2>1, <2>2, RequestKept, NoneForgotten DEF RevokeInv
<1> QED BY <1>3, <1>4, <1>5, <1>6, <1>7 DEF Request

\* A step of endSession for a request.
LEMMA DroppingStep ==
  ASSUME TypeOK, RevokeInv, [Next]_vars, NEW r \in Requests, Answered(r) \/ AuditFails(r)
  PROVE  RevokeInv'
<1> DEFINE s == on[r]
<1>1. /\ r \in Tasks /\ r \notin Handlers /\ r \notin Sweeps /\ RequestOK(r)
      /\ \A q \in Requests \ {r} : Untouched(q)
      /\ pc \in [Tasks -> Points] /\ answer \in [Requests -> Answers] /\ row \in [Sessions -> Statuses]
      /\ pc[r] \in {"update", "read", "insert"} /\ s \in Sessions /\ answer[r] = "none"
  BY OnlyItself, Parameters DEF TypeOK, Tasks, RevokeInv, Answered, EndUpdate, EndRead, EndInsert, AuditFails
<1>2. /\ revoked' = revoked /\ on' = on /\ s \in revoked /\ row[s] # "none"
      /\ \/ pc'[r] \in {"read", "insert"} /\ answer'[r] = "none"
         \/ pc'[r] = "done" /\ answer'[r] = "200"
  BY <1>1 DEF Answered, EndUpdate, EndRead, EndInsert, AuditFails, Returns, Goto, Reply, RequestOK, database
<1>3. row'[s] \in Reasons
  <2>1. CASE EndUpdate(r)
    BY <1>1, <1>2, <2>1, CauseType, TypeParts DEF EndUpdate, EndedBy, Statuses
  <2>2. CASE ~EndUpdate(r)
    BY <1>1, <2>2 DEF Answered, EndRead, EndInsert, AuditFails, database, RequestOK, Ended
  <2> QED BY <2>1, <2>2
<1>4. RequestOK(r)' /\ row'[s] # "active"
  BY <1>2, <1>3 DEF RequestOK, Ended, Reasons
<1> QED BY <1>1, <1>2, <1>4, RequestKept, NoneForgotten DEF RevokeInv

\* The death of the backend.
LEMMA RevokeCrash ==
  ASSUME TypeOK, RevokeInv, [Next]_vars, Crash
  PROVE  RevokeInv'
<1>1. row' = row /\ revoked' = revoked
  BY DEF Crash, database
<1>2. ASSUME NEW r \in Requests
      PROVE  /\ pc'[r] \in {"idle", "done"} /\ on'[r] = on[r]
             /\ answer'[r] = IF on[r] # None /\ answer[r] = "none" THEN "lost" ELSE answer[r]
             /\ (pc[r] \in {"list", "update"} => on[r] # None /\ answer[r] = "none")
  BY Parameters DEF Crash, TypeOK, Tasks
<1>3. ASSUME NEW r \in Requests PROVE RequestOK(r)'
  BY <1>1, <1>2 DEF RequestOK, RevokeInv, Ended
<1>4. \A r \in Requests : \/ pc[r] \notin {"list", "update"} /\ answer[r] \notin {"500", "lost"}
                          \/ on'[r] = on[r] /\ answer'[r] \in {"500", "lost"}
  BY <1>2
<1> QED BY <1>1, <1>3, <1>4, NoneForgotten DEF RevokeInv

\* Every step keeps the invariant.
LEMMA RevokeNext == TypeOK /\ RevokeInv /\ [Next]_vars => RevokeInv'
<1> SUFFICES ASSUME TypeOK, RevokeInv, [Next]_vars PROVE RevokeInv'
  OBVIOUS
<1>1. CASE \/ UNCHANGED vars \/ Tick
           \/ \E s \in Sessions : Pair(s) \/ StartIdleTimer(s) \/ Input(s)
  <2>1. UNCHANGED <<revoked, pc, on, answer>>
    BY <1>1 DEF vars, database, frame, Pair, StartIdleTimer, Input, ResetIdleTimer, Tick
  <2> QED BY <2>1, OthersStep DEF Untouched
<1>2. CASE (\E w \in Sweeps : SweepStarts(w)) \/ (\E h \in Handlers : HandlerStarts(h))
  <2>1. revoked' = revoked /\ \A r \in Requests : Untouched(r)
    BY <1>2, Parameters DEF SweepStarts, Takes, HandlerStarts, Untouched, database, TypeOK, Tasks
  <2> QED BY <2>1, OthersStep
<1>3. ASSUME NEW a \in Tasks \ Requests, Answered(a) \/ Failed(a) PROVE RevokeInv'
  <2>1. revoked' = revoked /\ UNCHANGED answer
    BY <1>3 DEF Answered, Failed, EndUpdate, EndRead, EndInsert, AuditFails, SweepFails, Returns, database
  <2>2. pc[a] # "idle" /\ (Returns(a) \/ \E p : Goto(a, p))
    BY <1>3 DEF Answered, Failed, EndUpdate, EndRead, EndInsert, AuditFails, SweepFails, Returns
  <2>3. \A b \in Tasks \ {a} : pc'[b] = pc[b] /\ on'[b] = on[b]
    BY <2>2, ReturnsFrame DEF Goto, TypeOK
  <2> QED BY <1>3, <2>1, <2>3, OthersStep DEF Untouched, Tasks
<1>4. ASSUME NEW r \in Requests, Answered(r) \/ Failed(r) PROVE RevokeInv'
  BY <1>4, DroppingStep, Parameters DEF Failed
<1>5. CASE \E r \in Requests : Request(r)
  BY <1>5, RouteStep
<1>6. CASE Crash
  BY <1>6, RevokeCrash
<1> QED BY <1>1, <1>2, <1>3, <1>4, <1>5, <1>6 DEF Next

\* The invariant holds in every reachable state.
LEMMA RevokeInductive == Spec => []RevokeInv
<1>1. Init => RevokeInv
  BY DEF Init, RevokeInv, RequestOK, RevokedNotForgotten, Tasks
<1> QED BY <1>1, RevokeNext, EndingsTypeCorrect, PTL DEF Spec

(***************************************************************************)
(* Whatever runs beside a request, 200 means that the device is revoked and*)
(* its session has ended.                                                  *)
(***************************************************************************)
THEOREM AnswerIsTrue == Spec => []RevokeAnswerHolds
<1>1. RevokeInv => RevokeAnswerHolds
  BY DEF RevokeInv, RequestOK, RevokeAnswerHolds
<1> QED BY <1>1, RevokeInductive, PTL

(***************************************************************************)
(* A revoked device's session is active only as long as a request is about *)
(* to end it, or if a request for it failed.                               *)
(***************************************************************************)
THEOREM NoRevokedForgotten == Spec => []RevokedNotForgotten
<1>1. RevokeInv => RevokedNotForgotten
  BY DEF RevokeInv
<1> QED BY <1>1, RevokeInductive, PTL

-----------------------------------------------------------------------------
\* Idleness

\* Whom a sweep has listed was silent for the limit.
QuietInv ==
  /\ \A s \in Sessions : silent[s] = IdleLimit => s \in quiet
  /\ \A w \in Sweeps : todo[w] \in SUBSET quiet /\ (pc[w] = "update" => on[w] \in quiet)
  /\ TimeoutHasCause

\* A sweep that takes a session of its list keeps it so, and touches no other sweep.
LEMMA TakesQuiet ==
  ASSUME TypeOK, QuietInv, NEW w \in Sweeps, NEW s \in quiet, NEW rest \in SUBSET quiet,
         Takes(w, s, rest)
  PROVE  \A v \in Sweeps : todo'[v] \in SUBSET quiet /\ (pc'[v] = "update" => on'[v] \in quiet)
<1>1. /\ \A v \in Sweeps : v \in Tasks
      /\ todo' = [todo EXCEPT ![w] = rest] /\ pc' = [pc EXCEPT ![w] = "update"]
      /\ on' = [on EXCEPT ![w] = s] /\ on \in [Tasks -> Sessions \cup {None}]
      /\ pc \in [Tasks -> Points] /\ todo \in [Sweeps -> SUBSET Timed]
  BY DEF Takes, Tasks, TypeOK
<1> QED BY <1>1 DEF QuietInv

\* So does the return to any caller.
LEMMA ReturnsQuiet ==
  ASSUME TypeOK, QuietInv, NEW a \in Tasks, Returns(a) \/ \E p \in {"read", "insert"} : Goto(a, p)
  PROVE  \A v \in Sweeps : todo'[v] \in SUBSET quiet /\ (pc'[v] = "update" => on'[v] \in quiet)
<1>1. /\ \A v \in Sweeps : v \in Tasks /\ v \notin Requests /\ v \notin Handlers
      /\ on \in [Tasks -> Sessions \cup {None}] /\ pc \in [Tasks -> Points]
  BY Parameters DEF Tasks, TypeOK
<1>2. CASE a \in Sweeps /\ todo[a] # {} /\ SweepGoesOn(a)
  <2>1. PICK s \in todo[a] : Takes(a, s, todo[a] \ {s})
    BY <1>2 DEF SweepGoesOn
  <2>2. s \in quiet /\ todo[a] \ {s} \in SUBSET quiet
    BY <1>2, <2>1 DEF QuietInv
  <2> QED BY <1>2, <2>1, <2>2, TakesQuiet
<1>3. CASE Finish(a)
  BY <1>1, <1>3 DEF Finish, QuietInv
<1>4. CASE \E p \in {"read", "insert", "done"} : Goto(a, p)
  BY <1>1, <1>4 DEF Goto, QuietInv
<1> QED BY <1>2, <1>3, <1>4 DEF Returns, SweepGoesOn

\* An UPDATE writes "timeout" only for a sweep, and so for a session that it listed.
LEMMA UpdateQuiet ==
  ASSUME TypeOK, QuietInv, NEW a \in Tasks, pc[a] = "update"
  PROVE  \A s \in Sessions : EndedBy(a)[s] = "timeout" => s \in quiet
<1>1. Cause(a) = "timeout" => on[a] \in quiet
  BY EndingsParameters DEF Cause, QuietInv, TypeOK, Tasks
<1> QED BY <1>1 DEF EndedBy, QuietInv, TimeoutHasCause, TypeOK

\* A step of endSession for whichever caller.
LEMMA EndQuiet ==
  ASSUME TypeOK, QuietInv, NEW a \in Tasks, Answered(a) \/ Failed(a)
  PROVE  QuietInv'
<1>1. UNCHANGED <<silent, quiet>>
  BY DEF Answered, Failed, EndUpdate, EndRead, EndInsert, AuditFails, SweepFails
<1>2. Returns(a) \/ \E p \in {"read", "insert"} : Goto(a, p)
  BY DEF Answered, Failed, EndUpdate, EndRead, EndInsert, AuditFails, SweepFails, Returns
<1>3. \A s \in Sessions : row'[s] = "timeout" => s \in quiet
  <2>1. CASE row' = row
    BY <2>1 DEF QuietInv, TimeoutHasCause
  <2>2. CASE row' = EndedBy(a) /\ pc[a] = "update"
    BY <2>2, UpdateQuiet
  <2> QED BY <2>1, <2>2 DEF Answered, Failed, EndUpdate, EndRead, EndInsert, AuditFails, SweepFails, database
<1> QED BY <1>1, <1>2, <1>3, ReturnsQuiet DEF QuietInv, TimeoutHasCause

\* Every step keeps the invariant.
LEMMA QuietNext == TypeOK /\ QuietInv /\ [Next]_vars => QuietInv'
<1> SUFFICES ASSUME TypeOK, QuietInv, [Next]_vars PROVE QuietInv'
  OBVIOUS
<1>1. CASE UNCHANGED vars
  BY <1>1 DEF vars, database, idle, frame, QuietInv, TimeoutHasCause
<1>2. ASSUME NEW s \in Sessions, Pair(s) \/ StartIdleTimer(s) \/ Input(s) PROVE QuietInv'
  <2>1. \A t \in Sessions : /\ silent'[t] = silent[t] \/ silent'[t] = 0
                            /\ row'[t] = row[t] \/ row'[t] = "active"
    BY <1>2 DEF Pair, StartIdleTimer, Input, ResetIdleTimer, database, TypeOK
  <2>2. UNCHANGED <<quiet, todo, pc, on>>
    BY <1>2 DEF Pair, StartIdleTimer, Input, ResetIdleTimer, frame
  <2> QED BY <2>1, <2>2, Parameters DEF QuietInv, TimeoutHasCause
<1>3. CASE Tick
  <2>1. /\ \A t \in Sessions : silent'[t] = IdleLimit => t \in quiet'
        /\ \A t \in quiet : t \in quiet'
        /\ UNCHANGED <<row, todo, pc, on>>
    BY <1>3 DEF Tick, database, frame
  <2> QED BY <2>1 DEF QuietInv, TimeoutHasCause
<1>4. ASSUME NEW w \in Sweeps, SweepStarts(w) PROVE QuietInv'
  <2>1. PICK s \in Sessions : Overdue(s) /\ Takes(w, s, {t \in Sessions : Overdue(t)} \ {s})
    BY <1>4 DEF SweepStarts
  <2>2. \A t \in Sessions : Overdue(t) => t \in quiet
    <3>1. \A t \in Sessions : silent[t] \in 0..IdleLimit /\ (silent[t] >= IdleLimit => silent[t] = IdleLimit)
      BY Parameters DEF TypeOK
    <3> QED BY <3>1 DEF Overdue, QuietInv
  <2>3. \A v \in Sweeps : todo'[v] \in SUBSET quiet /\ (pc'[v] = "update" => on'[v] \in quiet)
    BY <2>1, <2>2, TakesQuiet
  <2> QED BY <1>4, <2>3 DEF SweepStarts, database, QuietInv, TimeoutHasCause
<1>5. ASSUME NEW h \in Handlers, HandlerStarts(h) PROVE QuietInv'
  <2>1. \A w \in Sweeps : pc'[w] = pc[w] /\ on'[w] = on[w]
    BY <1>5, Parameters DEF HandlerStarts, TypeOK, Tasks
  <2> QED BY <1>5, <2>1 DEF HandlerStarts, database, idle, QuietInv, TimeoutHasCause
<1>6. CASE \E a \in Tasks : Answered(a) \/ Failed(a)
  BY <1>6, EndQuiet
<1>7. ASSUME NEW r \in Requests, Request(r) PROVE QuietInv'
  <2>1. r \in Tasks /\ \A w \in Sweeps : w # r /\ w \in Tasks
    BY Parameters DEF Tasks
  <2>2. UNCHANGED <<silent, quiet, todo>>
    BY <1>7 DEF Request, RevokeArrives, RevokeSelect, RevokeMark, RevokeList, RevokeFails, Goto, idle
  <2>3. \A w \in Sweeps : pc'[w] = pc[w] /\ on'[w] = on[w]
    BY <1>7, <2>1 DEF Request, RevokeArrives, RevokeSelect, RevokeMark, RevokeList, RevokeFails, Goto, TypeOK
  <2>4. \A s \in Sessions : row'[s] = "timeout" => s \in quiet
    <3>1. row' = row \/ (row' = EndedBy(r) /\ pc[r] = "update")
      BY <1>7 DEF Request, RevokeArrives, RevokeSelect, RevokeMark, RevokeList, RevokeFails, database
    <3> QED BY <2>1, <3>1, UpdateQuiet DEF QuietInv, TimeoutHasCause
  <2> QED BY <2>2, <2>3, <2>4 DEF QuietInv, TimeoutHasCause
<1>8. CASE Crash
  <2>1. /\ UNCHANGED <<row, silent, quiet>>
        /\ \A w \in Sweeps : todo'[w] = {} /\ pc'[w] # "update"
    BY <1>8, Parameters DEF Crash, database, Tasks
  <2> QED BY <2>1 DEF QuietInv, TimeoutHasCause
<1> QED BY <1>1, <1>2, <1>3, <1>4, <1>5, <1>6, <1>7, <1>8 DEF Next

(***************************************************************************)
(* No session is ended for idleness that was never silent for as long as   *)
(* the limit, whatever input arrives while the sweep works off its list.   *)
(***************************************************************************)
THEOREM TimeoutsHaveCause == Spec => []TimeoutHasCause
<1>1. Init => QuietInv
  BY Parameters DEF Init, QuietInv, TimeoutHasCause, Tasks
<1>2. QuietInv => TimeoutHasCause
  BY DEF QuietInv
<1> QED BY <1>1, <1>2, QuietNext, EndingsTypeCorrect, PTL DEF Spec
=============================================================================
