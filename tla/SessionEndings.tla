---------------------------- MODULE SessionEndings ----------------------------
(***************************************************************************)
(* How the backend ends its sessions, and what Postgres then says of them: *)
(* the handlers of a disconnect message or a closed socket, the sweep for  *)
(* idle sessions and the revocation route all run endSession, and give way *)
(* at each await of a query.  The sockets of one session are the business  *)
(* of ControlSession; here are many sessions and their rows.               *)
(*                                                                         *)
(* A task is one run of an async function with its frame: a program        *)
(* counter, the session that endSession works on, and what it has read.    *)
(* Every session has a device of its own, as completePairing makes it.     *)
(***************************************************************************)
EXTENDS Integers, Sequences

CONSTANTS Sessions,
          Contested,   \* bound: those that clients end and revoke, beside the sweep
          Timed,       \* the sessions for which somebody calls startIdleTimer: none, as
                       \* in server.ts, or more, as idle-timeout.ts documents
          Handlers,    \* bound: disconnect and close handlers that run at once
          Sweeps,      \* bound: runs of sweepIdleSessions that overlap
          Requests,    \* bound: POSTs to /api/devices/revoke, each once
          IdleLimit,   \* IDLE_TIMEOUT_MS: fifteen minutes, in ticks
          MaxCrashes,  \* bound: times the backend dies
          QueriesFail, \* whether a query may fail
          Leaving,     \* bound: the reasons for which a client ends its session
          None

ASSUME EndingsParameters ==
  /\ Timed \subseteq Sessions /\ Contested \subseteq Sessions
  /\ Handlers \cap Sweeps = {} /\ Handlers \cap Requests = {} /\ Sweeps \cap Requests = {}
  /\ IdleLimit \in Nat \ {0} /\ MaxCrashes \in Nat /\ QueriesFail \in BOOLEAN
  /\ Leaving \subseteq {"ctrl_d", "terminal_closed", "phone_disconnect"}
  /\ None \notin Sessions

Tasks   == Handlers \cup Sweeps \cup Requests
Reasons == {"ctrl_d", "terminal_closed", "phone_disconnect", "timeout", "revoked"}

VARIABLES
  \* Postgres
  row,      \* sessions: "none", "active" while ended_at IS NULL, or the end_reason
  revoked,  \* devices: those with revoked_at
  audit,    \* audit_log: a session's rows, each with its event and its prev_hash
  \* the backend's memory
  silent,   \* the ticks since the last input or resize, or since the pairing
  tracked,  \* idle-timeout.ts: the sessions of the map; silent is then their age
  pc, on, todo, tail, why,
  \* histories
  answer,   \* what the route answered
  quiet,    \* sessions that were silent for the limit at some time
  crashes

database == <<row, revoked, audit>>
idle     == <<silent, tracked>>
frame    == <<pc, on, todo, tail, why>>
vars     == <<database, idle, frame, answer, quiet, crashes>>

Ended(s) == row[s] \in Reasons

\* A row of the log by its event and its prev_hash; the hash of the row at position
\* i is i, for it covers a time to the millisecond, and null is 0.
AuditRow(event, prev) == [event |-> event, prev |-> prev]

-----------------------------------------------------------------------------
\* Sessions and time

\* A session without an entry has nothing to set back but its silence.
ResetIdleTimer(s) == silent' = [silent EXCEPT ![s] = 0] /\ UNCHANGED tracked

\* completePairing's transaction.
Pair(s) ==
  /\ row[s] = "none"
  /\ row' = [row EXCEPT ![s] = "active"]
  /\ audit' = [audit EXCEPT ![s] = <<AuditRow("paired", 0)>>]
  /\ silent' = [silent EXCEPT ![s] = 0]
  /\ UNCHANGED <<revoked, tracked, frame, answer, quiet, crashes>>

\* startIdleTimer puts a session into the map.  completePairing does not call it, nor
\* does anything else: only with Timed = {} is this the program.
StartIdleTimer(s) ==
  /\ s \in Timed \ tracked /\ row[s] = "active"
  /\ silent' = [silent EXCEPT ![s] = 0] /\ tracked' = tracked \cup {s}
  /\ UNCHANGED <<database, frame, answer, quiet, crashes>>

\* A session whose silence somebody may ask for.
Timely(s) == row[s] = "active" \/ s \in tracked

\* Any input or resize that names the session, before anything of it is verified.
Input(s) ==
  /\ Timely(s) /\ ResetIdleTimer(s)
  /\ UNCHANGED <<database, frame, answer, quiet, crashes>>

\* A minute passes for every session; beyond the limit silence is not counted.
Tick ==
  /\ silent' = [s \in Sessions |-> IF Timely(s) /\ silent[s] < IdleLimit
                                   THEN silent[s] + 1 ELSE silent[s]]
  /\ quiet' = quiet \cup {s \in Sessions : silent'[s] = IdleLimit}
  /\ UNCHANGED <<database, tracked, frame, answer, crashes>>

-----------------------------------------------------------------------------
\* sweepIdleSessions

\* Plausible bug: a session is taken to be idle a sweep too early.
OverdueEarly(s) == s \in tracked /\ silent[s] >= IdleLimit - 1

Overdue(s) == s \in tracked /\ silent[s] >= IdleLimit

\* sessions.delete, then endSession, whose UPDATE is under way.
Takes(w, s, rest) ==
  /\ pc' = [pc EXCEPT ![w] = "update"] /\ on' = [on EXCEPT ![w] = s]
  /\ todo' = [todo EXCEPT ![w] = rest] /\ tracked' = tracked \ {s}

\* The list is made at once, and worked off one session after the other.
SweepStarts(w) ==
  /\ pc[w] = "idle"
  /\ LET timedOut == {s \in Sessions : Overdue(s)} IN
       \E s \in timedOut : Takes(w, s, timedOut \ {s})
  /\ UNCHANGED <<database, silent, tail, why, answer, quiet, crashes>>

\* A task's next await, or its end.
Goto(a, p) == pc' = [pc EXCEPT ![a] = p] /\ UNCHANGED <<on, todo, tracked>>
Finish(a)  == /\ pc' = [pc EXCEPT ![a] = "idle"] /\ on' = [on EXCEPT ![a] = None]
              /\ UNCHANGED <<todo, tracked>>

SweepGoesOn(w) == IF todo[w] = {} THEN Finish(w)
                  ELSE \E s \in todo[w] : Takes(w, s, todo[w] \ {s})

-----------------------------------------------------------------------------
\* endSession

Cause(a) == IF a \in Sweeps THEN "timeout" ELSE IF a \in Requests THEN "revoked" ELSE why[a]

\* A disconnect message or the close of a socket.  (bound: of a session that is
\* still active, for after that its endSession returns at once.)
HandlerStarts(h) ==
  /\ pc[h] = "idle"
  /\ \E s \in Contested, reason \in Leaving :
        /\ row[s] = "active"
        /\ on' = [on EXCEPT ![h] = s] /\ why' = [why EXCEPT ![h] = reason]
  /\ pc' = [pc EXCEPT ![h] = "update"]
  /\ UNCHANGED <<database, idle, todo, tail, answer, quiet, crashes>>

Reply(r, status) == answer' = [answer EXCEPT ![r] = status]

\* What the caller of endSession does when it returns.
Returns(a) == \/ a \in Handlers /\ Finish(a) /\ UNCHANGED answer
              \/ a \in Sweeps /\ SweepGoesOn(a) /\ UNCHANGED answer
              \/ a \in Requests /\ Goto(a, "done") /\ Reply(a, "200")

\* UPDATE sessions ... WHERE ended_at IS NULL
EndedBy(a) == IF row[on[a]] = "active" THEN [row EXCEPT ![on[a]] = Cause(a)] ELSE row

\* Plausible bug: the UPDATE does not look at ended_at, and always finds a row.
EndUpdateAlways(a) ==
  /\ pc[a] = "update" /\ row' = [row EXCEPT ![on[a]] = Cause(a)]
  /\ Goto(a, "read")
  /\ UNCHANGED <<revoked, audit, silent, tail, why, answer, quiet, crashes>>

EndUpdate(a) ==
  /\ pc[a] = "update" /\ row' = EndedBy(a)
  /\ IF row[on[a]] = "active" THEN Goto(a, "read") /\ UNCHANGED answer ELSE Returns(a)
  /\ UNCHANGED <<revoked, audit, silent, tail, why, quiet, crashes>>

\* The SELECT of the last row_hash.
EndRead(a) ==
  /\ pc[a] = "read" /\ tail' = [tail EXCEPT ![a] = Len(audit[on[a]])]
  /\ Goto(a, "insert")
  /\ UNCHANGED <<database, silent, why, answer, quiet, crashes>>

\* The INSERT, after which endSession runs to its end.
EndInsert(a) ==
  /\ pc[a] = "insert"
  /\ audit' = [audit EXCEPT ![on[a]] = Append(@, AuditRow(Cause(a), tail[a]))]
  /\ Returns(a) /\ tail' = [tail EXCEPT ![a] = 0]
  /\ UNCHANGED <<row, revoked, silent, why, quiet, crashes>>

\* Either query may fail, which endSession only logs.
AuditFails(a) ==
  /\ QueriesFail /\ pc[a] \in {"read", "insert"}
  /\ Returns(a) /\ tail' = [tail EXCEPT ![a] = 0]
  /\ UNCHANGED <<database, silent, why, quiet, crashes>>

\* The sweep's UPDATE fails, with or without effect: the session is not tracked any
\* more, so no other sweep tries it.  (In a handler the failure is a Crash.)
SweepFails(w) ==
  /\ QueriesFail /\ pc[w] = "update"
  /\ row' \in {row, EndedBy(w)}
  /\ SweepGoesOn(w)
  /\ UNCHANGED <<revoked, audit, silent, tail, why, answer, quiet, crashes>>

-----------------------------------------------------------------------------
\* POST /api/devices/revoke

RevokeArrives(r, s) ==
  /\ pc[r] = "idle" /\ answer[r] = "none"
  /\ pc' = [pc EXCEPT ![r] = "select"] /\ on' = [on EXCEPT ![r] = s]
  /\ UNCHANGED <<database, idle, todo, tail, why, answer, quiet, crashes>>

Refusal(s, owner) == IF row[s] = "none" THEN "404" ELSE IF s \in revoked THEN "409"
                     ELSE IF ~owner THEN "403" ELSE "none"

\* The device as it is now, and whether it is the caller's.
RevokeSelect(r, owner) ==
  /\ pc[r] = "select"
  /\ Goto(r, IF Refusal(on[r], owner) = "none" THEN "mark" ELSE "done")
  /\ Reply(r, Refusal(on[r], owner))
  /\ UNCHANGED <<database, silent, tail, why, quiet, crashes>>

\* Plausible bug: the answer does not wait for the sessions to be ended.
RevokeMarkAnswers(r) ==
  /\ pc[r] = "mark" /\ revoked' = revoked \cup {on[r]}
  /\ Goto(r, "list") /\ Reply(r, "200")
  /\ UNCHANGED <<row, audit, silent, tail, why, quiet, crashes>>

\* Plausible bug: marking the device is taken to be all there is to do.
RevokeMarkOnly(r) ==
  /\ pc[r] = "mark" /\ revoked' = revoked \cup {on[r]}
  /\ Goto(r, "done") /\ Reply(r, "200")
  /\ UNCHANGED <<row, audit, silent, tail, why, quiet, crashes>>

RevokeMark(r) ==
  /\ pc[r] = "mark" /\ revoked' = revoked \cup {on[r]}
  /\ Goto(r, "list")
  /\ UNCHANGED <<row, audit, silent, tail, why, answer, quiet, crashes>>

\* The device's sessions that are still active: its one session, or none.
RevokeList(r) ==
  /\ pc[r] = "list"
  /\ IF row[on[r]] = "active" THEN Goto(r, "update") /\ UNCHANGED answer
     ELSE Goto(r, "done") /\ Reply(r, "200")
  /\ UNCHANGED <<database, silent, tail, why, quiet, crashes>>

\* A query of the route, or endSession's UPDATE, fails, with or without effect.
RevokeFails(r) ==
  /\ QueriesFail /\ pc[r] \in {"select", "mark", "list", "update"}
  /\ revoked' \in {revoked, IF pc[r] = "mark" THEN revoked \cup {on[r]} ELSE revoked}
  /\ row' \in {row, IF pc[r] = "update" THEN EndedBy(r) ELSE row}
  /\ Goto(r, "done") /\ Reply(r, "500")
  /\ UNCHANGED <<audit, silent, tail, why, quiet, crashes>>

-----------------------------------------------------------------------------
\* The backend dies and is started anew: what was in its memory is gone, and the
\* new process does not look for sessions that were left active.  An answer that is
\* still due is never given.
Crash ==
  /\ crashes < MaxCrashes /\ crashes' = crashes + 1
  /\ pc' = [a \in Tasks |-> IF a \in Requests /\ on[a] # None THEN "done" ELSE "idle"]
  /\ on' = [a \in Tasks |-> IF a \in Requests THEN on[a] ELSE None]
  /\ answer' = [r \in Requests |-> IF on[r] # None /\ answer[r] = "none" THEN "lost" ELSE answer[r]]
  /\ todo' = [w \in Sweeps |-> {}] /\ tracked' = {}
  /\ tail' = [a \in Tasks |-> 0]
  /\ UNCHANGED <<database, silent, why, quiet>>

-----------------------------------------------------------------------------
\* The specification

Init ==
  /\ row = [s \in Sessions |-> "none"] /\ revoked = {} /\ audit = [s \in Sessions |-> <<>>]
  /\ silent = [s \in Sessions |-> 0] /\ tracked = {}
  /\ pc = [a \in Tasks |-> "idle"] /\ on = [a \in Tasks |-> None]
  /\ todo = [w \in Sweeps |-> {}] /\ tail = [a \in Tasks |-> 0]
  /\ why = [h \in Handlers |-> "none"]
  /\ answer = [r \in Requests |-> "none"] /\ quiet = {} /\ crashes = 0

Answered(a) == EndUpdate(a) \/ EndRead(a) \/ EndInsert(a)
Failed(a)   == AuditFails(a) \/ (a \in Sweeps /\ SweepFails(a))

Request(r) == \/ \E s \in Contested : RevokeArrives(r, s)
              \/ \E owner \in BOOLEAN : RevokeSelect(r, owner)
              \/ RevokeMark(r) \/ RevokeList(r) \/ RevokeFails(r)

Next == \/ \E s \in Sessions : Pair(s) \/ StartIdleTimer(s) \/ Input(s)
        \/ Tick \/ Crash
        \/ \E w \in Sweeps : SweepStarts(w)
        \/ \E h \in Handlers : HandlerStarts(h)
        \/ \E a \in Tasks : Answered(a) \/ Failed(a)
        \/ \E r \in Requests : Request(r)

Spec == Init /\ [][Next]_vars

-----------------------------------------------------------------------------
\* Properties

\* The types of the variables; a task that runs has its session, and the route
\* answers last of all, and once.
Statuses == {"none", "active"} \cup Reasons
Events   == {"paired"} \cup Reasons
Answers  == {"none", "200", "403", "404", "409", "500", "lost"}
Points   == {"idle", "select", "mark", "list", "update", "read", "insert", "done"}
TypeOK ==
  /\ row \in [Sessions -> Statuses] /\ revoked \in SUBSET Sessions
  /\ audit \in [Sessions -> Seq([event : Events, prev : Nat])]
  /\ silent \in [Sessions -> 0..IdleLimit] /\ tracked \in SUBSET Timed
  /\ pc \in [Tasks -> Points] /\ on \in [Tasks -> Sessions \cup {None}]
  /\ todo \in [Sweeps -> SUBSET Timed] /\ tail \in [Tasks -> Nat]
  /\ why \in [Handlers -> Leaving \cup {"none"}]
  /\ answer \in [Requests -> Answers]
  /\ quiet \in SUBSET Sessions /\ crashes \in 0..MaxCrashes
  /\ \A a \in Tasks : pc[a] # "idle" => on[a] \in Sessions
  /\ \A h \in Handlers : pc[h] # "idle" => why[h] \in Leaving
  /\ \A a \in Tasks \ Requests : pc[a] \in {"idle", "update", "read", "insert"}
  /\ \A r \in Requests : pc[r] = "done" <=> answer[r] # "none"

(***************************************************************************)
(* However many tasks end a session at once, its log is one chain: it      *)
(* starts with the pairing, every row names the row before it (the linkage *)
(* verifyHashChain looks for), and an ended session has at most one row    *)
(* more, which says what the session's row says.                           *)
(***************************************************************************)
AuditChained ==
  \A s \in Sessions :
    /\ \A i \in 1..Len(audit[s]) : audit[s][i].prev = i - 1
    /\ Len(audit[s]) <= 2
    /\ Len(audit[s]) = 2 => Ended(s) /\ audit[s][2].event = row[s]

(***************************************************************************)
(* What 200 tells the CLI is true, whatever ran beside the request: the    *)
(* device is revoked and its session has ended.                            *)
(***************************************************************************)
RevokeAnswerHolds == \A r \in Requests : answer[r] = "200" => on[r] \in revoked /\ Ended(on[r])

(***************************************************************************)
(* A revoked device's session is active only as long as a request is about *)
(* to end it, or if a request for it failed: no interleaving of two        *)
(* requests with each other or with other endings forgets it.              *)
(***************************************************************************)
RevokedNotForgotten ==
  \A s \in revoked : row[s] = "active" =>
    \E r \in Requests : on[r] = s /\ (pc[r] \in {"list", "update"} \/ answer[r] \in {"500", "lost"})

\* No session is ended for idleness that was never silent for as long as the limit.
TimeoutHasCause == \A s \in Sessions : row[s] = "timeout" => s \in quiet
=============================================================================
