---------------------------- MODULE ControlSession ----------------------------
(***************************************************************************)
(* One control session of phone-terminal, from the moment completePairing  *)
(* promoted it: the phone sends signed input, the backend checks and       *)
(* relays it, the CLI checks it again and writes it to the pty; and any of *)
(* five handlers may end the session while the others run.                 *)
(*                                                                         *)
(* The backend is one JavaScript thread whose handlers give way at each    *)
(* await of a query.  Three kinds of handlers keep a frame across awaits:  *)
(*   lookups  one frame per phone message whose key is asked of Postgres   *)
(*            (the pool has 20 connections, so answers come in any order), *)
(*   ender    one frame per handler that runs endSession,                  *)
(*   sigfail  the UPDATE the relay issues after too many bad signatures.   *)
(* With the key in the cache a message is relayed without giving way.      *)
(*                                                                         *)
(* The session has one socket per side; bound is the set of sides that     *)
(* SocketRegistry still holds for it (cliSocketsBySession and              *)
(* phoneSocketsBySession).  Ctrl+D, the pty's exit, kill -9, the phone's   *)
(* Disconnect, lost connections, a revocation and the death of the backend *)
(* are actions; the faults a run admits are the constant Faults.  Output of*)
(* the pty, which is relayed unsigned and changes no state, is left out,   *)
(* and so is the idle sweep: server.ts never starts an idle timer, so its  *)
(* table is empty in every state.                                          *)
(***************************************************************************)
EXTENDS Naturals, Sequences, Functions

CONSTANTS MaxInputs,    \* bound: inputs the phone sends
          MaxFailures,  \* consecutive bad messages that end a session: 3 in the
                        \* code, both in relay.ts and in verify.ts
          Faults        \* what may go wrong in the run, of KnownFaults

KnownFaults == {"stale",       \* 30 seconds pass with messages under way
                "other_tab",   \* another tab of the phone's browser pairs or ends
                "loss",        \* a connection breaks
                "audit",       \* the INSERT into audit_log fails
                "revoke",      \* a query of the revocation route fails
                "crash"}       \* the backend process dies

ASSUME SessionParameters ==
  /\ MaxInputs \in Nat
  /\ MaxFailures \in Nat \ {0}
  /\ Faults \subseteq KnownFaults

Sides   == {"cli", "phone"}
Reasons == {"ctrl_d", "terminal_closed", "phone_disconnect", "revoked", "sig_fail"}

\* The handlers that run endSession: a disconnect message or a close event of
\* either side, and the revocation route.
Enders == {"cli_message", "phone_message", "cli_close", "phone_close", "revoke"}
MessageOf(r) == IF r = "cli" THEN "cli_message" ELSE "phone_message"
CloseOf(r)   == IF r = "cli" THEN "cli_close" ELSE "phone_close"
Initiator(e) == IF e \in {"cli_message", "cli_close"} THEN "cli"
                ELSE IF e = "revoke" THEN "server" ELSE "phone"

VARIABLES
  \* Postgres
  ending,    \* sessions.end_reason, or "active" while ended_at IS NULL
  revoked,   \* devices.revoked_at IS NOT NULL
  audit,     \* the disconnect rows of audit_log: their reasons
  \* the backend's memory
  bound,     \* the sides whose socket is registered for the session
  cached,    \* sessionKeyCache.has(sessionId)
  failures,  \* sigFailures.get(sessionId)
  lookups, ender, sigfail,
  \* the connections
  sock,      \* readyState of the backend's end
  linked,    \* the client's end is open
  up, down,  \* the messages on their way to and from the backend
  \* the CLI process
  stage,     \* "importing": paired, listener not attached yet; "control"; "exited"
  lastSeq, cliFailures, alarmed,
  written,   \* history: the sequence numbers of the inputs written to the pty
  \* the phone's page
  page,      \* "opening": paired, listeners not attached yet; "connected"; "left"
  seq,
  key        \* the keypair in IndexedDB: the session's "own", "other", or "none"

store   == <<ending, revoked, audit>>
frames  == <<lookups, ender, sigfail>>
memory  == <<bound, cached, failures, frames>>
net     == <<sock, linked, up, down>>
laptop  == <<stage, lastSeq, cliFailures, alarmed, written>>
browser == <<page, seq, key>>
vars    == <<store, memory, net, laptop, browser>>

-----------------------------------------------------------------------------
\* Messages and sockets

Input(n, ok) == [type |-> "input", seq |-> n, fresh |-> TRUE, signed |-> ok]
Inputs == [type : {"input"}, seq : 1..MaxInputs, fresh : BOOLEAN, signed : BOOLEAN]
Bye(reason) == [type |-> "disconnect", reason |-> reason]
Close == [type |-> "close"]
Byes == [type : {"disconnect"}, reason : Reasons]
Msgs == Inputs \cup Byes \cup {Close}

Idle == [step |-> "idle", reason |-> "revoked"]
Ender(step, reason) == [step |-> step, reason |-> reason]
AllIdle == [e \in Enders |-> Idle]
EnderFrames == [Enders -> [step : {"idle", "mark", "list", "update", "audit", "finish"},
                           reason : Reasons]]

\* wsSend drops what it cannot send.
Post(d, r, ms) == IF sock[r] = "open" /\ linked[r] THEN [d EXCEPT ![r] = @ \o ms] ELSE d
Shut(R) == [r \in Sides |-> IF r \in R /\ sock[r] = "open" THEN "closing" ELSE sock[r]]

\* A client's end closes: what it did not read is lost.
Hangup(r) == /\ linked' = [linked EXCEPT ![r] = FALSE]
             /\ down' = [down EXCEPT ![r] = <<>>]

-----------------------------------------------------------------------------
\* The phone (ConnectedPage.tsx, App.tsx)

\* Keys and resizes: sendEnvelope queues, so messages leave in the order of their
\* seq.  Without a keypair nothing is sent.  (A page may be used as soon as it is drawn,
\* before its effects have run.)
PhoneTypes ==
  /\ page # "left" /\ key # "none" /\ seq < MaxInputs
  /\ seq' = seq + 1
  /\ up' = IF linked["phone"] THEN [up EXCEPT !["phone"] = Append(@, Input(seq', key = "own"))]
                              ELSE up
  /\ UNCHANGED <<store, memory, sock, linked, down, laptop, page, key>>

\* ConnectedPage is on the screen; its effects attach the listeners.  Nothing looks
\* whether the socket is still open.
PhoneListens ==
  /\ page = "opening" /\ page' = "connected"
  /\ UNCHANGED <<store, memory, net, laptop, seq, key>>

\* The page shows "Disconnected", deletes the keypair and closes its socket.
PhoneLeaves ==
  /\ page' = "left" /\ key' = "none"
  /\ Hangup("phone")
  /\ UNCHANGED <<store, memory, sock, laptop, seq>>

\* The button: a disconnect message first, if there is a key to sign it with.
PhoneDisconnects ==
  /\ page # "left" /\ PhoneLeaves
  /\ up' = IF linked["phone"] /\ key # "none"
           THEN [up EXCEPT !["phone"] = Append(@, Bye("phone_disconnect"))] ELSE up

\* A disconnect message, or the close event.
PhoneHears ==
  /\ page = "connected" /\ down["phone"] # <<>>
  /\ PhoneLeaves /\ UNCHANGED up

\* Until the listeners are attached those of ClaimPage and CodePage read the messages;
\* they know no disconnect, and after the claim they ignore the close event.
PhoneMisses ==
  /\ page = "opening" /\ down["phone"] # <<>>
  /\ IF Head(down["phone"]) = Close THEN Hangup("phone")
     ELSE down' = [down EXCEPT !["phone"] = Tail(@)] /\ UNCHANGED linked
  /\ UNCHANGED <<store, memory, sock, up, laptop, browser>>

\* The page is shown again and finds its socket closed.
PhoneResumes ==
  /\ page = "connected" /\ ~linked["phone"]
  /\ PhoneLeaves /\ UNCHANGED up

\* All tabs of the browser share one IndexedDB entry (crypto.ts KEY_ID): a claim
\* in another tab overwrites the keypair, the end of its session deletes it.
OtherTab ==
  /\ "other_tab" \in Faults /\ page # "left"
  /\ key' \in {"other", "none"}
  /\ UNCHANGED <<store, memory, net, laptop, page, seq>>

-----------------------------------------------------------------------------
\* The relay (relay.ts)

Take(r) == up' = [up EXCEPT ![r] = Tail(@)]

\* Plausible bug: removeSession forgets the sockets without closing them.
ForgetSockets(d) == bound' = {} /\ down' = d /\ UNCHANGED sock

\* removeSession: both registered sockets are closed and forgotten.
RemoveSession(d) == /\ bound' = {}
                    /\ sock' = Shut(bound)
                    /\ down' = [r \in Sides |-> IF r \in bound THEN Post(d, r, <<Close>>)[r]
                                                               ELSE d[r]]

\* When consecutive bad messages end the session, here and in the CLI's
\* shouldAutoDisconnect.  The plausible bug allows one more.
TooManyLate(n) == n > MaxFailures
TooMany(n) == n >= MaxFailures

\* handlePhoneControlMessage once the key is known; it looks the CLI's socket up
\* only here.  Too many bad signatures in a row drop the session.
Relay(m) ==
  IF m.signed
  THEN /\ failures' = 0
       /\ down' = IF "cli" \in bound THEN Post(down, "cli", <<m>>) ELSE down
       /\ UNCHANGED <<bound, sock, sigfail>>
  ELSE IF ~TooMany(failures + 1)
  THEN /\ failures' = failures + 1
       /\ UNCHANGED <<bound, sock, sigfail, down>>
  ELSE /\ failures' = 0
       /\ RemoveSession(down)
       /\ sigfail' = TRUE

InputArrives ==
  /\ up["phone"] # <<>> /\ Head(up["phone"]).type = "input"
  /\ Take("phone")
  /\ LET m == Head(up["phone"])
     IN  IF "phone" \notin bound
         THEN UNCHANGED <<bound, failures, lookups, sigfail, sock, down>>
         ELSE IF cached THEN Relay(m) /\ UNCHANGED lookups
         ELSE /\ lookups' = lookups \cup {[msg |-> m, found |-> "asked"]}
              /\ UNCHANGED <<bound, failures, sigfail, sock, down>>
  /\ UNCHANGED <<store, cached, ender, linked, laptop, browser>>

\* getSessionPublicKey: what Postgres answers...
KeyQuery(f) ==
  /\ f.found = "asked"
  /\ lookups' = (lookups \ {f}) \cup
        {[f EXCEPT !.found = IF ending = "active" /\ ~revoked THEN "yes" ELSE "no"]}
  /\ UNCHANGED <<store, bound, cached, failures, ender, sigfail, net, laptop, browser>>

\* ... and the rest of the handler, when it gets the answer.
KeyAnswer(f) ==
  /\ f.found # "asked"
  /\ lookups' = lookups \ {f}
  /\ IF f.found = "yes" THEN cached' = TRUE /\ Relay(f.msg)
     ELSE UNCHANGED <<cached, bound, failures, sigfail, sock, down>>
  /\ UNCHANGED <<store, ender, linked, up, laptop, browser>>

\* The UPDATE of the third failure; nothing else of endSession is done.
SigFailUpdate ==
  /\ sigfail /\ sigfail' = FALSE
  /\ ending' = IF ending = "active" THEN "sig_fail" ELSE ending
  /\ UNCHANGED <<revoked, audit, bound, cached, failures, lookups, ender, net, laptop, browser>>

-----------------------------------------------------------------------------
\* endSession (disconnect.ts) and the handlers that call it

\* What a side may give as the reason: the backend knows two of the CLI's.
EndReason(r, said) == IF r = "phone" THEN "phone_disconnect"
                      ELSE IF said = "ctrl_d" THEN "ctrl_d" ELSE "terminal_closed"

\* handleDisconnectMessage: the side is known by its socket, nothing is verified.
DisconnectArrives(r) ==
  /\ up[r] # <<>> /\ Head(up[r]).type = "disconnect"
  /\ Take(r)
  /\ ender' = IF r \in bound
              THEN [ender EXCEPT ![MessageOf(r)] =
                       Ender("update", EndReason(r, Head(up[r]).reason))]
              ELSE ender
  /\ UNCHANGED <<store, bound, cached, failures, lookups, sigfail, sock, linked, down,
                 laptop, browser>>

\* Plausible bug: a socket that closes is forgotten, its session goes on.
SocketForgotten(r) ==
  /\ sock[r] # "closed" /\ ~linked[r] /\ up[r] = <<>>
  /\ sock' = [sock EXCEPT ![r] = "closed"]
  /\ bound' = bound \ {r}
  /\ UNCHANGED <<store, cached, failures, lookups, ender, sigfail, linked, up, down, laptop, browser>>

\* handleSocketClose: removeBySocket forgets this side at once.
SocketClose(r) ==
  /\ sock[r] # "closed" /\ ~linked[r] /\ up[r] = <<>>
  /\ sock' = [sock EXCEPT ![r] = "closed"]
  /\ bound' = bound \ {r}
  /\ ender' = IF r \in bound
              THEN [ender EXCEPT ![CloseOf(r)] =
                       Ender("update", EndReason(r, "closed"))]
              ELSE ender
  /\ UNCHANGED <<store, cached, failures, lookups, sigfail, linked, up, down, laptop, browser>>

Step(e, step) == ender' = [ender EXCEPT ![e].step = step]
Finished(e)   == ender' = [ender EXCEPT ![e] = Idle]

\* Plausible bug: the UPDATE loses its "AND ended_at IS NULL".
EndUpdateAlways(e) ==
  /\ ender[e].step = "update"
  /\ ending' = ender[e].reason /\ Step(e, "audit")
  /\ UNCHANGED <<revoked, audit, bound, cached, failures, lookups, sigfail, net, laptop, browser>>

\* Who finds the session ended already leaves the rest to the one that ended it.
EndUpdate(e) ==
  /\ ender[e].step = "update"
  /\ IF ending = "active" THEN ending' = ender[e].reason /\ Step(e, "audit")
                          ELSE Finished(e) /\ UNCHANGED ending
  /\ UNCHANGED <<revoked, audit, bound, cached, failures, lookups, sigfail, net, laptop, browser>>

\* The audit row; that it fails is caught.
EndAudit(e) ==
  /\ ender[e].step = "audit"
  /\ audit' \in {Append(audit, ender[e].reason)}
                  \cup (IF "audit" \in Faults THEN {audit} ELSE {})
  /\ Step(e, "finish")
  /\ UNCHANGED <<ending, revoked, bound, cached, failures, lookups, sigfail, net, laptop, browser>>

\* The sides still registered are told, except the initiator's.
Notified(e) ==
  [r \in Sides |-> IF r \in bound /\ r # Initiator(e)
                   THEN Post(down, r, <<Bye(ender[e].reason)>>)[r] ELSE down[r]]

\* Plausible bug: the notification goes out, removeSession is forgotten.
EndNotify(e) ==
  /\ ender[e].step = "finish"
  /\ cached' = FALSE
  /\ down' = Notified(e)
  /\ Finished(e)
  /\ UNCHANGED <<store, bound, failures, lookups, sigfail, sock, linked, up, laptop, browser>>

EndFinish(e) ==
  /\ ender[e].step = "finish"
  /\ cached' = FALSE
  /\ RemoveSession(Notified(e))
  /\ Finished(e)
  /\ UNCHANGED <<store, failures, lookups, sigfail, linked, up, laptop, browser>>

-----------------------------------------------------------------------------
\* POST /api/devices/revoke (revoke.ts), requested by the owning instance; one
\* request at a time.  Its first query refuses a device already revoked (409).

RevokeSelect ==
  /\ ender["revoke"] = Idle /\ ~revoked
  /\ Step("revoke", "mark")
  /\ UNCHANGED <<store, bound, cached, failures, lookups, sigfail, net, laptop, browser>>

\* Plausible bug: the device is revoked, its sessions are left alone.
RevokeDeviceOnly ==
  /\ ender["revoke"].step = "mark"
  /\ revoked' = TRUE /\ Finished("revoke")
  /\ UNCHANGED <<ending, audit, bound, cached, failures, lookups, sigfail, net, laptop, browser>>

RevokeMark ==
  /\ ender["revoke"].step = "mark"
  /\ revoked' = TRUE /\ Step("revoke", "list")
  /\ UNCHANGED <<ending, audit, bound, cached, failures, lookups, sigfail, net, laptop, browser>>

RevokeList ==
  /\ ender["revoke"].step = "list"
  /\ IF ending = "active" THEN Step("revoke", "update") ELSE Finished("revoke")
  /\ UNCHANGED <<store, bound, cached, failures, lookups, sigfail, net, laptop, browser>>

\* A query rejects: the route answers 500, what it did so far stays.
RevokeFails ==
  /\ "revoke" \in Faults /\ ender["revoke"].step \in {"mark", "list", "update"}
  /\ Finished("revoke")
  /\ UNCHANGED <<store, bound, cached, failures, lookups, sigfail, net, laptop, browser>>

-----------------------------------------------------------------------------
\* The CLI (index.ts, pty-io.ts, verify.ts, session.ts)

\* The imports after 'paired' are done: initializeSession, startControlPhase.
CliStarts ==
  /\ stage = "importing" /\ stage' = "control"
  /\ UNCHANGED <<store, memory, net, lastSeq, cliFailures, alarmed, written, browser>>

CliExits(said) ==
  /\ stage' = "exited"
  /\ up' = IF linked["cli"] THEN [up EXCEPT !["cli"] = @ \o said] ELSE up
  /\ Hangup("cli")

\* teardownSession, then process.exit, which may come before the message is out.
Teardown(reason) == CliExits(<<>>) \/ CliExits(<<Bye(reason)>>)

\* Ctrl+D, or the shell ends.
CliDisconnects ==
  /\ stage = "control"
  /\ \E reason \in {"ctrl_d", "terminal_closed"} : Teardown(reason)
  /\ UNCHANGED <<store, memory, sock, lastSeq, cliFailures, alarmed, written, browser>>

\* Any other end of the process: registerTeardownHandlers is called nowhere.
CliKilled ==
  /\ stage # "exited" /\ CliExits(<<>>)
  /\ UNCHANGED <<store, memory, sock, lastSeq, cliFailures, alarmed, written, browser>>

\* Plausible bug: the sequence number is not looked at.
AnyFreshInput(m, last) == m.fresh /\ m.signed
Acceptable(m, last) == m.fresh /\ m.seq > last /\ m.signed

\* verifyMessage and what the listener makes of its result.
CliInput ==
  /\ stage = "control" /\ down["cli"] # <<>>
  /\ LET m == Head(down["cli"])
     IN  /\ m.type = "input"
         /\ IF Acceptable(m, lastSeq)
            THEN /\ lastSeq' = m.seq /\ cliFailures' = 0
                 /\ written' = Append(written, m.seq)
            ELSE cliFailures' = cliFailures + 1 /\ UNCHANGED <<lastSeq, written>>
  /\ alarmed' = TooMany(cliFailures')
  /\ IF alarmed' THEN Teardown("sig_fail")
     ELSE down' = [down EXCEPT !["cli"] = Tail(@)] /\ UNCHANGED <<stage, linked, up>>
  /\ UNCHANGED <<store, memory, sock, browser>>

CliGoodbye ==
  /\ stage = "control" /\ down["cli"] # <<>> /\ Head(down["cli"]).type = "disconnect"
  /\ Teardown(Head(down["cli"]).reason)
  /\ UNCHANGED <<store, memory, sock, lastSeq, cliFailures, alarmed, written, browser>>

\* While it imports, only the listener of the pairing phase is attached: it knows
\* neither inputs nor goodbyes.
CliMisses ==
  /\ stage = "importing" /\ down["cli"] # <<>> /\ Head(down["cli"]) # Close
  /\ down' = [down EXCEPT !["cli"] = Tail(@)]
  /\ UNCHANGED <<store, memory, sock, linked, up, laptop, browser>>

\* The close event only rejects a promise that is settled: the process goes on.
CliLosesSocket ==
  /\ stage # "exited" /\ down["cli"] # <<>> /\ Head(down["cli"]) = Close
  /\ Hangup("cli")
  /\ UNCHANGED <<store, memory, sock, up, laptop, browser>>

-----------------------------------------------------------------------------
\* Faults

Stale(m) == IF m.type = "input" THEN [m EXCEPT !.fresh = FALSE] ELSE m
StaleAll(q) == [i \in DOMAIN q |-> Stale(q[i])]

\* Thirty seconds pass: what is under way is too old for the CLI.
TimePasses ==
  /\ "stale" \in Faults
  /\ up'   = [r \in Sides |-> StaleAll(up[r])]
  /\ down' = [r \in Sides |-> StaleAll(down[r])]
  /\ lookups' = {[f EXCEPT !.msg = Stale(@)] : f \in lookups}
  /\ UNCHANGED <<store, bound, cached, failures, ender, sigfail, sock, linked, laptop, browser>>

\* A connection breaks, with or without what was on its way to the backend.  The
\* phone's page notices (close or error event) once it listens, the CLI does not.
Cut(r) == linked[r] /\ "loss" \in Faults /\ up' \in {up, [up EXCEPT ![r] = <<>>]}

PhoneLosesConnection ==
  /\ Cut("phone")
  /\ \/ page = "connected" /\ PhoneLeaves
     \/ page # "connected" /\ Hangup("phone") /\ UNCHANGED <<store, memory, sock, laptop, browser>>

CliLosesConnection ==
  /\ Cut("cli") /\ Hangup("cli")
  /\ UNCHANGED <<store, memory, sock, laptop, browser>>

\* The backend process dies, or exits on an unhandled rejection.  A new one knows
\* nothing of the session, and nothing reconciles its row.
Crash ==
  /\ "crash" \in Faults
  /\ bound' = {} /\ cached' = FALSE /\ failures' = 0
  /\ lookups' = {} /\ ender' = AllIdle /\ sigfail' = FALSE
  /\ sock' = [r \in Sides |-> "closed"]
  /\ up'   = [r \in Sides |-> <<>>]
  /\ down' = [r \in Sides |-> Post(down, r, <<Close>>)[r]]
  /\ UNCHANGED <<store, linked, laptop, browser>>

-----------------------------------------------------------------------------
\* The specification

\* completePairing has committed and promoted; both clients have read 'paired'.
Init ==
  /\ ending = "active" /\ revoked = FALSE /\ audit = <<>>
  /\ bound = Sides /\ cached = FALSE /\ failures = 0
  /\ lookups = {} /\ ender = AllIdle /\ sigfail = FALSE
  /\ sock = [r \in Sides |-> "open"] /\ linked = [r \in Sides |-> TRUE]
  /\ up = [r \in Sides |-> <<>>] /\ down = [r \in Sides |-> <<>>]
  /\ stage = "importing" /\ lastSeq = 0 /\ cliFailures = 0 /\ alarmed = FALSE
  /\ written = <<>>
  /\ page = "opening" /\ seq = 0 /\ key = "own"

Ends(e) == EndUpdate(e) \/ EndAudit(e) \/ EndFinish(e)

Backend == \/ InputArrives
           \/ \E f \in lookups : KeyQuery(f) \/ KeyAnswer(f)
           \/ SigFailUpdate
           \/ \E r \in Sides : DisconnectArrives(r) \/ SocketClose(r)
           \/ \E e \in Enders : Ends(e)
           \/ RevokeMark \/ RevokeList

Clients == \/ PhoneListens \/ PhoneHears \/ PhoneMisses
           \/ CliStarts \/ CliInput \/ CliGoodbye \/ CliMisses \/ CliLosesSocket

Users == PhoneTypes \/ PhoneDisconnects \/ PhoneResumes \/ RevokeSelect \/ CliDisconnects \/ CliKilled

Happens == \/ TimePasses \/ OtherTab \/ RevokeFails \/ Crash
           \/ PhoneLosesConnection \/ CliLosesConnection

Next == Backend \/ Clients \/ Users \/ Happens

Spec == Init /\ [][Next]_vars

(***************************************************************************)
(* Node runs every handler whose query has been answered and every event   *)
(* that has arrived; the pool's timeouts bound a query; the browser and    *)
(* the CLI run theirs.  Nothing is assumed of users and faults.            *)
(***************************************************************************)
Fairness ==
  /\ WF_vars(InputArrives) /\ WF_vars(SigFailUpdate)
  /\ WF_vars(\E f \in lookups : KeyQuery(f)) /\ WF_vars(\E f \in lookups : KeyAnswer(f))
  /\ \A r \in Sides : WF_vars(DisconnectArrives(r)) /\ WF_vars(SocketClose(r))
  /\ \A e \in Enders : WF_vars(Ends(e))
  /\ WF_vars(RevokeMark) /\ WF_vars(RevokeList)
  /\ WF_vars(PhoneListens) /\ WF_vars(PhoneHears) /\ WF_vars(CliStarts)
  /\ WF_vars(CliInput \/ CliGoodbye \/ CliMisses \/ CliLosesSocket)

FairSpec == Spec /\ Fairness

-----------------------------------------------------------------------------
\* Properties

\* The types of the variables (index.ts, relay.ts, disconnect.ts, revoke.ts).
TypeOK ==
  /\ ending \in Reasons \cup {"active"} /\ revoked \in BOOLEAN
  /\ audit \in Seq(Reasons)
  /\ bound \subseteq Sides /\ cached \in BOOLEAN /\ failures \in 0..(MaxFailures - 1)
  /\ lookups \subseteq [msg : Inputs, found : {"asked", "yes", "no"}]
  /\ ender \in EnderFrames
  /\ sigfail \in BOOLEAN
  /\ sock \in [Sides -> {"open", "closing", "closed"}] /\ linked \in [Sides -> BOOLEAN]
  /\ up \in [Sides -> Seq(Msgs)] /\ down \in [Sides -> Seq(Msgs)]
  /\ stage \in {"importing", "control", "exited"} /\ alarmed \in BOOLEAN
  /\ lastSeq \in 0..MaxInputs /\ cliFailures \in 0..MaxFailures
  /\ stage # "exited" => ~TooMany(cliFailures)
  /\ written \in Seq(1..MaxInputs)
  /\ page \in {"opening", "connected", "left"} /\ seq \in 0..MaxInputs /\ key \in {"own", "other", "none"}

(***************************************************************************)
(* No input reaches the pty twice or after a later one, however the key    *)
(* lookups reorder the relay (relay.ts handlePhoneControlMessage,          *)
(* verify.ts verifyMessage).                                               *)
(***************************************************************************)
WrittenInOrder ==
  \A i, j \in 1..Len(written) : i < j => written[i] < written[j]

(***************************************************************************)
(* Of all the handlers that may end the session at once, one does: at most *)
(* one disconnect row is written, and it gives the reason the session's    *)
(* row gives (disconnect.ts endSession).                                   *)
(***************************************************************************)
EndedOnce == Len(audit) <= 1 /\ (audit # <<>> => audit[1] = ending)

(***************************************************************************)
(* Once the session is ended and no handler is still at it, its sockets    *)
(* are unregistered and not open, so that nothing is relayed any more      *)
(* (disconnect.ts endSession, handleSocketClose, relay.ts).                *)
(***************************************************************************)
AtWork == sigfail \/ \E e \in Enders : ender[e].step \in {"update", "audit", "finish"}
Dropped == bound = {} /\ \A r \in Sides : sock[r] # "open"
EndedMeansDropped == ending # "active" /\ ~AtWork => Dropped

(***************************************************************************)
(* The fate of a session whose CLI process is gone, however it went: the   *)
(* backend ends it (handleDisconnectMessage, handleSocketClose).  Not if   *)
(* the backend dies too: nothing ends the row then.                        *)
(***************************************************************************)
CliExitEndsSession == stage = "exited" ~> ending # "active"

(***************************************************************************)
(* Whichever handler ends the session, and whatever it finds registered    *)
(* after its awaits: a page that listens on a connection that stands does  *)
(* not stay "connected" (removeSession, ConnectedPage.tsx 222-234).        *)
(***************************************************************************)
PhoneLearnsOfEnd ==
  page = "connected" /\ linked["phone"] /\ ending # "active" ~> page = "left"

\* revoke.ts: a revoked device's session is ended; true while its queries succeed.
RevokeEndsSession == revoked ~> ending # "active"

\* The inputs on their way to the CLI.
Relayed == {m.seq : m \in {q \in Range(down["cli"]) : q.type = "input"}}

Contract == INSTANCE SessionContract WITH
  Typed <- 1..MaxInputs, ended <- ending, record <- audit, served <- "cli" \in bound,
  pending <- Relayed, delivered <- written, running <- stage # "exited"

(***************************************************************************)
(* Phone, relay, the handlers that end the session, the CLI and every      *)
(* fault together do nothing but what SessionContract lets a session do.   *)
(***************************************************************************)
KeepsSessionContract == Contract!Spec

-----------------------------------------------------------------------------
\* What the documents say and the code does not do

\* disconnect.ts:25 "No dangling connected state possible", and docs/phone-terminal-guide.md:328
\* has the page of an ended session "Disconnected - clear red state, explains why".  The least
\* that follows: not both ends of an ended session stay connected.
NoDanglingConnected == ending # "active" ~> stage = "exited" \/ page = "left"

\* verify.ts:20 "3 consecutive failures = likely tampering": no alarm in a session
\* with nothing wrong in it.
AlarmMeansTampering == alarmed => Faults # {}
=============================================================================
