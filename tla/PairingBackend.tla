---------------------------- MODULE PairingBackend ----------------------------
(***************************************************************************)
(* The backend's side of one pairing of phone-terminal: the WebSocket      *)
(* handlers of backend/src/server.ts and backend/src/ws/, from the first   *)
(* message of a client to the control session, and the closing of sockets. *)
(* Module Pairing adds the clients and the specification.                  *)
(*                                                                         *)
(* The backend is one JavaScript thread, but every message starts a handler*)
(* of its own ("void messageRouter(...)") that gives way at each await of a*)
(* query.  A handler is therefore a frame: pc[k] is the await at which the *)
(* handler of socket k's last message stands, loc[k] what it keeps across  *)
(* that await.  An action is one of                                        *)
(*   - a query: what Postgres does when it runs it, with the local         *)
(*     computation on its result up to the next query, or                  *)
(*   - a continuation that reads or writes the memory all handlers share   *)
(*     (the registry, the key map, the sockets) up to the next await.      *)
(* The first query of a handler is taken together with the arrival of its  *)
(* message: nothing between the two touches shared state.                  *)
(*                                                                         *)
(* A client sends its next request only when the last one is answered, so  *)
(* a socket has one message under way and one message handler (Pairing     *)
(* states that as OneRequestAtATime); the handler of its close event may   *)
(* run beside it.                                                          *)
(***************************************************************************)
EXTENDS SocketRegistry, PairingStore, Sequences, FiniteSets

CONSTANT MaxCrashes   \* bound: how often the backend process may die

ASSUME CrashBound == MaxCrashes \in Nat

VARIABLES
  \* Postgres
  row,       \* the pairing_state row
  expired,   \* expires_at <= now()
  sessions,  \* the sessions and devices tables: [status, key] per session id
  \* the backend's memory
  reg,       \* socketRegistry
  keys,      \* phonePublicKeys, the entry of this pairing (a key is named by its phone)
  pushed,    \* codePushedForPairing.has(pairingId)
  pc, loc,   \* the frame of the message handler of each socket
  closing,   \* the frame of the close handler of each socket
  \* the connections
  sock,      \* readyState of the backend's end
  linked,    \* the client's end is open
  up,        \* the message on its way to the backend
  down,      \* the messages on their way to the client
  \* the clients
  cli,       \* the CLI process: phase, what 'paired' told it, codes it submitted
  phone,     \* the phones' pages: page, code on screen, session
  \* bookkeeping
  claimants, \* history: the phones whose claim() returned true
  crashes    \* history: how often the backend died

store   == <<row, expired, sessions>>
memory  == <<reg, keys, pushed>>
frames  == <<pc, loc, closing>>
net     == <<sock, linked, up, down>>
clients == <<cli, phone>>
history == <<claimants, crashes>>
vars    == <<store, memory, frames, net, clients, history>>

-----------------------------------------------------------------------------
\* Messages

Msg(t, v) == [type |-> t, val |-> v, key |-> None]
Note(t)   == Msg(t, None)
Paired(s, k) == [type |-> "paired", val |-> s, key |-> k]
NoMsg     == Note("none")
Close     == Note("close")   \* the close frame, read after what was sent before it

Values == {"pending", "claimed", None} \cup Codes \cup Sessions \cup Phones

UpMsgs == [type : {"none", "cli_hello", "phone_claim", "public_key"},
           val : {None}, key : {None}]
     \cup [type : {"code_submit"}, val : Codes, key : {None}]

DownMsgs == [type : {"phone_claim_ack", "phone_claimed", "code_valid", "code_invalid",
                     "code_locked", "error", "close"}, val : {None}, key : {None}]
       \cup [type : {"cli_hello_ack"}, val : {"pending", "claimed"}, key : {None}]
       \cup [type : {"code_challenge"}, val : Codes, key : {None}]
       \cup [type : {"paired"}, val : Sessions, key : Phones \cup {None}]
       \cup [type : {"disconnect"}, val : Sessions, key : {None}]

(***************************************************************************)
(* wsSend drops what it cannot send (readyState # OPEN), and what is sent  *)
(* to a client whose end is already gone is lost.  k may be None: a send   *)
(* guarded by "if (cliSocket)".  A closing handshake starts only once.     *)
(***************************************************************************)
Post(d, k, ms) ==
  IF k \in Sockets /\ sock[k] = "open" /\ linked[k]
  THEN [d EXCEPT ![k] = @ \o ms]
  ELSE d

Shut(K) == [k \in Sockets |-> IF k \in K /\ sock[k] = "open" THEN "closing" ELSE sock[k]]

Goto(k, l, v) == /\ pc'  = [pc EXCEPT ![k] = l]
                 /\ loc' = [loc EXCEPT ![k] = v]
Done(k) == Goto(k, "idle", None)

\* Plausible bug: the refusal is logged, the client is not told.
RefuseSilently(k) == Done(k) /\ UNCHANGED <<sock, down>>

\* wsError(socket, error, true) as the end of a handler.
Refuse(k) == /\ down' = Post(down, k, <<Note("error"), Close>>)
             /\ sock' = Shut({k})
             /\ Done(k)

Consume(k) == up' = [up EXCEPT ![k] = NoMsg]

\* What a handler's query may not touch.
OnlyStore == UNCHANGED <<expired, memory, closing, sock, linked, down, clients, crashes>>

-----------------------------------------------------------------------------
\* cli_hello (cli-hello.ts): getState, validateCliSecret, then bind the socket

HelloGetState ==
  /\ up[Cli].type = "cli_hello" /\ pc[Cli] = "idle"
  /\ Consume(Cli)
  /\ IF Live(row, expired) THEN Goto(Cli, "hello_secret", row.state)
                           ELSE Goto(Cli, "reject", None)
  /\ OnlyStore /\ UNCHANGED <<row, sessions, claimants>>

HelloSecret ==
  /\ pc[Cli] = "hello_secret"
  /\ IF Live(row, expired) THEN Goto(Cli, "hello_bind", loc[Cli])
                           ELSE Goto(Cli, "reject", None)
  /\ OnlyStore /\ UNCHANGED <<row, sessions, claimants, up>>

\* The acknowledgement carries the state read two awaits ago; a socket that
\* closed in the meantime is bound all the same.
HelloBind ==
  /\ pc[Cli] = "hello_bind"
  /\ IF reg.cliByPairing # None
     THEN Refuse(Cli) /\ UNCHANGED reg
     ELSE /\ reg' = SetCliForPairing(reg, Cli)
          /\ down' = Post(down, Cli, <<Msg("cli_hello_ack", loc[Cli])>>)
          /\ Done(Cli)
          /\ UNCHANGED sock
  /\ UNCHANGED <<store, keys, pushed, closing, linked, up, clients, history>>

\* The error branches of cli_hello, phone_claim and code_submit.
Reject(k) ==
  /\ pc[k] = "reject"
  /\ Refuse(k)
  /\ UNCHANGED <<store, memory, closing, linked, up, clients, history>>

-----------------------------------------------------------------------------
\* phone_claim (phone-claim.ts, server.ts onPhoneClaim)

ClaimGetState(p) ==
  /\ up[p].type = "phone_claim" /\ pc[p] = "idle"
  /\ Consume(p)
  /\ Goto(p, IF Live(row, expired) /\ row.state # "claimed" THEN "claim_select"
                                                            ELSE "reject", None)
  /\ OnlyStore /\ UNCHANGED <<row, sessions, claimants>>

ClaimSelect(p) ==
  /\ pc[p] = "claim_select"
  /\ Goto(p, IF Live(row, expired) /\ row.state = "pending" THEN "claim_update"
                                                            ELSE "reject", None)
  /\ OnlyStore /\ UNCHANGED <<row, sessions, claimants, up>>

ClaimUpdate(p) ==
  /\ pc[p] = "claim_update"
  /\ IF ClaimSucceeds(row)
     THEN /\ row' = ClaimedRow(row)
          /\ claimants' = claimants \cup {p}
          /\ Goto(p, "claim_bind", None)
     ELSE Goto(p, "reject", None) /\ UNCHANGED <<row, claimants>>
  /\ OnlyStore /\ UNCHANGED <<sessions, up>>

(***************************************************************************)
(* pushCodeIfReady up to its await of setCode: it goes on only when no code*)
(* was pushed, the phone's key is known and its socket is registered; the  *)
(* code is drawn there.  r and key are the registry and the key map as the *)
(* caller leaves them.                                                     *)
(***************************************************************************)
\* Plausible bug: the check of phonePublicKeys is dropped.
PushWithoutKey(k, r, key) ==
  IF ~pushed /\ r.phoneByPairing # None
  THEN \E c \in Codes : Goto(k, "push_code", c)
  ELSE Done(k)

PushCodeIfReady(k, r, key) ==
  IF ~pushed /\ key # None /\ r.phoneByPairing # None
  THEN \E c \in Codes : Goto(k, "push_code", c)
  ELSE Done(k)

\* The CLI is told only if its socket is registered by now.
ClaimBind(p) ==
  /\ pc[p] = "claim_bind"
  /\ IF reg.phoneByPairing # None
     THEN Refuse(p) /\ UNCHANGED reg
     ELSE /\ reg' = SetPhoneForPairing(reg, p)
          /\ down' = Post(Post(down, p, <<Note("phone_claim_ack")>>),
                          reg.cliByPairing, <<Note("phone_claimed")>>)
          /\ PushCodeIfReady(p, reg', keys)
          /\ UNCHANGED sock
  /\ UNCHANGED <<store, keys, pushed, closing, linked, up, clients, history>>

-----------------------------------------------------------------------------
\* public_key (server.ts onPublicKey) and generateAndPushCode (code-verify.ts)

PublicKey(p) ==
  /\ up[p].type = "public_key" /\ pc[p] = "idle"
  /\ Consume(p)
  /\ keys' = p
  /\ PushCodeIfReady(p, reg, p)
  /\ UNCHANGED <<store, reg, pushed, closing, sock, linked, down, clients, history>>

PushSetCode(p) ==
  /\ pc[p] = "push_code"
  /\ IF SetCodeSucceeds(row, expired)
     THEN row' = WithCode(row, loc[p]) /\ Goto(p, "push_send", loc[p])
     ELSE Done(p) /\ UNCHANGED row
  /\ OnlyStore /\ UNCHANGED <<sessions, claimants, up>>

\* The socket is looked up again: it may have gone during the query.
PushSend(p) ==
  /\ pc[p] = "push_send"
  /\ down' = Post(down, reg.phoneByPairing, <<Msg("code_challenge", loc[p])>>)
  /\ pushed' = (pushed \/ reg.phoneByPairing # None)
  /\ Done(p)
  /\ UNCHANGED <<store, reg, keys, closing, sock, linked, up, clients, history>>

-----------------------------------------------------------------------------
\* code_submit (code-verify.ts handleCodeSubmit, pairing-store.ts validateCode)

SubmitSelect ==
  /\ up[Cli].type = "code_submit" /\ pc[Cli] = "idle"
  /\ Consume(Cli)
  /\ LET verdict == Verdict(row, expired, up[Cli].val)
     IN  Goto(Cli, CASE verdict = "expired" -> "reject"
                     [] verdict = "locked"  -> "locked_destroy"
                     [] verdict = "valid"   -> "attempt_valid"
                     [] verdict = "invalid" -> "attempt_invalid", None)
  /\ OnlyStore /\ UNCHANGED <<row, sessions, claimants>>

\* Plausible bug: answer first, read the remaining attempts for the log after.
AnswerThenRead ==
  /\ pc[Cli] \in {"attempt_valid", "attempt_invalid"}
  /\ row' = WithAttempt(row)
  /\ Goto(Cli, IF pc[Cli] = "attempt_valid" THEN "valid" ELSE "remaining", None)
  /\ down' = IF pc[Cli] = "attempt_valid" THEN down
             ELSE Post(down, Cli, <<Note("code_invalid")>>)
  /\ UNCHANGED <<expired, sessions, memory, closing, sock, linked, up, clients, history>>

SubmitAttempt ==
  /\ pc[Cli] \in {"attempt_valid", "attempt_invalid"}
  /\ row' = WithAttempt(row)
  /\ Goto(Cli, IF pc[Cli] = "attempt_valid" THEN "valid" ELSE "remaining", None)
  /\ OnlyStore /\ UNCHANGED <<sessions, claimants, up>>

\* "invalid": the query of getRemainingAttempts changes nothing.
SubmitInvalid ==
  /\ pc[Cli] = "remaining"
  /\ down' = Post(down, Cli, <<Note("code_invalid")>>)
  /\ Done(Cli)
  /\ UNCHANGED <<store, memory, closing, sock, linked, up, clients, history>>

LockedDestroy ==
  /\ pc[Cli] = "locked_destroy"
  /\ row' = NoRow
  /\ Goto(Cli, "locked_send", None)
  /\ OnlyStore /\ UNCHANGED <<sessions, claimants, up>>

LockedSend ==
  /\ pc[Cli] = "locked_send"
  /\ down' = Post(Post(down, Cli, <<Note("code_locked"), Close>>),
                  reg.phoneByPairing, <<Note("code_locked"), Close>>)
  /\ sock' = Shut({Cli, reg.phoneByPairing})
  /\ Done(Cli)
  /\ UNCHANGED <<store, memory, closing, linked, up, clients, history>>

\* "valid": tell both sides, then onCodeValid.  Without the phone's key that would
\* throw missing_phone_public_key and take the process down (Crash); KeyBeforeCode
\* is that it never comes to it.
SubmitValid ==
  /\ pc[Cli] = "valid" /\ keys # None
  /\ down' = Post(Post(down, Cli, <<Note("code_valid")>>),
                  reg.phoneByPairing, <<Note("code_valid")>>)
  /\ Goto(Cli, "commit", keys)
  /\ UNCHANGED <<store, memory, closing, sock, linked, up, clients, history>>

-----------------------------------------------------------------------------
\* completePairing (pairing-complete.ts)

\* The transaction: device, session and first audit row, all or nothing.
Commit(s) ==
  /\ pc[Cli] = "commit" /\ sessions[s].status = "unused"
  /\ sessions' = [sessions EXCEPT ![s] = [status |-> "active", key |-> loc[Cli]]]
  /\ Goto(Cli, "promote", s)
  /\ OnlyStore /\ UNCHANGED <<row, claimants, up>>

\* Plausible bug: promote first, then look the sockets up by pairing.
PromoteThenTell ==
  /\ pc[Cli] = "promote"
  /\ reg' = PromoteToSession(reg, loc[Cli])
  /\ down' = Post(Post(down, reg'.cliByPairing,
                       <<Paired(loc[Cli], sessions[loc[Cli]].key)>>),
                  reg'.phoneByPairing, <<Msg("paired", loc[Cli])>>)
  /\ Goto(Cli, "destroy", None)
  /\ UNCHANGED <<store, keys, pushed, closing, sock, linked, up, clients, history>>

\* The key sent to the CLI is the one just inserted with the session.
Promote ==
  /\ pc[Cli] = "promote"
  /\ down' = Post(Post(down, reg.cliByPairing,
                       <<Paired(loc[Cli], sessions[loc[Cli]].key)>>),
                  reg.phoneByPairing, <<Msg("paired", loc[Cli])>>)
  /\ reg' = PromoteToSession(reg, loc[Cli])
  /\ Goto(Cli, "destroy", None)
  /\ UNCHANGED <<store, keys, pushed, closing, sock, linked, up, clients, history>>

Destroy ==
  /\ pc[Cli] = "destroy"
  /\ row' = NoRow
  /\ Goto(Cli, "forget", None)
  /\ OnlyStore /\ UNCHANGED <<sessions, claimants, up>>

Forget ==
  /\ pc[Cli] = "forget"
  /\ keys' = None /\ pushed' = FALSE
  /\ Done(Cli)
  /\ UNCHANGED <<store, reg, closing, net, clients, history>>

-----------------------------------------------------------------------------
\* The close event (disconnect.ts handleSocketClose) and endSession.  The
\* audit row that endSession writes between its UPDATE and its notification
\* touches nothing of this module and is left out.

NotClosing == [step |-> "idle", session |-> None]

SocketClose(k) ==
  /\ sock[k] \in {"open", "closing"} /\ ~linked[k] /\ up[k] = NoMsg
  /\ sock' = [sock EXCEPT ![k] = "closed"]
  /\ reg' = RemoveBySocket(reg, k)
  /\ closing' = [closing EXCEPT ![k] =
        IF SessionOf(reg, k) = None THEN NotClosing
        ELSE [step |-> "update", session |-> SessionOf(reg, k)]]
  /\ UNCHANGED <<store, keys, pushed, pc, loc, linked, up, down, clients, history>>

EndUpdate(k) ==
  /\ closing[k].step = "update"
  /\ LET s == closing[k].session
     IN  IF sessions[s].status = "active"
         THEN /\ sessions' = [sessions EXCEPT ![s].status = "ended"]
              /\ closing' = [closing EXCEPT ![k].step = "notify"]
         ELSE /\ closing' = [closing EXCEPT ![k] = NotClosing]
              /\ UNCHANGED sessions
  /\ UNCHANGED <<row, expired, memory, pc, loc, net, clients, history>>

\* Plausible bug: removeSession deletes the entries and forgets the sockets.
LeavesSocketsOpen(k) ==
  /\ closing[k].step = "notify"
  /\ LET s == closing[k].session
         other == IF k = Cli THEN reg.phoneBySession[s] ELSE reg.cliBySession[s]
     IN  /\ down' = Post(down, other, <<Msg("disconnect", s)>>)
         /\ reg' = RemoveSession(reg, s)
  /\ closing' = [closing EXCEPT ![k] = NotClosing]
  /\ UNCHANGED <<store, keys, pushed, pc, loc, sock, linked, up, clients, history>>

\* The other side is told, both sockets still registered are closed.
EndNotify(k) ==
  /\ closing[k].step = "notify"
  /\ LET s == closing[k].session
         other == IF k = Cli THEN reg.phoneBySession[s] ELSE reg.cliBySession[s]
         mine  == IF k = Cli THEN reg.cliBySession[s] ELSE reg.phoneBySession[s]
     IN  /\ down' = Post(Post(down, other, <<Msg("disconnect", s), Close>>),
                         mine, <<Close>>)
         /\ sock' = Shut(SocketsOf(reg, s))
         /\ reg' = RemoveSession(reg, s)
  /\ closing' = [closing EXCEPT ![k] = NotClosing]
  /\ UNCHANGED <<store, keys, pushed, pc, loc, linked, up, clients, history>>

-----------------------------------------------------------------------------
(***************************************************************************)
(* The backend process dies, with everything it keeps in memory: it is     *)
(* stopped, or a handler rejects (a failed query, above all the            *)
(* transaction of completePairing, which rolls back and rethrows; or       *)
(* missing_phone_public_key) and, as nothing catches the rejection, Node   *)
(* exits.  Clients see their sockets close.                                *)
(***************************************************************************)
Crash ==
  /\ crashes < MaxCrashes
  /\ crashes' = crashes + 1
  /\ reg' = NewRegistry /\ keys' = None /\ pushed' = FALSE
  /\ pc'  = [k \in Sockets |-> "idle"]
  /\ loc' = [k \in Sockets |-> None]
  /\ closing' = [k \in Sockets |-> NotClosing]
  /\ down' = [k \in Sockets |-> IF sock[k] = "open" /\ linked[k]
                                THEN Append(down[k], Close) ELSE down[k]]
  /\ sock' = [k \in Sockets |-> IF sock[k] = "none" THEN "none" ELSE "closed"]
  /\ up'   = [k \in Sockets |-> NoMsg]
  /\ UNCHANGED <<store, linked, clients, claimants>>

\* Two minutes have passed since POST /api/pair/init.
Expire ==
  /\ ~expired /\ expired' = TRUE
  /\ UNCHANGED <<row, sessions, memory, frames, net, clients, history>>

=============================================================================
