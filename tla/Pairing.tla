------------------------------- MODULE Pairing -------------------------------
(***************************************************************************)
(* One pairing, from the row that POST /api/pair/init creates to the       *)
(* control session it becomes: the backend of PairingBackend together with *)
(* the CLI's 'connect' command (cli/src/connect.ts, cli/src/index.ts) and  *)
(* the pages of the phones that open the link (phone-app/src/App.tsx,      *)
(* ClaimPage.tsx, CodePage.tsx, ConnectedPage.tsx).                        *)
(*                                                                         *)
(* The clients are the program's own; what goes wrong is what the network, *)
(* the users and the clock do: a socket lost, or a page or process closed, *)
(* at any moment, a second phone that opens the link, a mistyped code, the *)
(* 120 seconds running out, the backend process dying.                     *)
(***************************************************************************)
EXTENDS PairingBackend

Phases == {"init",           \* the QR code is on screen, the socket not yet open
           "connecting",     \* cli_hello sent, no message listener attached yet
           "waiting_phone", "entering_code", "waiting_paired",
           "starting",       \* paired; the control-phase listener not attached yet
           "connected",      \* startControlPhase ran
           "gone"}           \* the process has exited

Pages == {"scan",       \* the link is not opened yet
          "claiming", "keygen", "waiting",   \* ClaimPage
          "code",
          "starting",       \* ConnectedPage is to be shown: nothing listens to the socket
          "connected", "disconnected", "failed"}

CliStates   == [phase : Phases, session : Sessions \cup {None},
                key : Phones \cup {None}, tries : Nat]
PhoneStates == [page : Pages, code : Codes \cup {NoCode},
                session : Sessions \cup {None}]

\* In these phases the listeners of index.ts reject the pairing, and the
\* process exits, when the socket closes or an error arrives.
CliPairing == {"waiting_phone", "entering_code", "waiting_paired"}

Init ==
  /\ row = CreatedRow /\ expired = FALSE
  /\ sessions = [s \in Sessions |-> [status |-> "unused", key |-> None]]
  /\ reg = NewRegistry /\ keys = None /\ pushed = FALSE
  /\ pc = [k \in Sockets |-> "idle"] /\ loc = [k \in Sockets |-> None]
  /\ closing = [k \in Sockets |-> NotClosing]
  /\ sock = [k \in Sockets |-> "none"] /\ linked = [k \in Sockets |-> FALSE]
  /\ up = [k \in Sockets |-> NoMsg] /\ down = [k \in Sockets |-> << >>]
  /\ cli = [phase |-> "init", session |-> None, key |-> None, tries |-> 0]
  /\ phone = [p \in Phones |-> [page |-> "scan", code |-> NoCode, session |-> None]]
  /\ claimants = {} /\ crashes = 0

-----------------------------------------------------------------------------
\* A client's end of its connection

Opens(k, m) == /\ sock' = [sock EXCEPT ![k] = "open"]
               /\ linked' = [linked EXCEPT ![k] = TRUE]
               /\ up' = [up EXCEPT ![k] = m]
               /\ UNCHANGED down

\* What is sent to a backend that has died is lost.
Sends(k, m) == up' = IF sock[k] = "closed" THEN up ELSE [up EXCEPT ![k] = m]

\* The client's end closes in an orderly way: what it sent still arrives,
\* what it has not read is dropped.
Unlinks(k) == /\ linked' = [linked EXCEPT ![k] = FALSE]
              /\ down' = [down EXCEPT ![k] = << >>]
              /\ UNCHANGED <<sock, up>>

\* The connection breaks: what is under way may be lost in both directions.
Breaks(k) == /\ linked' = [linked EXCEPT ![k] = FALSE]
             /\ down' = [down EXCEPT ![k] = << >>]
             /\ up' \in {up, [up EXCEPT ![k] = NoMsg]}
             /\ UNCHANGED sock

Reads(k) == /\ down' = [down EXCEPT ![k] = Tail(@)]
            /\ UNCHANGED <<sock, linked, up>>

Arrives(k, t) == linked[k] /\ down[k] # << >> /\ Head(down[k]).type = t

OnlyClients == UNCHANGED <<store, memory, frames, history>>

-----------------------------------------------------------------------------
\* The CLI

\* executeConnect: the socket opens after the QR code was printed.
CliConnect ==
  /\ cli.phase = "init"
  /\ cli' = [cli EXCEPT !.phase = "connecting"]
  /\ Opens(Cli, Note("cli_hello"))
  /\ OnlyClients /\ UNCHANGED phone

\* index.ts attaches its listeners after "await import" of readline.
CliListen ==
  /\ cli.phase = "connecting"
  /\ cli' = [cli EXCEPT !.phase = "waiting_phone"]
  /\ OnlyClients /\ UNCHANGED <<phone, net>>

\* The user types six digits.
CliSubmit(c) ==
  /\ cli.phase = "entering_code"
  /\ cli' = [cli EXCEPT !.phase = "waiting_paired", !.tries = @ + 1]
  /\ Sends(Cli, Msg("code_submit", c))
  /\ OnlyClients /\ UNCHANGED <<phone, sock, linked, down>>

\* The modules of the control phase are imported, its listener is attached.
CliStartControl ==
  /\ cli.phase = "starting"
  /\ cli' = [cli EXCEPT !.phase = "connected"]
  /\ OnlyClients /\ UNCHANGED <<phone, net>>

CliPhoneClaimed ==
  /\ Arrives(Cli, "phone_claimed") /\ cli.phase = "waiting_phone"
  /\ cli' = [cli EXCEPT !.phase = "entering_code"]
  /\ Reads(Cli)
  /\ OnlyClients /\ UNCHANGED phone

CliCodeInvalid ==
  /\ Arrives(Cli, "code_invalid") /\ cli.phase = "waiting_paired"
  /\ cli' = [cli EXCEPT !.phase = "entering_code"]
  /\ Reads(Cli)
  /\ OnlyClients /\ UNCHANGED phone

CliPaired ==
  /\ Arrives(Cli, "paired") /\ cli.phase \in CliPairing
  /\ cli' = [cli EXCEPT !.phase = "starting", !.session = Head(down[Cli]).val,
                        !.key = Head(down[Cli]).key]
  /\ Reads(Cli)
  /\ OnlyClients /\ UNCHANGED phone

\* code_locked, error and close end the process while it is pairing; in the
\* control phase only disconnect does.
CliGivesUp ==
  /\ \/ /\ cli.phase \in CliPairing
        /\ \E t \in {"code_locked", "error", "close"} : Arrives(Cli, t)
     \/ cli.phase = "connected" /\ Arrives(Cli, "disconnect")
  /\ cli' = [cli EXCEPT !.phase = "gone"]
  /\ Unlinks(Cli)
  /\ OnlyClients /\ UNCHANGED phone

\* The socket closes and nobody listens: the process lives on.
CliMissesClose ==
  /\ Arrives(Cli, "close") /\ cli.phase \in {"connecting", "starting", "connected"}
  /\ Unlinks(Cli)
  /\ OnlyClients /\ UNCHANGED clients

\* Every other message, in every other phase, is read and ignored.
CliHeeds(t) ==
  \/ t = "close"
  \/ t \in {"code_locked", "error", "paired"} /\ cli.phase \in CliPairing
  \/ t = "phone_claimed" /\ cli.phase = "waiting_phone"
  \/ t = "code_invalid" /\ cli.phase = "waiting_paired"
  \/ t = "disconnect" /\ cli.phase = "connected"

CliIgnores ==
  /\ linked[Cli] /\ down[Cli] # << >> /\ ~CliHeeds(Head(down[Cli]).type)
  /\ Reads(Cli)
  /\ OnlyClients /\ UNCHANGED clients

\* Ctrl+C, the 120-second timer, kill: at any time.
CliExit ==
  /\ cli.phase # "gone"
  /\ cli' = [cli EXCEPT !.phase = "gone"]
  /\ Breaks(Cli)
  /\ OnlyClients /\ UNCHANGED phone

CliLosesConnection ==
  /\ linked[Cli]
  /\ Breaks(Cli)
  /\ cli' = [cli EXCEPT !.phase = IF @ \in CliPairing THEN "gone" ELSE @]
  /\ OnlyClients /\ UNCHANGED phone

-----------------------------------------------------------------------------
\* A phone

ClaimPage == {"claiming", "keygen", "waiting"}

Turn(p, page) == phone' = [phone EXCEPT ![p].page = page]

PhoneOpens(p) ==
  /\ phone[p].page = "scan"
  /\ Turn(p, "claiming")
  /\ Opens(p, Note("phone_claim"))
  /\ OnlyClients /\ UNCHANGED cli

PhoneClaimed(p) ==
  /\ Arrives(p, "phone_claim_ack") /\ phone[p].page \in ClaimPage
  /\ Turn(p, "keygen")
  /\ Reads(p)
  /\ OnlyClients /\ UNCHANGED cli

\* generateKeypair is done: the public key goes out, a buffered code is shown.
PhoneSendsKey(p) ==
  /\ phone[p].page = "keygen"
  /\ Turn(p, IF phone[p].code = NoCode THEN "waiting" ELSE "code")
  /\ Sends(p, Note("public_key"))
  /\ OnlyClients /\ UNCHANGED <<cli, sock, linked, down>>

\* While the keys are generated the code is only buffered.
PhoneCode(p) ==
  /\ Arrives(p, "code_challenge") /\ phone[p].page \in ClaimPage \cup {"code"}
  /\ phone' = [phone EXCEPT ![p].code = Head(down[p]).val,
                            ![p].page = IF @ = "waiting" THEN "code" ELSE @]
  /\ Reads(p)
  /\ OnlyClients /\ UNCHANGED cli

PhonePaired(p) ==
  /\ Arrives(p, "paired") /\ phone[p].page \in ClaimPage \cup {"code"}
  /\ phone' = [phone EXCEPT ![p].page = "starting", ![p].session = Head(down[p]).val]
  /\ Reads(p)
  /\ OnlyClients /\ UNCHANGED cli

\* ConnectedPage's effect attaches its listeners, without a look at the socket.
PhoneListens(p) ==
  /\ phone[p].page = "starting" /\ Turn(p, "connected")
  /\ OnlyClients /\ UNCHANGED <<cli, net>>

\* What ends a page's session ends its socket, too.
PhoneEnds(p) ==
  /\ \/ /\ Arrives(p, "error") /\ phone[p].page \in ClaimPage
        /\ Turn(p, "failed")
     \/ /\ Arrives(p, "disconnect") /\ phone[p].page = "connected"
        /\ Turn(p, "disconnected")
     \/ /\ Arrives(p, "close")
        /\ Turn(p, CASE phone[p].page \in {"claiming", "keygen"} -> "failed"
                     [] phone[p].page = "connected" -> "disconnected"
                     [] OTHER -> phone[p].page)
  /\ Unlinks(p)
  /\ OnlyClients /\ UNCHANGED cli

\* CodePage shows "Session Locked" and leaves the socket to the backend.
PhoneLocked(p) ==
  /\ Arrives(p, "code_locked") /\ phone[p].page = "code"
  /\ Turn(p, "failed")
  /\ Reads(p)
  /\ OnlyClients /\ UNCHANGED cli

PhoneHeeds(p, t) ==
  \/ t = "close"
  \/ t \in {"phone_claim_ack", "error"} /\ phone[p].page \in ClaimPage
  \/ t \in {"code_challenge", "paired"} /\ phone[p].page \in ClaimPage \cup {"code"}
  \/ t = "code_locked" /\ phone[p].page = "code"
  \/ t = "disconnect" /\ phone[p].page = "connected"

PhoneIgnores(p) ==
  /\ linked[p] /\ down[p] # << >> /\ ~PhoneHeeds(p, Head(down[p]).type)
  /\ Reads(p)
  /\ OnlyClients /\ UNCHANGED clients

\* The page is closed or its connection lost, at any time.
PhoneLosesConnection(p) ==
  /\ linked[p]
  /\ Breaks(p)
  /\ Turn(p, CASE phone[p].page \in {"claiming", "keygen"} -> "failed"
               [] phone[p].page = "connected" -> "disconnected"
               [] OTHER -> phone[p].page)
  /\ OnlyClients /\ UNCHANGED cli

-----------------------------------------------------------------------------
\* The steps, by who takes them

CliHandler == \/ HelloGetState \/ HelloSecret \/ HelloBind \/ Reject(Cli)
              \/ SubmitSelect \/ SubmitAttempt \/ SubmitInvalid
              \/ LockedDestroy \/ LockedSend
              \/ SubmitValid \/ (\E s \in Sessions : Commit(s))
              \/ Promote \/ Destroy \/ Forget

PhoneHandler(p) == \/ ClaimGetState(p) \/ ClaimSelect(p) \/ ClaimUpdate(p)
                   \/ ClaimBind(p) \/ Reject(p)
                   \/ PublicKey(p) \/ PushSetCode(p) \/ PushSend(p)

CloseHandler(k) == SocketClose(k) \/ EndUpdate(k) \/ EndNotify(k)

CliReacts == \/ CliListen \/ CliPhoneClaimed \/ CliCodeInvalid \/ CliPaired
             \/ CliStartControl \/ CliGivesUp \/ CliMissesClose \/ CliIgnores

PhoneReacts(p) == \/ PhoneClaimed(p) \/ PhoneSendsKey(p) \/ PhoneCode(p)
                  \/ PhonePaired(p) \/ PhoneListens(p) \/ PhoneEnds(p)
                  \/ PhoneLocked(p) \/ PhoneIgnores(p)

Users == \/ CliConnect \/ (\E c \in Codes : CliSubmit(c))
         \/ \E p \in Phones : PhoneOpens(p)

Faults == \/ CliExit \/ CliLosesConnection
          \/ \E p \in Phones : PhoneLosesConnection(p)
          \/ Crash \/ Expire

Next == \/ CliHandler \/ CliReacts
        \/ \E p \in Phones : PhoneHandler(p) \/ PhoneReacts(p)
        \/ \E k \in Sockets : CloseHandler(k)
        \/ Users \/ Faults

Spec == Init /\ [][Next]_vars

(***************************************************************************)
(* Fairness.  Postgres answers, and the event loop runs the continuation of*)
(* every answered await and the listener of every message that arrived and *)
(* of every closed socket; a client's event loop does the same.  Nothing is*)
(* assumed of the users, of the clock and of the faults.                   *)
(***************************************************************************)
Fairness == /\ WF_vars(CliHandler) /\ WF_vars(CliReacts)
            /\ \A p \in Phones : WF_vars(PhoneHandler(p)) /\ WF_vars(PhoneReacts(p))
            /\ \A k \in Sockets : WF_vars(CloseHandler(k))

FairSpec == Spec /\ Fairness

-----------------------------------------------------------------------------
\* Safety

CliSteps == {"hello_secret", "hello_bind", "attempt_valid", "attempt_invalid",
             "valid", "remaining", "locked_destroy", "locked_send", "commit",
             "promote", "destroy", "forget"}
PhoneSteps == {"claim_select", "claim_update", "claim_bind", "push_code", "push_send"}

\* A frame stands at an await of its client's handlers and keeps what is used after it.
FrameFits(k, step, local) ==
  /\ step \in {"idle", "reject"} \cup (IF k = Cli THEN CliSteps ELSE PhoneSteps)
  /\ step \in {"hello_secret", "hello_bind"} => local \in {"pending", "claimed"}
  /\ step = "commit" => local \in Phones
  /\ step = "promote" => local \in Sessions
  /\ step \in {"push_code", "push_send"} => local \in Codes

Sessionlike == [status : {"unused", "active", "ended"}, key : Phones \cup {None}]

StoreOK   == /\ row \in Rows /\ expired \in BOOLEAN
             /\ sessions \in [Sessions -> Sessionlike]
MemoryOK  == reg \in Registries /\ keys \in Phones \cup {None} /\ pushed \in BOOLEAN
FramesOK  == /\ pc \in [Sockets -> {"idle", "reject"} \cup CliSteps \cup PhoneSteps]
             /\ loc \in [Sockets -> Values]
             /\ \A k \in Sockets : FrameFits(k, pc[k], loc[k])
             /\ closing \in [Sockets -> {NotClosing} \cup [step : {"update", "notify"},
                                                           session : Sessions]]
NetOK     == /\ sock \in [Sockets -> {"none", "open", "closing", "closed"}]
             /\ linked \in [Sockets -> BOOLEAN]
             /\ up \in [Sockets -> UpMsgs] /\ down \in [Sockets -> Seq(DownMsgs)]
ClientsOK == cli \in CliStates /\ phone \in [Phones -> PhoneStates]
HistoryOK == claimants \subseteq Phones /\ crashes \in 0..MaxCrashes

TypeOK == StoreOK /\ MemoryOK /\ FramesOK /\ NetOK /\ ClientsOK /\ HistoryOK

(***************************************************************************)
(* The comment of phone-claim.ts:9, "only the FIRST phone to claim succeeds*)
(* - prevents race conditions", although claim() is a SELECT and an UPDATE *)
(* with an await between them: one phone at most is told that it claimed,  *)
(* is registered, has its key kept and gets a session.                     *)
(***************************************************************************)
Admitted(p) ==
  \/ phone[p].page \in {"keygen", "waiting", "code", "starting", "connected"}
  \/ \E i \in 1..Len(down[p]) : down[p][i].type = "phone_claim_ack"
  \/ reg.phoneByPairing = p \/ keys = p
  \/ \E s \in Sessions : reg.phoneBySession[s] = p \/ sessions[s].key = p

SingleClaim == /\ \A p, q \in claimants : p = q
               /\ \A p \in Phones : Admitted(p) => p \in claimants

(***************************************************************************)
(* server.ts:161-163: the code is issued only once the phone's public key  *)
(* is registered, which "guarantees a valid key exists before code_submit  *)
(* can complete pairing": onCodeValid never throws                         *)
(* missing_phone_public_key (nothing would catch it), and a phone that is  *)
(* still generating its keys never has to buffer a code.                   *)
(***************************************************************************)
KeyBeforeCode ==
  /\ pc[Cli] \in {"attempt_valid", "valid"} => keys # None
  /\ \A p \in Phones : phone[p].page \in {"claiming", "keygen"} => phone[p].code = NoCode

(***************************************************************************)
(* The two ends agree on what they were paired into: the CLI verifies with *)
(* the key of the very phone that holds the same session, which is the key *)
(* the devices table has for it and the phone that claimed the link.       *)
(***************************************************************************)
SessionAgreement ==
  /\ cli.session # None =>
       /\ cli.key \in claimants
       /\ sessions[cli.session].key = cli.key
  /\ \A p \in Phones : phone[p].session # None =>
       /\ sessions[phone[p].session].key = p
       /\ cli.session # None => cli.session = phone[p].session /\ cli.key = p

(***************************************************************************)
(* The lockout of validateCode bounds what the user at the CLI may try,    *)
(* although setCode resets the counter: the submission after MaxAttempts   *)
(* ones is the last, and it does not pair.                                 *)
(***************************************************************************)
GuessesBounded ==
  /\ cli.tries <= MaxAttempts + 1
  /\ cli.tries > MaxAttempts => \A s \in Sessions : sessions[s].status = "unused"

(***************************************************************************)
(* A socket has one message under way or one handler at work, never both:  *)
(* every answer is the last thing a handler does to what it read.  (It is  *)
(* what lets pc have one frame per socket.)                                *)
(***************************************************************************)
OneRequestAtATime == \A k \in Sockets : up[k] # NoMsg => pc[k] = "idle"

(***************************************************************************)
(* removeBySocket removes the first entry it finds (handler.ts:125-153), so*)
(* a socket must never be in two of the four maps: the close of a socket   *)
(* still in the pairing map would leave its session running.               *)
(***************************************************************************)
RegisteredOnce ==
  \A k \in Sockets :
    Cardinality({m \in {"cliByPairing", "phoneByPairing"} : reg[m] = k})
      + Cardinality(CliSessions(reg, k)) + Cardinality(PhoneSessions(reg, k)) <= 1

(***************************************************************************)
(* When endSession is through, no end of the session is left open: the     *)
(* sockets of the CLI and of the session's phone are closed or closing.    *)
(***************************************************************************)
Ending(s) == \E k \in Sockets : closing[k].step # "idle" /\ closing[k].session = s

EndedMeansClosed ==
  \A s \in Sessions : sessions[s].status = "ended" /\ ~Ending(s) =>
    sock[Cli] # "open" /\ sock[sessions[s].key] # "open"

-----------------------------------------------------------------------------
\* The detailed pairing keeps the contract

Contract == INSTANCE PairingContract WITH
  owner   <- IF claimants = {} THEN None ELSE CHOOSE p \in claimants : TRUE,
  void    <- row.state = "absent",
  granted <- sessions

\* Every step of clients, handlers and faults is a step of the contract.
KeepsContract == Contract!Spec

-----------------------------------------------------------------------------
\* Liveness

\* A submitted code is always answered, by a verdict, by 'paired' or by the
\* end of the connection: the CLI does not hang in waiting_paired.
SubmissionAnswered == (cli.phase = "waiting_paired") ~> (cli.phase # "waiting_paired")

\* A page that claims the link is always answered, too.
ClaimAnswered ==
  \A p \in Phones : (phone[p].page = "claiming") ~> (phone[p].page # "claiming")

\* disconnect.ts:158-162: a session whose registered CLI socket goes away
\* without a message ends, unless the backend dies with its registry.
CloseEndsSession ==
  \A s \in Sessions :
    (reg.cliBySession[s] = Cli /\ ~linked[Cli]) ~>
      (sessions[s].status = "ended" \/ crashes > 0)

-----------------------------------------------------------------------------
\* What the repository says and the code does not do (see the findings)

\* cli-hello.ts:72: the acknowledgement "tells CLI if phone already claimed":
\* a CLI that has read everything prompts for the code of a claimed pairing.
CliLearnsOfClaim ==
  (/\ row.state = "claimed" /\ reg.cliByPairing = Cli /\ linked[Cli]
   /\ down[Cli] = << >> /\ \A k \in Sockets : pc[k] = "idle")
  => cli.phase # "waiting_phone"

\* disconnect.ts:16: "there is no code path where a control session outlives its
\* owning CLI process": once the backend has dealt with the close, it is over.
NoSessionOutlivesCli ==
  (/\ cli.phase = "gone" /\ crashes = 0
   /\ sock[Cli] = "closed" /\ pc[Cli] = "idle" /\ closing[Cli].step = "idle")
  => \A s \in Sessions : sessions[s].status # "active"
=============================================================================
