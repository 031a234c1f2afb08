-------------------------- MODULE PairingCodeProofs ---------------------------
(***************************************************************************)
(* What a pairing is for, for every set of phones, sessions and codes and  *)
(* every MaxAttempts and MaxCrashes: no code is compared without a key     *)
(* (THEOREM KeyAlwaysBeforeCode), both ends agree on one session (THEOREM  *)
(* AlwaysAgreed), the lockout bounds the guesses (THEOREM                  *)
(* GuessesAlwaysBounded), and the pairing keeps its contract (THEOREM      *)
(* PairingContractKept).                                                   *)
(*                                                                         *)
(* Each has an inductive invariant of its own, which takes those before it *)
(* for granted: CodeInv, that no code is set twice and none is compared    *)
(* while one is to be set, so that setCode's reset of the counter falls    *)
(* before the first attempt; GrantInv, that the transaction that stores a  *)
(* session leaves nobody who could cause a second one; GuessInv, that the  *)
(* counter of the row follows the CLI's.                                   *)
(***************************************************************************)
EXTENDS PairingTurnProofs

-----------------------------------------------------------------------------
\* The inductive invariants

\* The backend may still hear a code of the CLI's, or hears one.
Speaks == \/ SubmitPending
          \/ /\ sock[Cli] \in {"open", "closing"}
             /\ \/ cli.phase \in {"entering_code", "waiting_paired"}
                \/ Says(down[Cli], "phone_claimed")

\* The phone's code is still to be set.
Uncoded(p) == \/ pc[p] \in {"claim_bind", "push_code"} \/ up[p].type = "public_key"
              \/ Says(down[p], "phone_claim_ack") \/ phone[p].page = "keygen"

\* The code belongs to a claimed link whose phone's key is kept, for as long as the CLI may
\* submit one.
CodeInv ==
  /\ row.code # NoCode => row.state = "claimed"
  /\ \A p \in Phones : Uncoded(p) => row.code = NoCode /\ pc[Cli] \notin SubmitSteps
  /\ pc[Cli] \in SubmitSteps \ {"locked_send", "forget"} => row.code # NoCode
  /\ pc[Cli] \in {"locked_send", "forget"} => row.state = "absent"
  /\ \A p \in Phones : pc[p] = "push_code" => keys # None
  /\ row.code # NoCode /\ Speaks => keys # None

\* completePairing's transaction has stored the session.
Granted(s) == sessions[s].status # "unused"

\* The CLI has not submitted a code yet, or may submit another.
Early == {"init", "connecting", "waiting_phone", "entering_code"}

\* One session at most is granted, to the claimant; when it is, the CLI has nothing to ask for
\* any more; and whatever names it names the same phone.
GrantInv ==
  /\ \A s \in Sessions : Granted(s) => sessions[s].key \in claimants
  /\ \A s, t \in Sessions : Granted(s) /\ Granted(t) => s = t
  /\ pc[Cli] = "promote" => Granted(loc[Cli])
  /\ \A s \in Sessions : Granted(s) =>
       /\ cli.phase \notin Early /\ ~HelloPending
       /\ ~Says(down[Cli], "code_invalid")
       /\ pc[Cli] \in {"promote", "destroy"} \/ row.state = "absent" \/ ~Speaks
  /\ \A m \in Range(down[Cli]) : m.type = "paired" =>
       Granted(m.val) /\ sessions[m.val].key = m.key
  /\ \A p \in Phones : \A m \in Range(down[p]) : m.type = "paired" =>
       sessions[m.val].key = p
  /\ cli.session # None => Granted(cli.session) /\ sessions[cli.session].key = cli.key
  /\ \A p \in Phones : phone[p].session # None => sessions[phone[p].session].key = p
  /\ \A s \in Sessions : ~Granted(s) => sessions[s].key = None

\* row.attempts counts the CLI's attempts, but for the one that is under way.
GuessInv ==
  /\ row.code = NoCode => row.attempts = 0
  /\ cli.phase \in {"init", "connecting", "waiting_phone"} => cli.tries = 0 /\ row.attempts = 0
  /\ (\/ cli.phase = "entering_code" \/ Says(down[Cli], "code_invalid")
      \/ pc[Cli] \in {"valid", "remaining", "commit", "promote", "destroy"}) =>
       cli.tries = row.attempts /\ row.attempts <= MaxAttempts
  /\ up[Cli].type = "code_submit" \/ pc[Cli] \in {"attempt_valid", "attempt_invalid"} =>
       cli.tries = row.attempts + 1
  /\ pc[Cli] \in {"attempt_valid", "attempt_invalid"} => row.attempts < MaxAttempts
  /\ cli.tries <= MaxAttempts + 1
  /\ \A s \in Sessions : Granted(s) => cli.tries <= MaxAttempts

-----------------------------------------------------------------------------
\* What a step may begin

\* The CLI's steps, and a phone page's.
CliActs == \/ CliReacts \/ CliConnect \/ (\E c \in Codes : CliSubmit(c))
           \/ CliExit \/ CliLosesConnection
PageActs(p) == PhoneReacts(p) \/ PhoneOpens(p) \/ PhoneLosesConnection(p)

\* Who takes a step.
LEMMA WhoSteps ==
  ASSUME [Next]_vars
  PROVE  \/ CliHandler
         \/ \E p \in Phones : PhoneHandler(p)
         \/ \E k \in Sockets : CloseHandler(k)
         \/ CliActs
         \/ \E p \in Phones : PageActs(p)
         \/ Crash
         \/ UNCHANGED <<row, sessions, reg, keys, pc, loc, closing, sock, linked, up, down, cli,
                        phone, claimants>>
  BY DEF Next, Users, Faults, CliActs, PageActs, Expire, vars, store, memory, frames, net, clients,
     history

\* The pages that lead to a phone's key, and where its code comes from.
LEMMA UncodedStep ==
  ASSUME TypeOK, TurnInv, [Next]_vars, NEW p \in Phones, Uncoded(p)'
  PROVE  Uncoded(p) \/ (ClaimUpdate(p) /\ ClaimSucceeds(row))
<1>0. /\ p \in Sockets /\ p # Cli
      /\ pc \in [Sockets -> {"idle", "reject"} \cup CliSteps \cup PhoneSteps]
      /\ phone \in [Phones -> PhoneStates] /\ NetOK
      /\ up \in [Sockets -> UpMsgs] /\ sock \in [Sockets -> {"none", "open", "closing", "closed"}]
  BY SocketFacts DEF TypeOK, FramesOK, NetOK, ClientsOK
<1>1. CASE CliHandler
  <2>1. phone' = phone /\ pc'[p] = pc[p] /\ up'[p] = up[p]
    BY <1>1, CliHandlerFrame
  <2>2. Says(down'[p], "phone_claim_ack") => Says(down[p], "phone_claim_ack")
    <3>1. CASE Promote
      BY <1>0, <3>1, PromoteNews, HeardMeans
    <3>2. CASE pc[Cli] # "promote"
      BY <1>1, <3>2, CliHandlerNews, HeardMeans
    <3>3. QED
      <4>1. pc[Cli] = "promote" => Promote
        BY <1>1 DEF CliHandler, HelloGetState, HelloSecret, HelloBind, Reject, SubmitSelect,
           SubmitAttempt, SubmitInvalid, LockedDestroy, LockedSend, SubmitValid, Commit, Destroy,
           Forget
      <4>2. QED
        BY <3>1, <3>2, <4>1
  <2>3. QED
    BY <2>1, <2>2 DEF Uncoded
<1>2. ASSUME NEW q \in Phones, PhoneHandler(q)
      PROVE  Uncoded(p) \/ (ClaimUpdate(p) /\ ClaimSucceeds(row))
  <2>1. /\ phone' = phone /\ up'[p] \in {up[p], NoMsg} /\ p \in Sockets
        /\ q # p => pc'[p] = pc[p]
    BY <1>0, <1>2, PhoneHandlerFrame
  <2>2. Says(down'[p], "phone_claim_ack") =>
          Says(down[p], "phone_claim_ack") \/ (pc[q] = "claim_bind" /\ p = q)
    <3>1. CASE pc[q] \notin {"claim_bind", "push_send"}
      BY <1>2, <3>1, PhoneHandlerNews, HeardMeans
    <3>2. CASE pc[q] = "claim_bind"
      BY <1>2, <3>2, PhoneHandlerNews, HeardMeans
    <3>3. CASE pc[q] = "push_send"
      BY <1>2, <3>3, PhoneHandlerNews, HeardMeans
    <3>4. QED
      BY <3>1, <3>2, <3>3
  <2>3. CASE q # p
    BY <2>1, <2>2, <2>3, UpKinds DEF Uncoded
  <2>4. CASE q = p
    <3>1. pc'[p] \in {"claim_bind", "push_code"} =>
            Uncoded(p) \/ (ClaimUpdate(p) /\ ClaimSucceeds(row))
      <4>1. CASE ClaimUpdate(p)
        BY <1>0, <4>1 DEF ClaimUpdate, Goto
      <4>2. CASE ClaimGetState(p) \/ ClaimSelect(p) \/ Reject(p) \/ PushSetCode(p) \/ PushSend(p)
        BY <1>0, <4>2 DEF ClaimGetState, ClaimSelect, Reject, PushSetCode, PushSend, Refuse, Done,
           Goto
      <4>3. CASE ClaimBind(p) \/ PublicKey(p)
        BY <4>3 DEF ClaimBind, PublicKey, Uncoded
      <4>4. QED
        BY <1>2, <2>4, <4>1, <4>2, <4>3 DEF PhoneHandler
    <3>2. QED
      BY <2>1, <2>2, <2>4, <3>1, UpKinds DEF Uncoded
  <2>5. QED
    BY <2>3, <2>4
<1>3. ASSUME NEW k \in Sockets, CloseHandler(k) PROVE Uncoded(p)
  <2>1. UNCHANGED <<phone, up, pc>> /\ Heard(down[p], down'[p], {"disconnect", "close"})
    BY <1>0, <1>3, CloseFrame
  <2>2. QED
    BY <2>1, HeardMeans DEF Uncoded
<1>4. CASE CliActs
  BY <1>0, <1>4, CliClientFrame DEF CliActs, Uncoded
<1>5. ASSUME NEW q \in Phones, PageActs(q) PROVE Uncoded(p)
  <2>1. UNCHANGED pc /\ (q # p => phone'[p] = phone[p] /\ up'[p] = up[p] /\ down'[p] = down[p])
    BY <1>0, <1>5, PageFrame DEF PageActs
  <2>2. CASE q # p
    BY <2>1, <2>2 DEF Uncoded
  <2>3. CASE q = p /\ PhoneOpens(p)
    BY <1>0, <2>1, <2>3, UpKinds DEF PhoneOpens, Opens, Turn, PhoneStates, Uncoded
  <2>4. CASE q = p /\ PhoneClaimed(p)
    BY <1>0, <2>4, ReadsHeard DEF PhoneClaimed, Uncoded
  <2>5. CASE q = p /\ PhoneSendsKey(p)
    BY <2>5 DEF PhoneSendsKey, Uncoded
  <2>6. CASE q = p /\ (PhoneCode(p) \/ PhonePaired(p) \/ PhoneLocked(p) \/ PhoneIgnores(p))
    <3>1. /\ down[p] # << >> /\ Reads(p) /\ (phone'[p].page = "keygen" => phone[p].page = "keygen")
      BY <1>0, <2>6 DEF PhoneCode, PhonePaired, PhoneLocked, PhoneIgnores, Arrives, Turn,
         PhoneStates, clients
    <3>2. UNCHANGED up /\ (Says(down'[p], "phone_claim_ack") => Says(down[p], "phone_claim_ack"))
      BY <1>0, <3>1, IgnoresHeard, HeardMeans
    <3>3. QED
      BY <2>1, <3>1, <3>2 DEF Uncoded
  <2>7. CASE q = p /\ (PhoneEnds(p) \/ PhoneLosesConnection(p))
    <3>1. (Unlinks(p) \/ Breaks(p)) /\ (phone'[p].page = "keygen" => phone[p].page = "keygen")
      BY <1>0, <2>7 DEF PhoneEnds, PhoneLosesConnection, Turn, PhoneStates
    <3>2. up'[p] \in {up[p], NoMsg} /\ ~Says(down'[p], "phone_claim_ack")
      BY <1>0, <3>1, EndsHeard
    <3>3. QED
      BY <2>1, <3>1, <3>2, UpKinds DEF Uncoded
  <2>8. CASE q = p /\ PhoneListens(p)
    <3>1. phone'[p].page = "connected" /\ UNCHANGED <<up, down>>
      BY <1>0, <2>8 DEF PhoneListens, Turn, PhoneStates, net
    <3>2. QED
      BY <2>1, <3>1 DEF Uncoded
  <2>9. QED
    BY <1>5, <2>2, <2>3, <2>4, <2>5, <2>6, <2>7, <2>8 DEF PageActs, PhoneReacts
<1>6. CASE Crash
  BY <1>0, <1>6, CrashFrame, HeardMeans, UpKinds DEF Uncoded
<1>7. CASE UNCHANGED <<pc, up, down, phone>>
  BY <1>7 DEF Uncoded
<1>8. QED
  BY <1>1, <1>2, <1>3, <1>4, <1>5, <1>6, <1>7, WhoSteps

\* The CLI comes to have a code to submit when a phone's claim is bound.
LEMMA SpeaksStep ==
  ASSUME TypeOK, TurnInv, [Next]_vars, Speaks'
  PROVE  /\ Speaks \/ \E p \in Phones : ClaimBind(p) /\ reg.cliByPairing = Cli
         /\ ~Crash
<1>0. /\ Cli \in Sockets /\ NetOK /\ CliTurn /\ cli \in CliStates
      /\ up \in [Sockets -> UpMsgs] /\ sock \in [Sockets -> {"none", "open", "closing", "closed"}]
      /\ pc \in [Sockets -> {"idle", "reject"} \cup CliSteps \cup PhoneSteps]
  BY SocketFacts DEF TypeOK, FramesOK, NetOK, ClientsOK, TurnInv
<1>8. ~Crash
  <2>1. Crash => up'[Cli] = NoMsg /\ pc'[Cli] = "idle" /\ sock'[Cli] \in {"none", "closed"}
    BY <1>0, CrashFrame
  <2>2. QED
    BY <2>1, UpKinds DEF Speaks, SubmitPending, SubmitSteps, CliSteps
<1> SUFFICES Speaks \/ \E p \in Phones : ClaimBind(p) /\ reg.cliByPairing = Cli
  BY <1>8
<1>1. ASSUME cli' = cli, sock'[Cli] \in {"open", "closing"} => sock[Cli] \in {"open", "closing"},
             Says(down'[Cli], "phone_claimed") => Says(down[Cli], "phone_claimed"),
             SubmitPending' => SubmitPending
      PROVE  Speaks
  BY <1>1 DEF Speaks
<1>2. ASSUME up'[Cli] \in {up[Cli], NoMsg}, pc'[Cli] \in {pc[Cli], "idle"}
      PROVE  SubmitPending' => SubmitPending
  BY <1>2, UpKinds DEF SubmitPending, SubmitSteps, CliSteps, HelloSteps
<1>3. CASE CliHandler
  <2>1. cli' = cli /\ (sock'[Cli] \in {"open", "closing"} => sock[Cli] \in {"open", "closing"})
    BY <1>0, <1>3, CliHandlerFrame
  <2>2. Says(down'[Cli], "phone_claimed") => Says(down[Cli], "phone_claimed")
    <3>1. CASE Promote
      BY <1>0, <3>1, PromoteNews, HeardMeans
    <3>2. CASE SubmitInvalid
      BY <3>2, InvalidNews, HeardMeans
    <3>3. CASE ~Promote /\ ~SubmitInvalid
      <4>1. pc[Cli] \notin {"promote", "remaining"}
        BY <1>3, <3>3 DEF CliHandler, HelloGetState, HelloSecret, HelloBind, Reject, SubmitSelect,
           SubmitAttempt, LockedDestroy, LockedSend, SubmitValid, Commit, Destroy, Forget
      <4>2. QED
        BY <1>3, <4>1, CliHandlerNews, HeardMeans
    <3>4. QED
      BY <3>1, <3>2, <3>3
  <2>3. QED
    BY <1>1, <1>3, <2>1, <2>2, CliHandlerTurn
<1>4. ASSUME NEW p \in Phones, PhoneHandler(p)
      PROVE  Speaks \/ \E q \in Phones : ClaimBind(q) /\ reg.cliByPairing = Cli
  <2>1. /\ cli' = cli /\ p # Cli
        /\ pc'[Cli] = pc[Cli] /\ up'[Cli] = up[Cli]
        /\ sock'[Cli] \in {"open", "closing"} => sock[Cli] \in {"open", "closing"}
    BY <1>0, <1>4, SocketFacts, PhoneHandlerFrame
  <2>2. CASE ClaimBind(p) /\ reg.cliByPairing = Cli
    BY <2>2
  <2>3. CASE ~(ClaimBind(p) /\ reg.cliByPairing = Cli)
    <3>1. pc[p] # "claim_bind" \/ reg.cliByPairing # Cli
      BY <1>4, <2>3 DEF PhoneHandler, ClaimGetState, ClaimSelect, ClaimUpdate, Reject,
         PublicKey, PushSetCode, PushSend
    <3>2. down'[Cli] = down[Cli]
      BY <1>4, <3>1, PhoneHandlerNews
    <3>3. QED
      BY <1>1, <1>2, <2>1, <3>2
  <2>4. QED
    BY <2>2, <2>3
<1>5. ASSUME NEW k \in Sockets, CloseHandler(k) PROVE Speaks
  <2>1. /\ UNCHANGED <<cli, up, pc>> /\ Heard(down[Cli], down'[Cli], {"disconnect", "close"})
        /\ sock'[Cli] \in {"open", "closing"} => sock[Cli] \in {"open", "closing"}
    BY <1>0, <1>5, CloseFrame
  <2>2. QED
    BY <1>1, <1>2, <2>1, HeardMeans
<1>6. CASE CliActs
  <2>1. UNCHANGED pc
    BY <1>6, CliClientFrame DEF CliActs
  <2>2. CASE CliConnect
    <3>1. cli.phase = "init" /\ cli'.phase = "connecting" /\ down' = down
          /\ up'[Cli].type = "cli_hello"
      BY <1>0, <2>2, UpKinds DEF CliConnect, Opens, CliStates
    <3>2. QED
      BY <1>0, <2>1, <3>1 DEF Speaks, SubmitPending, CliTurn, Quiet
  <2>3. ASSUME NEW c \in Codes, CliSubmit(c) PROVE Speaks
    <3>1. cli.phase = "entering_code" /\ UNCHANGED <<sock, down>> /\ (sock[Cli] = "closed" => up' = up)
      BY <1>0, <2>3 DEF CliSubmit, CliStates, Sends
    <3>2. QED
      BY <1>0, <2>1, <3>1 DEF Speaks, SubmitPending, CliTurn
  <2>4. CASE CliListen \/ CliStartControl
    <3>1. cli'.phase \in {"waiting_phone", "connected"} /\ UNCHANGED <<sock, up, down>>
      BY <1>0, <2>4 DEF CliListen, CliStartControl, CliStates, net
    <3>2. QED
      BY <2>1, <3>1 DEF Speaks, SubmitPending
  <2>5. CASE CliPhoneClaimed \/ CliCodeInvalid
    <3>1. CASE CliPhoneClaimed
      BY <1>0, <2>1, <3>1, ReadsHeard, HeardMeans DEF CliPhoneClaimed, Speaks, SubmitPending
    <3>2. CASE CliCodeInvalid
      BY <1>0, <2>1, <3>2, ReadsHeard, HeardMeans DEF CliCodeInvalid, Speaks, SubmitPending
    <3>3. QED
      BY <2>5, <3>1, <3>2
  <2>6. CASE CliPaired \/ CliIgnores
    <3>1. down[Cli] # << >> /\ Reads(Cli) /\ cli'.phase \in {cli.phase, "starting"}
      BY <1>0, <2>6 DEF CliPaired, CliIgnores, Arrives, CliStates, clients
    <3>2. UNCHANGED <<sock, up>> /\ (Says(down'[Cli], "phone_claimed") => Says(down[Cli], "phone_claimed"))
      BY <1>0, <3>1, IgnoresHeard, HeardMeans
    <3>3. QED
      BY <2>1, <3>1, <3>2 DEF Speaks, SubmitPending
  <2>7. CASE CliGivesUp \/ CliMissesClose \/ CliExit \/ CliLosesConnection
    <3>1. (Unlinks(Cli) \/ Breaks(Cli)) /\ cli'.phase \in {cli.phase, "gone"}
      BY <1>0, <2>7 DEF CliGivesUp, CliMissesClose, CliExit, CliLosesConnection, CliStates, clients
    <3>2. UNCHANGED sock /\ ~Says(down'[Cli], "phone_claimed") /\ up'[Cli] \in {up[Cli], NoMsg}
      BY <1>0, <3>1, EndsHeard
    <3>3. QED
      BY <1>2, <2>1, <3>1, <3>2 DEF Speaks
  <2>8. QED
    BY <1>6, <2>2, <2>3, <2>4, <2>5, <2>6, <2>7 DEF CliActs, CliReacts
<1>7. ASSUME NEW p \in Phones, PageActs(p) PROVE Speaks
  BY <1>0, <1>7, PageFrame, SocketFacts DEF PageActs, Speaks, SubmitPending
<1>9. CASE UNCHANGED <<cli, up, pc, sock, down>>
  BY <1>9 DEF Speaks, SubmitPending
<1>10. QED
  BY <1>3, <1>4, <1>5, <1>6, <1>7, <1>8, <1>9, WhoSteps

\* What a step may do to the pairing's row.
LEMMA RowStep ==
  ASSUME [Next]_vars
  PROVE  \/ row' = row
         \/ \E p \in Phones : ClaimUpdate(p) /\ ClaimSucceeds(row) /\ row' = ClaimedRow(row)
         \/ \E p \in Phones : PushSetCode(p) /\ SetCodeSucceeds(row, expired)
                              /\ row' = WithCode(row, loc[p])
         \/ SubmitAttempt /\ row' = WithAttempt(row)
         \/ (LockedDestroy \/ Destroy) /\ row' = NoRow
<1>1. CASE CliHandler
  BY <1>1 DEF CliHandler, HelloGetState, HelloSecret, HelloBind, Reject, SubmitSelect,
     SubmitAttempt, SubmitInvalid, LockedDestroy, LockedSend, SubmitValid, Commit, Promote,
     Destroy, Forget, OnlyStore, store
<1>2. ASSUME NEW p \in Phones, PhoneHandler(p)
      PROVE  \/ row' = row
             \/ ClaimUpdate(p) /\ ClaimSucceeds(row) /\ row' = ClaimedRow(row)
             \/ PushSetCode(p) /\ SetCodeSucceeds(row, expired) /\ row' = WithCode(row, loc[p])
  BY <1>2 DEF PhoneHandler, ClaimGetState, ClaimSelect, ClaimUpdate, ClaimBind, Reject, PublicKey,
     PushSetCode, PushSend, OnlyStore, store
<1>3. CASE \E k \in Sockets : CloseHandler(k)
  BY <1>3 DEF CloseHandler, SocketClose, EndUpdate, EndNotify, store
<1>4. CASE CliActs
  BY <1>4 DEF CliActs, CliReacts, CliConnect, CliSubmit, CliListen, CliStartControl,
     CliPhoneClaimed, CliCodeInvalid, CliPaired, CliGivesUp, CliMissesClose, CliIgnores, CliExit,
     CliLosesConnection, OnlyClients, store
<1>5. CASE \E p \in Phones : PageActs(p)
  BY <1>5 DEF PageActs, PhoneReacts, PhoneOpens, PhoneClaimed, PhoneSendsKey, PhoneCode, PhonePaired,
     PhoneListens, PhoneEnds, PhoneLocked, PhoneIgnores, PhoneLosesConnection, OnlyClients, store
<1>6. CASE Crash
  BY <1>6 DEF Crash, store
<1>7. QED
  BY <1>1, <1>2, <1>3, <1>4, <1>5, <1>6, WhoSteps

\* A code of the CLI's is at work only after the SELECT of validateCode, which finds the
\* row with a code.
LEMMA SubmitStep ==
  ASSUME TypeOK, [Next]_vars, pc'[Cli] \in SubmitSteps
  PROVE  \/ CliHandler
         \/ pc'[Cli] = pc[Cli] /\ loc'[Cli] = loc[Cli]
<1>0. Cli \in Sockets /\ \A p \in Phones : p # Cli
  BY SocketFacts
<1>1. ASSUME NEW p \in Phones, PhoneHandler(p) PROVE pc'[Cli] = pc[Cli] /\ loc'[Cli] = loc[Cli]
  BY <1>0, <1>1, PhoneHandlerFrame
<1>2. CASE Crash
  BY <1>0, <1>2 DEF Crash, SubmitSteps, CliSteps
<1>3. QED
  BY <1>1, <1>2, CloseFrame, CliClientFrame, PageFrame, WhoSteps DEF CliActs, PageActs

\* The steps of a submission follow each other: a code that the row has is compared with, and
\* the row is gone when the handler ends in a lockout or in a session.
LEMMA SubmitOrder ==
  ASSUME TypeOK, CodeInv, CliHandler, pc'[Cli] \in SubmitSteps
  PROVE  /\ row.code # NoCode \/ row.state = "absent"
         /\ pc'[Cli] \in {"locked_send", "forget"} => row'.state = "absent"
         /\ pc'[Cli] \notin {"locked_send", "forget"} => row'.code # NoCode
         /\ pc'[Cli] \in {"attempt_valid", "attempt_invalid", "locked_destroy"} => SubmitSelect
<1>0. /\ pc \in [Sockets -> {"idle", "reject"} \cup CliSteps \cup PhoneSteps]
      /\ loc \in [Sockets -> Values] /\ Cli \in Sockets
      /\ row \in Rows
  BY SocketFacts DEF TypeOK, FramesOK, StoreOK
<1>1. CASE HelloGetState \/ HelloSecret \/ HelloBind \/ Reject(Cli)
  BY <1>0, <1>1 DEF HelloGetState, HelloSecret, HelloBind, Reject, Refuse, Done, Goto, SubmitSteps,
     CliSteps, HelloSteps
<1>2. CASE SubmitSelect
  <2>1. PICK step : /\ step \in {"reject", "locked_destroy", "attempt_valid", "attempt_invalid"}
                    /\ row.code = NoCode => step = "reject"
                    /\ Goto(Cli, step, None) /\ row' = row
    BY <1>2 DEF SubmitSelect, Verdict
  <2>2. pc'[Cli] = step /\ row' = row
    BY <1>0, <2>1 DEF Goto
  <2>3. QED
    BY <1>2, <2>1, <2>2 DEF SubmitSteps, CliSteps
<1>3. CASE SubmitAttempt
  <2>1. row.code # NoCode /\ row'.code = row.code
    BY <1>0, <1>3 DEF SubmitAttempt, WithAttempt, CodeInv, SubmitSteps, CliSteps, HelloSteps, Rows
  <2>2. pc'[Cli] \in {"valid", "remaining"}
    BY <1>0, <1>3 DEF SubmitAttempt, Goto
  <2>3. QED
    BY <2>1, <2>2
<1>4. CASE SubmitInvalid \/ LockedSend \/ Forget
  BY <1>0, <1>4 DEF SubmitInvalid, LockedSend, Forget, Done, Goto, SubmitSteps, CliSteps
<1>5. CASE LockedDestroy \/ Destroy
  <2>1. pc'[Cli] \in {"locked_send", "forget"} /\ row' = NoRow
    BY <1>0, <1>5 DEF LockedDestroy, Destroy, Goto
  <2>2. row.code # NoCode
    BY <1>0, <1>5 DEF LockedDestroy, Destroy, CodeInv, SubmitSteps, CliSteps, HelloSteps
  <2>3. QED
    BY <2>1, <2>2 DEF NoRow
<1>6. CASE SubmitValid \/ (\E s \in Sessions : Commit(s)) \/ Promote
  <2>1. pc'[Cli] \in {"commit", "promote", "destroy"} /\ row' = row
    BY <1>0, <1>6 DEF SubmitValid, Commit, Promote, Goto, OnlyStore, store
  <2>2. row.code # NoCode
    BY <1>0, <1>6 DEF SubmitValid, Commit, Promote, CodeInv, SubmitSteps, CliSteps, HelloSteps
  <2>3. QED
    BY <2>1, <2>2
<1>7. QED
  BY <1>1, <1>2, <1>3, <1>4, <1>5, <1>6 DEF CliHandler

\* The key of the phone whose code is being set is on file, until the pairing is forgotten.
LEMMA KeysStep ==
  ASSUME TypeOK, [Next]_vars, keys # None, keys' = None
  PROVE  Forget \/ Crash
<1>1. CASE CliHandler
  BY <1>1 DEF CliHandler, HelloGetState, HelloSecret, HelloBind, Reject, SubmitSelect,
     SubmitAttempt, SubmitInvalid, LockedDestroy, LockedSend, SubmitValid, Commit, Promote,
     Destroy, OnlyStore, memory
<1>2. ASSUME NEW p \in Phones, PhoneHandler(p) PROVE FALSE
  BY <1>2, SocketFacts DEF PhoneHandler, ClaimGetState, ClaimSelect, ClaimUpdate, ClaimBind, Reject,
     PublicKey, PushSetCode, PushSend, OnlyStore, memory
<1>3. QED
  BY <1>1, <1>2, CloseFrame, CliClientFrame, PageFrame, WhoSteps DEF CliActs, PageActs

\* A code is set for a phone whose key is on file.
LEMMA PushStep ==
  ASSUME TypeOK, [Next]_vars, NEW p \in Phones, pc'[p] = "push_code"
  PROVE  \/ pc[p] = "push_code" /\ ~PushSetCode(p)
         \/ keys' # None
<1>0. /\ p \in Sockets /\ p # None /\ p # Cli
      /\ pc \in [Sockets -> {"idle", "reject"} \cup CliSteps \cup PhoneSteps]
  BY SocketFacts DEF TypeOK, FramesOK
<1>1. CASE CliHandler
  <2>1. ~PushSetCode(p) \/ pc'[p] # "push_code"
    BY <1>0 DEF PushSetCode, Done, Goto
  <2>2. QED
    BY <1>1, <2>1, CliHandlerFrame
<1>2. ASSUME NEW q \in Phones, PhoneHandler(q), q # p
      PROVE  pc'[p] = pc[p]
  BY <1>0, <1>2, PhoneHandlerFrame
<1>3. ASSUME PhoneHandler(p) PROVE keys' # None
  <2>1. CASE PublicKey(p)
    BY <1>0, <2>1 DEF PublicKey
  <2>2. CASE ClaimBind(p)
    BY <1>0, <2>2 DEF ClaimBind, Refuse, PushCodeIfReady, Done, Goto
  <2>3. CASE ~PublicKey(p) /\ ~ClaimBind(p)
    BY <1>0, <1>3, <2>3 DEF PhoneHandler, ClaimGetState, ClaimSelect, ClaimUpdate, Reject, Refuse,
       PushSetCode, PushSend, Done, Goto
  <2>4. QED
    BY <2>1, <2>2, <2>3
<1>4. CASE Crash
  BY <1>0, <1>4 DEF Crash
<1>5. PushSetCode(p) => pc'[p] # "push_code"
  BY <1>0 DEF PushSetCode, Done, Goto
<1>6. QED
  BY <1>0, <1>1, <1>2, <1>3, <1>4, <1>5, CloseFrame, CliClientFrame, PageFrame, WhoSteps
     DEF CliActs, PageActs

\* The phone whose code is to be set is the one that claimed the link.
LEMMA UncodedClaims ==
  ASSUME ClaimInv, TurnInv, TypeOK, NEW p \in Phones, Uncoded(p)
  PROVE  p \in claimants
<1>1. CASE Says(down[p], "phone_claim_ack")
  <2>1. down[p] \in Seq(DownMsgs)
    BY SocketFacts DEF TypeOK, NetOK
  <2>2. PICK m \in Range(down[p]) : m.type = "phone_claim_ack"
    BY <1>1 DEF Says
  <2>3. \E i \in 1..Len(down[p]) : down[p][i] = m
    BY <2>1, <2>2 DEF Range
  <2>4. QED
    BY <2>2, <2>3 DEF Told, Vouched, ClaimInv
<1>2. CASE pc[p] = "push_code"
  BY <1>2 DEF TurnInv, PhoneTurn, PushSteps
<1>3. QED
  BY <1>1, <1>2 DEF Uncoded, Vouched, Past, KeyInUse, ClaimInv

\* Every step keeps CodeInv: while a phone's code is still to be set the row has none, so
\* no submission gets past the SELECT; and once it is set, the key is on file.
LEMMA CodeStep ==
  ASSUME TypeOK, ClaimInv, TurnInv, CodeInv, [Next]_vars
  PROVE  CodeInv'
<1>0. /\ row \in Rows /\ NoCode \notin Codes
      /\ \A p \in Phones : p \in Sockets /\ p # Cli
      /\ Cli \in Sockets
      /\ pc \in [Sockets -> {"idle", "reject"} \cup CliSteps \cup PhoneSteps]
  BY SocketFacts, StoreParameters DEF TypeOK, StoreOK, FramesOK
<1>1. ASSUME NEW p \in Phones, ClaimUpdate(p), ClaimSucceeds(row), row' = ClaimedRow(row)
      PROVE  /\ row.code = NoCode /\ row'.code = NoCode /\ row'.state = "claimed"
             /\ pc'[Cli] \notin SubmitSteps
  <2>1. row.state = "pending" /\ row.code = NoCode /\ row'.code = NoCode /\ row'.state = "claimed"
    BY <1>0, <1>1 DEF ClaimSucceeds, ClaimedRow, CodeInv, Rows
  <2>2. pc[Cli] \notin SubmitSteps /\ pc'[Cli] = pc[Cli]
    BY <1>0, <1>1, <2>1 DEF CodeInv, ClaimUpdate, Goto
  <2>3. QED
    BY <2>1, <2>2
<1>2. ASSUME NEW p \in Phones, PushSetCode(p), SetCodeSucceeds(row, expired),
             row' = WithCode(row, loc[p])
      PROVE  /\ row'.code # NoCode /\ row.state = "claimed" /\ row'.state = "claimed"
             /\ pc'[Cli] \notin SubmitSteps /\ ~Uncoded(p)' /\ keys # None /\ keys' = keys
  <2>1. loc[p] \in Codes /\ pc[p] = "push_code"
    BY <1>0, <1>2 DEF PushSetCode, TypeOK, FramesOK, FrameFits
  <2>2. row'.code # NoCode /\ row.state = "claimed" /\ row'.state = "claimed"
    BY <1>0, <1>2, <2>1 DEF SetCodeSucceeds, WithCode, Rows
  <2>3. pc[Cli] \notin SubmitSteps /\ pc'[Cli] = pc[Cli] /\ keys # None /\ keys' = keys
        /\ pc'[p] = "push_send" /\ UNCHANGED <<up, down, phone>>
    BY <1>0, <1>2, <2>1 DEF CodeInv, Uncoded, PushSetCode, Goto, OnlyStore, memory, clients
  <2>4. ~Uncoded(p)'
    BY <2>1, <2>3, UpKinds DEF TurnInv, PhoneTurn, Quiet, Uncoded
  <2>5. QED
    BY <2>2, <2>3, <2>4
<1>3. row'.code # NoCode => row'.state = "claimed"
  <2>1. CASE row' = row
    BY <2>1 DEF CodeInv
  <2>2. CASE SubmitAttempt /\ row' = WithAttempt(row)
    BY <1>0, <2>2 DEF WithAttempt, CodeInv, Rows
  <2>3. CASE row' = NoRow
    BY <2>3 DEF NoRow
  <2>4. QED
    BY <1>1, <1>2, <2>1, <2>2, <2>3, RowStep
<1>4. row.code # NoCode /\ ~(LockedDestroy \/ Destroy) => row'.code # NoCode
  BY <1>0, <1>1, <1>2, RowStep DEF WithAttempt, Rows
<1>5. row.state = "absent" => row'.state = "absent"
  BY <1>0, <1>1, <1>2, RowStep DEF WithAttempt, NoRow, ClaimSucceeds
<1>6. pc'[Cli] \in SubmitSteps =>
        /\ pc'[Cli] \in {"locked_send", "forget"} => row'.state = "absent"
        /\ pc'[Cli] \notin {"locked_send", "forget"} => row'.code # NoCode
        /\ row.code # NoCode \/ row.state = "absent"
  <2>1. CASE CliHandler
    BY <2>1, SubmitOrder
  <2>2. CASE ~CliHandler /\ pc'[Cli] \in SubmitSteps
    <3>1. pc'[Cli] = pc[Cli]
      BY <2>2, SubmitStep
    <3>2. ~(LockedDestroy \/ Destroy)
      BY <2>2 DEF CliHandler
    <3>3. QED
      BY <1>4, <1>5, <2>2, <3>1, <3>2 DEF CodeInv
  <2>3. QED
    BY <2>1, <2>2
<1>7. ASSUME NEW p \in Phones, Uncoded(p)'
      PROVE  row'.code = NoCode /\ pc'[Cli] \notin SubmitSteps
  <2>1. CASE ClaimUpdate(p) /\ ClaimSucceeds(row)
    BY <1>1, <2>1 DEF ClaimUpdate
  <2>2. CASE Uncoded(p)
    <3>1. row.code = NoCode /\ pc[Cli] \notin SubmitSteps /\ p \in claimants
      BY <2>2, UncodedClaims DEF CodeInv
    <3>2. row'.code = NoCode
      <4>1. ASSUME NEW q \in Phones, PushSetCode(q), SetCodeSucceeds(row, expired),
                   row' = WithCode(row, loc[q])
            PROVE  FALSE
        <5>1. Uncoded(q)
          BY <4>1 DEF PushSetCode, Uncoded
        <5>2. p = q
          BY <3>1, <5>1, UncodedClaims DEF ClaimInv
        <5>3. QED
          BY <1>2, <1>7, <4>1, <5>2
      <4>2. QED
        BY <1>0, <1>1, <3>1, <4>1, RowStep DEF WithAttempt, NoRow, Rows
    <3>3. pc'[Cli] \in SubmitSteps => row.state = "absent"
      BY <1>6, <3>1
    <3>4. pc'[Cli] \notin SubmitSteps
      <4>1. SUFFICES ASSUME pc'[Cli] \in SubmitSteps PROVE FALSE
        OBVIOUS
      <4>2. pc'[Cli] \in {"locked_send", "forget"} /\ CliHandler
        BY <1>6, <3>1, <3>2, <4>1, SubmitStep
      <4>3. LockedDestroy \/ Destroy
        <5>1. CASE SubmitSelect
          <6>1. PICK step \in {"reject", "locked_destroy", "attempt_valid", "attempt_invalid"} :
                   Goto(Cli, step, None)
            BY <5>1 DEF SubmitSelect, Verdict
          <6>2. QED
            BY <1>0, <4>2, <6>1 DEF Goto
        <5>2. QED
          BY <1>0, <4>2, <5>1 DEF CliHandler, HelloGetState, HelloSecret, HelloBind, Reject, Refuse,
             SubmitAttempt, SubmitInvalid, LockedSend, SubmitValid, Commit, Promote, Forget, Done,
             Goto
      <4>4. pc[Cli] \in SubmitSteps
        BY <4>3 DEF LockedDestroy, Destroy, SubmitSteps, CliSteps, HelloSteps
      <4>5. QED
        BY <3>1, <4>4
    <3>5. QED
      BY <3>2, <3>4
  <2>3. QED
    BY <1>7, <2>1, <2>2, UncodedStep
<1>8. ASSUME NEW p \in Phones, pc'[p] = "push_code" PROVE keys' # None
  <2>1. SUFFICES ASSUME pc[p] = "push_code", ~PushSetCode(p), keys' = None PROVE FALSE
    BY <1>8, PushStep
  <2>2. keys # None /\ pc[Cli] \notin SubmitSteps
    BY <2>1 DEF CodeInv, Uncoded
  <2>3. Forget \/ Crash
    BY <2>1, <2>2, KeysStep
  <2>4. QED
    BY <1>0, <1>8, <2>2, <2>3 DEF Forget, Crash, SubmitSteps, CliSteps, HelloSteps
<1>9. row'.code # NoCode /\ Speaks' => keys' # None
  <2>1. SUFFICES ASSUME row'.code # NoCode, Speaks', keys' = None PROVE FALSE
    OBVIOUS
  <2>2. ~Crash /\ (Speaks \/ \E p \in Phones : ClaimBind(p) /\ reg.cliByPairing = Cli)
    BY <2>1, SpeaksStep
  <2>3. row.code # NoCode /\ row' \in {row, WithAttempt(row)}
    <3>1. row.code = NoCode => row' = row \/ row' = WithAttempt(row)
      BY <1>1, <1>2, <2>1, RowStep DEF NoRow
    <3>2. row.code # NoCode
      BY <1>0, <2>1, <3>1 DEF WithAttempt, Rows
    <3>3. row' # NoRow
      BY <2>1 DEF NoRow
    <3>4. ~\E p \in Phones : ClaimUpdate(p) /\ ClaimSucceeds(row) /\ row' = ClaimedRow(row)
      BY <1>1, <3>2
    <3>5. ~\E p \in Phones : PushSetCode(p) /\ SetCodeSucceeds(row, expired)
                              /\ row' = WithCode(row, loc[p])
      BY <1>2, <2>1
    <3>6. QED
      BY <3>2, <3>3, <3>4, <3>5, RowStep
  <2>4. Speaks
    <3>1. ASSUME NEW p \in Phones, ClaimBind(p) PROVE FALSE
      BY <2>3, <3>1 DEF ClaimBind, Uncoded, CodeInv
    <3>2. QED
      BY <2>2, <3>1
  <2>5. keys # None
    BY <2>3, <2>4 DEF CodeInv
  <2>6. Forget
    BY <2>1, <2>2, <2>5, KeysStep
  <2>7. row.state = "absent"
    BY <2>6 DEF Forget, CodeInv
  <2>8. QED
    BY <2>3, <2>7 DEF CodeInv
<1>10. QED
  <2>1. pc'[Cli] \in SubmitSteps \ {"locked_send", "forget"} => row'.code # NoCode
    BY <1>6
  <2>2. pc'[Cli] \in {"locked_send", "forget"} => row'.state = "absent"
    BY <1>6 DEF SubmitSteps, CliSteps, HelloSteps
  <2>3. QED
    BY <1>3, <1>7, <1>8, <1>9, <2>1, <2>2 DEF CodeInv

\* A row is created without a code, and nobody is at work on it.
LEMMA CodeInit == Init => CodeInv
<1> SUFFICES ASSUME Init PROVE CodeInv
  OBVIOUS
<1>1. /\ row.code = NoCode /\ Cli \in Sockets /\ pc[Cli] = "idle"
      /\ \A p \in Phones : p \in Sockets /\ pc[p] = "idle" /\ phone[p].page = "scan"
                           /\ up[p].type = "none" /\ ~Says(down[p], "phone_claim_ack")
  BY SocketFacts, HeardNothing, UpKinds DEF Init, CreatedRow
<1>2. QED
  BY <1>1 DEF CodeInv, Uncoded, SubmitSteps, CliSteps

\* CodeInv, with the turns, implies the property.
LEMMA CodeInvSuffices == TurnInv /\ CodeInv => KeyBeforeCode
<1> SUFFICES ASSUME TurnInv, CodeInv PROVE KeyBeforeCode
  OBVIOUS
<1>1. ASSUME pc[Cli] \in {"attempt_valid", "valid"} PROVE keys # None
  BY <1>1 DEF CodeInv, Speaks, SubmitPending, SubmitSteps, CliSteps, HelloSteps
<1>2. ASSUME NEW p \in Phones, phone[p].page \in {"claiming", "keygen"}
      PROVE  phone[p].code = NoCode
  BY <1>2 DEF TurnInv, PhoneTurn, Claiming, Keyed
<1>3. QED
  BY <1>1, <1>2 DEF KeyBeforeCode

\* Whoever still has a code to set, the row has none, and no submission is being compared.
THEOREM CodeInvariant == Spec => []CodeInv
  BY CodeInit, CodeStep, TypeCorrect, ClaimInvariant, TurnInvariant, PTL DEF Spec

\* A code is compared, and a session committed, only while the phone's key is on file:
\* onCodeValid never throws missing_phone_public_key; and no phone that still generates
\* its keys has been sent a code (server.ts:161-163).
THEOREM KeyAlwaysBeforeCode == Spec => []KeyBeforeCode
  BY CodeInvariant, TurnInvariant, CodeInvSuffices, PTL

-----------------------------------------------------------------------------
\* Sessions: what a step does to them, and what it tells of them

\* What a client does tells it nothing new.
LEMMA ClientNews ==
  ASSUME TypeOK, CliActs \/ \E p \in Phones : PageActs(p), NEW k \in Sockets
  PROVE  Heard(down[k], down'[k], {})
<1>0. NetOK /\ Cli \in Sockets /\ \A p \in Phones : p \in Sockets
  BY SocketFacts DEF TypeOK
<1>1. CASE CliActs
  <2>1. CASE k # Cli
    <3>1. down'[k] = down[k]
      BY <1>1, <2>1, CliClientFrame, SocketFacts DEF CliActs
    <3>2. QED
      BY <3>1, HeardSame
  <2>2. CASE down' = down
    BY <2>2, HeardSame
  <2>3. CASE down[Cli] # << >> /\ Reads(Cli)
    BY <1>0, <2>1, <2>3, IgnoresHeard
  <2>4. CASE Unlinks(Cli) \/ Breaks(Cli)
    BY <1>0, <2>1, <2>4, EndsHeard
  <2>5. QED
    BY <1>1, <2>2, <2>3, <2>4 DEF CliActs, CliReacts, CliConnect, CliSubmit, CliListen,
       CliStartControl, CliPhoneClaimed, CliCodeInvalid, CliPaired, CliGivesUp, CliMissesClose,
       CliIgnores, CliExit, CliLosesConnection, Arrives, Opens, net
<1>2. ASSUME NEW p \in Phones, PageActs(p) PROVE Heard(down[k], down'[k], {})
  <2>1. CASE k # p
    <3>1. down'[k] = down[k]
      BY <1>2, <2>1, PageFrame DEF PageActs
    <3>2. QED
      BY <3>1, HeardSame
  <2>2. CASE down' = down
    BY <2>2, HeardSame
  <2>3. CASE down[p] # << >> /\ Reads(p)
    BY <1>0, <2>1, <2>3, IgnoresHeard
  <2>4. CASE Unlinks(p) \/ Breaks(p)
    BY <1>0, <2>1, <2>4, EndsHeard
  <2>5. QED
    BY <1>2, <2>2, <2>3, <2>4 DEF PageActs, PhoneReacts, PhoneOpens, PhoneClaimed, PhoneSendsKey,
       PhoneCode, PhonePaired, PhoneListens, PhoneEnds, PhoneLocked, PhoneIgnores,
       PhoneLosesConnection, Arrives, Opens, net
<1>3. QED
  BY <1>1, <1>2

\* Where the messages come from that decide about a session.
LEMMA NewsStep ==
  ASSUME TypeOK, TurnInv, [Next]_vars, NEW k \in Sockets,
         NEW m \in Range(down'[k]), m \notin Range(down[k])
  PROVE  /\ m.type = "paired" =>
              /\ Promote /\ k \in {reg.cliByPairing, reg.phoneByPairing}
              /\ loc[Cli] \in Sessions /\ m.val = loc[Cli]
              /\ k = Cli => m.key = sessions[loc[Cli]].key
         /\ m.type = "code_invalid" => SubmitInvalid /\ k = Cli
         /\ m.type = "phone_claim_ack" => ClaimBind(k) /\ k \in Phones
<1>0. /\ Cli \in Sockets /\ \A p \in Phones : p \in Sockets /\ p # Cli
      /\ k = Cli \/ k \in Phones
  BY SocketFacts
<1>1. CASE CliHandler
  <2>1. CASE Promote
    <3>1. m.type = "paired"
      BY <2>1, PromoteNews DEF Heard
    <3>2. k \in {reg.cliByPairing, reg.phoneByPairing}
      BY <2>1, PromoteNews
    <3>3. QED
      BY <2>1, <3>1, <3>2, PromoteNews
  <2>2. CASE SubmitInvalid
    <3>1. CASE k = Cli
      <4>1. Heard(down[Cli], down'[Cli], {"code_invalid"})
        BY <2>2, InvalidNews
      <4>2. QED
        BY <2>2, <3>1, <4>1 DEF Heard
    <3>2. CASE k # Cli
      BY <1>0, <2>2, <3>2, InvalidNews
    <3>3. QED
      BY <3>1, <3>2
  <2>3. CASE ~Promote /\ ~SubmitInvalid
    <3>1. pc[Cli] \notin {"promote", "remaining"}
      BY <1>1, <2>3 DEF CliHandler, HelloGetState, HelloSecret, HelloBind, Reject, SubmitSelect,
         SubmitAttempt, LockedDestroy, LockedSend, SubmitValid, Commit, Destroy, Forget
    <3>2. m.type \in {"cli_hello_ack", "error", "code_locked", "code_valid", "close"}
      BY <1>0, <1>1, <3>1, CliHandlerNews DEF Heard
    <3>3. QED
      BY <3>2
  <2>4. QED
    BY <2>1, <2>2, <2>3
<1>2. ASSUME NEW p \in Phones, PhoneHandler(p)
      PROVE  /\ m.type \notin {"paired", "code_invalid"}
             /\ m.type = "phone_claim_ack" => ClaimBind(k) /\ k \in Phones
  <2>1. CASE k = Cli
    <3>1. m.type = "phone_claimed"
      BY <1>2, <2>1, PhoneHandlerNews DEF Heard
    <3>2. QED
      BY <3>1
  <2>2. CASE k \in Phones /\ pc[p] = "claim_bind"
    <3>1. k = p /\ m.type \in {"phone_claim_ack", "error", "close"}
      BY <1>2, <2>2, PhoneHandlerNews DEF Heard
    <3>2. ClaimBind(p)
      BY <1>2, <2>2 DEF PhoneHandler, ClaimGetState, ClaimSelect, ClaimUpdate, Reject, PublicKey,
         PushSetCode, PushSend
    <3>3. QED
      BY <3>1, <3>2
  <2>3. CASE k \in Phones /\ pc[p] = "push_send"
    <3>1. m.type = "code_challenge"
      BY <1>2, <2>3, PhoneHandlerNews DEF Heard
    <3>2. QED
      BY <3>1
  <2>4. CASE k \in Phones /\ pc[p] \notin {"claim_bind", "push_send"}
    <3>1. m.type \in {"error", "close"}
      BY <1>2, <2>4, PhoneHandlerNews DEF Heard
    <3>2. QED
      BY <3>1
  <2>5. QED
    BY <1>0, <2>1, <2>2, <2>3, <2>4
<1>3. ASSUME NEW j \in Sockets, CloseHandler(j) PROVE m.type \in {"disconnect", "close"}
  BY <1>3, CloseFrame DEF Heard
<1>4. CASE CliActs \/ \E p \in Phones : PageActs(p)
  BY <1>4, ClientNews DEF Heard
<1>5. CASE Crash
  <2>1. m.type = "close"
    BY <1>5, CrashFrame DEF Heard
  <2>2. QED
    BY <2>1
<1>6. QED
  BY <1>1, <1>2, <1>3, <1>4, <1>5, WhoSteps

\* What a step may do to a session.
LEMMA SessionsStep ==
  ASSUME TypeOK, [Next]_vars, NEW s \in Sessions
  PROVE  \/ sessions'[s] = sessions[s]
         \/ /\ Commit(s) /\ sessions[s].status = "unused"
            /\ sessions'[s] = [status |-> "active", key |-> loc[Cli]]
         \/ \E k \in Sockets :
              /\ EndUpdate(k) /\ closing[k].session = s /\ sessions[s].status = "active"
              /\ sessions'[s] = [sessions[s] EXCEPT !.status = "ended"]
<1>0. sessions \in [Sessions -> Sessionlike]
  BY DEF TypeOK, StoreOK
<1>1. CASE CliHandler
  <2>1. CASE \E t \in Sessions : Commit(t)
    BY <1>0, <2>1 DEF Commit
  <2>2. CASE ~\E t \in Sessions : Commit(t)
    BY <1>1, <2>2 DEF CliHandler, HelloGetState, HelloSecret, HelloBind, Reject, SubmitSelect,
       SubmitAttempt, SubmitInvalid, LockedDestroy, LockedSend, SubmitValid, Promote, Destroy,
       Forget, OnlyStore, store
  <2>3. QED
    BY <2>1, <2>2
<1>2. ASSUME NEW k \in Sockets, CloseHandler(k)
      PROVE  \/ sessions'[s] = sessions[s]
             \/ /\ EndUpdate(k) /\ closing[k].session = s /\ sessions[s].status = "active"
                /\ sessions'[s] = [sessions[s] EXCEPT !.status = "ended"]
  BY <1>0, <1>2 DEF CloseHandler, SocketClose, EndUpdate, EndNotify, store
<1>3. QED
  BY <1>1, <1>2, PhoneHandlerFrame, CliClientFrame, PageFrame, CrashFrame, WhoSteps
     DEF CliActs, PageActs

\* A session that was granted stays so, with its key; and claims are not taken back.
LEMMA GrantedStays ==
  ASSUME TypeOK, [Next]_vars, NEW s \in Sessions
  PROVE  /\ Granted(s) => Granted(s)' /\ sessions'[s].key = sessions[s].key
         /\ Granted(s)' => Granted(s) \/ Commit(s)
         /\ ~Granted(s)' => sessions'[s] = sessions[s]
<1>1. sessions[s] \in Sessionlike
  BY DEF TypeOK, StoreOK
<1>2. CASE sessions'[s] = sessions[s]
  BY <1>2 DEF Granted
<1>3. CASE Commit(s) /\ sessions[s].status = "unused" /\ sessions'[s].status = "active"
  BY <1>3 DEF Granted
<1>4. CASE /\ sessions[s].status = "active"
           /\ sessions'[s] = [sessions[s] EXCEPT !.status = "ended"]
  BY <1>1, <1>4 DEF Granted, Sessionlike
<1>5. QED
  BY <1>2, <1>3, <1>4, SessionsStep

\* Whoever claimed the link has claimed it for good.
LEMMA ClaimsStay ==
  ASSUME TypeOK, [Next]_vars
  PROVE  claimants \subseteq claimants'
<1>1. ASSUME NEW p \in Phones, PhoneHandler(p) PROVE claimants \subseteq claimants'
  BY <1>1 DEF PhoneHandler, ClaimGetState, ClaimSelect, ClaimUpdate, ClaimBind, Reject, PublicKey,
     PushSetCode, PushSend, OnlyStore, history
<1>2. QED
  BY <1>1, CliHandlerFrame, CloseFrame, CliClientFrame, PageFrame, CrashFrame, WhoSteps
     DEF CliActs, PageActs

\* completePairing's last sends come after its transaction, for the session it inserted.
LEMMA PromoteStep ==
  ASSUME TypeOK, [Next]_vars, pc'[Cli] = "promote"
  PROVE  \/ \E s \in Sessions : Commit(s) /\ loc'[Cli] = s
         \/ pc[Cli] = "promote" /\ loc'[Cli] = loc[Cli] /\ ~CliHandler
<1>0. /\ Cli \in Sockets
      /\ pc \in [Sockets -> {"idle", "reject"} \cup CliSteps \cup PhoneSteps]
      /\ loc \in [Sockets -> Values]
  BY SocketFacts DEF TypeOK, FramesOK
<1>1. CASE CliHandler
  <2>1. ASSUME NEW s \in Sessions, Commit(s) PROVE loc'[Cli] = s
    BY <1>0, <2>1 DEF Commit, Goto
  <2>2. CASE ~\E s \in Sessions : Commit(s)
    <3>1. CASE SubmitSelect
      <4>1. PICK step : step # "promote" /\ Goto(Cli, step, None)
        BY <3>1 DEF SubmitSelect, Verdict
      <4>2. QED
        BY <1>0, <4>1 DEF Goto
    <3>2. CASE ~SubmitSelect
      BY <1>0, <1>1, <2>2, <3>2 DEF CliHandler, HelloGetState, HelloSecret, HelloBind, Reject,
         Refuse, SubmitAttempt, SubmitInvalid, LockedDestroy, LockedSend, SubmitValid, Promote,
         Destroy, Forget, Done, Goto
    <3>3. QED
      BY <3>1, <3>2
  <2>3. QED
    BY <2>1, <2>2
<1>2. CASE ~CliHandler
  BY <1>2, SubmitStep DEF SubmitSteps, CliSteps, HelloSteps
<1>3. QED
  BY <1>1, <1>2

-----------------------------------------------------------------------------
\* GrantInv, part by part

\* The backend is comparing or has compared a code of the CLI's: the CLI waits for it.
LEMMA AtWorkOnCode ==
  ASSUME TypeOK, TurnInv, pc[Cli] \in SubmitSteps
  PROVE  /\ Speaks /\ ~HelloPending /\ up[Cli] = NoMsg
         /\ cli.phase \notin Early /\ ~Says(down[Cli], "code_invalid")
<1>1. CliTurn /\ pc[Cli] # "idle" /\ pc[Cli] \notin HelloSteps /\ ~Quiet(Cli)
  BY DEF TurnInv, SubmitSteps, CliSteps, Quiet
<1>2. SubmitPending /\ up[Cli] = NoMsg
  BY <1>1 DEF SubmitPending, CliTurn
<1>3. ~HelloPending
  BY <1>1, <1>2, UpKinds DEF HelloPending
<1>4. QED
  BY <1>1, <1>2, <1>3 DEF CliTurn, Early, Speaks

\* The transaction of completePairing is the first of the pairing, and for its claimant.
LEMMA CommitFirst ==
  ASSUME TypeOK, ClaimInv, TurnInv, CodeInv, GrantInv, NEW s \in Sessions, Commit(s)
  PROVE  /\ \A t \in Sessions : ~Granted(t)
         /\ loc[Cli] \in claimants /\ pc'[Cli] = "promote"
         /\ pc[Cli] \in SubmitSteps
         /\ UNCHANGED <<cli, phone, up, down, row, reg, claimants>>
<1>0. /\ Cli \in Sockets
      /\ pc \in [Sockets -> {"idle", "reject"} \cup CliSteps \cup PhoneSteps]
      /\ pc[Cli] = "commit" /\ loc[Cli] \in Phones /\ pc[Cli] \in SubmitSteps
  BY SocketFacts DEF TypeOK, FramesOK, FrameFits, Commit, SubmitSteps, CliSteps, HelloSteps
<1>1. row.state # "absent" /\ Speaks
  <2>1. row.code # NoCode
    BY <1>0 DEF CodeInv
  <2>2. QED
    BY <1>0, <2>1, AtWorkOnCode DEF CodeInv
<1>2. \A t \in Sessions : ~Granted(t)
  BY <1>0, <1>1 DEF GrantInv
<1>3. loc[Cli] \in claimants
  BY <1>0 DEF ClaimInv, Vouched, KeyInUse
<1>4. UNCHANGED <<cli, phone, down, row, reg, claimants, up>> /\ pc'[Cli] = "promote"
  BY <1>0 DEF Commit, OnlyStore, Goto, memory, clients
<1>5. QED
  BY <1>0, <1>2, <1>3, <1>4

\* A destroyed row does not come back.
LEMMA AbsentStays ==
  ASSUME TypeOK, [Next]_vars, row.state = "absent"
  PROVE  row'.state = "absent"
<1>1. row \in Rows
  BY DEF TypeOK, StoreOK
<1>2. QED
  BY <1>1, RowStep DEF ClaimSucceeds, SetCodeSucceeds, WithAttempt, NoRow, Rows

\* Once the CLI is past its prompt it comes back to it by code_invalid only, and says
\* cli_hello no more.
LEMMA EarlyStep ==
  ASSUME TypeOK, TurnInv, [Next]_vars
  PROVE  /\ cli'.phase \in Early => cli.phase \in Early \/ Says(down[Cli], "code_invalid")
         /\ HelloPending' => HelloPending \/ cli.phase \in Early
<1>0. /\ NetOK /\ cli \in CliStates /\ Cli \in Sockets /\ CliTurn
      /\ up \in [Sockets -> UpMsgs]
  BY SocketFacts DEF TypeOK, ClientsOK, TurnInv, NetOK
<1>1. CASE CliActs
  <2>0. UNCHANGED pc
    BY <1>1, CliClientFrame DEF CliActs
  <2>1. CASE CliCodeInvalid
    BY <1>0, <2>0, <2>1, ReadsHeard DEF CliCodeInvalid, HelloPending
  <2>2. CASE CliConnect \/ CliListen
    BY <1>0, <2>2 DEF CliConnect, CliListen, CliStates, Early
  <2>3. ASSUME NEW c \in Codes, CliSubmit(c)
        PROVE  cli.phase \in Early
    BY <2>3 DEF CliSubmit, Early
  <2>4. CASE CliPhoneClaimed
    BY <2>4 DEF CliPhoneClaimed, Early
  <2>5. CASE CliPaired \/ CliStartControl \/ CliIgnores
    <3>1. UNCHANGED up /\ (cli'.phase \in Early => cli.phase \in Early)
      BY <1>0, <2>5 DEF CliPaired, CliStartControl, CliIgnores, Reads, CliStates, Early, net, clients
    <3>2. QED
      BY <2>0, <3>1 DEF HelloPending
  <2>6. CASE CliGivesUp \/ CliMissesClose \/ CliExit \/ CliLosesConnection
    <3>1. (Unlinks(Cli) \/ Breaks(Cli)) /\ (cli'.phase \in Early => cli.phase \in Early)
      BY <1>0, <2>6 DEF CliGivesUp, CliMissesClose, CliExit, CliLosesConnection, CliStates, Early,
         clients
    <3>2. up'[Cli] \in {up[Cli], NoMsg}
      BY <1>0, <3>1, EndsHeard
    <3>3. QED
      BY <2>0, <3>1, <3>2, UpKinds DEF HelloPending
  <2>7. QED
    BY <1>1, <2>1, <2>2, <2>3, <2>4, <2>5, <2>6 DEF CliActs, CliReacts
<1>2. CASE CliHandler
  BY <1>2, CliHandlerFrame, CliHandlerTurn
<1>3. ASSUME NEW p \in Phones, PhoneHandler(p)
      PROVE  cli' = cli /\ (HelloPending' => HelloPending)
  BY <1>0, <1>3, PhoneHandlerFrame, SocketFacts DEF HelloPending
<1>4. ASSUME NEW k \in Sockets, CloseHandler(k)
      PROVE  cli' = cli /\ (HelloPending' => HelloPending)
  BY <1>4, CloseFrame DEF HelloPending
<1>5. ASSUME NEW p \in Phones, PageActs(p)
      PROVE  cli' = cli /\ (HelloPending' => HelloPending)
  BY <1>0, <1>5, PageFrame, SocketFacts DEF HelloPending, PageActs
<1>6. CASE Crash
  BY <1>0, <1>6, CrashFrame, UpKinds DEF HelloPending, HelloSteps
<1>7. CASE UNCHANGED <<cli, up, pc>>
  BY <1>7 DEF HelloPending
<1>8. QED
  BY <1>1, <1>2, <1>3, <1>4, <1>5, <1>6, <1>7, WhoSteps

\* With a session granted the pairing is over for the CLI: no second submission, no prompt.
GrantEnds(s) == Granted(s) =>
  /\ cli.phase \notin Early /\ ~HelloPending
  /\ ~Says(down[Cli], "code_invalid")
  /\ pc[Cli] \in {"promote", "destroy"} \/ row.state = "absent" \/ ~Speaks

\* It stays so, and is so when the transaction stores the session.
LEMMA GrantEndsStep ==
  ASSUME TypeOK, ClaimInv, TurnInv, CodeInv, GrantInv, [Next]_vars, NEW s \in Sessions
  PROVE  GrantEnds(s)'
<1> SUFFICES ASSUME Granted(s)'
             PROVE  /\ cli'.phase \notin Early /\ ~HelloPending'
                    /\ ~Says(down'[Cli], "code_invalid")
                    /\ pc'[Cli] \in {"promote", "destroy"} \/ row'.state = "absent" \/ ~Speaks'
  BY DEF GrantEnds
<1>0. /\ Cli \in Sockets
      /\ pc \in [Sockets -> {"idle", "reject"} \cup CliSteps \cup PhoneSteps]
  BY SocketFacts DEF TypeOK, FramesOK
<1>1. CASE Commit(s)
  <2>1. /\ pc[Cli] \in SubmitSteps /\ pc'[Cli] = "promote" /\ UNCHANGED <<cli, down, up>>
    BY <1>1, CommitFirst
  <2>2. /\ ~HelloPending /\ cli.phase \notin Early /\ ~Says(down[Cli], "code_invalid")
    BY <2>1, AtWorkOnCode
  <2>3. QED
    BY <2>1, <2>2 DEF HelloPending, HelloSteps
<1>2. CASE ~Commit(s)
  <2>1. Granted(s)
    BY <1>2, GrantedStays
  <2>2. /\ cli.phase \notin Early /\ ~HelloPending /\ ~Says(down[Cli], "code_invalid")
        /\ pc[Cli] \in {"promote", "destroy"} \/ row.state = "absent" \/ ~Speaks
        /\ sessions[s].key \in claimants
    BY <2>1 DEF GrantInv
  <2>3. cli'.phase \notin Early /\ ~HelloPending'
    BY <2>2, EarlyStep
  <2>4. ~Says(down'[Cli], "code_invalid")
    <3>1. SUFFICES ASSUME SubmitInvalid PROVE FALSE
      BY <1>0, <2>2, NewsStep DEF Says
    <3>2. pc[Cli] = "remaining" /\ pc[Cli] \in SubmitSteps /\ row.code # NoCode
      BY <3>1 DEF SubmitInvalid, CodeInv, SubmitSteps, CliSteps, HelloSteps
    <3>3. Speaks /\ row.state # "absent"
      BY <3>2, AtWorkOnCode DEF CodeInv
    <3>4. QED
      BY <2>2, <3>2, <3>3
  <2>5. CASE row.state = "absent"
    BY <2>3, <2>4, <2>5, AbsentStays
  <2>6. CASE pc[Cli] \in {"promote", "destroy"}
    <3>1. CASE CliHandler
      <4>1. Promote \/ Destroy
        <5>1. up[Cli] = NoMsg
          BY <2>6 DEF TurnInv, CliTurn
        <5>2. QED
          BY <2>6, <3>1, <5>1, UpKinds DEF CliHandler, HelloGetState, HelloSecret, HelloBind, Reject,
             SubmitSelect, SubmitAttempt, SubmitInvalid, LockedDestroy, LockedSend, SubmitValid,
             Commit, Forget
      <4>2. pc'[Cli] = "destroy" \/ row'.state = "absent"
        BY <1>0, <4>1 DEF Promote, Destroy, Goto, NoRow
      <4>3. QED
        BY <2>3, <2>4, <4>2
    <3>2. CASE ~CliHandler
      <4>1. pc'[Cli] = pc[Cli] \/ Crash
        <5>1. ASSUME NEW p \in Phones, PhoneHandler(p) PROVE pc'[Cli] = pc[Cli]
          BY <1>0, <5>1, PhoneHandlerFrame, SocketFacts
        <5>2. QED
          BY <3>2, <5>1, CloseFrame, CliClientFrame, PageFrame, WhoSteps DEF CliActs, PageActs
      <4>2. QED
        BY <2>3, <2>4, <2>6, <4>1, SpeaksStep
    <3>3. QED
      BY <3>1, <3>2
  <2>7. CASE ~Speaks
    <3>1. ASSUME NEW p \in Phones, ClaimBind(p) PROVE FALSE
      <4>1. p \in claimants /\ Claiming(p)
        BY <3>1, UncodedClaims DEF ClaimBind, Uncoded, Claiming, ClaimSteps
      <4>2. KeyInUse(p)
        BY <2>2, <4>1 DEF ClaimInv, KeyInUse
      <4>3. QED
        BY <4>1, <4>2 DEF TurnInv, PhoneTurn, Keyed
    <3>2. ~Speaks'
      BY <2>7, <3>1, SpeaksStep
    <3>3. QED
      BY <2>3, <2>4, <3>2
  <2>8. QED
    BY <2>2, <2>5, <2>6, <2>7
<1>3. QED
  BY <1>1, <1>2

\* What 'paired' tells a client is what the session's row says.
LEMMA PairedTrue ==
  ASSUME TypeOK, ClaimInv, TurnInv, GrantInv, [Next]_vars,
         NEW k \in Sockets, NEW m \in Range(down'[k]), m.type = "paired"
  PROVE  /\ Granted(m.val)' /\ m.val \in Sessions
         /\ k = Cli => sessions'[m.val].key = m.key
         /\ k # Cli => sessions'[m.val].key = k
<1>0. /\ k = Cli \/ k \in Phones
      /\ \A p \in Phones : p # None /\ p # Cli
      /\ down[k] \in Seq(DownMsgs)
  BY SocketFacts DEF TypeOK, NetOK
<1>1. CASE m \in Range(down[k])
  <2>1. m \in DownMsgs
    BY <1>0, <1>1 DEF Range
  <2>2. m.val \in Sessions
    BY <2>1, DownKinds
  <2>3. /\ k = Cli => Granted(m.val) /\ sessions[m.val].key = m.key
        /\ k # Cli => sessions[m.val].key = k
    BY <1>0, <1>1 DEF GrantInv
  <2>4. Granted(m.val)
    BY <1>0, <2>2, <2>3 DEF GrantInv
  <2>5. QED
    BY <2>2, <2>3, <2>4, GrantedStays
<1>2. CASE m \notin Range(down[k])
  <2>1. /\ Promote /\ k \in {reg.cliByPairing, reg.phoneByPairing}
        /\ loc[Cli] \in Sessions /\ m.val = loc[Cli]
        /\ k = Cli => m.key = sessions[loc[Cli]].key
    BY <1>2, NewsStep
  <2>2. Granted(loc[Cli]) /\ sessions[loc[Cli]].key \in Phones
    BY <2>1 DEF GrantInv, TurnInv, Promote
  <2>3. Granted(m.val)' /\ sessions'[m.val].key = sessions[m.val].key
    BY <2>1, <2>2, GrantedStays
  <2>4. ASSUME k # Cli PROVE sessions[loc[Cli]].key = k
    <3>1. k \in Phones /\ reg.cliByPairing # k
      BY <1>0, <2>4 DEF TypeOK, MemoryOK, Registries
    <3>2. Vouched(k) /\ Vouched(sessions[loc[Cli]].key)
      BY <2>1, <2>2, <3>1 DEF Vouched, OnFile, KeyInUse
    <3>3. QED
      BY <2>2, <3>1, <3>2, OneVouched
  <2>5. QED
    BY <2>1, <2>2, <2>3, <2>4
<1>3. QED
  BY <1>1, <1>2

\* What the CLI and the pages remember of a session is what 'paired' told them.
LEMMA RememberedStep ==
  ASSUME TypeOK, [Next]_vars
  PROVE  /\ \/ cli'.session = cli.session /\ cli'.key = cli.key
            \/ \E m \in Range(down[Cli]) : /\ m.type = "paired" /\ cli'.session = m.val
                                           /\ cli'.key = m.key
         /\ \A p \in Phones :
              \/ phone'[p].session = phone[p].session
              \/ \E m \in Range(down[p]) : m.type = "paired" /\ phone'[p].session = m.val
<1>0. /\ NetOK /\ cli \in CliStates /\ phone \in [Phones -> PhoneStates] /\ Cli \in Sockets
      /\ \A p \in Phones : p \in Sockets
  BY SocketFacts DEF TypeOK, ClientsOK
<1>1. CASE CliActs
  <2>1. phone' = phone
    BY <1>1, CliClientFrame DEF CliActs
  <2>2. CASE CliPaired
    <3>1. Head(down[Cli]) \in Range(down[Cli]) /\ Head(down[Cli]).type = "paired"
      BY <1>0, <2>2, ReadsHeard DEF CliPaired
    <3>2. cli'.session = Head(down[Cli]).val /\ cli'.key = Head(down[Cli]).key
      BY <1>0, <2>2 DEF CliPaired, CliStates
    <3>3. QED
      BY <2>1, <3>1, <3>2
  <2>3. CASE ~CliPaired
    <3>1. cli'.session = cli.session /\ cli'.key = cli.key
      BY <1>0, <1>1, <2>3 DEF CliActs, CliReacts, CliConnect, CliSubmit, CliListen, CliStartControl,
         CliPhoneClaimed, CliCodeInvalid, CliGivesUp, CliMissesClose, CliIgnores, CliExit,
         CliLosesConnection, CliStates, clients
    <3>2. QED
      BY <2>1, <3>1
  <2>4. QED
    BY <2>2, <2>3
<1>2. ASSUME NEW q \in Phones, PageActs(q), NEW p \in Phones
      PROVE  \/ phone'[p].session = phone[p].session
             \/ \E m \in Range(down[p]) : m.type = "paired" /\ phone'[p].session = m.val
  <2>1. CASE p # q
    BY <1>2, <2>1, PageFrame DEF PageActs
  <2>2. CASE p = q /\ PhonePaired(p)
    <3>1. Head(down[p]) \in Range(down[p]) /\ Head(down[p]).type = "paired"
      BY <1>0, <2>2, ReadsHeard DEF PhonePaired
    <3>2. phone'[p].session = Head(down[p]).val
      BY <1>0, <2>2 DEF PhonePaired, PhoneStates
    <3>3. QED
      BY <3>1, <3>2
  <2>3. CASE p = q /\ (PhoneEnds(p) \/ PhoneLosesConnection(p))
    BY <1>0, <2>3 DEF PhoneEnds, PhoneLosesConnection, Turn, PhoneStates
  <2>4. CASE p = q /\ ~PhonePaired(p) /\ ~PhoneEnds(p) /\ ~PhoneLosesConnection(p)
    BY <1>0, <1>2, <2>4 DEF PageActs, PhoneReacts, PhoneOpens, PhoneClaimed, PhoneSendsKey, PhoneCode,
       PhoneListens, PhoneLocked, PhoneIgnores, Turn, PhoneStates, clients
  <2>5. QED
    BY <2>1, <2>2, <2>3, <2>4
<1>3. ASSUME NEW q \in Phones, PageActs(q) PROVE cli' = cli
  BY <1>3, PageFrame DEF PageActs
<1>4. ASSUME ~CliActs, ~\E p \in Phones : PageActs(p) PROVE UNCHANGED <<cli, phone>>
  BY <1>4, CliHandlerFrame, PhoneHandlerFrame, CloseFrame, CrashFrame, WhoSteps
<1>5. QED
  BY <1>1, <1>2, <1>3, <1>4

\* Every step keeps GrantInv: a second transaction is out of reach, and whoever hears of the
\* session hears of the one there is.
LEMMA GrantStep ==
  ASSUME TypeOK, ClaimInv, TurnInv, CodeInv, GrantInv, [Next]_vars
  PROVE  GrantInv'
<1>0. /\ claimants \subseteq Phones /\ claimants \subseteq claimants'
      /\ cli \in CliStates /\ phone \in [Phones -> PhoneStates]
      /\ \A p \in Phones : p \in Sockets /\ p # Cli /\ p # None
      /\ Cli \in Sockets
      /\ down \in [Sockets -> Seq(DownMsgs)]
  BY ClaimsStay, SocketFacts DEF TypeOK, HistoryOK, ClientsOK, NetOK
<1>1. ASSUME NEW s \in Sessions, Granted(s)'
      PROVE  sessions'[s].key \in claimants'
  <2>1. CASE Granted(s)
    BY <1>0, <2>1, GrantedStays DEF GrantInv
  <2>2. CASE Commit(s)
    BY <1>0, <2>2, CommitFirst DEF Commit, TypeOK, StoreOK
  <2>3. QED
    BY <1>1, <2>1, <2>2, GrantedStays
<1>2. ASSUME NEW s \in Sessions, NEW t \in Sessions, Granted(s)', Granted(t)'
      PROVE  s = t
  <2>1. CASE Granted(s) /\ Granted(t)
    BY <2>1 DEF GrantInv
  <2>2. CASE Commit(s)
    <3>1. ~Granted(t) /\ sessions' = [sessions EXCEPT ![s] = [status |-> "active", key |-> loc[Cli]]]
      BY <2>2, CommitFirst DEF Commit
    <3>2. s # t => ~Granted(t)'
      BY <3>1 DEF Granted, TypeOK, StoreOK
    <3>3. QED
      BY <1>2, <3>2
  <2>3. CASE Commit(t)
    <3>1. ~Granted(s) /\ sessions' = [sessions EXCEPT ![t] = [status |-> "active", key |-> loc[Cli]]]
      BY <2>3, CommitFirst DEF Commit
    <3>2. s # t => ~Granted(s)'
      BY <3>1 DEF Granted, TypeOK, StoreOK
    <3>3. QED
      BY <1>2, <3>2
  <2>4. QED
    BY <1>2, <2>1, <2>2, <2>3, GrantedStays
<1>3. pc'[Cli] = "promote" => Granted(loc[Cli])'
  <2>1. ASSUME NEW s \in Sessions, Commit(s), loc'[Cli] = s PROVE Granted(loc[Cli])'
    BY <2>1 DEF Commit, Granted, TypeOK, StoreOK
  <2>2. ASSUME pc[Cli] = "promote", loc'[Cli] = loc[Cli] PROVE Granted(loc[Cli])'
    <3>1. loc[Cli] \in Sessions /\ Granted(loc[Cli])
      BY <1>0, <2>2 DEF GrantInv, TypeOK, FramesOK, FrameFits
    <3>2. sessions'[loc[Cli]].status # "unused"
      BY <3>1, GrantedStays DEF Granted
    <3>3. QED
      BY <2>2, <3>2 DEF Granted
  <2>3. QED
    BY <2>1, <2>2, PromoteStep
<1>4. \A s \in Sessions : GrantEnds(s)'
  BY GrantEndsStep
<1>5. ASSUME NEW m \in Range(down'[Cli]), m.type = "paired"
      PROVE  Granted(m.val)' /\ sessions'[m.val].key = m.key
  BY <1>0, <1>5, PairedTrue
<1>6. ASSUME NEW p \in Phones, NEW m \in Range(down'[p]), m.type = "paired"
      PROVE  sessions'[m.val].key = p
  BY <1>0, <1>6, PairedTrue
<1>7. ASSUME cli'.session # None
      PROVE  Granted(cli.session)' /\ sessions'[cli'.session].key = cli'.key
  <2>1. CASE cli'.session = cli.session /\ cli'.key = cli.key
    <3>1. cli.session \in Sessions
      BY <1>0, <1>7, <2>1 DEF CliStates
    <3>2. Granted(cli.session) /\ sessions[cli.session].key = cli.key
      BY <1>7, <2>1 DEF GrantInv
    <3>3. QED
      BY <2>1, <3>1, <3>2, GrantedStays DEF Granted
  <2>2. ASSUME NEW m \in Range(down[Cli]), m.type = "paired", cli'.session = m.val,
               cli'.key = m.key
        PROVE  Granted(cli.session)' /\ sessions'[cli'.session].key = cli'.key
    <3>1. m.val \in Sessions
      <4>1. m \in DownMsgs
        BY <1>0 DEF Range
      <4>2. QED
        BY <2>2, <4>1, DownKinds
    <3>2. Granted(m.val) /\ sessions[m.val].key = m.key
      BY <2>2 DEF GrantInv
    <3>3. QED
      BY <2>2, <3>1, <3>2, GrantedStays DEF Granted
  <2>3. QED
    BY <2>1, <2>2, RememberedStep
<1>8. ASSUME NEW p \in Phones, phone'[p].session # None
      PROVE  sessions'[phone'[p].session].key = p
  <2>1. CASE phone'[p].session = phone[p].session
    <3>1. phone[p].session \in Sessions
      BY <1>0, <1>8, <2>1 DEF PhoneStates
    <3>2. sessions[phone[p].session].key = p
      BY <1>8, <2>1 DEF GrantInv
    <3>3. Granted(phone[p].session)
      BY <1>0, <3>1, <3>2 DEF GrantInv
    <3>4. QED
      BY <2>1, <3>1, <3>2, <3>3, GrantedStays
  <2>2. ASSUME NEW m \in Range(down[p]), m.type = "paired", phone'[p].session = m.val
        PROVE  sessions'[phone'[p].session].key = p
    <3>1. m.val \in Sessions
      <4>1. m \in DownMsgs
        BY <1>0 DEF Range
      <4>2. QED
        BY <2>2, <4>1, DownKinds
    <3>2. sessions[m.val].key = p
      BY <2>2 DEF GrantInv
    <3>3. Granted(m.val)
      BY <1>0, <3>1, <3>2 DEF GrantInv
    <3>4. QED
      BY <2>2, <3>1, <3>2, <3>3, GrantedStays
  <2>3. QED
    BY <2>1, <2>2, RememberedStep
<1>9. ASSUME NEW s \in Sessions, ~Granted(s)' PROVE sessions'[s].key = None
  BY <1>9, GrantedStays DEF GrantInv, Granted
<1>10. QED
  BY <1>1, <1>2, <1>3, <1>4, <1>5, <1>6, <1>7, <1>8, <1>9 DEF GrantInv, GrantEnds

\* No session is granted at first, and nobody was told of one.
LEMMA GrantInit == Init => GrantInv
<1> SUFFICES ASSUME Init PROVE GrantInv
  OBVIOUS
<1>1. /\ \A s \in Sessions : sessions[s].status = "unused" /\ sessions[s].key = None
      /\ Cli \in Sockets /\ pc[Cli] = "idle" /\ cli.session = None
      /\ \A p \in Phones : p \in Sockets /\ phone[p].session = None
      /\ \A k \in Sockets : \A t : ~Says(down[k], t)
  BY SocketFacts, HeardNothing DEF Init
<1>2. QED
  BY <1>1 DEF GrantInv, Granted, Says

\* GrantInv implies the property.
LEMMA GrantInvSuffices == TypeOK /\ GrantInv => SessionAgreement
<1> SUFFICES ASSUME TypeOK, GrantInv PROVE SessionAgreement
  OBVIOUS
<1>1. /\ cli.session \in Sessions \cup {None}
      /\ \A p \in Phones : phone[p].session \in Sessions \cup {None} /\ p # None
  BY SocketFacts DEF TypeOK, ClientsOK, CliStates, PhoneStates
<1>2. QED
  BY <1>1 DEF GrantInv, SessionAgreement

\* At most one session comes of a pairing, with the claimant's key, and whoever was told of
\* one was told of that one.
THEOREM GrantInvariant == Spec => []GrantInv
  BY GrantInit, GrantStep, TypeCorrect, ClaimInvariant, TurnInvariant, CodeInvariant, PTL DEF Spec

\* The CLI and the phone agree on the session and on the key they were paired with, and it
\* is the key of the phone that claimed the link (pairing-complete.ts).
THEOREM AlwaysAgreed == Spec => []SessionAgreement
  BY GrantInvariant, GrantInvSuffices, TypeCorrect, PTL

-----------------------------------------------------------------------------
\* GuessInv: the CLI's count of its submissions and the row's count of the attempts

Prompting == {"init", "connecting", "waiting_phone"}

\* What moves the CLI to its prompt, and what it submits there.
LEMMA TriesStep ==
  ASSUME TypeOK, [Next]_vars
  PROVE  /\ cli'.tries = cli.tries \/ \E c \in Codes : CliSubmit(c)
         /\ cli'.phase \in Prompting => cli.phase \in Prompting /\ cli'.tries = cli.tries
         /\ cli'.phase = "entering_code" =>
              /\ cli'.tries = cli.tries
              /\ cli.phase = "entering_code" \/ CliPhoneClaimed \/ CliCodeInvalid
         /\ up'[Cli].type = "code_submit" =>
              up[Cli].type = "code_submit" \/ \E c \in Codes : CliSubmit(c)
<1>0. /\ NetOK /\ cli \in CliStates /\ Cli \in Sockets
      /\ up \in [Sockets -> UpMsgs]
  BY SocketFacts DEF TypeOK, ClientsOK, NetOK
<1>1. CASE CliActs
  <2>1. CASE \E c \in Codes : CliSubmit(c)
    BY <1>0, <2>1 DEF CliSubmit, CliStates, Prompting
  <2>2. CASE CliConnect \/ CliListen \/ CliStartControl
    BY <1>0, <2>2, UpKinds DEF CliConnect, CliListen, CliStartControl, CliStates, Prompting, Opens, net
  <2>3. CASE CliPhoneClaimed \/ CliCodeInvalid
    BY <1>0, <2>3 DEF CliPhoneClaimed, CliCodeInvalid, Reads, CliStates, Prompting
  <2>4. CASE CliPaired \/ CliIgnores
    BY <1>0, <2>4 DEF CliPaired, CliIgnores, Reads, CliStates, Prompting, clients
  <2>5. CASE CliGivesUp \/ CliMissesClose \/ CliExit \/ CliLosesConnection
    <3>1. (Unlinks(Cli) \/ Breaks(Cli)) /\ cli'.phase \in {cli.phase, "gone"}
          /\ cli'.tries = cli.tries
      BY <1>0, <2>5 DEF CliGivesUp, CliMissesClose, CliExit, CliLosesConnection, CliStates,
         clients
    <3>2. up'[Cli] \in {up[Cli], NoMsg}
      BY <1>0, <3>1, EndsHeard
    <3>3. QED
      BY <3>1, <3>2, UpKinds DEF Prompting
  <2>6. QED
    BY <1>1, <2>1, <2>2, <2>3, <2>4, <2>5 DEF CliActs, CliReacts
<1>2. CASE ~CliActs
  <2>1. ASSUME NEW p \in Phones, PhoneHandler(p) PROVE cli' = cli /\ up'[Cli] = up[Cli]
    BY <1>0, <2>1, PhoneHandlerFrame, SocketFacts
  <2>2. ASSUME NEW p \in Phones, PageActs(p) PROVE cli' = cli /\ up'[Cli] = up[Cli]
    BY <1>0, <2>2, PageFrame, SocketFacts DEF PageActs
  <2>3. cli' = cli /\ up'[Cli] \in {up[Cli], NoMsg}
    BY <1>0, <1>2, <2>1, <2>2, CliHandlerFrame, CloseFrame, CrashFrame, WhoSteps
  <2>4. QED
    BY <2>3, UpKinds
<1>3. QED
  BY <1>1, <1>2

\* The row's count changes by an attempt, and when the row goes.
LEMMA AttemptsStep ==
  ASSUME TypeOK, ClaimInv, TurnInv, CodeInv, GuessInv, [Next]_vars
  PROVE  /\ row'.code = NoCode => row'.attempts = 0
         /\ \/ row'.attempts = row.attempts
            \/ SubmitAttempt /\ row'.attempts = row.attempts + 1
            \/ (LockedDestroy \/ Destroy) /\ row'.attempts = 0
<1>0. row \in Rows /\ NoCode \notin Codes
  BY StoreParameters DEF TypeOK, StoreOK
<1>1. CASE row' = row
  BY <1>1 DEF GuessInv
<1>2. CASE row' = ClaimedRow(row)
  BY <1>0, <1>2 DEF ClaimedRow, Rows, GuessInv
<1>3. ASSUME NEW p \in Phones, PushSetCode(p), row' = WithCode(row, loc[p])
      PROVE  row'.attempts = row.attempts /\ row'.code # NoCode
  <2>1. loc[p] \in Codes
    BY <1>3, SocketFacts DEF PushSetCode, TypeOK, FramesOK, FrameFits
  <2>2. row.code = NoCode /\ row.attempts = 0
    BY <1>3 DEF PushSetCode, CodeInv, Uncoded, GuessInv
  <2>3. QED
    BY <1>0, <1>3, <2>1, <2>2 DEF WithCode, Rows
<1>4. CASE SubmitAttempt /\ row' = WithAttempt(row)
  <2>1. row.code # NoCode /\ row.state = "claimed"
    BY <1>4 DEF SubmitAttempt, CodeInv, SubmitSteps, CliSteps, HelloSteps
  <2>2. QED
    BY <1>0, <1>4, <2>1 DEF WithAttempt, Rows
<1>5. CASE (LockedDestroy \/ Destroy) /\ row' = NoRow
  BY <1>5 DEF NoRow
<1>6. QED
  BY <1>1, <1>2, <1>3, <1>4, <1>5, RowStep

\* Every step keeps GuessInv.
LEMMA GuessStep ==
  ASSUME TypeOK, ClaimInv, TurnInv, CodeInv, GrantInv, GuessInv, [Next]_vars
  PROVE  GuessInv'
<1>0. /\ row.attempts \in Nat /\ cli.tries \in Nat /\ MaxAttempts \in Nat \ {0}
      /\ Cli \in Sockets /\ CliTurn
      /\ pc \in [Sockets -> {"idle", "reject"} \cup CliSteps \cup PhoneSteps]
      /\ loc \in [Sockets -> Values]
  BY SocketFacts, StoreParameters DEF TypeOK, StoreOK, FramesOK, ClientsOK, Rows, CliStates, TurnInv
<1>1. pc[Cli] = "idle" => row'.attempts = row.attempts
  BY AttemptsStep DEF SubmitAttempt, LockedDestroy, Destroy
<1>2. ~CliHandler => row'.attempts = row.attempts
  BY AttemptsStep DEF CliHandler
<1>3. CliHandler => cli' = cli
  BY CliHandlerFrame
<1>4. ASSUME NEW c \in Codes, CliSubmit(c)
      PROVE  /\ cli.phase = "entering_code" /\ Quiet(Cli) /\ cli'.phase = "waiting_paired"
             /\ cli'.tries = row.attempts + 1 /\ row.attempts <= MaxAttempts
             /\ row' = row /\ pc' = pc /\ down' = down
             /\ ~Says(down[Cli], "code_invalid")
  <2>1. cli.phase = "entering_code" /\ cli'.phase = "waiting_paired" /\ cli'.tries = cli.tries + 1
        /\ row' = row /\ pc' = pc /\ down' = down
    BY <1>0, <1>4 DEF CliSubmit, TypeOK, ClientsOK, CliStates, OnlyClients, store, frames
  <2>2. QED
    BY <1>0, <2>1 DEF GuessInv, CliTurn
<1>5. pc[Cli] \in SubmitSteps => cli'.tries = cli.tries
  BY <1>4, TriesStep DEF Quiet, SubmitSteps, CliSteps
<1>6. cli'.phase \in Prompting => cli'.tries = 0 /\ row'.attempts = 0
  <2>1. SUFFICES ASSUME cli.phase \in Prompting, cli'.tries = cli.tries PROVE cli'.tries = 0 /\ row'.attempts = 0
    BY TriesStep
  <2>2. cli.tries = 0 /\ row.attempts = 0
    BY <2>1 DEF GuessInv, Prompting
  <2>3. ~SubmitAttempt
    BY <2>1, AtWorkOnCode DEF SubmitAttempt, SubmitSteps, CliSteps, HelloSteps, Prompting, Early
  <2>4. QED
    BY <2>1, <2>2, <2>3, AttemptsStep
<1>7. cli'.phase = "entering_code" => cli'.tries = row'.attempts /\ row'.attempts <= MaxAttempts
  <2>1. SUFFICES ASSUME cli'.phase = "entering_code", cli'.tries = cli.tries
                 PROVE  cli'.tries = row'.attempts /\ row'.attempts <= MaxAttempts
    BY TriesStep
  <2>2. CASE cli.phase = "entering_code"
    BY <1>0, <1>1, <2>1, <2>2 DEF CliTurn, Quiet, GuessInv
  <2>3. CASE CliPhoneClaimed
    BY <1>0, <2>1, <2>3 DEF CliPhoneClaimed, OnlyClients, store, GuessInv
  <2>4. CASE CliCodeInvalid
    BY <1>0, <2>1, <2>4, ReadsHeard DEF CliCodeInvalid, OnlyClients, store, GuessInv, TypeOK
  <2>5. QED
    BY <2>1, <2>2, <2>3, <2>4, TriesStep
<1>8. Says(down'[Cli], "code_invalid") => cli'.tries = row'.attempts /\ row'.attempts <= MaxAttempts
  <2>1. CASE Says(down[Cli], "code_invalid")
    <3>1. pc[Cli] = "idle" /\ cli'.tries = cli.tries
      BY <1>0, <1>4, <2>1, TriesStep DEF CliTurn, Quiet
    <3>2. QED
      BY <1>1, <2>1, <3>1 DEF GuessInv
  <2>2. CASE SubmitInvalid
    <3>1. pc[Cli] = "remaining" /\ row' = row /\ cli' = cli
      BY <2>2 DEF SubmitInvalid, store, clients
    <3>2. QED
      BY <3>1 DEF GuessInv
  <2>3. QED
    BY <1>0, <2>1, <2>2, NewsStep DEF Says
<1>9. ASSUME pc'[Cli] \in {"valid", "remaining", "commit", "promote", "destroy"}
      PROVE  cli'.tries = row'.attempts /\ row'.attempts <= MaxAttempts
  <2>0. pc'[Cli] \in SubmitSteps
    BY <1>9 DEF SubmitSteps, CliSteps, HelloSteps
  <2>1. CASE ~CliHandler
    <3>1. pc'[Cli] = pc[Cli]
      BY <2>0, <2>1, SubmitStep
    <3>2. QED
      BY <1>2, <1>5, <1>9, <2>0, <2>1, <3>1 DEF GuessInv
  <2>2. CASE SubmitAttempt
    <3>1. row'.attempts = row.attempts + 1 /\ cli' = cli
      <4>1. row.code # NoCode /\ row.state = "claimed" /\ row \in Rows
        BY <2>2 DEF SubmitAttempt, CodeInv, SubmitSteps, CliSteps, HelloSteps, TypeOK, StoreOK
      <4>2. QED
        BY <2>2, <4>1 DEF SubmitAttempt, WithAttempt, Rows, OnlyStore, clients
    <3>2. cli.tries = row.attempts + 1 /\ row.attempts < MaxAttempts
      BY <2>2 DEF SubmitAttempt, GuessInv
    <3>3. QED
      BY <1>0, <3>1, <3>2
  <2>3. CASE SubmitValid \/ (\E s \in Sessions : Commit(s)) \/ Promote
    <3>1. row' = row /\ cli' = cli /\ pc[Cli] \in {"valid", "commit", "promote"}
      BY <2>3 DEF SubmitValid, Commit, Promote, OnlyStore, store, clients
    <3>2. QED
      BY <3>1 DEF GuessInv
  <2>4. CASE SubmitSelect
    <3>1. PICK step \in {"reject", "locked_destroy", "attempt_valid", "attempt_invalid"} :
             Goto(Cli, step, None)
      BY <2>4 DEF SubmitSelect, Verdict
    <3>2. QED
      BY <1>0, <1>9, <3>1 DEF Goto
  <2>5. CASE HelloGetState \/ HelloSecret \/ HelloBind \/ Reject(Cli) \/ SubmitInvalid
               \/ LockedDestroy \/ LockedSend \/ Destroy \/ Forget
    BY <1>0, <1>9, <2>5 DEF HelloGetState, HelloSecret, HelloBind, Reject, Refuse, SubmitInvalid,
       LockedDestroy, LockedSend, Destroy, Forget, Done, Goto
  <2>6. QED
    BY <2>1, <2>2, <2>3, <2>4, <2>5 DEF CliHandler
<1>10. up'[Cli].type = "code_submit" => cli'.tries = row'.attempts + 1
  <2>1. ASSUME NEW c \in Codes, CliSubmit(c) PROVE cli'.tries = row'.attempts + 1
    BY <1>4, <2>1
  <2>2. CASE up[Cli].type = "code_submit"
    <3>1. pc[Cli] = "idle" /\ up[Cli] # NoMsg
      BY <1>0, <2>2, UpKinds DEF CliTurn
    <3>2. cli'.tries = cli.tries
      BY <1>4, <3>1, TriesStep DEF Quiet
    <3>3. QED
      BY <1>1, <2>2, <3>1, <3>2 DEF GuessInv
  <2>3. QED
    BY <2>1, <2>2, TriesStep
<1>11. ASSUME pc'[Cli] \in {"attempt_valid", "attempt_invalid"}
       PROVE  cli'.tries = row'.attempts + 1 /\ row'.attempts < MaxAttempts
  <2>0. pc'[Cli] \in SubmitSteps
    BY <1>11 DEF SubmitSteps, CliSteps, HelloSteps
  <2>1. CASE ~CliHandler
    <3>1. pc'[Cli] = pc[Cli]
      BY <2>0, <2>1, SubmitStep
    <3>2. QED
      BY <1>2, <1>5, <1>11, <2>0, <2>1, <3>1 DEF GuessInv
  <2>2. CASE CliHandler
    <3>1. SubmitSelect
      BY <1>11, <2>0, <2>2, SubmitOrder
    <3>2. row' = row /\ cli' = cli /\ up[Cli].type = "code_submit"
      BY <3>1 DEF SubmitSelect, OnlyStore, clients
    <3>3. row.attempts < MaxAttempts
      <4>1. SUFFICES ASSUME row.attempts >= MaxAttempts PROVE FALSE
        BY <1>0
      <4>2. PICK step \in {"reject", "locked_destroy"} : Goto(Cli, step, None)
        BY <3>1, <4>1 DEF SubmitSelect, Verdict
      <4>3. QED
        BY <1>0, <1>11, <4>2 DEF Goto
    <3>4. QED
      BY <3>2, <3>3 DEF GuessInv
  <2>3. QED
    BY <2>1, <2>2
<1>12. cli'.tries <= MaxAttempts + 1
  <2>1. ASSUME NEW c \in Codes, CliSubmit(c) PROVE cli'.tries <= MaxAttempts + 1
    BY <1>0, <1>4, <2>1
  <2>2. QED
    BY <2>1, TriesStep DEF GuessInv
<1>13. ASSUME NEW s \in Sessions, Granted(s)' PROVE cli'.tries <= MaxAttempts
  <2>1. CASE Granted(s)
    <3>1. cli.phase # "entering_code"
      BY <2>1 DEF GrantInv, Early
    <3>2. QED
      BY <1>4, <2>1, <3>1, TriesStep DEF GuessInv
  <2>2. CASE Commit(s)
    BY <1>0, <2>2, CommitFirst DEF Commit, GuessInv
  <2>3. QED
    BY <1>13, <2>1, <2>2, GrantedStays
<1>14. QED
  BY <1>6, <1>7, <1>8, <1>9, <1>10, <1>11, <1>12, <1>13, AttemptsStep DEF GuessInv, Prompting

\* Nothing was tried at first.
LEMMA GuessInit == Init => GuessInv
<1> SUFFICES ASSUME Init PROVE GuessInv
  OBVIOUS
<1>1. /\ row.attempts = 0 /\ cli.tries = 0 /\ cli.phase = "init" /\ MaxAttempts \in Nat \ {0}
      /\ Cli \in Sockets /\ pc[Cli] = "idle" /\ ~Says(down[Cli], "code_invalid")
      /\ up[Cli].type = "none" /\ \A s \in Sessions : ~Granted(s)
  BY SocketFacts, HeardNothing, StoreParameters, UpKinds DEF Init, CreatedRow, Granted
<1>2. QED
  BY <1>1 DEF GuessInv

\* GuessInv implies the property.
LEMMA GuessInvSuffices == TypeOK /\ GuessInv => GuessesBounded
<1> SUFFICES ASSUME TypeOK, GuessInv PROVE GuessesBounded
  OBVIOUS
<1>1. cli.tries \in Nat /\ MaxAttempts \in Nat
  BY StoreParameters DEF TypeOK, ClientsOK, CliStates
<1>2. QED
  BY <1>1 DEF GuessInv, GuessesBounded, Granted

\* The row counts every attempt the CLI makes, whatever else happens between them.
THEOREM GuessInvariant == Spec => []GuessInv
  BY GuessInit, GuessStep, TypeCorrect, ClaimInvariant, TurnInvariant, CodeInvariant,
     GrantInvariant, PTL DEF Spec

\* The submission after MaxAttempts ones is the last, and it does not pair (validateCode).
THEOREM GuessesAlwaysBounded == Spec => []GuessesBounded
  BY GuessInvariant, GuessInvSuffices, TypeCorrect, PTL

-----------------------------------------------------------------------------
\* The refinement: a pairing keeps PairingContract.

\* The phone that the contract names as the owner.
Owner == IF claimants = {} THEN None ELSE CHOOSE p \in claimants : TRUE

\* Of one claimant there is no choice.
LEMMA OwnerIs ==
  ASSUME NEW p \in claimants, ClaimInv
  PROVE  Owner = p
<1>1. claimants # {} /\ Owner \in claimants
  BY DEF Owner
<1>2. QED
  BY <1>1 DEF ClaimInv

\* What changes neither the claimants nor the sessions, and neither makes nor destroys the
\* row, is hidden from the contract.
LEMMA Hides ==
  ASSUME claimants' = claimants, sessions' = sessions,
         row'.state = "absent" <=> row.state = "absent"
  PROVE  UNCHANGED Contract!contractVars
  BY DEF Contract!contractVars

\* claim() that succeeds takes the link, for the first time.
LEMMA ClaimTakes ==
  ASSUME TypeOK, ClaimInv, ClaimInv', NEW p \in Phones, ClaimUpdate(p), ClaimSucceeds(row)
  PROVE  Contract!Take(p)
<1>1. claimants = {} /\ row.state = "pending"
  BY DEF ClaimInv, ClaimSucceeds
<1>2. claimants' = {p} /\ row' = ClaimedRow(row) /\ sessions' = sessions
  BY <1>1 DEF ClaimUpdate
<1>3. row'.state = "claimed"
  BY <1>2 DEF ClaimedRow, Rows, TypeOK, StoreOK
<1>4. (IF claimants' = {} THEN None ELSE CHOOSE q \in claimants' : TRUE) = p
  BY <1>2
<1>5. QED
  BY <1>1, <1>2, <1>3, <1>4 DEF Contract!Take

\* The transaction of completePairing grants the one session, to the owner.
LEMMA CommitGrants ==
  ASSUME TypeOK, ClaimInv, TurnInv, CodeInv, GrantInv, NEW s \in Sessions, Commit(s)
  PROVE  Contract!Grant(s)
<1>1. /\ \A t \in Sessions : ~Granted(t)
      /\ loc[Cli] \in claimants /\ pc[Cli] = "commit"
      /\ UNCHANGED <<row, claimants>>
  BY CommitFirst DEF Commit
<1>2. loc[Cli] # None /\ Owner = loc[Cli]
  BY <1>1, OwnerIs, RegistryNames DEF TypeOK, HistoryOK
<1>3. row.state # "absent"
  BY <1>1 DEF CodeInv, SubmitSteps, CliSteps, HelloSteps
<1>4. sessions = [t \in Sessions |-> Contract!Unused]
  <2>1. ASSUME NEW t \in Sessions PROVE sessions[t] = [status |-> "unused", key |-> None]
    BY <1>1 DEF TypeOK, StoreOK, Sessionlike, Granted, GrantInv
  <2>2. QED
    BY <2>1 DEF TypeOK, StoreOK, Contract!Unused
<1>5. sessions' = [sessions EXCEPT ![s] = [status |-> "active", key |-> Owner]]
  BY <1>2 DEF Commit
<1>6. Owner # None
  BY <1>2
<1>7. QED
  BY <1>1, <1>3, <1>4, <1>5, <1>6 DEF Contract!Grant, Owner

\* A step of the CLI's handlers is a grant, the end of the pairing, or nothing.
LEMMA CliHandlerContract ==
  ASSUME TypeOK, ClaimInv, TurnInv, CodeInv, GrantInv, CliHandler
  PROVE  [Contract!Next]_(Contract!contractVars)
<1>0. row \in Rows /\ claimants' = claimants
  BY CliHandlerFrame DEF TypeOK, StoreOK
<1>1. ASSUME NEW s \in Sessions, Commit(s) PROVE Contract!Next
  BY <1>1, CommitGrants DEF Contract!Next
<1>2. CASE LockedDestroy \/ Destroy
  <2>1. row.state = "claimed" /\ row'.state = "absent" /\ sessions' = sessions
    BY <1>2 DEF LockedDestroy, Destroy, NoRow, CodeInv, SubmitSteps, CliSteps, HelloSteps
  <2>2. QED
    BY <1>0, <2>1 DEF Contract!Next, Contract!Void
<1>3. CASE SubmitAttempt
  <2>1. row'.state = row.state /\ sessions' = sessions
    BY <1>0, <1>3 DEF SubmitAttempt, WithAttempt, Rows
  <2>2. QED
    BY <1>0, <2>1, Hides
<1>4. CASE \/ HelloGetState \/ HelloSecret \/ HelloBind \/ Reject(Cli) \/ SubmitSelect
           \/ SubmitInvalid \/ LockedSend \/ SubmitValid \/ Promote \/ Forget
  <2>1. row' = row /\ sessions' = sessions
    BY <1>4 DEF HelloGetState, HelloSecret, HelloBind, Reject, SubmitSelect, SubmitInvalid,
       LockedSend, SubmitValid, Promote, Forget, store
  <2>2. QED
    BY <1>0, <2>1, Hides
<1>5. QED
  BY <1>1, <1>2, <1>3, <1>4 DEF CliHandler

\* A step of a phone's handlers takes the link, or nothing.
LEMMA PhoneHandlerContract ==
  ASSUME TypeOK, ClaimInv, ClaimInv', NEW p \in Phones, PhoneHandler(p)
  PROVE  [Contract!Next]_(Contract!contractVars)
<1>0. row \in Rows /\ sessions' = sessions
  BY PhoneHandlerFrame DEF TypeOK, StoreOK
<1>1. CASE ClaimUpdate(p) /\ ClaimSucceeds(row)
  BY <1>1, ClaimTakes DEF Contract!Next
<1>2. CASE PushSetCode(p)
  <2>1. (row'.state = "absent" <=> row.state = "absent") /\ claimants' = claimants
    BY <1>0, <1>2 DEF PushSetCode, SetCodeSucceeds, WithCode, Rows
  <2>2. QED
    BY <1>0, <2>1, Hides
<1>3. CASE \/ ClaimUpdate(p) /\ ~ClaimSucceeds(row)
           \/ ClaimGetState(p) \/ ClaimSelect(p) \/ ClaimBind(p) \/ Reject(p) \/ PublicKey(p)
           \/ PushSend(p)
  <2>1. row' = row /\ claimants' = claimants
    BY <1>3 DEF ClaimUpdate, ClaimGetState, ClaimSelect, ClaimBind, Reject, PublicKey, PushSend,
       store, history
  <2>2. QED
    BY <1>0, <2>1, Hides
<1>4. QED
  BY <1>1, <1>2, <1>3 DEF PhoneHandler

\* A close handler ends the session, or nothing.
LEMMA CloseContract ==
  ASSUME TypeOK, NEW k \in Sockets, CloseHandler(k)
  PROVE  [Contract!Next]_(Contract!contractVars)
<1>0. UNCHANGED <<row, claimants>>
  BY CloseFrame
<1>1. CASE EndUpdate(k) /\ sessions[closing[k].session].status = "active"
  <2>1. closing[k].session \in Sessions
    BY <1>1, RegistryNames DEF EndUpdate, TypeOK, FramesOK, NotClosing
  <2>2. Contract!End(closing[k].session)
    BY <1>0, <1>1 DEF EndUpdate, Contract!End
  <2>3. QED
    BY <2>1, <2>2 DEF Contract!Next
<1>2. CASE sessions' = sessions
  BY <1>0, <1>2, Hides
<1>3. QED
  BY <1>1, <1>2 DEF CloseHandler, SocketClose, EndUpdate, EndNotify, store

\* Every step is one of the contract's, or shows nothing.
LEMMA NextContract ==
  ASSUME TypeOK, ClaimInv, ClaimInv', TurnInv, CodeInv, GrantInv, [Next]_vars
  PROVE  [Contract!Next]_(Contract!contractVars)
<1>1. CASE UNCHANGED <<row, sessions, claimants>>
  BY <1>1, Hides
<1>2. CliActs => UNCHANGED <<row, sessions, claimants>>
  BY CliClientFrame DEF CliActs
<1>3. \A p \in Phones : PageActs(p) => UNCHANGED <<row, sessions, claimants>>
  BY PageFrame DEF PageActs
<1>4. Crash => UNCHANGED <<row, sessions, claimants>>
  BY CrashFrame
<1>5. QED
  BY <1>1, <1>2, <1>3, <1>4, CliHandlerContract, PhoneHandlerContract, CloseContract, WhoSteps

\* A fresh pairing is a fresh pairing of the contract.
LEMMA InitContract == Init => Contract!Init
  BY DEF Init, CreatedRow, Contract!Init, Contract!Unused

(***************************************************************************)
(* Clients, handlers and every fault together do nothing but what          *)
(* PairingContract lets a pairing do: the link is taken once, by one phone,*)
(* one session at most comes of it, bound to that phone, and none after    *)
(* the pairing was destroyed.                                              *)
(***************************************************************************)
THEOREM PairingContractKept == Spec => KeepsContract
<1>1. Spec => [](TypeOK /\ ClaimInv /\ TurnInv /\ CodeInv /\ GrantInv)
  BY TypeCorrect, ClaimInvariant, TurnInvariant, CodeInvariant, GrantInvariant, PTL
<1>2. TypeOK /\ ClaimInv /\ ClaimInv' /\ TurnInv /\ CodeInv /\ GrantInv /\ [Next]_vars
        => [Contract!Next]_(Contract!contractVars)
  BY NextContract
<1>3. QED
  BY <1>1, <1>2, InitContract, PTL DEF Spec, KeepsContract, Contract!Spec
=============================================================================
