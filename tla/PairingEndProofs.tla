-------------------------- MODULE PairingEndProofs --------------------------
(***************************************************************************)
(* A socket is registered once, and the end of a session leaves no end of  *)
(* it open, for every set of phones, sessions and codes: THEOREMS          *)
(* AlwaysRegisteredOnce and EndedAlwaysClosed.                             *)
(*                                                                         *)
(* RegInv is the inductive invariant of both.  Its first four conjuncts say*)
(* where in the registry an open socket is: with the pairing until         *)
(* promoteToSession, with the session from then on, never with both; the   *)
(* last two what a close handler may rely on across its UPDATE.            *)
(***************************************************************************)
EXTENDS PairingCodeProofs

\* promoteToSession has run, or the backend died instead of running it.
Promoted == pc[Cli] # "promote" /\ \E s \in Sessions : Granted(s)

InSession(s) == reg.cliBySession[s] # None \/ reg.phoneBySession[s] # None

\* The backend has registered the phone, as far as the phone or its key shows.
Marked(p) == Keyed(p) \/ Says(down[p], "phone_claim_ack") \/ phone[p].page = "keygen"

RegInv ==
  /\ Speaks /\ sock[Cli] = "open" /\ ~Promoted => reg.cliByPairing = Cli
  /\ \A p \in Phones :
       Marked(p) /\ sock[p] = "open" /\ ~Promoted => reg.phoneByPairing = p
  /\ \A s \in Sessions : Granted(s) /\ Promoted =>
       /\ sock[Cli] = "open" => reg.cliBySession[s] = Cli
       /\ sock[sessions[s].key] = "open" => reg.phoneBySession[s] = sessions[s].key
  /\ \A s \in Sessions : InSession(s) =>
       Granted(s) /\ Promoted /\ reg.cliByPairing = None /\ reg.phoneByPairing = None
  /\ \A k \in Sockets : closing[k].step # "idle" =>
       sock[k] = "closed" /\ Granted(closing[k].session) /\ Promoted
  /\ \A s \in Sessions : sessions[s].status = "ended" =>
       \/ \E k \in Sockets : closing[k].step = "notify" /\ closing[k].session = s
       \/ sock[Cli] # "open" /\ sock[sessions[s].key] # "open"

-----------------------------------------------------------------------------
\* What a step may do to the registry, to the sockets and to the close handlers

\* What a step may do to the registry.
LEMMA RegStep ==
  ASSUME TypeOK, [Next]_vars
  PROVE  \/ reg' = reg
         \/ HelloBind /\ reg.cliByPairing = None /\ reg' = SetCliForPairing(reg, Cli)
         \/ \E p \in Phones : /\ ClaimBind(p) /\ reg.phoneByPairing = None
                              /\ reg' = SetPhoneForPairing(reg, p)
         \/ Promote /\ reg' = PromoteToSession(reg, loc[Cli])
         \/ \E k \in Sockets : SocketClose(k) /\ reg' = RemoveBySocket(reg, k)
         \/ \E k \in Sockets : EndNotify(k) /\ reg' = RemoveSession(reg, closing[k].session)
         \/ Crash /\ reg' = NewRegistry
<1>1. CASE CliHandler
  BY <1>1 DEF CliHandler, HelloGetState, HelloSecret, HelloBind, Reject, SubmitSelect,
     SubmitAttempt, SubmitInvalid, LockedDestroy, LockedSend, SubmitValid, Commit, Promote,
     Destroy, Forget, OnlyStore, memory
<1>2. ASSUME NEW p \in Phones, PhoneHandler(p)
      PROVE  \/ reg' = reg
             \/ /\ ClaimBind(p) /\ reg.phoneByPairing = None
                /\ reg' = SetPhoneForPairing(reg, p)
  BY <1>2 DEF PhoneHandler, ClaimGetState, ClaimSelect, ClaimUpdate, ClaimBind, Reject, PublicKey,
     PushSetCode, PushSend, OnlyStore, memory
<1>3. ASSUME NEW k \in Sockets, CloseHandler(k)
      PROVE  \/ reg' = reg
             \/ SocketClose(k) /\ reg' = RemoveBySocket(reg, k)
             \/ EndNotify(k) /\ reg' = RemoveSession(reg, closing[k].session)
  BY <1>3 DEF CloseHandler, SocketClose, EndUpdate, EndNotify, memory
<1>4. QED
  BY <1>1, <1>2, <1>3, CliClientFrame, PageFrame, CrashFrame, WhoSteps DEF CliActs, PageActs

\* An open socket was open before, or is a client's new one; and nothing closed it.
LEMMA OpenStep ==
  ASSUME TypeOK, [Next]_vars, NEW k \in Sockets, sock'[k] = "open"
  PROVE  /\ \/ sock[k] = "open"
            \/ k = Cli /\ CliConnect
            \/ k \in Phones /\ PhoneOpens(k)
         /\ ~SocketClose(k) /\ ~Crash
<1>0. NetOK /\ Cli \in Sockets /\ \A p \in Phones : p \in Sockets /\ p # Cli
  BY SocketFacts DEF TypeOK
<1>1. ~SocketClose(k) /\ ~Crash
  BY <1>0 DEF SocketClose, Crash, NetOK
<1>2. CASE CliHandler
  BY <1>1, <1>2, CliHandlerFrame
<1>3. ASSUME NEW p \in Phones, PhoneHandler(p) PROVE sock[k] = "open"
  BY <1>3, PhoneHandlerFrame
<1>4. ASSUME NEW j \in Sockets, CloseHandler(j) PROVE sock[k] = "open"
  BY <1>4, CloseFrame
<1>5. CASE CliActs
  <2>1. k # Cli => sock'[k] = sock[k]
    BY <1>0, <1>5, CliClientFrame, SocketFacts DEF CliActs
  <2>2. CliConnect \/ sock' = sock
    BY <1>5 DEF CliActs, CliReacts, CliSubmit, CliListen, CliStartControl, CliPhoneClaimed,
       CliCodeInvalid, CliPaired, CliGivesUp, CliMissesClose, CliIgnores, CliExit,
       CliLosesConnection, Reads, Unlinks, Breaks, net
  <2>3. QED
    BY <1>1, <2>1, <2>2
<1>6. ASSUME NEW p \in Phones, PageActs(p)
      PROVE  sock[k] = "open" \/ (k \in Phones /\ PhoneOpens(k))
  <2>1. k # p => sock'[k] = sock[k]
    BY <1>6, PageFrame DEF PageActs
  <2>2. PhoneOpens(p) \/ sock' = sock
    BY <1>6 DEF PageActs, PhoneReacts, PhoneClaimed, PhoneSendsKey, PhoneCode, PhonePaired,
       PhoneListens, PhoneEnds, PhoneLocked, PhoneIgnores, PhoneLosesConnection, Reads, Unlinks,
       Breaks, net
  <2>3. QED
    BY <2>1, <2>2
<1>7. QED
  BY <1>1, <1>2, <1>3, <1>4, <1>5, <1>6, WhoSteps

\* The close event of a socket comes once: no client uses a closed socket again.
LEMMA ClosedStays ==
  ASSUME TypeOK, TurnInv, [Next]_vars, NEW k \in Sockets, sock[k] = "closed"
  PROVE  sock'[k] = "closed" /\ ~SocketClose(k)
<1>0. NetOK /\ Cli \in Sockets /\ \A p \in Phones : p \in Sockets /\ p # Cli
  BY SocketFacts DEF TypeOK
<1>1. CASE CliHandler
  BY <1>1, CliHandlerFrame DEF SocketClose
<1>2. ASSUME NEW p \in Phones, PhoneHandler(p) PROVE sock'[k] = "closed"
  BY <1>2, PhoneHandlerFrame
<1>3. ASSUME NEW j \in Sockets, CloseHandler(j) PROVE sock'[k] = "closed"
  BY <1>3, CloseFrame
<1>4. CASE CliActs
  <2>1. k # Cli => sock'[k] = sock[k]
    BY <1>0, <1>4, CliClientFrame, SocketFacts DEF CliActs
  <2>2. CliConnect \/ sock' = sock
    BY <1>4 DEF CliActs, CliReacts, CliSubmit, CliListen, CliStartControl, CliPhoneClaimed,
       CliCodeInvalid, CliPaired, CliGivesUp, CliMissesClose, CliIgnores, CliExit,
       CliLosesConnection, Reads, Unlinks, Breaks, net
  <2>3. CliConnect => sock[Cli] = "none"
    BY DEF CliConnect, TurnInv, CliTurn
  <2>4. QED
    BY <2>1, <2>2, <2>3 DEF SocketClose
<1>5. ASSUME NEW p \in Phones, PageActs(p) PROVE sock'[k] = "closed"
  <2>1. k # p => sock'[k] = sock[k]
    BY <1>5, PageFrame DEF PageActs
  <2>2. PhoneOpens(p) \/ sock' = sock
    BY <1>5 DEF PageActs, PhoneReacts, PhoneClaimed, PhoneSendsKey, PhoneCode, PhonePaired,
       PhoneListens, PhoneEnds, PhoneLocked, PhoneIgnores, PhoneLosesConnection, Reads, Unlinks,
       Breaks, net
  <2>3. PhoneOpens(p) => sock[p] = "none"
    BY DEF PhoneOpens, TurnInv, PhoneTurn
  <2>4. QED
    BY <2>1, <2>2, <2>3
<1>6. CASE Crash
  BY <1>6, CrashFrame DEF SocketClose
<1>7. QED
  BY <1>1, <1>2, <1>3, <1>4, <1>5, <1>6, WhoSteps DEF SocketClose

\* What a step may do to the close handler of a socket.
LEMMA ClosingStep ==
  ASSUME TypeOK, [Next]_vars, NEW k \in Sockets
  PROVE  \/ closing'[k] = closing[k]
         \/ closing'[k] = NotClosing /\ (Crash \/ EndUpdate(k) \/ EndNotify(k) \/ SocketClose(k))
         \/ /\ SocketClose(k) /\ SessionOf(reg, k) # None
            /\ closing'[k] = [step |-> "update", session |-> SessionOf(reg, k)]
         \/ /\ EndUpdate(k) /\ closing'[k] = [closing[k] EXCEPT !.step = "notify"]
            /\ closing[k].step = "update"
<1>0. closing \in [Sockets -> {NotClosing} \cup [step : {"update", "notify"}, session : Sessions]]
  BY DEF TypeOK, FramesOK
<1>1. ASSUME NEW j \in Sockets, CloseHandler(j), j # k PROVE closing'[k] = closing[k]
  BY <1>0, <1>1 DEF CloseHandler, SocketClose, EndUpdate, EndNotify
<1>2. CASE SocketClose(k)
  BY <1>0, <1>2 DEF SocketClose
<1>3. CASE EndUpdate(k)
  BY <1>0, <1>3 DEF EndUpdate
<1>4. CASE EndNotify(k)
  BY <1>0, <1>4 DEF EndNotify
<1>5. CASE Crash
  BY <1>5, CrashFrame
<1>6. (\E p \in Phones : PhoneHandler(p) \/ PageActs(p)) \/ CliActs \/ CliHandler => closing' = closing
  BY CliHandlerFrame, PhoneHandlerFrame, PageFrame, CliClientFrame DEF CliActs, PageActs
<1>7. QED
  BY <1>1, <1>2, <1>3, <1>4, <1>5, <1>6, WhoSteps DEF CloseHandler

-----------------------------------------------------------------------------
\* Once promoted, a pairing stays so; only promoteToSession or a crash makes it so.
LEMMA PromotedStep ==
  ASSUME TypeOK, ClaimInv, TurnInv, CodeInv, GrantInv, [Next]_vars
  PROVE  /\ Promoted => Promoted'
         /\ Promoted' /\ ~Promoted => Promote \/ Crash
         /\ Promote => /\ Promoted' /\ ~Promoted
                       /\ loc[Cli] \in Sessions /\ Granted(loc[Cli])
         /\ \A s \in Sessions : Promoted' /\ Granted(s)' => Granted(s)
<1>0. /\ Cli \in Sockets /\ FramesOK /\ \A p \in Phones : p # Cli
      /\ pc \in [Sockets -> {"idle", "reject"} \cup CliSteps \cup PhoneSteps]
  BY SocketFacts DEF TypeOK, FramesOK
<1>1. ASSUME Promoted PROVE Promoted'
  <2>1. PICK s \in Sessions : Granted(s)
    BY <1>1 DEF Promoted
  <2>2. Granted(s)'
    BY <2>1, GrantedStays
  <2>3. ASSUME pc'[Cli] = "promote" PROVE FALSE
    <3>1. PICK t \in Sessions : Commit(t)
      BY <1>1, <2>3, PromoteStep DEF Promoted
    <3>2. QED
      BY <2>1, <3>1, CommitFirst
  <2>4. QED
    BY <2>2, <2>3 DEF Promoted
<1>2. ASSUME NEW s \in Sessions, Promoted', Granted(s)' PROVE Granted(s)
  <2>1. ASSUME Commit(s) PROVE FALSE
    BY <1>2, <2>1, CommitFirst DEF Promoted
  <2>2. QED
    BY <1>2, <2>1, GrantedStays
<1>3. ASSUME Promoted', ~Promoted PROVE Promote \/ Crash
  <2>1. pc[Cli] = "promote" /\ pc'[Cli] # "promote"
    BY <1>2, <1>3 DEF Promoted
  <2>2. ASSUME NEW p \in Phones, PhoneHandler(p) PROVE FALSE
    BY <1>0, <2>1, <2>2, PhoneHandlerFrame, SocketFacts
  <2>3. CliHandler \/ Crash
    BY <2>1, <2>2, CloseFrame, CliClientFrame, PageFrame, WhoSteps DEF CliActs, PageActs
  <2>4. CliHandler => Promote
    BY <2>1 DEF CliHandler, HelloGetState, HelloSecret, HelloBind, Reject, SubmitSelect,
       SubmitAttempt, SubmitInvalid, LockedDestroy, LockedSend, SubmitValid, Commit, Destroy, Forget
  <2>5. QED
    BY <2>3, <2>4
<1>4. ASSUME Promote
      PROVE  Promoted' /\ ~Promoted /\ loc[Cli] \in Sessions /\ Granted(loc[Cli])
  <2>1. pc[Cli] = "promote" /\ pc'[Cli] = "destroy" /\ sessions' = sessions
    BY <1>0, <1>4 DEF Promote, Goto, store
  <2>2. loc[Cli] \in Sessions /\ Granted(loc[Cli])
    BY <1>0, <2>1 DEF FramesOK, FrameFits, GrantInv
  <2>3. QED
    BY <2>1, <2>2 DEF Promoted, Granted
<1>5. QED
  BY <1>1, <1>2, <1>3, <1>4

\* The phone of a granted session claims no more, so ClaimBind comes before any session.
LEMMA BindsBefore ==
  ASSUME TypeOK, ClaimInv, TurnInv, GrantInv, NEW s \in Sessions, Granted(s)
  PROVE  /\ sessions[s].key \in Phones
         /\ Keyed(sessions[s].key) /\ ~Claiming(sessions[s].key)
         /\ \A p \in Phones : ~ClaimBind(p)
<1> DEFINE q == sessions[s].key
<1>1. q \in claimants /\ q \in Phones
  BY DEF GrantInv, TypeOK, HistoryOK
<1>2. Keyed(q) /\ ~Claiming(q)
  BY <1>1 DEF Keyed, KeyInUse, TurnInv, PhoneTurn
<1>3. ASSUME NEW p \in Phones, ClaimBind(p) PROVE FALSE
  <2>1. Vouched(p) /\ Vouched(q) /\ Claiming(p)
    BY <1>3 DEF ClaimBind, Vouched, KeyInUse, Claiming, ClaimSteps
  <2>2. p = q
    BY <1>1, <2>1, OneVouched
  <2>3. QED
    BY <1>2, <2>1, <2>2
<1>4. QED
  BY <1>1, <1>2, <1>3

\* A session's clients have their sockets: no new one opens.
LEMMA NoneOpens ==
  ASSUME TypeOK, ClaimInv, TurnInv, GrantInv, [Next]_vars, NEW s \in Sessions, Granted(s)
  PROVE  /\ sock'[Cli] = "open" => sock[Cli] = "open"
         /\ sock'[sessions[s].key] = "open" => sock[sessions[s].key] = "open"
<1> DEFINE q == sessions[s].key
<1>0. q \in Phones /\ q \in Sockets /\ q # Cli /\ Cli \in Sockets /\ Cli \notin Phones /\ ~Claiming(q)
  BY BindsBefore, SocketFacts
<1>1. ~CliConnect
  BY DEF CliConnect, GrantInv, Early
<1>2. ~PhoneOpens(q)
  BY <1>0 DEF PhoneOpens, Claiming
<1>3. sock'[Cli] = "open" => sock[Cli] = "open"
  BY <1>0, <1>1, OpenStep
<1>4. sock'[q] = "open" => sock[q] = "open"
  BY <1>0, <1>2, OpenStep
<1>5. QED
  BY <1>3, <1>4

\* A key comes into use only from the one before it: public_key, the key map, the transaction.
LEMMA KeyStep ==
  ASSUME TypeOK, [Next]_vars, NEW p \in Phones, KeyInUse(p)'
  PROVE  KeyInUse(p) \/ phone[p].page = "keygen"
<1>0. /\ p \in Sockets /\ p # Cli /\ p # None /\ Cli \in Sockets
      /\ up \in [Sockets -> UpMsgs]
  BY SocketFacts DEF TypeOK, NetOK
<1>1. CASE CliHandler
  BY <1>1, CliHandlerKeys
<1>2. ASSUME NEW q \in Phones, PhoneHandler(q) PROVE KeyInUse(p)
  BY <1>2, PhoneHandlerKeys
<1>3. ASSUME NEW k \in Sockets, CloseHandler(k) PROVE KeyInUse(p)
  BY <1>3, CloseFrame DEF KeyInUse
<1>4. CASE CliActs
  BY <1>0, <1>4, CliClientFrame DEF CliActs, KeyInUse
<1>5. ASSUME NEW q \in Phones, PageActs(q) PROVE KeyInUse(p) \/ phone[p].page = "keygen"
  <2>1. /\ UNCHANGED <<keys, pc, loc, sessions>>
        /\ q # p => up'[p] = up[p]
    BY <1>0, <1>5, PageFrame DEF PageActs
  <2>2. CASE PhoneOpens(q)
    BY <1>0, <2>1, <2>2, UpKinds DEF PhoneOpens, Opens, KeyInUse
  <2>3. CASE PhoneSendsKey(q)
    BY <2>1, <2>3 DEF PhoneSendsKey, KeyInUse
  <2>4. CASE ~PhoneOpens(q) /\ ~PhoneSendsKey(q)
    <3>1. Reads(q) \/ Unlinks(q) \/ Breaks(q) \/ up' = up
      BY <1>5, <2>4 DEF PageActs, PhoneReacts, PhoneClaimed, PhoneCode, PhonePaired, PhoneEnds,
         PhoneListens, PhoneLocked, PhoneIgnores, PhoneLosesConnection, net
    <3>2. up'[p] = up[p] \/ up'[p] = NoMsg
      BY <1>0, <3>1, SocketFacts DEF Reads, Unlinks, Breaks
    <3>3. QED
      BY <2>1, <3>2, UpKinds DEF KeyInUse
  <2>5. QED
    BY <2>2, <2>3, <2>4
<1>6. CASE Crash
  BY <1>0, <1>6, CrashFrame, UpKinds DEF KeyInUse
<1>7. CASE UNCHANGED <<up, keys, pc, loc, sessions>>
  BY <1>7 DEF KeyInUse
<1>8. QED
  BY <1>1, <1>2, <1>3, <1>4, <1>5, <1>6, <1>7, WhoSteps

\* The end of a claim finds the phone registered: no other phone was told that it claimed.
LEMMA BindsIt ==
  ASSUME TypeOK, ClaimInv, NEW p \in Phones, ClaimBind(p)
  PROVE  reg'.phoneByPairing = p
<1>1. CASE reg.phoneByPairing = None
  BY <1>1 DEF ClaimBind, SetPhoneForPairing, TypeOK, MemoryOK, Registries
<1>2. CASE reg.phoneByPairing \in Phones
  <2>1. Vouched(p) /\ Vouched(reg.phoneByPairing)
    BY <1>2 DEF ClaimBind, Vouched, OnFile
  <2>2. reg.phoneByPairing = p
    BY <1>2, <2>1, OneVouched
  <2>3. QED
    BY <1>2, <2>2, RegistryNames DEF ClaimBind
<1>3. QED
  BY <1>1, <1>2 DEF TypeOK, MemoryOK, Registries

\* A phone shows a registration only after it, and a code is sent to the registered phone.
LEMMA MarkedStep ==
  ASSUME TypeOK, ClaimInv, TurnInv, CodeInv, GrantInv, [Next]_vars,
         NEW p \in Phones, Marked(p)', ~Promoted'
  PROVE  Marked(p) \/ reg'.phoneByPairing = p
<1>0. /\ p \in Sockets /\ p # Cli /\ Cli \in Sockets
      /\ pc \in [Sockets -> {"idle", "reject"} \cup CliSteps \cup PhoneSteps]
      /\ phone \in [Phones -> PhoneStates] /\ NetOK
  BY SocketFacts DEF TypeOK, FramesOK, ClientsOK
<1>1. KeyInUse(p)' => Marked(p)
  BY KeyStep DEF Marked, Keyed
<1>2. Says(down'[p], "phone_claim_ack") => Marked(p) \/ reg'.phoneByPairing = p
  BY <1>0, NewsStep, BindsIt DEF Says, Marked
<1>3. Says(down'[p], "paired") => Marked(p)
  <2>1. ~Promote
    BY PromotedStep
  <2>2. QED
    BY <1>0, <2>1, NewsStep DEF Says, Marked, Keyed
<1>4. phone'[p].session # None => Marked(p)
  BY RememberedStep DEF Says, Marked, Keyed
<1> DEFINE Shows(d, f) == \/ f.page \in {"keygen", "waiting", "code", "starting", "connected"}
                          \/ Says(d, "code_challenge") \/ f.code # NoCode
<1>5. /\ Shows(down[p], phone[p]) => Marked(p)
      /\ pc[p] \in PushSteps => Marked(p)
      /\ Says(down[p], "phone_claim_ack") => Marked(p)
      /\ Says(down[p], "paired") => Marked(p)
      /\ up[p].type = "public_key" => Marked(p)
  BY DEF Marked, Keyed, KeyInUse
<1>6. SUFFICES (Shows(down'[p], phone'[p]) \/ pc'[p] \in PushSteps)
                 => Marked(p) \/ reg'.phoneByPairing = p
  BY <1>1, <1>2, <1>3, <1>4 DEF Marked, Keyed
<1>7. CASE CliHandler
  <2>1. phone' = phone /\ pc'[p] = pc[p]
    BY <1>7, CliHandlerFrame
  <2>2. pc[Cli] # "promote"
    <3>1. pc[Cli] = "promote" => Promote
      BY <1>7 DEF CliHandler, HelloGetState, HelloSecret, HelloBind, Reject, SubmitSelect,
         SubmitAttempt, SubmitInvalid, LockedDestroy, LockedSend, SubmitValid, Commit, Destroy,
         Forget
    <3>2. QED
      BY <3>1, PromotedStep
  <2>3. Says(down'[p], "code_challenge") => Says(down[p], "code_challenge")
    BY <1>7, <2>2, CliHandlerNews, HeardMeans
  <2>4. QED
    BY <1>5, <2>1, <2>3
<1>8. ASSUME NEW q \in Phones, PhoneHandler(q),
             Shows(down'[p], phone'[p]) \/ pc'[p] \in PushSteps
      PROVE  Marked(p) \/ reg'.phoneByPairing = p
  <2>1. phone' = phone /\ (q # p => pc'[p] = pc[p])
    BY <1>0, <1>8, PhoneHandlerFrame
  <2>2. pc'[p] \in PushSteps => Marked(p) \/ reg'.phoneByPairing = p
    <3>1. CASE ClaimBind(p)
      BY <3>1, BindsIt
    <3>2. CASE PublicKey(p)
      BY <1>5, <3>2 DEF PublicKey
    <3>3. CASE PushSetCode(p) \/ PushSend(p)
      BY <1>5, <3>3 DEF PushSetCode, PushSend, PushSteps
    <3>4. CASE ClaimGetState(p) \/ ClaimSelect(p) \/ ClaimUpdate(p) \/ Reject(p)
      BY <1>0, <3>4 DEF ClaimGetState, ClaimSelect, ClaimUpdate, Reject, Refuse, Done, Goto, PushSteps
    <3>5. QED
      BY <1>5, <1>8, <2>1, <3>1, <3>2, <3>3, <3>4 DEF PhoneHandler
  <2>3. Says(down'[p], "code_challenge") =>
          Says(down[p], "code_challenge") \/ reg'.phoneByPairing = p
    <3>1. CASE pc[q] = "push_send"
      <4>1. p # reg.phoneByPairing => down'[p] = down[p]
        BY <1>8, <3>1, PhoneHandlerNews
      <4>2. reg' = reg
        <5>1. PushSend(q) \/ up[q] # NoMsg
          BY <1>8, <3>1, UpKinds DEF PhoneHandler, ClaimGetState, ClaimSelect, ClaimUpdate,
             ClaimBind, Reject, PublicKey, PushSetCode
        <5>2. PushSend(q)
          BY <3>1, <5>1 DEF TurnInv, PhoneTurn
        <5>3. QED
          BY <5>2 DEF PushSend
      <4>3. QED
        BY <4>1, <4>2
    <3>2. CASE pc[q] # "push_send"
      <4>1. Heard(down[p], down'[p], {"phone_claim_ack", "error", "close"})
        <5>1. CASE pc[q] = "claim_bind"
          <6>1. CASE p = q
            BY <1>8, <5>1, <6>1, PhoneHandlerNews
          <6>2. CASE p # q
            BY <1>8, <5>1, <6>2, PhoneHandlerNews, HeardSame
          <6>3. QED
            BY <6>1, <6>2
        <5>2. CASE pc[q] # "claim_bind"
          <6>1. Heard(down[p], down'[p], {"error", "close"})
            BY <1>8, <3>2, <5>2, PhoneHandlerNews
          <6>2. QED
            BY <6>1 DEF Heard
        <5>3. QED
          BY <5>1, <5>2
      <4>2. QED
        BY <4>1, HeardMeans
    <3>3. QED
      BY <3>1, <3>2
  <2>4. QED
    BY <1>5, <1>8, <2>1, <2>2, <2>3
<1>9. ASSUME NEW k \in Sockets, CloseHandler(k),
             Shows(down'[p], phone'[p]) \/ pc'[p] \in PushSteps
      PROVE  Marked(p)
  <2>1. UNCHANGED <<phone, pc>> /\ Heard(down[p], down'[p], {"disconnect", "close"})
    BY <1>0, <1>9, CloseFrame
  <2>2. QED
    BY <1>5, <1>9, <2>1, HeardMeans
<1>10. CASE CliActs
  BY <1>0, <1>5, <1>10, CliClientFrame DEF CliActs
<1>11. ASSUME NEW q \in Phones, PageActs(q),
              Shows(down'[p], phone'[p]) \/ pc'[p] \in PushSteps
       PROVE  Marked(p)
  <2>1. UNCHANGED pc /\ (q # p => phone'[p] = phone[p] /\ down'[p] = down[p])
    BY <1>0, <1>11, PageFrame DEF PageActs
  <2>2. CASE q # p
    BY <1>5, <1>11, <2>1, <2>2
  <2>3. CASE q = p /\ PhoneOpens(p)
    BY <1>0, <1>5, <1>11, <2>1, <2>3 DEF PhoneOpens, Opens, Turn, PhoneStates
  <2>4. CASE q = p /\ (PhoneClaimed(p) \/ PhoneCode(p) \/ PhonePaired(p))
    <3>1. Head(down[p]) \in Range(down[p])
      BY <1>0, <2>4, ReadsHeard DEF PhoneClaimed, PhoneCode, PhonePaired
    <3>2. Head(down[p]).type \in {"phone_claim_ack", "code_challenge", "paired"}
      BY <2>4 DEF PhoneClaimed, PhoneCode, PhonePaired, Arrives
    <3>3. QED
      BY <1>5, <3>1, <3>2 DEF Says
  <2>5. CASE q = p /\ PhoneSendsKey(p)
    BY <1>5, <2>5 DEF PhoneSendsKey
  <2>6. CASE q = p /\ (PhoneLocked(p) \/ PhoneIgnores(p))
    <3>1. /\ down[p] # << >> /\ Reads(p) /\ phone'[p].code = phone[p].code
          /\ phone'[p].page \in {phone[p].page, "failed"}
      BY <1>0, <2>6 DEF PhoneLocked, PhoneIgnores, Arrives, Turn, PhoneStates, clients
    <3>2. Says(down'[p], "code_challenge") => Says(down[p], "code_challenge")
      BY <1>0, <3>1, IgnoresHeard, HeardMeans
    <3>3. QED
      BY <1>5, <1>11, <2>1, <3>1, <3>2
  <2>7. CASE q = p /\ (PhoneEnds(p) \/ PhoneLosesConnection(p))
    <3>1. /\ Unlinks(p) \/ Breaks(p)
          /\ phone'[p].page \in {phone[p].page, "failed", "disconnected"}
          /\ phone'[p].code = phone[p].code
      BY <1>0, <2>7 DEF PhoneEnds, PhoneLosesConnection, Turn, PhoneStates
    <3>2. ~Says(down'[p], "code_challenge")
      BY <1>0, <3>1, EndsHeard
    <3>3. QED
      BY <1>5, <1>11, <2>1, <3>1, <3>2
  <2>8. CASE q = p /\ PhoneListens(p)
    <3>1. /\ phone[p].page = "starting" /\ down' = down
      BY <2>8 DEF PhoneListens, net
    <3>2. QED
      BY <1>5, <3>1
  <2>9. QED
    BY <1>11, <2>2, <2>3, <2>4, <2>5, <2>6, <2>7, <2>8 DEF PageActs, PhoneReacts
<1>12. CASE Crash
  <2>1. phone' = phone /\ pc'[p] = "idle" /\ Heard(down[p], down'[p], {"close"})
    BY <1>0, <1>12, CrashFrame
  <2>2. QED
    BY <1>5, <2>1, HeardMeans DEF PushSteps
<1>13. CASE UNCHANGED <<pc, down, phone>>
  BY <1>5, <1>13
<1>14. QED
  BY <1>7, <1>8, <1>9, <1>10, <1>11, <1>12, <1>13, WhoSteps

-----------------------------------------------------------------------------
\* The registry's operations, entry by entry

\* removeBySocket takes away entries of that socket only.
LEMMA RemovesOnly ==
  ASSUME NEW r \in Registries, NEW k \in Sockets, NEW e, e = RemoveBySocket(r, k)
  PROVE  /\ e.cliByPairing \in {r.cliByPairing, None}
         /\ e.phoneByPairing \in {r.phoneByPairing, None}
         /\ k # r.cliByPairing => e.cliByPairing = r.cliByPairing
         /\ k # r.phoneByPairing => e.phoneByPairing = r.phoneByPairing
         /\ \A s \in Sessions :
              /\ e.cliBySession[s] \in {r.cliBySession[s], None}
              /\ e.phoneBySession[s] \in {r.phoneBySession[s], None}
              /\ k # r.cliBySession[s] => e.cliBySession[s] = r.cliBySession[s]
              /\ k # r.phoneBySession[s] => e.phoneBySession[s] = r.phoneBySession[s]
<1>0. r.cliBySession \in [Sessions -> {Cli, None}] /\ r.phoneBySession \in [Sessions -> Phones \cup {None}]
  BY DEF Registries
<1>1. CASE r.cliByPairing = k
  BY <1>0, <1>1 DEF RemoveBySocket, Registries
<1>2. CASE r.cliByPairing # k /\ r.phoneByPairing = k
  BY <1>0, <1>2 DEF RemoveBySocket, Registries
<1> DEFINE s0 == SessionOf(r, k)
<1>3. CASE ~InPairing(r, k) /\ CliSessions(r, k) # {}
  <2>1. s0 \in CliSessions(r, k)
    BY <1>3 DEF SessionOf
  <2>2. s0 \in Sessions /\ r.cliBySession[s0] = k
    BY <2>1 DEF CliSessions
  <2>3. e = [r EXCEPT !.cliBySession[s0] = None]
    BY <1>3 DEF RemoveBySocket, InPairing
  <2> HIDE DEF s0
  <2>4. QED
    BY <1>0, <2>2, <2>3 DEF Registries
<1>4. CASE ~InPairing(r, k) /\ CliSessions(r, k) = {} /\ PhoneSessions(r, k) # {}
  <2>1. s0 \in PhoneSessions(r, k)
    BY <1>4 DEF SessionOf
  <2>2. s0 \in Sessions /\ r.phoneBySession[s0] = k
    BY <2>1 DEF PhoneSessions
  <2>3. e = [r EXCEPT !.phoneBySession[s0] = None]
    BY <1>4 DEF RemoveBySocket, InPairing
  <2> HIDE DEF s0
  <2>4. QED
    BY <1>0, <2>2, <2>3 DEF Registries
<1>5. CASE ~InPairing(r, k) /\ CliSessions(r, k) = {} /\ PhoneSessions(r, k) = {}
  BY <1>5 DEF RemoveBySocket, InPairing
<1>6. QED
  BY <1>1, <1>2, <1>3, <1>4, <1>5 DEF InPairing

\* The session that removeBySocket reports has an entry of the socket.
LEMMA ReportsRegistered ==
  ASSUME NEW k \in Sockets, SessionOf(reg, k) # None
  PROVE  SessionOf(reg, k) \in Sessions /\ InSession(SessionOf(reg, k))
<1>0. k # None
  BY SocketFacts
<1>1. CASE CliSessions(reg, k) # {}
  <2>1. SessionOf(reg, k) \in CliSessions(reg, k)
    BY <1>1 DEF SessionOf
  <2>2. QED
    BY <1>0, <2>1 DEF CliSessions, InSession
<1>2. CASE CliSessions(reg, k) = {}
  <2>1. SessionOf(reg, k) \in PhoneSessions(reg, k)
    BY <1>2 DEF SessionOf
  <2>2. QED
    BY <1>0, <2>1 DEF PhoneSessions, InSession
<1>3. QED
  BY <1>1, <1>2

\* Whose entries a step may change, and that a step adds entries at the three registrations only.
LEMMA EntriesStep ==
  ASSUME TypeOK, ClaimInv, TurnInv, CodeInv, GrantInv, [Next]_vars
  PROVE  /\ reg.cliByPairing = Cli /\ sock'[Cli] = "open" /\ ~Promote => reg'.cliByPairing = Cli
         /\ \A p \in Phones : reg.phoneByPairing = p /\ sock'[p] = "open" /\ ~Promote =>
              reg'.phoneByPairing = p
         /\ \A s \in Sessions : InSession(s)' => InSession(s) \/ (Promote /\ s = loc[Cli])
         /\ Promote => reg'.cliByPairing = None /\ reg'.phoneByPairing = None
         /\ reg'.cliByPairing # None => reg.cliByPairing # None \/ HelloBind
         /\ reg'.phoneByPairing # None =>
              reg.phoneByPairing # None \/ \E p \in Phones : ClaimBind(p)
<1>0. /\ reg \in Registries /\ Cli \in Sockets /\ Cli # None /\ Cli \notin Phones
      /\ \A p \in Phones : p \in Sockets /\ p # None
      /\ reg.cliBySession \in [Sessions -> {Cli, None}]
      /\ reg.phoneBySession \in [Sessions -> Phones \cup {None}]
  BY SocketFacts DEF TypeOK, MemoryOK, Registries
<1>1. CASE reg' = reg /\ ~Promote
  BY <1>1 DEF InSession
<1>2. CASE HelloBind /\ reg.cliByPairing = None /\ reg' = SetCliForPairing(reg, Cli)
  <2>1. /\ reg'.phoneByPairing = reg.phoneByPairing /\ ~Promote
        /\ reg'.cliBySession = reg.cliBySession /\ reg'.phoneBySession = reg.phoneBySession
    BY <1>0, <1>2 DEF SetCliForPairing, Registries, HelloBind, Promote
  <2>2. QED
    BY <1>0, <1>2, <2>1 DEF InSession
<1>3. ASSUME NEW p \in Phones, ClaimBind(p), reg.phoneByPairing = None,
             reg' = SetPhoneForPairing(reg, p)
      PROVE  /\ reg'.cliByPairing = reg.cliByPairing /\ ~Promote
             /\ reg'.cliBySession = reg.cliBySession /\ reg'.phoneBySession = reg.phoneBySession
  <2>1. Promote => sock' = sock /\ pc'[p] = pc[p] /\ reg'.phoneByPairing = None
    BY <1>0, CliHandlerFrame DEF Promote, CliHandler, PromoteToSession, CopyToSession, Registries
  <2>2. reg'.phoneByPairing = p
    BY <1>0, <1>3 DEF SetPhoneForPairing, Registries
  <2>3. QED
    BY <1>0, <1>3, <2>1, <2>2 DEF SetPhoneForPairing, Registries
<1>4. CASE Promote /\ reg' = PromoteToSession(reg, loc[Cli])
  <2>1. loc[Cli] \in Sessions
    BY <1>4, PromotedStep
  <2>2. /\ reg'.cliByPairing = None /\ reg'.phoneByPairing = None
        /\ \A s \in Sessions : s # loc[Cli] => /\ reg'.cliBySession[s] = reg.cliBySession[s]
                                               /\ reg'.phoneBySession[s] = reg.phoneBySession[s]
    BY <1>0, <1>4, <2>1 DEF PromoteToSession, CopyToSession, Registries
  <2>3. QED
    BY <1>4, <2>1, <2>2 DEF InSession
<1>5. ASSUME NEW k \in Sockets, SocketClose(k), reg' = RemoveBySocket(reg, k)
      PROVE  /\ reg'.cliByPairing \in {reg.cliByPairing, None}
             /\ reg'.phoneByPairing \in {reg.phoneByPairing, None}
             /\ k # reg.cliByPairing => reg'.cliByPairing = reg.cliByPairing
             /\ k # reg.phoneByPairing => reg'.phoneByPairing = reg.phoneByPairing
             /\ \A s \in Sessions : InSession(s)' => InSession(s)
             /\ sock'[k] # "open" /\ ~Promote
  <2>1. sock'[k] = "closed"
    BY <1>5 DEF SocketClose, TypeOK, NetOK
  <2>2. sock[k] \in {"open", "closing"} /\ (Promote => sock' = sock)
    BY <1>5 DEF SocketClose, Promote
  <2>3. /\ reg'.cliByPairing \in {reg.cliByPairing, None}
        /\ reg'.phoneByPairing \in {reg.phoneByPairing, None}
        /\ k # reg.cliByPairing => reg'.cliByPairing = reg.cliByPairing
        /\ k # reg.phoneByPairing => reg'.phoneByPairing = reg.phoneByPairing
        /\ \A s \in Sessions : /\ reg'.cliBySession[s] \in {reg.cliBySession[s], None}
                               /\ reg'.phoneBySession[s] \in {reg.phoneBySession[s], None}
    BY <1>0, <1>5, RemovesOnly
  <2>4. QED
    BY <2>1, <2>2, <2>3 DEF InSession
<1>6. ASSUME NEW k \in Sockets, EndNotify(k), reg' = RemoveSession(reg, closing[k].session)
      PROVE  /\ reg'.cliByPairing = reg.cliByPairing
             /\ reg'.phoneByPairing = reg.phoneByPairing
             /\ \A s \in Sessions : InSession(s)' => InSession(s)
             /\ ~Promote
  <2>1. closing[k].session \in Sessions /\ closing'[k] # closing[k]
    BY <1>6 DEF EndNotify, TypeOK, FramesOK, NotClosing
  <2>2. ~Promote
    BY <2>1 DEF Promote
  <2>3. QED
    BY <1>0, <1>6, <2>1, <2>2 DEF RemoveSession, Registries, InSession
<1>7. CASE Crash /\ reg' = NewRegistry
  <2>1. /\ reg'.cliByPairing = None /\ reg'.phoneByPairing = None
        /\ \A s \in Sessions : ~InSession(s)'
        /\ \A k \in Sockets : sock'[k] # "open"
    BY <1>7, CrashFrame DEF NewRegistry, InSession
  <2>2. ~Promote
    BY <1>0, <1>7 DEF Crash, Promote, Goto, TypeOK, FramesOK
  <2>3. QED
    BY <1>0, <2>1, <2>2
<1>8. Promote => reg' = PromoteToSession(reg, loc[Cli])
  BY DEF Promote
<1>9. QED
  <2>1. CASE reg' = reg /\ Promote
    BY <1>4, <1>8, <2>1
  <2>2. CASE \E p \in Phones : /\ ClaimBind(p) /\ reg.phoneByPairing = None
                               /\ reg' = SetPhoneForPairing(reg, p)
    <3>1. PICK p \in Phones : /\ ClaimBind(p) /\ reg.phoneByPairing = None
                              /\ reg' = SetPhoneForPairing(reg, p)
      BY <2>2
    <3>2. QED
      BY <1>0, <1>3, <3>1 DEF InSession
  <2>3. CASE \E k \in Sockets : SocketClose(k) /\ reg' = RemoveBySocket(reg, k)
    BY <1>0, <1>5, <2>3
  <2>4. CASE \E k \in Sockets : EndNotify(k) /\ reg' = RemoveSession(reg, closing[k].session)
    BY <1>0, <1>6, <2>4
  <2>5. QED
    BY <1>1, <1>2, <1>4, <1>7, <2>1, <2>2, <2>3, <2>4, RegStep

-----------------------------------------------------------------------------
\* RegInv, conjunct by conjunct

\* The CLI that may speak of a code is registered with the pairing.
LEMMA CliRegistered ==
  ASSUME TypeOK, ClaimInv, TurnInv, CodeInv, GrantInv, RegInv, [Next]_vars,
         Speaks', sock'[Cli] = "open", ~Promoted'
  PROVE  reg'.cliByPairing = Cli
<1>0. Cli \in Sockets /\ Cli \notin Phones
  BY SocketFacts
<1>1. ~Promoted /\ ~Promote
  BY PromotedStep
<1>2. CASE CliConnect
  <2>1. cli.phase = "init" /\ cli' # cli /\ CliTurn
    BY <1>2 DEF CliConnect, TurnInv, TypeOK, ClientsOK, CliStates
  <2>2. ~Speaks
    BY <2>1 DEF CliTurn, Speaks, Quiet
  <2>3. \A p \in Phones : ~ClaimBind(p)
    BY <2>1 DEF ClaimBind, clients
  <2>4. QED
    BY <2>2, <2>3, SpeaksStep
<1>3. CASE ~CliConnect
  <2>1. sock[Cli] = "open"
    BY <1>0, <1>3, OpenStep
  <2>2. reg.cliByPairing = Cli
    BY <1>1, <2>1, SpeaksStep DEF RegInv
  <2>3. QED
    BY <1>1, <2>2, EntriesStep
<1>4. QED
  BY <1>2, <1>3

\* The phone that claimed is registered with the pairing.
LEMMA PhoneRegistered ==
  ASSUME TypeOK, ClaimInv, TurnInv, CodeInv, GrantInv, RegInv, [Next]_vars,
         NEW p \in Phones, Marked(p)', sock'[p] = "open", ~Promoted'
  PROVE  reg'.phoneByPairing = p
<1>0. p \in Sockets /\ p # Cli
  BY SocketFacts
<1>1. ~Promoted /\ ~Promote
  BY PromotedStep
<1>2. Marked(p) \/ reg'.phoneByPairing = p
  BY MarkedStep
<1>3. CASE Marked(p)
  <2>1. ~PhoneOpens(p)
    <3>1. SUFFICES ASSUME phone[p].page = "scan" PROVE FALSE
      BY DEF PhoneOpens
    <3>2. Claiming(p) /\ ~Says(down[p], "phone_claim_ack")
      BY <3>1 DEF TurnInv, PhoneTurn, Claiming
    <3>3. QED
      BY <1>3, <3>1, <3>2 DEF Marked, TurnInv, PhoneTurn
  <2>2. sock[p] = "open"
    BY <1>0, <2>1, OpenStep
  <2>3. reg.phoneByPairing = p
    BY <1>1, <1>3, <2>2 DEF RegInv
  <2>4. QED
    BY <1>1, <2>3, EntriesStep
<1>4. QED
  BY <1>2, <1>3

\* The open sockets of a session are registered with it.
SessionRegistered(s) == Granted(s) /\ Promoted =>
  /\ sock[Cli] = "open" => reg.cliBySession[s] = Cli
  /\ sock[sessions[s].key] = "open" => reg.phoneBySession[s] = sessions[s].key

\* They stay so, and are so when promoteToSession has moved them.
LEMMA SessionRegisteredStep ==
  ASSUME TypeOK, ClaimInv, TurnInv, CodeInv, GrantInv, RegInv, [Next]_vars, NEW s \in Sessions
  PROVE  SessionRegistered(s)'
<1> SUFFICES ASSUME Granted(s)', Promoted'
             PROVE  /\ sock'[Cli] = "open" => reg'.cliBySession[s] = Cli
                    /\ sock'[sessions'[s].key] = "open" =>
                         reg'.phoneBySession[s] = sessions'[s].key
  BY DEF SessionRegistered
<1> DEFINE q == sessions[s].key
<1>1. /\ Granted(s) /\ sessions'[s].key = q /\ q \in Phones
      /\ Keyed(q) /\ \A p \in Phones : ~ClaimBind(p)
  BY PromotedStep, GrantedStays, BindsBefore
<1>0. /\ reg \in Registries /\ Cli \in Sockets /\ Cli # None /\ q # Cli /\ q \in Sockets /\ q # None
      /\ \A p \in Phones : p \in Sockets /\ p # None /\ p # Cli
      /\ reg.cliBySession \in [Sessions -> {Cli, None}]
      /\ reg.phoneBySession \in [Sessions -> Phones \cup {None}]
  BY <1>1, SocketFacts DEF TypeOK, MemoryOK, Registries
<1>2. CASE Crash
  <2>1. sock'[Cli] # "open" /\ sock'[q] # "open"
    BY <1>0, <1>2, CrashFrame
  <2>2. QED
    BY <1>1, <2>1
<1>3. CASE Promote
  <2>1. /\ loc[Cli] = s /\ ~Promoted /\ pc[Cli] \in SubmitSteps /\ sock' = sock
        /\ reg' = PromoteToSession(reg, s)
    <3>1. loc[Cli] \in Sessions /\ Granted(loc[Cli]) /\ ~Promoted
      BY <1>3, PromotedStep
    <3>2. loc[Cli] = s
      BY <1>1, <3>1 DEF GrantInv
    <3>3. QED
      BY <1>3, <3>1, <3>2 DEF Promote, SubmitSteps, CliSteps, HelloSteps
  <2>2. sock[Cli] = "open" => reg.cliByPairing = Cli
    BY <2>1, AtWorkOnCode DEF RegInv
  <2>3. sock[q] = "open" => reg.phoneByPairing = q
    BY <1>1, <2>1 DEF RegInv, Marked
  <2>4. /\ reg.cliByPairing = Cli => reg'.cliBySession[s] = Cli
        /\ reg.phoneByPairing = q => reg'.phoneBySession[s] = q
    BY <1>0, <2>1 DEF PromoteToSession, CopyToSession, OrElse, Registries
  <2>5. QED
    BY <1>1, <2>1, <2>2, <2>3, <2>4
<1>4. CASE ~Crash /\ ~Promote
  <2>1. Promoted
    BY <1>4, PromotedStep
  <2>2. /\ sock'[Cli] = "open" => sock[Cli] = "open" /\ reg.cliBySession[s] = Cli
        /\ sock'[q] = "open" => sock[q] = "open" /\ reg.phoneBySession[s] = q
    BY <1>1, <2>1, NoneOpens DEF RegInv
  <2>3. CASE reg' = reg
    BY <1>1, <2>2, <2>3
  <2>4. CASE HelloBind /\ reg' = SetCliForPairing(reg, Cli)
    BY <1>0, <1>1, <2>2, <2>4 DEF SetCliForPairing, Registries
  <2>5. ASSUME NEW k \in Sockets, SocketClose(k), reg' = RemoveBySocket(reg, k)
        PROVE  /\ sock'[Cli] = "open" => reg'.cliBySession[s] = Cli
               /\ sock'[q] = "open" => reg'.phoneBySession[s] = q
    <3>1. sock'[k] # "open"
      BY <2>5, OpenStep
    <3>2. /\ k # Cli => (reg.cliBySession[s] = Cli => reg'.cliBySession[s] = Cli)
          /\ k # q => (reg.phoneBySession[s] = q => reg'.phoneBySession[s] = q)
      BY <1>0, <2>5, RemovesOnly
    <3>3. QED
      BY <2>2, <3>1, <3>2
  <2>6. ASSUME NEW k \in Sockets, EndNotify(k), reg' = RemoveSession(reg, closing[k].session)
        PROVE  /\ sock'[Cli] = "open" => reg'.cliBySession[s] = Cli
               /\ sock'[q] = "open" => reg'.phoneBySession[s] = q
    <3> DEFINE t == closing[k].session
    <3>1. t \in Sessions /\ sock' = Shut(SocketsOf(reg, t))
      BY <2>6 DEF EndNotify, TypeOK, FramesOK, NotClosing
    <3> HIDE DEF t
    <3>2. CASE t = s
      <4>1. reg.cliBySession[s] = Cli => sock'[Cli] # "open"
        BY <1>0, <3>1, <3>2 DEF Shut, SocketsOf
      <4>2. reg.phoneBySession[s] = q => sock'[q] # "open"
        BY <1>0, <3>1, <3>2 DEF Shut, SocketsOf
      <4>3. QED
        BY <2>2, <4>1, <4>2
    <3>3. CASE t # s
      <4>1. /\ reg'.cliBySession[s] = reg.cliBySession[s]
            /\ reg'.phoneBySession[s] = reg.phoneBySession[s]
        BY <1>0, <2>6, <3>1, <3>3 DEF RemoveSession, Registries, t
      <4>2. QED
        BY <2>2, <4>1
    <3>4. QED
      BY <3>2, <3>3
  <2>7. QED
    BY <1>1, <1>4, <2>3, <2>4, <2>5, <2>6, RegStep
<1>5. QED
  BY <1>2, <1>3, <1>4

\* A session has entries after promoteToSession only, when the pairing has none.
LEMMA SessionEntriesStep ==
  ASSUME TypeOK, ClaimInv, TurnInv, CodeInv, GrantInv, RegInv, [Next]_vars,
         NEW s \in Sessions, InSession(s)'
  PROVE  Granted(s)' /\ Promoted' /\ reg'.cliByPairing = None /\ reg'.phoneByPairing = None
<1>1. CASE InSession(s)
  <2>1. Granted(s) /\ Promoted /\ reg.cliByPairing = None /\ reg.phoneByPairing = None
    BY <1>1 DEF RegInv
  <2>2. Granted(s)' /\ Promoted'
    BY <2>1, GrantedStays, PromotedStep
  <2>3. ~HelloBind
    BY <2>1 DEF GrantInv, HelloPending, HelloBind, HelloSteps
  <2>4. \A p \in Phones : ~ClaimBind(p)
    BY <2>1, BindsBefore
  <2>5. QED
    BY <2>1, <2>2, <2>3, <2>4, EntriesStep
<1>2. CASE Promote /\ s = loc[Cli]
  <2>1. Promoted' /\ Granted(s)
    BY <1>2, PromotedStep
  <2>2. QED
    BY <1>2, <2>1, GrantedStays, EntriesStep
<1>3. QED
  BY <1>1, <1>2, EntriesStep

\* A close handler works for a closed socket and for a session that was granted.
LEMMA CloseHandlerStep ==
  ASSUME TypeOK, ClaimInv, TurnInv, CodeInv, GrantInv, RegInv, [Next]_vars,
         NEW k \in Sockets, closing'[k].step # "idle"
  PROVE  sock'[k] = "closed" /\ Granted(closing[k].session)' /\ Promoted'
<1>0. closing \in [Sockets -> {NotClosing} \cup [step : {"update", "notify"}, session : Sessions]]
  BY DEF TypeOK, FramesOK
<1>1. CASE /\ SocketClose(k) /\ SessionOf(reg, k) # None
           /\ closing'[k] = [step |-> "update", session |-> SessionOf(reg, k)]
  <2>1. SessionOf(reg, k) \in Sessions /\ Granted(SessionOf(reg, k)) /\ Promoted
    BY <1>1, ReportsRegistered DEF RegInv
  <2>2. Promoted'
    BY <2>1, PromotedStep
  <2>3. sock'[k] = "closed"
    BY <1>1 DEF SocketClose, TypeOK, NetOK
  <2>4. sessions'[closing'[k].session].status # "unused"
    <3>1. sessions' = sessions /\ closing'[k].session = SessionOf(reg, k)
      BY <1>1 DEF SocketClose, store
    <3>2. QED
      BY <2>1, <3>1 DEF Granted
  <2>5. QED
    BY <2>2, <2>3, <2>4 DEF Granted
<1>2. CASE closing[k].step # "idle" /\ closing'[k].session = closing[k].session
  <2>1. sock[k] = "closed" /\ Granted(closing[k].session) /\ Promoted
    BY <1>2 DEF RegInv
  <2>2. closing[k].session \in Sessions
    BY <1>0, <1>2 DEF NotClosing
  <2>3. sessions'[closing[k].session].status # "unused"
    BY <2>1, <2>2, GrantedStays DEF Granted
  <2>4. sock'[k] = "closed" /\ Promoted'
    BY <2>1, ClosedStays, PromotedStep
  <2>5. QED
    BY <1>2, <2>3, <2>4 DEF Granted
<1>3. \/ closing'[k] = closing[k]
      \/ closing[k].step = "update" /\ closing'[k] = [closing[k] EXCEPT !.step = "notify"]
      \/ /\ SocketClose(k) /\ SessionOf(reg, k) # None
         /\ closing'[k] = [step |-> "update", session |-> SessionOf(reg, k)]
  BY ClosingStep DEF NotClosing
<1>4. QED
  BY <1>0, <1>1, <1>2, <1>3 DEF NotClosing

\* An ended session has a close handler that will close its sockets, or none open.
LEMMA EndedStep ==
  ASSUME TypeOK, ClaimInv, TurnInv, CodeInv, GrantInv, RegInv, [Next]_vars,
         NEW s \in Sessions, sessions'[s].status = "ended"
  PROVE  \/ \E k \in Sockets : closing'[k].step = "notify" /\ closing'[k].session = s
         \/ sock'[Cli] # "open" /\ sock'[sessions'[s].key] # "open"
<1> DEFINE q == sessions[s].key
<1>0. /\ closing \in [Sockets -> {NotClosing} \cup [step : {"update", "notify"}, session : Sessions]]
      /\ Cli \in Sockets /\ Cli # None /\ None \notin Sockets
  BY SocketFacts DEF TypeOK, FramesOK
<1>1. CASE \E k \in Sockets : EndUpdate(k) /\ closing[k].session = s
                              /\ sessions[s].status = "active"
  <2>1. PICK k \in Sockets : EndUpdate(k) /\ closing[k].session = s /\ sessions[s].status = "active"
    BY <1>1
  <2>2. closing'[k] = [closing[k] EXCEPT !.step = "notify"] /\ closing[k].step = "update"
    BY <1>0, <2>1 DEF EndUpdate
  <2>3. closing'[k].step = "notify" /\ closing'[k].session = s
    BY <1>0, <2>1, <2>2 DEF NotClosing
  <2>4. QED
    BY <2>3
<1>2. CASE sessions'[s] = sessions[s]
  <2>0. /\ sessions[s].status = "ended" /\ Granted(s) /\ sessions'[s].key = q
        /\ q \in Phones /\ q \in Sockets
    BY <1>2, BindsBefore, SocketFacts DEF Granted
  <2>1. CASE Crash
    BY <1>0, <2>0, <2>1, CrashFrame
  <2>2. CASE sock[Cli] # "open" /\ sock[q] # "open"
    BY <2>0, <2>2, NoneOpens
  <2>3. ASSUME NEW k \in Sockets, closing[k].step = "notify", closing[k].session = s, ~Crash
        PROVE  \/ closing'[k].step = "notify" /\ closing'[k].session = s
               \/ sock'[Cli] # "open" /\ sock'[q] # "open"
    <3>1. CASE EndNotify(k)
      <4>1. Promoted
        BY <2>3 DEF RegInv
      <4>2. /\ sock[Cli] = "open" => reg.cliBySession[s] = Cli
            /\ sock[q] = "open" => reg.phoneBySession[s] = q
        BY <2>0, <4>1 DEF RegInv
      <4>3. sock' = Shut(SocketsOf(reg, s))
        BY <2>3, <3>1 DEF EndNotify
      <4>4. sock'[Cli] # "open"
        BY <1>0, <4>2, <4>3 DEF Shut, SocketsOf
      <4>5. sock'[q] # "open"
        BY <1>0, <2>0, <4>2, <4>3 DEF Shut, SocketsOf
      <4>6. QED
        BY <4>4, <4>5
    <3>2. CASE ~EndNotify(k)
      <4>1. ~SocketClose(k)
        BY <2>3, ClosedStays DEF RegInv
      <4>2. ~EndUpdate(k)
        BY <2>3 DEF EndUpdate
      <4>3. QED
        BY <2>3, <3>2, <4>1, <4>2, ClosingStep
    <3>3. QED
      BY <3>1, <3>2
  <2>4. QED
    BY <2>0, <2>1, <2>2, <2>3 DEF RegInv
<1>3. ~(Commit(s) /\ sessions'[s] = [status |-> "active", key |-> loc[Cli]])
  OBVIOUS
<1>4. \/ sessions'[s] = sessions[s]
      \/ \E k \in Sockets : EndUpdate(k) /\ closing[k].session = s
                            /\ sessions[s].status = "active"
  BY <1>3, SessionsStep
<1>5. QED
  BY <1>1, <1>2, <1>4

\* Every step keeps RegInv.
LEMMA RegInvStep ==
  ASSUME TypeOK, ClaimInv, TurnInv, CodeInv, GrantInv, RegInv, [Next]_vars
  PROVE  RegInv'
<1>1. Speaks' /\ sock'[Cli] = "open" /\ ~Promoted' => reg'.cliByPairing = Cli
  BY CliRegistered
<1>2. \A p \in Phones : Marked(p)' /\ sock'[p] = "open" /\ ~Promoted' => reg'.phoneByPairing = p
  BY PhoneRegistered
<1>3. \A s \in Sessions : SessionRegistered(s)'
  BY SessionRegisteredStep
<1>4. \A s \in Sessions : InSession(s)' =>
        Granted(s)' /\ Promoted' /\ reg'.cliByPairing = None /\ reg'.phoneByPairing = None
  BY SessionEntriesStep
<1>5. \A k \in Sockets : closing'[k].step # "idle" =>
        sock'[k] = "closed" /\ Granted(closing[k].session)' /\ Promoted'
  BY CloseHandlerStep
<1>6. \A s \in Sessions : sessions'[s].status = "ended" =>
        \/ \E k \in Sockets : closing'[k].step = "notify" /\ closing'[k].session = s
        \/ sock'[Cli] # "open" /\ sock'[sessions'[s].key] # "open"
  BY EndedStep
<1>7. QED
  BY <1>1, <1>2, <1>3, <1>4, <1>5, <1>6 DEF RegInv, SessionRegistered

\* Nothing is registered, granted or closing at first, and no socket is open.
LEMMA RegInit == Init => RegInv
<1> SUFFICES ASSUME Init PROVE RegInv
  OBVIOUS
<1>1. /\ \A s \in Sessions : sessions[s].status = "unused" /\ ~InSession(s)
      /\ \A k \in Sockets : sock[k] = "none" /\ closing[k].step = "idle"
      /\ Cli \in Sockets /\ \A p \in Phones : p \in Sockets
  BY SocketFacts DEF Init, NewRegistry, InSession, NotClosing
<1>2. QED
  BY <1>1 DEF RegInv, Granted

\* Every open socket of a pairing is registered, with the pairing or with its session, and an
\* ended session has a handler at work that closes what is left of it, or nothing is left.
THEOREM RegInvariant == Spec => []RegInv
  BY RegInit, RegInvStep, TypeCorrect, ClaimInvariant, TurnInvariant, CodeInvariant,
     GrantInvariant, PTL DEF Spec

-----------------------------------------------------------------------------
\* The two properties

\* The sessions that hold an entry of a socket are one at most, and then the pairing has none.
LEMMA RegInvOnce == TypeOK /\ GrantInv /\ RegInv => RegisteredOnce
<1> SUFFICES ASSUME TypeOK, GrantInv, RegInv, NEW k \in Sockets
             PROVE  Cardinality({m \in {"cliByPairing", "phoneByPairing"} : reg[m] = k})
                      + Cardinality(CliSessions(reg, k)) + Cardinality(PhoneSessions(reg, k)) <= 1
  BY DEF RegisteredOnce
<1> DEFINE M == {m \in {"cliByPairing", "phoneByPairing"} : reg[m] = k}
           C == CliSessions(reg, k)
           P == PhoneSessions(reg, k)
<1>0. /\ reg \in Registries /\ k # None /\ Cli \notin Phones /\ None \notin Phones
      /\ k = Cli \/ k \in Phones
  BY SocketFacts DEF TypeOK, MemoryOK
<1>1. Cardinality({}) = 0 /\ \A x : Cardinality({x}) = 1
  BY FS_EmptySet, FS_Singleton
<1>2. C = {} \/ P = {}
  BY <1>0 DEF CliSessions, PhoneSessions, Registries
<1>3. \A s \in C \cup P : InSession(s) /\ s \in Sessions
  BY <1>0 DEF CliSessions, PhoneSessions, InSession
<1>4. \A s, t \in C \cup P : s = t
  BY <1>3 DEF RegInv, GrantInv
<1>5. CASE C \cup P # {}
  <2>1. PICK s : s \in C \cup P
    BY <1>5
  <2>2. reg.cliByPairing = None /\ reg.phoneByPairing = None
    BY <1>3, <2>1 DEF RegInv
  <2>3. M = {}
    BY <1>0, <2>2
  <2>4. (C = {s} /\ P = {}) \/ (C = {} /\ P = {s})
    BY <1>2, <1>4, <2>1
  <2> HIDE DEF M, C, P
  <2>5. Cardinality(M) = 0
    BY <1>1, <2>3
  <2>6. \/ Cardinality(C) = 1 /\ Cardinality(P) = 0
        \/ Cardinality(C) = 0 /\ Cardinality(P) = 1
    BY <1>1, <2>4
  <2>7. Cardinality(M) + Cardinality(C) + Cardinality(P) <= 1
    BY <2>5, <2>6
  <2>8. QED
    BY <2>7 DEF M, C, P
<1>6. CASE C = {} /\ P = {}
  <2>1. M = {} \/ \E m : M = {m}
    <3>1. reg.cliByPairing # k \/ reg.phoneByPairing # k
      BY <1>0 DEF Registries
    <3>2. M \subseteq {"cliByPairing", "phoneByPairing"}
          /\ ("cliByPairing" \notin M \/ "phoneByPairing" \notin M)
      BY <3>1
    <3> HIDE DEF M
    <3>3. M \in {{}, {"cliByPairing"}, {"phoneByPairing"}}
      BY <3>2
    <3>4. QED
      BY <3>3
  <2> HIDE DEF M, C, P
  <2>2. Cardinality(C) = 0 /\ Cardinality(P) = 0
    BY <1>1, <1>6
  <2>3. Cardinality(M) \in {0, 1}
    BY <1>1, <2>1
  <2>4. Cardinality(M) + Cardinality(C) + Cardinality(P) <= 1
    BY <2>2, <2>3
  <2>5. QED
    BY <2>4 DEF M, C, P
<1>7. QED
  BY <1>5, <1>6

\* removeBySocket finds a socket in one of its four maps at most (handler.ts:125-153): its
\* first match is the only one.
THEOREM AlwaysRegisteredOnce == Spec => []RegisteredOnce
  BY RegInvOnce, RegInvariant, GrantInvariant, TypeCorrect, PTL

\* When endSession is through, the sockets of the CLI and of the session's phone are closed
\* or closing (disconnect.ts).
THEOREM EndedAlwaysClosed == Spec => []EndedMeansClosed
<1>1. RegInv => EndedMeansClosed
  BY DEF RegInv, EndedMeansClosed, Ending
<1>2. QED
  BY <1>1, RegInvariant, PTL
=============================================================================
