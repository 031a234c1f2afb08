---------------------------- MODULE SessionProofs -----------------------------
(***************************************************************************)
(* ControlSession, for any number of inputs, any limit of bad messages and *)
(* any set of faults: every variable keeps its type; inputs reach the pty in*)
(* order; one handler ends the session, and when none is at it any more    *)
(* nothing is registered; and each step is a step of SessionContract or a  *)
(* stutter.                                                                *)
(*                                                                         *)
(* Two steps of the refinement need more than their own text: the CLI's    *)
(* acceptance of an input (OrderInv: nothing later was delivered) and the  *)
(* audit row (EndInv: the handler that writes it is the one that ended the *)
(* session).                                                               *)
(***************************************************************************)
EXTENDS ControlSession, TLAPS

-----------------------------------------------------------------------------
\* Messages and their queues

\* What the clients and the backend send are messages.
LEMMA MsgKinds ==
  /\ Close \in Msgs
  /\ \A reason \in Reasons : Bye(reason) \in Msgs
  /\ \A n \in 1..MaxInputs, ok \in BOOLEAN : Input(n, ok) \in Msgs
BY DEF Msgs, Byes, Inputs, Input, Bye, Close

\* The type field of a message tells what else it carries.
LEMMA MsgByType ==
  ASSUME NEW m \in Msgs
  PROVE  /\ m.type = "input" => m \in Inputs
         /\ m.type = "disconnect" => m \in Byes
BY DEF Msgs, Byes, Inputs, Close

\* Ageing keeps a message a message.
LEMMA StaleType ==
  ASSUME NEW m \in Msgs
  PROVE  Stale(m) \in Msgs
<1>1. CASE m.type = "input"
  <2>1. m \in Inputs
    BY <1>1, MsgByType
  <2>2. [m EXCEPT !.fresh = FALSE] \in Inputs
    BY <2>1 DEF Inputs
  <2> QED BY <1>1, <2>2 DEF Stale, Msgs
<1>2. CASE m.type # "input"
  BY <1>2 DEF Stale
<1> QED BY <1>1, <1>2

\* An old input is still an input.
LEMMA StaleInput ==
  ASSUME NEW m \in Inputs
  PROVE  Stale(m) \in Inputs
BY DEF Stale, Inputs

\* Ageing a queue ages its messages one by one.
LEMMA StaleAllType ==
  ASSUME NEW q \in Seq(Msgs)
  PROVE  /\ StaleAll(q) \in Seq(Msgs)
         /\ Len(StaleAll(q)) = Len(q)
         /\ \A i \in 1..Len(q) : StaleAll(q)[i] = Stale(q[i])
<1>1. Len(q) \in Nat /\ DOMAIN q = 1..Len(q)
  OBVIOUS
<1>2. StaleAll(q) = [i \in 1..Len(q) |-> Stale(q[i])]
  BY <1>1 DEF StaleAll
<1>3. \A i \in 1..Len(q) : Stale(q[i]) \in Msgs
  BY StaleType
<1>4. [i \in 1..Len(q) |-> Stale(q[i])] \in Seq(Msgs)
  BY <1>1, <1>3
<1> QED BY <1>1, <1>2, <1>4

\* wsSend appends to a queue of messages, or leaves it.
LEMMA PostType ==
  ASSUME NEW d \in [Sides -> Seq(Msgs)], NEW r \in Sides, NEW ms \in Seq(Msgs)
  PROVE  Post(d, r, ms) \in [Sides -> Seq(Msgs)]
BY DEF Post

\* A one-element queue.
LEMMA Single ==
  ASSUME NEW m \in Msgs
  PROVE  <<m>> \in Seq(Msgs)
OBVIOUS

\* Taking or hearing the first message leaves a queue of messages.
LEMMA HeadTail ==
  ASSUME NEW q \in Seq(Msgs), q # <<>>
  PROVE  Head(q) \in Msgs /\ Tail(q) \in Seq(Msgs)
OBVIOUS

-----------------------------------------------------------------------------
\* Type correctness, action by action

\* The constants of a run.
LEMMA Parameters == MaxInputs \in Nat /\ MaxFailures \in Nat \ {0}
BY SessionParameters

\* removeSession forgets and closes sockets.
LEMMA RemoveSessionType ==
  ASSUME TypeOK, NEW d \in [Sides -> Seq(Msgs)], RemoveSession(d)
  PROVE  /\ bound' = {} /\ down' \in [Sides -> Seq(Msgs)]
         /\ sock' \in [Sides -> {"open", "closing", "closed"}]
<1>1. <<Close>> \in Seq(Msgs)
  BY MsgKinds, Single
<1>2. \A r \in Sides : Post(d, r, <<Close>>)[r] \in Seq(Msgs)
  BY <1>1, PostType
<1> QED BY <1>2 DEF RemoveSession, Shut, TypeOK

\* A client that hangs up.
LEMMA HangupType ==
  ASSUME TypeOK, NEW r \in Sides, Hangup(r)
  PROVE  linked' \in [Sides -> BOOLEAN] /\ down' \in [Sides -> Seq(Msgs)]
<1>1. <<>> \in Seq(Msgs)
  OBVIOUS
<1> QED BY <1>1 DEF Hangup, TypeOK

\* The relay of one message.
LEMMA RelayType ==
  ASSUME TypeOK, NEW m \in Inputs, Relay(m)
  PROVE  /\ bound' \subseteq Sides /\ failures' \in 0..(MaxFailures - 1)
         /\ sigfail' \in BOOLEAN /\ down' \in [Sides -> Seq(Msgs)]
         /\ sock' \in [Sides -> {"open", "closing", "closed"}]
<1>1. CASE m.signed
  <2>1. <<m>> \in Seq(Msgs)
    BY Single DEF Msgs
  <2>2. Post(down, "cli", <<m>>) \in [Sides -> Seq(Msgs)]
    BY <2>1, PostType DEF TypeOK, Sides
  <2>3. /\ failures' = 0 /\ UNCHANGED <<bound, sock, sigfail>>
        /\ down' = Post(down, "cli", <<m>>) \/ down' = down
    BY <1>1, Zenon DEF Relay
  <2>4. failures' \in 0..(MaxFailures - 1)
    BY <2>3, Parameters
  <2>5. down' \in [Sides -> Seq(Msgs)]
    BY <2>2, <2>3 DEF TypeOK
  <2>6. sigfail' = sigfail /\ bound' = bound /\ sock' = sock
    BY <2>3
  <2>7. sigfail' \in BOOLEAN /\ bound' \subseteq Sides
        /\ sock' \in [Sides -> {"open", "closing", "closed"}]
    BY <2>6 DEF TypeOK
  <2> QED BY <2>4, <2>5, <2>7
<1>2. CASE ~m.signed /\ ~TooMany(failures + 1)
  BY <1>2, Parameters DEF Relay, TooMany, TypeOK
<1>3. CASE ~m.signed /\ TooMany(failures + 1)
  <2>1. RemoveSession(down) /\ failures' = 0 /\ sigfail' = TRUE
    BY <1>3 DEF Relay
  <2> QED BY <2>1, RemoveSessionType, Parameters DEF TypeOK
<1> QED BY <1>1, <1>2, <1>3

\* The phone's steps.
LEMMA PhoneTypesType ==
  ASSUME TypeOK, PhoneTypes PROVE TypeOK'
<1>1. seq' \in 1..MaxInputs
  BY Parameters DEF TypeOK, PhoneTypes
<1>2. Input(seq', key = "own") \in Msgs
  BY <1>1, MsgKinds
<1>3. up' \in [Sides -> Seq(Msgs)]
  BY <1>2 DEF TypeOK, PhoneTypes, Sides
<1> QED BY <1>1, <1>3 DEF TypeOK, PhoneTypes, store, memory, frames, laptop

\* What the page's end changes, but for the queue to the backend.
LEMMA PhoneLeavesType ==
  ASSUME TypeOK, PhoneLeaves, up' \in [Sides -> Seq(Msgs)] PROVE TypeOK'
<1>1. linked' \in [Sides -> BOOLEAN] /\ down' \in [Sides -> Seq(Msgs)]
  BY HangupType DEF PhoneLeaves, Sides
<1> QED BY <1>1 DEF TypeOK, PhoneLeaves, store, memory, frames, laptop

\* The Disconnect button.
LEMMA PhoneDisconnectsType ==
  ASSUME TypeOK, PhoneDisconnects PROVE TypeOK'
<1>1. Bye("phone_disconnect") \in Msgs
  BY MsgKinds DEF Reasons
<1>2. up' \in [Sides -> Seq(Msgs)]
  BY <1>1 DEF TypeOK, PhoneDisconnects, Sides
<1> QED BY <1>2, PhoneLeavesType DEF PhoneDisconnects

\* The page listens, hears of the end, or finds its socket closed.
LEMMA PhoneHearsType ==
  ASSUME TypeOK, PhoneListens \/ PhoneHears \/ PhoneResumes PROVE TypeOK'
<1>1. CASE PhoneListens
  BY <1>1 DEF PhoneListens, TypeOK, store, memory, frames, net, laptop
<1>2. CASE PhoneHears \/ PhoneResumes
  <2>1. PhoneLeaves /\ up' \in [Sides -> Seq(Msgs)]
    BY <1>2 DEF PhoneHears, PhoneResumes, TypeOK
  <2> QED BY <2>1, PhoneLeavesType
<1> QED BY <1>1, <1>2

\* Before it listens, its messages are read by others.
LEMMA PhoneMissesType ==
  ASSUME TypeOK, PhoneMisses PROVE TypeOK'
<1>1. CASE Hangup("phone")
  <2>1. linked' \in [Sides -> BOOLEAN] /\ down' \in [Sides -> Seq(Msgs)]
    BY <1>1, HangupType DEF Sides
  <2> QED BY <2>1 DEF PhoneMisses, TypeOK, store, memory, frames, laptop, browser
<1>2. CASE down' = [down EXCEPT !["phone"] = Tail(@)] /\ UNCHANGED linked
  <2>1. down["phone"] \in Seq(Msgs) /\ down["phone"] # <<>>
    BY DEF TypeOK, PhoneMisses, Sides
  <2>2. Tail(down["phone"]) \in Seq(Msgs)
    BY <2>1
  <2>3. down' \in [Sides -> Seq(Msgs)]
    BY <1>2, <2>2 DEF TypeOK, Sides
  <2> QED BY <1>2, <2>3 DEF PhoneMisses, TypeOK, store, memory, frames, laptop, browser
<1> QED BY <1>1, <1>2 DEF PhoneMisses

\* Cutting a connection may lose what was under way.
LEMMA CutType ==
  ASSUME TypeOK, NEW r \in Sides, Cut(r) PROVE up' \in [Sides -> Seq(Msgs)]
<1>1. <<>> \in Seq(Msgs)
  OBVIOUS
<1> QED BY <1>1 DEF TypeOK, Cut

\* The page loses its connection.
LEMMA PhoneLosesConnectionType ==
  ASSUME TypeOK, PhoneLosesConnection PROVE TypeOK'
<1>1. up' \in [Sides -> Seq(Msgs)]
  BY CutType DEF PhoneLosesConnection, Sides
<1>2. CASE PhoneLeaves
  BY <1>1, <1>2, PhoneLeavesType
<1>3. CASE Hangup("phone") /\ UNCHANGED <<store, memory, sock, laptop, browser>>
  <2>1. linked' \in [Sides -> BOOLEAN] /\ down' \in [Sides -> Seq(Msgs)]
    BY <1>3, HangupType DEF Sides
  <2> QED BY <1>1, <1>3, <2>1 DEF TypeOK, store, memory, frames, laptop, browser
<1> QED BY <1>2, <1>3 DEF PhoneLosesConnection

\* Another tab of the browser.
LEMMA OtherTabType ==
  ASSUME TypeOK, OtherTab PROVE TypeOK'
BY DEF TypeOK, OtherTab, store, memory, frames, net, laptop

\* Reading the first message of a side.
LEMMA TakeType ==
  ASSUME TypeOK, NEW r \in Sides, up[r] # <<>>, Take(r)
  PROVE  Head(up[r]) \in Msgs /\ up' \in [Sides -> Seq(Msgs)]
<1>1. up[r] \in Seq(Msgs)
  BY DEF TypeOK
<1>2. Head(up[r]) \in Msgs /\ Tail(up[r]) \in Seq(Msgs)
  BY <1>1, HeadTail
<1> QED BY <1>2 DEF Take, TypeOK

\* An input reaches the relay.
LEMMA InputArrivesType ==
  ASSUME TypeOK, InputArrives PROVE TypeOK'
<1>1. Head(up["phone"]) \in Msgs /\ up' \in [Sides -> Seq(Msgs)]
  BY TakeType DEF InputArrives, Sides
<1> DEFINE m == Head(up["phone"])
<1>2. m \in Inputs
  BY <1>1, MsgByType DEF InputArrives
<1> HIDE DEF m
<1>3. CASE "phone" \in bound /\ cached
  <2>1. Relay(m) /\ lookups' = lookups
    BY <1>3 DEF InputArrives, m
  <2>2. /\ bound' \subseteq Sides /\ failures' \in 0..(MaxFailures - 1)
        /\ sigfail' \in BOOLEAN /\ down' \in [Sides -> Seq(Msgs)]
        /\ sock' \in [Sides -> {"open", "closing", "closed"}]
    BY <2>1, <1>2, RelayType
  <2> QED BY <1>1, <2>1, <2>2 DEF TypeOK, InputArrives, store, laptop, browser
<1>4. CASE "phone" \in bound /\ ~cached
  <2>1. lookups' = lookups \cup {[msg |-> m, found |-> "asked"]}
    BY <1>4 DEF InputArrives, m
  <2>2. UNCHANGED <<bound, failures, sigfail, sock, down>>
    BY <1>4 DEF InputArrives
  <2> QED BY <1>1, <1>2, <2>1, <2>2 DEF TypeOK, InputArrives, store, laptop, browser
<1>5. CASE "phone" \notin bound
  <2>1. UNCHANGED <<bound, failures, lookups, sigfail, sock, down>>
    BY <1>5 DEF InputArrives
  <2> QED BY <1>1, <2>1 DEF TypeOK, InputArrives, store, laptop, browser
<1> QED BY <1>3, <1>4, <1>5

\* Postgres answers a key lookup.
LEMMA KeyQueryType ==
  ASSUME TypeOK, NEW f \in lookups, KeyQuery(f) PROVE TypeOK'
BY DEF TypeOK, KeyQuery, store, net, laptop, browser

\* The relay goes on with the answer.
LEMMA KeyAnswerType ==
  ASSUME TypeOK, NEW f \in lookups, KeyAnswer(f) PROVE TypeOK'
<1>1. f.msg \in Inputs /\ lookups' \subseteq lookups
  BY DEF TypeOK, KeyAnswer
<1>2. CASE f.found = "yes"
  <2>1. Relay(f.msg) /\ cached' = TRUE
    BY <1>2 DEF KeyAnswer
  <2>2. /\ bound' \subseteq Sides /\ failures' \in 0..(MaxFailures - 1)
        /\ sigfail' \in BOOLEAN /\ down' \in [Sides -> Seq(Msgs)]
        /\ sock' \in [Sides -> {"open", "closing", "closed"}]
    BY <2>1, <1>1, RelayType
  <2> QED BY <1>1, <2>1, <2>2 DEF TypeOK, KeyAnswer, store, laptop, browser
<1>3. CASE f.found # "yes"
  BY <1>1, <1>3 DEF TypeOK, KeyAnswer, store, laptop, browser
<1> QED BY <1>2, <1>3

\* The relay's UPDATE after too many bad signatures.
LEMMA SigFailUpdateType ==
  ASSUME TypeOK, SigFailUpdate PROVE TypeOK'
BY DEF TypeOK, SigFailUpdate, Reasons, net, laptop, browser

\* Frames of endSession stay frames.
LEMMA EnderType ==
  ASSUME TypeOK, NEW e \in Enders,
         NEW step \in {"idle", "mark", "list", "update", "audit", "finish"},
         NEW reason \in Reasons
  PROVE  /\ [ender EXCEPT ![e] = Ender(step, reason)] \in EnderFrames
         /\ [ender EXCEPT ![e].step = step] \in EnderFrames
BY DEF TypeOK, Ender, EnderFrames

\* The reason and the frame a side's message or close event leads to.
LEMMA SideTypes ==
  ASSUME NEW r \in Sides, NEW said
  PROVE  EndReason(r, said) \in Reasons /\ MessageOf(r) \in Enders /\ CloseOf(r) \in Enders
BY DEF Sides, EndReason, Reasons, MessageOf, CloseOf, Enders

\* A goodbye reaches the backend.
LEMMA DisconnectArrivesType ==
  ASSUME TypeOK, NEW r \in Sides, DisconnectArrives(r) PROVE TypeOK'
<1>1. up' \in [Sides -> Seq(Msgs)]
  BY TakeType DEF DisconnectArrives
<1>2. \/ ender' = [ender EXCEPT ![MessageOf(r)] =
                     Ender("update", EndReason(r, Head(up[r]).reason))]
      \/ ender' = ender
  BY DEF DisconnectArrives
<1>3. ender' \in EnderFrames
  <2>1. ender \in EnderFrames
    BY DEF TypeOK
  <2>2. [ender EXCEPT ![MessageOf(r)] = Ender("update", EndReason(r, Head(up[r]).reason))]
          \in EnderFrames
    BY SideTypes, EnderType
  <2> QED BY <1>2, <2>1, <2>2
<1> QED BY <1>1, <1>3 DEF TypeOK, DisconnectArrives, store, laptop, browser

\* A close event.
LEMMA SocketCloseType ==
  ASSUME TypeOK, NEW r \in Sides, SocketClose(r) PROVE TypeOK'
<1>1. \/ ender' = [ender EXCEPT ![CloseOf(r)] = Ender("update", EndReason(r, "closed"))]
      \/ ender' = ender
  BY DEF SocketClose
<1>2. ender' \in EnderFrames
  <2>1. ender \in EnderFrames
    BY DEF TypeOK
  <2>2. [ender EXCEPT ![CloseOf(r)] = Ender("update", EndReason(r, "closed"))] \in EnderFrames
    BY SideTypes, EnderType
  <2> QED BY <1>1, <2>1, <2>2
<1> QED BY <1>2 DEF TypeOK, SocketClose, store, laptop, browser

\* A step of a frame, and its end.
LEMMA StepType ==
  ASSUME TypeOK, NEW e \in Enders,
         NEW step \in {"mark", "list", "update", "audit", "finish"},
         Step(e, step) \/ Finished(e)
  PROVE  ender' \in EnderFrames
<1>1. CASE Step(e, step)
  BY <1>1, EnderType DEF Step, Reasons
<1>2. CASE Finished(e)
  BY <1>2 DEF Finished, Idle, TypeOK, Reasons, EnderFrames
<1> QED BY <1>1, <1>2

\* endSession: the UPDATE.
LEMMA EndUpdateType ==
  ASSUME TypeOK, NEW e \in Enders, EndUpdate(e) PROVE TypeOK'
<1>1. Step(e, "audit") \/ Finished(e)
  BY DEF EndUpdate
<1>2. ender' \in EnderFrames
  BY <1>1, StepType
<1>3. ending' \in Reasons \cup {"active"}
  BY DEF EndUpdate, TypeOK, EnderFrames
<1> QED BY <1>2, <1>3 DEF TypeOK, EndUpdate, net, laptop, browser

\* endSession: the audit row.
LEMMA EndAuditType ==
  ASSUME TypeOK, NEW e \in Enders, EndAudit(e) PROVE TypeOK'
<1>1. ender' \in EnderFrames
  BY StepType DEF EndAudit
<1>2. ender[e].reason \in Reasons /\ audit \in Seq(Reasons)
  BY DEF TypeOK, EnderFrames
<1>3. audit' = Append(audit, ender[e].reason) \/ audit' = audit
  BY DEF EndAudit
<1>4. audit' \in Seq(Reasons)
  BY <1>2, <1>3
<1> QED BY <1>1, <1>4 DEF TypeOK, EndAudit, net, laptop, browser

\* Telling the sides leaves queues of messages.
LEMMA NotifiedType ==
  ASSUME TypeOK, NEW e \in Enders
  PROVE  Notified(e) \in [Sides -> Seq(Msgs)]
<1>1. Bye(ender[e].reason) \in Msgs /\ down \in [Sides -> Seq(Msgs)]
  BY MsgKinds DEF TypeOK, EnderFrames
<1>2. \A r \in Sides : Post(down, r, <<Bye(ender[e].reason)>>)[r] \in Seq(Msgs)
  <2>1. <<Bye(ender[e].reason)>> \in Seq(Msgs)
    BY <1>1, Single
  <2> QED BY <1>1, <2>1, PostType
<1> QED BY <1>2 DEF Notified, TypeOK

\* endSession: cache, notification, sockets.
LEMMA EndFinishType ==
  ASSUME TypeOK, NEW e \in Enders, EndFinish(e) PROVE TypeOK'
<1>1. ender' \in EnderFrames
  BY StepType DEF EndFinish
<1>2. /\ bound' = {} /\ down' \in [Sides -> Seq(Msgs)]
      /\ sock' \in [Sides -> {"open", "closing", "closed"}]
  BY NotifiedType, RemoveSessionType DEF EndFinish
<1> QED BY <1>1, <1>2 DEF TypeOK, EndFinish, store, laptop, browser

\* The revocation's queries.
LEMMA RevokeType ==
  ASSUME TypeOK, RevokeSelect \/ RevokeMark \/ RevokeList \/ RevokeFails PROVE TypeOK'
<1>1. \/ Step("revoke", "mark") \/ Step("revoke", "list")
      \/ Step("revoke", "update") \/ Finished("revoke")
  BY DEF RevokeSelect, RevokeMark, RevokeList, RevokeFails
<1>2. ender' \in EnderFrames
  BY <1>1, StepType DEF Enders
<1>3. revoked' \in BOOLEAN /\ UNCHANGED <<ending, audit, bound, cached, failures, lookups,
                                          sigfail, net, laptop, browser>>
  BY DEF TypeOK, RevokeSelect, RevokeMark, RevokeList, RevokeFails, store
<1> QED BY <1>2, <1>3 DEF TypeOK, net, laptop, browser

\* The CLI starts its control phase.
LEMMA CliStartsType ==
  ASSUME TypeOK, CliStarts PROVE TypeOK'
BY DEF TypeOK, CliStarts, store, memory, frames, net, browser

\* What a terminating CLI still sends.
LEMMA CliExitsType ==
  ASSUME TypeOK, NEW said \in Seq(Msgs), CliExits(said)
  PROVE  /\ stage' = "exited" /\ up' \in [Sides -> Seq(Msgs)]
         /\ linked' \in [Sides -> BOOLEAN] /\ down' \in [Sides -> Seq(Msgs)]
<1>1. linked' \in [Sides -> BOOLEAN] /\ down' \in [Sides -> Seq(Msgs)]
  BY HangupType DEF CliExits, Sides
<1>2. up' \in [Sides -> Seq(Msgs)]
  <2>1. up \in [Sides -> Seq(Msgs)]
    BY DEF TypeOK
  <2>2. \/ up' = up
        \/ up' = [up EXCEPT !["cli"] = up["cli"] \o said]
    BY DEF CliExits
  <2>3. up["cli"] \o said \in Seq(Msgs)
    BY <2>1 DEF Sides
  <2> QED BY <2>1, <2>2, <2>3
<1> QED BY <1>1, <1>2 DEF CliExits

\* What the CLI's end changes.
LEMMA TeardownType ==
  ASSUME TypeOK, NEW reason \in Reasons, Teardown(reason)
  PROVE  /\ stage' = "exited" /\ up' \in [Sides -> Seq(Msgs)]
         /\ linked' \in [Sides -> BOOLEAN] /\ down' \in [Sides -> Seq(Msgs)]
<1>1. <<>> \in Seq(Msgs) /\ <<Bye(reason)>> \in Seq(Msgs)
  BY MsgKinds, Single
<1> QED BY <1>1, CliExitsType DEF Teardown

\* The steps that end the CLI without reading an input.
LEMMA CliLeavesType ==
  ASSUME TypeOK, CliDisconnects \/ CliKilled \/ CliGoodbye PROVE TypeOK'
<1>1. CASE CliDisconnects
  BY <1>1, TeardownType DEF CliDisconnects, Reasons, TypeOK, store, memory, frames, browser
<1>2. CASE CliKilled
  <2>1. <<>> \in Seq(Msgs)
    OBVIOUS
  <2> QED BY <1>2, <2>1, CliExitsType DEF CliKilled, TypeOK, store, memory, frames, browser
<1>3. CASE CliGoodbye
  <2>1. down["cli"] \in Seq(Msgs) /\ down["cli"] # <<>>
    BY <1>3 DEF CliGoodbye, TypeOK, Sides
  <2>2. Head(down["cli"]).reason \in Reasons
    BY <1>3, <2>1, HeadTail, MsgByType DEF CliGoodbye, Byes
  <2> QED BY <1>3, <2>2, TeardownType DEF CliGoodbye, TypeOK, store, memory, frames, browser
<1> QED BY <1>1, <1>2, <1>3

\* The CLI checks an input; too many bad ones in a row end it.
LEMMA CliInputType ==
  ASSUME TypeOK, CliInput PROVE TypeOK'
<1> DEFINE m == Head(down["cli"])
<1>1. /\ down["cli"] \in Seq(Msgs) /\ down["cli"] # <<>>
      /\ m \in Msgs /\ Tail(down["cli"]) \in Seq(Msgs)
  BY HeadTail DEF CliInput, TypeOK, Sides
<1>2. m \in Inputs
  BY <1>1, MsgByType DEF CliInput
<1>3. m.seq \in 1..MaxInputs
  BY <1>2 DEF Inputs
<1>4. \/ lastSeq' = m.seq /\ cliFailures' = 0 /\ written' = Append(written, m.seq)
      \/ cliFailures' = cliFailures + 1 /\ lastSeq' = lastSeq /\ written' = written
  BY DEF CliInput
<1>5. lastSeq' \in 0..MaxInputs
  BY <1>3, <1>4, Parameters DEF TypeOK
<1>6. written' \in Seq(1..MaxInputs)
  <2> DEFINE N == 1..MaxInputs
  <2>1. written \in Seq(N) /\ m.seq \in N
    BY <1>3 DEF TypeOK
  <2> HIDE DEF N
  <2>2. Append(written, m.seq) \in Seq(N)
    BY <2>1
  <2>3. written' \in Seq(N)
    BY <1>4, <2>1, <2>2
  <2> QED BY <2>3 DEF N
<1>7. cliFailures' \in 0..MaxFailures
  <2>1. cliFailures \in 0..MaxFailures /\ ~TooMany(cliFailures)
    BY DEF TypeOK, CliInput
  <2> QED BY <1>4, <2>1, Parameters DEF TooMany
<1>8. alarmed' = TooMany(cliFailures') /\ alarmed' \in BOOLEAN
  BY DEF CliInput, TooMany
<1>9. /\ stage' \in {"importing", "control", "exited"}
      /\ stage' # "exited" => ~TooMany(cliFailures')
      /\ up' \in [Sides -> Seq(Msgs)] /\ down' \in [Sides -> Seq(Msgs)]
      /\ linked' \in [Sides -> BOOLEAN]
  <2>1. CASE alarmed'
    <3>1. Teardown("sig_fail")
      BY <2>1 DEF CliInput
    <3> QED BY <3>1, TeardownType DEF Reasons
  <2>2. CASE ~alarmed'
    <3>1. down' = [down EXCEPT !["cli"] = Tail(@)] /\ UNCHANGED <<stage, linked, up>>
      BY <2>2 DEF CliInput
    <3> QED BY <3>1, <2>2, <1>1, <1>8 DEF TypeOK
  <2> QED BY <2>1, <2>2
<1> QED BY <1>5, <1>6, <1>7, <1>8, <1>9 DEF TypeOK, CliInput, store, memory, frames, browser

\* The CLI misses a message, or the close of its socket.
LEMMA CliMissesType ==
  ASSUME TypeOK, CliMisses \/ CliLosesSocket PROVE TypeOK'
<1>1. CASE CliMisses
  <2>1. Tail(down["cli"]) \in Seq(Msgs)
    BY <1>1, HeadTail DEF CliMisses, TypeOK, Sides
  <2>2. down' \in [Sides -> Seq(Msgs)]
    BY <1>1, <2>1 DEF CliMisses, TypeOK
  <2> QED BY <1>1, <2>2 DEF TypeOK, CliMisses, store, memory, frames, laptop, browser
<1>2. CASE CliLosesSocket
  <2>1. linked' \in [Sides -> BOOLEAN] /\ down' \in [Sides -> Seq(Msgs)]
    BY <1>2, HangupType DEF CliLosesSocket, Sides
  <2> QED BY <1>2, <2>1 DEF TypeOK, CliLosesSocket, store, memory, frames, laptop, browser
<1> QED BY <1>1, <1>2

\* The CLI loses its connection.
LEMMA CliLosesConnectionType ==
  ASSUME TypeOK, CliLosesConnection PROVE TypeOK'
<1>1. up' \in [Sides -> Seq(Msgs)] /\ linked' \in [Sides -> BOOLEAN]
      /\ down' \in [Sides -> Seq(Msgs)]
  BY HangupType, CutType DEF CliLosesConnection, Sides
<1> QED BY <1>1 DEF TypeOK, CliLosesConnection, store, memory, frames, laptop, browser

\* Time passes.
LEMMA TimePassesType ==
  ASSUME TypeOK, TimePasses PROVE TypeOK'
<1>1. up' \in [Sides -> Seq(Msgs)] /\ down' \in [Sides -> Seq(Msgs)]
  BY StaleAllType DEF TimePasses, TypeOK
<1>2. lookups' \subseteq [msg : Inputs, found : {"asked", "yes", "no"}]
  <2>1. lookups' = {[f EXCEPT !.msg = Stale(@)] : f \in lookups}
    BY DEF TimePasses
  <2>2. \A f \in lookups : [f EXCEPT !.msg = Stale(@)]
                               \in [msg : Inputs, found : {"asked", "yes", "no"}]
    BY StaleInput DEF TypeOK
  <2> QED BY <2>1, <2>2
<1> QED BY <1>1, <1>2 DEF TypeOK, TimePasses, store, laptop, browser

\* The backend dies.
LEMMA CrashType ==
  ASSUME TypeOK, Crash PROVE TypeOK'
<1>1. <<Close>> \in Seq(Msgs) /\ <<>> \in Seq(Msgs)
  BY MsgKinds, Single
<1>2. \A r \in Sides : Post(down, r, <<Close>>)[r] \in Seq(Msgs)
  <2>1. down \in [Sides -> Seq(Msgs)]
    BY DEF TypeOK
  <2> QED BY <1>1, <2>1, PostType
<1>3. down' \in [Sides -> Seq(Msgs)] /\ up' \in [Sides -> Seq(Msgs)]
  BY <1>1, <1>2 DEF Crash
<1>4. ender' \in EnderFrames
  BY DEF Crash, AllIdle, Idle, EnderFrames, Reasons
<1>5. failures' \in 0..(MaxFailures - 1)
  BY Parameters DEF Crash
<1> QED BY <1>3, <1>4, <1>5 DEF TypeOK, Crash, store, laptop, browser

-----------------------------------------------------------------------------
\* A session starts well typed.
LEMMA InitType == Init => TypeOK
<1> SUFFICES ASSUME Init PROVE TypeOK
  OBVIOUS
<1>1. ender \in EnderFrames
  BY DEF Init, AllIdle, Idle, EnderFrames, Reasons
<1>2. up \in [Sides -> Seq(Msgs)] /\ down \in [Sides -> Seq(Msgs)]
  BY DEF Init
<1>3. audit \in Seq(Reasons) /\ written \in Seq(1..MaxInputs)
  BY DEF Init
<1>4. /\ failures \in 0..(MaxFailures - 1) /\ cliFailures \in 0..MaxFailures
      /\ ~TooMany(cliFailures) /\ lastSeq \in 0..MaxInputs /\ seq \in 0..MaxInputs
  BY Parameters DEF Init, TooMany
<1> QED BY <1>1, <1>2, <1>3, <1>4 DEF Init, TypeOK

\* Every step keeps the types.
LEMMA NextType == TypeOK /\ [Next]_vars => TypeOK'
<1> SUFFICES ASSUME TypeOK, [Next]_vars PROVE TypeOK'
  OBVIOUS
<1>1. CASE Backend
  BY <1>1, InputArrivesType, KeyQueryType, KeyAnswerType, SigFailUpdateType,
     DisconnectArrivesType, SocketCloseType, EndUpdateType, EndAuditType, EndFinishType,
     RevokeType DEF Backend, Ends
<1>2. CASE Clients
  BY <1>2, PhoneHearsType, PhoneMissesType, CliStartsType, CliInputType, CliLeavesType,
     CliMissesType
     DEF Clients
<1>3. CASE Users
  BY <1>3, PhoneTypesType, PhoneDisconnectsType, PhoneHearsType, RevokeType, CliLeavesType
     DEF Users
<1>4. CASE Happens
  BY <1>4, TimePassesType, OtherTabType, RevokeType, CrashType, PhoneLosesConnectionType,
     CliLosesConnectionType DEF Happens
<1>5. CASE UNCHANGED vars
  BY <1>5 DEF TypeOK, vars, store, memory, frames, net, laptop, browser
<1> QED BY <1>1, <1>2, <1>3, <1>4, <1>5 DEF Next

(***************************************************************************)
(* The types of the variables of a session hold in every state, whatever   *)
(* the number of inputs, the limit of bad messages and the faults.         *)
(***************************************************************************)
THEOREM SessionTypeCorrect == Spec => []TypeOK
BY InitType, NextType, PTL DEF Spec

-----------------------------------------------------------------------------
\* Inputs in order

\* What makes WrittenInOrder inductive: lastSeq bounds what was written.
OrderInv == /\ WrittenInOrder
            /\ \A i \in 1..Len(written) : written[i] <= lastSeq

\* Only CliInput writes to the pty.
LEMMA OrderUnchanged ==
  ASSUME OrderInv, UNCHANGED <<lastSeq, written>>
  PROVE  OrderInv'
BY DEF OrderInv, WrittenInOrder

\* What Append does to a sequence.
LEMMA Appended ==
  ASSUME NEW S, NEW s \in Seq(S), NEW x \in S
  PROVE  /\ Len(s) \in Nat /\ Len(Append(s, x)) = Len(s) + 1
         /\ \A i \in 1..Len(s) : Append(s, x)[i] = s[i] /\ s[i] \in S
         /\ Append(s, x)[Len(s) + 1] = x
OBVIOUS

\* An accepted input is greater than lastSeq, hence than all before it.
LEMMA OrderStep ==
  ASSUME TypeOK, OrderInv, CliInput
  PROVE  OrderInv'
<1> DEFINE m == Head(down["cli"])
           N == 1..MaxInputs
<1>1. m \in Inputs
  BY HeadTail, MsgByType DEF CliInput, TypeOK, Sides
<1>2. m.seq \in N /\ N \subseteq Nat /\ lastSeq \in Nat /\ written \in Seq(N)
  BY <1>1, Parameters DEF Inputs, TypeOK
<1>3. CASE Acceptable(m, lastSeq)
  <2>1. lastSeq' = m.seq /\ written' = Append(written, m.seq) /\ m.seq > lastSeq
    BY <1>3 DEF CliInput, Acceptable
  <2> DEFINE x == m.seq
             last == Len(written)
  <2>2. x \in Nat /\ x > lastSeq /\ lastSeq' = x /\ lastSeq \in Nat
    BY <1>2, <2>1
  <2>3. written \in Seq(N) /\ x \in N /\ \A n \in N : n \in Nat
    BY <1>2
  <2>4. written' = Append(written, x)
    BY <2>1
  <2> HIDE DEF m, N, x
  <2>5. /\ last \in Nat /\ Len(written') = last + 1
        /\ \A i \in 1..last : written'[i] = written[i] /\ written[i] \in Nat
        /\ written'[last + 1] = x
    BY <2>3, <2>4, Appended
  <2>6. \A i \in 1..last : written[i] <= lastSeq
    BY DEF OrderInv
  <2>7. \A i, j \in 1..last : i < j => written[i] < written[j]
    BY DEF OrderInv, WrittenInOrder
  <2> HIDE DEF last
  <2>8. \A i \in 1..Len(written') : written'[i] <= lastSeq'
    <3> SUFFICES ASSUME NEW i \in 1..(last + 1) PROVE written'[i] <= lastSeq'
      BY <2>5
    <3>1. CASE i = last + 1
      BY <2>2, <2>5, <3>1
    <3>2. CASE i \in 1..last
      BY <2>2, <2>5, <2>6, <3>2
    <3> QED BY <2>5, <3>1, <3>2
  <2>9. WrittenInOrder'
    <3> SUFFICES ASSUME NEW i \in 1..(last + 1), NEW j \in 1..(last + 1), i < j
                 PROVE  written'[i] < written'[j]
      BY <2>5 DEF WrittenInOrder
    <3>1. i \in 1..last
      BY <2>5
    <3>2. CASE j \in 1..last
      BY <2>5, <2>7, <3>1, <3>2
    <3>3. CASE j = last + 1
      BY <2>2, <2>5, <2>6, <3>1, <3>3
    <3> QED BY <2>5, <3>2, <3>3
  <2> QED BY <2>8, <2>9 DEF OrderInv
<1>4. CASE ~Acceptable(m, lastSeq)
  <2>1. UNCHANGED <<lastSeq, written>>
    BY <1>4 DEF CliInput
  <2> QED BY <2>1, OrderUnchanged
<1> QED BY <1>3, <1>4

\* The step: every action but CliInput leaves the CLI's record of inputs alone.
LEMMA OrderNext == TypeOK /\ OrderInv /\ [Next]_vars => OrderInv'
<1> SUFFICES ASSUME TypeOK, OrderInv, [Next]_vars PROVE OrderInv'
  OBVIOUS
<1>1. CASE CliInput
  BY <1>1, OrderStep
<1>2. CASE Backend
  <2>1. UNCHANGED laptop
    BY <1>2 DEF Backend, Ends, InputArrives, KeyQuery, KeyAnswer, SigFailUpdate,
      DisconnectArrives, SocketClose, EndUpdate, EndAudit, EndFinish, RevokeMark, RevokeList
  <2> QED BY <2>1, OrderUnchanged DEF laptop
<1>3. CASE Clients /\ ~CliInput
  BY <1>3, OrderUnchanged DEF Clients, PhoneListens, PhoneHears, PhoneMisses, PhoneLeaves,
    CliStarts, CliGoodbye, CliMisses, CliLosesSocket, laptop
<1>4. CASE Users
  BY <1>4, OrderUnchanged DEF Users, PhoneTypes, PhoneDisconnects, PhoneResumes, PhoneLeaves,
    RevokeSelect, CliDisconnects, CliKilled, laptop
<1>5. CASE Happens
  BY <1>5, OrderUnchanged DEF Happens, TimePasses, OtherTab, RevokeFails, Crash,
    PhoneLosesConnection, PhoneLeaves, CliLosesConnection, laptop
<1>6. CASE UNCHANGED vars
  BY <1>6, OrderUnchanged DEF vars, laptop
<1> QED BY <1>1, <1>2, <1>3, <1>4, <1>5, <1>6 DEF Next

(***************************************************************************)
(* No input is written to the pty twice or after a later one, however the  *)
(* backend's key lookups reorder what it relays.                           *)
(***************************************************************************)
THEOREM InputsInOrder == Spec => []WrittenInOrder
<1>1. Init => OrderInv
  BY DEF Init, OrderInv, WrittenInOrder
<1>2. OrderInv => WrittenInOrder
  BY DEF OrderInv
<1> QED BY <1>1, <1>2, OrderNext, SessionTypeCorrect, PTL DEF Spec

-----------------------------------------------------------------------------
\* One handler ends the session

(***************************************************************************)
(* What makes EndedOnce inductive: while the session is active nobody is   *)
(* past its UPDATE; the one that is about to write the audit row is alone, *)
(* finds no row and carries the reason the session's row gives.            *)
(***************************************************************************)
EndInv ==
  /\ ending = "active" =>
       audit = <<>> /\ \A e \in Enders : ender[e].step \notin {"audit", "finish"}
  /\ \A e \in Enders : ender[e].step = "audit" => audit = <<>> /\ ender[e].reason = ending
  /\ \A e, f \in Enders : ender[e].step = "audit" /\ ender[f].step = "audit" => e = f
  /\ EndedOnce

\* Steps that end nothing and start no handler past its UPDATE.
LEMMA EndUnchanged ==
  ASSUME EndInv, UNCHANGED <<ending, audit>>,
         \A e \in Enders : ender'[e] = ender[e]
                           \/ ender'[e].step \in {"idle", "mark", "list", "update"}
  PROVE  EndInv'
BY DEF EndInv, EndedOnce

\* The UPDATE of endSession: only the handler that finds the session active goes on.
LEMMA EndUpdateOnce ==
  ASSUME TypeOK, EndInv, NEW e \in Enders, EndUpdate(e) PROVE EndInv'
<1>1. ender \in EnderFrames
  BY DEF TypeOK
<1>2. CASE ending = "active"
  <2>1. /\ ending' = ender[e].reason /\ ender' = [ender EXCEPT ![e].step = "audit"]
        /\ audit' = audit
    BY <1>2 DEF EndUpdate, Step
  <2>2. ending' \in Reasons /\ audit = <<>>
    BY <1>1, <1>2, <2>1 DEF EnderFrames, EndInv
  <2>3. \A f \in Enders : ender'[f].step = "audit" => f = e
    BY <1>1, <1>2, <2>1 DEF EnderFrames, EndInv
  <2>4. ender'[e].reason = ending'
    BY <1>1, <2>1 DEF EnderFrames
  <2>5. ending' # "active"
    BY <2>2 DEF Reasons
  <2> QED BY <2>1, <2>2, <2>3, <2>4, <2>5 DEF EndInv, EndedOnce
<1>3. CASE ending # "active"
  <2>1. ender' = [ender EXCEPT ![e] = Idle] /\ UNCHANGED <<ending, audit>>
    BY <1>3 DEF EndUpdate, Finished
  <2>2. \A f \in Enders : ender'[f] = ender[f] \/ ender'[f].step = "idle"
    BY <1>1, <2>1 DEF EnderFrames, Idle
  <2> QED BY <2>1, <2>2, EndUnchanged
<1> QED BY <1>2, <1>3

\* The audit row of the one handler past its UPDATE.
LEMMA EndAuditOnce ==
  ASSUME TypeOK, EndInv, NEW e \in Enders, EndAudit(e) PROVE EndInv'
<1>1. ender \in EnderFrames /\ ender' = [ender EXCEPT ![e].step = "finish"] /\ ending' = ending
  BY DEF TypeOK, EndAudit, Step
<1>2. audit = <<>> /\ ender[e].reason = ending /\ ending # "active"
  BY DEF EndInv, EndAudit
<1>3. \A f \in Enders : ender'[f].step # "audit"
  BY <1>1 DEF EnderFrames, EndInv, EndAudit
<1>4. audit' = <<ending>> \/ audit' = <<>>
  BY <1>2 DEF EndAudit
<1>5. EndedOnce'
  <2>1. CASE audit' = <<ending>>
    <3>1. Len(audit') = 1 /\ audit'[1] = ending
      BY <2>1
    <3> QED BY <1>1, <3>1 DEF EndedOnce
  <2>2. CASE audit' = <<>>
    BY <2>2 DEF EndedOnce
  <2> QED BY <1>4, <2>1, <2>2
<1> QED BY <1>1, <1>2, <1>3, <1>5 DEF EndInv

\* That handler's last step writes no row.
LEMMA EndFinishOnce ==
  ASSUME TypeOK, EndInv, NEW e \in Enders, EndFinish(e) PROVE EndInv'
<1>1. ender \in EnderFrames /\ ender' = [ender EXCEPT ![e] = Idle] /\ UNCHANGED <<ending, audit>>
  BY DEF TypeOK, EndFinish, Finished, store
<1>2. \A f \in Enders : ender'[f] = ender[f] \/ ender'[f].step = "idle"
  BY <1>1 DEF EnderFrames, Idle
<1> QED BY <1>1, <1>2, EndUnchanged

\* The relay's own UPDATE leaves audit_log alone.
LEMMA SigFailOnce ==
  ASSUME EndInv, SigFailUpdate PROVE EndInv'
BY DEF EndInv, EndedOnce, SigFailUpdate

\* A handler that begins or gives up is not past its UPDATE.
LEMMA EnderBegins ==
  ASSUME TypeOK, NEW e \in Enders,
         NEW step \in {"idle", "mark", "list", "update"}, NEW reason \in Reasons,
         \/ ender' = [ender EXCEPT ![e] = Ender(step, reason)]
         \/ ender' = [ender EXCEPT ![e].step = step]
         \/ ender' = [ender EXCEPT ![e] = Idle]
         \/ ender' = ender
  PROVE  \A f \in Enders : ender'[f] = ender[f]
                           \/ (f = e /\ ender'[f].step \in {"idle", "mark", "list", "update"})
BY DEF TypeOK, EnderFrames, Ender, Idle

\* What starts a handler, or takes the revocation to its UPDATE, ends nothing.
LEMMA BeginningsOnce ==
  ASSUME TypeOK, EndInv,
         \/ \E r \in Sides : DisconnectArrives(r) \/ SocketClose(r)
         \/ RevokeSelect \/ RevokeMark \/ RevokeList \/ RevokeFails
  PROVE  EndInv'
<1>1. CASE \E r \in Sides : DisconnectArrives(r)
  <2>1. PICK r \in Sides : DisconnectArrives(r)
    BY <1>1
  <2>2. \/ ender' = [ender EXCEPT ![MessageOf(r)] =
                       Ender("update", EndReason(r, Head(up[r]).reason))]
        \/ ender' = ender
    BY <2>1 DEF DisconnectArrives
  <2> QED BY <2>1, <2>2, SideTypes, EnderBegins, EndUnchanged DEF DisconnectArrives, store
<1>2. CASE \E r \in Sides : SocketClose(r)
  <2>1. PICK r \in Sides : SocketClose(r)
    BY <1>2
  <2>2. \/ ender' = [ender EXCEPT ![CloseOf(r)] = Ender("update", EndReason(r, "closed"))]
        \/ ender' = ender
    BY <2>1 DEF SocketClose
  <2> QED BY <2>1, <2>2, SideTypes, EnderBegins, EndUnchanged DEF SocketClose, store
<1>3. CASE RevokeSelect \/ RevokeMark \/ RevokeList \/ RevokeFails
  <2>1. \E step \in {"idle", "mark", "list", "update"} :
           \/ ender' = [ender EXCEPT !["revoke"].step = step]
           \/ ender' = [ender EXCEPT !["revoke"] = Idle]
    BY <1>3 DEF RevokeSelect, RevokeMark, RevokeList, RevokeFails, Step, Finished
  <2>2. UNCHANGED <<ending, audit>>
    BY <1>3 DEF RevokeSelect, RevokeMark, RevokeList, RevokeFails, store
  <2>3. "revoke" \in Enders /\ "revoked" \in Reasons
    BY DEF Enders, Reasons
  <2> QED BY <2>1, <2>2, <2>3, EnderBegins, EndUnchanged
<1> QED BY <1>1, <1>2, <1>3

\* With the backend the handlers past their UPDATE are gone.
LEMMA CrashOnce ==
  ASSUME EndInv, Crash PROVE EndInv'
<1>1. \A e \in Enders : ender'[e].step = "idle"
  BY DEF Crash, AllIdle, Idle
<1> QED BY <1>1, EndUnchanged DEF Crash, store

\* The step, action by action.
LEMMA EndNext == TypeOK /\ EndInv /\ [Next]_vars => EndInv'
<1> SUFFICES ASSUME TypeOK, EndInv, [Next]_vars PROVE EndInv'
  OBVIOUS
<1>1. CASE \E e \in Enders : Ends(e)
  BY <1>1, EndUpdateOnce, EndAuditOnce, EndFinishOnce DEF Ends
<1>2. CASE SigFailUpdate \/ Crash
  BY <1>2, SigFailOnce, CrashOnce
<1>3. CASE \/ \E r \in Sides : DisconnectArrives(r) \/ SocketClose(r)
           \/ RevokeSelect \/ RevokeMark \/ RevokeList \/ RevokeFails
  BY <1>3, BeginningsOnce
<1>4. CASE InputArrives \/ \E f \in lookups : KeyQuery(f) \/ KeyAnswer(f)
  <2>1. UNCHANGED <<store, ender>>
    BY <1>4 DEF InputArrives, KeyQuery, KeyAnswer
  <2> QED BY <2>1, EndUnchanged DEF store
<1>5. CASE \/ Clients \/ PhoneTypes \/ PhoneDisconnects \/ PhoneResumes
           \/ CliDisconnects \/ CliKilled
  <2>1. UNCHANGED <<store, memory>>
    BY <1>5 DEF Clients, PhoneTypes, PhoneDisconnects, PhoneResumes, PhoneLeaves,
      PhoneListens, PhoneHears, PhoneMisses, CliStarts, CliInput, CliGoodbye, CliMisses, CliLosesSocket, CliDisconnects, CliKilled
  <2> QED BY <2>1, EndUnchanged DEF store, memory, frames
<1>6. CASE TimePasses \/ OtherTab \/ PhoneLosesConnection \/ CliLosesConnection
  <2>1. UNCHANGED <<store, ender>>
    BY <1>6 DEF TimePasses, OtherTab, PhoneLosesConnection, PhoneLeaves, CliLosesConnection,
      memory, frames
  <2> QED BY <2>1, EndUnchanged DEF store
<1>7. CASE UNCHANGED vars
  BY <1>7, EndUnchanged DEF vars, store, memory, frames
<1> QED BY <1>1, <1>2, <1>3, <1>4, <1>5, <1>6, <1>7 DEF Next, Backend, Users, Happens

(***************************************************************************)
(* Of all the handlers that race to end a session, at most one writes the  *)
(* disconnect row, and the row gives the reason the session's row gives.   *)
(***************************************************************************)
THEOREM OneEnding == Spec => []EndedOnce
<1>1. Init => EndInv
  BY DEF Init, EndInv, EndedOnce, AllIdle, Idle
<1>2. EndInv => EndedOnce
  BY DEF EndInv
<1> QED BY <1>1, <1>2, EndNext, SessionTypeCorrect, PTL DEF Spec

-----------------------------------------------------------------------------
\* An ended session is dropped

(***************************************************************************)
(* A side says goodbye at most once, as the last thing on its socket, and  *)
(* until the backend reads it the frame that will handle it is free.       *)
(***************************************************************************)
ByeFree(q) == \A i \in 1..Len(q) : q[i].type # "disconnect"
ByeLast(q) == \A i \in 1..Len(q) : q[i].type = "disconnect" => i = Len(q)
IdleAt(e)  == ender[e].step = "idle"

LastWord(r) == /\ ByeLast(up[r])
               /\ linked[r] => ByeFree(up[r]) /\ IdleAt(MessageOf(r))
               /\ ByeFree(up[r]) \/ IdleAt(MessageOf(r))

LastWords == \A r \in Sides : LastWord(r)

(***************************************************************************)
(* What makes EndedMeansDropped inductive: an ended session is dropped or  *)
(* some handler past its UPDATE will drop it; an open socket is registered;*)
(* the relay issues its own UPDATE only after dropping the session; and no *)
(* frame in use is taken for a second event.                               *)
(***************************************************************************)
Ending == \E e \in Enders : ender[e].step \in {"audit", "finish"}

DropMem == /\ sigfail => Dropped
           /\ ending # "active" => Dropped \/ Ending
           /\ \A r \in Sides : sock[r] = "open" => r \in bound
           /\ \A r \in Sides : sock[r] # "closed" => IdleAt(CloseOf(r))

DropInv == DropMem /\ LastWords

\* Queues and goodbyes.
LEMMA ByeTail ==
  ASSUME NEW q \in Seq(Msgs), q # <<>>, ByeLast(q)
  PROVE  /\ ByeLast(Tail(q))
         /\ ByeFree(q) => ByeFree(Tail(q))
         /\ Head(q).type = "disconnect" => ByeFree(Tail(q))
<1> DEFINE t == Tail(q)
           n == Len(q)
<1>1. /\ n \in Nat /\ n > 0 /\ Len(t) = n - 1
      /\ Head(q) = q[1] /\ \A i \in 1..(n - 1) : t[i] = q[i + 1]
  OBVIOUS
<1>2. \A i \in 1..n : q[i].type = "disconnect" => i = n
  BY DEF ByeLast
<1>3. ByeFree(q) => \A i \in 1..n : q[i].type # "disconnect"
  BY DEF ByeFree
<1> HIDE DEF t, n
<1>4. ByeLast(t)
  <2> SUFFICES ASSUME NEW i \in 1..(n - 1), t[i].type = "disconnect" PROVE i = n - 1
    BY <1>1 DEF ByeLast
  <2>1. i + 1 \in 1..n /\ q[i + 1].type = "disconnect"
    BY <1>1
  <2> QED BY <1>1, <1>2, <2>1
<1>5. ASSUME ByeFree(q) \/ Head(q).type = "disconnect" PROVE ByeFree(t)
  <2> SUFFICES ASSUME NEW i \in 1..(n - 1) PROVE t[i].type # "disconnect"
    BY <1>1 DEF ByeFree
  <2>1. i + 1 \in 1..n /\ 1 \in 1..n /\ t[i] = q[i + 1]
    BY <1>1
  <2>2. CASE ByeFree(q)
    BY <1>3, <2>1, <2>2
  <2>3. CASE Head(q).type = "disconnect"
    BY <1>1, <1>2, <2>1, <2>3
  <2> QED BY <1>5, <2>2, <2>3
<1> QED BY <1>4, <1>5 DEF t

\* After a goodbye-free queue anything may be appended once.
LEMMA ByeAppended ==
  ASSUME NEW q \in Seq(Msgs), ByeFree(q), NEW m \in Msgs
  PROVE  ByeLast(Append(q, m)) /\ (m.type # "disconnect" => ByeFree(Append(q, m)))
<1>1. /\ Len(q) \in Nat /\ Len(Append(q, m)) = Len(q) + 1
      /\ \A i \in 1..Len(q) : Append(q, m)[i] = q[i]
      /\ Append(q, m)[Len(q) + 1] = m
  BY Appended
<1> QED BY <1>1 DEF ByeFree, ByeLast

\* An empty queue holds no goodbye.
LEMMA ByeEmpty == ByeFree(<<>>) /\ ByeLast(<<>>)
BY DEF ByeFree, ByeLast

\* Ageing messages moves no goodbye.
LEMMA ByeStale ==
  ASSUME NEW q \in Seq(Msgs)
  PROVE  (ByeFree(q) => ByeFree(StaleAll(q))) /\ (ByeLast(q) => ByeLast(StaleAll(q)))
<1>1. \A i \in 1..Len(q) : q[i] \in Msgs
  OBVIOUS
<1>2. \A m \in Msgs : m.type = "input" => Stale(m).type = "input"
  BY MsgByType DEF Stale, Inputs
<1>3. \A m \in Msgs : m.type # "input" => Stale(m) = m
  BY DEF Stale
<1>4. \A i \in 1..Len(q) : StaleAll(q)[i].type = "disconnect" => q[i].type = "disconnect"
  BY <1>1, <1>2, <1>3, StaleAllType
<1>5. Len(StaleAll(q)) = Len(q)
  BY StaleAllType
<1> QED BY <1>4, <1>5 DEF ByeFree, ByeLast

\* What anyone but the backend's handlers of this side does to its queue.
QueueStep(r) ==
  /\ linked'[r] => linked[r]
  /\ \/ up'[r] = up[r]
     \/ up'[r] = <<>>
     \/ up'[r] = StaleAll(up[r])
     \/ \E m \in Msgs : linked[r] /\ up'[r] = Append(up[r], m)
                        /\ (m.type = "disconnect" => ~linked'[r])

\* What a step may do to the queue of a side without breaking LastWord.
LEMMA QueueStepKeeps ==
  ASSUME TypeOK, NEW r \in Sides, LastWord(r), QueueStep(r),
         IdleAt(MessageOf(r)) => IdleAt(MessageOf(r))'
  PROVE  LastWord(r)'
<1>1. up[r] \in Seq(Msgs)
  BY DEF TypeOK
<1>2. CASE up'[r] = up[r]
  BY <1>2 DEF LastWord, QueueStep
<1>3. CASE up'[r] = <<>>
  BY <1>3, ByeEmpty DEF LastWord, QueueStep
<1>4. CASE up'[r] = StaleAll(up[r])
  BY <1>1, <1>4, ByeStale DEF LastWord, QueueStep
<1>5. CASE \E m \in Msgs : linked[r] /\ up'[r] = Append(up[r], m)
                          /\ (m.type = "disconnect" => ~linked'[r])
  <2>1. PICK m \in Msgs : linked[r] /\ up'[r] = Append(up[r], m)
                          /\ (m.type = "disconnect" => ~linked'[r])
    BY <1>5
  <2>2. ByeFree(up[r]) /\ IdleAt(MessageOf(r))'
    BY <2>1 DEF LastWord
  <2>3. ByeLast(up'[r]) /\ (m.type # "disconnect" => ByeFree(up'[r]))
    BY <1>1, <2>1, <2>2, ByeAppended
  <2> QED BY <2>1, <2>2, <2>3 DEF LastWord
<1> QED BY <1>2, <1>3, <1>4, <1>5 DEF QueueStep

\* A step of the clients or of the network: the backend's memory does not change.
LEMMA OutsideStep ==
  ASSUME TypeOK, DropInv, UNCHANGED <<ending, bound, sock, ender, sigfail>>,
         \A r \in Sides : QueueStep(r)
  PROVE  DropInv'
<1>1. DropMem'
  BY DEF DropInv, DropMem, Dropped, Ending, IdleAt
<1>2. \A r \in Sides : LastWord(r)'
  BY QueueStepKeeps DEF DropInv, LastWords, IdleAt
<1> QED BY <1>1, <1>2 DEF DropInv, LastWords

\* The phone's steps touch only its queue and its end of the connection.
LEMMA PhoneDrop ==
  ASSUME TypeOK, DropInv,
         \/ PhoneTypes \/ PhoneDisconnects \/ PhoneListens \/ PhoneHears \/ PhoneMisses
         \/ PhoneResumes \/ PhoneLosesConnection
  PROVE  DropInv'
<1>1. UNCHANGED <<ending, bound, sock, ender, sigfail>>
  BY DEF PhoneTypes, PhoneDisconnects, PhoneListens, PhoneHears, PhoneMisses, PhoneResumes,
    PhoneLosesConnection, PhoneLeaves, store, memory, frames, net
<1>2. up \in [Sides -> Seq(Msgs)] /\ linked \in [Sides -> BOOLEAN]
  BY DEF TypeOK
<1>3. CASE PhoneTypes
  <2>1. seq' \in 1..MaxInputs
    BY <1>3, Parameters DEF TypeOK, PhoneTypes
  <2>2. Input(seq', key = "own") \in Msgs /\ Input(seq', key = "own").type # "disconnect"
    BY <2>1, MsgKinds DEF Input
  <2>3. linked' = linked
    BY <1>3 DEF PhoneTypes
  <2>4. \/ up' = up
        \/ linked["phone"]
           /\ up' = [up EXCEPT !["phone"] = Append(up["phone"], Input(seq', key = "own"))]
    BY <1>3 DEF PhoneTypes
  <2>5. \A r \in Sides : QueueStep(r)
    BY <1>2, <2>2, <2>3, <2>4 DEF QueueStep
  <2> QED BY <1>1, <2>5, OutsideStep
<1>4. CASE PhoneDisconnects
  <2>1. linked' = [linked EXCEPT !["phone"] = FALSE]
    BY <1>4 DEF PhoneDisconnects, PhoneLeaves, Hangup
  <2>2. Bye("phone_disconnect") \in Msgs
    BY MsgKinds DEF Reasons
  <2>3. \/ up' = up
        \/ linked["phone"]
           /\ up' = [up EXCEPT !["phone"] = Append(up["phone"], Bye("phone_disconnect"))]
    BY <1>4 DEF PhoneDisconnects
  <2>4. \A r \in Sides : QueueStep(r)
    BY <1>2, <2>1, <2>2, <2>3 DEF QueueStep
  <2> QED BY <1>1, <2>4, OutsideStep
<1>5. CASE PhoneListens \/ PhoneHears \/ PhoneMisses \/ PhoneResumes \/ PhoneLosesConnection
  <2>1. linked' = linked \/ linked' = [linked EXCEPT !["phone"] = FALSE]
    BY <1>5 DEF PhoneListens, PhoneHears, PhoneMisses, PhoneResumes, PhoneLosesConnection,
      PhoneLeaves, Hangup, net
  <2>2. \/ up' = up
        \/ up' = [up EXCEPT !["phone"] = <<>>] /\ linked' = [linked EXCEPT !["phone"] = FALSE]
    BY <1>5 DEF PhoneListens, PhoneHears, PhoneMisses, PhoneResumes, PhoneLosesConnection,
      PhoneLeaves, Hangup, Cut, net
  <2>3. \A r \in Sides : QueueStep(r)
    BY <1>2, <2>1, <2>2 DEF QueueStep
  <2> QED BY <1>1, <2>3, OutsideStep
<1> QED BY <1>3, <1>4, <1>5

\* What a terminating CLI does to the queues.
LEMMA TeardownQueues ==
  ASSUME TypeOK, NEW reason \in Reasons, Teardown(reason) \/ CliExits(<<>>)
  PROVE  \A r \in Sides : QueueStep(r)
<1>1. up \in [Sides -> Seq(Msgs)] /\ linked \in [Sides -> BOOLEAN] /\ "cli" \in Sides
  BY DEF TypeOK, Sides
<1>2. linked' = [linked EXCEPT !["cli"] = FALSE]
  BY DEF Teardown, CliExits, Hangup
<1>3. Bye(reason) \in Msgs
  BY MsgKinds
<1>4. \/ up' = up
      \/ linked["cli"] /\ up' = [up EXCEPT !["cli"] = up["cli"] \o <<>>]
      \/ linked["cli"] /\ up' = [up EXCEPT !["cli"] = up["cli"] \o <<Bye(reason)>>]
  BY DEF Teardown, CliExits
<1>5. up["cli"] \o <<>> = up["cli"]
  BY <1>1
<1>6. up["cli"] \o <<Bye(reason)>> = Append(up["cli"], Bye(reason))
  BY <1>1, <1>3
<1> HIDE DEF Bye
<1> QED BY <1>1, <1>2, <1>3, <1>4, <1>5, <1>6 DEF QueueStep

\* So do the CLI's.
LEMMA CliDrop ==
  ASSUME TypeOK, DropInv,
         CliStarts \/ CliInput \/ CliGoodbye \/ CliMisses \/ CliLosesSocket
         \/ CliDisconnects \/ CliKilled \/ CliLosesConnection
  PROVE  DropInv'
<1>1. UNCHANGED <<ending, bound, sock, ender, sigfail>>
  BY DEF CliStarts, CliInput, CliGoodbye, CliMisses, CliLosesSocket, CliDisconnects, CliKilled,
    CliLosesConnection, store, memory, frames, net
<1>2. up \in [Sides -> Seq(Msgs)] /\ linked \in [Sides -> BOOLEAN]
  BY DEF TypeOK
<1>3. CASE CliDisconnects \/ CliKilled
  BY <1>1, <1>3, TeardownQueues, OutsideStep DEF CliDisconnects, CliKilled, Reasons
<1>4. CASE CliGoodbye
  <2>1. down["cli"] \in Seq(Msgs) /\ down["cli"] # <<>>
    BY <1>4 DEF CliGoodbye, TypeOK, Sides
  <2>2. Head(down["cli"]).reason \in Reasons
    BY <1>4, <2>1, HeadTail, MsgByType DEF CliGoodbye, Byes
  <2> QED BY <1>1, <1>4, <2>2, TeardownQueues, OutsideStep DEF CliGoodbye
<1>5. CASE CliInput /\ alarmed'
  <2>1. Teardown("sig_fail")
    BY <1>5 DEF CliInput
  <2> QED BY <1>1, <2>1, TeardownQueues, OutsideStep DEF Reasons
<1>6. CASE CliStarts \/ CliMisses \/ (CliInput /\ ~alarmed')
  <2>1. up' = up /\ linked' = linked
    BY <1>6 DEF CliStarts, CliMisses, CliInput, net
  <2>2. \A r \in Sides : QueueStep(r)
    BY <2>1 DEF QueueStep
  <2> QED BY <1>1, <2>2, OutsideStep
<1>7. CASE CliLosesSocket \/ CliLosesConnection
  <2>1. linked' = [linked EXCEPT !["cli"] = FALSE]
    BY <1>7 DEF CliLosesSocket, CliLosesConnection, Hangup
  <2>2. up' = up \/ up' = [up EXCEPT !["cli"] = <<>>]
    BY <1>7 DEF CliLosesSocket, CliLosesConnection, Cut
  <2>3. \A r \in Sides : QueueStep(r)
    BY <1>2, <2>1, <2>2 DEF QueueStep
  <2> QED BY <1>1, <2>3, OutsideStep
<1> QED BY <1>3, <1>4, <1>5, <1>6, <1>7

\* Time passing ages the queues.
LEMMA TimeDrop ==
  ASSUME TypeOK, DropInv, TimePasses \/ OtherTab \/ (\E f \in lookups : KeyQuery(f))
  PROVE  DropInv'
<1>1. UNCHANGED <<ending, bound, sock, ender, sigfail>>
  BY DEF TimePasses, OtherTab, KeyQuery, store, memory, frames, net
<1>2. linked' = linked /\ (up' = up \/ up' = [r \in Sides |-> StaleAll(up[r])])
  BY DEF TimePasses, OtherTab, KeyQuery, net
<1>3. \A r \in Sides : QueueStep(r)
  BY <1>2 DEF QueueStep
<1> QED BY <1>1, <1>3, OutsideStep

-----------------------------------------------------------------------------
\* The backend's steps

\* removeSession drops the session: an open socket was registered, so it is closed.
LEMMA RemoveDrops ==
  ASSUME TypeOK, DropMem, NEW d, RemoveSession(d)
  PROVE  Dropped' /\ \A r \in Sides : sock'[r] # "closed" => sock[r] # "closed"
BY DEF RemoveSession, Shut, Dropped, DropMem, TypeOK

\* The relay of a message sets sigfail only when it drops the session.
LEMMA RelayDrop ==
  ASSUME TypeOK, DropMem, NEW m \in Inputs, Relay(m), UNCHANGED <<ending, ender>>
  PROVE  DropMem'
<1>1. CASE m.signed \/ ~TooMany(failures + 1)
  <2>1. UNCHANGED <<bound, sock, sigfail>>
    BY <1>1 DEF Relay
  <2> QED BY <2>1 DEF DropMem, Dropped, Ending, IdleAt
<1>2. CASE ~m.signed /\ TooMany(failures + 1)
  <2>1. RemoveSession(down)
    BY <1>2 DEF Relay
  <2>2. Dropped' /\ \A r \in Sides : sock'[r] # "closed" => sock[r] # "closed"
    BY <2>1, RemoveDrops
  <2> QED BY <2>2 DEF DropMem, Dropped, IdleAt
<1> QED BY <1>1, <1>2

\* A handler reads the first message of a side; its frame stays as it is.
LEMMA TakeKeeps ==
  ASSUME TypeOK, NEW r \in Sides, LastWords, up[r] # <<>>, Take(r), UNCHANGED <<linked, ender>>
  PROVE  LastWords'
<1>1. /\ up \in [Sides -> Seq(Msgs)] /\ up[r] \in Seq(Msgs)
      /\ up' = [up EXCEPT ![r] = Tail(up[r])]
  BY DEF TypeOK, Take
<1>2. ByeLast(up'[r]) /\ (ByeFree(up[r]) => ByeFree(up'[r]))
  BY <1>1, ByeTail DEF LastWords, LastWord
<1>3. \A s \in Sides : s # r => up'[s] = up[s]
  BY <1>1
<1> QED BY <1>2, <1>3 DEF LastWords, LastWord, IdleAt

\* An input is read: the relay may drop the session.
LEMMA InputArrivesDrop ==
  ASSUME TypeOK, DropInv, InputArrives PROVE DropInv'
<1> DEFINE m == Head(up["phone"])
<1>1. m \in Inputs
  BY TakeType, MsgByType DEF InputArrives, Sides
<1>2. LastWords'
  BY TakeKeeps DEF InputArrives, DropInv, Sides
<1>3. UNCHANGED <<ending, ender>>
  BY DEF InputArrives, store
<1>4. Relay(m) \/ UNCHANGED <<bound, sigfail, sock>>
  BY DEF InputArrives
<1> HIDE DEF m
<1>5. CASE Relay(m)
  BY <1>1, <1>2, <1>3, <1>5, RelayDrop DEF DropInv
<1>6. CASE UNCHANGED <<bound, sigfail, sock>>
  BY <1>2, <1>3, <1>6 DEF DropInv, DropMem, Dropped, Ending, IdleAt
<1> QED BY <1>4, <1>5, <1>6

\* So it may when the key is looked up first.
LEMMA KeyAnswerDrop ==
  ASSUME TypeOK, DropInv, NEW f \in lookups, KeyAnswer(f) PROVE DropInv'
<1>1. f.msg \in Inputs
  BY DEF TypeOK
<1>2. UNCHANGED <<ending, ender, up, linked>>
  BY DEF KeyAnswer, store
<1>3. LastWords'
  BY <1>2 DEF DropInv, LastWords, LastWord, IdleAt
<1>4. Relay(f.msg) \/ UNCHANGED <<bound, sigfail, sock>>
  BY DEF KeyAnswer
<1>5. CASE Relay(f.msg)
  BY <1>1, <1>2, <1>3, <1>5, RelayDrop DEF DropInv
<1>6. CASE UNCHANGED <<bound, sigfail, sock>>
  BY <1>2, <1>3, <1>6 DEF DropInv, DropMem, Dropped, Ending, IdleAt
<1> QED BY <1>4, <1>5, <1>6

\* The relay's own UPDATE finds the session dropped already.
LEMMA SigFailDrop ==
  ASSUME TypeOK, DropInv, SigFailUpdate PROVE DropInv'
<1>1. Dropped
  BY DEF SigFailUpdate, DropInv, DropMem
<1>2. UNCHANGED <<bound, sock, ender, up, linked>> /\ ~sigfail'
  BY DEF SigFailUpdate, net
<1> QED BY <1>1, <1>2 DEF DropInv, DropMem, Dropped, LastWords, LastWord, IdleAt

\* The frames of messages, of close events and of the revocation are apart.
LEMMA FramesApart ==
  /\ \A r, s \in Sides : MessageOf(r) # CloseOf(s) /\ (r # s => MessageOf(r) # MessageOf(s))
                         /\ (r # s => CloseOf(r) # CloseOf(s))
  /\ \A r \in Sides : MessageOf(r) # "revoke" /\ CloseOf(r) # "revoke"
BY DEF Sides, MessageOf, CloseOf

\* A goodbye is read: the frame of its side is free, and taken.
LEMMA DisconnectArrivesDrop ==
  ASSUME TypeOK, DropInv, NEW r \in Sides, DisconnectArrives(r) PROVE DropInv'
<1>1. /\ ender \in EnderFrames /\ up \in [Sides -> Seq(Msgs)] /\ MessageOf(r) \in Enders
      /\ up[r] # <<>> /\ Head(up[r]).type = "disconnect"
      /\ up' = [up EXCEPT ![r] = Tail(up[r])]
      /\ UNCHANGED <<ending, bound, sock, sigfail, linked>>
  BY SideTypes DEF TypeOK, DisconnectArrives, Take, store
<1>2. Head(up[r]) = up[r][1] /\ 1 \in 1..Len(up[r])
  BY <1>1
<1>3. ~ByeFree(up[r])
  BY <1>1, <1>2 DEF ByeFree
<1>4. IdleAt(MessageOf(r)) /\ ~linked[r]
  BY <1>3 DEF DropInv, LastWords, LastWord
<1>5. ByeLast(up'[r]) /\ ByeFree(up'[r])
  BY <1>1, ByeTail DEF DropInv, LastWords, LastWord
<1>6. \A e \in Enders : e # MessageOf(r) => ender'[e] = ender[e]
  BY <1>1 DEF DisconnectArrives, EnderFrames
<1>7. DropMem'
  <2>1. Ending => Ending'
    BY <1>4, <1>6 DEF Ending, IdleAt
  <2>2. \A s \in Sides : IdleAt(CloseOf(s)) => IdleAt(CloseOf(s))'
    BY <1>6, SideTypes, FramesApart DEF IdleAt
  <2> QED BY <1>1, <2>1, <2>2 DEF DropInv, DropMem, Dropped
<1>8. \A s \in Sides : s # r => LastWord(s)'
  <2>1. \A s \in Sides : s # r => up'[s] = up[s] /\ ender'[MessageOf(s)] = ender[MessageOf(s)]
    BY <1>1, <1>6, SideTypes, FramesApart
  <2> QED BY <1>1, <2>1 DEF DropInv, LastWords, LastWord, IdleAt
<1>9. LastWord(r)'
  BY <1>1, <1>4, <1>5 DEF LastWord
<1> QED BY <1>7, <1>8, <1>9 DEF DropInv, LastWords

\* A close event: the side is unregistered in the step that closes its socket.
LEMMA SocketCloseDrop ==
  ASSUME TypeOK, DropInv, NEW r \in Sides, SocketClose(r) PROVE DropInv'
<1>1. /\ ender \in EnderFrames /\ sock \in [Sides -> {"open", "closing", "closed"}]
      /\ CloseOf(r) \in Enders /\ sock[r] # "closed"
      /\ sock' = [sock EXCEPT ![r] = "closed"] /\ bound' = bound \ {r}
      /\ UNCHANGED <<ending, sigfail, linked, up>>
  BY SideTypes DEF TypeOK, SocketClose, store
<1>2. IdleAt(CloseOf(r))
  BY <1>1 DEF DropInv, DropMem
<1>3. \A e \in Enders : e # CloseOf(r) => ender'[e] = ender[e]
  BY <1>1 DEF SocketClose, EnderFrames
<1>4. Ending => Ending'
  BY <1>2, <1>3 DEF Ending, IdleAt
<1>5. Dropped => Dropped'
  BY <1>1 DEF Dropped
<1>6. \A s \in Sides : sock'[s] # "closed" => IdleAt(CloseOf(s))'
  BY <1>1, <1>3, SideTypes, FramesApart DEF DropInv, DropMem, IdleAt
<1>7. DropMem'
  BY <1>1, <1>4, <1>5, <1>6 DEF DropInv, DropMem
<1>8. \A s \in Sides : ender'[MessageOf(s)] = ender[MessageOf(s)]
  BY <1>3, SideTypes, FramesApart
<1> QED BY <1>1, <1>7, <1>8 DEF DropInv, LastWords, LastWord, IdleAt

\* A frame in use is neither taken for nor waited on by a queue or a socket.
LEMMA BusyFrame ==
  ASSUME DropInv, UNCHANGED <<up, linked>>, NEW e \in Enders,
         \A f \in Enders : f # e => ender'[f] = ender[f],
         e = "revoke" \/ ~IdleAt(e)
  PROVE  /\ LastWords'
         /\ \A r \in Sides : sock[r] # "closed" => IdleAt(CloseOf(r))'
<1>1. \A r \in Sides : IdleAt(MessageOf(r)) => IdleAt(MessageOf(r))'
  BY SideTypes, FramesApart DEF IdleAt
<1>2. \A r \in Sides : IdleAt(CloseOf(r)) => IdleAt(CloseOf(r))'
  BY SideTypes, FramesApart DEF IdleAt
<1> QED BY <1>1, <1>2 DEF DropInv, DropMem, LastWords, LastWord

\* The steps of endSession: it ends the row first and drops the session last.
LEMMA EndsDrop ==
  ASSUME TypeOK, DropInv, NEW e \in Enders, Ends(e) PROVE DropInv'
<1>1. /\ ender \in EnderFrames /\ UNCHANGED <<sigfail, up, linked>>
      /\ \A f \in Enders : f # e => ender'[f] = ender[f]
      /\ ~IdleAt(e)
  BY DEF TypeOK, EnderFrames, Ends, EndUpdate, EndAudit, EndFinish, Step, Finished, net, IdleAt
<1>2. LastWords' /\ \A r \in Sides : sock[r] # "closed" => IdleAt(CloseOf(r))'
  BY <1>1, BusyFrame
<1>3. CASE EndUpdate(e) /\ ending = "active"
  <2>1. ender'[e].step = "audit" /\ UNCHANGED <<bound, sock>>
    BY <1>1, <1>3 DEF EndUpdate, Step, EnderFrames, net
  <2> QED BY <1>1, <1>2, <2>1 DEF DropInv, DropMem, Dropped, Ending
<1>4. CASE EndUpdate(e) /\ ending # "active"
  <2>1. ender[e].step = "update" /\ UNCHANGED <<ending, bound, sock>>
    BY <1>4 DEF EndUpdate, net
  <2>2. Ending => Ending'
    BY <1>1, <2>1 DEF Ending
  <2> QED BY <1>1, <1>2, <2>1, <2>2 DEF DropInv, DropMem, Dropped
<1>5. CASE EndAudit(e)
  <2>1. ender'[e].step = "finish" /\ UNCHANGED <<bound, sock>>
    BY <1>1, <1>5 DEF EndAudit, Step, EnderFrames, net
  <2> QED BY <1>1, <1>2, <2>1 DEF DropInv, DropMem, Dropped, Ending
<1>6. CASE EndFinish(e)
  <2>1. Dropped' /\ \A r \in Sides : sock'[r] # "closed" => sock[r] # "closed"
    BY <1>6, RemoveDrops DEF EndFinish, DropInv
  <2> QED BY <1>2, <2>1 DEF DropInv, DropMem, Dropped
<1> QED BY <1>3, <1>4, <1>5, <1>6 DEF Ends

\* The revocation's queries before endSession.
LEMMA RevokeDrop ==
  ASSUME TypeOK, DropInv, RevokeSelect \/ RevokeMark \/ RevokeList \/ RevokeFails PROVE DropInv'
<1>1. UNCHANGED <<ending, bound, sock, sigfail, up, linked>>
  BY DEF RevokeSelect, RevokeMark, RevokeList, RevokeFails, store, net
<1>2. /\ ender \in EnderFrames /\ "revoke" \in Enders
      /\ \A f \in Enders : f # "revoke" => ender'[f] = ender[f]
      /\ ender["revoke"].step \in {"idle", "mark", "list", "update"}
  BY DEF TypeOK, EnderFrames, Enders, RevokeSelect, RevokeMark, RevokeList, RevokeFails, Step,
    Finished, Idle
<1>3. LastWords' /\ \A r \in Sides : sock[r] # "closed" => IdleAt(CloseOf(r))'
  BY <1>1, <1>2, BusyFrame
<1>4. Ending => Ending'
  BY <1>2 DEF Ending
<1> QED BY <1>1, <1>3, <1>4 DEF DropInv, DropMem, Dropped

\* With the backend every registration is gone.
LEMMA CrashDrop ==
  ASSUME TypeOK, DropInv, Crash PROVE DropInv'
<1>1. \A e \in Enders : IdleAt(e)'
  BY DEF Crash, AllIdle, Idle, IdleAt
<1>2. \A r \in Sides : up'[r] = <<>> /\ sock'[r] = "closed"
  BY DEF Crash
<1>3. LastWords'
  BY <1>1, <1>2, SideTypes, ByeEmpty DEF LastWords, LastWord
<1>4. Dropped'
  BY <1>2 DEF Crash, Dropped
<1> QED BY <1>2, <1>3, <1>4 DEF DropInv, DropMem

\* The step, action by action.
LEMMA DropNext == TypeOK /\ DropInv /\ [Next]_vars => DropInv'
<1> SUFFICES ASSUME TypeOK, DropInv, [Next]_vars PROVE DropInv'
  OBVIOUS
<1>1. CASE Backend
  BY <1>1, InputArrivesDrop, KeyAnswerDrop, TimeDrop, SigFailDrop, DisconnectArrivesDrop,
    SocketCloseDrop, EndsDrop, RevokeDrop DEF Backend
<1>2. CASE Clients
  BY <1>2, PhoneDrop, CliDrop DEF Clients
<1>3. CASE Users
  BY <1>3, PhoneDrop, CliDrop, RevokeDrop DEF Users
<1>4. CASE Happens
  BY <1>4, TimeDrop, PhoneDrop, CliDrop, RevokeDrop, CrashDrop DEF Happens
<1>5. CASE UNCHANGED vars
  <2>1. UNCHANGED <<ending, bound, sock, ender, sigfail, up, linked>>
    BY <1>5 DEF vars, store, memory, frames, net
  <2> QED BY <2>1, OutsideStep DEF QueueStep
<1> QED BY <1>1, <1>2, <1>3, <1>4, <1>5 DEF Next

\* The initial states.
LEMMA DropInit == Init => DropInv
<1> SUFFICES ASSUME Init PROVE DropInv
  OBVIOUS
<1>1. \A e \in Enders : IdleAt(e)
  BY DEF Init, AllIdle, Idle, IdleAt
<1>2. LastWords
  BY <1>1, SideTypes, ByeEmpty DEF Init, LastWords, LastWord
<1>3. DropMem
  BY <1>1, SideTypes DEF Init, DropMem
<1> QED BY <1>2, <1>3 DEF DropInv

(***************************************************************************)
(* Once a session is ended and no handler is still at it, both its sockets *)
(* are unregistered and none is open: whatever raced to end it, nothing is *)
(* relayed any more.                                                       *)
(***************************************************************************)
THEOREM EndedSessionDropped == Spec => []EndedMeansDropped
<1>1. DropInv => EndedMeansDropped
  BY DEF DropInv, DropMem, EndedMeansDropped, AtWork, Ending
<1> QED BY <1>1, DropInit, DropNext, SessionTypeCorrect, PTL DEF Spec

-----------------------------------------------------------------------------
\* The inputs in a queue

SeqsIn(q) == {m.seq : m \in {x \in Range(q) : x.type = "input"}}

\* A number is in the queue when a message of the queue carries it.
LEMMA SeqsMember ==
  ASSUME NEW q \in Seq(Msgs), NEW n
  PROVE  n \in SeqsIn(q) <=> \E i \in 1..Len(q) : q[i].type = "input" /\ q[i].seq = n
BY DEF SeqsIn, Range

\* An empty queue carries none.
LEMMA SeqsEmpty == SeqsIn(<<>>) = {}
<1>1. <<>> \in Seq(Msgs) /\ Len(<<>>) = 0 /\ 1..0 = {}
  OBVIOUS
<1>2. \A x : x \notin SeqsIn(<<>>)
  BY <1>1, SeqsMember
<1> QED BY <1>2

\* What is taken out of a queue is lost to it.
LEMMA SeqsTail ==
  ASSUME NEW q \in Seq(Msgs), q # <<>>
  PROVE  /\ SeqsIn(Tail(q)) \subseteq SeqsIn(q)
         /\ Head(q).type = "input" => Head(q).seq \in SeqsIn(q)
<1> DEFINE t == Tail(q)
           n == Len(q)
<1>1. /\ n \in Nat /\ n > 0 /\ Len(t) = n - 1 /\ t \in Seq(Msgs)
      /\ Head(q) = q[1] /\ \A i \in 1..(n - 1) : t[i] = q[i + 1]
  OBVIOUS
<1>2. 1 \in 1..n /\ \A i \in 1..(n - 1) : i + 1 \in 1..n
  BY <1>1
<1> HIDE DEF t, n
<1>3. \A x : x \in SeqsIn(t) => x \in SeqsIn(q)
  BY <1>1, <1>2, SeqsMember DEF n
<1>4. Head(q).type = "input" => Head(q).seq \in SeqsIn(q)
  BY <1>1, <1>2, SeqsMember DEF n
<1> QED BY <1>3, <1>4 DEF t

\* A message that joins a queue adds its number if it is an input.
LEMMA SeqsAppend ==
  ASSUME NEW q \in Seq(Msgs), NEW m \in Msgs
  PROVE  SeqsIn(q \o <<m>>) = SeqsIn(q) \cup (IF m.type = "input" THEN {m.seq} ELSE {})
<1> DEFINE a == q \o <<m>>
           n == Len(q)
<1>1. /\ n \in Nat /\ a \in Seq(Msgs) /\ Len(a) = n + 1
      /\ \A i \in 1..n : a[i] = q[i]
      /\ a[n + 1] = m
  OBVIOUS
<1>2. \A i \in 1..(n + 1) : i \in 1..n \/ i = n + 1
  BY <1>1
<1>3. n + 1 \in 1..(n + 1) /\ \A i \in 1..n : i \in 1..(n + 1)
  BY <1>1
<1> HIDE DEF a, n
<1>4. \A x : x \in SeqsIn(a) <=> \E i \in 1..(n + 1) : a[i].type = "input" /\ a[i].seq = x
  BY <1>1, SeqsMember
<1>5. \A x : x \in SeqsIn(q) <=> \E i \in 1..n : q[i].type = "input" /\ q[i].seq = x
  BY SeqsMember DEF n
<1>6. \A x : x \in SeqsIn(a) <=> x \in SeqsIn(q) \/ (m.type = "input" /\ x = m.seq)
  BY <1>1, <1>2, <1>3, <1>4, <1>5
<1> QED BY <1>6 DEF a

\* Ageing changes no number.
LEMMA SeqsStale ==
  ASSUME NEW q \in Seq(Msgs)
  PROVE  SeqsIn(StaleAll(q)) = SeqsIn(q)
<1>1. /\ StaleAll(q) \in Seq(Msgs) /\ Len(StaleAll(q)) = Len(q)
      /\ \A i \in 1..Len(q) : StaleAll(q)[i] = Stale(q[i]) /\ q[i] \in Msgs
  BY StaleAllType
<1>2. \A m \in Msgs : /\ (Stale(m).type = "input") <=> (m.type = "input")
                      /\ m.type = "input" => Stale(m).seq = m.seq
  BY MsgByType DEF Stale, Inputs
<1>3. \A x : x \in SeqsIn(StaleAll(q)) <=> x \in SeqsIn(q)
  BY <1>1, <1>2, SeqsMember
<1> QED BY <1>3

\* wsSend to the CLI, of a message that is not an input.
LEMMA PostKeeps ==
  ASSUME NEW d \in [Sides -> Seq(Msgs)], NEW m \in Msgs, m.type # "input", NEW r \in Sides
  PROVE  SeqsIn(Post(d, r, <<m>>)["cli"]) = SeqsIn(d["cli"])
<1>1. d["cli"] \in Seq(Msgs) /\ "cli" \in Sides
  BY DEF Sides
<1>2. Post(d, r, <<m>>)["cli"] = d["cli"] \/ Post(d, r, <<m>>)["cli"] = d["cli"] \o <<m>>
  BY <1>1 DEF Post
<1> QED BY <1>1, <1>2, SeqsAppend

-----------------------------------------------------------------------------
\* The kinds of steps, as the contract sees them

\* The part of the state the contract does not see.
Hidden == /\ Relayed' = Relayed /\ ("cli" \in bound') = ("cli" \in bound)
          /\ (stage' # "exited") = (stage # "exited")

\* A step that shows nothing.
LEMMA Stutter ==
  ASSUME UNCHANGED <<ending, audit, written>>, Hidden
  PROVE  UNCHANGED Contract!vars
BY DEF Contract!vars, Hidden

\* A step after which the CLI is not served.
LEMMA Drops ==
  ASSUME UNCHANGED <<ending, audit, written, stage>>, Relayed' = Relayed,
         bound' \subseteq bound
  PROVE  [Contract!Next]_(Contract!vars)
BY DEF Contract!Next, Contract!Drop, Contract!vars

\* A step that takes inputs off their way.
LEMMA Loses ==
  ASSUME UNCHANGED <<ending, audit, written, bound>>, Relayed' \subseteq Relayed,
         (stage' # "exited") = (stage # "exited")
  PROVE  Contract!Next
BY DEF Contract!Next, Contract!Lose

\* The CLI exits.
LEMMA Exits ==
  ASSUME UNCHANGED <<ending, audit, written, bound>>, stage # "exited", stage' = "exited",
         Relayed' = {}
  PROVE  Contract!Next
BY DEF Contract!Next, Contract!Exit

-----------------------------------------------------------------------------
\* The steps

\* removeSession drops the session; what it sends are goodbyes.
LEMMA RemoveContract ==
  ASSUME TypeOK, NEW d \in [Sides -> Seq(Msgs)], SeqsIn(d["cli"]) = Relayed,
         RemoveSession(d), UNCHANGED <<ending, audit, written, stage>>
  PROVE  [Contract!Next]_(Contract!vars)
<1>1. Close \in Msgs /\ Close.type # "input" /\ "cli" \in Sides
  BY MsgKinds DEF Close, Sides
<1>2. down'["cli"] = d["cli"] \/ down'["cli"] = Post(d, "cli", <<Close>>)["cli"]
  BY <1>1 DEF RemoveSession
<1>3. Relayed' = SeqsIn(down'["cli"])
  BY DEF Relayed, SeqsIn
<1>4. Relayed' = Relayed
  BY <1>1, <1>2, <1>3, PostKeeps
<1> QED BY <1>4, Drops DEF RemoveSession

\* The relay of a message: it reaches the CLI's queue, or the session is dropped.
LEMMA RelayContract ==
  ASSUME TypeOK, NEW m \in Inputs, Relay(m), UNCHANGED <<ending, audit, written, stage>>
  PROVE  [Contract!Next]_(Contract!vars)
<1>1. /\ down \in [Sides -> Seq(Msgs)] /\ "cli" \in Sides /\ down["cli"] \in Seq(Msgs)
      /\ m \in Msgs /\ m.type = "input" /\ m.seq \in 1..MaxInputs
  BY DEF TypeOK, Sides, Msgs, Inputs
<1>2. Relayed = SeqsIn(down["cli"]) /\ Relayed' = SeqsIn(down'["cli"])
  BY DEF Relayed, SeqsIn
<1>3. CASE m.signed
  <2>1. bound' = bound
        /\ (down' = down \/ ("cli" \in bound /\ down' = Post(down, "cli", <<m>>)))
    BY <1>3 DEF Relay
  <2>2. down'["cli"] = down["cli"] \/ ("cli" \in bound /\ down'["cli"] = down["cli"] \o <<m>>)
    BY <1>1, <2>1 DEF Post
  <2>3. CASE down'["cli"] = down["cli"]
    BY <1>2, <2>1, <2>3, Drops
  <2>4. CASE "cli" \in bound /\ down'["cli"] = down["cli"] \o <<m>>
    <3>1. Relayed' = Relayed \cup {m.seq}
      BY <1>1, <1>2, <2>4, SeqsAppend
    <3> QED BY <1>1, <2>1, <2>4, <3>1 DEF Contract!Next, Contract!Relay
  <2> QED BY <2>2, <2>3, <2>4
<1>4. CASE ~m.signed /\ ~TooMany(failures + 1)
  <2>1. UNCHANGED <<bound, down>>
    BY <1>4 DEF Relay
  <2> QED BY <1>2, <2>1, Drops
<1>5. CASE ~m.signed /\ TooMany(failures + 1)
  <2>1. RemoveSession(down)
    BY <1>5 DEF Relay
  <2> QED BY <1>1, <1>2, <2>1, RemoveContract
<1> QED BY <1>3, <1>4, <1>5

\* A phone's message is read, or its key is answered.
LEMMA MessageContract ==
  ASSUME TypeOK, InputArrives \/ \E f \in lookups : KeyQuery(f) \/ KeyAnswer(f)
  PROVE  [Contract!Next]_(Contract!vars)
<1>1. UNCHANGED <<ending, audit, written, stage>>
  BY DEF InputArrives, KeyQuery, KeyAnswer, store, laptop
<1>2. CASE UNCHANGED <<bound, down>>
  <2>1. Relayed' = Relayed
    BY <1>2 DEF Relayed
  <2> QED BY <1>1, <1>2, <2>1, Drops
<1>3. CASE InputArrives
  <2> DEFINE m == Head(up["phone"])
  <2>1. m \in Inputs
    BY <1>3, TakeType, MsgByType DEF InputArrives, Sides
  <2>2. Relay(m) \/ UNCHANGED <<bound, down>>
    BY <1>3 DEF InputArrives
  <2> HIDE DEF m
  <2> QED BY <1>1, <1>2, <2>1, <2>2, RelayContract
<1>4. CASE \E f \in lookups : KeyQuery(f) \/ KeyAnswer(f)
  <2>1. PICK f \in lookups : KeyQuery(f) \/ KeyAnswer(f)
    BY <1>4
  <2>2. f.msg \in Inputs
    BY <2>1 DEF TypeOK
  <2>3. Relay(f.msg) \/ UNCHANGED <<bound, down>>
    BY <2>1 DEF KeyQuery, KeyAnswer, net
  <2> QED BY <1>1, <1>2, <2>2, <2>3, RelayContract
<1> QED BY <1>3, <1>4

\* The handler that finds the session active ends it.
LEMMA EndsContract ==
  ASSUME TypeOK, EndInv, NEW e \in Enders, EndUpdate(e) \/ EndAudit(e)
  PROVE  [Contract!Next]_(Contract!vars)
<1>1. ender \in EnderFrames /\ ender[e].reason \in Reasons
  BY DEF TypeOK, EnderFrames
<1>2. Hidden /\ UNCHANGED written
  BY DEF EndUpdate, EndAudit, Hidden, Relayed, net, laptop
<1>3. CASE EndUpdate(e)
  <2>1. audit' = audit /\ (ending' = ending \/ (ending = "active" /\ ending' \in Reasons))
    BY <1>1, <1>3 DEF EndUpdate
  <2> QED BY <1>2, <2>1, Stutter DEF Hidden, Contract!Next, Contract!End
<1>4. CASE EndAudit(e)
  <2>1. /\ audit = <<>> /\ ender[e].reason = ending /\ ending # "active" /\ ending' = ending
        /\ audit' = Append(audit, ender[e].reason) \/ audit' = audit
    BY <1>4 DEF EndAudit, EndInv
  <2>2. audit' = <<ending>> \/ audit' = audit
    BY <2>1
  <2> QED BY <1>2, <2>1, <2>2, Stutter DEF Hidden, Contract!Next, Contract!Record
<1> QED BY <1>3, <1>4

\* Its last step notifies and drops.
LEMMA FinishContract ==
  ASSUME TypeOK, NEW e \in Enders, EndFinish(e)
  PROVE  [Contract!Next]_(Contract!vars)
<1>1. /\ ender[e].reason \in Reasons /\ down \in [Sides -> Seq(Msgs)] /\ "cli" \in Sides
      /\ Notified(e) \in [Sides -> Seq(Msgs)]
  BY NotifiedType DEF TypeOK, EnderFrames, Sides
<1>2. Bye(ender[e].reason) \in Msgs /\ Bye(ender[e].reason).type # "input"
  BY <1>1, MsgKinds DEF Bye
<1>3. \/ Notified(e)["cli"] = down["cli"]
      \/ Notified(e)["cli"] = Post(down, "cli", <<Bye(ender[e].reason)>>)["cli"]
  BY <1>1 DEF Notified
<1>4. SeqsIn(Notified(e)["cli"]) = SeqsIn(down["cli"])
  BY <1>1, <1>2, <1>3, PostKeeps
<1>5. Relayed = SeqsIn(down["cli"])
  BY DEF Relayed, SeqsIn
<1>6. RemoveSession(Notified(e)) /\ UNCHANGED <<ending, audit, written, stage>>
  BY DEF EndFinish, store, laptop
<1> QED BY <1>1, <1>4, <1>5, <1>6, RemoveContract

\* Steps of the backend that show little: the relay's own UPDATE, events that arrive,
\* the queries of a revocation.
LEMMA EventContract ==
  ASSUME TypeOK,
         \/ SigFailUpdate
         \/ \E r \in Sides : DisconnectArrives(r) \/ SocketClose(r)
         \/ RevokeSelect \/ RevokeMark \/ RevokeList \/ RevokeFails
  PROVE  [Contract!Next]_(Contract!vars)
<1>1. UNCHANGED <<audit, written, stage, down>> /\ bound' \subseteq bound
  BY DEF SigFailUpdate, DisconnectArrives, SocketClose, RevokeSelect, RevokeMark, RevokeList,
    RevokeFails, store, net, laptop
<1>2. Relayed' = Relayed
  BY <1>1 DEF Relayed
<1>3. CASE ending' = ending
  BY <1>1, <1>2, <1>3, Drops
<1>4. CASE ending' # ending
  <2>1. ending = "active" /\ ending' = "sig_fail" /\ bound' = bound
    BY <1>4 DEF SigFailUpdate, DisconnectArrives, SocketClose, RevokeSelect, RevokeMark,
      RevokeList, RevokeFails, store
  <2> QED BY <1>1, <1>2, <2>1 DEF Contract!Next, Contract!End, Reasons
<1> QED BY <1>3, <1>4

\* The phone and its browser never touch what the contract sees.
LEMMA PhoneContract ==
  ASSUME TypeOK,
         \/ PhoneTypes \/ PhoneDisconnects \/ PhoneListens \/ PhoneHears \/ PhoneMisses
         \/ PhoneResumes \/ PhoneLosesConnection \/ OtherTab
  PROVE  UNCHANGED Contract!vars
<1>1. UNCHANGED <<ending, audit, written, stage, bound>>
  BY DEF PhoneTypes, PhoneDisconnects, PhoneListens, PhoneHears, PhoneMisses, PhoneResumes,
    PhoneLosesConnection, PhoneLeaves, OtherTab, store, memory, laptop
<1>2. \/ down' = down
      \/ down' = [down EXCEPT !["phone"] = <<>>]
      \/ down' = [down EXCEPT !["phone"] = Tail(down["phone"])]
  BY DEF PhoneTypes, PhoneDisconnects, PhoneListens, PhoneHears, PhoneMisses, PhoneResumes,
    PhoneLosesConnection, PhoneLeaves, OtherTab, Hangup, net
<1>3. down'["cli"] = down["cli"]
  BY <1>2 DEF TypeOK, Sides
<1> QED BY <1>1, <1>3, Stutter DEF Hidden, Relayed

\* A CLI that exits or hangs up leaves its queue.
LEMMA HangupContract ==
  ASSUME TypeOK, Hangup("cli"), UNCHANGED <<ending, audit, written, bound>>,
         stage' = stage \/ (stage # "exited" /\ stage' = "exited")
  PROVE  Contract!Next
<1>1. down'["cli"] = <<>>
  BY DEF Hangup, TypeOK, Sides
<1>2. Relayed' = SeqsIn(down'["cli"])
  BY DEF Relayed, SeqsIn
<1>3. Relayed' = {}
  BY <1>1, <1>2, SeqsEmpty
<1> QED BY <1>3, Loses, Exits

\* The listener: an accepted input is delivered, after all that was.
LEMMA CliInputContract ==
  ASSUME TypeOK, OrderInv, CliInput
  PROVE  Contract!Next
<1> DEFINE m == Head(down["cli"])
<1>1. /\ down \in [Sides -> Seq(Msgs)] /\ "cli" \in Sides /\ down["cli"] \in Seq(Msgs)
      /\ down["cli"] # <<>> /\ m.type = "input" /\ stage = "control"
      /\ UNCHANGED <<ending, audit, bound>>
  BY DEF CliInput, TypeOK, Sides, store, memory
<1>2. m \in Inputs
  BY <1>1, HeadTail, MsgByType
<1>3. Relayed = SeqsIn(down["cli"]) /\ Relayed' = SeqsIn(down'["cli"])
  BY DEF Relayed, SeqsIn
<1>4. m.seq \in Relayed
  BY <1>1, <1>3, SeqsTail
<1> HIDE DEF m
<1>5. CASE alarmed'
  <2>1. Teardown("sig_fail")
    BY <1>5 DEF CliInput
  <2>2. Hangup("cli") /\ stage' = "exited"
    BY <2>1 DEF Teardown, CliExits
  <2>3. MaxFailures \in Nat /\ MaxFailures > 0
    BY Parameters
  <2>4. cliFailures' >= MaxFailures
    BY <1>5, Zenon DEF CliInput, TooMany
  <2>5. cliFailures' # 0
    BY <2>3, <2>4
  <2>6. cliFailures' = 0 \/ written' = written
    BY DEF CliInput
  <2> QED BY <1>1, <2>2, <2>5, <2>6, HangupContract
<1>6. CASE ~alarmed'
  <2>1. down' = [down EXCEPT !["cli"] = Tail(down["cli"])] /\ stage' = stage
    BY <1>6 DEF CliInput
  <2>2. Relayed' \subseteq Relayed
    BY <1>1, <1>3, <2>1, SeqsTail
  <2>3. CASE Acceptable(m, lastSeq)
    <3>1. written' = Append(written, m.seq) /\ m.seq > lastSeq
      BY <2>3 DEF CliInput, Acceptable, m
    <3>2. \A i \in 1..Len(written) : written[i] < m.seq
      <4>1. m.seq \in 1..MaxInputs /\ lastSeq \in 0..MaxInputs /\ MaxInputs \in Nat
            /\ written \in Seq(1..MaxInputs)
        BY <1>2, Parameters DEF Inputs, TypeOK
      <4>2. \A i \in 1..Len(written) : written[i] \in 1..MaxInputs
        BY <4>1
      <4> QED BY <3>1, <4>1, <4>2 DEF OrderInv
    <3> QED BY <1>1, <1>4, <2>1, <2>2, <3>1, <3>2 DEF Contract!Next, Contract!Deliver
  <2>4. CASE ~Acceptable(m, lastSeq)
    <3>1. written' = written
      BY <2>4 DEF CliInput, m
    <3> QED BY <1>1, <2>1, <2>2, <3>1, Loses
  <2> QED BY <2>3, <2>4
<1> QED BY <1>5, <1>6

\* The other steps of the CLI.
LEMMA CliContract ==
  ASSUME TypeOK,
         \/ CliStarts \/ CliGoodbye \/ CliMisses \/ CliLosesSocket \/ CliDisconnects \/ CliKilled
         \/ CliLosesConnection
  PROVE  [Contract!Next]_(Contract!vars)
<1>1. UNCHANGED <<ending, audit, written, bound>>
  BY DEF CliStarts, CliGoodbye, CliMisses, CliLosesSocket, CliDisconnects, CliKilled,
    CliLosesConnection, store, memory, laptop
<1>2. CASE CliStarts
  BY <1>1, <1>2, Stutter DEF CliStarts, Hidden, Relayed, net
<1>3. CASE CliMisses
  <2>1. /\ down \in [Sides -> Seq(Msgs)] /\ down["cli"] \in Seq(Msgs) /\ down["cli"] # <<>>
        /\ down'["cli"] = Tail(down["cli"]) /\ stage' = stage
    BY <1>3 DEF CliMisses, TypeOK, Sides, laptop
  <2>2. Relayed = SeqsIn(down["cli"]) /\ Relayed' = SeqsIn(down'["cli"])
    BY DEF Relayed, SeqsIn
  <2> QED BY <1>1, <2>1, <2>2, SeqsTail, Loses
<1>4. CASE CliGoodbye \/ CliLosesSocket \/ CliDisconnects \/ CliKilled \/ CliLosesConnection
  <2>1. Hangup("cli") /\ (stage' = stage \/ (stage # "exited" /\ stage' = "exited"))
    BY <1>4 DEF CliGoodbye, CliLosesSocket, CliDisconnects, CliKilled, CliLosesConnection,
      Teardown, CliExits, laptop
  <2> QED BY <1>1, <2>1, HangupContract
<1> QED BY <1>2, <1>3, <1>4

\* Time and the death of the backend.
LEMMA FaultContract ==
  ASSUME TypeOK, TimePasses \/ Crash
  PROVE  [Contract!Next]_(Contract!vars)
<1>1. /\ UNCHANGED <<ending, audit, written, stage>> /\ bound' \subseteq bound
      /\ down \in [Sides -> Seq(Msgs)] /\ "cli" \in Sides /\ down["cli"] \in Seq(Msgs)
  BY DEF TimePasses, Crash, store, laptop, TypeOK, Sides
<1>2. Relayed = SeqsIn(down["cli"]) /\ Relayed' = SeqsIn(down'["cli"])
  BY DEF Relayed, SeqsIn
<1>3. CASE TimePasses
  <2>1. down'["cli"] = StaleAll(down["cli"])
    BY <1>1, <1>3 DEF TimePasses
  <2> QED BY <1>1, <1>2, <2>1, SeqsStale, Drops
<1>4. CASE Crash
  <2>1. down'["cli"] = Post(down, "cli", <<Close>>)["cli"]
    BY <1>1, <1>4 DEF Crash
  <2>2. Close \in Msgs /\ Close.type # "input"
    BY MsgKinds DEF Close
  <2> QED BY <1>1, <1>2, <2>1, <2>2, PostKeeps, Drops
<1> QED BY <1>3, <1>4

-----------------------------------------------------------------------------
\* The refinement

\* Every step is one of the contract's, or shows nothing.
LEMMA NextContract ==
  TypeOK /\ OrderInv /\ EndInv /\ [Next]_vars => [Contract!Next]_(Contract!vars)
<1> SUFFICES ASSUME TypeOK, OrderInv, EndInv, [Next]_vars
             PROVE  [Contract!Next]_(Contract!vars)
  OBVIOUS
<1>1. CASE Backend
  BY <1>1, MessageContract, EndsContract, FinishContract, EventContract DEF Backend, Ends
<1>2. CASE Clients
  BY <1>2, PhoneContract, CliInputContract, CliContract DEF Clients
<1>3. CASE Users
  BY <1>3, PhoneContract, CliContract, EventContract DEF Users
<1>4. CASE Happens
  BY <1>4, PhoneContract, CliContract, EventContract, FaultContract DEF Happens
<1>5. CASE UNCHANGED vars
  BY <1>5, Stutter DEF vars, store, memory, net, laptop, Hidden, Relayed
<1> QED BY <1>1, <1>2, <1>3, <1>4, <1>5 DEF Next

\* A fresh session is a fresh session of the contract.
LEMMA InitContract == Init => Contract!Init
<1> SUFFICES ASSUME Init PROVE Contract!Init
  OBVIOUS
<1>1. Relayed = {}
  <2>1. down["cli"] = <<>>
    BY DEF Init, Sides
  <2> QED BY <2>1, SeqsEmpty DEF Relayed, SeqsIn
<1> QED BY <1>1 DEF Init, Contract!Init, Sides

(***************************************************************************)
(* Phone, relay, the handlers that end the session, the CLI and every      *)
(* fault together do nothing but what SessionContract lets a session do.   *)
(***************************************************************************)
THEOREM SessionKeepsContract == Spec => KeepsSessionContract
<1>1. Init => OrderInv
  BY DEF Init, OrderInv, WrittenInOrder
<1>2. Init => EndInv
  BY DEF Init, EndInv, EndedOnce, AllIdle, Idle
<1>3. Spec => [](OrderInv /\ EndInv)
  BY <1>1, <1>2, OrderNext, EndNext, SessionTypeCorrect, PTL DEF Spec
<1> QED BY <1>3, InitContract, NextContract, SessionTypeCorrect, PTL
        DEF Spec, KeepsSessionContract, Contract!Spec
=============================================================================
