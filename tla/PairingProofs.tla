---------------------------- MODULE PairingProofs -----------------------------
(***************************************************************************)
(* Pairing, for every set of phones, sessions and codes and every          *)
(* MaxAttempts and MaxCrashes: every variable keeps its type, and one phone*)
(* at most is admitted (THEOREM OneClaim, that every reachable state       *)
(* satisfies SingleClaim).                                                 *)
(*                                                                         *)
(* SingleClaim is not inductive: a state may satisfy it with a second phone*)
(* about to become admitted.  ClaimInv adds what is still on its way: the  *)
(* handler between claim() and the registration, the 'paired' and          *)
(* public_key messages under way, the key that completePairing holds across*)
(* its transaction; and why claim() succeeds only once: a pending row has  *)
(* no claimant.                                                            *)
(***************************************************************************)
EXTENDS Pairing, TLAPS

-----------------------------------------------------------------------------
\* What the operations of the registry do to its shape

\* The constructor yields a registry.
LEMMA NewRegistryType == NewRegistry \in Registries
  BY DEF Registries, NewRegistry

\* setCliForPairing yields a registry.
LEMMA SetCliType ==
  ASSUME NEW r \in Registries
  PROVE  SetCliForPairing(r, Cli) \in Registries
  BY DEF Registries, SetCliForPairing

\* setPhoneForPairing yields a registry.
LEMMA SetPhoneType ==
  ASSUME NEW r \in Registries, NEW p \in Phones
  PROVE  SetPhoneForPairing(r, p) \in Registries
  BY DEF Registries, SetPhoneForPairing

\* promoteToSession yields a registry.
LEMMA PromoteType ==
  ASSUME NEW r \in Registries, NEW s \in Sessions
  PROVE  PromoteToSession(r, s) \in Registries
  BY DEF Registries, PromoteToSession, CopyToSession, OrElse

\* removeBySocket reports a session identifier or none.
LEMMA SessionOfType ==
  ASSUME NEW r \in Registries, NEW k \in Sockets
  PROVE  SessionOf(r, k) \in Sessions \cup {None}
<1>1. CASE CliSessions(r, k) # {}
  <2>1. (CHOOSE s \in CliSessions(r, k) : TRUE) \in CliSessions(r, k)
    BY <1>1
  <2>2. QED
    BY <2>1, <1>1 DEF SessionOf, CliSessions
<1>2. CASE CliSessions(r, k) = {} /\ PhoneSessions(r, k) # {}
  <2>1. (CHOOSE s \in PhoneSessions(r, k) : TRUE) \in PhoneSessions(r, k)
    BY <1>2
  <2>2. QED
    BY <2>1, <1>2 DEF SessionOf, PhoneSessions
<1>3. CASE CliSessions(r, k) = {} /\ PhoneSessions(r, k) = {}
  BY <1>3 DEF SessionOf
<1>4. QED
  BY <1>1, <1>2, <1>3

\* It reports a session identifier when the socket is registered for a session only.
LEMMA SessionOfFound ==
  ASSUME NEW r, NEW k, ~InPairing(r, k), CliSessions(r, k) # {} \/ PhoneSessions(r, k) # {}
  PROVE  SessionOf(r, k) \in Sessions
<1>1. CliSessions(r, k) # {} =>
        (CHOOSE s \in CliSessions(r, k) : TRUE) \in CliSessions(r, k)
  OBVIOUS
<1>2. PhoneSessions(r, k) # {} =>
        (CHOOSE s \in PhoneSessions(r, k) : TRUE) \in PhoneSessions(r, k)
  OBVIOUS
<1>3. QED
  BY <1>1, <1>2 DEF SessionOf, CliSessions, PhoneSessions

\* removeBySocket yields a registry.
LEMMA RemoveBySocketType ==
  ASSUME NEW r \in Registries, NEW k \in Sockets
  PROVE  RemoveBySocket(r, k) \in Registries
<1>1. \A s \in Sessions : [r EXCEPT !.cliBySession[s] = None] \in Registries
                       /\ [r EXCEPT !.phoneBySession[s] = None] \in Registries
  BY DEF Registries
<1>2. [r EXCEPT !.cliByPairing = None] \in Registries
      /\ [r EXCEPT !.phoneByPairing = None] \in Registries
  BY DEF Registries
<1>3. ~InPairing(r, k) /\ (CliSessions(r, k) # {} \/ PhoneSessions(r, k) # {})
        => SessionOf(r, k) \in Sessions
  BY SessionOfFound
<1>4. QED
  BY <1>1, <1>2, <1>3 DEF RemoveBySocket, InPairing

\* removeSession yields a registry.
LEMMA RemoveSessionType ==
  ASSUME NEW r \in Registries, NEW s \in Sessions
  PROVE  RemoveSession(r, s) \in Registries
  BY DEF Registries, RemoveSession

-----------------------------------------------------------------------------
\* Lemmas about the helpers of PairingBackend

\* The CLI's socket is none of the phones', and None is no socket.
LEMMA SocketFacts == /\ Cli \in Sockets /\ None \notin Sockets /\ Cli \notin Phones
                     /\ \A p \in Phones : p \in Sockets /\ p # Cli
                     /\ \A k \in Sockets : k # Cli => k \in Phones
  BY RegistryNames DEF Sockets

\* Closing sockets (socket.close in the handlers) leaves each in a state of readyState.
LEMMA ShutType ==
  ASSUME NetOK, NEW K
  PROVE  Shut(K) \in [Sockets -> {"none", "open", "closing", "closed"}]
  BY DEF NetOK, Shut

\* Every message the backend or a client sends is one of its direction's messages.
LEMMA MessageTypes ==
  /\ \A t \in {"phone_claim_ack", "phone_claimed", "code_valid", "code_invalid",
               "code_locked", "error", "close"} : Note(t) \in DownMsgs
  /\ \A v \in {"pending", "claimed"} : Msg("cli_hello_ack", v) \in DownMsgs
  /\ \A c \in Codes : Msg("code_challenge", c) \in DownMsgs
  /\ \A s \in Sessions : Msg("disconnect", s) \in DownMsgs
  /\ \A s \in Sessions : \A k \in Phones \cup {None} : Paired(s, k) \in DownMsgs
  /\ \A s \in Sessions : Msg("paired", s) \in DownMsgs
  /\ Close \in DownMsgs /\ NoMsg \in UpMsgs
  /\ \A t \in {"cli_hello", "phone_claim", "public_key"} : Note(t) \in UpMsgs
  /\ \A c \in Codes : Msg("code_submit", c) \in UpMsgs
  BY DEF DownMsgs, UpMsgs, Msg, Note, Paired, Close, NoMsg

\* Sending (wsSend) appends messages to a connection and nothing else.
LEMMA PostType ==
  ASSUME NEW d \in [Sockets -> Seq(DownMsgs)], NEW k, NEW ms \in Seq(DownMsgs)
  PROVE  Post(d, k, ms) \in [Sockets -> Seq(DownMsgs)]
<1>1. CASE k \in Sockets
  <2>1. d[k] \o ms \in Seq(DownMsgs)
    BY <1>1
  <2>2. QED
    BY <1>1, <2>1 DEF Post
<1>2. CASE k \notin Sockets
  BY <1>2 DEF Post
<1>3. QED
  BY <1>1, <1>2

\* Sending one message keeps the queues of messages well-typed.
LEMMA PostOne ==
  ASSUME NEW d \in [Sockets -> Seq(DownMsgs)], NEW k, NEW m \in DownMsgs
  PROVE  Post(d, k, <<m>>) \in [Sockets -> Seq(DownMsgs)]
<1>1. <<m>> \in Seq(DownMsgs)
  OBVIOUS
<1>2. QED
  BY <1>1, PostType

\* So does sending a message and the close frame after it.
LEMMA PostTwo ==
  ASSUME NEW d \in [Sockets -> Seq(DownMsgs)], NEW k,
         NEW m \in DownMsgs, NEW n \in DownMsgs
  PROVE  Post(d, k, <<m, n>>) \in [Sockets -> Seq(DownMsgs)]
<1>1. <<m, n>> \in Seq(DownMsgs)
  OBVIOUS
<1>2. QED
  BY <1>1, PostType

\* A code arrives with a code, 'paired' with a session and the phone's key.
LEMMA DownKinds ==
  ASSUME NEW m \in DownMsgs
  PROVE  /\ m.type = "code_challenge" => m.val \in Codes
         /\ m.type = "paired" => m.val \in Sessions /\ m.key \in Phones \cup {None}
  BY DEF DownMsgs

\* A handler that moves to a fitting await keeps the frames well-formed.
LEMMA GotoType ==
  ASSUME FramesOK, NEW k \in Sockets, NEW step, NEW local \in Values,
         FrameFits(k, step, local), Goto(k, step, local), UNCHANGED closing
  PROVE  FramesOK'
  BY DEF FramesOK, Goto, FrameFits, Values

\* A handler that returns keeps the frames well-formed.
LEMMA DoneType ==
  ASSUME FramesOK, NEW k \in Sockets, Done(k), UNCHANGED closing
  PROVE  FramesOK'
  BY GotoType DEF Done, FrameFits, Values

\* So does one that ends in wsError(socket, error, true).
LEMMA RefuseType ==
  ASSUME FramesOK, NetOK, NEW k \in Sockets, Refuse(k), UNCHANGED <<closing, linked, up>>
  PROVE  FramesOK' /\ NetOK'
<1>1. FramesOK'
  BY DoneType DEF Refuse
<1>2. down' \in [Sockets -> Seq(DownMsgs)]
  BY PostTwo, MessageTypes DEF Refuse, NetOK
<1>3. QED
  BY <1>1, <1>2, ShutType DEF Refuse, NetOK

\* pushCodeIfReady leaves its caller at the await of setCode, with a code, or done.
LEMMA PushType ==
  ASSUME FramesOK, NEW p \in Phones, NEW r, NEW key,
         PushCodeIfReady(p, r, key), UNCHANGED closing
  PROVE  FramesOK'
<1>1. \A c \in Codes : c \in Values /\ FrameFits(p, "push_code", c)
  BY SocketFacts DEF Values, FrameFits, PhoneSteps
<1>2. QED
  BY <1>1, GotoType, DoneType, SocketFacts DEF PushCodeIfReady

-----------------------------------------------------------------------------
\* Type correctness, one lemma per handler or client

\* What a client does to its end of the connection keeps the connections' types.
LEMMA ReadType ==
  ASSUME NetOK, NEW k \in Sockets, NEW t, Arrives(k, t)
  PROVE  /\ Head(down[k]) \in DownMsgs /\ Head(down[k]).type = t
         /\ Reads(k) => NetOK'
<1>1. down[k] \in Seq(DownMsgs) /\ down[k] # << >>
  BY DEF Arrives, NetOK
<1>2. Head(down[k]) \in DownMsgs /\ Tail(down[k]) \in Seq(DownMsgs)
  BY <1>1
<1>3. QED
  BY <1>2 DEF Arrives, Reads, NetOK

\* Reading a message nobody listens for keeps the connections' types.
LEMMA IgnoreType ==
  ASSUME NetOK, NEW k \in Sockets, down[k] # << >>, Reads(k)
  PROVE  NetOK'
<1>1. Tail(down[k]) \in Seq(DownMsgs)
  BY DEF NetOK
<1>2. QED
  BY <1>1 DEF Reads, NetOK

\* So do the orderly end and the loss of a client's connection.
LEMMA UnlinkType ==
  ASSUME NetOK, NEW k \in Sockets, Unlinks(k) \/ Breaks(k)
  PROVE  NetOK'
<1>1. << >> \in Seq(DownMsgs)
  OBVIOUS
<1>2. QED
  BY <1>1, MessageTypes DEF Unlinks, Breaks, NetOK

\* The steps of handleCliHello keep the types.
LEMMA CliHelloType ==
  ASSUME TypeOK,
         HelloGetState \/ HelloSecret \/ HelloBind
  PROVE  TypeOK'
<1> USE SocketFacts DEF TypeOK
<1>1. CASE HelloGetState
  <2>1. FramesOK'
    BY <1>1, GotoType DEF HelloGetState, OnlyStore, StoreOK, Rows, Live,
       FrameFits, Values, CliSteps, PhoneSteps
  <2>2. NetOK'
    BY <1>1, MessageTypes DEF HelloGetState, OnlyStore, Consume, NetOK
  <2>3. StoreOK' /\ MemoryOK' /\ ClientsOK' /\ HistoryOK'
    BY <1>1 DEF HelloGetState, OnlyStore, memory, clients, StoreOK, MemoryOK,
       ClientsOK, HistoryOK
  <2>4. QED
    BY <2>1, <2>2, <2>3
<1>2. CASE HelloSecret
  <2>1. FramesOK'
    BY <1>2, GotoType DEF HelloSecret, OnlyStore, FramesOK,
       FrameFits, Values, CliSteps, PhoneSteps
  <2>2. StoreOK' /\ MemoryOK' /\ NetOK' /\ ClientsOK' /\ HistoryOK'
    BY <1>2 DEF HelloSecret, OnlyStore, memory, clients, StoreOK, MemoryOK, NetOK,
       ClientsOK, HistoryOK
  <2>3. QED
    BY <2>1, <2>2
<1>3. CASE HelloBind
  <2>1. MemoryOK'
    BY <1>3, SetCliType DEF HelloBind, MemoryOK
  <2>2. FramesOK'
    BY <1>3, DoneType DEF HelloBind, Refuse
  <2>3. NetOK'
    <3>1. CASE reg.cliByPairing # None
      BY <1>3, <3>1, RefuseType DEF HelloBind
    <3>2. CASE reg.cliByPairing = None
      <4>1. Msg("cli_hello_ack", loc[Cli]) \in DownMsgs
        BY <1>3, MessageTypes DEF HelloBind, FramesOK, FrameFits
      <4>2. Post(down, Cli, <<Msg("cli_hello_ack", loc[Cli])>>)
              \in [Sockets -> Seq(DownMsgs)]
        BY <4>1, PostOne DEF NetOK
      <4>3. QED
        BY <1>3, <3>2, <4>2 DEF HelloBind, NetOK
    <3>3. QED
      BY <3>1, <3>2
  <2>4. StoreOK' /\ ClientsOK' /\ HistoryOK'
    BY <1>3 DEF HelloBind, store, clients, history, StoreOK, ClientsOK, HistoryOK
  <2>5. QED
    BY <2>1, <2>2, <2>3, <2>4
<1>4. QED
  BY <1>1, <1>2, <1>3

\* The refusals of cli_hello, phone_claim and code_submit keep the types.
LEMMA RejectType ==
  ASSUME TypeOK, NEW k \in Sockets,
         Reject(k)
  PROVE  TypeOK'
<1> USE SocketFacts DEF TypeOK
<1>1. CASE Reject(k)
  <2>1. FramesOK'
    BY <1>1, RefuseType DEF Reject
  <2>2. NetOK'
    BY <1>1, RefuseType DEF Reject
  <2>3. StoreOK' /\ MemoryOK' /\ ClientsOK' /\ HistoryOK'
    BY <1>1 DEF Reject, store, memory, clients, history, StoreOK, MemoryOK, ClientsOK,
       HistoryOK
  <2>4. QED
    BY <2>1, <2>2, <2>3
<1>2. QED
  BY <1>1

\* The steps of handlePhoneClaim keep the types.
LEMMA PhoneClaimType ==
  ASSUME TypeOK, NEW p \in Phones,
         ClaimGetState(p) \/ ClaimSelect(p) \/ ClaimUpdate(p)
            \/ ClaimBind(p)
  PROVE  TypeOK'
<1> USE SocketFacts DEF TypeOK
<1>1. CASE ClaimGetState(p)
  <2>1. FramesOK'
    BY <1>1, GotoType DEF ClaimGetState, OnlyStore,
       FrameFits, Values, CliSteps, PhoneSteps
  <2>2. NetOK'
    BY <1>1, MessageTypes DEF ClaimGetState, OnlyStore, Consume, NetOK
  <2>3. StoreOK' /\ MemoryOK' /\ ClientsOK' /\ HistoryOK'
    BY <1>1 DEF ClaimGetState, OnlyStore, memory, clients, StoreOK, MemoryOK,
       ClientsOK, HistoryOK
  <2>4. QED
    BY <2>1, <2>2, <2>3
<1>2. CASE ClaimSelect(p)
  <2>1. FramesOK'
    BY <1>2, GotoType DEF ClaimSelect, OnlyStore,
       FrameFits, Values, CliSteps, PhoneSteps
  <2>2. StoreOK' /\ MemoryOK' /\ NetOK' /\ ClientsOK' /\ HistoryOK'
    BY <1>2 DEF ClaimSelect, OnlyStore, memory, clients, StoreOK, MemoryOK, NetOK,
       ClientsOK, HistoryOK
  <2>3. QED
    BY <2>1, <2>2
<1>3. CASE ClaimUpdate(p)
  <2>1. StoreOK'
    BY <1>3 DEF ClaimUpdate, OnlyStore, ClaimedRow, StoreOK, Rows
  <2>2. FramesOK'
    BY <1>3, GotoType DEF ClaimUpdate, OnlyStore,
       FrameFits, Values, CliSteps, PhoneSteps
  <2>3. HistoryOK'
    BY <1>3 DEF ClaimUpdate, OnlyStore, HistoryOK
  <2>4. MemoryOK' /\ NetOK' /\ ClientsOK'
    BY <1>3 DEF ClaimUpdate, OnlyStore, memory, clients, MemoryOK, NetOK, ClientsOK
  <2>5. QED
    BY <2>1, <2>2, <2>3, <2>4
<1>4. CASE ClaimBind(p)
  <2>1. MemoryOK'
    BY <1>4, SetPhoneType DEF ClaimBind, MemoryOK
  <2>2. FramesOK'
    BY <1>4, DoneType, PushType DEF ClaimBind, Refuse
  <2>3. NetOK'
    <3>1. CASE reg.phoneByPairing # None
      BY <1>4, <3>1, RefuseType DEF ClaimBind
    <3>2. CASE reg.phoneByPairing = None
      <4>1. Post(down, p, <<Note("phone_claim_ack")>>) \in [Sockets -> Seq(DownMsgs)]
        BY PostOne, MessageTypes DEF NetOK
      <4>2. \A k : Post(Post(down, p, <<Note("phone_claim_ack")>>), k,
                     <<Note("phone_claimed")>>) \in [Sockets -> Seq(DownMsgs)]
        BY <4>1, PostOne, MessageTypes
      <4>3. /\ UNCHANGED <<sock, linked, up>>
            /\ down' = Post(Post(down, p, <<Note("phone_claim_ack")>>),
                            reg.cliByPairing, <<Note("phone_claimed")>>)
        BY <1>4, <3>2 DEF ClaimBind
      <4>4. QED
        BY <4>2, <4>3 DEF NetOK
    <3>3. QED
      BY <3>1, <3>2
  <2>4. StoreOK' /\ ClientsOK' /\ HistoryOK'
    BY <1>4 DEF ClaimBind, store, clients, history, StoreOK, ClientsOK, HistoryOK
  <2>5. QED
    BY <2>1, <2>2, <2>3, <2>4
<1>5. QED
  BY <1>1, <1>2, <1>3, <1>4

\* The steps of onPublicKey and generateAndPushCode keep the types.
LEMMA PublicKeyType ==
  ASSUME TypeOK, NEW p \in Phones,
         PublicKey(p) \/ PushSetCode(p) \/ PushSend(p)
  PROVE  TypeOK'
<1> USE SocketFacts DEF TypeOK
<1>1. CASE PublicKey(p)
  <2>1. MemoryOK'
    BY <1>1 DEF PublicKey, MemoryOK
  <2>2. FramesOK'
    BY <1>1, PushType DEF PublicKey
  <2>3. NetOK'
    BY <1>1, MessageTypes DEF PublicKey, Consume, NetOK
  <2>4. StoreOK' /\ ClientsOK' /\ HistoryOK'
    BY <1>1 DEF PublicKey, store, clients, history, StoreOK, ClientsOK, HistoryOK
  <2>5. QED
    BY <2>1, <2>2, <2>3, <2>4
<1>2. CASE PushSetCode(p)
  <2>1. StoreOK'
    <3>1. loc[p] \in Codes
      BY <1>2 DEF PushSetCode, FramesOK, FrameFits
    <3>2. WithCode(row, loc[p]) \in Rows
      BY <3>1 DEF WithCode, StoreOK, Rows
    <3>3. QED
      BY <1>2, <3>2 DEF PushSetCode, OnlyStore, StoreOK
  <2>2. FramesOK'
    BY <1>2, GotoType, DoneType DEF PushSetCode, OnlyStore, FramesOK,
       FrameFits, Values, CliSteps, PhoneSteps
  <2>3. MemoryOK' /\ NetOK' /\ ClientsOK' /\ HistoryOK'
    BY <1>2 DEF PushSetCode, OnlyStore, memory, clients, MemoryOK, NetOK, ClientsOK,
       HistoryOK
  <2>4. QED
    BY <2>1, <2>2, <2>3
<1>3. CASE PushSend(p)
  <2>1. MemoryOK'
    BY <1>3 DEF PushSend, MemoryOK
  <2>2. FramesOK'
    BY <1>3, DoneType DEF PushSend
  <2>3. NetOK'
    BY <1>3, PostOne, MessageTypes DEF PushSend, NetOK, FramesOK, FrameFits
  <2>4. StoreOK' /\ ClientsOK' /\ HistoryOK'
    BY <1>3 DEF PushSend, store, clients, history, StoreOK, ClientsOK, HistoryOK
  <2>5. QED
    BY <2>1, <2>2, <2>3, <2>4
<1>4. QED
  BY <1>1, <1>2, <1>3

\* The steps of handleCodeSubmit keep the types.
LEMMA CodeSubmitType ==
  ASSUME TypeOK,
         SubmitSelect \/ SubmitAttempt \/ SubmitInvalid
            \/ LockedDestroy \/ LockedSend \/ SubmitValid
  PROVE  TypeOK'
<1> USE SocketFacts DEF TypeOK
<1>1. CASE SubmitSelect
  <2>1. FramesOK'
    BY <1>1, GotoType DEF SubmitSelect, OnlyStore, Verdict,
       FrameFits, Values, CliSteps, PhoneSteps
  <2>2. NetOK'
    BY <1>1, MessageTypes DEF SubmitSelect, OnlyStore, Consume, NetOK
  <2>3. StoreOK' /\ MemoryOK' /\ ClientsOK' /\ HistoryOK'
    BY <1>1 DEF SubmitSelect, OnlyStore, memory, clients, StoreOK, MemoryOK,
       ClientsOK, HistoryOK
  <2>4. QED
    BY <2>1, <2>2, <2>3
<1>2. CASE SubmitAttempt
  <2>1. StoreOK'
    BY <1>2 DEF SubmitAttempt, OnlyStore, WithAttempt, StoreOK, Rows
  <2>2. FramesOK'
    BY <1>2, GotoType DEF SubmitAttempt, OnlyStore,
       FrameFits, Values, CliSteps, PhoneSteps
  <2>3. MemoryOK' /\ NetOK' /\ ClientsOK' /\ HistoryOK'
    BY <1>2 DEF SubmitAttempt, OnlyStore, memory, clients, MemoryOK, NetOK, ClientsOK,
       HistoryOK
  <2>4. QED
    BY <2>1, <2>2, <2>3
<1>3. CASE SubmitInvalid
  <2>1. FramesOK'
    BY <1>3, DoneType DEF SubmitInvalid
  <2>2. NetOK'
    BY <1>3, PostOne, MessageTypes DEF SubmitInvalid, NetOK
  <2>3. StoreOK' /\ MemoryOK' /\ ClientsOK' /\ HistoryOK'
    BY <1>3 DEF SubmitInvalid, store, memory, clients, history, StoreOK, MemoryOK,
       ClientsOK, HistoryOK
  <2>4. QED
    BY <2>1, <2>2, <2>3
<1>4. CASE LockedDestroy
  <2>1. StoreOK'
    BY <1>4 DEF LockedDestroy, OnlyStore, NoRow, StoreOK, Rows
  <2>2. FramesOK'
    BY <1>4, GotoType DEF LockedDestroy, OnlyStore,
       FrameFits, Values, CliSteps, PhoneSteps
  <2>3. MemoryOK' /\ NetOK' /\ ClientsOK' /\ HistoryOK'
    BY <1>4 DEF LockedDestroy, OnlyStore, memory, clients, MemoryOK, NetOK, ClientsOK,
       HistoryOK
  <2>4. QED
    BY <2>1, <2>2, <2>3
<1>5. CASE LockedSend
  <2>1. FramesOK'
    BY <1>5, DoneType DEF LockedSend
  <2>2. NetOK'
    BY <1>5, PostTwo, ShutType, MessageTypes DEF LockedSend, NetOK
  <2>3. StoreOK' /\ MemoryOK' /\ ClientsOK' /\ HistoryOK'
    BY <1>5 DEF LockedSend, store, memory, clients, history, StoreOK, MemoryOK,
       ClientsOK, HistoryOK
  <2>4. QED
    BY <2>1, <2>2, <2>3
<1>6. CASE SubmitValid
  <2>1. FramesOK'
    BY <1>6, GotoType DEF SubmitValid, MemoryOK,
       FrameFits, Values, CliSteps, PhoneSteps
  <2>2. NetOK'
    BY <1>6, PostOne, MessageTypes DEF SubmitValid, NetOK
  <2>3. StoreOK' /\ MemoryOK' /\ ClientsOK' /\ HistoryOK'
    BY <1>6 DEF SubmitValid, store, memory, clients, history, StoreOK, MemoryOK,
       ClientsOK, HistoryOK
  <2>4. QED
    BY <2>1, <2>2, <2>3
<1>7. QED
  BY <1>1, <1>2, <1>3, <1>4, <1>5, <1>6

\* The steps of completePairing keep the types.
LEMMA CompletePairingType ==
  ASSUME TypeOK,
         (\E s \in Sessions : Commit(s)) \/ Promote \/ Destroy
            \/ Forget
  PROVE  TypeOK'
<1> USE SocketFacts DEF TypeOK
<1>1. CASE \E s \in Sessions : Commit(s)
  <2>1. StoreOK'
    BY <1>1 DEF Commit, OnlyStore, StoreOK, FramesOK, FrameFits, Sessionlike
  <2>2. FramesOK'
    BY <1>1, GotoType DEF Commit, OnlyStore,
       FrameFits, Values, CliSteps, PhoneSteps
  <2>3. MemoryOK' /\ NetOK' /\ ClientsOK' /\ HistoryOK'
    BY <1>1 DEF Commit, OnlyStore, memory, clients, MemoryOK, NetOK, ClientsOK,
       HistoryOK
  <2>4. QED
    BY <2>1, <2>2, <2>3
<1>2. CASE Promote
  <2>1. MemoryOK'
    BY <1>2, PromoteType DEF Promote, MemoryOK, FramesOK, FrameFits
  <2>2. FramesOK'
    BY <1>2, GotoType DEF Promote,
       FrameFits, Values, CliSteps, PhoneSteps
  <2>3. NetOK'
    BY <1>2, PostOne, MessageTypes DEF Promote, NetOK, FramesOK, FrameFits, StoreOK, Sessionlike
  <2>4. StoreOK' /\ ClientsOK' /\ HistoryOK'
    BY <1>2 DEF Promote, store, clients, history, StoreOK, ClientsOK, HistoryOK
  <2>5. QED
    BY <2>1, <2>2, <2>3, <2>4
<1>3. CASE Destroy
  <2>1. StoreOK'
    BY <1>3 DEF Destroy, OnlyStore, NoRow, StoreOK, Rows
  <2>2. FramesOK'
    BY <1>3, GotoType DEF Destroy, OnlyStore,
       FrameFits, Values, CliSteps, PhoneSteps
  <2>3. MemoryOK' /\ NetOK' /\ ClientsOK' /\ HistoryOK'
    BY <1>3 DEF Destroy, OnlyStore, memory, clients, MemoryOK, NetOK, ClientsOK,
       HistoryOK
  <2>4. QED
    BY <2>1, <2>2, <2>3
<1>4. CASE Forget
  <2>1. MemoryOK'
    BY <1>4 DEF Forget, MemoryOK
  <2>2. FramesOK'
    BY <1>4, DoneType DEF Forget
  <2>3. StoreOK' /\ NetOK' /\ ClientsOK' /\ HistoryOK'
    BY <1>4 DEF Forget, store, net, clients, history, StoreOK, NetOK, ClientsOK,
       HistoryOK
  <2>4. QED
    BY <2>1, <2>2, <2>3
<1>5. QED
  BY <1>1, <1>2, <1>3, <1>4

\* The steps of handleSocketClose and endSession keep the types.
LEMMA CloseType ==
  ASSUME TypeOK, NEW k \in Sockets,
         SocketClose(k) \/ EndUpdate(k) \/ EndNotify(k)
  PROVE  TypeOK'
<1> USE SocketFacts DEF TypeOK
<1>1. CASE SocketClose(k)
  <2>1. MemoryOK'
    BY <1>1, RemoveBySocketType DEF SocketClose, MemoryOK
  <2>2. FramesOK'
    BY <1>1, SessionOfType DEF SocketClose, FramesOK, MemoryOK
  <2>3. NetOK'
    BY <1>1 DEF SocketClose, NetOK
  <2>4. StoreOK' /\ ClientsOK' /\ HistoryOK'
    BY <1>1 DEF SocketClose, store, clients, history, StoreOK, ClientsOK, HistoryOK
  <2>5. QED
    BY <2>1, <2>2, <2>3, <2>4
<1>2. CASE EndUpdate(k)
  <2>1. StoreOK'
    BY <1>2 DEF EndUpdate, StoreOK, Sessionlike
  <2>2. FramesOK'
    BY <1>2 DEF EndUpdate, FramesOK, NotClosing
  <2>3. MemoryOK' /\ NetOK' /\ ClientsOK' /\ HistoryOK'
    BY <1>2 DEF EndUpdate, memory, net, clients, history, MemoryOK, NetOK, ClientsOK,
       HistoryOK
  <2>4. QED
    BY <2>1, <2>2, <2>3
<1>3. CASE EndNotify(k)
  <2>1. MemoryOK'
    BY <1>3, RemoveSessionType DEF EndNotify, MemoryOK, FramesOK, NotClosing
  <2>2. FramesOK'
    BY <1>3 DEF EndNotify, FramesOK, NotClosing
  <2>3. NetOK'
    <3>1. closing[k].session \in Sessions
      BY <1>3 DEF EndNotify, FramesOK, NotClosing
    <3>2. \A x, y : Post(Post(down, x, <<Msg("disconnect", closing[k].session), Close>>),
                        y, <<Close>>) \in [Sockets -> Seq(DownMsgs)]
      BY <3>1, PostOne, PostTwo, MessageTypes DEF NetOK
    <3>3. QED
      BY <1>3, <3>2, ShutType DEF EndNotify, NetOK
  <2>4. StoreOK' /\ ClientsOK' /\ HistoryOK'
    BY <1>3 DEF EndNotify, store, clients, history, StoreOK, ClientsOK, HistoryOK
  <2>5. QED
    BY <2>1, <2>2, <2>3, <2>4
<1>4. QED
  BY <1>1, <1>2, <1>3

\* The death of the backend and the expiry of the pairing keep the types.
LEMMA FaultType ==
  ASSUME TypeOK,
         Crash \/ Expire
  PROVE  TypeOK'
<1> USE SocketFacts DEF TypeOK
<1>1. CASE Crash
  <2>1. MemoryOK'
    BY <1>1, NewRegistryType DEF Crash, MemoryOK
  <2>2. FramesOK'
    BY <1>1 DEF Crash, FramesOK, Values, FrameFits
  <2>3. NetOK'
    BY <1>1, MessageTypes DEF Crash, NetOK
  <2>4. HistoryOK'
    BY <1>1, CrashBound DEF Crash, HistoryOK
  <2>5. StoreOK' /\ ClientsOK'
    BY <1>1 DEF Crash, store, clients, StoreOK, ClientsOK
  <2>6. QED
    BY <2>1, <2>2, <2>3, <2>4, <2>5
<1>2. CASE Expire
  <2>1. StoreOK'
    BY <1>2 DEF Expire, StoreOK
  <2>2. MemoryOK' /\ FramesOK' /\ NetOK' /\ ClientsOK' /\ HistoryOK'
    BY <1>2 DEF Expire, memory, frames, net, clients, history, MemoryOK, FramesOK,
       NetOK, ClientsOK, HistoryOK
  <2>3. QED
    BY <2>1, <2>2
<1>3. QED
  BY <1>1, <1>2

\* What the CLI does, but for submitting a code, keeps the types.
LEMMA CliReactsType ==
  ASSUME TypeOK,
         CliConnect \/ CliListen \/ CliStartControl
            \/ CliPhoneClaimed \/ CliCodeInvalid \/ CliPaired
            \/ CliGivesUp \/ CliMissesClose \/ CliIgnores \/ CliExit
            \/ CliLosesConnection
  PROVE  TypeOK'
<1> USE SocketFacts DEF TypeOK
<1>1. CASE CliConnect
  <2>1. NetOK'
    BY <1>1, MessageTypes DEF CliConnect, Opens, NetOK
  <2>2. ClientsOK'
    BY <1>1 DEF CliConnect, ClientsOK, CliStates, Phases
  <2>3. StoreOK' /\ MemoryOK' /\ FramesOK' /\ HistoryOK'
    BY <1>1 DEF CliConnect, OnlyClients, store, memory, frames, history, StoreOK,
       MemoryOK, FramesOK, HistoryOK
  <2>4. QED
    BY <2>1, <2>2, <2>3
<1>2. CASE CliListen
  <2>1. ClientsOK'
    BY <1>2 DEF CliListen, ClientsOK, CliStates, Phases
  <2>2. StoreOK' /\ MemoryOK' /\ FramesOK' /\ NetOK' /\ HistoryOK'
    BY <1>2 DEF CliListen, OnlyClients, store, memory, frames, net, history, StoreOK,
       MemoryOK, FramesOK, NetOK, HistoryOK
  <2>3. QED
    BY <2>1, <2>2
<1>3. CASE CliStartControl
  <2>1. ClientsOK'
    BY <1>3 DEF CliStartControl, ClientsOK, CliStates, Phases
  <2>2. StoreOK' /\ MemoryOK' /\ FramesOK' /\ NetOK' /\ HistoryOK'
    BY <1>3 DEF CliStartControl, OnlyClients, store, memory, frames, net, history,
       StoreOK, MemoryOK, FramesOK, NetOK, HistoryOK
  <2>3. QED
    BY <2>1, <2>2
<1>4. CASE CliPhoneClaimed
  <2>1. NetOK'
    BY <1>4, ReadType DEF CliPhoneClaimed
  <2>2. ClientsOK'
    BY <1>4 DEF CliPhoneClaimed, ClientsOK, CliStates, Phases
  <2>3. StoreOK' /\ MemoryOK' /\ FramesOK' /\ HistoryOK'
    BY <1>4 DEF CliPhoneClaimed, OnlyClients, store, memory, frames, history, StoreOK,
       MemoryOK, FramesOK, HistoryOK
  <2>4. QED
    BY <2>1, <2>2, <2>3
<1>5. CASE CliCodeInvalid
  <2>1. NetOK'
    BY <1>5, ReadType DEF CliCodeInvalid
  <2>2. ClientsOK'
    BY <1>5 DEF CliCodeInvalid, ClientsOK, CliStates, Phases
  <2>3. StoreOK' /\ MemoryOK' /\ FramesOK' /\ HistoryOK'
    BY <1>5 DEF CliCodeInvalid, OnlyClients, store, memory, frames, history, StoreOK,
       MemoryOK, FramesOK, HistoryOK
  <2>4. QED
    BY <2>1, <2>2, <2>3
<1>6. CASE CliPaired
  <2>1. NetOK'
    BY <1>6, ReadType DEF CliPaired
  <2>2. ClientsOK'
    BY <1>6, ReadType, DownKinds DEF CliPaired, ClientsOK, CliStates, Phases
  <2>3. StoreOK' /\ MemoryOK' /\ FramesOK' /\ HistoryOK'
    BY <1>6 DEF CliPaired, OnlyClients, store, memory, frames, history, StoreOK,
       MemoryOK, FramesOK, HistoryOK
  <2>4. QED
    BY <2>1, <2>2, <2>3
<1>7. CASE CliGivesUp
  <2>1. NetOK'
    BY <1>7, UnlinkType DEF CliGivesUp
  <2>2. ClientsOK'
    BY <1>7 DEF CliGivesUp, ClientsOK, CliStates, Phases
  <2>3. StoreOK' /\ MemoryOK' /\ FramesOK' /\ HistoryOK'
    BY <1>7 DEF CliGivesUp, OnlyClients, store, memory, frames, history, StoreOK,
       MemoryOK, FramesOK, HistoryOK
  <2>4. QED
    BY <2>1, <2>2, <2>3
<1>8. CASE CliMissesClose
  <2>1. NetOK'
    BY <1>8, UnlinkType DEF CliMissesClose
  <2>2. StoreOK' /\ MemoryOK' /\ FramesOK' /\ ClientsOK' /\ HistoryOK'
    BY <1>8 DEF CliMissesClose, OnlyClients, store, memory, frames, clients, history,
       StoreOK, MemoryOK, FramesOK, ClientsOK, HistoryOK
  <2>3. QED
    BY <2>1, <2>2
<1>9. CASE CliIgnores
  <2>1. NetOK'
    BY <1>9, IgnoreType DEF CliIgnores
  <2>2. StoreOK' /\ MemoryOK' /\ FramesOK' /\ ClientsOK' /\ HistoryOK'
    BY <1>9 DEF CliIgnores, OnlyClients, store, memory, frames, clients, history,
       StoreOK, MemoryOK, FramesOK, ClientsOK, HistoryOK
  <2>3. QED
    BY <2>1, <2>2
<1>10. CASE CliExit
  <2>1. NetOK'
    BY <1>10, UnlinkType DEF CliExit
  <2>2. ClientsOK'
    BY <1>10 DEF CliExit, ClientsOK, CliStates, Phases
  <2>3. StoreOK' /\ MemoryOK' /\ FramesOK' /\ HistoryOK'
    BY <1>10 DEF CliExit, OnlyClients, store, memory, frames, history, StoreOK,
       MemoryOK, FramesOK, HistoryOK
  <2>4. QED
    BY <2>1, <2>2, <2>3
<1>11. CASE CliLosesConnection
  <2>1. NetOK'
    BY <1>11, UnlinkType DEF CliLosesConnection
  <2>2. ClientsOK'
    BY <1>11 DEF CliLosesConnection, ClientsOK, CliStates, Phases
  <2>3. StoreOK' /\ MemoryOK' /\ FramesOK' /\ HistoryOK'
    BY <1>11 DEF CliLosesConnection, OnlyClients, store, memory, frames, history,
       StoreOK, MemoryOK, FramesOK, HistoryOK
  <2>4. QED
    BY <2>1, <2>2, <2>3
<1>12. QED
  BY <1>1, <1>2, <1>3, <1>4, <1>5, <1>6, <1>7, <1>8, <1>9, <1>10, <1>11

\* Submitting a code keeps the types.
LEMMA CliSubmitType ==
  ASSUME TypeOK, NEW c \in Codes,
         CliSubmit(c)
  PROVE  TypeOK'
<1> USE SocketFacts DEF TypeOK
<1>1. CASE CliSubmit(c)
  <2>1. NetOK'
    BY <1>1, MessageTypes DEF CliSubmit, Sends, NetOK
  <2>2. ClientsOK'
    <3>1. cli.tries + 1 \in Nat
      BY DEF ClientsOK, CliStates
    <3>2. QED
      BY <1>1, <3>1 DEF CliSubmit, ClientsOK, CliStates, Phases
  <2>3. StoreOK' /\ MemoryOK' /\ FramesOK' /\ HistoryOK'
    BY <1>1 DEF CliSubmit, OnlyClients, store, memory, frames, history, StoreOK,
       MemoryOK, FramesOK, HistoryOK
  <2>4. QED
    BY <2>1, <2>2, <2>3
<1>2. QED
  BY <1>1

\* What a phone's page does keeps the types.
LEMMA PhoneType ==
  ASSUME TypeOK, NEW p \in Phones,
         PhoneOpens(p) \/ PhoneClaimed(p) \/ PhoneSendsKey(p)
            \/ PhoneCode(p) \/ PhonePaired(p) \/ PhoneEnds(p)
            \/ PhoneLocked(p) \/ PhoneIgnores(p)
            \/ PhoneListens(p) \/ PhoneLosesConnection(p)
  PROVE  TypeOK'
<1> USE SocketFacts DEF TypeOK
<1>1. CASE PhoneOpens(p)
  <2>1. NetOK'
    BY <1>1, MessageTypes DEF PhoneOpens, Opens, NetOK
  <2>2. ClientsOK'
    BY <1>1 DEF PhoneOpens, Turn, ClientsOK, PhoneStates, Pages
  <2>3. StoreOK' /\ MemoryOK' /\ FramesOK' /\ HistoryOK'
    BY <1>1 DEF PhoneOpens, OnlyClients, store, memory, frames, history, StoreOK,
       MemoryOK, FramesOK, HistoryOK
  <2>4. QED
    BY <2>1, <2>2, <2>3
<1>2. CASE PhoneClaimed(p)
  <2>1. NetOK'
    BY <1>2, ReadType DEF PhoneClaimed
  <2>2. ClientsOK'
    BY <1>2 DEF PhoneClaimed, Turn, ClientsOK, PhoneStates, Pages
  <2>3. StoreOK' /\ MemoryOK' /\ FramesOK' /\ HistoryOK'
    BY <1>2 DEF PhoneClaimed, OnlyClients, store, memory, frames, history, StoreOK,
       MemoryOK, FramesOK, HistoryOK
  <2>4. QED
    BY <2>1, <2>2, <2>3
<1>3. CASE PhoneSendsKey(p)
  <2>1. NetOK'
    BY <1>3, MessageTypes DEF PhoneSendsKey, Sends, NetOK
  <2>2. ClientsOK'
    BY <1>3 DEF PhoneSendsKey, Turn, ClientsOK, PhoneStates, Pages
  <2>3. StoreOK' /\ MemoryOK' /\ FramesOK' /\ HistoryOK'
    BY <1>3 DEF PhoneSendsKey, OnlyClients, store, memory, frames, history, StoreOK,
       MemoryOK, FramesOK, HistoryOK
  <2>4. QED
    BY <2>1, <2>2, <2>3
<1>4. CASE PhoneCode(p)
  <2>1. NetOK'
    BY <1>4, ReadType DEF PhoneCode
  <2>2. ClientsOK'
    <3> DEFINE new == [phone[p] EXCEPT !.code = Head(down[p]).val,
                             !.page = IF @ = "waiting" THEN "code" ELSE @]
    <3> HIDE DEF TypeOK
    <3>1. Head(down[p]).val \in Codes
      BY <1>4, ReadType, DownKinds DEF PhoneCode, TypeOK
    <3>2. phone[p] \in PhoneStates
      BY DEF ClientsOK, TypeOK
    <3>3. new \in PhoneStates
      BY <3>1, <3>2 DEF PhoneStates, Pages
    <3>4. phone' = [phone EXCEPT ![p] = new]
      BY <1>4, <3>2 DEF PhoneCode, ClientsOK, TypeOK
    <3>5. QED
      BY <1>4, <3>3, <3>4 DEF PhoneCode, OnlyClients, ClientsOK, TypeOK
  <2>3. StoreOK' /\ MemoryOK' /\ FramesOK' /\ HistoryOK'
    BY <1>4 DEF PhoneCode, OnlyClients, store, memory, frames, history, StoreOK,
       MemoryOK, FramesOK, HistoryOK
  <2>4. QED
    BY <2>1, <2>2, <2>3
<1>5. CASE PhonePaired(p)
  <2>1. NetOK'
    BY <1>5, ReadType DEF PhonePaired
  <2>2. ClientsOK'
    <3> DEFINE new == [phone[p] EXCEPT !.page = "starting", !.session = Head(down[p]).val]
    <3> HIDE DEF TypeOK
    <3>1. Head(down[p]).val \in Sessions
      BY <1>5, ReadType, DownKinds DEF PhonePaired, TypeOK
    <3>2. phone[p] \in PhoneStates
      BY DEF ClientsOK, TypeOK
    <3>3. new \in PhoneStates
      BY <3>1, <3>2 DEF PhoneStates, Pages
    <3>4. phone' = [phone EXCEPT ![p] = new]
      BY <1>5, <3>2 DEF PhonePaired, ClientsOK, TypeOK
    <3>5. QED
      BY <1>5, <3>3, <3>4 DEF PhonePaired, OnlyClients, ClientsOK, TypeOK
  <2>3. StoreOK' /\ MemoryOK' /\ FramesOK' /\ HistoryOK'
    BY <1>5 DEF PhonePaired, OnlyClients, store, memory, frames, history, StoreOK,
       MemoryOK, FramesOK, HistoryOK
  <2>4. QED
    BY <2>1, <2>2, <2>3
<1>6. CASE PhoneEnds(p)
  <2>1. NetOK'
    BY <1>6, UnlinkType DEF PhoneEnds
  <2>2. ClientsOK'
    BY <1>6 DEF PhoneEnds, Turn, ClientsOK, PhoneStates, Pages
  <2>3. StoreOK' /\ MemoryOK' /\ FramesOK' /\ HistoryOK'
    BY <1>6 DEF PhoneEnds, OnlyClients, store, memory, frames, history, StoreOK,
       MemoryOK, FramesOK, HistoryOK
  <2>4. QED
    BY <2>1, <2>2, <2>3
<1>7. CASE PhoneLocked(p)
  <2>1. NetOK'
    BY <1>7, ReadType DEF PhoneLocked
  <2>2. ClientsOK'
    BY <1>7 DEF PhoneLocked, Turn, ClientsOK, PhoneStates, Pages
  <2>3. StoreOK' /\ MemoryOK' /\ FramesOK' /\ HistoryOK'
    BY <1>7 DEF PhoneLocked, OnlyClients, store, memory, frames, history, StoreOK,
       MemoryOK, FramesOK, HistoryOK
  <2>4. QED
    BY <2>1, <2>2, <2>3
<1>8. CASE PhoneIgnores(p)
  <2>1. NetOK'
    BY <1>8, IgnoreType DEF PhoneIgnores
  <2>2. StoreOK' /\ MemoryOK' /\ FramesOK' /\ ClientsOK' /\ HistoryOK'
    BY <1>8 DEF PhoneIgnores, OnlyClients, store, memory, frames, clients, history,
       StoreOK, MemoryOK, FramesOK, ClientsOK, HistoryOK
  <2>3. QED
    BY <2>1, <2>2
<1>9. CASE PhoneLosesConnection(p)
  <2>1. NetOK'
    BY <1>9, UnlinkType DEF PhoneLosesConnection
  <2>2. ClientsOK'
    BY <1>9 DEF PhoneLosesConnection, Turn, ClientsOK, PhoneStates, Pages
  <2>3. StoreOK' /\ MemoryOK' /\ FramesOK' /\ HistoryOK'
    BY <1>9 DEF PhoneLosesConnection, OnlyClients, store, memory, frames, history,
       StoreOK, MemoryOK, FramesOK, HistoryOK
  <2>4. QED
    BY <2>1, <2>2, <2>3
<1>10. CASE PhoneListens(p)
  <2>1. NetOK'
    BY <1>10 DEF PhoneListens, net, NetOK
  <2>2. ClientsOK'
    BY <1>10 DEF PhoneListens, Turn, ClientsOK, PhoneStates, Pages
  <2>3. StoreOK' /\ MemoryOK' /\ FramesOK' /\ HistoryOK'
    BY <1>10 DEF PhoneListens, OnlyClients, store, memory, frames, history,
       StoreOK, MemoryOK, FramesOK, HistoryOK
  <2>4. QED
    BY <2>1, <2>2, <2>3
<1>11. QED
  BY <1>1, <1>2, <1>3, <1>4, <1>5, <1>6, <1>7, <1>8, <1>9, <1>10

-----------------------------------------------------------------------------
\* Every reachable state is well-typed, and every frame stands at an await of
\* its own client's handlers with the local value its continuation needs.
THEOREM TypeCorrect == Spec => []TypeOK
<1>1. Init => TypeOK
  <2> SUFFICES ASSUME Init PROVE TypeOK
    OBVIOUS
  <2>1. StoreOK /\ MemoryOK
    BY NewRegistryType DEF Init, StoreOK, MemoryOK, Sessionlike, Rows, CreatedRow
  <2>2. FramesOK
    BY DEF Init, FramesOK, FrameFits, Values
  <2>3. NetOK
    BY MessageTypes DEF Init, NetOK
  <2>4. ClientsOK /\ HistoryOK
    BY CrashBound DEF Init, ClientsOK, HistoryOK, CliStates, PhoneStates, Phases, Pages
  <2>5. QED
    BY <2>1, <2>2, <2>3, <2>4 DEF TypeOK
<1>2. TypeOK /\ [Next]_vars => TypeOK'
  <2> SUFFICES ASSUME TypeOK, [Next]_vars PROVE TypeOK'
    OBVIOUS
  <2>1. CASE CliHandler
    <3>1. CASE HelloGetState \/ HelloSecret \/ HelloBind
      BY <3>1, CliHelloType
    <3>2. CASE Reject(Cli)
      BY <3>2, RejectType, SocketFacts
    <3>3. CASE SubmitSelect \/ SubmitAttempt \/ SubmitInvalid \/ LockedDestroy
                 \/ LockedSend \/ SubmitValid
      BY <3>3, CodeSubmitType
    <3>4. CASE (\E s \in Sessions : Commit(s)) \/ Promote \/ Destroy \/ Forget
      BY <3>4, CompletePairingType
    <3>5. QED
      BY <2>1, <3>1, <3>2, <3>3, <3>4 DEF CliHandler
  <2>2. CASE CliReacts
    BY <2>2, CliReactsType DEF CliReacts
  <2>3. CASE \E p \in Phones : PhoneHandler(p)
    BY <2>3, PhoneClaimType, PublicKeyType, RejectType, SocketFacts DEF PhoneHandler
  <2>4. CASE \E p \in Phones : PhoneReacts(p)
    BY <2>4, PhoneType DEF PhoneReacts
  <2>5. CASE \E k \in Sockets : CloseHandler(k)
    BY <2>5, CloseType DEF CloseHandler
  <2>6. CASE Users
    BY <2>6, CliReactsType, CliSubmitType, PhoneType DEF Users
  <2>7. CASE Faults
    BY <2>7, FaultType, CliReactsType, PhoneType DEF Faults
  <2>8. CASE UNCHANGED vars
    BY <2>8 DEF vars, store, memory, frames, net, clients, history, TypeOK,
       StoreOK, MemoryOK, FramesOK, NetOK, ClientsOK, HistoryOK
  <2>9. QED
    BY <2>1, <2>2, <2>3, <2>4, <2>5, <2>6, <2>7, <2>8 DEF Next
<1>3. QED
  BY <1>1, <1>2, PTL DEF Spec

-----------------------------------------------------------------------------
\* One claim

\* An answer that only a claimant gets is on its way.
Told(q) == \E i \in 1..Len(q) : q[i].type \in {"phone_claim_ack", "paired"}

OnFile(r, p) == r.phoneByPairing = p \/ \E s \in Sessions : r.phoneBySession[s] = p

KeyInUse(p) == \/ up[p].type = "public_key" \/ keys = p
               \/ pc[Cli] = "commit" /\ loc[Cli] = p
               \/ \E s \in Sessions : sessions[s].key = p

Past(page) == page \in {"keygen", "waiting", "code", "starting", "connected"}

Vouched(p) == \/ Past(phone[p].page) \/ Told(down[p]) \/ pc[p] = "claim_bind"
              \/ OnFile(reg, p) \/ KeyInUse(p)

ClaimInv == /\ row.state = "pending" => claimants = {}
            /\ \A p, q \in claimants : p = q
            /\ \A p \in Phones : Vouched(p) => p \in claimants

\* The strengthening implies the property.
LEMMA ClaimInvSuffices == ClaimInv => SingleClaim
  BY DEF ClaimInv, SingleClaim, Vouched, Admitted, Past, Told, OnFile, KeyInUse

-----------------------------------------------------------------------------
\* What the messages of a step tell a phone

\* Reading a message tells nothing new.
LEMMA ToldTail ==
  ASSUME NEW q \in Seq(DownMsgs), q # << >>, Told(Tail(q))
  PROVE  Told(q)
<1>1. PICK i \in 1..Len(Tail(q)) : Tail(q)[i].type \in {"phone_claim_ack", "paired"}
  BY DEF Told
<1>2. i + 1 \in 1..Len(q) /\ Tail(q)[i] = q[i + 1]
  BY <1>1
<1>3. QED
  BY <1>1, <1>2 DEF Told

\* A message at the head of the queue is on its way.
LEMMA ToldHead ==
  ASSUME NEW q \in Seq(DownMsgs), q # << >>,
         Head(q).type \in {"phone_claim_ack", "paired"}
  PROVE  Told(q)
<1>1. 1 \in 1..Len(q) /\ Head(q) = q[1]
  OBVIOUS
<1>2. QED
  BY <1>1 DEF Told

\* An empty queue tells nothing.
LEMMA ToldNothing == ~Told(<< >>)
  BY DEF Told

\* A queue tells what its two parts tell.
LEMMA ToldConcat ==
  ASSUME NEW q \in Seq(DownMsgs), NEW ms \in Seq(DownMsgs), Told(q \o ms)
  PROVE  Told(q) \/ Told(ms)
<1>1. PICK i \in 1..Len(q \o ms) : (q \o ms)[i].type \in {"phone_claim_ack", "paired"}
  BY DEF Told
<1>2. CASE i <= Len(q)
  <2>1. i \in 1..Len(q) /\ (q \o ms)[i] = q[i]
    BY <1>1, <1>2
  <2>2. QED
    BY <1>1, <2>1 DEF Told
<1>3. CASE i > Len(q)
  <2>1. i - Len(q) \in 1..Len(ms) /\ (q \o ms)[i] = ms[i - Len(q)]
    BY <1>1, <1>3
  <2>2. QED
    BY <1>1, <2>1 DEF Told
<1>4. QED
  BY <1>1, <1>2, <1>3

\* One message tells what its type says.
LEMMA ToldSingle ==
  ASSUME NEW m \in DownMsgs
  PROVE  Told(<<m>>) => m.type \in {"phone_claim_ack", "paired"}
<1>1. <<m>> \in Seq(DownMsgs) /\ Len(<<m>>) = 1 /\ <<m>>[1] = m
  OBVIOUS
<1>2. QED
  BY <1>1 DEF Told

\* Sending one message tells only its recipient, and only if the message is an answer.
LEMMA PostTellsOne ==
  ASSUME NEW d \in [Sockets -> Seq(DownMsgs)], NEW k, NEW m \in DownMsgs,
         NEW p \in Phones, Told(Post(d, k, <<m>>)[p])
  PROVE  Told(d[p]) \/ (p = k /\ m.type \in {"phone_claim_ack", "paired"})
<1>1. CASE Post(d, k, <<m>>)[p] = d[p]
  BY <1>1
<1>2. CASE p = k /\ Post(d, k, <<m>>)[p] = d[p] \o <<m>>
  <2>1. d[p] \in Seq(DownMsgs) /\ <<m>> \in Seq(DownMsgs)
    BY SocketFacts
  <2>2. QED
    BY <1>2, <2>1, ToldConcat, ToldSingle
<1>3. QED
  BY <1>1, <1>2, SocketFacts DEF Post

\* Sending one message and the close frame after it.
LEMMA PostTellsTwo ==
  ASSUME NEW d \in [Sockets -> Seq(DownMsgs)], NEW k, NEW m \in DownMsgs,
         NEW p \in Phones, Told(Post(d, k, <<m, Close>>)[p])
  PROVE  Told(d[p]) \/ (p = k /\ m.type \in {"phone_claim_ack", "paired"})
<1>1. CASE Post(d, k, <<m, Close>>)[p] = d[p]
  BY <1>1
<1>2. CASE p = k /\ Post(d, k, <<m, Close>>)[p] = d[p] \o <<m, Close>>
  <2>1. d[p] \in Seq(DownMsgs) /\ <<m>> \in Seq(DownMsgs)
        /\ <<Close>> \in Seq(DownMsgs)
    BY SocketFacts, MessageTypes
  <2>2. <<m, Close>> = <<m>> \o <<Close>> /\ <<m, Close>> \in Seq(DownMsgs)
    BY MessageTypes
  <2>3. Close.type = "close"
    BY DEF Close, Note, Msg
  <2>4. ~Told(<<Close>>)
    BY <2>3, ToldSingle, MessageTypes
  <2>5. Told(<<m, Close>>) => Told(<<m>>)
    BY <2>1, <2>2, <2>4, ToldConcat
  <2>6. Told(d[p]) \/ Told(<<m, Close>>)
    BY <1>2, <2>1, <2>2, ToldConcat
  <2>7. QED
    BY <1>2, <2>5, <2>6, ToldSingle
<1>3. QED
  BY <1>1, <1>2, SocketFacts DEF Post
-----------------------------------------------------------------------------
\* What a step of a handler does to its frame and to the registry

\* Only claim() leads to the registration, only a right code to completePairing.
LEMMA GotoKeeps ==
  ASSUME FramesOK, NEW k \in Sockets, NEW step, NEW v, Goto(k, step, v), NEW p \in Phones
  PROVE  /\ pc'[p] = "claim_bind" => pc[p] = "claim_bind" \/ (p = k /\ step = "claim_bind")
         /\ pc'[Cli] = "commit" => \/ pc[Cli] = "commit" /\ loc'[Cli] = loc[Cli]
                                   \/ k = Cli /\ step = "commit" /\ loc'[Cli] = v
  BY SocketFacts DEF FramesOK, Goto

\* A handler that returns does neither.
LEMMA DoneKeeps ==
  ASSUME FramesOK, NEW k \in Sockets, Done(k), NEW p \in Phones
  PROVE  /\ pc'[p] = "claim_bind" => pc[p] = "claim_bind"
         /\ pc'[Cli] = "commit" => pc[Cli] = "commit" /\ loc'[Cli] = loc[Cli]
  BY GotoKeeps DEF Done

\* pushCodeIfReady does neither.
LEMMA PushKeeps ==
  ASSUME FramesOK, NEW k \in Sockets, NEW r, NEW key, PushCodeIfReady(k, r, key),
         NEW p \in Phones
  PROVE  /\ pc'[p] = "claim_bind" => pc[p] = "claim_bind"
         /\ pc'[Cli] = "commit" => pc[Cli] = "commit" /\ loc'[Cli] = loc[Cli]
<1>1. CASE Done(k)
  BY <1>1, DoneKeeps
<1>2. CASE \E c \in Codes : Goto(k, "push_code", c)
  BY <1>2, GotoKeeps
<1>3. QED
  BY <1>1, <1>2 DEF PushCodeIfReady

\* A refusal does neither, and tells no phone that it claimed.
LEMMA RefuseKeeps ==
  ASSUME FramesOK, NetOK, NEW k \in Sockets, Refuse(k), NEW p \in Phones
  PROVE  /\ pc'[p] = "claim_bind" => pc[p] = "claim_bind"
         /\ pc'[Cli] = "commit" => pc[Cli] = "commit" /\ loc'[Cli] = loc[Cli]
         /\ Told(down'[p]) => Told(down[p])
<1>1. Note("error") \in DownMsgs /\ Note("error").type = "error"
  BY MessageTypes DEF Note, Msg
<1>2. Told(down'[p]) => Told(down[p])
  BY <1>1, PostTellsTwo DEF Refuse, NetOK
<1>3. QED
  BY <1>2, DoneKeeps DEF Refuse

\* The registry gains a phone by setPhoneForPairing only.
LEMMA RegistryKeeps ==
  ASSUME NEW r \in Registries, NEW p \in Phones
  PROVE  /\ ~OnFile(NewRegistry, p)
         /\ \A k \in Sockets :
               /\ OnFile(SetCliForPairing(r, k), p) => OnFile(r, p)
               /\ OnFile(SetPhoneForPairing(r, k), p) => OnFile(r, p) \/ p = k
               /\ OnFile(RemoveBySocket(r, k), p) => OnFile(r, p)
         /\ \A s \in Sessions :
               /\ OnFile(PromoteToSession(r, s), p) => OnFile(r, p)
               /\ OnFile(RemoveSession(r, s), p) => OnFile(r, p)
<1>1. ~OnFile(NewRegistry, p)
  BY SocketFacts DEF OnFile, NewRegistry
<1>2. ASSUME NEW k \in Sockets
      PROVE  /\ OnFile(SetCliForPairing(r, k), p) => OnFile(r, p)
             /\ OnFile(SetPhoneForPairing(r, k), p) => OnFile(r, p) \/ p = k
  BY DEF OnFile, SetCliForPairing, SetPhoneForPairing, Registries
<1>3. ASSUME NEW k \in Sockets, OnFile(RemoveBySocket(r, k), p)
      PROVE  OnFile(r, p)
  <2>1. p # None
    BY SocketFacts
  <2>2. ASSUME NEW s \in Sessions
        PROVE  /\ OnFile([r EXCEPT !.phoneBySession[s] = None], p) => OnFile(r, p)
               /\ OnFile([r EXCEPT !.cliBySession[s] = None], p) => OnFile(r, p)
    BY <2>1 DEF OnFile, Registries
  <2>3. ~InPairing(r, k) /\ (CliSessions(r, k) # {} \/ PhoneSessions(r, k) # {})
          => SessionOf(r, k) \in Sessions
    BY SessionOfFound
  <2>4. /\ OnFile([r EXCEPT !.phoneByPairing = None], p) => OnFile(r, p)
        /\ OnFile([r EXCEPT !.cliByPairing = None], p) => OnFile(r, p)
    BY <2>1 DEF OnFile, Registries
  <2>5. QED
    BY <1>3, <2>2, <2>3, <2>4 DEF RemoveBySocket, InPairing
<1>4. ASSUME NEW s \in Sessions
      PROVE  /\ OnFile(PromoteToSession(r, s), p) => OnFile(r, p)
             /\ OnFile(RemoveSession(r, s), p) => OnFile(r, p)
  BY SocketFacts DEF OnFile, PromoteToSession, CopyToSession, OrElse, RemoveSession,
     Registries
<1>5. QED
  BY <1>1, <1>2, <1>3, <1>4

-----------------------------------------------------------------------------
\* Preservation, one lemma per handler or client

\* A step that admits nobody and leaves no row pending that was not keeps ClaimInv.
LEMMA NobodyNew ==
  ASSUME ClaimInv, claimants' = claimants,
         row'.state = "pending" => row.state = "pending",
         \A p \in Phones : Vouched(p)' => Vouched(p)
  PROVE  ClaimInv'
  BY DEF ClaimInv

\* The steps of handleCliHello keep ClaimInv.
LEMMA CliHelloClaim ==
  ASSUME TypeOK, ClaimInv,
         HelloGetState \/ HelloSecret \/ HelloBind
  PROVE  ClaimInv'
<1> USE SocketFacts DEF TypeOK
<1>1. CASE HelloGetState
  <2>1. claimants' = claimants /\ (row'.state = "pending" => row.state = "pending")
    BY <1>1 DEF HelloGetState, OnlyStore
  <2>2. ASSUME NEW q \in Phones PROVE Vouched(q)' => Vouched(q)
    <3>1. /\ (Past(phone[q].page)' => Past(phone[q].page))
          /\ (Told(down[q])' => Told(down[q]))
          /\ (OnFile(reg, q)' => OnFile(reg, q))
      BY <1>1 DEF HelloGetState, OnlyStore, memory, clients, OnFile
    <3>2. pc'[q] = "claim_bind" => pc[q] = "claim_bind"
      BY <1>1, GotoKeeps DEF HelloGetState, OnlyStore
    <3>3. KeyInUse(q)' => KeyInUse(q)
      BY <1>1, GotoKeeps DEF HelloGetState, OnlyStore, memory, KeyInUse, Consume,
         NoMsg, Note, Msg
    <3>4. QED
      BY <3>1, <3>2, <3>3 DEF Vouched
  <2>3. QED
    BY <2>1, <2>2, NobodyNew
<1>2. CASE HelloSecret
  <2>1. claimants' = claimants /\ (row'.state = "pending" => row.state = "pending")
    BY <1>2 DEF HelloSecret, OnlyStore
  <2>2. ASSUME NEW q \in Phones PROVE Vouched(q)' => Vouched(q)
    <3>1. /\ (Past(phone[q].page)' => Past(phone[q].page))
          /\ (Told(down[q])' => Told(down[q]))
          /\ (OnFile(reg, q)' => OnFile(reg, q))
      BY <1>2 DEF HelloSecret, OnlyStore, memory, clients, OnFile
    <3>2. pc'[q] = "claim_bind" => pc[q] = "claim_bind"
      BY <1>2, GotoKeeps DEF HelloSecret, OnlyStore
    <3>3. KeyInUse(q)' => KeyInUse(q)
      BY <1>2, GotoKeeps DEF HelloSecret, OnlyStore, memory, KeyInUse
    <3>4. QED
      BY <3>1, <3>2, <3>3 DEF Vouched
  <2>3. QED
    BY <2>1, <2>2, NobodyNew
<1>3. CASE HelloBind
  <2>1. claimants' = claimants /\ row' = row
    BY <1>3 DEF HelloBind, store, history
  <2>2. ASSUME NEW q \in Phones PROVE Vouched(q)' => Vouched(q)
    <3>1. phone' = phone /\ sessions' = sessions /\ keys' = keys /\ up' = up
      BY <1>3 DEF HelloBind, store, clients
    <3>2. CASE reg.cliByPairing # None
      <4>1. Refuse(Cli) /\ reg' = reg
        BY <1>3, <3>2 DEF HelloBind
      <4>2. QED
        BY <3>1, <4>1, RefuseKeeps DEF Vouched, KeyInUse
    <3>3. CASE reg.cliByPairing = None
      <4>1. /\ reg' = SetCliForPairing(reg, Cli) /\ Done(Cli)
            /\ down' = Post(down, Cli, <<Msg("cli_hello_ack", loc[Cli])>>)
        BY <1>3, <3>3 DEF HelloBind
      <4>2. Msg("cli_hello_ack", loc[Cli]) \in DownMsgs
            /\ Msg("cli_hello_ack", loc[Cli]).type = "cli_hello_ack"
        BY <1>3, MessageTypes DEF HelloBind, FramesOK, FrameFits, Msg
      <4>3. Told(down'[q]) => Told(down[q])
        BY <4>1, <4>2, PostTellsOne DEF NetOK
      <4>4. OnFile(reg', q) => OnFile(reg, q)
        BY <4>1, RegistryKeeps DEF MemoryOK
      <4>5. QED
        BY <3>1, <4>1, <4>3, <4>4, DoneKeeps DEF Vouched, KeyInUse
    <3>4. QED
      BY <3>2, <3>3
  <2>3. QED
    BY <2>1, <2>2, NobodyNew
<1>4. QED
  BY <1>1, <1>2, <1>3

\* The refusals keep ClaimInv.
LEMMA RejectClaim ==
  ASSUME TypeOK, ClaimInv, NEW k \in Sockets,
         Reject(k)
  PROVE  ClaimInv'
<1> USE SocketFacts DEF TypeOK
<1>1. CASE Reject(k)
  <2>1. claimants' = claimants /\ (row'.state = "pending" => row.state = "pending")
    BY <1>1 DEF Reject, store, history
  <2>2. ASSUME NEW q \in Phones PROVE Vouched(q)' => Vouched(q)
    <3>1. /\ (Past(phone[q].page)' => Past(phone[q].page))
          /\ (OnFile(reg, q)' => OnFile(reg, q))
      BY <1>1 DEF Reject, memory, clients, OnFile
    <3>2. Told(down[q])' => Told(down[q])
      BY <1>1, RefuseKeeps DEF Reject
    <3>3. pc'[q] = "claim_bind" => pc[q] = "claim_bind"
      BY <1>1, RefuseKeeps DEF Reject
    <3>4. KeyInUse(q)' => KeyInUse(q)
      BY <1>1, RefuseKeeps DEF Reject, store, memory, KeyInUse
    <3>5. QED
      BY <3>1, <3>2, <3>3, <3>4 DEF Vouched
  <2>3. QED
    BY <2>1, <2>2, NobodyNew
<1>2. QED
  BY <1>1

\* The steps of handlePhoneClaim keep ClaimInv.
LEMMA TakeClaim ==
  ASSUME TypeOK, ClaimInv, NEW p \in Phones,
         ClaimGetState(p) \/ ClaimSelect(p) \/ ClaimUpdate(p) \/ ClaimBind(p)
  PROVE  ClaimInv'
<1> USE SocketFacts DEF TypeOK
<1>1. CASE ClaimGetState(p)
  <2>1. claimants' = claimants /\ (row'.state = "pending" => row.state = "pending")
    BY <1>1 DEF ClaimGetState, OnlyStore
  <2>2. ASSUME NEW q \in Phones PROVE Vouched(q)' => Vouched(q)
    <3>1. /\ (Past(phone[q].page)' => Past(phone[q].page))
          /\ (Told(down[q])' => Told(down[q]))
          /\ (OnFile(reg, q)' => OnFile(reg, q))
      BY <1>1 DEF ClaimGetState, OnlyStore, memory, clients, OnFile
    <3>2. pc'[q] = "claim_bind" => pc[q] = "claim_bind"
      BY <1>1, GotoKeeps DEF ClaimGetState, OnlyStore
    <3>3. KeyInUse(q)' => KeyInUse(q)
      BY <1>1, GotoKeeps DEF ClaimGetState, OnlyStore, memory, KeyInUse, Consume,
         NoMsg, Note, Msg
    <3>4. QED
      BY <3>1, <3>2, <3>3 DEF Vouched
  <2>3. QED
    BY <2>1, <2>2, NobodyNew
<1>2. CASE ClaimSelect(p)
  <2>1. claimants' = claimants /\ (row'.state = "pending" => row.state = "pending")
    BY <1>2 DEF ClaimSelect, OnlyStore
  <2>2. ASSUME NEW q \in Phones PROVE Vouched(q)' => Vouched(q)
    <3>1. /\ (Past(phone[q].page)' => Past(phone[q].page))
          /\ (Told(down[q])' => Told(down[q]))
          /\ (OnFile(reg, q)' => OnFile(reg, q))
      BY <1>2 DEF ClaimSelect, OnlyStore, memory, clients, OnFile
    <3>2. pc'[q] = "claim_bind" => pc[q] = "claim_bind"
      BY <1>2, GotoKeeps DEF ClaimSelect, OnlyStore
    <3>3. KeyInUse(q)' => KeyInUse(q)
      BY <1>2, GotoKeeps DEF ClaimSelect, OnlyStore, memory, KeyInUse
    <3>4. QED
      BY <3>1, <3>2, <3>3 DEF Vouched
  <2>3. QED
    BY <2>1, <2>2, NobodyNew
<1>3. CASE ClaimUpdate(p)
  <2>1. ASSUME NEW q \in Phones, Vouched(q)' PROVE Vouched(q) \/ q \in claimants'
    <3>1. pc'[q] = "claim_bind" => pc[q] = "claim_bind" \/ q \in claimants'
      BY <1>3, GotoKeeps DEF ClaimUpdate
    <3>2. /\ (Past(phone[q].page)' => Past(phone[q].page))
          /\ (Told(down[q])' => Told(down[q]))
          /\ (OnFile(reg, q)' => OnFile(reg, q))
      BY <1>3 DEF ClaimUpdate, OnlyStore, memory, clients, OnFile
    <3>3. KeyInUse(q)' => KeyInUse(q)
      BY <1>3, GotoKeeps DEF ClaimUpdate, OnlyStore, memory, KeyInUse
    <3>4. QED
      BY <2>1, <3>1, <3>2, <3>3 DEF Vouched
  <2>2. CASE ClaimSucceeds(row)
    <3>1. claimants = {}
      BY <2>2 DEF ClaimSucceeds, ClaimInv
    <3>2. claimants' = {p} /\ row'.state = "claimed"
      BY <1>3, <2>2, <3>1 DEF ClaimUpdate, ClaimedRow, StoreOK, Rows
    <3>3. QED
      BY <2>1, <3>1, <3>2 DEF ClaimInv
  <2>3. CASE ~ClaimSucceeds(row)
    <3>1. claimants' = claimants /\ row' = row
      BY <1>3, <2>3 DEF ClaimUpdate
    <3>2. QED
      BY <2>1, <3>1 DEF ClaimInv
  <2>4. QED
    BY <2>2, <2>3
<1>4. CASE ClaimBind(p)
  <2>1. claimants' = claimants /\ row' = row
    BY <1>4 DEF ClaimBind, store, history
  <2>2. ASSUME NEW q \in Phones PROVE Vouched(q)' => Vouched(q)
    <3>1. phone' = phone /\ sessions' = sessions /\ keys' = keys /\ up' = up
      BY <1>4 DEF ClaimBind, store, clients
    <3>2. CASE reg.phoneByPairing # None
      <4>1. Refuse(p) /\ reg' = reg
        BY <1>4, <3>2 DEF ClaimBind
      <4>2. QED
        BY <3>1, <4>1, RefuseKeeps DEF Vouched, KeyInUse
    <3>3. CASE reg.phoneByPairing = None
      <4> DEFINE told == Post(down, p, <<Note("phone_claim_ack")>>)
      <4>1. /\ reg' = SetPhoneForPairing(reg, p) /\ PushCodeIfReady(p, reg', keys)
            /\ down' = Post(told, reg.cliByPairing, <<Note("phone_claimed")>>)
            /\ pc[p] = "claim_bind"
        BY <1>4, <3>3 DEF ClaimBind
      <4>2. told \in [Sockets -> Seq(DownMsgs)]
        BY PostOne, MessageTypes DEF NetOK
      <4>3. Told(down'[q]) => Told(told[q])
        <5>1. Note("phone_claimed") \in DownMsgs /\ Note("phone_claimed").type = "phone_claimed"
          BY MessageTypes DEF Note, Msg
        <5> HIDE DEF told
        <5>2. QED
          BY <4>1, <4>2, <5>1, PostTellsOne
      <4>4. Told(told[q]) => Told(down[q]) \/ q = p
        BY PostTellsOne, MessageTypes DEF NetOK
      <4>5. OnFile(reg', q) => OnFile(reg, q) \/ q = p
        BY <4>1, RegistryKeeps DEF MemoryOK
      <4>6. KeyInUse(q)' => KeyInUse(q)
        BY <3>1, <4>1, PushKeeps DEF KeyInUse
      <4>7. QED
        BY <3>1, <4>1, <4>3, <4>4, <4>5, <4>6, PushKeeps DEF Vouched
    <3>4. QED
      BY <3>2, <3>3
  <2>3. QED
    BY <2>1, <2>2, NobodyNew
<1>5. QED
  BY <1>1, <1>2, <1>3, <1>4

\* The steps of onPublicKey and generateAndPushCode keep ClaimInv.
LEMMA PublicKeyClaim ==
  ASSUME TypeOK, ClaimInv, NEW p \in Phones,
         PublicKey(p) \/ PushSetCode(p) \/ PushSend(p)
  PROVE  ClaimInv'
<1> USE SocketFacts DEF TypeOK
<1>1. CASE PublicKey(p)
  <2>1. claimants' = claimants /\ (row'.state = "pending" => row.state = "pending")
    BY <1>1 DEF PublicKey, store, history
  <2>2. ASSUME NEW q \in Phones PROVE Vouched(q)' => Vouched(q)
    <3>1. /\ (Past(phone[q].page)' => Past(phone[q].page))
          /\ (Told(down[q])' => Told(down[q]))
          /\ (OnFile(reg, q)' => OnFile(reg, q))
      BY <1>1 DEF PublicKey, clients, OnFile
    <3>2. pc'[q] = "claim_bind" => pc[q] = "claim_bind"
      BY <1>1, PushKeeps DEF PublicKey
    <3>3. KeyInUse(q)' => KeyInUse(q)
      BY <1>1, PushKeeps DEF PublicKey, store, KeyInUse, Consume, NoMsg, Note, Msg
    <3>4. QED
      BY <3>1, <3>2, <3>3 DEF Vouched
  <2>3. QED
    BY <2>1, <2>2, NobodyNew
<1>2. CASE PushSetCode(p)
  <2>1. claimants' = claimants /\ (row'.state = "pending" => row.state = "pending")
    BY <1>2 DEF PushSetCode, OnlyStore, WithCode, StoreOK, Rows
  <2>2. ASSUME NEW q \in Phones PROVE Vouched(q)' => Vouched(q)
    <3>1. /\ (Past(phone[q].page)' => Past(phone[q].page))
          /\ (Told(down[q])' => Told(down[q]))
          /\ (OnFile(reg, q)' => OnFile(reg, q))
      BY <1>2 DEF PushSetCode, OnlyStore, memory, clients, OnFile
    <3>2. pc'[q] = "claim_bind" => pc[q] = "claim_bind"
      BY <1>2, GotoKeeps, DoneKeeps DEF PushSetCode, OnlyStore
    <3>3. KeyInUse(q)' => KeyInUse(q)
      BY <1>2, GotoKeeps, DoneKeeps DEF PushSetCode, OnlyStore, memory, KeyInUse
    <3>4. QED
      BY <3>1, <3>2, <3>3 DEF Vouched
  <2>3. QED
    BY <2>1, <2>2, NobodyNew
<1>3. CASE PushSend(p)
  <2>1. claimants' = claimants /\ (row'.state = "pending" => row.state = "pending")
    BY <1>3 DEF PushSend, store, history
  <2>2. ASSUME NEW q \in Phones PROVE Vouched(q)' => Vouched(q)
    <3>1. /\ (Past(phone[q].page)' => Past(phone[q].page))
          /\ (OnFile(reg, q)' => OnFile(reg, q))
      BY <1>3 DEF PushSend, clients, OnFile
    <3>2. Told(down[q])' => Told(down[q])
      <4>1. loc[p] \in Codes
        BY <1>3 DEF PushSend, FramesOK, FrameFits
      <4>2. Msg("code_challenge", loc[p]) \in DownMsgs
            /\ Msg("code_challenge", loc[p]).type = "code_challenge"
        BY <4>1, MessageTypes DEF Msg
      <4>3. QED
        BY <1>3, <4>2, PostTellsOne DEF PushSend, NetOK
    <3>3. pc'[q] = "claim_bind" => pc[q] = "claim_bind"
      BY <1>3, DoneKeeps DEF PushSend
    <3>4. KeyInUse(q)' => KeyInUse(q)
      BY <1>3, DoneKeeps DEF PushSend, store, KeyInUse
    <3>5. QED
      BY <3>1, <3>2, <3>3, <3>4 DEF Vouched
  <2>3. QED
    BY <2>1, <2>2, NobodyNew
<1>4. QED
  BY <1>1, <1>2, <1>3

\* The steps of handleCodeSubmit keep ClaimInv.
LEMMA CodeSubmitClaim ==
  ASSUME TypeOK, ClaimInv,
         SubmitSelect \/ SubmitAttempt \/ SubmitInvalid \/ LockedDestroy
            \/ LockedSend \/ SubmitValid
  PROVE  ClaimInv'
<1> USE SocketFacts DEF TypeOK
<1>1. CASE SubmitSelect
  <2>1. claimants' = claimants /\ (row'.state = "pending" => row.state = "pending")
    BY <1>1 DEF SubmitSelect, OnlyStore
  <2>2. ASSUME NEW q \in Phones PROVE Vouched(q)' => Vouched(q)
    <3>1. /\ (Past(phone[q].page)' => Past(phone[q].page))
          /\ (Told(down[q])' => Told(down[q]))
          /\ (OnFile(reg, q)' => OnFile(reg, q))
      BY <1>1 DEF SubmitSelect, OnlyStore, memory, clients, OnFile
    <3>2. pc'[q] = "claim_bind" => pc[q] = "claim_bind"
      BY <1>1, GotoKeeps DEF SubmitSelect, OnlyStore
    <3>3. KeyInUse(q)' => KeyInUse(q)
      <4>1. pc'[Cli] # "commit"
        BY <1>1 DEF SubmitSelect, Goto, FramesOK, Verdict
      <4>2. QED
        BY <1>1, <4>1 DEF SubmitSelect, OnlyStore, memory, KeyInUse, Consume, NoMsg, Note, Msg,
           NetOK
    <3>4. QED
      BY <3>1, <3>2, <3>3 DEF Vouched
  <2>3. QED
    BY <2>1, <2>2, NobodyNew
<1>2. CASE SubmitAttempt
  <2>1. claimants' = claimants /\ (row'.state = "pending" => row.state = "pending")
    BY <1>2 DEF SubmitAttempt, OnlyStore, WithAttempt, StoreOK, Rows
  <2>2. ASSUME NEW q \in Phones PROVE Vouched(q)' => Vouched(q)
    <3>1. /\ (Past(phone[q].page)' => Past(phone[q].page))
          /\ (Told(down[q])' => Told(down[q]))
          /\ (OnFile(reg, q)' => OnFile(reg, q))
      BY <1>2 DEF SubmitAttempt, OnlyStore, memory, clients, OnFile
    <3>2. pc'[q] = "claim_bind" => pc[q] = "claim_bind"
      BY <1>2, GotoKeeps DEF SubmitAttempt, OnlyStore
    <3>3. KeyInUse(q)' => KeyInUse(q)
      BY <1>2, GotoKeeps DEF SubmitAttempt, OnlyStore, memory, KeyInUse
    <3>4. QED
      BY <3>1, <3>2, <3>3 DEF Vouched
  <2>3. QED
    BY <2>1, <2>2, NobodyNew
<1>3. CASE SubmitInvalid
  <2>1. claimants' = claimants /\ (row'.state = "pending" => row.state = "pending")
    BY <1>3 DEF SubmitInvalid, store, history
  <2>2. ASSUME NEW q \in Phones PROVE Vouched(q)' => Vouched(q)
    <3>1. /\ (Past(phone[q].page)' => Past(phone[q].page))
          /\ (OnFile(reg, q)' => OnFile(reg, q))
      BY <1>3 DEF SubmitInvalid, memory, clients, OnFile
    <3>2. Told(down[q])' => Told(down[q])
      <4>1. Note("code_invalid") \in DownMsgs /\ Note("code_invalid").type = "code_invalid"
        BY MessageTypes DEF Note, Msg
      <4>2. QED
        BY <1>3, <4>1, PostTellsOne DEF SubmitInvalid, NetOK
    <3>3. pc'[q] = "claim_bind" => pc[q] = "claim_bind"
      BY <1>3, DoneKeeps DEF SubmitInvalid
    <3>4. KeyInUse(q)' => KeyInUse(q)
      BY <1>3, DoneKeeps DEF SubmitInvalid, store, memory, KeyInUse
    <3>5. QED
      BY <3>1, <3>2, <3>3, <3>4 DEF Vouched
  <2>3. QED
    BY <2>1, <2>2, NobodyNew
<1>4. CASE LockedDestroy
  <2>1. claimants' = claimants /\ (row'.state = "pending" => row.state = "pending")
    BY <1>4 DEF LockedDestroy, OnlyStore, NoRow
  <2>2. ASSUME NEW q \in Phones PROVE Vouched(q)' => Vouched(q)
    <3>1. /\ (Past(phone[q].page)' => Past(phone[q].page))
          /\ (Told(down[q])' => Told(down[q]))
          /\ (OnFile(reg, q)' => OnFile(reg, q))
      BY <1>4 DEF LockedDestroy, OnlyStore, memory, clients, OnFile
    <3>2. pc'[q] = "claim_bind" => pc[q] = "claim_bind"
      BY <1>4, GotoKeeps DEF LockedDestroy, OnlyStore
    <3>3. KeyInUse(q)' => KeyInUse(q)
      BY <1>4, GotoKeeps DEF LockedDestroy, OnlyStore, memory, KeyInUse
    <3>4. QED
      BY <3>1, <3>2, <3>3 DEF Vouched
  <2>3. QED
    BY <2>1, <2>2, NobodyNew
<1>5. CASE LockedSend
  <2>1. claimants' = claimants /\ (row'.state = "pending" => row.state = "pending")
    BY <1>5 DEF LockedSend, store, history
  <2>2. ASSUME NEW q \in Phones PROVE Vouched(q)' => Vouched(q)
    <3>1. /\ (Past(phone[q].page)' => Past(phone[q].page))
          /\ (OnFile(reg, q)' => OnFile(reg, q))
      BY <1>5 DEF LockedSend, memory, clients, OnFile
    <3>2. Told(down[q])' => Told(down[q])
      <4>1. Note("code_locked") \in DownMsgs /\ Note("code_locked").type = "code_locked"
        BY MessageTypes DEF Note, Msg
      <4>2. Post(down, Cli, <<Note("code_locked"), Close>>) \in [Sockets -> Seq(DownMsgs)]
        BY <4>1, PostTwo, MessageTypes DEF NetOK
      <4>3. QED
        <5> DEFINE first == Post(down, Cli, <<Note("code_locked"), Close>>)
        <5>1. Told(first[q]) => Told(down[q])
          BY <4>1, PostTellsTwo DEF NetOK
        <5>2. down' = Post(first, reg.phoneByPairing, <<Note("code_locked"), Close>>)
          BY <1>5 DEF LockedSend
        <5>3. first \in [Sockets -> Seq(DownMsgs)]
          BY <4>2
        <5> HIDE DEF first
        <5>4. Told(down'[q]) => Told(first[q])
          BY <4>1, <5>2, <5>3, PostTellsTwo
        <5>5. QED
          BY <5>1, <5>4
    <3>3. pc'[q] = "claim_bind" => pc[q] = "claim_bind"
      BY <1>5, DoneKeeps DEF LockedSend
    <3>4. KeyInUse(q)' => KeyInUse(q)
      BY <1>5, DoneKeeps DEF LockedSend, store, memory, KeyInUse
    <3>5. QED
      BY <3>1, <3>2, <3>3, <3>4 DEF Vouched
  <2>3. QED
    BY <2>1, <2>2, NobodyNew
<1>6. CASE SubmitValid
  <2>1. claimants' = claimants /\ (row'.state = "pending" => row.state = "pending")
    BY <1>6 DEF SubmitValid, store, history
  <2>2. ASSUME NEW q \in Phones PROVE Vouched(q)' => Vouched(q)
    <3>1. /\ (Past(phone[q].page)' => Past(phone[q].page))
          /\ (OnFile(reg, q)' => OnFile(reg, q))
      BY <1>6 DEF SubmitValid, memory, clients, OnFile
    <3>2. Told(down[q])' => Told(down[q])
      <4>1. Note("code_valid") \in DownMsgs /\ Note("code_valid").type = "code_valid"
        BY MessageTypes DEF Note, Msg
      <4>2. Post(down, Cli, <<Note("code_valid")>>) \in [Sockets -> Seq(DownMsgs)]
        BY <4>1, PostOne DEF NetOK
      <4>3. QED
        <5> DEFINE first == Post(down, Cli, <<Note("code_valid")>>)
        <5>1. Told(first[q]) => Told(down[q])
          BY <4>1, PostTellsOne DEF NetOK
        <5>2. down' = Post(first, reg.phoneByPairing, <<Note("code_valid")>>)
          BY <1>6 DEF SubmitValid
        <5>3. first \in [Sockets -> Seq(DownMsgs)]
          BY <4>2
        <5> HIDE DEF first
        <5>4. Told(down'[q]) => Told(first[q])
          BY <4>1, <5>2, <5>3, PostTellsOne
        <5>5. QED
          BY <5>1, <5>4
    <3>3. pc'[q] = "claim_bind" => pc[q] = "claim_bind"
      BY <1>6, GotoKeeps DEF SubmitValid
    <3>4. KeyInUse(q)' => KeyInUse(q)
      BY <1>6, GotoKeeps DEF SubmitValid, store, memory, KeyInUse
    <3>5. QED
      BY <3>1, <3>2, <3>3, <3>4 DEF Vouched
  <2>3. QED
    BY <2>1, <2>2, NobodyNew
<1>7. QED
  BY <1>1, <1>2, <1>3, <1>4, <1>5, <1>6

\* The steps of completePairing keep ClaimInv.
LEMMA CompletePairingClaim ==
  ASSUME TypeOK, ClaimInv,
         (\E s \in Sessions : Commit(s)) \/ Promote \/ Destroy \/ Forget
  PROVE  ClaimInv'
<1> USE SocketFacts DEF TypeOK
<1>1. CASE \E s \in Sessions : Commit(s)
  <2>1. claimants' = claimants /\ (row'.state = "pending" => row.state = "pending")
    BY <1>1 DEF Commit, OnlyStore
  <2>2. ASSUME NEW q \in Phones PROVE Vouched(q)' => Vouched(q)
    <3>1. /\ (Past(phone[q].page)' => Past(phone[q].page))
          /\ (Told(down[q])' => Told(down[q]))
          /\ (OnFile(reg, q)' => OnFile(reg, q))
      BY <1>1 DEF Commit, OnlyStore, memory, clients, OnFile
    <3>2. pc'[q] = "claim_bind" => pc[q] = "claim_bind"
      BY <1>1, GotoKeeps DEF Commit, OnlyStore
    <3>3. KeyInUse(q)' => KeyInUse(q)
      <4>1. PICK s \in Sessions : Commit(s)
        BY <1>1
      <4>2. pc'[Cli] # "commit"
        BY <4>1 DEF Commit, Goto, FramesOK
      <4>3. sessions' = [sessions EXCEPT ![s] = [status |-> "active", key |-> loc[Cli]]]
            /\ pc[Cli] = "commit"
        BY <4>1 DEF Commit
      <4>4. \A t \in Sessions : sessions'[t].key = q => sessions[t].key = q \/ loc[Cli] = q
        BY <4>3 DEF StoreOK
      <4>5. keys' = keys /\ up' = up
        BY <4>1 DEF Commit, OnlyStore, memory
      <4>6. QED
        BY <4>2, <4>3, <4>4, <4>5 DEF KeyInUse
    <3>4. QED
      BY <3>1, <3>2, <3>3 DEF Vouched
  <2>3. QED
    BY <2>1, <2>2, NobodyNew
<1>2. CASE Promote
  <2>1. claimants' = claimants /\ row' = row
    BY <1>2 DEF Promote, store, history
  <2>2. ASSUME NEW q \in Phones PROVE Vouched(q)' => Vouched(q)
    <3> DEFINE s == loc[Cli]
    <3> DEFINE toCli == Post(down, reg.cliByPairing, <<Paired(s, sessions[s].key)>>)
    <3>1. s \in Sessions
      BY <1>2 DEF Promote, FramesOK, FrameFits
    <3>2. Paired(s, sessions[s].key) \in DownMsgs /\ Msg("paired", s) \in DownMsgs
      BY <3>1, MessageTypes DEF StoreOK, Sessionlike
    <3>3. toCli \in [Sockets -> Seq(DownMsgs)]
      BY <3>2, PostOne DEF NetOK
    <3>4. Told(toCli[q]) => Told(down[q]) \/ q = reg.cliByPairing
      <4>1. \A k : \A m \in DownMsgs :
              Told(Post(down, k, <<m>>)[q]) => Told(down[q]) \/ q = k
        BY PostTellsOne DEF NetOK
      <4>2. QED
        BY <3>2, <4>1
    <3>5. down' = Post(toCli, reg.phoneByPairing, <<Msg("paired", s)>>)
      BY <1>2 DEF Promote
    <3>6. Told(down'[q]) => Told(toCli[q]) \/ q = reg.phoneByPairing
      <4> HIDE DEF toCli
      <4>1. \A k : \A m \in DownMsgs :
              Told(Post(toCli, k, <<m>>)[q]) => Told(toCli[q]) \/ q = k
        BY <3>3, PostTellsOne
      <4>2. QED
        BY <3>2, <3>5, <4>1
    <3>7. reg.cliByPairing # q
      BY DEF MemoryOK, Registries
    <3>8. OnFile(reg', q) => OnFile(reg, q)
      BY <1>2, <3>1, RegistryKeeps DEF Promote, MemoryOK
    <3>9. pc'[q] = "claim_bind" => pc[q] = "claim_bind"
      BY <1>2, GotoKeeps DEF Promote
    <3>10. KeyInUse(q)' => KeyInUse(q)
      BY <1>2, GotoKeeps DEF Promote, store, KeyInUse
    <3>11. phone' = phone
      BY <1>2 DEF Promote, clients
    <3>12. QED
      BY <3>4, <3>6, <3>7, <3>8, <3>9, <3>10, <3>11 DEF Vouched, OnFile
  <2>3. QED
    BY <2>1, <2>2, NobodyNew
<1>3. CASE Destroy
  <2>1. claimants' = claimants /\ (row'.state = "pending" => row.state = "pending")
    BY <1>3 DEF Destroy, OnlyStore, NoRow
  <2>2. ASSUME NEW q \in Phones PROVE Vouched(q)' => Vouched(q)
    <3>1. /\ (Past(phone[q].page)' => Past(phone[q].page))
          /\ (Told(down[q])' => Told(down[q]))
          /\ (OnFile(reg, q)' => OnFile(reg, q))
      BY <1>3 DEF Destroy, OnlyStore, memory, clients, OnFile
    <3>2. pc'[q] = "claim_bind" => pc[q] = "claim_bind"
      BY <1>3, GotoKeeps DEF Destroy, OnlyStore
    <3>3. KeyInUse(q)' => KeyInUse(q)
      BY <1>3, GotoKeeps DEF Destroy, OnlyStore, memory, KeyInUse
    <3>4. QED
      BY <3>1, <3>2, <3>3 DEF Vouched
  <2>3. QED
    BY <2>1, <2>2, NobodyNew
<1>4. CASE Forget
  <2>1. claimants' = claimants /\ (row'.state = "pending" => row.state = "pending")
    BY <1>4 DEF Forget, store, history
  <2>2. ASSUME NEW q \in Phones PROVE Vouched(q)' => Vouched(q)
    <3>1. /\ (Past(phone[q].page)' => Past(phone[q].page))
          /\ (Told(down[q])' => Told(down[q]))
          /\ (OnFile(reg, q)' => OnFile(reg, q))
      BY <1>4 DEF Forget, net, clients, OnFile
    <3>2. pc'[q] = "claim_bind" => pc[q] = "claim_bind"
      BY <1>4, DoneKeeps DEF Forget
    <3>3. KeyInUse(q)' => KeyInUse(q)
      BY <1>4, DoneKeeps, SocketFacts DEF Forget, store, net, KeyInUse
    <3>4. QED
      BY <3>1, <3>2, <3>3 DEF Vouched
  <2>3. QED
    BY <2>1, <2>2, NobodyNew
<1>5. QED
  BY <1>1, <1>2, <1>3, <1>4

\* The steps of handleSocketClose and endSession keep ClaimInv.
LEMMA CloseClaim ==
  ASSUME TypeOK, ClaimInv, NEW k \in Sockets,
         SocketClose(k) \/ EndUpdate(k) \/ EndNotify(k)
  PROVE  ClaimInv'
<1> USE SocketFacts DEF TypeOK
<1>1. CASE SocketClose(k)
  <2>1. claimants' = claimants /\ (row'.state = "pending" => row.state = "pending")
    BY <1>1 DEF SocketClose, store, history
  <2>2. ASSUME NEW q \in Phones PROVE Vouched(q)' => Vouched(q)
    <3>1. /\ (Past(phone[q].page)' => Past(phone[q].page))
          /\ (Told(down[q])' => Told(down[q]))
          /\ (pc'[q] = "claim_bind" => pc[q] = "claim_bind")
          /\ (KeyInUse(q)' => KeyInUse(q))
      BY <1>1 DEF SocketClose, store, clients, KeyInUse
    <3>2. OnFile(reg, q)' => OnFile(reg, q)
      BY <1>1, RegistryKeeps DEF SocketClose, MemoryOK
    <3>3. QED
      BY <3>1, <3>2 DEF Vouched
  <2>3. QED
    BY <2>1, <2>2, NobodyNew
<1>2. CASE EndUpdate(k)
  <2>1. claimants' = claimants /\ (row'.state = "pending" => row.state = "pending")
    BY <1>2 DEF EndUpdate, history
  <2>2. ASSUME NEW q \in Phones PROVE Vouched(q)' => Vouched(q)
    <3>1. /\ (Past(phone[q].page)' => Past(phone[q].page))
          /\ (Told(down[q])' => Told(down[q]))
          /\ (pc'[q] = "claim_bind" => pc[q] = "claim_bind")
          /\ (OnFile(reg, q)' => OnFile(reg, q))
      BY <1>2 DEF EndUpdate, memory, net, clients, OnFile
    <3>2. KeyInUse(q)' => KeyInUse(q)
      <4>1. \A t \in Sessions : sessions'[t].key = sessions[t].key
        BY <1>2 DEF EndUpdate, StoreOK, Sessionlike
      <4>2. QED
        BY <1>2, <4>1 DEF EndUpdate, memory, net, KeyInUse
    <3>3. QED
      BY <3>1, <3>2 DEF Vouched
  <2>3. QED
    BY <2>1, <2>2, NobodyNew
<1>3. CASE EndNotify(k)
  <2>1. claimants' = claimants /\ row' = row
    BY <1>3 DEF EndNotify, store, history
  <2>2. ASSUME NEW q \in Phones PROVE Vouched(q)' => Vouched(q)
    <3> DEFINE s == closing[k].session
    <3>1. s \in Sessions
      BY <1>3 DEF EndNotify, FramesOK, NotClosing
    <3>2. Msg("disconnect", s) \in DownMsgs /\ Msg("disconnect", s).type = "disconnect"
          /\ Close \in DownMsgs /\ Close.type = "close"
      BY <3>1, MessageTypes DEF Msg, Close, Note
    <3>3. PICK other, mine :
            down' = Post(Post(down, other, <<Msg("disconnect", s), Close>>), mine, <<Close>>)
      BY <1>3 DEF EndNotify
    <3> DEFINE first == Post(down, other, <<Msg("disconnect", s), Close>>)
    <3>4. first \in [Sockets -> Seq(DownMsgs)] /\ (Told(first[q]) => Told(down[q]))
      <4>1. first \in [Sockets -> Seq(DownMsgs)]
        BY <3>2, PostTwo DEF NetOK
      <4>2. \A m \in DownMsgs : m.type = "disconnect" =>
              (Told(Post(down, other, <<m, Close>>)[q]) => Told(down[q]))
        BY PostTellsTwo DEF NetOK
      <4>3. QED
        BY <3>2, <4>1, <4>2
    <3>5. Told(down'[q]) => Told(first[q])
      <4>1. down' = Post(first, mine, <<Close>>)
        BY <3>3
      <4> HIDE DEF first
      <4>2. QED
        BY <3>2, <3>4, <4>1, PostTellsOne
    <3>6. OnFile(reg', q) => OnFile(reg, q)
      BY <1>3, <3>1, RegistryKeeps DEF EndNotify, MemoryOK
    <3>7. /\ (KeyInUse(q)' => KeyInUse(q))
          /\ phone' = phone /\ pc' = pc
      BY <1>3 DEF EndNotify, store, clients, KeyInUse
    <3>8. QED
      BY <3>4, <3>5, <3>6, <3>7 DEF Vouched
  <2>3. QED
    BY <2>1, <2>2, NobodyNew
<1>4. QED
  BY <1>1, <1>2, <1>3

\* Appending a message (the close event of a broken socket) is concatenating it.
LEMMA AppendIsConcat ==
  ASSUME NEW T, NEW s \in Seq(T), NEW m \in T
  PROVE  Append(s, m) = s \o <<m>>
  OBVIOUS

\* The death of the backend and the expiry of the pairing keep ClaimInv.
LEMMA FaultClaim ==
  ASSUME TypeOK, ClaimInv,
         Crash \/ Expire
  PROVE  ClaimInv'
<1> USE SocketFacts DEF TypeOK
<1>1. CASE Crash
  <2>1. claimants' = claimants /\ row' = row
    BY <1>1 DEF Crash, store
  <2>2. ASSUME NEW q \in Phones PROVE Vouched(q)' => Vouched(q)
    <3>1. Told(down'[q]) => Told(down[q])
      <4>1. /\ down[q] \in Seq(DownMsgs) /\ <<Close>> \in Seq(DownMsgs)
            /\ Append(down[q], Close) = down[q] \o <<Close>>
        <5>1. down[q] \in Seq(DownMsgs) /\ Close \in DownMsgs
          BY MessageTypes DEF NetOK, Close
        <5>2. Append(down[q], Close) = down[q] \o <<Close>>
          BY <5>1, AppendIsConcat
        <5>3. QED
          BY <5>1, <5>2
      <4>2. ~Told(<<Close>>)
        BY ToldSingle, MessageTypes DEF Close, Note, Msg
      <4>3. down'[q] = down[q] \/ down'[q] = down[q] \o <<Close>>
        BY <1>1, <4>1 DEF Crash
      <4>4. Told(down[q] \o <<Close>>) => Told(down[q])
        BY <4>1, <4>2, ToldConcat
      <4>5. QED
        BY <4>3, <4>4
    <3>2. ~OnFile(reg', q)
      BY <1>1, RegistryKeeps DEF Crash, MemoryOK
    <3>3. pc'[q] = "idle"
      BY <1>1 DEF Crash
    <3>4. KeyInUse(q)' => KeyInUse(q)
      BY <1>1 DEF Crash, store, KeyInUse, NoMsg, Note, Msg
    <3>5. phone' = phone
      BY <1>1 DEF Crash, clients
    <3>6. QED
      BY <3>1, <3>2, <3>3, <3>4, <3>5 DEF Vouched
  <2>3. QED
    BY <2>1, <2>2, NobodyNew
<1>2. CASE Expire
  <2>1. claimants' = claimants /\ (row'.state = "pending" => row.state = "pending")
    BY <1>2 DEF Expire, history
  <2>2. ASSUME NEW q \in Phones PROVE Vouched(q)' => Vouched(q)
    <3>1. /\ (Past(phone[q].page)' => Past(phone[q].page))
          /\ (Told(down[q])' => Told(down[q]))
          /\ (pc'[q] = "claim_bind" => pc[q] = "claim_bind")
          /\ (OnFile(reg, q)' => OnFile(reg, q))
          /\ (KeyInUse(q)' => KeyInUse(q))
      BY <1>2 DEF Expire, memory, frames, net, clients, OnFile, KeyInUse
    <3>2. QED
      BY <3>1 DEF Vouched
  <2>3. QED
    BY <2>1, <2>2, NobodyNew
<1>3. QED
  BY <1>1, <1>2

\* What the CLI does keeps ClaimInv: it touches no phone, no phone's connection and
\* nothing of the backend.
LEMMA CliReactsClaim ==
  ASSUME TypeOK, ClaimInv,
         CliConnect \/ (\E c \in Codes : CliSubmit(c)) \/ CliReacts
            \/ CliExit \/ CliLosesConnection
  PROVE  ClaimInv'
<1>1. OnlyClients /\ phone' = phone
  BY DEF CliReacts, CliConnect, CliSubmit, CliListen, CliStartControl, CliPhoneClaimed,
     CliCodeInvalid, CliPaired, CliGivesUp, CliMissesClose, CliIgnores, CliExit,
     CliLosesConnection, clients
<1>2. \/ \E m : Opens(Cli, m) \/ (Sends(Cli, m) /\ down' = down)
      \/ Reads(Cli) \/ Unlinks(Cli) \/ Breaks(Cli) \/ UNCHANGED net
  <2>1. CASE CliReacts
    BY <2>1 DEF CliReacts, CliListen, CliStartControl, CliPhoneClaimed, CliCodeInvalid,
       CliPaired, CliGivesUp, CliMissesClose, CliIgnores
  <2>2. CASE CliConnect \/ (\E c \in Codes : CliSubmit(c)) \/ CliExit \/ CliLosesConnection
    BY <2>2 DEF CliConnect, CliSubmit, CliExit, CliLosesConnection
  <2>3. QED
    BY <2>1, <2>2
<1>3. ASSUME NEW q \in Phones PROVE Vouched(q)' => Vouched(q)
  <2>1. down'[q] = down[q]
    BY <1>2, SocketFacts DEF TypeOK, NetOK, Opens, Reads, Unlinks, Breaks, net
  <2>2. up'[q] = up[q]
    BY <1>2, SocketFacts DEF TypeOK, NetOK, Opens, Sends, Reads, Unlinks, Breaks, net
  <2>3. UNCHANGED <<sessions, reg, keys, pc, loc, phone>>
    BY <1>1 DEF OnlyClients, store, memory, frames
  <2>4. QED
    BY <2>1, <2>2, <2>3 DEF Vouched, OnFile, KeyInUse
<1>4. claimants' = claimants /\ row' = row
  BY <1>1 DEF OnlyClients, history, store
<1>5. QED
  BY <1>3, <1>4, NobodyNew

\* What a phone's page does keeps ClaimInv.
LEMMA PageClaim ==
  ASSUME TypeOK, ClaimInv, NEW p \in Phones,
         PhoneOpens(p) \/ PhoneClaimed(p) \/ PhoneSendsKey(p) \/ PhoneCode(p)
            \/ PhonePaired(p) \/ PhoneEnds(p) \/ PhoneLocked(p)
            \/ PhoneListens(p) \/ PhoneIgnores(p) \/ PhoneLosesConnection(p)
  PROVE  ClaimInv'
<1> USE SocketFacts DEF TypeOK
<1>1. CASE PhoneOpens(p)
  <2>1. claimants' = claimants /\ (row'.state = "pending" => row.state = "pending")
    BY <1>1 DEF PhoneOpens, OnlyClients, store, history
  <2>2. ASSUME NEW q \in Phones PROVE Vouched(q)' => Vouched(q)
    <3>1. /\ (pc'[q] = "claim_bind" => pc[q] = "claim_bind")
          /\ (OnFile(reg, q)' => OnFile(reg, q))
      BY <1>1 DEF PhoneOpens, OnlyClients, memory, frames, OnFile
    <3>2. Past(phone[q].page)' => Past(phone[q].page)
      BY <1>1 DEF PhoneOpens, OnlyClients, Turn, Past, ClientsOK
    <3>3. Told(down[q])' => Told(down[q])
      BY <1>1 DEF PhoneOpens, OnlyClients, Opens
    <3>4. KeyInUse(q)' => KeyInUse(q)
      BY <1>1 DEF PhoneOpens, OnlyClients, store, memory, frames, KeyInUse, Opens,
         Note, Msg, NetOK
    <3>5. QED
      BY <3>1, <3>2, <3>3, <3>4 DEF Vouched
  <2>3. QED
    BY <2>1, <2>2, NobodyNew
<1>2. CASE PhoneClaimed(p)
  <2>1. claimants' = claimants /\ row' = row
    BY <1>2 DEF PhoneClaimed, OnlyClients, store, history
  <2>2. ASSUME NEW q \in Phones PROVE Vouched(q)' => Vouched(q)
    <3>1. /\ (pc'[q] = "claim_bind" => pc[q] = "claim_bind")
          /\ (OnFile(reg, q)' => OnFile(reg, q))
      BY <1>2 DEF PhoneClaimed, OnlyClients, memory, frames, OnFile
    <3>2. down[p] \in Seq(DownMsgs) /\ down[p] # << >> /\ Told(down[p])
      BY <1>2, ToldHead DEF PhoneClaimed, Arrives, NetOK
    <3>3. Past(phone[q].page)' => Past(phone[q].page) \/ q = p
      BY <1>2 DEF PhoneClaimed, Turn, ClientsOK
    <3>4. Told(down[q])' => Told(down[q])
      BY <1>2, <3>2, ToldTail DEF PhoneClaimed, Reads, NetOK
    <3>5. KeyInUse(q)' => KeyInUse(q)
      BY <1>2 DEF PhoneClaimed, Reads, OnlyClients, store, memory, frames, KeyInUse
    <3>6. QED
      BY <3>1, <3>2, <3>3, <3>4, <3>5 DEF Vouched
  <2>3. QED
    BY <2>1, <2>2, NobodyNew
<1>3. CASE PhoneSendsKey(p)
  <2>1. claimants' = claimants /\ row' = row
    BY <1>3 DEF PhoneSendsKey, OnlyClients, store, history
  <2>2. ASSUME NEW q \in Phones PROVE Vouched(q)' => Vouched(q)
    <3>1. /\ (pc'[q] = "claim_bind" => pc[q] = "claim_bind")
          /\ (OnFile(reg, q)' => OnFile(reg, q))
      BY <1>3 DEF PhoneSendsKey, OnlyClients, memory, frames, OnFile
    <3>2. Past(phone[p].page)
      BY <1>3 DEF PhoneSendsKey, Past
    <3>3. Past(phone[q].page)' => Past(phone[q].page) \/ q = p
      BY <1>3 DEF PhoneSendsKey, Turn, ClientsOK
    <3>4. down' = down
      BY <1>3 DEF PhoneSendsKey
    <3>5. KeyInUse(q)' => KeyInUse(q) \/ q = p
      BY <1>3 DEF PhoneSendsKey, Sends, OnlyClients, store, memory, frames, KeyInUse, NetOK
    <3>6. QED
      BY <3>1, <3>2, <3>3, <3>4, <3>5 DEF Vouched
  <2>3. QED
    BY <2>1, <2>2, NobodyNew
<1>4. CASE PhoneCode(p)
  <2>1. claimants' = claimants /\ (row'.state = "pending" => row.state = "pending")
    BY <1>4 DEF PhoneCode, OnlyClients, store, history
  <2>2. ASSUME NEW q \in Phones PROVE Vouched(q)' => Vouched(q)
    <3>1. /\ (pc'[q] = "claim_bind" => pc[q] = "claim_bind")
          /\ (OnFile(reg, q)' => OnFile(reg, q))
      BY <1>4 DEF PhoneCode, OnlyClients, memory, frames, OnFile
    <3>2. Past(phone[q].page)' => Past(phone[q].page)
      BY <1>4 DEF PhoneCode, OnlyClients, Past, ClientsOK
    <3>3. Told(down[q])' => Told(down[q])
      BY <1>4, ToldTail DEF PhoneCode, OnlyClients, Reads, Arrives, NetOK
    <3>4. KeyInUse(q)' => KeyInUse(q)
      BY <1>4 DEF PhoneCode, OnlyClients, store, memory, frames, Reads, KeyInUse
    <3>5. QED
      BY <3>1, <3>2, <3>3, <3>4 DEF Vouched
  <2>3. QED
    BY <2>1, <2>2, NobodyNew
<1>5. CASE PhonePaired(p)
  <2>1. claimants' = claimants /\ row' = row
    BY <1>5 DEF PhonePaired, OnlyClients, store, history
  <2>2. ASSUME NEW q \in Phones PROVE Vouched(q)' => Vouched(q)
    <3>1. /\ (pc'[q] = "claim_bind" => pc[q] = "claim_bind")
          /\ (OnFile(reg, q)' => OnFile(reg, q))
      BY <1>5 DEF PhonePaired, OnlyClients, memory, frames, OnFile
    <3>2. down[p] \in Seq(DownMsgs) /\ down[p] # << >> /\ Told(down[p])
      BY <1>5, ToldHead DEF PhonePaired, Arrives, NetOK
    <3>3. Past(phone[q].page)' => Past(phone[q].page) \/ q = p
      BY <1>5 DEF PhonePaired, Turn, ClientsOK
    <3>4. Told(down[q])' => Told(down[q])
      BY <1>5, <3>2, ToldTail DEF PhonePaired, Reads, NetOK
    <3>5. KeyInUse(q)' => KeyInUse(q)
      BY <1>5 DEF PhonePaired, Reads, OnlyClients, store, memory, frames, KeyInUse
    <3>6. QED
      BY <3>1, <3>2, <3>3, <3>4, <3>5 DEF Vouched
  <2>3. QED
    BY <2>1, <2>2, NobodyNew
<1>6. CASE PhoneEnds(p)
  <2>1. claimants' = claimants /\ (row'.state = "pending" => row.state = "pending")
    BY <1>6 DEF PhoneEnds, OnlyClients, store, history
  <2>2. ASSUME NEW q \in Phones PROVE Vouched(q)' => Vouched(q)
    <3>1. /\ (pc'[q] = "claim_bind" => pc[q] = "claim_bind")
          /\ (OnFile(reg, q)' => OnFile(reg, q))
      BY <1>6 DEF PhoneEnds, OnlyClients, memory, frames, OnFile
    <3>2. Past(phone[q].page)' => Past(phone[q].page)
      <4>1. PICK page : Turn(p, page) /\ page \in {phone[p].page, "failed", "disconnected"}
        <5>1. CASE Turn(p, "failed") \/ Turn(p, "disconnected")
          BY <5>1
        <5>2. CASE Turn(p, CASE phone[p].page \in {"claiming", "keygen"} -> "failed"
                             [] phone[p].page = "connected" -> "disconnected"
                             [] OTHER -> phone[p].page)
          BY <5>2
        <5>3. QED
          BY <1>6, <5>1, <5>2 DEF PhoneEnds
      <4>2. QED
        BY <4>1 DEF Turn, Past, ClientsOK
    <3>3. Told(down[q])' => Told(down[q])
      BY <1>6, ToldNothing DEF PhoneEnds, OnlyClients, Unlinks, NetOK
    <3>4. KeyInUse(q)' => KeyInUse(q)
      BY <1>6 DEF PhoneEnds, OnlyClients, store, memory, frames, Unlinks, KeyInUse
    <3>5. QED
      BY <3>1, <3>2, <3>3, <3>4 DEF Vouched
  <2>3. QED
    BY <2>1, <2>2, NobodyNew
<1>7. CASE PhoneLocked(p)
  <2>1. claimants' = claimants /\ (row'.state = "pending" => row.state = "pending")
    BY <1>7 DEF PhoneLocked, OnlyClients, store, history
  <2>2. ASSUME NEW q \in Phones PROVE Vouched(q)' => Vouched(q)
    <3>1. /\ (pc'[q] = "claim_bind" => pc[q] = "claim_bind")
          /\ (OnFile(reg, q)' => OnFile(reg, q))
      BY <1>7 DEF PhoneLocked, OnlyClients, memory, frames, OnFile
    <3>2. Past(phone[q].page)' => Past(phone[q].page)
      BY <1>7 DEF PhoneLocked, OnlyClients, Turn, Past, ClientsOK
    <3>3. Told(down[q])' => Told(down[q])
      BY <1>7, ToldTail DEF PhoneLocked, OnlyClients, Reads, Arrives, NetOK
    <3>4. KeyInUse(q)' => KeyInUse(q)
      BY <1>7 DEF PhoneLocked, OnlyClients, store, memory, frames, Reads, KeyInUse
    <3>5. QED
      BY <3>1, <3>2, <3>3, <3>4 DEF Vouched
  <2>3. QED
    BY <2>1, <2>2, NobodyNew
<1>8. CASE PhoneIgnores(p)
  <2>1. claimants' = claimants /\ (row'.state = "pending" => row.state = "pending")
    BY <1>8 DEF PhoneIgnores, OnlyClients, store, history
  <2>2. ASSUME NEW q \in Phones PROVE Vouched(q)' => Vouched(q)
    <3>1. /\ (Past(phone[q].page)' => Past(phone[q].page))
          /\ (pc'[q] = "claim_bind" => pc[q] = "claim_bind")
          /\ (OnFile(reg, q)' => OnFile(reg, q))
      BY <1>8 DEF PhoneIgnores, OnlyClients, memory, frames, clients, OnFile
    <3>2. Told(down[q])' => Told(down[q])
      BY <1>8, ToldTail DEF PhoneIgnores, OnlyClients, Reads, NetOK
    <3>3. KeyInUse(q)' => KeyInUse(q)
      BY <1>8 DEF PhoneIgnores, OnlyClients, store, memory, frames, Reads, KeyInUse
    <3>4. QED
      BY <3>1, <3>2, <3>3 DEF Vouched
  <2>3. QED
    BY <2>1, <2>2, NobodyNew
<1>9. CASE PhoneLosesConnection(p)
  <2>1. claimants' = claimants /\ (row'.state = "pending" => row.state = "pending")
    BY <1>9 DEF PhoneLosesConnection, OnlyClients, store, history
  <2>2. ASSUME NEW q \in Phones PROVE Vouched(q)' => Vouched(q)
    <3>1. /\ (pc'[q] = "claim_bind" => pc[q] = "claim_bind")
          /\ (OnFile(reg, q)' => OnFile(reg, q))
      BY <1>9 DEF PhoneLosesConnection, OnlyClients, memory, frames, OnFile
    <3>2. Past(phone[q].page)' => Past(phone[q].page)
      BY <1>9 DEF PhoneLosesConnection, OnlyClients, Turn, Past, ClientsOK
    <3>3. Told(down[q])' => Told(down[q])
      BY <1>9, ToldNothing DEF PhoneLosesConnection, OnlyClients, Breaks, NetOK
    <3>4. KeyInUse(q)' => KeyInUse(q)
      <4>1. up'[q] = up[q] \/ up'[q].type = "none"
        BY <1>9 DEF PhoneLosesConnection, Breaks, NetOK, NoMsg, Note, Msg
      <4>2. QED
        BY <1>9, <4>1 DEF PhoneLosesConnection, OnlyClients, store, memory, frames,
           KeyInUse
    <3>5. QED
      BY <3>1, <3>2, <3>3, <3>4 DEF Vouched
  <2>3. QED
    BY <2>1, <2>2, NobodyNew
<1>10. CASE PhoneListens(p)
  <2>1. claimants' = claimants /\ row' = row
    BY <1>10 DEF PhoneListens, OnlyClients, store, history
  <2>2. ASSUME NEW q \in Phones PROVE Vouched(q)' => Vouched(q)
    <3>1. /\ (pc'[q] = "claim_bind" => pc[q] = "claim_bind")
          /\ (OnFile(reg, q)' => OnFile(reg, q))
      BY <1>10 DEF PhoneListens, OnlyClients, memory, frames, OnFile
    <3>2. Past(phone[q].page)' => Past(phone[q].page)
      BY <1>10 DEF PhoneListens, Turn, Past, ClientsOK
    <3>3. (Told(down[q])' => Told(down[q])) /\ (KeyInUse(q)' => KeyInUse(q))
      BY <1>10 DEF PhoneListens, OnlyClients, store, memory, frames, net, KeyInUse
    <3>4. QED
      BY <3>1, <3>2, <3>3 DEF Vouched
  <2>3. QED
    BY <2>1, <2>2, NobodyNew
<1>11. QED
  BY <1>1, <1>2, <1>3, <1>4, <1>5, <1>6, <1>7, <1>8, <1>9, <1>10

-----------------------------------------------------------------------------
\* Initially the row is pending and nobody has claimed it.
LEMMA ClaimInvInit == Init => ClaimInv
<1> SUFFICES ASSUME Init PROVE ClaimInv
  OBVIOUS
<1>1. ASSUME NEW p \in Phones PROVE ~Vouched(p)
  <2>1. ~Past(phone[p].page) /\ pc[p] = "idle"
    BY SocketFacts DEF Init, Past
  <2>2. ~Told(down[p])
    BY ToldNothing, SocketFacts DEF Init
  <2>3. ~OnFile(reg, p)
    BY NewRegistryType, RegistryKeeps DEF Init
  <2>4. ~KeyInUse(p)
    BY SocketFacts DEF Init, KeyInUse, NoMsg, Note, Msg
  <2>5. QED
    BY <2>1, <2>2, <2>3, <2>4 DEF Vouched
<1>2. QED
  BY <1>1 DEF Init, ClaimInv

\* Once the row is claimed, whatever vouches for a phone's claim vouches for the one claimant.
THEOREM ClaimInvariant == Spec => []ClaimInv
<1>1. TypeOK /\ ClaimInv /\ [Next]_vars => ClaimInv'
  <2> SUFFICES ASSUME TypeOK, ClaimInv, [Next]_vars PROVE ClaimInv'
    OBVIOUS
  <2>1. CASE CliHandler
    <3>1. CASE HelloGetState \/ HelloSecret \/ HelloBind
      BY <3>1, CliHelloClaim
    <3>2. CASE Reject(Cli)
      BY <3>2, RejectClaim, SocketFacts
    <3>3. CASE SubmitSelect \/ SubmitAttempt \/ SubmitInvalid \/ LockedDestroy
                 \/ LockedSend \/ SubmitValid
      BY <3>3, CodeSubmitClaim
    <3>4. CASE (\E s \in Sessions : Commit(s)) \/ Promote \/ Destroy \/ Forget
      BY <3>4, CompletePairingClaim
    <3>5. QED
      BY <2>1, <3>1, <3>2, <3>3, <3>4 DEF CliHandler
  <2>2. CASE CliReacts
    BY <2>2, CliReactsClaim
  <2>3. CASE \E p \in Phones : PhoneHandler(p)
    BY <2>3, TakeClaim, PublicKeyClaim, RejectClaim, SocketFacts DEF PhoneHandler
  <2>4. CASE \E p \in Phones : PhoneReacts(p)
    BY <2>4, PageClaim DEF PhoneReacts
  <2>5. CASE \E k \in Sockets : CloseHandler(k)
    BY <2>5, CloseClaim DEF CloseHandler
  <2>6. CASE Users
    BY <2>6, CliReactsClaim, PageClaim DEF Users
  <2>7. CASE Faults
    BY <2>7, FaultClaim, CliReactsClaim, PageClaim DEF Faults
  <2>8. CASE UNCHANGED vars
    BY <2>8 DEF vars, store, memory, frames, net, clients, history, ClaimInv, Vouched,
       OnFile, KeyInUse
  <2>9. QED
    BY <2>1, <2>2, <2>3, <2>4, <2>5, <2>6, <2>7, <2>8 DEF Next
<1>2. QED
  BY <1>1, ClaimInvInit, TypeCorrect, PTL DEF Spec

\* Whatever number of phones open the link: one at most is told that it claimed it,
\* is registered, has its key kept and gets a session (phone-claim.ts:9).
THEOREM OneClaim == Spec => []SingleClaim
  BY ClaimInvariant, ClaimInvSuffices, PTL
=============================================================================
