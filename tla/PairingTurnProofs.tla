-------------------------- MODULE PairingTurnProofs ---------------------------
(***************************************************************************)
(* Whose turn it is in a pairing, for every set of phones, sessions and    *)
(* codes: a socket's request and its handler are one at a time (THEOREM    *)
(* OneRequestAlways).                                                      *)
(*                                                                         *)
(* OneRequestAtATime alone is not inductive: a client could send while its *)
(* last request is at work.  TurnInv says why none does: a client speaks on*)
(* its page's or its prompt's account only, and that page or prompt comes  *)
(* with the answer to its last request, of which there is one.  For a      *)
(* phone, all that comes before its key has been sent excludes all that    *)
(* comes after; for the CLI, a prompt excludes a submission under way.     *)
(* The later modules of the pairing rest on it.                            *)
(***************************************************************************)
EXTENDS PairingProofs, FiniteSetTheorems, Functions

-----------------------------------------------------------------------------
\* The inductive invariants

\* A message of type t is in the queue q, and only once.
Says(q, t) == \E m \in Range(q) : m.type = t
Once(q, t) == \A i, j \in 1..Len(q) : q[i].type = t /\ q[j].type = t => i = j

\* Nothing of k's is under way to the backend or at work there.
Quiet(k) == up[k] = NoMsg /\ pc[k] = "idle"

\* The steps of the handlers: cli_hello's, code_submit's, phone_claim's, public_key's.
HelloSteps  == {"hello_secret", "hello_bind"}
SubmitSteps == CliSteps \ HelloSteps
ClaimSteps  == {"claim_select", "claim_update", "claim_bind"}
PushSteps   == {"push_code", "push_send"}

\* cli_hello, or code_submit, is under way or at work.
HelloPending  == up[Cli].type = "cli_hello" \/ pc[Cli] \in HelloSteps
SubmitPending == up[Cli].type = "code_submit" \/ pc[Cli] \in SubmitSteps

\* The CLI says hello once, after its socket is there; and submits a code once per prompt.
CliTurn ==
  /\ cli.phase = "init" =>
       sock[Cli] = "none" /\ ~linked[Cli] /\ Quiet(Cli) /\ reg.cliByPairing # Cli
       /\ ~Says(down[Cli], "phone_claimed")
  /\ up[Cli] # NoMsg => pc[Cli] = "idle"
  /\ cli.phase \notin {"init", "gone"} => sock[Cli] # "none"
  /\ cli.phase \in {"connecting", "waiting_phone"} =>
       (reg.cliByPairing = Cli \/ Says(down[Cli], "phone_claimed") => Quiet(Cli))
  /\ cli.phase \in {"init", "connecting", "waiting_phone"} =>
       ~SubmitPending /\ ~Says(down[Cli], "code_invalid")
  /\ cli.phase = "entering_code" =>
       Quiet(Cli) /\ ~Says(down[Cli], "code_invalid")
  /\ Says(down[Cli], "code_invalid") => Quiet(Cli)
  /\ Once(down[Cli], "code_invalid")

\* The phone's claim is under way or at work, or its page does not know of it yet.
Claiming(p) == \/ up[p].type = "phone_claim" \/ pc[p] \in ClaimSteps
               \/ Says(down[p], "phone_claim_ack")
               \/ phone[p].page \in {"scan", "claiming", "keygen"}

\* The phone's key has been sent.
Keyed(p) == \/ KeyInUse(p) \/ pc[p] \in PushSteps
            \/ phone[p].page \in {"waiting", "code", "starting", "connected"}
            \/ Says(down[p], "code_challenge") \/ Says(down[p], "paired")
            \/ phone[p].code # NoCode \/ phone[p].session # None

\* The phone claims once, and sends its key once it heard that it claimed.
PhoneTurn(p) ==
  /\ phone[p].page = "scan" =>
       sock[p] = "none" /\ ~linked[p] /\ Quiet(p)
       /\ ~Says(down[p], "phone_claim_ack")
  /\ up[p] # NoMsg => pc[p] = "idle"
  /\ Says(down[p], "phone_claim_ack") => Quiet(p)
  /\ phone[p].page = "keygen" => Quiet(p) /\ ~Says(down[p], "phone_claim_ack")
  /\ Once(down[p], "phone_claim_ack")
  /\ Keyed(p) => ~Claiming(p)
  /\ pc[p] \in PushSteps => p \in claimants

\* promoteToSession registers a phone: the transaction stored the key of one.
TurnInv == /\ CliTurn
           /\ \A p \in Phones : PhoneTurn(p)
           /\ pc[Cli] = "promote" => sessions[loc[Cli]].key \in Phones

-----------------------------------------------------------------------------
\* Queues of messages

\* What the queue q becomes in q2 is messages of q, and others of types in T; a type
\* not in T occurs no more often than before.
Heard(q, q2, T) == /\ \A m \in Range(q2) : m \in Range(q) \/ m.type \in T
                   /\ \A t : t \notin T /\ Once(q, t) => Once(q2, t)

\* The elements of a queue with a message at its end.
LEMMA RangeAppend ==
  ASSUME NEW q \in Seq(DownMsgs), NEW m \in DownMsgs
  PROVE  /\ q \o <<m>> \in Seq(DownMsgs)
         /\ Range(q \o <<m>>) = Range(q) \cup {m}
<1> DEFINE r == q \o <<m>>
<1>1. <<m>> \in Seq(DownMsgs) /\ Len(<<m>>) = 1 /\ <<m>>[1] = m
  OBVIOUS
<1>2. /\ r \in Seq(DownMsgs) /\ Len(r) = Len(q) + 1 /\ Len(q) \in Nat
      /\ \A i \in 1..Len(q) : r[i] = q[i]
      /\ r[Len(q) + 1] = m
  BY <1>1
<1>3. DOMAIN r = 1..Len(q) + 1 /\ DOMAIN q = 1..Len(q)
  BY <1>2
<1>4. \A i \in DOMAIN r : r[i] \in Range(q) \cup {m}
  BY <1>2, <1>3 DEF Range
<1>5. \A i \in DOMAIN q : q[i] \in Range(r)
  BY <1>2, <1>3 DEF Range
<1>6. m \in Range(r)
  BY <1>2, <1>3 DEF Range
<1>7. QED
  BY <1>2, <1>4, <1>5, <1>6 DEF Range

\* A message whose type is new to the queue occurs once.
LEMMA OnceAppend ==
  ASSUME NEW q \in Seq(DownMsgs), NEW m \in DownMsgs, NEW t, Once(q, t),
         m.type = t => ~Says(q, t)
  PROVE  Once(q \o <<m>>, t)
<1> DEFINE r == q \o <<m>>
<1>1. <<m>> \in Seq(DownMsgs) /\ Len(<<m>>) = 1 /\ <<m>>[1] = m
  OBVIOUS
<1>2. /\ Len(r) = Len(q) + 1 /\ Len(q) \in Nat
      /\ \A i \in 1..Len(q) : r[i] = q[i]
      /\ r[Len(q) + 1] = m
  BY <1>1
<1>3. m.type = t => \A i \in 1..Len(q) : q[i].type # t
  BY DEF Says, Range
<1>4. SUFFICES ASSUME NEW i \in 1..Len(r), NEW j \in 1..Len(r), r[i].type = t, r[j].type = t
               PROVE  i = j
  BY DEF Once
<1>5. CASE m.type = t
  <2>1. i \notin 1..Len(q) /\ j \notin 1..Len(q)
    BY <1>2, <1>3, <1>4, <1>5
  <2>2. QED
    BY <1>2, <2>1
<1>6. CASE m.type # t
  <2>1. i \in 1..Len(q) /\ j \in 1..Len(q)
    BY <1>2, <1>4, <1>6
  <2>2. QED
    BY <1>2, <1>4, <2>1 DEF Once
<1>7. QED
  BY <1>5, <1>6

\* Sending one message to the end of a queue.
LEMMA HeardAppend ==
  ASSUME NEW q \in Seq(DownMsgs), NEW m \in DownMsgs, NEW T, m.type \in T
  PROVE  Heard(q, q \o <<m>>, T)
<1>1. \A n \in Range(q \o <<m>>) : n \in Range(q) \/ n.type \in T
  BY RangeAppend
<1>2. ASSUME NEW t, t \notin T, Once(q, t) PROVE Once(q \o <<m>>, t)
  BY <1>2, OnceAppend
<1>3. QED
  BY <1>1, <1>2 DEF Heard

\* A queue that stays what it is.
LEMMA HeardSame ==
  ASSUME NEW q, NEW T
  PROVE  Heard(q, q, T)
  BY DEF Heard

\* Two steps of a queue are one.
LEMMA HeardTwice ==
  ASSUME NEW q, NEW r, NEW s, NEW T, Heard(q, r, T), Heard(r, s, T)
  PROVE  Heard(q, s, T)
  BY DEF Heard

\* A queue that is dropped.
LEMMA HeardNothing ==
  ASSUME NEW q, NEW T
  PROVE  /\ Heard(q, << >>, T)
         /\ \A t : ~Says(<< >>, t) /\ Once(<< >>, t)
<1>1. Range(<< >>) = {} /\ Len(<< >>) = 0
  BY DEF Range
<1>2. QED
  BY <1>1 DEF Heard, Says, Once

\* A queue whose head is read.
LEMMA HeardTail ==
  ASSUME NEW q \in Seq(DownMsgs), q # << >>, NEW T
  PROVE  /\ Heard(q, Tail(q), T)
         /\ Head(q) \in Range(q) /\ Head(q) \in DownMsgs
         /\ Once(q, Head(q).type) => ~Says(Tail(q), Head(q).type)
<1> DEFINE r == Tail(q)
<1>1. /\ r \in Seq(DownMsgs) /\ Len(r) = Len(q) - 1 /\ Len(q) \in Nat /\ Len(q) > 0
      /\ \A i \in 1..Len(r) : i + 1 \in 1..Len(q) /\ r[i] = q[i + 1]
      /\ 1 \in 1..Len(q) /\ Head(q) = q[1] /\ q[1] \in DownMsgs
  OBVIOUS
<1>2. DOMAIN r = 1..Len(r) /\ DOMAIN q = 1..Len(q)
  BY <1>1
<1>3. \A m \in Range(r) : m \in Range(q)
  BY <1>1, <1>2 DEF Range
<1>4. ASSUME NEW t, Once(q, t) PROVE Once(r, t)
  <2>1. SUFFICES ASSUME NEW i \in 1..Len(r), NEW j \in 1..Len(r),
                        r[i].type = t, r[j].type = t
                 PROVE  i = j
    BY DEF Once
  <2>2. i + 1 = j + 1
    BY <1>1, <1>4, <2>1 DEF Once
  <2>3. QED
    BY <1>1, <2>2
<1>5. ASSUME Once(q, Head(q).type), Says(r, Head(q).type) PROVE FALSE
  <2>1. PICK i \in 1..Len(r) : r[i].type = Head(q).type
    BY <1>2, <1>5 DEF Says, Range
  <2>2. i + 1 = 1
    BY <1>1, <1>5, <2>1 DEF Once
  <2>3. QED
    BY <1>1, <2>1, <2>2
<1>6. Head(q) \in Range(q)
  BY <1>1, <1>2 DEF Range
<1>7. QED
  BY <1>1, <1>3, <1>4, <1>5, <1>6 DEF Heard

\* What wsSend of one message does to the queue of a socket j.
LEMMA HeardPostOne ==
  ASSUME NEW d \in [Sockets -> Seq(DownMsgs)], NEW k, NEW m \in DownMsgs,
         NEW e, e = Post(d, k, <<m>>),
         NEW T, m.type \in T, NEW j \in Sockets
  PROVE  /\ Heard(d[j], e[j], T)
         /\ j # k => e[j] = d[j]
         /\ e[j] \in {d[j], d[j] \o <<m>>}
<1>1. d[j] \in Seq(DownMsgs)
  OBVIOUS
<1>2. /\ e[j] \in {d[j], d[j] \o <<m>>}
      /\ j # k => e[j] = d[j]
  BY DEF Post
<1>3. QED
  BY <1>1, <1>2, HeardAppend, HeardSame

\* The same of a message and the close frame after it.
LEMMA HeardPostTwo ==
  ASSUME NEW d \in [Sockets -> Seq(DownMsgs)], NEW k, NEW m \in DownMsgs,
         NEW e, e = Post(d, k, <<m, Close>>),
         NEW T, m.type \in T, "close" \in T, NEW j \in Sockets
  PROVE  /\ Heard(d[j], e[j], T)
         /\ j # k => e[j] = d[j]
<1>1. d[j] \in Seq(DownMsgs) /\ Close \in DownMsgs /\ Close.type = "close"
  BY MessageTypes DEF Close, Note, Msg
<1>2. d[j] \o <<m, Close>> = (d[j] \o <<m>>) \o <<Close>>
  BY <1>1
<1>3. Heard(d[j], d[j] \o <<m, Close>>, T)
  <2>1. Heard(d[j], d[j] \o <<m>>, T) /\ d[j] \o <<m>> \in Seq(DownMsgs)
    BY <1>1, HeardAppend, RangeAppend
  <2>2. Heard(d[j] \o <<m>>, (d[j] \o <<m>>) \o <<Close>>, T)
    BY <1>1, <2>1, HeardAppend
  <2>3. QED
    BY <1>2, <2>1, <2>2, HeardTwice
<1>4. /\ e[j] \in {d[j], d[j] \o <<m, Close>>}
      /\ j # k => e[j] = d[j]
  BY DEF Post
<1>5. QED
  BY <1>3, <1>4, HeardSame
-----------------------------------------------------------------------------
\* What the steps of one actor leave alone, and what they let others hear

\* The CLI's handlers move no other frame and no client.
LEMMA CliHandlerFrame ==
  ASSUME TypeOK, CliHandler
  PROVE  /\ UNCHANGED <<cli, phone, linked, closing, expired, crashes, claimants>>
         /\ up'[Cli] \in {up[Cli], NoMsg}
         /\ \A p \in Phones : pc'[p] = pc[p] /\ loc'[p] = loc[p] /\ up'[p] = up[p]
         /\ \A k \in Sockets : sock'[k] = sock[k] \/ (sock[k] = "open" /\ sock'[k] = "closing")
<1> USE SocketFacts DEF TypeOK, FramesOK, NetOK
<1>1. CASE HelloGetState \/ HelloSecret
  BY <1>1 DEF HelloGetState, HelloSecret, OnlyStore, clients, Consume, Goto
<1>2. CASE HelloBind \/ Reject(Cli)
  BY <1>2 DEF HelloBind, Reject, Refuse, Shut, clients, history, store, Done, Goto
<1>3. CASE SubmitSelect \/ SubmitAttempt \/ LockedDestroy
  BY <1>3 DEF SubmitSelect, SubmitAttempt, LockedDestroy, OnlyStore, clients, Consume, Goto
<1>4. CASE SubmitInvalid \/ LockedSend \/ SubmitValid
  BY <1>4 DEF SubmitInvalid, LockedSend, SubmitValid, Shut, clients, history, store, Done, Goto
<1>5. CASE (\E s \in Sessions : Commit(s)) \/ Destroy
  BY <1>5 DEF Commit, Destroy, OnlyStore, clients, Goto
<1>6. CASE Promote \/ Forget
  BY <1>6 DEF Promote, Forget, clients, history, store, net, Done, Goto
<1>7. QED
  BY <1>1, <1>2, <1>3, <1>4, <1>5, <1>6 DEF CliHandler

\* Until completePairing's last sends, they tell a phone at most that the code was right
\* or that the pairing is locked, and the CLI nothing of a claim.
LEMMA CliHandlerNews ==
  ASSUME TypeOK, CliHandler, pc[Cli] # "promote"
  PROVE  /\ \A p \in Phones : Heard(down[p], down'[p], {"code_locked", "code_valid", "close"})
         /\ pc[Cli] # "remaining" =>
              Heard(down[Cli], down'[Cli],
                    {"cli_hello_ack", "error", "code_locked", "code_valid", "close"})
<1> DEFINE T == {"cli_hello_ack", "error", "code_locked", "code_valid", "close"}
<1> DEFINE U == {"code_locked", "code_valid", "close"}
<1>0. /\ \A t \in {"error", "code_locked", "code_valid"} : Note(t) \in DownMsgs
      /\ down \in [Sockets -> Seq(DownMsgs)] /\ Cli \in Sockets
      /\ \A p \in Phones : p \in Sockets /\ p # Cli
  BY MessageTypes, SocketFacts DEF TypeOK, NetOK
<1>T. /\ Note("error").type \in T /\ "close" \in T /\ "close" \in U
      /\ Note("code_locked").type \in U /\ Note("code_valid").type \in U
      /\ \A v : Msg("cli_hello_ack", v).type \in T
      /\ \A q, r : Heard(q, r, U) => Heard(q, r, T)
  BY DEF Note, Msg, Heard
<1> HIDE DEF T, U
<1>1. CASE down' = down
  BY <1>1, HeardSame DEF T, U
<1>2. ASSUME Refuse(Cli) PROVE (\A p \in Phones : down'[p] = down[p]) /\ Heard(down[Cli], down'[Cli], T)
  <2>1. down' = Post(down, Cli, <<Note("error"), Close>>)
    BY <1>2 DEF Refuse
  <2>2. \A j \in Sockets : Heard(down[j], down'[j], T) /\ (j # Cli => down'[j] = down[j])
    BY <1>0, <1>T, <2>1, HeardPostTwo
  <2>3. QED
    BY <1>0, <2>2
<1>3. ASSUME HelloBind, ~Refuse(Cli)
      PROVE (\A p \in Phones : down'[p] = down[p]) /\ Heard(down[Cli], down'[Cli], T)
  <2>1. /\ down' = Post(down, Cli, <<Msg("cli_hello_ack", loc[Cli])>>)
        /\ loc[Cli] \in {"pending", "claimed"}
    BY <1>0, <1>3 DEF HelloBind, TypeOK, FramesOK, FrameFits
  <2>2. Msg("cli_hello_ack", loc[Cli]) \in DownMsgs
    BY <2>1, MessageTypes
  <2>3. \A j \in Sockets : Heard(down[j], down'[j], T) /\ (j # Cli => down'[j] = down[j])
    BY <1>0, <1>T, <2>1, <2>2, HeardPostOne
  <2>4. QED
    BY <1>0, <2>3
<1>4. CASE SubmitInvalid
  <2>1. \A p \in Phones : down'[p] = down[p]
    BY <1>0, <1>4 DEF SubmitInvalid, Post
  <2>2. pc[Cli] = "remaining"
    BY <1>4 DEF SubmitInvalid
  <2>3. QED
    BY <2>1, <2>2, HeardSame
<1>5. CASE LockedSend
  <2> DEFINE d == Post(down, Cli, <<Note("code_locked"), Close>>)
  <2>1. d \in [Sockets -> Seq(DownMsgs)]
    BY <1>0, PostTwo, MessageTypes
  <2>2. \A k \in Sockets : Heard(down[k], d[k], U)
    BY <1>0, <1>T, HeardPostTwo
  <2>3. down' = Post(d, reg.phoneByPairing, <<Note("code_locked"), Close>>)
    BY <1>5 DEF LockedSend
  <2> HIDE DEF d
  <2>4. \A k \in Sockets : Heard(d[k], down'[k], U)
    BY <1>0, <1>T, <2>1, <2>3, HeardPostTwo
  <2>5. \A k \in Sockets : Heard(down[k], down'[k], U)
    BY <2>2, <2>4, HeardTwice
  <2>6. QED
    BY <1>0, <1>T, <2>5 DEF T, U
<1>6. CASE SubmitValid
  <2> DEFINE d == Post(down, Cli, <<Note("code_valid")>>)
  <2>1. d \in [Sockets -> Seq(DownMsgs)]
    BY <1>0, PostOne
  <2>2. \A k \in Sockets : Heard(down[k], d[k], U)
    BY <1>0, <1>T, HeardPostOne
  <2>3. down' = Post(d, reg.phoneByPairing, <<Note("code_valid")>>)
    BY <1>6 DEF SubmitValid
  <2> HIDE DEF d
  <2>4. \A k \in Sockets : Heard(d[k], down'[k], U)
    BY <1>0, <1>T, <2>1, <2>3, HeardPostOne
  <2>5. \A k \in Sockets : Heard(down[k], down'[k], U)
    BY <2>2, <2>4, HeardTwice
  <2>6. QED
    BY <1>0, <1>T, <2>5 DEF T, U
<1>7. CASE HelloBind \/ Reject(Cli)
  <2>1. (\A p \in Phones : down'[p] = down[p]) /\ Heard(down[Cli], down'[Cli], T)
    BY <1>2, <1>3, <1>7 DEF Reject
  <2>2. QED
    BY <2>1, HeardSame DEF T
<1>8. CASE HelloGetState \/ HelloSecret \/ SubmitSelect \/ SubmitAttempt \/ LockedDestroy
  BY <1>1, <1>8 DEF HelloGetState, HelloSecret, SubmitSelect, SubmitAttempt, LockedDestroy,
     OnlyStore
<1>9. CASE (\E s \in Sessions : Commit(s)) \/ Destroy \/ Forget
  BY <1>1, <1>9 DEF Commit, Destroy, Forget, OnlyStore, net
<1>10. QED
  BY <1>4, <1>5, <1>6, <1>7, <1>8, <1>9 DEF CliHandler, Promote

\* 'paired' goes to the two sockets registered for the pairing, whatever happened to them.
LEMMA PromoteNews ==
  ASSUME TypeOK, Promote, NEW k \in Sockets
  PROVE  /\ Heard(down[k], down'[k], {"paired"})
         /\ k \notin {reg.cliByPairing, reg.phoneByPairing} => down'[k] = down[k]
         /\ loc[Cli] \in Sessions
         /\ \A m \in Range(down'[k]) : m \in Range(down[k]) \/
              (m.type = "paired" /\ m.val = loc[Cli] /\ (k = Cli => m.key = sessions[loc[Cli]].key))
<1> DEFINE s == loc[Cli]
<1> DEFINE d == Post(down, reg.cliByPairing, <<Paired(s, sessions[s].key)>>)
<1>1. /\ down \in [Sockets -> Seq(DownMsgs)]
      /\ s \in Sessions
      /\ reg.phoneByPairing # Cli /\ reg.cliByPairing \in {Cli, None}
  BY SocketFacts DEF Promote, TypeOK, NetOK, FramesOK, FrameFits, MemoryOK, Registries
<1>2. /\ Paired(s, sessions[s].key) \in DownMsgs /\ Msg("paired", s) \in DownMsgs
      /\ Paired(s, sessions[s].key).type = "paired" /\ Msg("paired", s).type = "paired"
      /\ Paired(s, sessions[s].key).val = s /\ Msg("paired", s).val = s
      /\ Paired(s, sessions[s].key).key = sessions[s].key
  BY <1>1, MessageTypes DEF TypeOK, StoreOK, Sessionlike, Paired, Msg
<1>3. d \in [Sockets -> Seq(DownMsgs)]
  BY <1>1, <1>2, PostOne
<1> DEFINE T == {"paired"}
<1> DEFINE m == Paired(s, sessions[s].key)
<1> DEFINE n == Msg("paired", s)
<1>T. m.type \in T /\ n.type \in T /\ m \in DownMsgs /\ n \in DownMsgs
  BY <1>2
<1>D. down \in [Sockets -> Seq(DownMsgs)] /\ d = Post(down, reg.cliByPairing, <<m>>)
  BY <1>1
<1>5. down' = Post(d, reg.phoneByPairing, <<n>>)
  BY DEF Promote
<1> HIDE DEF T, d, m, n
<1>4. /\ Heard(down[k], d[k], T) /\ (k # reg.cliByPairing => d[k] = down[k])
      /\ d[k] \in {down[k], down[k] \o <<m>>}
  <2>1. Heard(down[k], d[k], T)
    BY <1>D, <1>T, HeardPostOne
  <2>2. (k # reg.cliByPairing => d[k] = down[k]) /\ d[k] \in {down[k], down[k] \o <<m>>}
    BY <1>D DEF Post
  <2>3. QED
    BY <2>1, <2>2
<1>6. /\ Heard(d[k], down'[k], T) /\ (k # reg.phoneByPairing => down'[k] = d[k])
      /\ down'[k] \in {d[k], d[k] \o <<n>>}
  <2>1. Heard(d[k], down'[k], T)
    BY <1>3, <1>5, <1>T, HeardPostOne
  <2>2. (k # reg.phoneByPairing => down'[k] = d[k]) /\ down'[k] \in {d[k], d[k] \o <<n>>}
    BY <1>3, <1>5 DEF Post
  <2>3. QED
    BY <2>1, <2>2
<1>7. Range(d[k]) \subseteq Range(down[k]) \cup {m}
  BY <1>D, <1>T, <1>4, RangeAppend
<1>8. Range(down'[k]) \subseteq Range(d[k]) \cup {n}
  BY <1>3, <1>T, <1>6, RangeAppend
<1>9. k = Cli => down'[k] = d[k]
  BY <1>1, <1>6
<1>10. Heard(down[k], down'[k], T)
  BY <1>4, <1>6, HeardTwice
<1>11. QED
  BY <1>1, <1>2, <1>4, <1>6, <1>7, <1>8, <1>9, <1>10 DEF T, m, n

\* A phone's handlers move no other frame and no client.
LEMMA PhoneHandlerFrame ==
  ASSUME TypeOK, NEW p \in Phones, PhoneHandler(p)
  PROVE  /\ UNCHANGED <<cli, phone, linked, closing, expired, crashes, sessions>>
         /\ up'[p] \in {up[p], NoMsg}
         /\ \A k \in Sockets : k # p => pc'[k] = pc[k] /\ loc'[k] = loc[k] /\ up'[k] = up[k]
         /\ \A k \in Sockets : sock'[k] = sock[k] \/ (sock[k] = "open" /\ sock'[k] = "closing")
<1> USE SocketFacts DEF TypeOK, FramesOK, NetOK
<1>1. CASE ClaimGetState(p) \/ ClaimSelect(p) \/ ClaimUpdate(p)
  BY <1>1 DEF ClaimGetState, ClaimSelect, ClaimUpdate, OnlyStore, clients, Consume, Goto
<1>2. CASE ClaimBind(p) \/ Reject(p)
  BY <1>2 DEF ClaimBind, Reject, Refuse, Shut, PushCodeIfReady, clients, history, store, Done, Goto
<1>3. CASE PublicKey(p) \/ PushSetCode(p) \/ PushSend(p)
  BY <1>3 DEF PublicKey, PushSetCode, PushSend, PushCodeIfReady, OnlyStore, clients, history,
     store, Consume, Done, Goto
<1>4. QED
  BY <1>1, <1>2, <1>3 DEF PhoneHandler

\* They tell the CLI of a claim, the phone that it claimed, and a code to the phone registered.
LEMMA PhoneHandlerNews ==
  ASSUME TypeOK, NEW p \in Phones, PhoneHandler(p)
  PROVE  /\ Heard(down[Cli], down'[Cli], {"phone_claimed"})
         /\ pc[p] # "claim_bind" \/ reg.cliByPairing # Cli => down'[Cli] = down[Cli]
         /\ \A q \in Phones :
              /\ pc[p] \notin {"claim_bind", "push_send"} =>
                   Heard(down[q], down'[q], {"error", "close"})
              /\ pc[p] = "claim_bind" =>
                   /\ Heard(down[q], down'[q], {"phone_claim_ack", "error", "close"})
                   /\ q # p => down'[q] = down[q]
              /\ pc[p] = "push_send" =>
                   /\ Heard(down[q], down'[q], {"code_challenge"})
                   /\ q # reg.phoneByPairing => down'[q] = down[q]
<1> DEFINE E == {"error", "close"}
<1> DEFINE A == {"phone_claim_ack", "error", "close"}
<1> DEFINE C == {"phone_claimed"}
<1> DEFINE H == {"code_challenge"}
<1>E. Note("error").type \in E /\ "close" \in E /\ Note("error") \in DownMsgs
  BY MessageTypes DEF Note, Msg
<1>A. Note("phone_claim_ack").type \in A /\ Note("phone_claim_ack") \in DownMsgs
  BY MessageTypes DEF Note, Msg
<1>C. Note("phone_claimed").type \in C /\ Note("phone_claimed") \in DownMsgs
  BY MessageTypes DEF Note, Msg
<1>H. \A c \in Codes : Msg("code_challenge", c).type \in H /\ Msg("code_challenge", c) \in DownMsgs
  BY MessageTypes DEF Msg
<1>EA. \A q, r : Heard(q, r, E) => Heard(q, r, A)
  BY DEF Heard
<1> HIDE DEF E, A, C, H
<1>D. down \in [Sockets -> Seq(DownMsgs)]
  BY DEF TypeOK, NetOK
<1>0. /\ Cli \in Sockets /\ \A q \in Phones : q \in Sockets /\ q # Cli
      /\ reg.phoneByPairing # Cli /\ reg.cliByPairing \in {Cli, None} /\ None \notin Sockets
  BY SocketFacts DEF TypeOK, MemoryOK, Registries
<1>1. CASE down' = down
  BY <1>1, HeardSame
<1>2. ASSUME Refuse(p), NEW q \in Phones
      PROVE  /\ down'[Cli] = down[Cli] /\ (q # p => down'[q] = down[q])
             /\ Heard(down[q], down'[q], E)
  <2>1. down' = Post(down, p, <<Note("error"), Close>>)
    BY <1>2 DEF Refuse
  <2>2. \A j \in Sockets : Heard(down[j], down'[j], E) /\ (j # p => down'[j] = down[j])
    BY <1>D, <1>E, <2>1, HeardPostTwo
  <2>3. QED
    BY <1>0, <2>2
<1>3. CASE Reject(p)
  <2>1. pc[p] = "reject" /\ Refuse(p)
    BY <1>3 DEF Reject
  <2>2. QED
    BY <1>2, <2>1, HeardSame DEF E
<1>4. CASE ClaimBind(p) /\ Refuse(p)
  <2>1. pc[p] = "claim_bind"
    BY <1>4 DEF ClaimBind
  <2>2. QED
    BY <1>2, <1>4, <1>EA, <2>1, HeardSame DEF A
<1>5. CASE ClaimBind(p) /\ ~Refuse(p)
  <2> DEFINE d == Post(down, p, <<Note("phone_claim_ack")>>)
  <2>1. d \in [Sockets -> Seq(DownMsgs)] /\ pc[p] = "claim_bind"
    BY <1>A, <1>D, <1>5, PostOne DEF ClaimBind
  <2>2. d[Cli] = down[Cli] /\ \A q \in Phones : q # p => d[q] = down[q]
    BY <1>0, <1>D DEF Post
  <2>3. \A j \in Sockets : Heard(down[j], d[j], A)
    BY <1>A, <1>D, HeardPostOne
  <2>4. down' = Post(d, reg.cliByPairing, <<Note("phone_claimed")>>)
    BY <1>5 DEF ClaimBind
  <2> HIDE DEF d
  <2>5. \A j \in Sockets : Heard(d[j], down'[j], C) /\ (j # reg.cliByPairing => down'[j] = d[j])
    <3>1. \A j \in Sockets : Heard(d[j], down'[j], C)
      BY <1>C, <2>1, <2>4, HeardPostOne
    <3>2. \A j \in Sockets : j # reg.cliByPairing => down'[j] = d[j]
      BY <2>1, <2>4 DEF Post
    <3>3. QED
      BY <3>1, <3>2
  <2>6. QED
    BY <1>0, <2>1, <2>2, <2>3, <2>5 DEF A, C
<1>6. CASE PushSend(p)
  <2>1. loc[p] \in Codes /\ pc[p] = "push_send"
    BY <1>0, <1>6 DEF PushSend, TypeOK, FramesOK, FrameFits
  <2> DEFINE m == Msg("code_challenge", loc[p])
  <2>2. m \in DownMsgs /\ m.type \in H
    BY <1>H, <2>1
  <2>3. down' = Post(down, reg.phoneByPairing, <<m>>)
    BY <1>6 DEF PushSend
  <2> HIDE DEF m
  <2>4. \A j \in Sockets : Heard(down[j], down'[j], H) /\ (j # reg.phoneByPairing => down'[j] = down[j])
    BY <1>D, <2>2, <2>3, HeardPostOne
  <2>5. QED
    BY <1>0, <2>1, <2>4, HeardSame DEF H
<1>7. QED
  <2>1. CASE ClaimGetState(p) \/ ClaimSelect(p) \/ ClaimUpdate(p) \/ PublicKey(p) \/ PushSetCode(p)
    BY <1>1, <2>1 DEF ClaimGetState, ClaimSelect, ClaimUpdate, PublicKey, PushSetCode, OnlyStore
  <2>2. QED
    BY <1>3, <1>4, <1>5, <1>6, <2>1 DEF PhoneHandler

\* The handlers of a close event say goodbye, and nothing else.
LEMMA CloseFrame ==
  ASSUME TypeOK, NEW k \in Sockets, CloseHandler(k)
  PROVE  /\ UNCHANGED <<cli, phone, linked, up, pc, loc, keys, row, expired, crashes, claimants>>
         /\ \A j \in Sockets : Heard(down[j], down'[j], {"disconnect", "close"})
         /\ \A s \in Sessions : sessions'[s].key = sessions[s].key
         /\ \A j \in Sockets : \/ sock'[j] = sock[j] \/ (sock[j] = "open" /\ sock'[j] = "closing")
                               \/ j = k /\ sock[j] \in {"open", "closing"} /\ sock'[j] = "closed"
<1> USE SocketFacts DEF TypeOK, FramesOK, NetOK
<1>1. CASE SocketClose(k)
  BY <1>1, HeardSame DEF SocketClose, clients, history, store
<1>2. CASE EndUpdate(k)
  <2>1. \A s \in Sessions : sessions'[s].key = sessions[s].key
    <3>1. \A s \in Sessions : sessions[s] \in Sessionlike
      BY DEF StoreOK
    <3>2. \/ sessions' = sessions
          \/ sessions' = [sessions EXCEPT ![closing[k].session].status = "ended"]
      BY <1>2 DEF EndUpdate
    <3>3. ASSUME NEW s \in Sessions
          PROVE  sessions'[s] \in {sessions[s], [sessions[s] EXCEPT !.status = "ended"]}
      BY <3>2 DEF StoreOK
    <3>4. QED
      BY <3>1, <3>3 DEF Sessionlike
  <2>2. QED
    BY <1>2, <2>1, HeardSame DEF EndUpdate, clients, history, memory, net
<1>3. CASE EndNotify(k)
  <2> DEFINE s == closing[k].session
  <2> DEFINE other == IF k = Cli THEN reg.phoneBySession[s] ELSE reg.cliBySession[s]
  <2> DEFINE mine == IF k = Cli THEN reg.cliBySession[s] ELSE reg.phoneBySession[s]
  <2> DEFINE d == Post(down, other, <<Msg("disconnect", s), Close>>)
  <2> DEFINE T == {"disconnect", "close"}
  <2>0. /\ \A v : Msg("disconnect", v).type \in T
        /\ "close" \in T /\ Close.type \in T
    BY DEF Msg, Close, Note
  <2> HIDE DEF T
  <2>1. s \in Sessions
    BY <1>3 DEF EndNotify, NotClosing
  <2>2. Msg("disconnect", s) \in DownMsgs /\ Close \in DownMsgs
    BY <2>1, MessageTypes
  <2>3. d \in [Sockets -> Seq(DownMsgs)] /\ \A j \in Sockets : Heard(down[j], d[j], T)
    BY <2>0, <2>2, PostTwo, HeardPostTwo
  <2>4. down' = Post(d, mine, <<Close>>)
    BY <1>3 DEF EndNotify
  <2> HIDE DEF d
  <2>5. \A j \in Sockets : Heard(d[j], down'[j], T)
    BY <2>0, <2>2, <2>3, <2>4, HeardPostOne
  <2>6. \A j \in Sockets : Heard(down[j], down'[j], T)
    BY <2>3, <2>5, HeardTwice
  <2>7. QED
    BY <1>3, <2>6 DEF EndNotify, Shut, clients, history, store, T
<1>4. QED
  BY <1>1, <1>2, <1>3 DEF CloseHandler

\* The death of the backend closes every socket, and nothing is under way to it any more.
LEMMA CrashFrame ==
  ASSUME TypeOK, Crash
  PROVE  /\ UNCHANGED <<cli, phone, linked, row, expired, sessions, claimants>>
         /\ reg' = NewRegistry /\ keys' = None
         /\ \A k \in Sockets : /\ up'[k] = NoMsg /\ pc'[k] = "idle" /\ closing'[k] = NotClosing
                               /\ sock'[k] = IF sock[k] = "none" THEN "none" ELSE "closed"
                               /\ Heard(down[k], down'[k], {"close"})
<1>1. ASSUME NEW k \in Sockets PROVE Heard(down[k], down'[k], {"close"})
  <2>1. down[k] \in Seq(DownMsgs) /\ Close \in DownMsgs /\ Close.type = "close"
        /\ Append(down[k], Close) = down[k] \o <<Close>>
    BY MessageTypes DEF TypeOK, NetOK, Close, Note, Msg
  <2>2. down'[k] \in {down[k], down[k] \o <<Close>>}
    BY <2>1 DEF Crash
  <2>3. QED
    BY <2>1, <2>2, HeardAppend, HeardSame
<1>2. QED
  BY <1>1 DEF Crash, store, clients

\* What the CLI does: its own phase and its own end of the connection.
LEMMA CliClientFrame ==
  ASSUME TypeOK, CliReacts \/ CliConnect \/ (\E c \in Codes : CliSubmit(c)) \/ CliExit \/ CliLosesConnection
  PROVE  /\ UNCHANGED <<row, expired, sessions, reg, keys, pushed, pc, loc, closing, claimants,
                        crashes, phone>>
         /\ \A p \in Phones : /\ sock'[p] = sock[p] /\ linked'[p] = linked[p]
                              /\ up'[p] = up[p] /\ down'[p] = down[p]
<1>1. OnlyClients /\ phone' = phone
  BY DEF CliReacts, CliConnect, CliSubmit, CliListen, CliStartControl, CliPhoneClaimed,
     CliCodeInvalid, CliPaired, CliGivesUp, CliMissesClose, CliIgnores, CliExit,
     CliLosesConnection, clients
<1>2. \/ \E m : Opens(Cli, m) \/ (Sends(Cli, m) /\ UNCHANGED <<sock, linked, down>>)
      \/ Reads(Cli) \/ Unlinks(Cli) \/ Breaks(Cli) \/ UNCHANGED net
  <2>1. CASE CliReacts
    BY <2>1 DEF CliReacts, CliListen, CliStartControl, CliPhoneClaimed, CliCodeInvalid,
       CliPaired, CliGivesUp, CliMissesClose, CliIgnores
  <2>2. CASE CliConnect \/ (\E c \in Codes : CliSubmit(c)) \/ CliExit \/ CliLosesConnection
    BY <2>2 DEF CliConnect, CliSubmit, CliExit, CliLosesConnection
  <2>3. QED
    BY <2>1, <2>2
<1>3. ASSUME NEW p \in Phones
      PROVE  sock'[p] = sock[p] /\ linked'[p] = linked[p] /\ up'[p] = up[p] /\ down'[p] = down[p]
  BY <1>2, SocketFacts DEF TypeOK, NetOK, Opens, Sends, Reads, Unlinks, Breaks, net
<1>4. QED
  BY <1>1, <1>3 DEF OnlyClients, store, memory, frames, history

\* What a phone's page does: its own state and its own end of the connection.
LEMMA PageFrame ==
  ASSUME TypeOK, NEW p \in Phones, PhoneReacts(p) \/ PhoneOpens(p) \/ PhoneLosesConnection(p)
  PROVE  /\ UNCHANGED <<row, expired, sessions, reg, keys, pushed, pc, loc, closing, claimants,
                        crashes, cli>>
         /\ \A q \in Phones : q # p => phone'[q] = phone[q]
         /\ \A k \in Sockets : k # p => /\ sock'[k] = sock[k] /\ linked'[k] = linked[k]
                                        /\ up'[k] = up[k] /\ down'[k] = down[k]
<1>1. OnlyClients /\ cli' = cli
  BY DEF PhoneReacts, PhoneOpens, PhoneClaimed, PhoneSendsKey, PhoneCode, PhonePaired,
     PhoneListens, PhoneEnds, PhoneLocked, PhoneIgnores, PhoneLosesConnection, clients
<1>2. \/ \E m : Opens(p, m) \/ (Sends(p, m) /\ UNCHANGED <<sock, linked, down>>)
      \/ Reads(p) \/ Unlinks(p) \/ Breaks(p) \/ UNCHANGED net
  BY DEF PhoneReacts, PhoneOpens, PhoneClaimed, PhoneSendsKey, PhoneCode, PhonePaired,
     PhoneListens, PhoneEnds, PhoneLocked, PhoneIgnores, PhoneLosesConnection
<1>3. \A q \in Phones : q # p => phone'[q] = phone[q]
  BY DEF PhoneReacts, PhoneOpens, PhoneClaimed, PhoneSendsKey, PhoneCode, PhonePaired,
     PhoneListens, PhoneEnds, PhoneLocked, PhoneIgnores, PhoneLosesConnection, Turn, TypeOK,
     ClientsOK, clients
<1>4. ASSUME NEW k \in Sockets, k # p
      PROVE  sock'[k] = sock[k] /\ linked'[k] = linked[k] /\ up'[k] = up[k] /\ down'[k] = down[k]
  BY <1>2, <1>4, SocketFacts DEF TypeOK, NetOK, Opens, Sends, Reads, Unlinks, Breaks, net
<1>5. QED
  BY <1>1, <1>3, <1>4 DEF OnlyClients, store, memory, frames, history
-----------------------------------------------------------------------------
\* TurnInv: a step that is none of a client's business leaves its turn alone

\* What a queue says was said before, or is new.
LEMMA HeardMeans ==
  ASSUME NEW q, NEW r, NEW T, Heard(q, r, T)
  PROVE  /\ \A t : Says(r, t) => Says(q, t) \/ t \in T
         /\ \A t : t \notin T /\ Once(q, t) => Once(r, t)
  BY DEF Heard, Says

\* The message that means that there is none, and the clients' messages.
LEMMA UpKinds == /\ NoMsg.type = "none"
                 /\ Note("cli_hello").type = "cli_hello" /\ Note("phone_claim").type = "phone_claim"
                 /\ Note("public_key").type = "public_key"
                 /\ \A c : Msg("code_submit", c).type = "code_submit"
  BY DEF NoMsg, Note, Msg

\* The CLI's turn, when the CLI does nothing and is told of a claim at most.
LEMMA CliUndisturbed ==
  ASSUME CliTurn, cli' = cli,
         up'[Cli] \in {up[Cli], NoMsg}, pc'[Cli] \in {pc[Cli], "idle"},
         sock'[Cli] = "none" <=> sock[Cli] = "none", linked'[Cli] => linked[Cli],
         reg'.cliByPairing = Cli => reg.cliByPairing = Cli,
         NEW T, Heard(down[Cli], down'[Cli], T),
         "code_invalid" \notin T, "phone_claimed" \in T => reg.cliByPairing = Cli
  PROVE  CliTurn'
<1>1. /\ Says(down'[Cli], "code_invalid") => Says(down[Cli], "code_invalid")
      /\ Says(down'[Cli], "phone_claimed") =>
           Says(down[Cli], "phone_claimed") \/ reg.cliByPairing = Cli
      /\ Once(down[Cli], "code_invalid") => Once(down'[Cli], "code_invalid")
  BY HeardMeans
<1>2. /\ Quiet(Cli) => Quiet(Cli)'
      /\ SubmitPending' => SubmitPending
  BY UpKinds DEF Quiet, SubmitPending, SubmitSteps, CliSteps, HelloSteps
<1>3. up'[Cli] # NoMsg => up[Cli] # NoMsg
  OBVIOUS
<1>4. QED
  BY <1>1, <1>2, <1>3 DEF CliTurn

\* The CLI's turn, when its message is at work: the prompt for a code, and what leads to it,
\* wait for the end of it.
LEMMA CliAtWork ==
  ASSUME CliTurn, ~Quiet(Cli), cli' = cli,
         up'[Cli] # NoMsg => pc'[Cli] = "idle",
         sock'[Cli] = "none" => sock[Cli] = "none",
         SubmitPending' => SubmitPending,
         reg'.cliByPairing = Cli => reg.cliByPairing = Cli \/ Quiet(Cli)',
         NEW T, Heard(down[Cli], down'[Cli], T), "phone_claimed" \notin T,
         Says(down'[Cli], "code_invalid") =>
           Says(down[Cli], "code_invalid") \/ (Quiet(Cli)' /\ SubmitPending),
         Once(down'[Cli], "code_invalid")
  PROVE  CliTurn'
<1>1. Says(down'[Cli], "phone_claimed") => Says(down[Cli], "phone_claimed")
  BY HeardMeans
<1>2. /\ cli.phase \notin {"init", "entering_code"} /\ ~Says(down[Cli], "code_invalid")
      /\ cli.phase \in {"connecting", "waiting_phone"} =>
           reg.cliByPairing # Cli /\ ~Says(down[Cli], "phone_claimed") /\ ~SubmitPending
  BY DEF CliTurn
<1>3. QED
  BY <1>1, <1>2 DEF CliTurn

\* A phone's turn, when it is not told that it claimed, and a code or 'paired' only once
\* its key was sent; its page may end.
LEMMA PhoneUndisturbed ==
  ASSUME NEW p \in Phones, PhoneTurn(p),
         phone'[p].page \in {phone[p].page, "failed", "disconnected"},
         phone'[p].code = phone[p].code, phone'[p].session = phone[p].session,
         up'[p] \in {up[p], NoMsg}, pc'[p] \in {pc[p], "idle"},
         sock[p] = "none" => sock'[p] = "none", linked'[p] => linked[p],
         KeyInUse(p)' => Keyed(p), claimants \subseteq claimants',
         NEW T, Heard(down[p], down'[p], T), "phone_claim_ack" \notin T,
         "code_challenge" \in T \/ "paired" \in T => Keyed(p)
  PROVE  PhoneTurn(p)'
<1>1. /\ Says(down'[p], "phone_claim_ack") => Says(down[p], "phone_claim_ack")
      /\ Says(down'[p], "code_challenge") => Says(down[p], "code_challenge") \/ Keyed(p)
      /\ Says(down'[p], "paired") => Says(down[p], "paired") \/ Keyed(p)
      /\ Once(down[p], "phone_claim_ack") => Once(down'[p], "phone_claim_ack")
  BY HeardMeans
<1>2. Quiet(p) => Quiet(p)'
  BY DEF Quiet
<1>3. Keyed(p)' => Keyed(p)
  BY <1>1 DEF Keyed, PushSteps
<1>4. Claiming(p)' => Claiming(p)
  BY <1>1, UpKinds DEF Claiming, ClaimSteps
<1>5. QED
  BY <1>1, <1>2, <1>3, <1>4 DEF PhoneTurn, PushSteps

-----------------------------------------------------------------------------
\* TurnInv, one lemma per actor

\* One phone at most is vouched for.
LEMMA OneVouched ==
  ASSUME ClaimInv, NEW p \in Phones, NEW q \in Phones, Vouched(p), Vouched(q)
  PROVE  p = q /\ p \in claimants
  BY DEF ClaimInv

\* The CLI's handlers bring no new key into use.
LEMMA CliHandlerKeys ==
  ASSUME TypeOK, CliHandler, NEW p \in Phones, KeyInUse(p)'
  PROVE  KeyInUse(p)
<1>0. /\ p \in Sockets /\ Cli \in Sockets /\ p # Cli /\ None # p
      /\ up'[p] = up[p] /\ pc \in [Sockets -> {"idle", "reject"} \cup CliSteps \cup PhoneSteps]
      /\ loc \in [Sockets -> Values]
  BY SocketFacts, CliHandlerFrame DEF TypeOK, FramesOK
<1>1. CASE HelloGetState \/ HelloSecret \/ HelloBind \/ Reject(Cli)
  BY <1>0, <1>1 DEF HelloGetState, HelloSecret, HelloBind, Reject, Refuse, OnlyStore, store,
     memory, Done, Goto, KeyInUse
<1>2. CASE SubmitSelect
  <2>1. pc'[Cli] # "commit" /\ keys' = keys /\ sessions' = sessions
    <3>1. PICK step : step # "commit" /\ Goto(Cli, step, None)
      BY <1>2 DEF SubmitSelect, Verdict
    <3>2. QED
      BY <1>0, <1>2, <3>1 DEF SubmitSelect, OnlyStore, memory, Goto
  <2>2. QED
    BY <1>0, <2>1 DEF KeyInUse
<1>3. CASE SubmitAttempt \/ SubmitInvalid \/ LockedDestroy \/ LockedSend
  BY <1>0, <1>3 DEF SubmitAttempt, SubmitInvalid, LockedDestroy, LockedSend, OnlyStore, store,
     memory, Done, Goto, KeyInUse
<1>4. CASE SubmitValid
  BY <1>0, <1>4 DEF SubmitValid, store, memory, Goto, KeyInUse
<1>5. ASSUME NEW s \in Sessions, Commit(s) PROVE KeyInUse(p)
  <2>1. /\ pc[Cli] = "commit" /\ keys' = keys /\ pc'[Cli] # "commit"
        /\ \A t \in Sessions : sessions'[t].key = sessions[t].key
                               \/ (sessions'[t].key = loc[Cli])
    BY <1>0, <1>5 DEF Commit, OnlyStore, memory, Goto, TypeOK, StoreOK
  <2>2. QED
    BY <1>0, <2>1 DEF KeyInUse
<1>6. CASE Promote \/ Destroy \/ Forget
  BY <1>0, <1>6 DEF Promote, Destroy, Forget, OnlyStore, store, memory, Done, Goto, KeyInUse
<1>7. QED
  BY <1>1, <1>2, <1>3, <1>4, <1>5, <1>6 DEF CliHandler

\* The CLI's handlers run on a request of the CLI's, which is the only one it has, and
\* start none.
LEMMA CliHandlerTurn ==
  ASSUME TypeOK, TurnInv, CliHandler
  PROVE  /\ ~Quiet(Cli) /\ (pc[Cli] # "idle" => up[Cli] = NoMsg)
         /\ up'[Cli] = NoMsg
         /\ SubmitPending' => SubmitPending
         /\ HelloPending' => HelloPending
<1>0. /\ Cli \in Sockets
      /\ pc \in [Sockets -> {"idle", "reject"} \cup CliSteps \cup PhoneSteps]
      /\ loc \in [Sockets -> Values] /\ up \in [Sockets -> UpMsgs]
      /\ CliTurn /\ up'[Cli] \in {up[Cli], NoMsg}
  BY SocketFacts, CliHandlerFrame DEF TypeOK, FramesOK, NetOK, TurnInv
<1>1. ~Quiet(Cli) /\ (pc[Cli] # "idle" => up[Cli] = NoMsg)
  BY <1>0, UpKinds DEF CliHandler, Quiet, CliTurn, HelloGetState, HelloSecret, HelloBind, Reject,
     SubmitSelect, SubmitAttempt, SubmitInvalid, LockedDestroy, LockedSend, SubmitValid, Commit,
     Promote, Destroy, Forget
<1>2. up'[Cli] = NoMsg
  <2>1. CASE HelloGetState \/ SubmitSelect
    BY <1>0, <2>1 DEF HelloGetState, SubmitSelect, Consume
  <2>2. CASE ~(HelloGetState \/ SubmitSelect)
    <3>1. pc[Cli] # "idle"
      BY <2>2 DEF CliHandler, HelloSecret, HelloBind, Reject, SubmitAttempt, SubmitInvalid,
         LockedDestroy, LockedSend, SubmitValid, Commit, Promote, Destroy, Forget
    <3>2. QED
      BY <1>0, <1>1, <3>1
  <2>3. QED
    BY <2>1, <2>2
<1>3. SubmitPending' => SubmitPending
  <2>1. CASE HelloGetState \/ HelloSecret \/ HelloBind \/ Reject(Cli)
    BY <1>0, <1>2, <2>1, UpKinds DEF HelloGetState, HelloSecret, HelloBind, Reject, Refuse, Consume,
       Done, Goto, SubmitPending, SubmitSteps, HelloSteps, CliSteps
  <2>2. CASE ~(HelloGetState \/ HelloSecret \/ HelloBind \/ Reject(Cli))
    BY <2>2 DEF CliHandler, SubmitSelect, SubmitAttempt, SubmitInvalid, LockedDestroy, LockedSend,
       SubmitValid, Commit, Promote, Destroy, Forget, SubmitPending, SubmitSteps, HelloSteps, CliSteps
  <2>3. QED
    BY <2>1, <2>2
<1>4. HelloPending' => HelloPending
  <2>1. CASE HelloGetState \/ HelloSecret \/ HelloBind
    BY <2>1 DEF HelloGetState, HelloSecret, HelloBind, HelloPending, HelloSteps
  <2>2. CASE SubmitSelect
    <3>1. PICK step : step \notin HelloSteps /\ Goto(Cli, step, None)
      BY <2>2 DEF SubmitSelect, Verdict, HelloSteps
    <3>2. QED
      BY <1>0, <1>2, <3>1, UpKinds DEF Goto, HelloPending
  <2>3. CASE Reject(Cli) \/ SubmitAttempt \/ SubmitInvalid \/ LockedDestroy \/ LockedSend
    BY <1>0, <1>2, <2>3, UpKinds DEF Reject, Refuse, SubmitAttempt, SubmitInvalid, LockedDestroy,
       LockedSend, Done, Goto, HelloPending, HelloSteps
  <2>4. CASE SubmitValid \/ (\E s \in Sessions : Commit(s)) \/ Promote \/ Destroy \/ Forget
    BY <1>0, <1>2, <2>4, UpKinds DEF SubmitValid, Commit, Promote, Destroy, Forget, Done, Goto,
       HelloPending, HelloSteps
  <2>5. QED
    BY <2>1, <2>2, <2>3, <2>4 DEF CliHandler
<1>5. QED
  BY <1>1, <1>2, <1>3, <1>4

\* code_invalid goes to the CLI, and to nobody else.
LEMMA InvalidNews ==
  ASSUME TypeOK, SubmitInvalid
  PROVE  /\ Heard(down[Cli], down'[Cli], {"code_invalid"})
         /\ ~Says(down[Cli], "code_invalid") /\ Once(down[Cli], "code_invalid") =>
              Once(down'[Cli], "code_invalid")
         /\ \A p \in Phones : down'[p] = down[p]
<1> DEFINE m == Note("code_invalid")
<1> DEFINE U == {"code_invalid"}
<1>1. m \in DownMsgs /\ m.type = "code_invalid" /\ down[Cli] \in Seq(DownMsgs)
      /\ down \in [Sockets -> Seq(DownMsgs)] /\ Cli \in Sockets
  BY MessageTypes, SocketFacts DEF Note, Msg, TypeOK, NetOK
<1>2. down'[Cli] \in {down[Cli], down[Cli] \o <<m>>} /\ \A p \in Phones : down'[p] = down[p]
  BY <1>1, SocketFacts DEF SubmitInvalid, Post
<1>3. m.type \in U
  BY <1>1
<1>4. ASSUME ~Says(down[Cli], "code_invalid"), Once(down[Cli], "code_invalid")
      PROVE  Once(down'[Cli], "code_invalid")
  <2>1. Once(down[Cli] \o <<m>>, "code_invalid")
    BY <1>1, <1>4, OnceAppend
  <2>2. QED
    BY <1>2, <1>4, <2>1
<1> HIDE DEF U, m
<1>5. Heard(down[Cli], down'[Cli], U)
  BY <1>1, <1>2, <1>3, HeardAppend, HeardSame
<1>6. QED
  BY <1>2, <1>4, <1>5 DEF U

\* The CLI's handlers keep the CLI's turn.
LEMMA TurnCliHandler ==
  ASSUME TypeOK, TurnInv, CliHandler
  PROVE  CliTurn'
<1> DEFINE T == {"cli_hello_ack", "error", "code_locked", "code_valid", "close"}
<1>0. /\ Cli \in Sockets
      /\ pc \in [Sockets -> {"idle", "reject"} \cup CliSteps \cup PhoneSteps]
      /\ loc \in [Sockets -> Values] /\ up \in [Sockets -> UpMsgs]
      /\ cli' = cli /\ CliTurn
      /\ sock'[Cli] = "none" => sock[Cli] = "none"
  BY SocketFacts, CliHandlerFrame DEF TypeOK, FramesOK, NetOK, TurnInv
<1>1. ~Quiet(Cli) /\ Once(down[Cli], "code_invalid")
      /\ (pc[Cli] # "idle" => up[Cli] = NoMsg)
  BY <1>0, CliHandlerTurn DEF CliTurn
<1>2. up'[Cli] # NoMsg => pc'[Cli] = "idle"
  BY CliHandlerTurn
<1>3. SubmitPending' => SubmitPending
  BY CliHandlerTurn
<1>4. reg'.cliByPairing = Cli => reg.cliByPairing = Cli \/ Quiet(Cli)'
  <2>1. CASE HelloBind
    <3>1. pc'[Cli] = "idle" /\ up'[Cli] = NoMsg
      BY <1>0, <1>1, <2>1 DEF HelloBind, Refuse, Done, Goto
    <3>2. QED
      BY <3>1 DEF Quiet
  <2>2. CASE Promote
    BY <2>2, SocketFacts DEF Promote, PromoteToSession, CopyToSession, TypeOK, MemoryOK, Registries
  <2>3. CASE ~(HelloBind \/ Promote)
    BY <2>3 DEF CliHandler, HelloGetState, HelloSecret, Reject, SubmitSelect, SubmitAttempt,
       SubmitInvalid, LockedDestroy, LockedSend, SubmitValid, Commit, Destroy, Forget, OnlyStore,
       memory
  <2>4. QED
    BY <2>1, <2>2, <2>3
<1>5. CASE pc[Cli] = "promote"
  <2>1. Promote
    BY <1>1, <1>5, UpKinds DEF CliHandler, HelloGetState, HelloSecret, HelloBind, Reject,
       SubmitSelect, SubmitAttempt, SubmitInvalid, LockedDestroy, LockedSend, SubmitValid, Commit,
       Destroy, Forget
  <2>2. Heard(down[Cli], down'[Cli], {"paired"})
    BY <1>0, <2>1, PromoteNews
  <2>3. /\ Says(down'[Cli], "code_invalid") => Says(down[Cli], "code_invalid")
        /\ Once(down'[Cli], "code_invalid")
    BY <1>1, <2>2, HeardMeans
  <2>4. QED
    BY <1>0, <1>1, <1>2, <1>3, <1>4, <2>2, <2>3, CliAtWork
<1>6. CASE pc[Cli] = "remaining"
  <2>1. SubmitInvalid
    BY <1>1, <1>6, UpKinds DEF CliHandler, HelloGetState, HelloSecret, HelloBind, Reject,
       SubmitSelect, SubmitAttempt, Promote, LockedDestroy, LockedSend, SubmitValid, Commit,
       Destroy, Forget
  <2>4. ~Says(down[Cli], "code_invalid") /\ SubmitPending
    BY <1>0, <1>1, <1>6 DEF CliTurn, SubmitPending, SubmitSteps, CliSteps, HelloSteps
  <2>5. Once(down'[Cli], "code_invalid") /\ Heard(down[Cli], down'[Cli], {"code_invalid"})
    BY <1>1, <2>1, <2>4, InvalidNews
  <2>6. Quiet(Cli)'
    BY <1>0, <2>1, CliHandlerTurn DEF SubmitInvalid, Done, Goto, Quiet
  <2>8. QED
    BY <1>0, <1>1, <1>2, <1>3, <1>4, <2>4, <2>5, <2>6, CliAtWork
<1>7. CASE pc[Cli] \notin {"promote", "remaining"}
  <2>1. Heard(down[Cli], down'[Cli], T)
    BY <1>7, CliHandlerNews
  <2>2. /\ Says(down'[Cli], "code_invalid") => Says(down[Cli], "code_invalid")
        /\ Once(down'[Cli], "code_invalid")
    BY <1>1, <2>1, HeardMeans
  <2>3. QED
    BY <1>0, <1>1, <1>2, <1>3, <1>4, <2>1, <2>2, CliAtWork
<1>8. QED
  BY <1>5, <1>6, <1>7

\* They keep the phones' turns: 'paired' goes to the phone whose key is the session's.
LEMMA CliHandlerPhones ==
  ASSUME TypeOK, ClaimInv, TurnInv, CliHandler, NEW p \in Phones
  PROVE  PhoneTurn(p)'
<1>0. /\ p \in Sockets /\ PhoneTurn(p)
      /\ phone'[p] = phone[p] /\ up'[p] = up[p] /\ pc'[p] = pc[p] /\ linked'[p] = linked[p]
      /\ claimants' = claimants
      /\ sock[p] = "none" => sock'[p] = "none"
      /\ KeyInUse(p)' => Keyed(p)
  BY SocketFacts, CliHandlerFrame, CliHandlerKeys DEF TurnInv, Keyed
<1>1. CASE pc[Cli] # "promote"
  <2>1. Heard(down[p], down'[p], {"code_locked", "code_valid", "close"})
    BY <1>1, CliHandlerNews
  <2>2. QED
    BY <1>0, <2>1, PhoneUndisturbed
<1>2. CASE pc[Cli] = "promote"
  <2>1. Promote
    <3>1. pc[Cli] # "idle"
      BY <1>2
    <3>2. QED
      BY <1>2, <3>1 DEF CliHandler, HelloGetState, HelloSecret, HelloBind, Reject,
       SubmitSelect, SubmitAttempt, SubmitInvalid, LockedDestroy, LockedSend, SubmitValid, Commit,
       Destroy, Forget
  <2> DEFINE k == sessions[loc[Cli]].key
  <2>2. /\ Heard(down[p], down'[p], {"paired"})
        /\ p \notin {reg.cliByPairing, reg.phoneByPairing} => down'[p] = down[p]
        /\ loc[Cli] \in Sessions /\ k \in Phones
    BY <1>0, <1>2, <2>1, PromoteNews DEF TurnInv
  <2>3. CASE reg.phoneByPairing = p
    <3>1. Vouched(p) /\ Vouched(k)
      BY <2>2, <2>3 DEF Vouched, OnFile, KeyInUse
    <3>2. KeyInUse(p)
      BY <2>2, <3>1, OneVouched DEF KeyInUse
    <3>3. QED
      BY <1>0, <2>2, <3>2, PhoneUndisturbed DEF Keyed
  <2>4. CASE reg.phoneByPairing # p
    <3>1. reg.cliByPairing # p
      BY SocketFacts DEF TypeOK, MemoryOK, Registries
    <3>2. Heard(down[p], down'[p], {})
      BY <2>2, <2>4, <3>1, HeardSame
    <3>3. QED
      BY <1>0, <3>2, PhoneUndisturbed
  <2>5. QED
    BY <2>3, <2>4
<1>3. QED
  BY <1>1, <1>2

\* The CLI's handlers keep TurnInv.
LEMMA TurnKeptByCliHandler ==
  ASSUME TypeOK, ClaimInv, TurnInv, CliHandler
  PROVE  TurnInv'
<1>1. pc'[Cli] = "promote" => sessions'[loc'[Cli]].key \in Phones
  <2>0. /\ Cli \in Sockets
        /\ pc \in [Sockets -> {"idle", "reject"} \cup CliSteps \cup PhoneSteps]
        /\ loc \in [Sockets -> Values]
        /\ pc[Cli] = "commit" => loc[Cli] \in Phones
    BY SocketFacts DEF TypeOK, FramesOK, FrameFits
  <2>1. ASSUME NEW s \in Sessions, Commit(s) PROVE sessions'[loc'[Cli]].key \in Phones
    BY <2>0, <2>1 DEF Commit, Goto, TypeOK, StoreOK
  <2>2. CASE \A s \in Sessions : ~Commit(s)
    <3>1. CASE SubmitSelect
      <4>1. PICK step : step # "promote" /\ Goto(Cli, step, None)
        BY <3>1 DEF SubmitSelect, Verdict
      <4>2. QED
        BY <2>0, <4>1 DEF Goto
    <3>2. CASE HelloGetState \/ HelloSecret \/ HelloBind \/ Reject(Cli)
      BY <2>0, <3>2 DEF HelloGetState, HelloSecret, HelloBind, Reject, Refuse, Done, Goto
    <3>3. CASE SubmitAttempt \/ SubmitInvalid \/ LockedDestroy \/ LockedSend \/ SubmitValid
      BY <2>0, <3>3 DEF SubmitAttempt, SubmitInvalid, LockedDestroy, LockedSend, SubmitValid, Done,
         Goto
    <3>4. CASE Promote \/ Destroy \/ Forget
      BY <2>0, <3>4 DEF Promote, Destroy, Forget, Done, Goto
    <3>5. QED
      BY <2>2, <3>1, <3>2, <3>3, <3>4 DEF CliHandler
  <2>3. QED
    BY <2>1, <2>2
<1>2. QED
  BY <1>1, TurnCliHandler, CliHandlerPhones DEF TurnInv

\* A phone's handlers bring no key into use but the one that the phone has sent.
LEMMA PhoneHandlerKeys ==
  ASSUME TypeOK, NEW p \in Phones, PhoneHandler(p), NEW q \in Phones, KeyInUse(q)'
  PROVE  KeyInUse(q)
<1>0. /\ p \in Sockets /\ q \in Sockets /\ Cli \in Sockets /\ p # Cli
      /\ pc'[Cli] = pc[Cli] /\ loc'[Cli] = loc[Cli] /\ sessions' = sessions
      /\ up'[q] = up[q] \/ up'[q] = NoMsg
  BY SocketFacts, PhoneHandlerFrame
<1>1. keys' = keys \/ (keys' = p /\ up[p].type = "public_key")
  BY DEF PhoneHandler, ClaimGetState, ClaimSelect, ClaimUpdate, ClaimBind, Reject, PublicKey,
     PushSetCode, PushSend, OnlyStore, memory
<1>2. QED
  BY <1>0, <1>1, UpKinds DEF KeyInUse

\* A step of a phone's claim keeps its turn: the key is not sent before the claim is answered.
LEMMA TurnClaim ==
  ASSUME TypeOK, ClaimInv, TurnInv, NEW p \in Phones,
         ClaimGetState(p) \/ ClaimSelect(p) \/ ClaimUpdate(p) \/ ClaimBind(p)
  PROVE  PhoneTurn(p)'
<1>0. /\ p \in Sockets /\ p # Cli /\ PhoneTurn(p) /\ PhoneHandler(p)
      /\ pc \in [Sockets -> {"idle", "reject"} \cup CliSteps \cup PhoneSteps]
      /\ up \in [Sockets -> UpMsgs] /\ down \in [Sockets -> Seq(DownMsgs)]
      /\ up'[p] \in {up[p], NoMsg}
      /\ phone' = phone
  BY SocketFacts, PhoneHandlerFrame DEF TypeOK, FramesOK, NetOK, TurnInv, PhoneHandler
<1>1. /\ ~Quiet(p) /\ Claiming(p) /\ ~Keyed(p)
      /\ phone[p].page \notin {"scan", "keygen"} /\ ~Says(down[p], "phone_claim_ack")
  BY <1>0, UpKinds DEF ClaimGetState, ClaimSelect, ClaimUpdate, ClaimBind, Claiming, ClaimSteps,
     Quiet, PhoneTurn
<1>2. up'[p] = NoMsg /\ pc'[p] \notin PushSteps
  <2>1. CASE ClaimGetState(p)
    BY <1>0, <2>1 DEF ClaimGetState, Consume, Goto, PushSteps
  <2>2. CASE ClaimSelect(p) \/ ClaimUpdate(p)
    BY <1>0, <2>2 DEF ClaimSelect, ClaimUpdate, Goto, PushSteps, PhoneTurn
  <2>3. CASE ClaimBind(p)
    <3>1. up[p] = NoMsg /\ up' = up
      BY <1>0, <2>3 DEF ClaimBind, PhoneTurn
    <3>2. keys = None
      <4>1. SUFFICES ASSUME keys \in Phones PROVE FALSE
        BY DEF TypeOK, MemoryOK
      <4>2. Vouched(p) /\ Vouched(keys)
        BY <2>3, <4>1 DEF ClaimBind, Vouched, KeyInUse
      <4>3. keys = p
        BY <4>1, <4>2, OneVouched
      <4>4. QED
        BY <1>1, <4>3 DEF Keyed, KeyInUse
    <3>3. Done(p)
      BY <2>3, <3>2 DEF ClaimBind, Refuse, PushCodeIfReady
    <3>4. QED
      BY <1>0, <3>1, <3>3 DEF Done, Goto, PushSteps
  <2>4. QED
    BY <2>1, <2>2, <2>3
<1>3. /\ Heard(down[p], down'[p], {"phone_claim_ack", "error", "close"})
      /\ Says(down'[p], "phone_claim_ack") => pc'[p] = "idle"
      /\ Once(down'[p], "phone_claim_ack")
  <2>0. Once(down[p], "phone_claim_ack")
    BY <1>0 DEF PhoneTurn
  <2>1. CASE ClaimBind(p)
    <3>1. pc'[p] = "idle"
      <4>1. Done(p) \/ \E c \in Codes : Goto(p, "push_code", c)
        BY <2>1 DEF ClaimBind, Refuse, PushCodeIfReady
      <4>2. QED
        BY <1>0, <1>2, <4>1 DEF Done, Goto, PushSteps
    <3>2. Heard(down[p], down'[p], {"phone_claim_ack", "error", "close"})
      BY <1>0, <2>1, PhoneHandlerNews DEF ClaimBind
    <3>3. CASE Refuse(p)
      <4>1. Heard(down[p], down'[p], {"error", "close"})
        <5> DEFINE E == {"error", "close"}
        <5>1. Note("error").type \in E /\ "close" \in E /\ Note("error") \in DownMsgs
          BY MessageTypes DEF Note, Msg
        <5> HIDE DEF E
        <5>2. down' = Post(down, p, <<Note("error"), Close>>)
          BY <3>3 DEF Refuse
        <5>3. Heard(down[p], down'[p], E)
          BY <1>0, <5>1, <5>2, HeardPostTwo
        <5>4. QED
          BY <5>3 DEF E
      <4>2. QED
        BY <2>0, <3>1, <3>2, <4>1, HeardMeans
    <3>4. CASE ~Refuse(p)
      <4> DEFINE m == Note("phone_claim_ack")
      <4>1. m \in DownMsgs /\ down[p] \in Seq(DownMsgs)
        BY <1>0, MessageTypes
      <4>2. reg.cliByPairing \in {Cli, None}
        BY DEF TypeOK, MemoryOK, Registries
      <4>3. down'[p] \in {down[p], down[p] \o <<m>>}
        BY <1>0, <2>1, <3>4, <4>2, SocketFacts DEF ClaimBind, Post
      <4>4. Once(down'[p], "phone_claim_ack")
        BY <1>1, <2>0, <4>1, <4>3, OnceAppend
      <4>5. QED
        BY <3>1, <3>2, <4>4
    <3>5. QED
      BY <3>3, <3>4
  <2>2. CASE ClaimGetState(p) \/ ClaimSelect(p) \/ ClaimUpdate(p)
    <3>1. down' = down
      BY <2>2 DEF ClaimGetState, ClaimSelect, ClaimUpdate, OnlyStore
    <3>2. QED
      BY <1>1, <2>0, <3>1, HeardSame
  <2>3. QED
    BY <2>1, <2>2
<1>4. ~Keyed(p)'
  <2>1. ~KeyInUse(p)'
    BY <1>0, <1>1, PhoneHandlerKeys DEF Keyed
  <2>2. ~Says(down'[p], "code_challenge") /\ ~Says(down'[p], "paired")
    BY <1>1, <1>3, HeardMeans DEF Keyed
  <2>3. QED
    BY <1>0, <1>1, <1>2, <2>1, <2>2 DEF Keyed
<1>5. QED
  BY <1>0, <1>1, <1>2, <1>3, <1>4 DEF PhoneTurn, Quiet

\* So does a step of onPublicKey and of the code's way to the phone.
LEMMA TurnKey ==
  ASSUME TypeOK, ClaimInv, TurnInv, NEW p \in Phones, PublicKey(p) \/ PushSetCode(p)
  PROVE  PhoneTurn(p)'
<1>0. /\ p \in Sockets /\ p # Cli /\ PhoneTurn(p) /\ PhoneHandler(p)
      /\ pc \in [Sockets -> {"idle", "reject"} \cup CliSteps \cup PhoneSteps]
      /\ up \in [Sockets -> UpMsgs]
      /\ phone' = phone
  BY SocketFacts, PhoneHandlerFrame DEF TypeOK, FramesOK, NetOK, TurnInv, PhoneHandler
<1>1. /\ ~Quiet(p) /\ Keyed(p) /\ ~Claiming(p) /\ p \in claimants
      /\ phone[p].page \notin {"scan", "keygen"} /\ ~Says(down[p], "phone_claim_ack")
  <2>1. Keyed(p) /\ ~Quiet(p)
    BY UpKinds DEF PublicKey, PushSetCode, Keyed, KeyInUse, PushSteps, Quiet
  <2>2. p \in claimants
    <3>1. CASE PublicKey(p)
      BY <3>1 DEF PublicKey, KeyInUse, Vouched, ClaimInv
    <3>2. CASE PushSetCode(p)
      BY <1>0, <3>2 DEF PushSetCode, PhoneTurn, PushSteps
    <3>3. QED
      BY <3>1, <3>2
  <2>3. QED
    BY <1>0, <2>1, <2>2 DEF PhoneTurn, Claiming
<1>2. /\ up'[p] = NoMsg /\ pc'[p] \in PushSteps \cup {"idle"}
      /\ down' = down /\ claimants' = claimants
  <2>1. CASE PublicKey(p)
    BY <1>0, <2>1 DEF PublicKey, PushCodeIfReady, Consume, Done, Goto, PushSteps, history
  <2>2. CASE PushSetCode(p)
    BY <1>0, <2>2 DEF PushSetCode, OnlyStore, Done, Goto, PushSteps, PhoneTurn
  <2>3. QED
    BY <2>1, <2>2
<1>3. ~Claiming(p)'
  BY <1>0, <1>1, <1>2, UpKinds DEF Claiming, ClaimSteps, PushSteps
<1>4. QED
  BY <1>0, <1>1, <1>2, <1>3 DEF PhoneTurn

\* A phone's handlers keep TurnInv.
LEMMA TurnKeptByPhoneHandler ==
  ASSUME TypeOK, ClaimInv, TurnInv, NEW p \in Phones, PhoneHandler(p)
  PROVE  TurnInv'
<1>0. /\ UNCHANGED <<cli, phone, linked, sessions>>
      /\ p \in Sockets /\ Cli \in Sockets /\ p # Cli
      /\ \A k \in Sockets : k # p => pc'[k] = pc[k] /\ loc'[k] = loc[k] /\ up'[k] = up[k]
      /\ \A k \in Sockets : sock'[k] = "none" <=> sock[k] = "none"
      /\ \A q \in Phones : q \in Sockets /\ q # Cli
  BY SocketFacts, PhoneHandlerFrame
<1>1. reg'.cliByPairing = reg.cliByPairing /\ claimants \subseteq claimants'
  BY DEF PhoneHandler, ClaimGetState, ClaimSelect, ClaimUpdate, ClaimBind, Reject, PublicKey,
     PushSetCode, PushSend, OnlyStore, memory, history, SetPhoneForPairing, TypeOK, MemoryOK, Registries
<1>2. CliTurn'
  <2>1. CASE reg.cliByPairing = Cli
    <3>1. Heard(down[Cli], down'[Cli], {"phone_claimed"})
      BY PhoneHandlerNews
    <3>2. QED
      BY <1>0, <1>1, <2>1, <3>1, CliUndisturbed DEF TurnInv
  <2>2. CASE reg.cliByPairing # Cli
    <3>1. Heard(down[Cli], down'[Cli], {})
      BY <2>2, PhoneHandlerNews, HeardSame
    <3>2. QED
      BY <1>0, <1>1, <3>1, CliUndisturbed DEF TurnInv
  <2>3. QED
    BY <2>1, <2>2
<1>3. ASSUME NEW q \in Phones, PushSend(p) \/ Reject(p) \/ q # p
      PROVE  PhoneTurn(q)'
  <2>1. KeyInUse(q)' => Keyed(q)
    BY PhoneHandlerKeys DEF Keyed
  <2>2. up'[q] \in {up[q], NoMsg} /\ pc'[q] \in {pc[q], "idle"}
    BY <1>0, <1>3 DEF PushSend, Reject, Refuse, Done, Goto, TypeOK, FramesOK
  <2>3. CASE pc[p] = "push_send"
    <3>1. Heard(down[q], down'[q], {"code_challenge"})
          /\ (q # reg.phoneByPairing => down'[q] = down[q])
      BY <2>3, PhoneHandlerNews
    <3>2. CASE q = p
      BY <1>0, <1>1, <2>1, <2>2, <2>3, <3>1, <3>2, PhoneUndisturbed DEF TurnInv, Keyed, PushSteps
    <3>3. CASE q # p
      <4>1. reg.phoneByPairing # q
        BY <2>3, <3>3 DEF TurnInv, PhoneTurn, PushSteps, ClaimInv, Vouched, OnFile
      <4>2. Heard(down[q], down'[q], {})
        BY <3>1, <4>1, HeardSame
      <4>3. QED
        BY <1>0, <1>1, <2>1, <2>2, <4>2, PhoneUndisturbed DEF TurnInv
    <3>4. QED
      BY <3>2, <3>3
  <2>4. CASE pc[p] # "push_send"
    <3>1. Heard(down[q], down'[q], {"error", "close"})
      <4>1. CASE pc[p] = "claim_bind"
        BY <1>3, <2>4, <4>1, PhoneHandlerNews, HeardSame DEF PushSend, Reject
      <4>2. CASE pc[p] # "claim_bind"
        BY <2>4, <4>2, PhoneHandlerNews
      <4>3. QED
        BY <4>1, <4>2
    <3>2. QED
      BY <1>0, <1>1, <2>1, <2>2, <3>1, PhoneUndisturbed DEF TurnInv
  <2>5. QED
    BY <2>3, <2>4
<1>4. \A q \in Phones : PhoneTurn(q)'
  BY <1>3, TurnClaim, TurnKey DEF PhoneHandler
<1>5. QED
  BY <1>0, <1>2, <1>4 DEF TurnInv

\* The handlers of a close event keep TurnInv.
LEMMA TurnKeptByClose ==
  ASSUME TypeOK, TurnInv, NEW k \in Sockets, CloseHandler(k)
  PROVE  TurnInv'
<1>0. /\ UNCHANGED <<cli, phone, linked, up, pc, loc, keys, claimants>>
      /\ \A j \in Sockets : Heard(down[j], down'[j], {"disconnect", "close"})
      /\ \A s \in Sessions : sessions'[s].key = sessions[s].key
      /\ \A j \in Sockets : sock'[j] = "none" <=> sock[j] = "none"
      /\ Cli \in Sockets /\ \A p \in Phones : p \in Sockets
  BY CloseFrame, SocketFacts
<1>1. reg'.cliByPairing = Cli => reg.cliByPairing = Cli
  BY SocketFacts DEF CloseHandler, SocketClose, EndUpdate, EndNotify, RemoveBySocket, RemoveSession,
     memory, TypeOK, MemoryOK, Registries
<1>2. CliTurn'
  BY <1>0, <1>1, CliUndisturbed DEF TurnInv
<1>3. ASSUME NEW p \in Phones PROVE PhoneTurn(p)'
  <2>1. KeyInUse(p)' => Keyed(p)
    BY <1>0 DEF KeyInUse, Keyed
  <2>2. QED
    BY <1>0, <2>1, PhoneUndisturbed DEF TurnInv
<1>4. QED
  <2>1. pc[Cli] = "promote" => loc[Cli] \in Sessions
    BY <1>0 DEF TypeOK, FramesOK, FrameFits
  <2>2. QED
    BY <1>0, <1>2, <1>3, <2>1 DEF TurnInv

\* So do the death of the backend and the expiry of the pairing.
LEMMA TurnKeptByFault ==
  ASSUME TypeOK, TurnInv, Crash \/ Expire
  PROVE  TurnInv'
<1>1. CASE Crash
  <2>0. /\ UNCHANGED <<cli, phone, linked, sessions, claimants>>
        /\ reg'.cliByPairing = None /\ keys' = None /\ None # Cli
        /\ \A k \in Sockets : /\ up'[k] = NoMsg /\ pc'[k] = "idle"
                              /\ sock'[k] = "none" <=> sock[k] = "none"
                              /\ Heard(down[k], down'[k], {"close"})
        /\ Cli \in Sockets /\ \A p \in Phones : p \in Sockets /\ p # None
    BY <1>1, CrashFrame, SocketFacts DEF NewRegistry
  <2>1. CliTurn'
    BY <2>0, CliUndisturbed DEF TurnInv
  <2>2. ASSUME NEW p \in Phones PROVE PhoneTurn(p)'
    <3>1. KeyInUse(p)' => Keyed(p)
      BY <2>0, UpKinds DEF KeyInUse, Keyed
    <3>2. QED
      BY <2>0, <3>1, PhoneUndisturbed DEF TurnInv
  <2>3. QED
    BY <2>0, <2>1, <2>2 DEF TurnInv
<1>2. CASE Expire
  BY <1>2 DEF Expire, memory, frames, net, clients, history, TurnInv, CliTurn, PhoneTurn, Quiet,
     HelloPending, SubmitPending, Claiming, Keyed, KeyInUse
<1>3. QED
  BY <1>1, <1>2

\* What a client finds at the head of its queue was said, and is said no more when it is read.
LEMMA ReadsHeard ==
  ASSUME NetOK, NEW k \in Sockets, NEW t, Arrives(k, t), Reads(k)
  PROVE  /\ Heard(down[k], down'[k], {}) /\ Says(down[k], t)
         /\ Head(down[k]) \in Range(down[k]) /\ Head(down[k]) \in DownMsgs
         /\ Head(down[k]).type = t /\ linked[k]
         /\ Once(down[k], t) => ~Says(down'[k], t)
         /\ down'[k] = Tail(down[k]) /\ UNCHANGED <<sock, linked, up>>
<1>1. down[k] \in Seq(DownMsgs) /\ down[k] # << >> /\ Head(down[k]).type = t /\ linked[k]
      /\ down'[k] = Tail(down[k])
  BY DEF Arrives, Reads, NetOK
<1>2. QED
  BY <1>1, HeardTail DEF Says, Reads

\* A client whose end closes hears nothing more.
LEMMA EndsHeard ==
  ASSUME NetOK, NEW k \in Sockets, Unlinks(k) \/ Breaks(k)
  PROVE  /\ Heard(down[k], down'[k], {}) /\ ~linked'[k] /\ sock' = sock
         /\ \A t : ~Says(down'[k], t) /\ Once(down'[k], t)
         /\ up'[k] \in {up[k], NoMsg}
<1>1. down'[k] = << >> /\ ~linked'[k] /\ sock' = sock /\ up'[k] \in {up[k], NoMsg}
  BY DEF Unlinks, Breaks, NetOK
<1>2. QED
  BY <1>1, HeardNothing

\* A message that nobody listens for is dropped.
LEMMA IgnoresHeard ==
  ASSUME NetOK, NEW k \in Sockets, down[k] # << >>, Reads(k)
  PROVE  Heard(down[k], down'[k], {}) /\ UNCHANGED <<sock, linked, up>>
<1>1. down[k] \in Seq(DownMsgs) /\ down'[k] = Tail(down[k])
  BY DEF NetOK, Reads
<1>2. QED
  BY <1>1, HeardTail DEF Reads

\* What the CLI does keeps its turn.
LEMMA TurnCli ==
  ASSUME TypeOK, TurnInv,
         CliReacts \/ CliConnect \/ (\E c \in Codes : CliSubmit(c)) \/ CliExit \/ CliLosesConnection
  PROVE  CliTurn'
<1>0. /\ UNCHANGED <<reg, pc>> /\ CliTurn /\ Cli \in Sockets /\ NetOK
      /\ up \in [Sockets -> UpMsgs] /\ sock \in [Sockets -> {"none", "open", "closing", "closed"}]
      /\ linked \in [Sockets -> BOOLEAN]
      /\ cli \in CliStates
  BY CliClientFrame, SocketFacts DEF TypeOK, NetOK, TurnInv, ClientsOK
<1>1. CASE CliConnect
  <2>1. /\ cli.phase = "init" /\ cli'.phase = "connecting" /\ sock'[Cli] # "none" /\ down' = down
        /\ up'[Cli].type = "cli_hello"
    BY <1>0, <1>1, UpKinds DEF CliConnect, Opens, CliStates
  <2>2. pc[Cli] = "idle" /\ Once(down[Cli], "code_invalid") /\ ~SubmitPending
        /\ reg.cliByPairing # Cli
        /\ ~Says(down[Cli], "phone_claimed") /\ ~Says(down[Cli], "code_invalid")
    BY <1>0, <2>1 DEF CliTurn, Quiet
  <2>3. ~SubmitPending'
    BY <1>0, <2>1, <2>2 DEF SubmitPending, SubmitSteps, CliSteps
  <2>4. QED
    BY <1>0, <2>1, <2>2, <2>3 DEF CliTurn
<1>2. CASE CliListen
  <2>1. cli.phase = "connecting" /\ cli'.phase = "waiting_phone" /\ UNCHANGED <<sock, linked, up, down>>
    BY <1>0, <1>2 DEF CliListen, net, CliStates
  <2>2. QED
    BY <1>0, <2>1 DEF CliTurn, Quiet, SubmitPending
<1>3. ASSUME NEW c \in Codes, CliSubmit(c) PROVE CliTurn'
  <2>1. cli.phase = "entering_code" /\ cli'.phase = "waiting_paired" /\ UNCHANGED <<sock, linked, down>>
    BY <1>0, <1>3 DEF CliSubmit, CliStates
  <2>2. QED
    BY <1>0, <2>1 DEF CliTurn, Quiet
<1>4. CASE CliStartControl
  <2>1. cli.phase = "starting" /\ cli'.phase = "connected" /\ UNCHANGED <<sock, linked, up, down>>
    BY <1>0, <1>4 DEF CliStartControl, net, CliStates
  <2>2. QED
    BY <1>0, <2>1 DEF CliTurn, Quiet, SubmitPending
<1>5. CASE CliPhoneClaimed
  <2>1. cli.phase = "waiting_phone" /\ cli'.phase = "entering_code"
        /\ Arrives(Cli, "phone_claimed") /\ Reads(Cli)
    BY <1>0, <1>5 DEF CliPhoneClaimed, CliStates
  <2>2. /\ Heard(down[Cli], down'[Cli], {}) /\ Says(down[Cli], "phone_claimed")
        /\ UNCHANGED <<sock, linked, up>>
    BY <1>0, <2>1, ReadsHeard
  <2>3. /\ Says(down'[Cli], "code_invalid") => Says(down[Cli], "code_invalid")
        /\ Once(down[Cli], "code_invalid") => Once(down'[Cli], "code_invalid")
    BY <2>2, HeardMeans
  <2>4. QED
    BY <1>0, <2>1, <2>2, <2>3 DEF CliTurn, Quiet
<1>6. CASE CliCodeInvalid
  <2>1. cli.phase = "waiting_paired" /\ cli'.phase = "entering_code"
        /\ Arrives(Cli, "code_invalid") /\ Reads(Cli)
    BY <1>0, <1>6 DEF CliCodeInvalid, CliStates
  <2>2. /\ Heard(down[Cli], down'[Cli], {}) /\ Says(down[Cli], "code_invalid")
        /\ UNCHANGED <<sock, linked, up>>
        /\ Once(down[Cli], "code_invalid") => ~Says(down'[Cli], "code_invalid")
    BY <1>0, <2>1, ReadsHeard
  <2>3. Once(down[Cli], "code_invalid") => Once(down'[Cli], "code_invalid")
    BY <2>2, HeardMeans
  <2>4. QED
    BY <1>0, <2>1, <2>2, <2>3 DEF CliTurn, Quiet
<1>7. CASE CliPaired
  <2>1. cli.phase \in CliPairing /\ cli'.phase = "starting" /\ Arrives(Cli, "paired") /\ Reads(Cli)
    BY <1>0, <1>7 DEF CliPaired, CliStates
  <2>2. Heard(down[Cli], down'[Cli], {}) /\ UNCHANGED <<sock, linked, up>>
    BY <1>0, <2>1, ReadsHeard
  <2>3. /\ Says(down'[Cli], "code_invalid") => Says(down[Cli], "code_invalid")
        /\ Once(down[Cli], "code_invalid") => Once(down'[Cli], "code_invalid")
    BY <2>2, HeardMeans
  <2>4. QED
    BY <1>0, <2>1, <2>2, <2>3 DEF CliTurn, Quiet, CliPairing
<1>8. CASE CliMissesClose
  <2>1. cli' = cli /\ Unlinks(Cli)
    BY <1>8 DEF CliMissesClose, clients
  <2>2. QED
    BY <1>0, <2>1, EndsHeard, CliUndisturbed
<1>9. CASE CliIgnores
  <2>1. cli' = cli /\ down[Cli] # << >> /\ Reads(Cli)
    BY <1>9 DEF CliIgnores, clients
  <2>2. QED
    BY <1>0, <2>1, IgnoresHeard, CliUndisturbed
<1>10. CASE CliGivesUp \/ CliExit \/ CliLosesConnection
  <2>1. /\ Unlinks(Cli) \/ Breaks(Cli)
        /\ cli' = cli \/ cli'.phase = "gone"
    BY <1>0, <1>10 DEF CliGivesUp, CliExit, CliLosesConnection, CliStates
  <2>2. /\ Heard(down[Cli], down'[Cli], {}) /\ ~linked'[Cli] /\ sock' = sock
        /\ up'[Cli] \in {up[Cli], NoMsg}
        /\ ~Says(down'[Cli], "code_invalid") /\ Once(down'[Cli], "code_invalid")
    BY <1>0, <2>1, EndsHeard
  <2>3. CASE cli' = cli
    BY <1>0, <2>2, <2>3, CliUndisturbed
  <2>4. CASE cli'.phase = "gone"
    BY <1>0, <2>2, <2>4 DEF CliTurn
  <2>5. QED
    BY <2>1, <2>3, <2>4
<1>11. QED
  BY <1>1, <1>2, <1>3, <1>4, <1>5, <1>6, <1>7, <1>8, <1>9, <1>10 DEF CliReacts

\* What the CLI does keeps TurnInv.
LEMMA TurnKeptByCli ==
  ASSUME TypeOK, TurnInv,
         CliReacts \/ CliConnect \/ (\E c \in Codes : CliSubmit(c)) \/ CliExit \/ CliLosesConnection
  PROVE  TurnInv'
<1>1. CliTurn'
  BY TurnCli
<1>2. /\ UNCHANGED <<sessions, keys, pc, loc, claimants, phone>>
      /\ \A p \in Phones : /\ sock'[p] = sock[p] /\ linked'[p] = linked[p]
                           /\ up'[p] = up[p] /\ down'[p] = down[p]
  BY CliClientFrame
<1>3. ASSUME NEW p \in Phones PROVE PhoneTurn(p)'
  <2>1. PhoneTurn(p)
    BY DEF TurnInv
  <2>2. QED
    BY <1>2, <2>1 DEF PhoneTurn, Quiet, Claiming, Keyed, KeyInUse
<1>4. QED
  BY <1>1, <1>2, <1>3 DEF TurnInv

\* What a phone's page does keeps the phone's turn.
LEMMA TurnPage ==
  ASSUME TypeOK, TurnInv, NEW p \in Phones,
         PhoneReacts(p) \/ PhoneOpens(p) \/ PhoneLosesConnection(p)
  PROVE  PhoneTurn(p)'
<1>0. /\ UNCHANGED <<sessions, keys, pc, loc, claimants>> /\ PhoneTurn(p) /\ NetOK /\ p \in Sockets
      /\ up \in [Sockets -> UpMsgs] /\ sock \in [Sockets -> {"none", "open", "closing", "closed"}]
      /\ linked \in [Sockets -> BOOLEAN] /\ phone \in [Phones -> PhoneStates]
      /\ phone[p] \in PhoneStates
  BY PageFrame, SocketFacts DEF TypeOK, NetOK, TurnInv, ClientsOK
<1>1. CASE PhoneOpens(p)
  <2>1. /\ phone[p].page = "scan" /\ phone'[p].page = "claiming"
        /\ phone'[p].code = phone[p].code /\ phone'[p].session = phone[p].session
        /\ down' = down /\ up'[p].type = "phone_claim"
    BY <1>0, <1>1, UpKinds DEF PhoneOpens, Opens, Turn, PhoneStates
  <2>2. /\ pc[p] = "idle" /\ ~Keyed(p) /\ ~Says(down[p], "phone_claim_ack")
        /\ Once(down[p], "phone_claim_ack")
    BY <1>0, <2>1 DEF PhoneTurn, Quiet, Claiming
  <2>3. ~Keyed(p)'
    BY <1>0, <2>1, <2>2 DEF Keyed, KeyInUse
  <2>4. QED
    BY <1>0, <2>1, <2>2, <2>3 DEF PhoneTurn, PushSteps
<1>2. CASE PhoneClaimed(p)
  <2>1. /\ Arrives(p, "phone_claim_ack") /\ Reads(p)
        /\ phone'[p].page = "keygen"
        /\ phone'[p].code = phone[p].code /\ phone'[p].session = phone[p].session
    BY <1>0, <1>2 DEF PhoneClaimed, Turn, PhoneStates
  <2>2. /\ Heard(down[p], down'[p], {}) /\ Says(down[p], "phone_claim_ack") /\ up' = up
        /\ Once(down[p], "phone_claim_ack") => ~Says(down'[p], "phone_claim_ack")
    BY <1>0, <2>1, ReadsHeard
  <2>3. /\ Quiet(p) /\ ~Keyed(p) /\ ~Says(down'[p], "phone_claim_ack")
        /\ Once(down'[p], "phone_claim_ack")
        /\ Says(down'[p], "code_challenge") => Says(down[p], "code_challenge")
        /\ Says(down'[p], "paired") => Says(down[p], "paired")
    BY <1>0, <2>2, HeardMeans DEF PhoneTurn, Claiming
  <2>4. ~Keyed(p)'
    BY <1>0, <2>1, <2>2, <2>3 DEF Keyed, KeyInUse
  <2>5. QED
    BY <1>0, <2>1, <2>2, <2>3, <2>4 DEF PhoneTurn, PushSteps, Quiet
<1>3. CASE PhoneSendsKey(p)
  <2>1. /\ phone[p].page = "keygen" /\ phone'[p].page \in {"waiting", "code"}
        /\ down' = down
        /\ up'[p] = up[p] \/ up'[p].type = "public_key"
    BY <1>0, <1>3, UpKinds DEF PhoneSendsKey, Sends, Turn, PhoneStates
  <2>2. Quiet(p) /\ ~Says(down[p], "phone_claim_ack") /\ Once(down[p], "phone_claim_ack")
    BY <1>0, <2>1 DEF PhoneTurn
  <2>3. ~Claiming(p)'
    BY <1>0, <2>1, <2>2, UpKinds DEF Claiming, ClaimSteps, Quiet
  <2>4. QED
    BY <1>0, <2>1, <2>2, <2>3 DEF PhoneTurn, PushSteps, Quiet
<1>4. CASE PhoneCode(p) \/ PhonePaired(p)
  <2>1. PICK t \in {"code_challenge", "paired"} :
          /\ Arrives(p, t) /\ Reads(p)
          /\ phone'[p].page \in {"code", "starting", phone[p].page}
    BY <1>0, <1>4 DEF PhoneCode, PhonePaired, PhoneStates
  <2>2. Heard(down[p], down'[p], {}) /\ Says(down[p], t) /\ up' = up
    BY <1>0, <2>1, ReadsHeard
  <2>3. /\ Keyed(p) /\ ~Claiming(p)
        /\ Says(down'[p], "phone_claim_ack") => Says(down[p], "phone_claim_ack")
        /\ Once(down[p], "phone_claim_ack") => Once(down'[p], "phone_claim_ack")
    BY <1>0, <2>2, HeardMeans DEF PhoneTurn, Keyed
  <2>4. ~Claiming(p)'
    BY <1>0, <2>1, <2>2, <2>3 DEF Claiming
  <2>5. QED
    BY <1>0, <2>1, <2>2, <2>3, <2>4 DEF PhoneTurn, PushSteps, Quiet, Claiming
<1>5. CASE PhoneEnds(p) \/ PhoneLosesConnection(p)
  <2>1. /\ Unlinks(p) \/ Breaks(p)
        /\ phone'[p].page \in {phone[p].page, "failed", "disconnected"}
        /\ phone'[p].code = phone[p].code /\ phone'[p].session = phone[p].session
    <3>1. PICK page \in {phone[p].page, "failed", "disconnected"} : Turn(p, page)
      <4>1. CASE PhoneEnds(p) /\ ~Arrives(p, "close")
        BY <4>1 DEF PhoneEnds
      <4>2. CASE Turn(p, CASE phone[p].page \in {"claiming", "keygen"} -> "failed"
                           [] phone[p].page = "connected" -> "disconnected"
                           [] OTHER -> phone[p].page)
        BY <4>2
      <4>3. CASE PhoneEnds(p) /\ Arrives(p, "close")
        BY <4>2, <4>3 DEF PhoneEnds
      <4>4. QED
        BY <1>5, <4>1, <4>2, <4>3 DEF PhoneLosesConnection
    <3>2. QED
      BY <1>0, <1>5, <3>1 DEF PhoneEnds, PhoneLosesConnection, Turn, PhoneStates
  <2>2. Heard(down[p], down'[p], {}) /\ ~linked'[p] /\ sock' = sock /\ up'[p] \in {up[p], NoMsg}
    BY <1>0, <2>1, EndsHeard
  <2>3. KeyInUse(p)' => Keyed(p)
    BY <1>0, <2>2, UpKinds DEF Keyed, KeyInUse
  <2>4. QED
    BY <1>0, <2>1, <2>2, <2>3, PhoneUndisturbed
<1>6. CASE PhoneLocked(p) \/ PhoneIgnores(p)
  <2>1. /\ down[p] # << >> /\ Reads(p)
        /\ phone'[p].page \in {phone[p].page, "failed", "disconnected"}
        /\ phone'[p].code = phone[p].code /\ phone'[p].session = phone[p].session
    BY <1>0, <1>6 DEF PhoneLocked, PhoneIgnores, Arrives, Turn, PhoneStates, clients
  <2>2. Heard(down[p], down'[p], {}) /\ UNCHANGED <<sock, linked, up>>
    BY <1>0, <2>1, IgnoresHeard
  <2>3. KeyInUse(p)' => Keyed(p)
    BY <1>0, <2>2 DEF Keyed, KeyInUse
  <2>4. QED
    BY <1>0, <2>1, <2>2, <2>3, PhoneUndisturbed
<1>7. CASE PhoneListens(p)
  <2>1. /\ phone[p].page = "starting" /\ phone'[p].page = "connected"
        /\ phone'[p].code = phone[p].code /\ phone'[p].session = phone[p].session
        /\ UNCHANGED <<sock, linked, up, down>>
    BY <1>0, <1>7 DEF PhoneListens, Turn, PhoneStates, net
  <2>2. Keyed(p) /\ ~Claiming(p)
    BY <1>0, <2>1 DEF PhoneTurn, Keyed
  <2>3. ~Claiming(p)'
    BY <1>0, <2>1, <2>2 DEF Claiming
  <2>4. QED
    BY <1>0, <2>1, <2>2, <2>3 DEF PhoneTurn, Quiet
<1>8. QED
  BY <1>1, <1>2, <1>3, <1>4, <1>5, <1>6, <1>7 DEF PhoneReacts

\* What a phone's page does keeps TurnInv.
LEMMA TurnKeptByPage ==
  ASSUME TypeOK, TurnInv, NEW p \in Phones,
         PhoneReacts(p) \/ PhoneOpens(p) \/ PhoneLosesConnection(p)
  PROVE  TurnInv'
<1>0. /\ UNCHANGED <<sessions, reg, keys, pc, loc, claimants, cli>>
      /\ \A q \in Phones : q # p => phone'[q] = phone[q]
      /\ \A k \in Sockets : k # p => /\ sock'[k] = sock[k] /\ linked'[k] = linked[k]
                                     /\ up'[k] = up[k] /\ down'[k] = down[k]
      /\ Cli \in Sockets /\ Cli # p /\ \A q \in Phones : q \in Sockets
  BY PageFrame, SocketFacts
<1>1. CliTurn'
  <2>1. CliTurn
    BY DEF TurnInv
  <2>2. QED
    BY <1>0, <2>1 DEF CliTurn, Quiet, SubmitPending
<1>2. ASSUME NEW q \in Phones, q # p PROVE PhoneTurn(q)'
  <2>1. PhoneTurn(q)
    BY DEF TurnInv
  <2>2. QED
    BY <1>0, <1>2, <2>1 DEF PhoneTurn, Quiet, Claiming, Keyed, KeyInUse
<1>3. QED
  BY <1>0, <1>1, <1>2, TurnPage DEF TurnInv

-----------------------------------------------------------------------------
\* Nobody has anything to say at first.
LEMMA TurnInit == Init => TurnInv
<1> SUFFICES ASSUME Init PROVE TurnInv
  OBVIOUS
<1>1. /\ Cli \in Sockets /\ None \notin Sockets /\ \A p \in Phones : p \in Sockets
      /\ \A k \in Sockets : /\ sock[k] = "none" /\ ~linked[k] /\ Quiet(k)
                            /\ up[k].type = "none" /\ pc[k] = "idle" /\ up[k] = NoMsg
                            /\ \A t : ~Says(down[k], t) /\ Once(down[k], t)
      /\ cli.phase = "init" /\ reg.cliByPairing = None
  BY SocketFacts, HeardNothing, UpKinds DEF Init, Quiet, NewRegistry
<1>2. CliTurn
  BY <1>1 DEF CliTurn, SubmitPending, SubmitSteps, CliSteps
<1>3. ASSUME NEW p \in Phones PROVE PhoneTurn(p)
  <2>1. phone[p].page = "scan" /\ phone[p].code = NoCode /\ phone[p].session = None
        /\ ~KeyInUse(p)
    BY <1>1 DEF Init, KeyInUse
  <2>2. ~Keyed(p)
    BY <1>1, <2>1 DEF Keyed, PushSteps
  <2>3. QED
    BY <1>1, <2>1, <2>2 DEF PhoneTurn, PushSteps
<1>4. QED
  BY <1>1, <1>2, <1>3 DEF TurnInv

\* Every step keeps TurnInv.
LEMMA TurnStep ==
  ASSUME TypeOK, ClaimInv, TurnInv, [Next]_vars
  PROVE  TurnInv'
<1>1. CASE UNCHANGED vars
  BY <1>1 DEF vars, store, memory, frames, net, clients, history, TurnInv, CliTurn, PhoneTurn, Quiet,
     SubmitPending, Claiming, Keyed, KeyInUse
<1>2. CASE CliHandler
  BY <1>2, TurnKeptByCliHandler
<1>3. CASE \E p \in Phones : PhoneHandler(p)
  BY <1>3, TurnKeptByPhoneHandler
<1>4. CASE \E k \in Sockets : CloseHandler(k)
  BY <1>4, TurnKeptByClose
<1>5. CASE CliReacts \/ CliConnect \/ (\E c \in Codes : CliSubmit(c)) \/ CliExit \/ CliLosesConnection
  BY <1>5, TurnKeptByCli
<1>6. CASE \E p \in Phones : PhoneReacts(p) \/ PhoneOpens(p) \/ PhoneLosesConnection(p)
  BY <1>6, TurnKeptByPage
<1>7. CASE Crash \/ Expire
  BY <1>7, TurnKeptByFault
<1>8. QED
  BY <1>1, <1>2, <1>3, <1>4, <1>5, <1>6, <1>7 DEF Next, Users, Faults

\* A socket has one request under way or at work.
LEMMA OneRequest == TurnInv => OneRequestAtATime
<1>1. \A k \in Sockets : k = Cli \/ k \in Phones
  BY SocketFacts
<1>2. QED
  BY <1>1 DEF TurnInv, CliTurn, PhoneTurn, OneRequestAtATime

\* A client that waits for the answer to its last request has sent none since: whatever
\* handlers, faults and users do, a socket's message and its handler are one at a time.
THEOREM TurnInvariant == Spec => []TurnInv
  BY TurnInit, TurnStep, TypeCorrect, ClaimInvariant, PTL DEF Spec

\* No socket has a request under way while the handler of its last one is at work: the
\* answer is the last thing every handler does to what it read (ws/router.ts, ws/relay.ts).
THEOREM OneRequestAlways == Spec => []OneRequestAtATime
  BY TurnInvariant, OneRequest, PTL
=============================================================================
