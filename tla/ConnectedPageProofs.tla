-------------------------- MODULE ConnectedPageProofs -------------------------
(***************************************************************************)
(* The phone's terminal page, for every set of sizes, every bound and every*)
(* set of faults: its variables keep their types (THEOREM PageTypeCorrect),*)
(* its messages leave in the order of the calls with growing sequence      *)
(* numbers (THEOREM AlwaysInOrder), a failure costs its own message only   *)
(* (THEOREM FailureIsItsOwn), and the keypair is erased for a Disconnect   *)
(* only when all is said that came before the first one, however many      *)
(* Disconnects overlap (THEOREM NothingIsLeftUnsaid).                      *)
(*                                                                         *)
(* The calls are numbered, and one task is at work: QueueInv says that the *)
(* numbers of what was sent, of the task and of the queue follow each      *)
(* other, and bounds seq by the calls that have begun.  LeaveInv says that *)
(* a Disconnect that waits is not before the first, and that, as long as   *)
(* the page is up and at most IndexedDB fails, the keypair and the socket  *)
(* are there and every call that is over was sent or failed by itself.     *)
(***************************************************************************)
EXTENDS ConnectedPage, SequenceTheorems, TLAPS

-----------------------------------------------------------------------------
\* The inductive invariants

\* Messages whose numbers are not bounded yet.
Sendable == [n : Nat, seq : Nat \ {0}, type : {"input", "resize", "disconnect"},
             size : Usable \cup {None}]

\* The types, but for the bounds on the numbers.
Shape ==
  /\ page \in {"connected", "disconnected"} /\ socket \in {"open", "closing", "closed"}
  /\ listening \in BOOLEAN /\ gone \in BOOLEAN /\ erasing \in BOOLEAN /\ key \in BOOLEAN
  /\ keyboard \in BOOLEAN /\ timer \in BOOLEAN
  /\ queue \in Seq(Envelopes) /\ task \in Envelopes \cup {None}
  /\ step \in {"none", "key", "sign"} /\ (task = None <=> step = "none")
  /\ sent \in Seq(Sendable) /\ calls \in Nat /\ seq \in Nat /\ tapped \in 0 .. calls
  /\ size \in Sizes /\ last \in Usable \cup {None}
  /\ wrong \subseteq Faults

\* The calls follow each other.
QueueInv ==
  /\ Len(queue) <= calls /\ (task # None => Len(queue) < calls /\ task.n = Begun)
  /\ \A i \in DOMAIN queue : queue[i].n = Begun + i
  /\ seq <= IF step = "sign" THEN Begun ELSE Over
  /\ step = "sign" => seq > 0
  /\ \A i \in DOMAIN sent : /\ sent[i].n \in 1 .. Over /\ sent[i].seq <= seq
                            /\ step = "sign" => sent[i].seq < seq
  /\ SentInOrder

\* The calls that are not over.
Waiting == {queue[i] : i \in DOMAIN queue} \cup {task}

\* The erasures that wait, and the failures, are of calls that are over.
OverInv == clearing \subseteq 1 .. Over /\ failed \subseteq 1 .. Over

\* Call n is a Disconnect that waits for its turn, its task or its erasure.
Leaving(n) == n \in clearing \/ \E e \in Waiting : e # None /\ e.type = "disconnect" /\ e.n = n

\* What a Disconnect may rely on.
LeaveInv ==
  /\ \A n : Leaving(n) => gone /\ tapped # 0 /\ tapped <= n
  /\ tapped # 0 => gone
  /\ wrong \subseteq {"storage"} =>
       /\ page = "connected" => /\ key /\ socket = "open" /\ ~erasing
                                /\ \A n \in 1 .. Over : Settled(n)
       /\ page = "disconnected" => \A n \in 1 .. tapped : Settled(n)


-----------------------------------------------------------------------------
\* Lemmas about the helpers

\* What Append does to a sequence.
LEMMA AppendFacts ==
  ASSUME NEW S, NEW q \in Seq(S), NEW x \in S
  PROVE  /\ Append(q, x) \in Seq(S) /\ Len(Append(q, x)) = Len(q) + 1
         /\ DOMAIN Append(q, x) = 1 .. Len(q) + 1 /\ DOMAIN q = 1 .. Len(q)
         /\ \A i \in 1 .. Len(q) : Append(q, x)[i] = q[i]
         /\ Append(q, x)[Len(q) + 1] = x
  OBVIOUS

\* What Head and Tail do to a sequence.
LEMMA TailFacts ==
  ASSUME NEW S, NEW q \in Seq(S), q # <<>>
  PROVE  /\ Tail(q) \in Seq(S) /\ Len(Tail(q)) = Len(q) - 1
         /\ DOMAIN Tail(q) = 1 .. Len(q) - 1 /\ DOMAIN q = 1 .. Len(q)
         /\ \A i \in 1 .. Len(q) - 1 : Tail(q)[i] = q[i + 1]
         /\ Head(q) \in S /\ Head(q) = q[1] /\ Len(q) > 0
  OBVIOUS

\* sendEnvelope puts a call at the end of the queue, and disturbs none.
LEMMA CallFacts ==
  ASSUME Shape, QueueInv, NEW type \in {"input", "resize", "disconnect"},
         NEW sz \in Usable \cup {None}, Call(type, sz)
  PROVE  /\ queue' \in Seq(Envelopes) /\ calls' \in Nat
         /\ UNCHANGED <<task, step, seq, sent>> /\ calls' = calls + 1
         /\ Begun' = Begun /\ Over' = Over
         /\ \A e \in Waiting' : e \in Waiting \/ (e.n = calls' /\ e.type = type)
         /\ QueueInv'
<1> DEFINE m == Envelope(type, sz)
<1>1. m \in Envelopes /\ m.n = calls + 1 /\ m.type = type
  BY DEF Envelope, Envelopes, Shape
<1>2. queue' = Append(queue, m) /\ calls' = calls + 1 /\ UNCHANGED <<task, step, seq, sent>>
  BY DEF Call
<1> HIDE DEF m
<1>3. /\ queue' \in Seq(Envelopes) /\ Len(queue') = Len(queue) + 1
      /\ DOMAIN queue' = 1 .. Len(queue) + 1 /\ DOMAIN queue = 1 .. Len(queue)
      /\ \A i \in 1 .. Len(queue) : queue'[i] = queue[i]
      /\ queue'[Len(queue) + 1] = m /\ Len(queue) \in Nat
  BY <1>1, <1>2, AppendFacts DEF Shape
<1>4. calls \in Nat /\ Begun' = Begun /\ Over' = Over
  BY <1>2, <1>3 DEF Begun, Over, Shape
<1>5. \A e \in Waiting' : e \in Waiting \/ e = m
  BY <1>2, <1>3 DEF Waiting
<1>6. \A i \in DOMAIN queue' : queue'[i].n = Begun' + i
  <2>1. ASSUME NEW i \in 1 .. Len(queue) + 1 PROVE queue'[i].n = Begun + i
    <3>1. CASE i \in 1 .. Len(queue)
      BY <1>3, <3>1 DEF QueueInv
    <3>2. CASE i = Len(queue) + 1
      BY <1>1, <1>3, <1>4, <3>2 DEF Begun
    <3>3. QED
      BY <1>3, <3>1, <3>2
  <2>2. QED
    BY <1>3, <1>4, <2>1
<1>7. QueueInv'
  <2>1. Len(queue') <= calls' /\ (task' # None => Len(queue') < calls' /\ task'.n = Begun')
    BY <1>2, <1>3, <1>4 DEF QueueInv
  <2>2. SentInOrder'
    BY <1>2 DEF QueueInv, SentInOrder
  <2>3. QED
    BY <1>2, <1>4, <1>6, <2>1, <2>2 DEF QueueInv
<1>8. QED
  BY <1>1, <1>2, <1>3, <1>4, <1>5, <1>7

\* What is left alone of the queue keeps its invariant.
LEMMA QueueStutters ==
  ASSUME UNCHANGED sender
  PROVE  /\ QueueInv => QueueInv'
         /\ Begun' = Begun /\ Over' = Over /\ Waiting' = Waiting
         /\ \A n : Said(n)' <=> Said(n)
  BY DEF sender, QueueInv, SentInOrder, Begun, Over, Waiting, Said

-----------------------------------------------------------------------------
\* The queue's steps

\* The next call begins: nothing is over yet.
LEMMA StartsInOrder ==
  ASSUME Shape, QueueInv, TaskStarts
  PROVE  /\ queue' \in Seq(Envelopes) /\ task' \in Envelopes /\ step' = "key"
         /\ QueueInv' /\ Over' = Over /\ \A e \in Waiting' : e \in Waiting
<1>1. /\ task = None /\ queue # <<>> /\ task' = Head(queue) /\ queue' = Tail(queue)
      /\ step' = "key" /\ UNCHANGED <<seq, sent, calls>> /\ step = "none"
  BY DEF TaskStarts, Shape
<1>2. /\ queue' \in Seq(Envelopes) /\ Len(queue') = Len(queue) - 1
      /\ DOMAIN queue' = 1 .. Len(queue) - 1 /\ DOMAIN queue = 1 .. Len(queue)
      /\ \A i \in 1 .. Len(queue) - 1 : queue'[i] = queue[i + 1]
      /\ task' \in Envelopes /\ task' = queue[1] /\ Len(queue) > 0 /\ Len(queue) \in Nat
  BY <1>1, TailFacts DEF Shape
<1>3. task' # None /\ calls \in Nat /\ seq \in Nat
  BY <1>2, PageParameters DEF Shape
<1>4. Begun' = Begun + 1 /\ Over' = Over /\ Over = Begun /\ Begun \in Nat
  BY <1>1, <1>2, <1>3 DEF Begun, Over, QueueInv
<1>5. \A e \in Waiting' : e \in Waiting
  BY <1>1, <1>2 DEF Waiting
<1>6. \A i \in DOMAIN queue' : queue'[i].n = Begun' + i
  <2>1. ASSUME NEW i \in 1 .. Len(queue) - 1 PROVE queue'[i].n = Begun + 1 + i
    <3>1. i + 1 \in 1 .. Len(queue)
      BY <1>2
    <3>2. queue[i + 1].n = Begun + (i + 1)
      BY <1>2, <3>1 DEF QueueInv
    <3>3. QED
      BY <1>2, <1>4, <3>2
  <2>2. QED
    BY <1>2, <1>4, <2>1
<1>7. task'.n = Begun'
  <2>1. 1 \in DOMAIN queue
    BY <1>2
  <2>2. QED
    BY <1>2, <1>4, <2>1 DEF QueueInv
<1>8. QueueInv'
  <2>1. Len(queue') <= calls' /\ Len(queue') < calls'
    BY <1>1, <1>2, <1>3 DEF QueueInv
  <2>2. SentInOrder'
    BY <1>1 DEF QueueInv, SentInOrder
  <2>3. QED
    BY <1>1, <1>4, <1>6, <1>7, <2>1, <2>2 DEF QueueInv
<1>9. QED
  BY <1>1, <1>2, <1>4, <1>5, <1>8

\* A call whose keypair is read draws the next sequence number.
LEMMA DrawsNumber ==
  ASSUME Shape, QueueInv, step = "key", step' = "sign", seq' = seq + 1,
         UNCHANGED <<queue, task, sent, calls>>
  PROVE  QueueInv' /\ Over' = Over /\ Waiting' = Waiting /\ \A n : Said(n)' <=> Said(n)
<1>1. task # None /\ calls \in Nat /\ seq \in Nat /\ Len(queue) \in Nat /\ sent \in Seq(Sendable)
  BY DEF Shape
<1>2. Begun' = Begun /\ Over' = Over /\ Over = Begun - 1 /\ Begun \in Nat
  BY <1>1 DEF Begun, Over, QueueInv
<1>3. \A i \in DOMAIN sent : sent[i].n \in 1 .. Over /\ sent[i].seq <= seq /\ sent[i].seq \in Nat
  <2>1. \A i \in DOMAIN sent : sent[i] \in Sendable
    BY <1>1
  <2>2. QED
    BY <2>1 DEF QueueInv, Sendable
<1>4. \A i \in DOMAIN sent' : /\ sent'[i].n \in 1 .. Over' /\ sent'[i].seq <= seq'
                              /\ sent'[i].seq < seq'
  BY <1>1, <1>2, <1>3
<1>5. seq' <= Begun' /\ seq' > 0
  BY <1>1, <1>2 DEF QueueInv
<1>6. SentInOrder'
  BY DEF QueueInv, SentInOrder
<1>7. QueueInv'
  BY <1>1, <1>2, <1>4, <1>5, <1>6 DEF QueueInv
<1>8. QED
  BY <1>2, <1>7 DEF Waiting, Said

\* A call that ends, with its message sent or not, is over.
LEMMA EndsInOrder ==
  ASSUME Shape, QueueInv, task # None, task' = None, step' = "none",
         UNCHANGED <<queue, seq, calls>>,
         \/ sent' = sent
         \/ step = "sign" /\ sent' = Append(sent, [n |-> task.n, seq |-> seq, type |-> task.type,
                                                   size |-> task.size])
  PROVE  /\ QueueInv' /\ sent' \in Seq(Sendable)
         /\ Over' = Over + 1 /\ Over' = task.n /\ Over \in Nat
         /\ \A e \in Waiting' : e = None \/ (e \in Waiting /\ e.n # task.n)
         /\ \A n : Said(n) => Said(n)'
         /\ sent' # sent => \E i \in DOMAIN sent' : sent'[i].n = task.n
<1>1. /\ calls \in Nat /\ seq \in Nat /\ Len(queue) \in Nat /\ sent \in Seq(Sendable)
      /\ Len(sent) \in Nat /\ DOMAIN sent = 1 .. Len(sent) /\ task \in Envelopes
      /\ queue \in Seq(Envelopes) /\ DOMAIN queue = 1 .. Len(queue)
  BY DEF Shape
<1>2. /\ Begun' = Begun /\ Over = Begun - 1 /\ Over' = Begun /\ Begun \in Nat /\ Over \in Nat
      /\ task.n = Begun
  BY <1>1 DEF Begun, Over, QueueInv
<1>3. seq <= Begun /\ (step = "sign" => seq > 0)
  BY <1>1, <1>2 DEF QueueInv
<1>4. \A e \in Waiting' : e = None \/ (e \in Waiting /\ e.n # task.n)
  <2>1. ASSUME NEW i \in DOMAIN queue PROVE queue[i].n # task.n
    <3>1. queue[i].n = Begun + i /\ i \in Nat /\ i > 0
      BY <1>1 DEF QueueInv
    <3>2. QED
      BY <1>2, <3>1
  <2>2. QED
    BY <2>1 DEF Waiting
<1>5. \A i \in DOMAIN sent : /\ sent[i].n \in 1 .. Over /\ sent[i].seq <= seq
                             /\ sent[i].seq \in Nat /\ sent[i].n \in Nat
                             /\ step = "sign" => sent[i].seq < seq
  <2>1. \A i \in DOMAIN sent : sent[i] \in Sendable
    BY <1>1
  <2>2. QED
    BY <2>1 DEF QueueInv, Sendable
<1>6. CASE sent' = sent
  <2>1. \A i \in DOMAIN sent' : sent'[i].n \in 1 .. Over' /\ sent'[i].seq <= seq'
    BY <1>2, <1>5, <1>6
  <2>2. SentInOrder'
    BY <1>6 DEF QueueInv, SentInOrder
  <2>3. QueueInv'
    BY <1>1, <1>2, <1>3, <2>1, <2>2 DEF QueueInv
  <2>4. QED
    BY <1>1, <1>2, <1>4, <1>6, <2>3 DEF Said
<1>7. CASE step = "sign" /\ sent' = Append(sent, [n |-> task.n, seq |-> seq, type |-> task.type,
                                                  size |-> task.size])
  <2> DEFINE m == [n |-> task.n, seq |-> seq, type |-> task.type, size |-> task.size]
  <2>1. m \in Sendable /\ m.n = Begun /\ m.seq = seq
    BY <1>1, <1>2, <1>3, <1>7 DEF Sendable, Envelopes
  <2>2. sent' = Append(sent, m)
    BY <1>7
  <2> HIDE DEF m
  <2>3. /\ sent' \in Seq(Sendable) /\ DOMAIN sent' = 1 .. Len(sent) + 1
        /\ \A i \in 1 .. Len(sent) : sent'[i] = sent[i]
        /\ sent'[Len(sent) + 1] = m
    <3>1. sent \in Seq(Sendable) /\ m \in Sendable
      BY <1>1, <2>1
    <3>2. QED
      BY <2>2, <3>1, AppendFacts
  <2>4. ASSUME NEW i \in DOMAIN sent'
        PROVE  /\ sent'[i].n \in 1 .. Begun /\ sent'[i].seq <= seq
               /\ i \in DOMAIN sent => sent'[i] = sent[i] /\ sent[i].n < Begun /\ sent[i].seq < seq
               /\ i \notin DOMAIN sent => i = Len(sent) + 1 /\ sent'[i] = m
    <3>1. CASE i \in 1 .. Len(sent)
      BY <1>1, <1>2, <1>5, <1>7, <2>3, <3>1
    <3>2. CASE i = Len(sent) + 1
      <4>1. Begun > 0
        BY <1>2
      <4>2. QED
        BY <1>1, <1>2, <2>1, <2>3, <3>2, <4>1
    <3>3. QED
      BY <1>1, <2>3, <3>1, <3>2
  <2>5. SentInOrder'
    <3> SUFFICES ASSUME NEW i \in DOMAIN sent', NEW j \in DOMAIN sent', i < j
                 PROVE  sent'[i].n < sent'[j].n /\ sent'[i].seq < sent'[j].seq
      BY DEF SentInOrder
    <3>1. i \in DOMAIN sent
      BY <1>1, <2>3
    <3>2. CASE j \in DOMAIN sent
      BY <2>4, <3>1, <3>2 DEF QueueInv, SentInOrder
    <3>3. CASE j \notin DOMAIN sent
      BY <2>1, <2>4, <3>1, <3>3
    <3>4. QED
      BY <3>2, <3>3
  <2>6. QueueInv'
    <3>1. \A i \in DOMAIN sent' : sent'[i].n \in 1 .. Over' /\ sent'[i].seq <= seq'
      BY <1>2, <2>4
    <3>2. QED
      BY <1>1, <1>2, <1>3, <2>5, <3>1 DEF QueueInv
  <2>7. ASSUME NEW n, Said(n) PROVE Said(n)'
    <3>1. PICK i \in 1 .. Len(sent) : sent[i].n = n
      BY <1>1, <2>7 DEF Said
    <3>2. i \in DOMAIN sent' /\ sent'[i].n = n
      BY <1>1, <2>3, <3>1
    <3>3. QED
      BY <3>2 DEF Said
  <2>8. \E i \in DOMAIN sent' : sent'[i].n = task.n
    <3>1. Len(sent) + 1 \in DOMAIN sent' /\ sent'[Len(sent) + 1].n = task.n
      BY <1>1, <1>2, <2>1, <2>3
    <3>2. QED
      BY <3>1
  <2>9. QED
    BY <1>1, <1>2, <1>4, <2>3, <2>6, <2>7, <2>8
<1>8. QED
  BY <1>6, <1>7

-----------------------------------------------------------------------------
\* Every step keeps the invariants

PageInv == Shape /\ QueueInv /\ OverInv /\ LeaveInv

\* What was settled stays so.
LEMMA StaysSettled ==
  ASSUME \A n : Said(n) => Said(n)', failed \subseteq failed'
  PROVE  \A n : Settled(n) => Settled(n)'
  BY DEF Settled

\* LeaveInv is kept by what leaves the exits alone and ends no call.
LEMMA LeaveStutters ==
  ASSUME LeaveInv, UNCHANGED <<page, gone, erasing, key, socket, tapped>>, Over' = Over,
         \A n : Leaving(n)' => Leaving(n), \A n : Settled(n) => Settled(n)',
         wrong' \subseteq {"storage"} => wrong \subseteq {"storage"}
  PROVE  LeaveInv'
  BY DEF LeaveInv

\* What the user types, and a size to be told, wait in the queue.
LEMMA CallsKeep ==
  ASSUME PageInv, Types \/ Sync
  PROVE  PageInv'
<1> USE DEF PageInv
<1>1. ASSUME UNCHANGED <<exit, key, history, sender, size, keyboard, last>>, timer' \in BOOLEAN
      PROVE  PageInv'
  <2>1. QueueInv' /\ Waiting' = Waiting /\ Over' = Over /\ \A n : Said(n)' <=> Said(n)
    BY <1>1, QueueStutters
  <2>2. Shape'
    BY <1>1 DEF Shape, exit, sender, history
  <2>3. OverInv'
    BY <1>1, <2>1 DEF OverInv, exit, history
  <2>4. (\A n : Leaving(n)' => Leaving(n)) /\ (\A n : Settled(n) => Settled(n)')
    BY <1>1, <2>1, StaysSettled DEF Leaving, exit, history
  <2>5. LeaveInv'
    BY <1>1, <2>1, <2>4, LeaveStutters DEF exit, history
  <2>6. QED
    BY <2>1, <2>2, <2>3, <2>5
<1>2. ASSUME NEW type \in {"input", "resize"}, NEW sz \in Usable \cup {None}, Call(type, sz),
             UNCHANGED <<exit, key, history>>, UNCHANGED <<size, keyboard>>,
             timer' \in BOOLEAN, last' \in {last, sz}, sz = None => last' = last
      PROVE  PageInv'
  <2>1. /\ queue' \in Seq(Envelopes) /\ calls' \in Nat
        /\ UNCHANGED <<task, step, seq, sent>> /\ calls' = calls + 1
        /\ Over' = Over /\ QueueInv'
        /\ \A e \in Waiting' : e \in Waiting \/ e.type = type
    BY <1>2, CallFacts
  <2>2. Shape'
    BY <1>2, <2>1 DEF Shape, exit, history
  <2>3. OverInv'
    BY <1>2, <2>1 DEF OverInv, exit, history
  <2>4. \A n : Leaving(n)' => Leaving(n)
    BY <1>2, <2>1 DEF Leaving, exit
  <2>5. \A n : Settled(n) => Settled(n)'
    BY <1>2, <2>1, StaysSettled DEF Said, history
  <2>6. LeaveInv'
    BY <1>2, <2>1, <2>4, <2>5, LeaveStutters DEF exit, history
  <2>7. QED
    BY <2>1, <2>2, <2>3, <2>6
<1>3. CASE Types
  BY <1>2, <1>3 DEF Types, layout, Shape
<1>4. CASE Sync
  <2>1. CASE keyboard \/ size \notin Usable \/ size = last
    BY <1>1, <1>4, <2>1 DEF Sync, sender
  <2>2. CASE ~(keyboard \/ size \notin Usable \/ size = last)
    BY <1>2, <1>4, <2>2, PageParameters DEF Sync
  <2>3. QED
    BY <2>1, <2>2
<1>5. QED
  BY <1>3, <1>4

\* A Disconnect, the first or another, waits behind everything that the user did before.
LEMMA TapKeeps ==
  ASSUME PageInv, Tap
  PROVE  PageInv'
<1> USE DEF PageInv
<1>1. /\ page = "connected" /\ Call("disconnect", None)
      /\ gone' = TRUE /\ tapped' = (IF tapped = 0 THEN calls' ELSE tapped)
      /\ UNCHANGED <<page, listening, clearing, erasing, socket, key, layout, failed, wrong>>
  BY DEF Tap
<1>2. /\ queue' \in Seq(Envelopes) /\ calls' \in Nat
      /\ UNCHANGED <<task, step, seq, sent>> /\ calls' = calls + 1
      /\ Over' = Over /\ QueueInv'
      /\ \A e \in Waiting' : e \in Waiting \/ e.n = calls'
  BY <1>1, CallFacts
<1>3. tapped \in 0 .. calls /\ calls \in Nat
  BY DEF Shape
<1>4. tapped' \in 1 .. calls' /\ (tapped # 0 => tapped' = tapped)
  BY <1>1, <1>2, <1>3
<1>5. Shape'
  BY <1>1, <1>2, <1>4 DEF Shape, layout
<1>6. OverInv'
  BY <1>1, <1>2 DEF OverInv
<1>7. \A n : Settled(n) => Settled(n)'
  BY <1>1, <1>2, StaysSettled DEF Said
<1>8. ASSUME NEW n, Leaving(n)' PROVE gone' /\ tapped' # 0 /\ tapped' <= n
  <2>1. CASE Leaving(n)
    BY <1>1, <1>4, <2>1 DEF LeaveInv
  <2>2. CASE ~Leaving(n)
    <3>1. n = calls'
      BY <1>1, <1>2, <1>8, <2>2 DEF Leaving
    <3>2. QED
      BY <1>1, <1>2, <1>4, <3>1
  <2>3. QED
    BY <2>1, <2>2
<1>9. LeaveInv'
  BY <1>1, <1>2, <1>4, <1>7, <1>8 DEF LeaveInv
<1>10. QED
  BY <1>2, <1>5, <1>6, <1>9

\* A call begins, draws its number, ends.
LEMMA TaskKeeps ==
  ASSUME PageInv, TaskStarts \/ KeyAnswer \/ SignAnswer \/ TaskFails
  PROVE  PageInv'
<1> USE DEF PageInv
<1>1. CASE TaskStarts
  <2>1. /\ queue' \in Seq(Envelopes) /\ task' \in Envelopes /\ step' = "key"
        /\ QueueInv' /\ Over' = Over /\ \A e \in Waiting' : e \in Waiting
    BY <1>1, StartsInOrder
  <2>2. UNCHANGED <<exit, key, seq, sent, calls, layout, history>> /\ task' # None
    BY <1>1, <2>1, PageParameters DEF TaskStarts
  <2>3. Shape'
    BY <2>1, <2>2 DEF Shape, exit, layout, history
  <2>4. OverInv'
    BY <2>1, <2>2 DEF OverInv, exit, history
  <2>5. (\A n : Leaving(n)' => Leaving(n)) /\ (\A n : Settled(n) => Settled(n)')
    BY <2>1, <2>2, StaysSettled DEF Leaving, Said, exit, history
  <2>6. LeaveInv'
    BY <2>1, <2>2, <2>5, LeaveStutters DEF exit, history
  <2>7. QED
    BY <2>1, <2>3, <2>4, <2>6
<1>2. CASE KeyAnswer /\ key
  <2>1. /\ step = "key" /\ step' = "sign" /\ seq' = seq + 1
        /\ UNCHANGED <<exit, task, key, queue, sent, calls, layout, history>>
    BY <1>2 DEF KeyAnswer
  <2>2. QueueInv' /\ Over' = Over /\ Waiting' = Waiting /\ \A n : Said(n)' <=> Said(n)
    BY <2>1, DrawsNumber
  <2>3. Shape'
    BY <2>1 DEF Shape, exit, layout, history
  <2>4. OverInv'
    BY <2>1, <2>2 DEF OverInv, exit, history
  <2>5. (\A n : Leaving(n)' => Leaving(n)) /\ (\A n : Settled(n) => Settled(n)')
    BY <2>1, <2>2, StaysSettled DEF Leaving, exit, history
  <2>6. LeaveInv'
    BY <2>1, <2>2, <2>5, LeaveStutters DEF exit, history
  <2>7. QED
    BY <2>2, <2>3, <2>4, <2>6
<1>3. CASE (KeyAnswer /\ ~key) \/ SignAnswer \/ TaskFails
  <2> DEFINE m == [n |-> task.n, seq |-> seq, type |-> task.type, size |-> task.size]
  <2>1. /\ task # None /\ task' = None /\ step' = "none" /\ UNCHANGED <<queue, seq, calls>>
        /\ sent' = sent \/ (step = "sign" /\ sent' = Append(sent, m))
        /\ UNCHANGED <<page, listening, gone, erasing, socket, key, layout, tapped>>
        /\ clearing' \subseteq clearing \cup {task.n} /\ clearing \subseteq clearing'
        /\ clearing' # clearing => task.type = "disconnect"
        /\ failed' \subseteq failed \cup {task.n} /\ failed \subseteq failed'
    BY <1>3 DEF KeyAnswer, SignAnswer, TaskFails, Ends, Signed, Shape, exit, history
  <2>2. /\ QueueInv' /\ sent' \in Seq(Sendable)
        /\ Over' = Over + 1 /\ Over' = task.n /\ Over \in Nat
        /\ \A e \in Waiting' : e = None \/ (e \in Waiting /\ e.n # task.n)
        /\ \A n : Said(n) => Said(n)'
        /\ sent' # sent => \E i \in DOMAIN sent' : sent'[i].n = task.n
    BY <2>1, EndsInOrder
  <2>3. Shape'
    <3>1. wrong' \subseteq Faults
      BY <1>3 DEF KeyAnswer, SignAnswer, TaskFails, GoesWrong, Shape, history
    <3>2. QED
      BY <2>1, <2>2, <3>1 DEF Shape, layout
  <2>4. OverInv'
    BY <2>1, <2>2 DEF OverInv
  <2>5. \A n : Leaving(n)' => Leaving(n)
    BY <2>1, <2>2 DEF Leaving, Waiting
  <2>6. \A n : Settled(n) => Settled(n)'
    BY <2>1, <2>2, StaysSettled
  <2>7. wrong' \subseteq {"storage"} => wrong \subseteq {"storage"}
    BY <1>3 DEF KeyAnswer, SignAnswer, TaskFails, GoesWrong, history
  <2>8. ASSUME wrong \subseteq {"storage"}, page = "connected", NEW n, n = task.n
        PROVE  Settled(n)'
    <3>1. key /\ socket = "open"
      BY <2>8 DEF LeaveInv
    <3>2. CASE TaskFails
      BY <2>8, <3>2 DEF TaskFails, Settled
    <3>3. CASE SignAnswer
      <4>1. sent' = Append(sent, m) /\ sent \in Seq(Sendable)
        BY <3>1, <3>3 DEF SignAnswer, Signed, Shape
      <4>2. sent' # sent
        BY <4>1
      <4>3. QED
        BY <2>2, <2>8, <4>2 DEF Settled, Said
    <3>4. QED
      BY <1>3, <3>1, <3>2, <3>3
  <2>9. ASSUME wrong \subseteq {"storage"}, page = "connected", NEW n \in 1 .. Over'
        PROVE  Settled(n)'
    <3>1. CASE n = task.n
      BY <2>8, <2>9, <3>1
    <3>2. CASE n # task.n
      <4>1. n \in 1 .. Over
        BY <2>2, <2>9, <3>2
      <4>2. QED
        BY <2>6, <2>9, <4>1 DEF LeaveInv
    <3>3. QED
      BY <3>1, <3>2
  <2>10. LeaveInv'
    BY <2>1, <2>5, <2>6, <2>7, <2>9 DEF LeaveInv
  <2>11. QED
    BY <2>2, <2>3, <2>4, <2>10
<1>4. QED
  BY <1>1, <1>2, <1>3

\* The page is left: by what its socket says, or by a Disconnect that is through.
LEMMA LeavingKeeps ==
  ASSUME PageInv, \/ Hears \/ CloseHeard \/ PageResume
                  \/ (\E n \in clearing : Erased(n)) \/ ErasedLater \/ EraseFails
  PROVE  PageInv'
<1> USE DEF PageInv
<1>1. /\ QueueInv' /\ Waiting' = Waiting /\ Over' = Over /\ \A n : Said(n)' <=> Said(n)
      /\ UNCHANGED <<sender, tapped, failed, size, keyboard, last>>
  BY QueueStutters DEF Hears, CloseHeard, PageResume, DisconnectOnce, Erased, ErasedLater,
                       EraseFails, layout, history
<1>2. \A n : Settled(n) => Settled(n)'
  BY <1>1, StaysSettled
<1>3. CASE Hears \/ CloseHeard \/ PageResume
  <2>1. /\ ~gone /\ gone' = TRUE /\ erasing' = TRUE /\ page' = "disconnected" /\ socket' = "closed"
        /\ listening' = FALSE /\ timer' = FALSE /\ UNCHANGED <<clearing, key, wrong>>
    BY <1>3 DEF Hears, CloseHeard, PageResume, DisconnectOnce, LeavePage, history
  <2>2. Shape'
    BY <1>1, <2>1 DEF Shape, sender
  <2>3. OverInv'
    BY <1>1, <2>1 DEF OverInv
  <2>4. tapped = 0 /\ \A n : ~Leaving(n)
    BY <2>1 DEF LeaveInv
  <2>5. \A n : ~Leaving(n)'
    BY <1>1, <2>1, <2>4 DEF Leaving
  <2>6. LeaveInv'
    BY <1>1, <2>1, <2>4, <2>5 DEF LeaveInv
  <2>7. QED
    BY <1>1, <2>2, <2>3, <2>6
<1>4. ASSUME NEW c \in clearing, Erased(c) PROVE PageInv'
  <2>1. /\ clearing' = clearing \ {c} /\ key' = FALSE /\ page' = "disconnected"
        /\ listening' = FALSE /\ socket' = "closed" /\ timer' = FALSE
        /\ UNCHANGED <<gone, erasing, wrong>>
    BY <1>4 DEF Erased, LeavePage, history
  <2>2. Shape'
    BY <1>1, <2>1 DEF Shape, sender
  <2>3. OverInv'
    BY <1>1, <2>1 DEF OverInv
  <2>4. \A n : Leaving(n)' => Leaving(n)
    BY <1>1, <2>1 DEF Leaving
  <2>5. ASSUME wrong \subseteq {"storage"}, NEW n \in 1 .. tapped PROVE Settled(n)
    <3>1. CASE page = "disconnected"
      BY <2>5, <3>1 DEF LeaveInv
    <3>2. CASE page = "connected"
      <4>1. tapped <= c /\ c \in 1 .. Over
        BY <1>4 DEF LeaveInv, Leaving, OverInv
      <4>2. tapped \in Nat /\ Over \in Int
        BY DEF Shape, Over, Begun
      <4>3. n \in 1 .. Over
        BY <2>5, <4>1, <4>2
      <4>4. QED
        BY <2>5, <3>2, <4>3 DEF LeaveInv
    <3>3. QED
      BY <3>1, <3>2 DEF Shape
  <2>6. LeaveInv'
    BY <1>1, <1>2, <2>1, <2>4, <2>5 DEF LeaveInv
  <2>7. QED
    BY <1>1, <2>2, <2>3, <2>6
<1>5. CASE ErasedLater
  <2>1. erasing /\ erasing' = FALSE /\ key' = FALSE
        /\ UNCHANGED <<page, listening, gone, clearing, socket, timer, wrong>>
    BY <1>5 DEF ErasedLater, layout, history
  <2>2. Shape'
    BY <1>1, <2>1 DEF Shape, sender
  <2>3. OverInv'
    BY <1>1, <2>1 DEF OverInv
  <2>4. \A n : Leaving(n)' => Leaving(n)
    BY <1>1, <2>1 DEF Leaving
  <2>5. wrong \subseteq {"storage"} => page # "connected"
    BY <2>1 DEF LeaveInv
  <2>6. LeaveInv'
    BY <1>1, <1>2, <2>1, <2>4, <2>5 DEF LeaveInv
  <2>7. QED
    BY <1>1, <2>2, <2>3, <2>6
<1>6. CASE EraseFails
  <2>1. /\ clearing' \subseteq clearing /\ GoesWrong("storage")
        /\ UNCHANGED <<page, listening, gone, socket, key, timer>>
    BY <1>6 DEF EraseFails, layout, Shape
  <2>8. erasing' \in BOOLEAN /\ (erasing' => erasing)
    <3>1. erasing \in BOOLEAN
      BY DEF Shape
    <3>2. UNCHANGED erasing \/ erasing' = FALSE
      BY <1>6 DEF EraseFails
    <3>3. CASE UNCHANGED erasing
      BY <3>1, <3>3
    <3>4. CASE erasing' = FALSE
      BY <3>4
    <3>5. QED
      BY <3>2, <3>3, <3>4
  <2>2. Shape'
    BY <1>1, <2>1, <2>8 DEF Shape, sender, GoesWrong
  <2>3. OverInv'
    BY <1>1, <2>1 DEF OverInv
  <2>4. \A n : Leaving(n)' => Leaving(n)
    BY <1>1, <2>1 DEF Leaving
  <2>5. wrong \subseteq {"storage"}
    BY <2>1 DEF GoesWrong
  <2>6. LeaveInv'
    BY <1>1, <1>2, <2>1, <2>4, <2>5, <2>8 DEF LeaveInv
  <2>7. QED
    BY <1>1, <2>2, <2>3, <2>6
<1>7. QED
  BY <1>3, <1>4, <1>5, <1>6

\* The page begins to listen, its layout changes, the connection breaks, another tab
\* deletes the keypair.
LEMMA EventKeeps ==
  ASSUME PageInv, \/ \E sz \in Sizes, covered \in BOOLEAN : Layout(sz, covered)
                  \/ Mounts \/ Refit \/ Breaks \/ CloseUnheard \/ OtherTab \/ UNCHANGED vars
  PROVE  PageInv'
<1> USE DEF PageInv
<1>1. /\ QueueInv' /\ Waiting' = Waiting /\ Over' = Over /\ \A n : Said(n)' <=> Said(n)
      /\ UNCHANGED <<sender, tapped, failed, page, gone, clearing, erasing>>
  BY QueueStutters DEF Layout, Mounts, Refit, Breaks, CloseUnheard, OtherTab, vars, exit, history
<1>2. /\ \A n : Leaving(n)' => Leaving(n)
      /\ \A n : Settled(n) => Settled(n)'
      /\ OverInv'
  BY <1>1, StaysSettled DEF Leaving, OverInv
<1>3. ASSUME NEW sz \in Sizes, NEW covered \in BOOLEAN, Layout(sz, covered)
      PROVE  Shape' /\ LeaveInv'
  <2>1. /\ size' \in Sizes /\ keyboard' \in BOOLEAN /\ timer' \in BOOLEAN
        /\ UNCHANGED <<listening, socket, key, last, wrong>>
    BY <1>3 DEF Layout, exit, history, Shape
  <2>2. Shape'
    BY <1>1, <2>1 DEF Shape, sender
  <2>3. LeaveInv'
    BY <1>1, <1>2, <2>1, LeaveStutters
  <2>4. QED
    BY <2>2, <2>3
<1>4. CASE Mounts \/ Refit \/ UNCHANGED vars
  <2>1. /\ timer' \in BOOLEAN /\ listening' \in BOOLEAN
        /\ UNCHANGED <<socket, key, size, keyboard, last, wrong>>
    BY <1>4 DEF Mounts, Refit, vars, exit, layout, history, Shape
  <2>2. Shape'
    BY <1>1, <2>1 DEF Shape, sender
  <2>3. LeaveInv'
    BY <1>1, <1>2, <2>1, LeaveStutters
  <2>4. QED
    BY <1>1, <1>2, <2>2, <2>3
<1>5. CASE CloseUnheard
  <2>1. /\ page = "connected" /\ socket = "closing" /\ socket' = "closed"
        /\ UNCHANGED <<listening, key, layout, wrong>>
    BY <1>5 DEF CloseUnheard, history
  <2>2. Shape'
    BY <1>1, <2>1 DEF Shape, sender, layout
  <2>3. ~(wrong \subseteq {"storage"})
    BY <2>1 DEF LeaveInv
  <2>4. LeaveInv'
    BY <1>1, <1>2, <2>1, <2>3 DEF LeaveInv
  <2>5. QED
    BY <1>1, <1>2, <2>2, <2>4
<1>6. CASE Breaks \/ OtherTab
  <2>1. /\ socket' \in {"open", "closing", "closed"} /\ key' \in BOOLEAN /\ UNCHANGED <<layout, listening>>
        /\ \E f \in {"lost", "other_tab"} : GoesWrong(f)
    BY <1>6 DEF Breaks, OtherTab, exit, Shape
  <2>2. Shape'
    BY <1>1, <2>1 DEF Shape, sender, layout, GoesWrong
  <2>3. ~(wrong' \subseteq {"storage"})
    BY <2>1 DEF GoesWrong
  <2>4. LeaveInv'
    BY <1>1, <1>2, <2>3 DEF LeaveInv
  <2>5. QED
    BY <1>1, <1>2, <2>2, <2>4
<1>7. QED
  BY <1>1, <1>2, <1>3, <1>4, <1>5, <1>6

\* A page that has just been rendered.
LEMMA PageInit == Init => PageInv
<1> SUFFICES ASSUME Init PROVE PageInv
  OBVIOUS
<1>1. /\ queue = <<>> /\ sent = <<>> /\ task = None /\ calls = 0 /\ seq = 0 /\ step = "none"
      /\ DOMAIN queue = {} /\ DOMAIN sent = {} /\ Len(queue) = 0
      /\ queue \in Seq(Envelopes) /\ sent \in Seq(Sendable)
  BY DEF Init
<1>2. Begun = 0 /\ Over = 0
  <2>1. calls = 0 /\ Len(queue) = 0 /\ task = None
    BY <1>1
  <2>2. Begun = 0
    BY <2>1 DEF Begun
  <2>3. QED
    BY <2>1, <2>2 DEF Over
<1>3. \A e \in Waiting : e = None
  <2>1. DOMAIN queue = {} /\ task = None
    BY <1>1
  <2>2. SUFFICES ASSUME NEW e \in Waiting, e # None PROVE FALSE
    OBVIOUS
  <2>3. e \in {queue[i] : i \in DOMAIN queue}
    BY <2>1, <2>2 DEF Waiting
  <2>4. PICK i \in DOMAIN queue : e = queue[i]
    BY <2>3
  <2>5. QED
    BY <2>1, <2>4
<1>4. Shape
  <2>1. task \in Envelopes \cup {None} /\ step = "none" /\ (task = None <=> step = "none")
        /\ calls \in Nat /\ seq \in Nat
    BY <1>1
  <2>2. /\ page = "connected" /\ socket = "open" /\ listening \in BOOLEAN /\ gone \in BOOLEAN
        /\ erasing \in BOOLEAN /\ key \in BOOLEAN /\ keyboard \in BOOLEAN /\ timer \in BOOLEAN
    BY DEF Init
  <2>3. tapped = 0 /\ calls = 0 /\ size \in Sizes /\ last = None /\ wrong = {}
    BY DEF Init
  <2>4. tapped \in 0 .. calls
    BY <2>3
  <2>5. last \in Usable \cup {None}
    BY <2>3
  <2>6. wrong \subseteq Faults
    BY <2>3
  <2>7. queue \in Seq(Envelopes) /\ sent \in Seq(Sendable)
    BY <1>1
  <2>8. QED
    BY <2>1, <2>2, <2>7, <2>3, <2>4, <2>5, <2>6 DEF Shape
<1>5. QueueInv
  BY <1>1, <1>2 DEF QueueInv, SentInOrder
<1>6. OverInv
  BY DEF Init, OverInv
<1>7. LeaveInv
  <2>1. clearing = {} /\ tapped = 0 /\ page = "connected" /\ key /\ socket = "open" /\ ~erasing
    BY DEF Init
  <2>2. \A n : ~Leaving(n)
    BY <1>3, <2>1 DEF Leaving
  <2>3. QED
    BY <1>2, <2>1, <2>2 DEF LeaveInv
<1>8. QED
  BY <1>4, <1>5, <1>6, <1>7 DEF PageInv

\* The queue is in the order of the calls, what is over was sent, and nothing erases the
\* keypair before its time.
THEOREM PageInvariant == Spec => []PageInv
<1>1. PageInv /\ [Next]_vars => PageInv'
  BY CallsKeep, TapKeeps, TaskKeeps, LeavingKeeps, EventKeeps DEF Next
<1>2. QED
  BY <1>1, PageInit, PTL DEF Spec

-----------------------------------------------------------------------------
\* The properties

\* Every variable of the page keeps its type: each message that left has the number of a
\* call that was made, and a sequence number that was drawn.
THEOREM PageTypeCorrect == Spec => []TypeOK
<1>1. PageInv => TypeOK
  <2> SUFFICES ASSUME Shape, QueueInv, OverInv PROVE TypeOK
    BY DEF PageInv
  <2>1. /\ Len(queue) \in Nat /\ calls \in Nat /\ DOMAIN queue = 1 .. Len(queue)
        /\ Len(queue) <= calls /\ (task # None => Len(queue) < calls)
        /\ seq \in Nat /\ seq <= calls /\ Over \in 0 .. calls
    BY DEF Shape, QueueInv, Begun, Over
  <2>2. \A i \in DOMAIN queue : queue[i].n \in 1 .. calls
    BY <2>1 DEF QueueInv, Begun
  <2>3. ASSUME NEW i \in DOMAIN sent PROVE sent[i] \in Messages
    <3>1. sent[i] \in Sendable
      BY DEF Shape
    <3>2. sent[i].n \in 1 .. calls /\ sent[i].seq \in 1 .. seq
      <4>1. sent[i].n \in 1 .. Over /\ sent[i].seq <= seq
        BY DEF QueueInv
      <4>2. sent[i].seq \in Nat \ {0}
        BY <3>1 DEF Sendable
      <4>3. QED
        BY <2>1, <4>1, <4>2
    <3>3. QED
      BY <3>1, <3>2 DEF Messages, Sendable
  <2>4. clearing \subseteq 1 .. calls /\ failed \subseteq 1 .. calls
    BY <2>1 DEF OverInv
  <2>5. QED
    BY <2>1, <2>2, <2>3, <2>4 DEF TypeOK, Shape
<1>2. QED
  BY <1>1, PageInvariant, PTL

\* The messages leave the phone in the order of the calls, with growing sequence numbers,
\* though each waits for IndexedDB and for a signature, and some fail (ConnectedPage.tsx:60).
THEOREM AlwaysInOrder == Spec => []SentInOrder
  BY PageInvariant, PTL DEF PageInv, QueueInv

\* A failure of IndexedDB or of a signature costs its own message only: while the page is
\* up and the connection and the keypair are there, every other call that is over was
\* sent (ConnectedPage.tsx:83).
THEOREM FailureIsItsOwn == Spec => []FailureCostsOne
<1>1. PageInv => FailureCostsOne
  BY DEF PageInv, LeaveInv, FailureCostsOne
<1>2. QED
  BY <1>1, PageInvariant, PTL

\* However many runs of handleDisconnect overlap, the keypair is erased only when
\* everything before the first Disconnect, and that one's message, was signed and sent or
\* failed by itself (ConnectedPage.tsx:305).
THEOREM NothingIsLeftUnsaid == Spec => []NothingLeftUnsaid
<1>1. PageInv => NothingLeftUnsaid
  <2> SUFFICES ASSUME PageInv, tapped # 0, clearing # {} \/ ~key, wrong \subseteq {"storage"},
                      NEW n \in 1 .. tapped
               PROVE  Settled(n)
    BY DEF NothingLeftUnsaid
  <2>1. CASE page = "disconnected"
    BY <2>1 DEF PageInv, LeaveInv
  <2>2. CASE page = "connected"
    <3>1. key /\ \A k \in 1 .. Over : Settled(k)
      BY <2>2 DEF PageInv, LeaveInv
    <3>2. PICK c \in clearing : tapped <= c /\ c \in 1 .. Over
      BY <3>1 DEF PageInv, LeaveInv, Leaving, OverInv
    <3>3. tapped \in Nat /\ Over \in Int
      BY DEF PageInv, Shape, Over, Begun
    <3>4. QED
      BY <3>1, <3>2, <3>3
  <2>3. QED
    BY <2>1, <2>2 DEF PageInv, Shape
<1>2. QED
  BY <1>1, PageInvariant, PTL
=============================================================================
