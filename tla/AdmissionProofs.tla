---------------------------- MODULE AdmissionProofs ----------------------------
(***************************************************************************)
(* Proofs about Admission, for any addresses, any finite number of         *)
(* connections, and any limit, window, patience and horizon.               *)
(***************************************************************************)
EXTENDS Admission, FiniteSetTheorems, TLAPS

\* The constants.
LEMMA Parameters ==
  /\ IsFiniteSet(Sockets) /\ Limit \in Nat /\ Limit > 0 /\ Window \in Nat /\ Window > 0
  /\ Patience \in Nat /\ None \notin Addresses /\ None \notin Nat
BY AdmissionParameters

\* Parts of the sockets are finite, and a part of a part is not larger.
LEMMA Parts ==
  ASSUME NEW S \in SUBSET Sockets, NEW T \in SUBSET S
  PROVE  /\ IsFiniteSet(S) /\ IsFiniteSet(T)
         /\ Cardinality(S) \in Nat /\ Cardinality(T) \in Nat
         /\ Cardinality(T) <= Cardinality(S)
<1>1. IsFiniteSet(S)
  BY Parameters, FS_Subset
<1>2. IsFiniteSet(T) /\ Cardinality(T) <= Cardinality(S)
  BY <1>1, FS_Subset
<1> QED BY <1>1, <1>2, FS_CardinalityType

-----------------------------------------------------------------------------
\* Type correctness

\* What counting a connection in does to its address's entry.
LEMMA CountedEntry ==
  ASSUME TypeOK, NEW ip \in Addresses, ~Full(ip), Counted(ip)
  PROVE  /\ entry' \in [Addresses -> [count : 0..Limit, resetAt : Nat]]
         /\ \A a \in Addresses \ {ip} : entry'[a] = entry[a]
         /\ Expired(ip) => entry'[ip].count = 1 /\ entry'[ip].resetAt = now + Window
         /\ ~Expired(ip) => /\ now < entry[ip].resetAt
                            /\ entry'[ip].count = entry[ip].count + 1
                            /\ entry'[ip].resetAt = entry[ip].resetAt
<1>1. /\ entry \in [Addresses -> [count : 0..Limit, resetAt : Nat]] /\ now \in Nat
      /\ entry[ip].count \in Nat /\ entry[ip].resetAt \in Nat
  BY Parameters DEF TypeOK
<1>2. CASE Expired(ip)
  <2>1. entry' = [entry EXCEPT ![ip] = Fresh]
    BY <1>2 DEF Counted
  <2>2. /\ Fresh \in [count : 0..Limit, resetAt : Nat]
        /\ Fresh.count = 1 /\ Fresh.resetAt = now + Window
    BY <1>1, Parameters DEF Fresh
  <2> QED BY <1>1, <1>2, <2>1, <2>2
<1>3. CASE ~Expired(ip)
  <2>1. entry' = [entry EXCEPT ![ip] = More(entry[ip])]
    BY <1>3 DEF Counted
  <2>2. now < entry[ip].resetAt /\ entry[ip].count < Limit
    BY <1>1, <1>3, Parameters DEF Full, Expired
  <2>3. /\ More(entry[ip]) \in [count : 0..Limit, resetAt : Nat]
        /\ More(entry[ip]).count = entry[ip].count + 1
        /\ More(entry[ip]).resetAt = entry[ip].resetAt
    BY <1>1, <2>2, Parameters DEF More
  <2> QED BY <1>1, <1>3, <2>1, <2>2, <2>3
<1> QED BY <1>2, <1>3

\* A connection that passes the limit.
LEMMA ConnectType ==
  ASSUME TypeOK, NEW s \in Sockets, NEW ip \in Addresses, NEW allowed \in BOOLEAN,
         Connect(s, ip, allowed)
  PROVE  TypeOK' /\ until'[s] = entry'[ip].resetAt /\ passed'[s] = now
<1>1. /\ entry' \in [Addresses -> [count : 0..Limit, resetAt : Nat]]
      /\ entry'[ip].resetAt \in Nat
  BY CountedEntry DEF Connect
<1>2. /\ now \in Nat /\ now + Patience \in Nat
  BY Parameters DEF TypeOK
<1>3. /\ sock' \in [Sockets -> {"absent", "open", "closing", "closed"}]
      /\ timer' \in [Sockets -> Maybe(Nat)] /\ spoke' \in [Sockets -> BOOLEAN]
      /\ code' \in [Sockets -> Codes] /\ known' \in [Sockets -> BOOLEAN]
  <2>1. CASE allowed
    BY <1>2, <2>1 DEF Connect, Welcome, TypeOK, Maybe
  <2>2. CASE ~allowed
    BY <2>2 DEF Connect, Turned, TypeOK, Codes
  <2> QED BY <2>1, <2>2
<1>4. /\ now' = now /\ refused' = refused
      /\ from' = [from EXCEPT ![s] = ip] /\ passed' = [passed EXCEPT ![s] = now]
      /\ until' = [until EXCEPT ![s] = entry'[ip].resetAt]
  BY DEF Connect
<1> QED BY <1>1, <1>2, <1>3, <1>4 DEF TypeOK, Maybe

\* A connection that does not.
LEMMA LimitedType ==
  ASSUME TypeOK, NEW s \in Sockets, NEW ip \in Addresses, ConnectLimited(s, ip)
  PROVE  TypeOK'
BY DEF ConnectLimited, Turned, TypeOK, Codes, Maybe

\* Every step keeps the types.
LEMMA NextType == TypeOK /\ [Next]_vars => TypeOK'
<1> SUFFICES ASSUME TypeOK, [Next]_vars PROVE TypeOK'
  OBVIOUS
<1>1. CASE Tick
  BY <1>1 DEF Tick, TypeOK, link, history
<1>2. CASE \E s \in Sockets : Arrives(s)
  BY <1>2, ConnectType, LimitedType DEF Arrives
<1>3. CASE \E s \in Sockets, ident \in BOOLEAN : Message(s, ident)
  BY <1>3 DEF Message, Knows, TypeOK, Maybe, history
<1>4. CASE \E s \in Sockets : AuthTimeout(s) \/ Closed(s) \/ Failed(s)
  BY <1>4 DEF AuthTimeout, Closed, Failed, TypeOK, Codes, Maybe, history
<1>5. CASE UNCHANGED vars
  BY <1>5 DEF vars, link, history, TypeOK
<1> QED BY <1>1, <1>2, <1>3, <1>4, <1>5 DEF Next

\* The variables keep their types, and no window counts more than the limit.
THEOREM AdmissionTypeCorrect == Spec => []TypeOK
<1>1. Init => TypeOK
  BY Parameters DEF Init, TypeOK, NoEntry, Codes, Maybe
<1> QED BY <1>1, NextType, PTL DEF Spec

-----------------------------------------------------------------------------
\* Windows

\* The connections of an address that were counted in the window that ends at u.
Counts(ip, u) == {s \in Sockets : from[s] = ip /\ until[s] = u}

(***************************************************************************)
(* What makes LimitKept inductive: a connection that passed did so within  *)
(* the window it was counted in, which is its address's window or an       *)
(* earlier one; two windows of one address do not overlap; the entry's     *)
(* count is the number of connections in its window; and no window ever    *)
(* counted more than the limit.                                            *)
(***************************************************************************)
Member(s) == /\ from[s] \in Addresses /\ until[s] \in Nat /\ passed[s] \in Nat
             /\ until[s] <= passed[s] + Window /\ passed[s] < until[s]
             /\ passed[s] <= now
             /\ \/ until[s] = entry[from[s]].resetAt
                \/ until[s] + Window <= entry[from[s]].resetAt

Apart(s, t) == until[s] = until[t] \/ until[s] + Window <= until[t]
                                   \/ until[t] + Window <= until[s]

WindowInv ==
  /\ \A s \in Sockets : sock[s] = "absent" =>
        passed[s] = None /\ until[s] = None /\ refused[s] = None
  /\ \A s \in Sockets : (passed[s] = None) <=> (until[s] = None)
  /\ \A s \in Sockets : until[s] # None => Member(s)
  /\ \A s, t \in Sockets : until[s] # None /\ until[t] # None /\ from[s] = from[t] => Apart(s, t)
  /\ \A ip \in Addresses : /\ entry[ip].resetAt <= now + Window
                           /\ Cardinality(Counts(ip, entry[ip].resetAt)) = entry[ip].count
  /\ \A ip \in Addresses, u \in Nat : Cardinality(Counts(ip, u)) <= Limit

\* Steps that let nobody pass; time may go on.
LEMMA WindowKept ==
  ASSUME TypeOK, WindowInv, UNCHANGED <<entry, passed, until>>,
         now' \in Nat, now <= now',
         \A s \in Sockets : sock[s] # "absent" => sock'[s] # "absent" /\ from'[s] = from[s]
                                                 /\ refused'[s] = refused[s],
         \A s \in Sockets : sock'[s] = "absent" => refused'[s] = refused[s]
  PROVE  WindowInv'
<1>1. \A s \in Sockets : until[s] # None => sock[s] # "absent"
  BY DEF WindowInv
<1>2. \A ip, u : u \in Nat => Counts(ip, u)' = Counts(ip, u)
  BY <1>1, Parameters DEF Counts
<1>3. \A ip \in Addresses : entry[ip].resetAt \in Nat
  BY DEF TypeOK
<1>4. \A s \in Sockets : until'[s] # None => Member(s)'
  BY <1>1, Parameters DEF WindowInv, Member, TypeOK
<1>5. \A s, t \in Sockets : until'[s] # None /\ until'[t] # None /\ from'[s] = from'[t]
                               => Apart(s, t)'
  BY <1>1 DEF WindowInv, Apart
<1>6. \A ip \in Addresses :
        /\ entry'[ip].resetAt <= now' + Window
        /\ Cardinality(Counts(ip, entry[ip].resetAt)') = entry'[ip].count
  BY <1>2, <1>3, Parameters DEF WindowInv, TypeOK
<1>7. \A ip \in Addresses, u \in Nat : Cardinality(Counts(ip, u)') <= Limit
  BY <1>2 DEF WindowInv
<1>8. \A s \in Sockets : sock'[s] = "absent" =>
        passed'[s] = None /\ until'[s] = None /\ refused'[s] = None
  BY DEF WindowInv
<1>9. \A s \in Sockets : (passed'[s] = None) <=> (until'[s] = None)
  BY DEF WindowInv
<1> QED BY <1>4, <1>5, <1>6, <1>7, <1>8, <1>9 DEF WindowInv, Counts

\* A connection that passes: it opens a window after all before it, or joins the
\* address's window.
LEMMA WindowConnect ==
  ASSUME TypeOK, WindowInv, NEW s \in Sockets, NEW ip \in Addresses, NEW allowed \in BOOLEAN,
         Connect(s, ip, allowed)
  PROVE  WindowInv'
<1> DEFINE end == entry'[ip].resetAt
           old == entry[ip].resetAt
<1>1. /\ sock[s] = "absent" /\ passed[s] = None /\ until[s] = None /\ refused[s] = None
      /\ sock'[s] # "absent" /\ now' = now /\ refused' = refused
      /\ from' = [from EXCEPT ![s] = ip] /\ passed' = [passed EXCEPT ![s] = now]
      /\ until' = [until EXCEPT ![s] = end]
      /\ \A t \in Sockets \ {s} : sock'[t] = sock[t]
  <2>1. CASE allowed
    BY <2>1 DEF Connect, Welcome, WindowInv, TypeOK
  <2>2. CASE ~allowed
    BY <2>2 DEF Connect, Turned, WindowInv, TypeOK
  <2> QED BY <2>1, <2>2
<1>2. /\ from'[s] = ip /\ passed'[s] = now /\ until'[s] = end
      /\ \A t \in Sockets \ {s} : from'[t] = from[t] /\ passed'[t] = passed[t] /\ until'[t] = until[t]
  BY <1>1 DEF TypeOK
<1>3. /\ now \in Nat /\ old \in Nat /\ entry[ip].count \in Nat
      /\ entry[ip].count <= Limit
      /\ Window \in Nat /\ Window > 0 /\ Limit \in Nat /\ Limit > 0 /\ None \notin Nat
  BY Parameters DEF TypeOK
<1>4. ~Full(ip) /\ Counted(ip)
  BY DEF Connect
<1>5. /\ end \in Nat /\ now < end /\ end <= now + Window
      /\ \/ end = old /\ ~Expired(ip) /\ entry[ip].count < Limit
            /\ entry'[ip].count = entry[ip].count + 1
         \/ old + Window <= end /\ Expired(ip) /\ entry'[ip].count = 1
  <2>1. old <= now + Window
    BY DEF WindowInv
  <2>2. CASE Expired(ip)
    <3>1. end = now + Window /\ entry'[ip].count = 1 /\ now >= old
      BY <1>4, <2>2, CountedEntry DEF Expired
    <3> QED BY <1>3, <2>2, <3>1
  <2>3. CASE ~Expired(ip)
    <3>1. now < old /\ end = old /\ entry'[ip].count = entry[ip].count + 1
      BY <1>4, <2>3, CountedEntry
    <3>2. entry[ip].count < Limit
      BY <1>3, <1>4, <2>3 DEF Full
    <3> QED BY <1>3, <2>1, <2>3, <3>1, <3>2
  <2> QED BY <2>2, <2>3
<1>6. \A a \in Addresses \ {ip} : entry'[a] = entry[a]
  BY <1>4, CountedEntry
<1> HIDE DEF end, old
<1>7. \A t \in Sockets \ {s} : until[t] # None =>
        Member(t) /\ (from[t] = ip => until[t] = end \/ until[t] + Window <= end)
  <2> SUFFICES ASSUME NEW t \in Sockets \ {s}, until[t] # None
               PROVE  Member(t) /\ (from[t] = ip => until[t] = end \/ until[t] + Window <= end)
    OBVIOUS
  <2>1. Member(t)
    BY DEF WindowInv
  <2>2. CASE from[t] = ip
    BY <1>3, <1>5, <2>1, <2>2 DEF Member, old
  <2> QED BY <2>1, <2>2
<1>8. \A t \in Sockets : until'[t] # None => Member(t)'
  <2>1. Member(s)'
    BY <1>1, <1>2, <1>3, <1>5 DEF Member, end
  <2>2. \A t \in Sockets \ {s} : until[t] # None => Member(t)'
    BY <1>1, <1>2, <1>6, <1>7 DEF Member, end
  <2> QED BY <1>2, <2>1, <2>2
<1>9. \A t, u \in Sockets : until'[t] # None /\ until'[u] # None /\ from'[t] = from'[u]
                               => Apart(t, u)'
  <2>1. \A t, u \in Sockets \ {s} : until'[t] # None /\ until'[u] # None /\ from'[t] = from'[u]
                                       => Apart(t, u)'
    BY <1>2 DEF WindowInv, Apart
  <2>2. \A t \in Sockets \ {s} : until'[t] # None /\ from'[t] = ip => Apart(s, t)' /\ Apart(t, s)'
    BY <1>2, <1>7 DEF Apart
  <2>3. Apart(s, s)'
    BY DEF Apart
  <2> QED BY <1>2, <2>1, <2>2, <2>3
<1> DEFINE New(a, u) == {t \in Sockets : from'[t] = a /\ until'[t] = u}
<1>10. /\ New(ip, end) = Counts(ip, end) \cup {s}
       /\ \A a, u : ~(a = ip /\ u = end) /\ u \in Nat => New(a, u) = Counts(a, u)
  <2>1. \A t \in Sockets : t # s => from'[t] = from[t] /\ until'[t] = until[t]
    BY <1>2
  <2>2. \A u : u \in Nat => until[s] # u
    BY <1>1, <1>3
  <2>3. \A t \in Sockets : \A a, u : u \in Nat =>
           ((from'[t] = a /\ until'[t] = u)
              <=> (from[t] = a /\ until[t] = u) \/ (t = s /\ a = ip /\ u = end))
    BY <1>2, <2>1, <2>2
  <2> QED BY <1>5, <2>3 DEF Counts
<1> HIDE DEF New
<1>11. s \notin Counts(ip, end) /\ IsFiniteSet(Counts(ip, end)) /\ Cardinality(Counts(ip, end)) \in Nat
  <2>1. Counts(ip, end) \in SUBSET Sockets /\ s \notin Counts(ip, end)
    BY <1>1, <1>3, <1>5 DEF Counts
  <2> QED BY <2>1, Parts
<1>12. Cardinality(New(ip, end)) = Cardinality(Counts(ip, end)) + 1
  BY <1>10, <1>11, FS_AddElement
<1>13. Cardinality(New(ip, end)) = entry'[ip].count /\ entry'[ip].count <= Limit
  <2>1. CASE end = old /\ entry[ip].count < Limit /\ entry'[ip].count = entry[ip].count + 1
    <3>1. Cardinality(Counts(ip, end)) = entry[ip].count
      BY <2>1 DEF WindowInv, old
    <3> QED BY <1>3, <1>12, <2>1, <3>1
  <2>2. CASE old + Window <= end /\ Expired(ip) /\ entry'[ip].count = 1
    <3>1. Counts(ip, end) = {}
      <4> SUFFICES ASSUME NEW t \in Counts(ip, end) PROVE FALSE
        OBVIOUS
      <4>1. t \in Sockets /\ from[t] = ip /\ until[t] = end /\ until[t] # None
        BY <1>3, <1>5 DEF Counts
      <4>2. Member(t)
        BY <4>1 DEF WindowInv
      <4> QED BY <1>3, <1>5, <2>2, <4>1, <4>2 DEF Member, old
    <3> QED BY <1>3, <1>12, <2>2, <3>1, FS_EmptySet
  <2> QED BY <1>5, <2>1, <2>2
<1>14. \A a \in Addresses : /\ entry'[a].resetAt <= now' + Window
                            /\ Cardinality(New(a, entry'[a].resetAt)) = entry'[a].count
  <2>1. \A a \in Addresses \ {ip} : /\ entry[a].resetAt \in Nat
                                    /\ entry'[a].resetAt <= now' + Window
                                    /\ Cardinality(Counts(a, entry[a].resetAt)) = entry'[a].count
    BY <1>1, <1>6 DEF WindowInv, TypeOK
  <2>2. \A a \in Addresses \ {ip} : New(a, entry'[a].resetAt) = Counts(a, entry[a].resetAt)
    BY <1>6, <1>10, <2>1
  <2>3. entry'[ip].resetAt = end
    BY DEF end
  <2> QED BY <1>1, <1>5, <1>13, <2>1, <2>2, <2>3
<1>15. \A a \in Addresses, u \in Nat : Cardinality(New(a, u)) <= Limit
  <2>1. \A a \in Addresses, u \in Nat : ~(a = ip /\ u = end) => Cardinality(New(a, u)) <= Limit
    BY <1>10 DEF WindowInv
  <2> QED BY <1>13, <2>1
<1>16. \A t \in Sockets : /\ sock'[t] = "absent" => passed'[t] = None /\ until'[t] = None /\ refused'[t] = None
                          /\ (passed'[t] = None) <=> (until'[t] = None)
  BY <1>1, <1>2, <1>3, <1>5 DEF WindowInv
<1> QED BY <1>8, <1>9, <1>14, <1>15, <1>16 DEF WindowInv, Counts, New

\* The step, action by action.
LEMMA WindowNext == TypeOK /\ WindowInv /\ [Next]_vars => WindowInv'
<1> SUFFICES ASSUME TypeOK, WindowInv, [Next]_vars PROVE WindowInv'
  OBVIOUS
<1>1. CASE \E s \in Sockets : \E ip \in Addresses : \E allowed \in BOOLEAN : Connect(s, ip, allowed)
  BY <1>1, WindowConnect
<1>2. CASE Tick
  BY <1>2, WindowKept DEF Tick, TypeOK, link, history
<1>3. CASE \E s \in Sockets : \E ip \in Addresses : ConnectLimited(s, ip)
  <2>1. PICK s \in Sockets, ip \in Addresses : ConnectLimited(s, ip)
    BY <1>3
  <2>2. /\ UNCHANGED <<now, entry, passed, until>> /\ sock[s] = "absent"
        /\ sock' = [sock EXCEPT ![s] = "closing"]
        /\ from' = [from EXCEPT ![s] = ip] /\ refused' = [refused EXCEPT ![s] = now]
    BY <2>1 DEF ConnectLimited, Turned
  <2>3. /\ sock'[s] = "closing"
        /\ \A t \in Sockets \ {s} : /\ sock'[t] = sock[t] /\ from'[t] = from[t]
                                    /\ refused'[t] = refused[t]
    BY <2>2 DEF TypeOK
  <2> QED BY <2>2, <2>3, WindowKept DEF TypeOK
<1>4. CASE \/ \E s \in Sockets : AuthTimeout(s) \/ Closed(s) \/ Failed(s)
           \/ \E s \in Sockets, ident \in BOOLEAN : Message(s, ident)
  <2>1. PICK s \in Sockets : \/ AuthTimeout(s) \/ Closed(s) \/ Failed(s)
                            \/ \E ident \in BOOLEAN : Message(s, ident)
    BY <1>4
  <2>2. UNCHANGED <<now, entry, from, passed, until, refused>>
    BY <2>1 DEF Message, AuthTimeout, Closed, Failed, history
  <2>3. \A t \in Sockets : sock[t] # "absent" => sock'[t] # "absent"
    BY <2>1 DEF Message, AuthTimeout, Closed, Failed, TypeOK
  <2> QED BY <2>2, <2>3, WindowKept DEF TypeOK
<1>5. CASE UNCHANGED vars
  BY <1>5, WindowKept DEF vars, link, history, TypeOK
<1> QED BY <1>1, <1>2, <1>3, <1>4, <1>5 DEF Next, Arrives

\* The initial states.
LEMMA WindowInit == Init => WindowInv
<1> SUFFICES ASSUME Init PROVE WindowInv
  OBVIOUS
<1>1. \A ip, u : u \in Nat => Counts(ip, u) = {}
  BY Parameters DEF Init, Counts
<1>2. \A ip, u : u \in Nat => Cardinality(Counts(ip, u)) = 0
  BY <1>1, FS_EmptySet
<1>3. \A ip \in Addresses : entry[ip].resetAt = 0 /\ entry[ip].count = 0
  BY DEF Init, NoEntry
<1>4. /\ \A s \in Sockets : passed[s] = None /\ until[s] = None /\ refused[s] = None
      /\ now = 0
  BY DEF Init
<1>5. \A ip \in Addresses : /\ entry[ip].resetAt <= now + Window
                            /\ Cardinality(Counts(ip, entry[ip].resetAt)) = entry[ip].count
  BY <1>2, <1>3, <1>4, Parameters
<1> QED BY <1>2, <1>4, <1>5, Parameters DEF WindowInv

\* Both invariants together.
LEMMA Inductive == Spec => [](TypeOK /\ WindowInv)
BY WindowInit, WindowNext, AdmissionTypeCorrect, PTL DEF Spec

-----------------------------------------------------------------------------
\* What follows

\* Two connections of an address that passed at most Window - 1 ticks apart were
\* counted in the same window or in two that follow each other; the one that passed
\* while a window lasted was counted in it.
LEMMA SameWindow ==
  ASSUME WindowInv, NEW s \in Sockets, NEW t \in Sockets,
         until[s] # None, passed[t] # None, from[t] = from[s],
         until[s] - Window <= passed[t], passed[t] <= until[s] - 1
  PROVE  until[t] = until[s]
<1>1. Member(s) /\ Member(t) /\ Apart(s, t)
  BY DEF WindowInv
<1> QED BY <1>1, Parameters DEF Member, Apart

(***************************************************************************)
(* From the moment a window opens for an address, and for as long as it    *)
(* lasts, no more of its connections pass than the limit allows.           *)
(***************************************************************************)
THEOREM LimitIsKept == Spec => []LimitKept
<1>1. TypeOK /\ WindowInv => LimitKept
  <2> SUFFICES ASSUME TypeOK, WindowInv, NEW s \in Sockets, until[s] # None
               PROVE  Cardinality(PassedIn(from[s], until[s] - Window, until[s] - 1)) <= Limit
    BY DEF LimitKept
  <2> DEFINE P == PassedIn(from[s], until[s] - Window, until[s] - 1)
             C == Counts(from[s], until[s])
  <2>1. P \in SUBSET C
    BY SameWindow DEF PassedIn, Counts
  <2>2. C \in SUBSET Sockets /\ from[s] \in Addresses /\ until[s] \in Nat
    BY DEF Counts, WindowInv, Member
  <2>3. Cardinality(C) <= Limit
    BY <2>2 DEF WindowInv
  <2> HIDE DEF P, C
  <2>4. Cardinality(P) <= Cardinality(C) /\ Cardinality(P) \in Nat /\ Cardinality(C) \in Nat
    BY <2>1, <2>2, Parts
  <2> QED BY <2>3, <2>4, Parameters DEF P
<1> QED BY <1>1, Inductive, PTL

(***************************************************************************)
(* No interval as long as a window, wherever it begins, sees more than     *)
(* twice the limit of an address's connections pass.                       *)
(***************************************************************************)
THEOREM TwiceIsTheMost == Spec => []NeverTwiceOver
<1>1. TypeOK /\ WindowInv => NeverTwiceOver
  <2> SUFFICES ASSUME TypeOK, WindowInv, NEW ip \in Addresses, NEW a \in Nat
               PROVE  Cardinality(PassedIn(ip, a, a + Window - 1)) <= 2 * Limit
    BY DEF NeverTwiceOver
  <2> DEFINE P == PassedIn(ip, a, a + Window - 1)
  <2>1. P \in SUBSET Sockets
    BY DEF PassedIn
  <2>2. /\ \A s \in P : /\ from[s] = ip /\ until[s] # None /\ until[s] \in Nat
                        /\ passed[s] \in Nat
                        /\ a <= passed[s] /\ passed[s] <= a + Window - 1
                        /\ until[s] <= passed[s] + Window /\ passed[s] < until[s]
    BY DEF PassedIn, WindowInv, Member
  <2>3. \A s, t \in P : Apart(s, t)
    BY <2>1, <2>2 DEF WindowInv
  <2>4. \A u \in Nat : /\ Counts(ip, u) \in SUBSET Sockets
                       /\ IsFiniteSet(Counts(ip, u))
                       /\ Cardinality(Counts(ip, u)) \in Nat /\ Cardinality(Counts(ip, u)) <= Limit
    <3> SUFFICES ASSUME NEW u \in Nat
                 PROVE  /\ Counts(ip, u) \in SUBSET Sockets
                        /\ IsFiniteSet(Counts(ip, u))
                        /\ Cardinality(Counts(ip, u)) \in Nat
                        /\ Cardinality(Counts(ip, u)) <= Limit
      OBVIOUS
    <3>1. Counts(ip, u) \in SUBSET Sockets
      BY DEF Counts
    <3> QED BY <3>1, Parts DEF WindowInv
  <2> HIDE DEF P
  <2>5. \E u, v \in Nat : P \in SUBSET (Counts(ip, u) \cup Counts(ip, v))
    <3>1. CASE P = {}
      BY <3>1
    <3>2. CASE P # {}
      <4>1. PICK s \in P : TRUE
        BY <3>2
      <4>2. CASE \A t \in P : until[t] = until[s]
        <5>1. \A t \in P : t \in Counts(ip, until[s])
          BY <2>1, <2>2, <4>2 DEF Counts
        <5> QED BY <2>2, <5>1
      <4>3. CASE \E t \in P : until[t] # until[s]
        <5>1. PICK t \in P : until[t] # until[s]
          BY <4>3
        <5>2. \A r \in P : until[r] = until[s] \/ until[r] = until[t]
          BY <2>2, <2>3, <5>1, Parameters DEF Apart
        <5>3. \A r \in P : r \in Counts(ip, until[s]) \cup Counts(ip, until[t])
          BY <2>1, <2>2, <5>2 DEF Counts
        <5> QED BY <2>2, <5>3
      <4> QED BY <4>2, <4>3
    <3> QED BY <3>1, <3>2
  <2>6. PICK u \in Nat, v \in Nat : P \in SUBSET (Counts(ip, u) \cup Counts(ip, v))
    BY <2>5
  <2> DEFINE U == Counts(ip, u)
             V == Counts(ip, v)
  <2>7. /\ U \cup V \in SUBSET Sockets /\ U \cap V \in SUBSET U /\ U \in SUBSET Sockets
        /\ IsFiniteSet(U) /\ IsFiniteSet(V)
        /\ Cardinality(U) \in Nat /\ Cardinality(V) \in Nat
        /\ Cardinality(U) <= Limit /\ Cardinality(V) <= Limit
    BY <2>4
  <2> HIDE DEF U, V
  <2>8. Cardinality(U \cap V) \in Nat
    BY <2>7, Parts
  <2>9. Cardinality(U \cup V) = Cardinality(U) + Cardinality(V) - Cardinality(U \cap V)
    BY <2>7, FS_Union
  <2>10. Cardinality(P) <= Cardinality(U \cup V) /\ Cardinality(P) \in Nat
    BY <2>6, <2>7, Parts DEF U, V
  <2> QED BY <2>7, <2>8, <2>9, <2>10, Parameters DEF P
<1> QED BY <1>1, Inductive, PTL

\* What is counted now has passed, and what passed stays so.
LEMMA CauseGrows ==
  ASSUME TypeOK, WindowInv, [Next]_vars, NEW ip, NEW a \in Nat, NEW b \in Nat
  PROVE  /\ PassedIn(ip, a, b) \in SUBSET PassedIn(ip, a, b)'
         /\ \A s \in Sockets : refused[s] # None =>
               refused'[s] = refused[s] /\ from'[s] = from[s]
<1>1. \A s \in Sockets : sock[s] # "absent" =>
        from'[s] = from[s] /\ passed'[s] = passed[s] /\ refused'[s] = refused[s]
  <2>1. CASE \E s \in Sockets : Arrives(s)
    BY <2>1 DEF Arrives, Connect, ConnectLimited, TypeOK
  <2>2. CASE ~\E s \in Sockets : Arrives(s)
    <3>1. UNCHANGED <<from, passed, refused>>
      BY <2>2 DEF Next, Tick, Message, AuthTimeout, Closed, Failed, history, vars
    <3> QED BY <3>1
  <2> QED BY <2>1, <2>2
<1>2. \A s \in Sockets : passed[s] # None \/ refused[s] # None => sock[s] # "absent"
  BY DEF WindowInv
<1> QED BY <1>1, <1>2 DEF PassedIn
\* At the refusal the window counts as many as the limit.
LEMMA CauseAtRefusal ==
  ASSUME TypeOK, WindowInv, NEW ip \in Addresses, Full(ip)
  PROVE  \E a \in 0..now : now < a + Window /\ Cardinality(PassedIn(ip, a, now)) >= Limit
<1> DEFINE end == entry[ip].resetAt
           a == end - Window
           b == IF a < 0 THEN 0 ELSE a
<1>1. /\ now \in Nat /\ end \in Nat /\ now < end /\ end <= now + Window
      /\ entry[ip].count \in Nat /\ entry[ip].count >= Limit
      /\ Cardinality(Counts(ip, end)) = entry[ip].count
      /\ Window \in Nat /\ Window > 0 /\ Limit \in Nat
  BY Parameters DEF TypeOK, WindowInv, Full, Expired
<1>2. b \in 0..now /\ now < b + Window
  BY <1>1
<1>3. \A s \in Counts(ip, end) : s \in PassedIn(ip, b, now)
  <2> SUFFICES ASSUME NEW s \in Sockets, from[s] = ip, until[s] = end
               PROVE  passed[s] # None /\ b <= passed[s] /\ passed[s] <= now
    BY DEF Counts, PassedIn
  <2>1. Member(s)
    BY <1>1, Parameters DEF WindowInv
  <2> QED BY <1>1, <2>1, Parameters DEF Member
<1> HIDE DEF end, a, b
<1>4. PassedIn(ip, b, now) \in SUBSET Sockets
  BY DEF PassedIn
<1>5. /\ Cardinality(Counts(ip, end)) <= Cardinality(PassedIn(ip, b, now))
      /\ Cardinality(PassedIn(ip, b, now)) \in Nat
  BY <1>3, <1>4, Parts
<1>6. Cardinality(PassedIn(ip, b, now)) >= Limit
  BY <1>1, <1>5
<1> QED BY <1>2, <1>6

(***************************************************************************)
(* A connection refused by the limit comes from an address of which as     *)
(* many as the limit allows passed within the last window's time.          *)
(***************************************************************************)
THEOREM RefusalsHaveCause == Spec => []RefusedForCause
<1>1. Init => RefusedForCause
  BY DEF Init, RefusedForCause
<1>2. TypeOK /\ WindowInv /\ RefusedForCause /\ [Next]_vars => RefusedForCause'
  <2> SUFFICES ASSUME TypeOK, WindowInv, RefusedForCause, [Next]_vars,
                      NEW s \in Sockets, refused'[s] # None
               PROVE  \E a \in 0..refused'[s] :
                         /\ refused'[s] < a + Window
                         /\ Cardinality(PassedIn(from[s], a, refused[s])') >= Limit
    BY DEF RefusedForCause
  <2>1. CASE refused[s] # None
    <3>1. PICK r \in Nat : r = refused[s] /\ r = refused'[s] /\ from'[s] = from[s]
      <4>1. 0 \in Nat
        OBVIOUS
      <4>2. refused'[s] = refused[s] /\ from'[s] = from[s]
        BY <2>1, <4>1, CauseGrows
      <4> QED BY <2>1, <4>2 DEF TypeOK, Maybe
    <3>2. PICK ip : ip = from[s] /\ ip = from'[s]
      BY <3>1
    <3>3. PICK a \in 0..r : r < a + Window /\ Cardinality(PassedIn(ip, a, r)) >= Limit
      BY <2>1, <3>1, <3>2 DEF RefusedForCause
    <3>4. a \in Nat /\ PassedIn(ip, a, r) \in SUBSET PassedIn(ip, a, r)'
      BY <3>1, <3>2, <3>3, CauseGrows
    <3>5. PassedIn(ip, a, r)' \in SUBSET Sockets
      BY DEF PassedIn
    <3>6. /\ Cardinality(PassedIn(ip, a, r)) \in Nat
          /\ Cardinality(PassedIn(ip, a, r)') \in Nat
          /\ Cardinality(PassedIn(ip, a, r)) <= Cardinality(PassedIn(ip, a, r)')
      BY <3>4, <3>5, Parts
    <3>7. Cardinality(PassedIn(ip, a, r)') >= Limit
      BY <3>3, <3>6, Parameters
    <3>8. PassedIn(ip, a, r)' = PassedIn(from[s], a, refused[s])'
      BY <3>1, <3>2 DEF PassedIn
    <3> QED BY <3>1, <3>3, <3>7, <3>8
  <2>2. CASE refused[s] = None
    <3>1. PICK t \in Sockets, ip \in Addresses : ConnectLimited(t, ip)
      BY <2>2 DEF Next, Arrives, Connect, Tick, Message, AuthTimeout, Closed, Failed, history, vars
    <3>2. /\ refused' = [refused EXCEPT ![t] = now] /\ from' = [from EXCEPT ![t] = ip]
          /\ passed' = passed /\ Full(ip) /\ sock[t] = "absent" /\ passed[t] = None
      BY <3>1 DEF ConnectLimited, WindowInv
    <3>3. t = s /\ refused'[s] = now /\ from'[s] = ip
      BY <2>2, <3>2 DEF TypeOK
    <3>4. PICK a \in 0..now : now < a + Window /\ Cardinality(PassedIn(ip, a, now)) >= Limit
      BY <3>2, CauseAtRefusal
    <3>5. PassedIn(from[s], a, refused[s])' = PassedIn(ip, a, now)
      <4>1. \A q \in Sockets : passed'[q] = passed[q] /\ (q # t => from'[q] = from[q])
        BY <3>2 DEF TypeOK
      <4>2. PassedIn(from[s], a, refused[s])'
              = {q \in Sockets : /\ from'[q] = ip /\ passed'[q] # None
                                 /\ a <= passed'[q] /\ passed'[q] <= now}
        BY <3>3 DEF PassedIn
      <4>3. \A q \in Sockets : passed[q] # None => q # t
        BY <3>2
      <4> QED BY <4>1, <4>2, <4>3 DEF PassedIn
    <3> QED BY <3>3, <3>4, <3>5
  <2> QED BY <2>1, <2>2
<1> QED BY <1>1, <1>2, Inductive, PTL DEF Spec

-----------------------------------------------------------------------------
\* The timer

\* A connection that has spoken has no timer left, and one that has identified itself
\* has spoken.
TimerInv == \A s \in Sockets : /\ spoke[s] => timer[s] = None /\ sock[s] # "absent"
                               /\ known[s] => spoke[s]

\* Every step keeps it so.
LEMMA TimerNext == TypeOK /\ TimerInv /\ [Next]_vars => TimerInv'
<1> SUFFICES ASSUME TypeOK, TimerInv, [Next]_vars PROVE TimerInv'
  OBVIOUS
<1>1. CASE \E s \in Sockets : Arrives(s)
  <2>1. PICK s \in Sockets : sock[s] = "absent" /\ UNCHANGED <<spoke, known>>
                             /\ \A t \in Sockets \ {s} : sock'[t] = sock[t] /\ timer'[t] = timer[t]
    BY <1>1 DEF Arrives, Connect, ConnectLimited, Welcome, Turned, TypeOK
  <2> QED BY <2>1 DEF TimerInv
<1>2. CASE \E s \in Sockets, ident \in BOOLEAN : Message(s, ident)
  BY <1>2 DEF Message, Knows, Listening, TimerInv, TypeOK
<1>3. CASE \E s \in Sockets : AuthTimeout(s) \/ Closed(s) \/ Failed(s)
  BY <1>3 DEF AuthTimeout, Closed, Failed, TimerInv, TypeOK
<1>4. CASE Tick \/ UNCHANGED vars
  BY <1>4 DEF Tick, vars, link, TimerInv
<1> QED BY <1>1, <1>2, <1>3, <1>4 DEF Next

(***************************************************************************)
(* The timer loses against every cli_hello and phone_claim read before it  *)
(* fires, the first message or a later one: no connection that has         *)
(* identified itself is closed for want of it (handler.ts:199-213).        *)
(***************************************************************************)
THEOREM TimerSparesKnown == Spec => KnownSpared
<1>1. Init => TimerInv
  BY DEF Init, TimerInv
<1>2. TypeOK /\ TimerInv /\ [Next]_vars
        => [\A s \in Sockets : known[s] /\ code'[s] = "auth_timeout" => code[s] = "auth_timeout"]_vars
  <2> SUFFICES ASSUME TypeOK, TimerInv, Next, NEW s \in Sockets, known[s], code'[s] = "auth_timeout"
               PROVE  code[s] = "auth_timeout"
    OBVIOUS
  <2>1. CASE \E t \in Sockets : AuthTimeout(t)
    BY <2>1 DEF AuthTimeout, TimerInv, TypeOK
  <2>2. CASE \E t \in Sockets : Arrives(t)
    BY <2>2 DEF Arrives, Connect, ConnectLimited, Welcome, Turned, TypeOK, TimerInv
  <2>3. CASE \E t \in Sockets : Closed(t)
    BY <2>3 DEF Closed, TypeOK
  <2>4. CASE \/ Tick \/ \E t \in Sockets : Failed(t)
             \/ \E t \in Sockets, ident \in BOOLEAN : Message(t, ident)
    BY <2>4 DEF Tick, Message, Failed, link
  <2> QED BY <2>1, <2>2, <2>3, <2>4 DEF Next
<1> QED BY <1>1, <1>2, TimerNext, AdmissionTypeCorrect, PTL DEF Spec, KnownSpared
=============================================================================
