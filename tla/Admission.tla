------------------------------ MODULE Admission ------------------------------
(***************************************************************************)
(* How the backend lets a WebSocket in (ws/handler.ts): a connection limit *)
(* per address in fixed windows of time, the Origin check, and a timer     *)
(* that closes a connection which says nothing.  What a message means is   *)
(* the router's business: here it only stops the timer, whatever it says;  *)
(* but a history tells those that identified themselves (cli_hello,        *)
(* phone_claim) from those that sent anything else.                        *)
(*                                                                         *)
(* One event loop runs every listener to its end, so each is one action.   *)
(* The clock is Date.now(), taken to be monotonic, in ticks; a timer fires *)
(* at its time or later, as Node's do.                                     *)
(***************************************************************************)
EXTENDS Integers, FiniteSets

CONSTANTS Addresses,   \* where connections come from (request.ip)
          Sockets,     \* bound: the connections that are tried, each once
          Limit,       \* WS_RATE_LIMIT_MAX: 30 in the code
          Window,      \* WS_RATE_LIMIT_WINDOW: a minute
          Patience,    \* AUTH_TIMEOUT_MS: ten seconds
          Horizon,     \* bound: the last tick of the clock
          None         \* no address, no timer, no time

ASSUME AdmissionParameters ==
  /\ IsFiniteSet(Sockets)
  /\ Limit \in Nat \ {0} /\ Window \in Nat \ {0} /\ Patience \in Nat \ {0}
  /\ Horizon \in Nat
  /\ None \notin Addresses /\ None \notin Nat

VARIABLES
  now,       \* Date.now()
  entry,     \* wsConnectionsPerIp: per address its window's count and end
  sock,      \* readyState of the connection; "absent" before it is made
  timer,     \* when authTimer is due, or None
  spoke,     \* the listener's local variable authenticated
  code,      \* why the server closed the socket, or "open"
  known,     \* history: it has sent a cli_hello or a phone_claim
  from,      \* history: the address the connection came from
  passed,    \* history: when it passed the connection limit, or None
  until,     \* history: when the window it was counted in ends, or None
  refused    \* history: when it was turned away by the limit, or None

link    == <<sock, timer, spoke, code, known>>
history == <<from, passed, until, refused>>
vars    == <<now, entry, link, history>>

Codes == {"open", "rate_limited", "invalid_origin", "auth_timeout"}

-----------------------------------------------------------------------------
\* checkWsRateLimit

\* An address without an entry is taken for one whose window is long over.
NoEntry == [count |-> 0, resetAt |-> 0]

\* Plausible bug: the window's last moment is taken to belong to it.
ExpiredLate(ip) == now > entry[ip].resetAt \/ entry[ip] = NoEntry

Expired(ip) == now >= entry[ip].resetAt

\* Plausible bug: one more than the limit is let in.
FullOneLate(ip) == ~Expired(ip) /\ entry[ip].count > Limit

Full(ip) == ~Expired(ip) /\ entry[ip].count >= Limit

Fresh   == [count |-> 1, resetAt |-> now + Window]
More(n) == [n EXCEPT !.count = @ + 1]

Counted(ip) == entry' = [entry EXCEPT ![ip] = IF Expired(ip) THEN Fresh ELSE More(@)]

-----------------------------------------------------------------------------
\* The listeners

Turned(s, why) == /\ sock' = [sock EXCEPT ![s] = "closing"]
                  /\ code' = [code EXCEPT ![s] = why]
                  /\ UNCHANGED <<timer, spoke, known>>

\* Plausible bug: only a connection with an Origin, that is a page, gets a timer.
WelcomeUntimed(s) == /\ sock' = [sock EXCEPT ![s] = "open"]
                     /\ UNCHANGED <<timer, spoke, code, known>>

Welcome(s) == /\ sock' = [sock EXCEPT ![s] = "open"]
              /\ timer' = [timer EXCEPT ![s] = now + Patience]
              /\ UNCHANGED <<spoke, code, known>>

\* bound: a connection made later would have its timer beyond the horizon
Early == now + Patience <= Horizon

\* The limit turns a connection away before anything of it is looked at.
ConnectLimited(s, ip) ==
  /\ sock[s] = "absent" /\ Early /\ Full(ip)
  /\ Turned(s, "rate_limited")
  /\ from' = [from EXCEPT ![s] = ip] /\ refused' = [refused EXCEPT ![s] = now]
  /\ UNCHANGED <<now, entry, passed, until>>

\* A page with an Origin that is not allowed is turned away, but was counted; a
\* CLI sends no Origin.
Connect(s, ip, allowed) ==
  /\ sock[s] = "absent" /\ Early /\ ~Full(ip)
  /\ Counted(ip)
  /\ IF allowed THEN Welcome(s) ELSE Turned(s, "invalid_origin")
  /\ from' = [from EXCEPT ![s] = ip] /\ passed' = [passed EXCEPT ![s] = now]
  /\ until' = [until EXCEPT ![s] = entry'[ip].resetAt]
  /\ UNCHANGED <<now, refused>>

Listening(s) == sock[s] \in {"open", "closing"} /\ code[s] \in {"open", "auth_timeout"}

Knows(s, ident) == known' = [known EXCEPT ![s] = @ \/ ident]

\* Plausible bug: a connection whose first message does not identify it keeps its timer
\* for good.
MessageOnce(s, ident) ==
  /\ Listening(s) /\ Knows(s, ident)
  /\ spoke' = [spoke EXCEPT ![s] = TRUE]
  /\ timer' = IF spoke[s] \/ ~ident THEN timer ELSE [timer EXCEPT ![s] = None]
  /\ UNCHANGED <<now, entry, sock, code, history>>

\* The first message stops the timer, whatever it says; it may still be read after
\* the server has begun to close.
Message(s, ident) ==
  /\ Listening(s) /\ Knows(s, ident)
  /\ spoke' = [spoke EXCEPT ![s] = TRUE]
  /\ timer' = IF spoke[s] THEN timer ELSE [timer EXCEPT ![s] = None]
  /\ UNCHANGED <<now, entry, sock, code, history>>

\* The timer of a connection that said nothing: socket.close().
AuthTimeout(s) ==
  /\ timer[s] # None /\ now >= timer[s]
  /\ timer' = [timer EXCEPT ![s] = None]
  /\ sock' = [sock EXCEPT ![s] = IF @ = "open" THEN "closing" ELSE @]
  /\ code' = [code EXCEPT ![s] = "auth_timeout"]
  /\ UNCHANGED <<now, entry, spoke, known, history>>

\* The close event: the client's, or the end of the server's own closing.  What the
\* listeners knew of the connection goes with them.
Closed(s) ==
  /\ sock[s] \in {"open", "closing"}
  /\ sock' = [sock EXCEPT ![s] = "closed"]
  /\ timer' = [timer EXCEPT ![s] = None]
  /\ spoke' = [spoke EXCEPT ![s] = FALSE] /\ code' = [code EXCEPT ![s] = "open"]
  /\ known' = [known EXCEPT ![s] = FALSE]
  /\ UNCHANGED <<now, entry, history>>

\* An error event stops the timer too; the library closes the socket after it.
Failed(s) ==
  /\ sock[s] = "open"
  /\ sock' = [sock EXCEPT ![s] = "closing"]
  /\ timer' = [timer EXCEPT ![s] = None]
  /\ UNCHANGED <<now, entry, spoke, code, known, history>>

Tick == /\ now < Horizon /\ now' = now + 1
        /\ UNCHANGED <<entry, link, history>>
-----------------------------------------------------------------------------
\* The specification

Init ==
  /\ now = 0 /\ entry = [ip \in Addresses |-> NoEntry]
  /\ sock = [s \in Sockets |-> "absent"] /\ timer = [s \in Sockets |-> None]
  /\ spoke = [s \in Sockets |-> FALSE] /\ known = [s \in Sockets |-> FALSE]
  /\ code = [s \in Sockets |-> "open"]
  /\ from = [s \in Sockets |-> None] /\ passed = [s \in Sockets |-> None]
  /\ until = [s \in Sockets |-> None] /\ refused = [s \in Sockets |-> None]

Arrives(s) == \E ip \in Addresses : \/ ConnectLimited(s, ip)
                                    \/ \E allowed \in BOOLEAN : Connect(s, ip, allowed)

Next == \/ Tick
        \/ \E s \in Sockets : Arrives(s) \/ AuthTimeout(s) \/ Closed(s) \/ Failed(s)
        \/ \E s \in Sockets, ident \in BOOLEAN : Message(s, ident)

Spec == Init /\ [][Next]_vars

\* Time passes, a timer that is due fires, and a socket that is closing closes.
\* Nothing is assumed of the clients.
Fairness == /\ WF_vars(Tick)
            /\ \A s \in Sockets : /\ WF_vars(AuthTimeout(s))
                                  /\ WF_vars(sock[s] = "closing" /\ Closed(s))

FairSpec == Spec /\ Fairness

-----------------------------------------------------------------------------
\* Properties

\* The types of the variables; no window counts more than its limit.
Maybe(S) == S \cup {None}
TypeOK ==
  /\ now \in Nat
  /\ entry \in [Addresses -> [count : 0..Limit, resetAt : Nat]]
  /\ sock \in [Sockets -> {"absent", "open", "closing", "closed"}]
  /\ timer \in [Sockets -> Maybe(Nat)] /\ spoke \in [Sockets -> BOOLEAN]
  /\ code \in [Sockets -> Codes] /\ known \in [Sockets -> BOOLEAN]
  /\ from \in [Sockets -> Maybe(Addresses)] /\ passed \in [Sockets -> Maybe(Nat)]
  /\ until \in [Sockets -> Maybe(Nat)] /\ refused \in [Sockets -> Maybe(Nat)]

\* The connections of an address that passed the limit in the ticks from a to b.
PassedIn(ip, a, b) == {s \in Sockets : /\ from[s] = ip /\ passed[s] # None
                                       /\ a <= passed[s] /\ passed[s] <= b}

(***************************************************************************)
(* From the moment a window opens for an address, and for as long as it    *)
(* lasts, no more of its connections pass than the limit allows, whatever  *)
(* other addresses do (checkWsRateLimit).                                  *)
(***************************************************************************)
LimitKept ==
  \A s \in Sockets : until[s] # None =>
    Cardinality(PassedIn(from[s], until[s] - Window, until[s] - 1)) <= Limit

(***************************************************************************)
(* What the limit is worth when the clock is not aligned to the windows:   *)
(* no interval as long as a window sees more than twice the limit pass.    *)
(* (Not once the limit, as the head of handler.ts has it: a fixed window   *)
(* cannot keep that.)                                                      *)
(***************************************************************************)
NeverTwiceOver ==
  \A ip \in Addresses, t \in Nat : Cardinality(PassedIn(ip, t, t + Window - 1)) <= 2 * Limit

(***************************************************************************)
(* Nobody is turned away for what others did, or for what it did long ago: *)
(* a connection refused by the limit comes from an address of which as     *)
(* many as the limit allows passed within the last window's time.          *)
(***************************************************************************)
RefusedForCause ==
  \A s \in Sockets : refused[s] # None =>
    \E a \in 0..refused[s] : /\ refused[s] < a + Window
                             /\ Cardinality(PassedIn(from[s], a, refused[s])) >= Limit

(***************************************************************************)
(* The timer races with the messages, and loses against every cli_hello or *)
(* phone_claim that was read before it fired, the first message or a later *)
(* one: who has identified itself in time is never closed for want of it   *)
(* (handler.ts:199-213).                                                   *)
(***************************************************************************)
KnownSpared ==
  [][\A s \in Sockets : known[s] /\ code'[s] = "auth_timeout" => code[s] = "auth_timeout"]_vars

\* A connection that never sends anything does not stay open: of what the head of
\* handler.ts says (below), the part that the code keeps.
SilenceEnds ==
  \A s \in Sockets : sock[s] = "open" /\ ~spoke[s] ~> spoke[s] \/ sock[s] # "open"

-----------------------------------------------------------------------------
\* What the documents say and the code does not do

\* handler.ts:15 "Each connection starts unauthenticated - must send cli_hello or
\* phone_claim within 10 seconds or gets disconnected" (and 198, "must authenticate
\* within 10 seconds").
UnknownEnds ==
  \A s \in Sockets : sock[s] = "open" /\ ~known[s] ~> known[s] \/ sock[s] # "open"
=============================================================================
