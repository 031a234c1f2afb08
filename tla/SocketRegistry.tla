--------------------------- MODULE SocketRegistry ---------------------------
(***************************************************************************)
(* The in-memory table of authenticated WebSockets that every backend      *)
(* handler shares (class SocketRegistry, backend/src/ws/handler.ts): four  *)
(* maps, from a pairing or from a session to the socket of its CLI or of   *)
(* its phone.  A registry is a record, an operation is an operator from    *)
(* registries to registries, and JavaScript runs each one to completion,   *)
(* so a handler's step applies it atomically.                              *)
(*                                                                         *)
(* The project follows one pairing, so the two maps keyed by pairingId     *)
(* hold one entry each; an absent entry is None.  A client has one socket, *)
(* so a socket is named by its client.                                     *)
(***************************************************************************)
CONSTANTS Cli,       \* the CLI process that started the pairing
          Phones,    \* the phone pages (phones, tabs, reloads) that open its link
          Sessions,  \* the control-session identifiers the backend may draw
          None       \* "no entry": undefined or null in the source

ASSUME RegistryNames ==
  /\ Cli \notin Phones
  /\ None \notin Phones \cup {Cli} \cup Sessions

Sockets == Phones \cup {Cli}

Registries == [cliByPairing   : {Cli, None},
               phoneByPairing : Phones \cup {None},
               cliBySession   : [Sessions -> {Cli, None}],
               phoneBySession : [Sessions -> Phones \cup {None}]]

NewRegistry == [cliByPairing   |-> None,
                phoneByPairing |-> None,
                cliBySession   |-> [s \in Sessions |-> None],
                phoneBySession |-> [s \in Sessions |-> None]]

SetCliForPairing(r, k)   == [r EXCEPT !.cliByPairing = k]
SetPhoneForPairing(r, k) == [r EXCEPT !.phoneByPairing = k]

(***************************************************************************)
(* promoteToSession moves the entries that exist; a side whose socket has  *)
(* already gone is simply missing from the session.  The plausible bug     *)
(* CopyToSession forgets the two deletes.                                  *)
(***************************************************************************)
OrElse(k, other) == IF k # None THEN k ELSE other

CopyToSession(r, s) ==
  [r EXCEPT !.cliBySession[s]   = OrElse(r.cliByPairing, @),
            !.phoneBySession[s] = OrElse(r.phoneByPairing, @)]

PromoteToSession(r, s) ==
  [CopyToSession(r, s) EXCEPT !.cliByPairing = None, !.phoneByPairing = None]

(***************************************************************************)
(* removeBySocket looks through the four maps in a fixed order, removes    *)
(* the FIRST entry that holds the socket and reports whose it was.         *)
(* SessionOf is the sessionId it reports: None when the first match is a   *)
(* pairing-phase entry, or when there is none.                             *)
(***************************************************************************)
InPairing(r, k)   == k \in {r.cliByPairing, r.phoneByPairing}
CliSessions(r, k)   == {s \in Sessions : r.cliBySession[s] = k}
PhoneSessions(r, k) == {s \in Sessions : r.phoneBySession[s] = k}

SessionOf(r, k) ==
  IF InPairing(r, k) THEN None
  ELSE IF CliSessions(r, k) # {} THEN CHOOSE s \in CliSessions(r, k) : TRUE
  ELSE IF PhoneSessions(r, k) # {} THEN CHOOSE s \in PhoneSessions(r, k) : TRUE
  ELSE None

RemoveBySocket(r, k) ==
  IF r.cliByPairing = k THEN [r EXCEPT !.cliByPairing = None]
  ELSE IF r.phoneByPairing = k THEN [r EXCEPT !.phoneByPairing = None]
  ELSE IF CliSessions(r, k) # {}
       THEN [r EXCEPT !.cliBySession[SessionOf(r, k)] = None]
  ELSE IF PhoneSessions(r, k) # {}
       THEN [r EXCEPT !.phoneBySession[SessionOf(r, k)] = None]
  ELSE r

(***************************************************************************)
(* removeSession closes the two sockets still registered for the session   *)
(* (SocketsOf, which the caller closes) and deletes their entries.         *)
(***************************************************************************)
SocketsOf(r, s) == {r.cliBySession[s], r.phoneBySession[s]} \ {None}

RemoveSession(r, s) ==
  [r EXCEPT !.cliBySession[s] = None, !.phoneBySession[s] = None]
=============================================================================
