---------------------------- MODULE PairingStore ----------------------------
(***************************************************************************)
(* The pairing_state row of one pairing and the SQL statements that the    *)
(* backend runs on it (class PairingStore, backend/src/db/pairing-store.ts).*)
(* A statement is one operator: Postgres runs each one atomically, while   *)
(* the methods that issue two of them are interleaved with everything else *)
(* between the two, so the methods live in the handlers' steps.            *)
(*                                                                         *)
(* The pairing token and the CLI secret are always the right ones here:    *)
(* the clients are the program's own.                                      *)
(***************************************************************************)
EXTENDS Naturals

CONSTANTS Codes,        \* the values a verification code may take
          NoCode,       \* the column's NULL
          MaxAttempts   \* 5 in validateCode and getRemainingAttempts

ASSUME StoreParameters == /\ NoCode \notin Codes
                          /\ MaxAttempts \in Nat \ {0}

Rows == [state : {"absent", "pending", "claimed"},
         code  : Codes \cup {NoCode},
         attempts : Nat]

CreatedRow == [state |-> "pending", code |-> NoCode, attempts |-> 0]
NoRow      == [state |-> "absent",  code |-> NoCode, attempts |-> 0]

\* "... AND expires_at > now()": what the SELECTs and setCode can see.
Live(row, expired) == row.state # "absent" /\ ~expired

(***************************************************************************)
(* The UPDATE of claim: "WHERE pairing_id = $1 AND state = 'pending'".  It *)
(* says nothing of expires_at, so it still succeeds on a row that expired  *)
(* since the SELECT before it.  Its two operators are whether rowCount > 0 *)
(* and the row it leaves.                                                  *)
(***************************************************************************)
\* Plausible bug: the "AND state = 'pending'" is dropped.
ClaimsAnyRow(row) == row.state # "absent"

ClaimSucceeds(row) == row.state = "pending"

\* Plausible bug: a state that getState does not know.
MisnamedRow(row)   == [row EXCEPT !.state = "paired"]
ClaimedRow(row)    == [row EXCEPT !.state = "claimed"]

(***************************************************************************)
(* setCode: "SET verification_code = $1, attempts = 0 WHERE state =        *)
(* 'claimed' AND expires_at > now()".                                      *)
(***************************************************************************)
SetCodeSucceeds(row, expired) == row.state = "claimed" /\ ~expired
WithCode(row, c) == [row EXCEPT !.code = c, !.attempts = 0]

(***************************************************************************)
(* The two statements of validateCode.  The SELECT decides everything but  *)
(* the UPDATE: whether the submission is refused as expired (no live row,  *)
(* or no code yet) or as locked, and, since it fetches the code, whether   *)
(* the comparison made after the UPDATE will succeed.                      *)
(***************************************************************************)
\* Plausible bug: the attempts are counted and never looked at.
NeverLocks(row, expired, c) ==
  IF ~Live(row, expired) \/ row.code = NoCode THEN "expired"
  ELSE IF row.code = c THEN "valid" ELSE "invalid"

Verdict(row, expired, c) ==
  IF ~Live(row, expired) \/ row.code = NoCode THEN "expired"
  ELSE IF row.attempts >= MaxAttempts THEN "locked"
  ELSE IF row.code = c THEN "valid" ELSE "invalid"

WithAttempt(row) ==
  IF row.state = "absent" THEN row ELSE [row EXCEPT !.attempts = @ + 1]
=============================================================================
