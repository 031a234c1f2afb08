--------------------------- MODULE PairingContract ---------------------------
(***************************************************************************)
(* What a pairing promises, without a word on how: the link can be taken   *)
(* by one phone only, at most one control session ever comes of it, bound  *)
(* to the key of that phone, none after the pairing was destroyed, and a   *)
(* session that has ended stays ended.                                     *)
(***************************************************************************)
CONSTANTS Phones, Sessions, None

VARIABLES owner,    \* the phone that took the link, or None
          void,     \* the pairing was destroyed
          granted   \* per session id, whether it is active and with whose key

contractVars == <<owner, void, granted>>

Unused == [status |-> "unused", key |-> None]

Init == /\ owner = None /\ void = FALSE
        /\ granted = [s \in Sessions |-> Unused]

Take(p) == /\ owner = None /\ ~void
           /\ owner' = p
           /\ UNCHANGED <<void, granted>>

Grant(s) == /\ owner # None /\ ~void
            /\ granted = [t \in Sessions |-> Unused]
            /\ granted' = [granted EXCEPT ![s] = [status |-> "active", key |-> owner]]
            /\ UNCHANGED <<owner, void>>

Void == /\ ~void /\ void' = TRUE
        /\ UNCHANGED <<owner, granted>>

End(s) == /\ granted[s].status = "active"
          /\ granted' = [granted EXCEPT ![s].status = "ended"]
          /\ UNCHANGED <<owner, void>>

Next == \/ \E p \in Phones : Take(p)
        \/ \E s \in Sessions : Grant(s) \/ End(s)
        \/ Void

Spec == Init /\ [][Next]_contractVars
=============================================================================
