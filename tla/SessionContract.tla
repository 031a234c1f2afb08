---------------------------- MODULE SessionContract ----------------------------
(***************************************************************************)
(* What a control session promises, whatever the handlers, sockets and     *)
(* clients behind it do (the guarantees at the head of ws/disconnect.ts,   *)
(* of ws/relay.ts and of cli/src/verify.ts, as one state machine):         *)
(*   - it ends at most once, and the audit log records that end at most    *)
(*     once, after it, and with its reason;                                *)
(*   - input is relayed only while the CLI is served, and a CLI that was   *)
(*     dropped is not served again;                                        *)
(*   - the shell gets only what was relayed, each input once, in the order *)
(*     it was typed, and nothing when the CLI has exited.                  *)
(***************************************************************************)
EXTENDS Naturals, Sequences

CONSTANTS Reasons,   \* why a session may end
          Typed      \* the sequence numbers the phone may give its input

VARIABLES ended,      \* the reason, or "active"
          record,     \* the disconnect rows of the audit log
          served,     \* the backend relays to the CLI
          pending,    \* what was relayed and is not taken out yet
          delivered,  \* what the shell got
          running     \* the CLI's process

vars == <<ended, record, served, pending, delivered, running>>

Init == /\ ended = "active" /\ record = <<>>
        /\ served = TRUE /\ pending = {}
        /\ delivered = <<>> /\ running = TRUE

End == /\ ended = "active" /\ ended' \in Reasons
       /\ UNCHANGED <<record, served, pending, delivered, running>>

Record == /\ ended # "active" /\ record = <<>>
          /\ record' = <<ended>>
          /\ UNCHANGED <<ended, served, pending, delivered, running>>

\* The CLI's socket goes away, or the session is removed.
Drop == /\ served /\ served' = FALSE
        /\ UNCHANGED <<ended, record, pending, delivered, running>>

Relay == /\ served
         /\ \E n \in Typed : pending' = pending \cup {n}
         /\ UNCHANGED <<ended, record, served, delivered, running>>

\* Relayed input may be refused by the CLI or lost with its connection.
Lose == /\ pending' \subseteq pending
        /\ UNCHANGED <<ended, record, served, delivered, running>>

Deliver == /\ running
           /\ \E n \in pending :
                /\ \A i \in 1..Len(delivered) : delivered[i] < n
                /\ delivered' = Append(delivered, n)
           /\ pending' \subseteq pending
           /\ UNCHANGED <<ended, record, served, running>>

\* What an exited process did not take out is gone with it.
Exit == /\ running /\ running' = FALSE /\ pending' = {}
        /\ UNCHANGED <<ended, record, served, delivered>>

Next == End \/ Record \/ Drop \/ Relay \/ Lose \/ Deliver \/ Exit

Spec == Init /\ [][Next]_vars
=============================================================================
