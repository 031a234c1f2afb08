# phone-terminal in TLA+

phone-terminal lets a phone drive a shell on a laptop. The CLI asks the backend
for a *pairing*, shows it as a QR code, and waits; the phone opens the link,
claims the pairing, generates a keypair and shows a six-digit code; the user
types the code at the laptop; the backend turns the pairing into a *control
session*, in which the phone sends signed input, the backend checks and relays
it, and the CLI checks it again and writes it to a pty.

This directory specifies those two halves, and what stands around them (how the backend lets
connections in, how its tasks end sessions, the phone's terminal page), model-checks them
with TLC on small instances, and proves with TLAPS, for every value of the constants, every
invariant that the runs check and both refinements. Paths below are relative to the
repository.

## 1. Inventory

### Components

| Component | Source | State | Operations | Correct when |
|---|---|---|---|---|
| Socket registry | `backend/src/ws/handler.ts` 81-168 | four maps: CLI and phone socket by pairing and by session | set, get, `promoteToSession`, `removeBySocket`, `removeSession` | a socket is in one map at most, so that its close event finds its session |
| Pairing store | `backend/src/db/pairing-store.ts` | the `pairing_state` row: state, code, attempts, expiry | `create`, `getState`, `validateCliSecret`, `claim`, `setCode`, `validateCode`, `destroy` | one claim succeeds; the attempts bound the guesses |
| Pairing handlers | `backend/src/server.ts`, `ws/cli-hello.ts`, `phone-claim.ts`, `code-verify.ts`, `pairing-complete.ts` | `phonePublicKeys`, `codePushedForPairing`, the local variables of suspended handlers | `cli_hello`, `phone_claim`, `public_key`, `code_submit`, `completePairing` | no code without a key; both ends are paired into the same session with the same key; every request is answered |
| Session ending | `ws/disconnect.ts` | `sessions.ended_at/end_reason`, `audit_log` | `endSession`, disconnect message, socket close | exactly one handler ends a session; afterwards nothing is registered or open |
| Relay | `ws/relay.ts` | key cache, failure counter | phone → CLI (verified), CLI → phone | nothing is relayed for an ended session |
| Revocation | `http/revoke.ts` | `devices.revoked_at` | revoke, list | the sessions of a revoked device end |
| Idle timeout | `ws/idle-timeout.ts` | last activity per session | start, reset, stop, sweep | an idle session ends, and no other (no timer is ever started: section 7) |
| Admission | `ws/handler.ts` 25-70, 173-228 | connections per address, authentication timer | connect, message, timer, error, close | the limit holds and hits nobody else; sockets that do not identify themselves are closed (not so: see `AdmissionUnknown`), others are not |
| Router | `ws/router.ts` | none | parse, dispatch, `wsSend`, `wsError` | every refusal is told |
| CLI `connect` | `cli/src/index.ts` 39-158, `connect.ts` | phase, listeners | hello, prompt, start of the control phase | never waits for what cannot come |
| CLI session | `cli/src/session.ts`, `pty-io.ts`, `verify.ts` | `lastSeq`, consecutive failures, pty | verify, write, teardown | each input once, in order; alarm on tampering |
| Phone app | `phone-app/src/*.tsx`, `crypto.ts` | page, buffered code, queue of messages, seq, keypair in IndexedDB, last size told | claim, key generation, send, resize, disconnect | messages leave in order; does not stay "Connected"; the key is erased; the laptop knows the size |
| Audit | `cli/src/audit.ts`, writers in `disconnect.ts`, `pairing-complete.ts` | chain of hashes | append, verify | the chain verifies |
| Others | dangerous-command check, teardown handlers, code-submit prompt, status box, schema, pool, configuration | — | — | — |

### How they interact

CLI and phone talk to the backend over one WebSocket each. The backend keeps
durable rows in Postgres and everything else (registry, keys, caches,
counters) in the memory of one process. Each message and each close event
starts a handler of its own (`void messageRouter(...)`), which gives way at
every `await` of a query; handlers meet in the registry, in the maps of
`server.ts` and in the rows. Nothing awaits a handler, and nothing catches its
rejection: an unhandled one ends the process.

### What is hard here

* two awaits that are not atomic together: `claim`, `validateCode`,
  `completePairing` (transaction, promotion, deletion), the two audit queries;
* what is read before an await and used after it: sockets, states, keys;
* three clients and several handlers that may end the same session at once;
* answers of the connection pool out of order, which reorder relayed input;
* listeners attached after an await (CLI) or by an effect after the first rendering (phone),
  which lose what came before;
* processes that die, connections that break, messages that are not flushed;
* counters at their limits and a deadline that passes between two queries;
* lists made before an await and worked off after it (the idle sweep, the
  revocation), and two requests of one kind at once;
* on the phone, a queue of messages that wait for IndexedDB and for signatures
  while the user, the socket and the layout go on, and any number of Disconnects overlap.

Each is listed, with its line and with the properties that would catch it, under
`hazards` in `PROJECT.json`.

## 2. Modules

| Module | What it is |
|---|---|
| `SocketRegistry` | class SocketRegistry as operators on a record of the four maps |
| `PairingStore` | the `pairing_state` row and one operator per SQL statement |
| `PairingBackend` | EXTENDS both: variables, messages, and one action per await of the backend's pairing handlers |
| `Pairing` | EXTENDS it: the clients, the faults, `Spec`, `FairSpec`, the properties |
| `PairingContract` | the abstract specification: one owner, one session with the owner's key, none once void, ended is final |
| `ControlSession` | one control session: phone, relay, the five handlers that may end it, revocation, CLI, faults, properties |
| `SessionContract` | the abstract specification of a session: it ends once, with one record that tells the truth; a side that was dropped is relayed nothing; deliveries come in order, while the CLI runs |
| `SessionEndings` | many sessions in Postgres and the tasks that end them: handlers, idle sweep, revocation requests; failing queries and restarts |
| `Admission` | connection limit, Origin check, authentication timer |
| `ConnectedPage` | the phone's terminal page: queue of messages, resize timer, the two ways out, the keypair |
| `MCPairing`, `MCControlSession` | instances for TLC; the other three have their instance in the `.cfg` |
| `PairingProofs` | theorems about the first four: types, the single claim |
| `PairingTurnProofs` | EXTENDS it: whose turn it is, one request at a time |
| `PairingCodeProofs` | EXTENDS it: key before code, one session, bounded guesses, `PairingContract` |
| `PairingEndProofs` | EXTENDS it: the registry and the ends of a session |
| `SessionProofs` | theorems about `ControlSession`, the last of them that it implements `SessionContract` |
| `SessionEndingsProofs`, `AdmissionProofs`, `ConnectedPageProofs` | theorems about those three |

Operators named after a plausible bug (`ClaimsAnyRow`, `CopyToSession`,
`EndUpdateAlways`, ...) are not part of the specifications: each stands before
the definition it would replace, and replacing it must break a property
(`mutants` in `PROJECT.json`).

### Pairing: state and actions

The row, its expiry and the sessions are Postgres; `reg`, `keys`, `pushed` are the
backend's memory. `pc[k]` and `loc[k]` are the frame of the message handler of
socket `k`: the await at which it stands, and the one local value it uses
afterwards (the state read, the code drawn, the session id). `closing[k]` is the
frame of its close handler. `sock`, `linked`, `up`, `down` are the two ends
of a connection and the messages on it. Secrets are always right, for the
clients are the program's own; a key is named by its phone.

An action is a query together with the local computation on its result, or a
continuation that works on shared memory up to the next await. The first query
of a handler is taken with the arrival of its message: between the two nothing
shared is touched. One frame per socket is enough because a client sends
its next request after the answer to the last; that is itself the invariant
`OneRequestAtATime`, and a handler that answered before it was done would break it.

The phone's page is "starting" from the message `paired` until the terminal page's effect has
attached its listeners (`PhoneListens`): a disconnect or a close that comes before is lost.

`completePairing`'s transaction is one action, for it commits or rolls back as a
whole; a failure rethrows, nothing catches it, and the process dies: that is
`Crash`, enabled at every await. A backend that died is not started again within
a pairing: its clients see their sockets close and both give up.

### ControlSession: state and actions

The specification starts where `completePairing` has promoted both sockets.
`lookups` holds one frame per phone message that asks Postgres for the key,
`ender[e]` the frame of each handler `e` that runs `endSession` (a disconnect
message or a close event of either side, the revocation), and `sigfail` the
UPDATE that the relay issues itself. `bound` is the set of sides still registered.
`stage` is the CLI: "importing" stands for everything between the promotion and
`startControlPhase`, during which messages meet the pairing phase's listener.
`page` is the phone: "opening" stands for everything between `paired` and the effect that
attaches the terminal page's listeners (`PhoneListens`). Until then `PhoneMisses` reads what
arrives: the listeners of the two pages before know no disconnect, and ignore the close event
once the claim has been handed over. Afterwards the page leaves on a disconnect, on a close
(`PhoneHears`), or when it is hidden and shown again with its socket closed (`PhoneResumes`,
which depends on the user and gets no fairness).

What is abstracted: a message is its sequence number, whether its time stamp is
fresh and whether its signature fits the session's key. Input and resize are one
kind, for the code treats them alike up to the pty. The first seq is 1, so
`lastSeq` starts at 0 where the code has −1, to the same effect. Clock skew is not
modelled; `TimePasses` makes everything under way stale at once. With the key in
the cache, verification awaits only the import of a module that is loaded
already, which gives no other event a chance to run, so it is one step. The two audit
queries are one step, because only one handler can be there (`EndedOnce`). Errors
sent to the phone change its status line only and are left out, as is the pty's output.
One revocation request is handled at a time (several are the business of
`SessionEndings`). In the WebSocket handlers a failing query is
the death of the process, as above; in the revocation route it is a 500.

### SessionContract

Five variables that a user of the system could see: how the session ended, its
audit rows, whether the CLI's socket is still registered, the inputs on their way
to the CLI and those written to its pty, and whether the CLI runs. `ControlSession`
implements it under the mapping in its `Contract == INSTANCE ...`: an action of
the phone and most awaits of a handler are stutters, `EndUpdate` is `End`, the audit
queries `Record`, the end of `endSession` `Drop`; the relay's own ending is a `Drop`
first and an `End`, without a `Record`, when its UPDATE is answered.

### SessionEndings: state and actions

`row`, `revoked`, `audit` are Postgres, `tracked` and `silent` the map of `idle-timeout.ts`
(an entry's age instead of its date; for a session without an entry, how long it has been
silent all the same). A task `a` is a run of an async function: `pc[a]` its await, `on[a]`
the session that `endSession` works on, `todo` the rest of a sweep's list, `tail` the
`row_hash` it has read. An audit row is its event and the position of the row it names;
verifying a chain is then comparing positions. `Pair` is `completePairing`'s transaction and
starts no timer; `StartIdleTimer` is the call that `idle-timeout.ts` documents and nothing
makes. `Timed` are the sessions for which it may be made: with `Timed = {}` the specification is
`server.ts`, with others the module as documented; the behaviours of the first are among
those of the second, those in which nobody makes the call. What is said about timeouts
(`TimeoutHasCause`) is thus said of a module that is in no use; the other properties do not
depend on it. The sockets are left to `ControlSession`; nothing here
depends on them. A handler whose query fails kills the process (`Crash`), a sweep catches it
per session, the route answers 500.

### Admission: state and actions

One action per listener of the `/ws` route, for they run to their end; time is in ticks, a
timer fires at its time or later. `entry` is `wsConnectionsPerIp`; what an address did is
kept in histories (`passed`, `until`, `refused`). A connection is tried once, since a second
try of the same client is another socket. The timer heeds the first message, whatever it is
(`spoke`); the history `known` tells whether any message has been a `cli_hello` or a
`phone_claim`, which is what the comments in the source speak of.

### ConnectedPage: state and actions

The page starts with its first rendering, `listening` turns true when its effects have run:
they attach the listeners without a look at the socket (`Mounts`), so that a socket that
closed before is noticed only when the page is hidden and shown again (`CloseUnheard`,
`PageResume`). `queue`, `task`, `step` are the promise chain of `sendEnvelope`: a call waits
for the one before it, reads the keypair, takes the next seq, signs, sends, and is done even
when it fails. Nothing in `handleDisconnect` or on its button keeps the user from tapping
again, or from typing meanwhile: `clearing` holds the runs of it that have come to
`clearKeypair`, each under the number of its call. `erasing` is the `clearKeypair` of
`disconnectOnce`, for which nobody waits, `gone` is `disconnectedRef`. A layout is a size
and whether the keyboard covers the page; `timer` is the 80 ms debounce, put off by being
set again. A size is usable if it has two columns and rows. Another tab shares the keypair.
Output that arrives, the status line and the input field are left out.

## 3. Runs

| Run | Checks | Bounds | Result |
|---|---|---|---|
| `PairingSafety` | 8 invariants, `PairingContract` is implemented | 2 phones, 2 sessions, 2 codes, 2 attempts, 1 crash, symmetric | holds, 824,173 states |
| `PairingLive` | 3 liveness properties | 1 phone, 1 session, 2 codes, 2 attempts, 1 crash | holds, 89,241 states |
| `SessionSafety` | 4 invariants, `SessionContract` is implemented | 2 inputs, 2 failures, every fault but broken connections | holds, 1,865,206 states |
| `SessionLive` | 1 invariant, the refinement, 3 liveness properties | 1 input, 1 failure; broken connections and another tab | holds, 130,685 states |
| `SessionEndings` | 5 invariants | 2 sessions (one of them ended by clients, both timed), 1 handler, 1 sweep, 2 requests, limit of 1 tick, 1 crash, failing queries | holds, 966,423 states |
| `Admission` | 3 invariants, 1 action property, 1 liveness property | 2 addresses, 3 sockets, limit 2, window of 2 ticks, patience of 1, 3 ticks | holds, 536,164 states |
| `ConnectedPage` | 4 invariants, 3 liveness properties | 3 sizes (2 usable), 1 input, 2 layouts, 2 Disconnects, four of these five, faults of one kind at a time | holds, 703,933 states |
| `PairingLateCli`, `PairingOrphan` | one documented claim each | 1 phone, no crash | violated |
| `SessionDangling`, `SessionFalseAlarm` | one documented claim each | 1 and 4 inputs, 3 failures, no fault | violated |
| `AdmissionUnknown` | one documented claim | 1 address, 2 sockets, limit 1, patience of 2, 5 ticks | violated |

Deadlock is checked in `SessionEndings`, whose time never stops. In the others it is not: a
pairing that was used or given up, a session that has ended, a page that was left and a
server whose clients are all gone really stop.

### What the properties say

Pairing. `SingleClaim`: although `claim()` is two queries, one phone at most is
acknowledged, registered, has its key kept or gets a session. `KeyBeforeCode`: nobody has a
code before the key is known, so completion never throws. `SessionAgreement`: CLI, phone,
and devices table agree on session and key. `GuessesBounded`: the submission after
`MaxAttempts` is the last, and pairs nothing. `RegisteredOnce`, `EndedMeansClosed`,
`OneRequestAtATime` as in their comments. `SubmissionAnswered`, `ClaimAnswered`: every code
that was submitted and every claim is answered, or the connection ends; what comes after the
claim's answer is another matter (section 7). `CloseEndsSession`: a registered CLI
socket that goes away ends its session. `KeepsContract`: refinement.

Control session. `WrittenInOrder`: no input reaches the pty twice or late, however the relay
reorders. `EndedOnce`: of all handlers one ends the session; one audit row, with the row's
reason. `EndedMeansDropped`: after that nothing is registered or open.
`KeepsSessionContract`: refinement; the contract lets a session end without a record, as the
relay's own ending does (section 7). `CliExitEndsSession`, `PhoneLearnsOfEnd`,
`RevokeEndsSession`: every exit of the CLI and every revocation whose queries succeed ends
the session, and a page that listens on a connection that stands does not stay "Connected".

Endings. `AuditChained`: however many tasks end a session at once, its log is one chain
with one ending, that of the row. `RevokeAnswerHolds`: a 200 is true, even if another task
did the work. `RevokedNotForgotten`: two requests never leave the session of a revoked
device to each other; only a failed or unanswered request can.
Of the sweep, for timers as they are documented: `TimeoutHasCause`: a session that is active
again while the sweep works off its list may still be ended, but none that was never idle.

Admission. `LimitKept`, `RefusedForCause`: what a fixed window can promise, in both
directions. `KnownSpared`, `SilenceEnds`: the authentication timer against message,
error and close; who identified itself in time is spared, and who says nothing at all does not
stay. That is less than the source's comments promise (`AdmissionUnknown`).

Page. `SentInOrder`: order of the calls and of the seqs. `FailureCostsOne`: a call that
IndexedDB or crypto.subtle fails does not take the calls behind it with it.
`NothingLeftUnsaid`: however many Disconnects overlap, the key is erased only after
everything up to the first was sent, but for what failed by itself. `PageLeaves`,
`KeyErased`: the two ways out exclude each other and still never leave the work to the
other. `SizeTold`: the last size is told, whatever came between.

### Where the code does not do what the repository says

The five violation runs; the traces are told in `findings` in `PROJECT.json`, each with the
line that promises and the line that breaks. Section 7 has others that are not runs.

1. A CLI that says hello after the claim is never told (`PairingLateCli`).
2. A CLI that leaves during `completePairing` is outlived by its session (`PairingOrphan`).
3. A session that ends while the CLI imports modules leaves the CLI connected, and one that
   ends before the phone's terminal page listens leaves the page connected
   (`SessionDangling`, whose trace, a revocation, leaves both so).
4. Four honest first inputs can raise the tampering alarm (`SessionFalseAlarm`).
5. A connection whose first message does not identify it stays open (`AdmissionUnknown`).

### The bounds, and why they are enough

`MaxCrashes` bounds how often the backend dies; after one death no handler state is left, so
a second adds only repetition. `MaxAttempts` is 5 and `MaxFailures` 3 in the code; the small
values reach the boundary, the one before it and the one after it. Two phones suffice for a
race on one row; a third would be one more loser. Two session ids let a second session
appear if the code allowed it. `MaxInputs` 2 with `MaxFailures` 2 (`SessionSafety`) allows a
reordering, two failures in a row in the relay and two in the CLI. A connection that breaks
only cuts messages off and closes: it has its run with one input (`SessionLive`), where
`MaxFailures` 1 lets a single bad message end the session. The violation runs use the code's
own 3. The queues are not bounded: they are finite because clients send finitely
much.

`SessionEndings`: with two sessions a sweep has a list of two, so that one waits while the
other is ended or fails; one can be ended and revoked as well. Two requests race with each
other, with the sweep and with a handler. `IdleLimit` 1 makes every silence of a tick count;
sessions are not told apart beyond the limit. `Admission`: three sockets against a limit of
two fill a window, overflow it, and start the next; three ticks hold one window and half the
next, and one socket is made while the timer of another runs. `ConnectedPage`: a layout, an
input and two Disconnects are up to four calls, so that one fails, or the first Disconnect
is pressed, with others behind it; the second Disconnect overlaps with the first or is the
retry of one that failed; two layouts go to another size and back. One kind of fault in a
behaviour keeps the causes apart that the properties name. The inductive proofs below do not
depend on any of these.

### Fairness

Weak fairness of: the continuation of every handler whose query was answered, and the
queries themselves (one Node process runs all ready callbacks; the pool's timeouts bound a
query); the event loops of CLI and phone. Nothing is assumed of users, clocks and faults, so
the CLI's 120-second timer, which is one of the ways a process may exit, is never relied on.
`SessionLive` excludes a dying backend and failing revocation queries, because nothing in
the code reconciles a session afterwards. It is assumed that the backend notices a
connection that breaks (a close event): there is no ping, so that a half-open TCP connection
is noticed only when the operating system gives it up.

`Admission` adds that time passes, a timer that is due fires, and a socket that is closing
closes; `ConnectedPage` that the browser runs what is due, runs the effects,
tells a page that listens that its socket has closed, and IndexedDB answers, one way or the
other. Nothing is assumed of users, of what clients send, or of the layout.

## 4. What is proved

All proofs are for arbitrary constants satisfying the assumptions `RegistryNames`,
`StoreParameters`, `CrashBound` (pairing), `SessionParameters` (session),
`EndingsParameters`, `AdmissionParameters` and `PageParameters`. These say that names are
distinct (`None` is no size and no message), that bounds are natural numbers and that limits
are positive; TLC evaluates them in every run.

| Theorem | Statement | Argument |
|---|---|---|
| `PairingProofs!TypeCorrect` | `Spec => []TypeOK` | `TypeOK` is inductive: it includes `FrameFits`, that each frame stands at an await of its own handlers with the right kind of local value; one lemma per action, on the types of the registry's operations and of messages sent |
| `PairingProofs!OneClaim` | `Spec => []SingleClaim` | `SingleClaim` is not inductive: the UPDATE's success says nothing of earlier claimants unless a pending row has none. `ClaimInv` adds that, and that every place a phone's name can travel through (frames between the UPDATE and the binding, messages, registry, key map, sessions, pages) holds a claimant's only |
| `PairingTurnProofs!OneRequestAlways` | `Spec => []OneRequestAtATime` | `TurnInv`: a client with a page or a prompt that lets it speak has no request under way, none at work and no second such prompt in its queue |
| `PairingCodeProofs!KeyAlwaysBeforeCode` | `Spec => []KeyBeforeCode` | `CodeInv`: while a phone has its code still to be set the row has none and no submission is at work; once it has one, the key stays in the map as long as the CLI may be heard |
| `PairingCodeProofs!AlwaysAgreed` | `Spec => []SessionAgreement` | `GrantInv`: one session at most is granted; with it the CLI has nothing to submit any more, or the row is gone, or nobody hears it; every message and page that names it names its key |
| `PairingCodeProofs!GuessesAlwaysBounded` | `Spec => []GuessesBounded` | `GuessInv`: the row's counter is the CLI's but for the attempt under way, and is reset by `setCode` only before the first |
| `PairingCodeProofs!PairingContractKept` | `Spec => KeepsContract` | initial states map to initial states; `ClaimUpdate` is `Take` or a stutter (`ClaimInv`), `Commit` is `Grant` (`CodeInv`, `GrantInv`: the link has an owner, is not void, and no session was granted before), the deletions of the row are `Void`, the UPDATE of `endSession` is `End`; every other step is a stutter |
| `PairingEndProofs!AlwaysRegisteredOnce` | `Spec => []RegisteredOnce` | `RegInv`: sockets are registered with the pairing until `promoteToSession`, with its one session from then on, and nobody binds a socket any more |
| `PairingEndProofs!EndedAlwaysClosed` | `Spec => []EndedMeansClosed` | `RegInv`: open sockets of a granted session are registered with it, so that the handler that ended it finds them; until it does it stands at its last step |
| `SessionProofs!SessionTypeCorrect` | `Spec => []TypeOK` | inductive with the clause that a running CLI's counter is below the limit; one lemma per action |
| `SessionProofs!InputsInOrder` | `Spec => []WrittenInOrder` | `OrderInv` adds that `lastSeq` bounds everything written |
| `SessionProofs!OneEnding` | `Spec => []EndedOnce` | `EndInv`: while the session is active nobody is past the UPDATE; the handler at the audit row is alone, has no row before it, and carries the session row's reason |
| `SessionProofs!EndedSessionDropped` | `Spec => []EndedMeansDropped` | `DropInv`: an ended session is dropped, or a handler past its UPDATE will drop it; open sockets are registered; the relay's own UPDATE comes after dropping; and no frame in use is taken for a second event, since a side says goodbye at most once, as the last thing on its socket (`LastWord`) |
| `SessionProofs!SessionKeepsContract` | `Spec => KeepsSessionContract` | initial states map to initial states; each action, with `OrderInv` and `EndInv` of the theorems above, is one of the contract's actions or a stutter |
| `SessionEndingsProofs!EndingsTypeCorrect` | `Spec => []TypeOK` | inductive; a task that is not idle has its session, and a request is done when it has answered |
| `SessionEndingsProofs!LogIsAChain` | `Spec => []AuditChained` | `WriterInv`: whoever stands between the UPDATE and the INSERT is alone with its session, has found it active, carries the row's reason, and the log it has read is the log as it is |
| `SessionEndingsProofs!AnswerIsTrue` | `Spec => []RevokeAnswerHolds` | `RevokeInv`: past its mark a request's device is revoked, and past `endSession`'s UPDATE its session has ended; neither is ever undone |
| `SessionEndingsProofs!NoRevokedForgotten` | `Spec => []RevokedNotForgotten` | whoever marked a device is answerable for it until it has ended or failed; a pairing cannot make the session of a revoked device active again |
| `SessionEndingsProofs!TimeoutsHaveCause` | `Spec => []TimeoutHasCause` | `QuietInv`: every session of a sweep's list was once silent for the limit |
| `AdmissionProofs!AdmissionTypeCorrect`, `LimitIsKept` | `Spec => []TypeOK`, `[]LimitKept` | `WindowInv`: an entry counts exactly the connections that hold its window's end, so windows of one address neither overlap nor exceed the limit |
| `AdmissionProofs!TwiceIsTheMost` | `Spec => []NeverTwiceOver` | an interval of a window's length meets two windows at most |
| `AdmissionProofs!RefusalsHaveCause` | `Spec => []RefusedForCause` | from the same invariant, at the moment of the refusal; histories do not shrink |
| `AdmissionProofs!TimerSparesKnown` | `Spec => KnownSpared` | a connection that has identified itself has spoken, and one that has spoken has no timer |
| `ConnectedPageProofs!PageTypeCorrect`, `AlwaysInOrder` | `Spec => []TypeOK`, `[]SentInOrder` | `QueueInv`: what was sent, the task and the queue carry consecutive calls, and no more seqs are drawn than calls have begun; a failed call leaves a gap, never a step back |
| `ConnectedPageProofs!FailureIsItsOwn` | `Spec => []FailureCostsOne` | `LeaveInv`: as long as page, socket and key stand, a call that is over was sent or is one of those that failed |
| `ConnectedPageProofs!NothingIsLeftUnsaid` | `Spec => []NothingLeftUnsaid` | `OverInv`, `LeaveInv`: a `handleDisconnect` comes to erasing only when its call is over, hence all before it, and the first one's call is the smallest; what was said or failed stays so |

The strengthened invariants were first checked by TLC on the instances above (those of the
pairing with 2 phones, 2 sessions, 2 codes, 2 attempts and 1 crash).

The invariants of a pairing stand on each other: `TypeOK`, then `ClaimInv` (who has
claimed), `TurnInv` (who may speak), `CodeInv` (what has been set), `GrantInv` (what was
granted), and on these `GuessInv`, `RegInv` and the refinement. Each is a theorem of its own
(`ClaimInvariant`, `TurnInvariant`, ...), inductive relative to those before it; none could
be proved without them. For instance, that `setCode` never runs during an attempt, on which
the bound on guesses rests, needs that a phone sends its key once (`TurnInv`) and that no
other phone has one to send (`ClaimInv`). That a phone's key is sent once needs in turn that
it is told once that it claimed the link, hence that it claims once. The main frame of these
proofs is a set of lemmas on who may change what (`CliHandlerFrame`, `PhoneHandlerNews`,
`CliClientFrame`, ...): which actor's steps touch which frames, queues and sockets, and
which messages they can add to whose queue.

Only model-checked: liveness (`SubmissionAnswered`, `ClaimAnswered`, `CloseEndsSession`,
`CliExitEndsSession`, `PhoneLearnsOfEnd`, `RevokeEndsSession`,
`SilenceEnds`, `PageLeaves`, `KeyErased`, `SizeTold`), for the prover has no rule for fairness
here, nor for ENABLED. Every invariant, action property and refinement of a passing
run is a theorem. Induction over data and RECURSIVE operators are out of the prover's reach,
too; none is used.

## 5. What is not modelled

* The dangerous-command check, `registerTeardownHandlers` and the exports of
  `code-submit.ts` are never run by the program.
* The CLI's `devices`, `revoke`, `disconnect`, `status` and `audit` commands are a request
  and a table, or look at a variable of their own process that nothing sets.
* The hash formula: writers and verifier differ on it (section 7), so that only the
  linkage of the chain can be checked.
* The CLI's output to the phone passes the relay without a change of state, in order.
* The QR scanner, the drawing of the terminal, the editing of the input line, the
  status box, the Disconnected page and the styles are presentation.
* Schema, pool, configuration and start-up are declarations and run once.
* Text (codes, tokens, JSON, signatures) is abstracted to what the handlers compare.

## 6. Plan

Done:

1. Pairing: store, registry, handlers, clients, contract; its eight invariants and the
   refinement proved.
2. Control session: relay, endings, revocation, clients; four invariants proved; its contract,
   and the proof that it is implemented.
3. Session endings with the idle sweep, concurrent revocations, the audit chain, restarts;
   five invariants proved.
4. Admission; four properties proved, and the bound over any interval.
5. The phone's terminal page; its four invariants proved.
6. The documented claims that fail, as violation runs.

Left:

7. The composition of pairing and session at `promoteToSession`: so far `Pairing`
   ends where `ControlSession` begins.

## 7. Remarks on the source

Found while modelling, and not runs of their own:

* The fifth failed code does not destroy the pairing, as `code-verify.ts:20` says: it is
  answered with `code_invalid`, and only the sixth submission, which may never come, is
  (`pairing-store.ts:142`).
* After the third bad signature in a row the relay ends the session by an UPDATE of its own
  (`relay.ts:195-206`) instead of `endSession`, which `disconnect.ts:45` calls the single
  point of truth: neither side is told why, and the audit log gets no row, although
  `docs/phone-terminal-guide.md:373` promises one for every disconnect. (`SessionContract`
  has to allow an ending without a record for it.)
* A revocation marks the device by one query (`revoke.ts:84`) and looks for its sessions by
  the next (90). If that one fails, the answer is 500, the session goes on, and every retry
  is refused as already revoked (74-81), although `revoke.ts:7` says that a connected session
  "is force-dropped". `RevokeEndsSession` and `RevokedNotForgotten` excuse it.
* The UPDATE of `claim()` (`pairing-store.ts:99`) does not look at `expires_at`: a row that
  expires after the SELECT is claimed all the same, although `phone-claim.ts:17` says "must
  exist and not be expired".
* A phone whose pairing expires between its claim and `setCode` is told nothing
  (`code-verify.ts:59-63`) and shows "Waiting for code..." for ever, although
  `docs/phone-terminal-guide.md:101` promises an explicit screen "rather than a hang":
  `ClaimAnswered` ends at the answer to the claim.
* A 200 of the revocation route may be answered while another task, which ended the session,
  has still to remove its sockets.
* The CLI's `revoke` looks for `success` in the answer (`index.ts:291`), which the route
  does not send: a revocation that succeeded is printed as failed. `completePairing` stores
  the constant `"cli-instance"`, whereas the CLI's commands send an identifier of their own,
  so the request modelled here as coming from the owner is one that sends that constant.
* `startIdleTimer` and `stopIdleTimer` are called nowhere: the sweep's map is empty in every
  state, and a session without input stays active for ever, although
  `docs/phone-terminal-guide.md:387` promises "Idle timeout (default 15 min no input)".
  `server.ts:203` resets a timer
  before the message is verified, though `idle-timeout.ts:96` says "verified". The sweep
  deletes an entry before it ends the session: if the UPDATE fails, the session is never
  tried again.
* The audit writers hash `prev|type|detail|time` with their own clock, the verifier
  `prev+type+detail+ts` with the database's (`audit.ts:43`, `disconnect.ts:79`); and no
  route serves `/api/audit`.
* A fixed window lets twice the limit pass around its boundary; `NeverTwiceOver` is
  proved, and less than that does not hold. The map of addresses is never emptied.
* `handleDisconnect` has no catch: if IndexedDB rejects, the page stays "Connected" with
  `disconnectedRef` set, and no event of the socket leaves it any more; a second tap may.
* What the user types after a first Disconnect, and the message of a second one, are lost if
  the first erases the keypair before their turn; no harm comes of it, for the session is
  over.
* A phone whose socket closes while it waits for the code is not told either:
  `ClaimPage.tsx:109` ignores the close event once the public key was sent, and the page
  goes on waiting.
* The phone tells its size once after pairing; a CLI that still imports its modules drops
  the message, and the pty keeps 80 by 24 (`index.ts:127`).
* Live Keys compares the lengths of the old and the new text only
  (`ConnectedPage.tsx:338-352`).
* `registerTeardownHandlers` is called nowhere: a CLI that is killed
  says nothing, and the close event is what ends its session. `onDangerousCommand` is
  never passed.
* A key lookup answered before a session's end may fill the key cache after
  `endSession` cleared it (`relay.ts:122`); the relay still refuses the phone, whose socket is
  not bound any more.
