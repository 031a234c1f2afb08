---------------------------- MODULE ConnectedPage ----------------------------
(***************************************************************************)
(* The phone's terminal page (ConnectedPage.tsx), from its first rendering *)
(* until it gives way to the Disconnected page: the queue of messages that *)
(* wait to be signed, the two ways out of the page, the keypair in         *)
(* IndexedDB, and how the laptop learns the size of the terminal.          *)
(*                                                                         *)
(* The page is one JavaScript thread; a task of the queue gives way when   *)
(* it reads the keypair and when it signs, and handleDisconnect when it    *)
(* waits for its task and for IndexedDB; any number of them may be under   *)
(* way.  What the messages do on the other side is the business of         *)
(* ControlSession.                                                         *)
(***************************************************************************)
EXTENDS Naturals, SequencesExt

CONSTANTS Sizes,       \* of the terminal
          Usable,      \* those with two columns and rows at least
          MaxInputs, MaxChanges, MaxTaps,  \* bounds: inputs, layouts, Disconnects
          MaxEvents,   \* bound: these together
          Faults,      \* what may go wrong in the run, of KnownFaults
          None         \* no task, no size

KnownFaults == {"storage",    \* IndexedDB or crypto.subtle rejects
                "lost",       \* the connection breaks
                "other_tab"}  \* another tab's session ends and deletes the keypair

\* The calls of sendEnvelope, numbered.
Envelopes == [n : Nat, type : {"input", "resize", "disconnect"}, size : Usable \cup {None}]

ASSUME PageParameters ==
  /\ Usable \subseteq Sizes /\ Usable # {} /\ None \notin Sizes \cup Envelopes
  /\ MaxInputs \in Nat /\ MaxChanges \in Nat /\ MaxTaps \in Nat
  /\ MaxEvents \in Nat
  /\ Faults \subseteq KnownFaults

VARIABLES
  page,      \* App's state: "connected" or "disconnected"
  listening, \* the effects have run: the page hears its socket and its layout
  gone,      \* disconnectedRef
  clearing,  \* the runs of handleDisconnect that wait for clearKeypair, by their calls
  key,       \* the keypair is in IndexedDB
  erasing,   \* disconnectOnce's clearKeypair, which nothing waits for
  socket,    \* readyState: "open", "closing", "closed"
  queue,     \* sendQueueRef: the calls of sendEnvelope that have not begun
  task, step, \* the call at work, and what it waits for: "key" or "sign"
  seq,       \* seqRef
  sent,      \* the messages given to an open socket
  size, keyboard,  \* the layout, and whether the keyboard covers part of it
  timer,     \* resizeTimerRef is set
  last,      \* lastSizeRef
  calls, inputs, changes, taps,  \* counts, for the bounds
  tapped,    \* history: the call of the first Disconnect, or 0
  failed,    \* history: the calls for which IndexedDB or crypto.subtle rejected
  wrong      \* history: what has gone wrong

exit    == <<page, listening, gone, clearing, erasing, socket>>
sender  == <<queue, task, step, seq, sent, calls>>
layout  == <<size, keyboard, timer, last, changes>>
history == <<tapped, failed, wrong>>
vars    == <<exit, key, sender, layout, inputs, taps, history>>

-----------------------------------------------------------------------------
\* sendEnvelope

Envelope(type, sz) == [n |-> calls + 1, type |-> type, size |-> sz]

\* Whether the bound allows another input, layout or Disconnect.
More == inputs + changes + taps < MaxEvents

\* A call waits for the one before it.
Call(type, sz) == /\ queue' = Append(queue, Envelope(type, sz)) /\ calls' = calls + 1
                  /\ UNCHANGED <<task, step, seq, sent>>

Types ==
  /\ page = "connected" /\ inputs < MaxInputs /\ More
  /\ Call("input", None) /\ inputs' = inputs + 1
  /\ UNCHANGED <<exit, key, layout, taps, history>>

\* Plausible bug: the calls do not wait for each other, and IndexedDB answers them in
\* any order.
TaskStartsAny ==
  /\ task = None /\ \E i \in DOMAIN queue : task' = queue[i] /\ queue' = RemoveAt(queue, i)
  /\ step' = "key"
  /\ UNCHANGED <<exit, key, seq, sent, calls, layout, inputs, taps, history>>

TaskStarts ==
  /\ task = None /\ queue # <<>>
  /\ task' = Head(queue) /\ queue' = Tail(queue) /\ step' = "key"
  /\ UNCHANGED <<exit, key, seq, sent, calls, layout, inputs, taps, history>>

\* The end of a task, after which its handleDisconnect, if it was one's, goes on to
\* erase the keypair.
Ends == /\ task' = None /\ step' = "none"
        /\ clearing' = IF task.type = "disconnect" THEN clearing \cup {task.n} ELSE clearing
        /\ UNCHANGED <<page, listening, gone, erasing, socket>>

\* getKeypair's answer: the next sequence number, or "Missing signing key".
KeyAnswer ==
  /\ step = "key"
  /\ IF key THEN step' = "sign" /\ seq' = seq + 1 /\ UNCHANGED <<exit, task>>
     ELSE Ends /\ UNCHANGED seq
  /\ UNCHANGED <<key, queue, sent, calls, layout, inputs, taps, history>>

\* The message of the task at work.
Signed == [n |-> task.n, seq |-> seq, type |-> task.type, size |-> task.size]

\* The signature is there: send, which a socket that is not open ignores.
SignAnswer ==
  /\ step = "sign" /\ sent' = IF socket = "open" THEN Append(sent, Signed) ELSE sent
  /\ Ends
  /\ UNCHANGED <<key, queue, seq, calls, layout, inputs, taps, history>>

\* A fault.  (bound: of one kind in a behaviour.)
GoesWrong(fault) == fault \in Faults /\ wrong \subseteq {fault} /\ wrong' = {fault}

\* Plausible bug: the next call waits for this one to succeed, and so do all others.
TaskFailsForAll ==
  /\ step # "none" /\ task' = None /\ step' = "none" /\ GoesWrong("storage")
  /\ failed' = failed \cup {task.n} /\ queue' = <<>>
  /\ UNCHANGED <<exit, key, seq, sent, calls, layout, inputs, taps, tapped>>

\* Either is rejected: the queue goes on, but the handleDisconnect that waited for it
\* ends with the exception.
TaskFails ==
  /\ step # "none" /\ task' = None /\ step' = "none" /\ GoesWrong("storage")
  /\ failed' = failed \cup {task.n}
  /\ UNCHANGED <<exit, key, queue, seq, sent, calls, layout, inputs, taps, tapped>>

-----------------------------------------------------------------------------
\* Leaving the page

\* The effects run after the first rendering: the listeners are attached, without a look
\* at the socket's state, and the size of the terminal is to be told.
Mounts ==
  /\ page = "connected" /\ ~listening /\ listening' = TRUE /\ timer' = TRUE
  /\ UNCHANGED <<page, gone, clearing, erasing, socket, key, sender, size, keyboard, last, changes>>
  /\ UNCHANGED <<inputs, taps, history>>

\* handleDisconnected of App, which closes the socket, and the page's unmounting, which
\* removes the listeners and clears the timer.
LeavePage == page' = "disconnected" /\ listening' = FALSE /\ socket' = "closed" /\ timer' = FALSE

\* Plausible bug: the keypair is left where it is.
DisconnectOnceKeepsKey ==
  /\ ~gone /\ gone' = TRUE /\ LeavePage
  /\ UNCHANGED <<clearing, erasing, key, sender, size, keyboard, last, changes, inputs, taps, history>>

DisconnectOnce ==
  /\ ~gone /\ gone' = TRUE /\ erasing' = TRUE /\ LeavePage
  /\ UNCHANGED <<clearing, key, sender, size, keyboard, last, changes, inputs, taps, history>>

\* The backend says disconnect.  (What it says before the page listens is missed.)
Hears == listening /\ socket = "open" /\ DisconnectOnce

\* The close or error event, if the page listens: disconnectOnce.
CloseHeard == listening /\ socket = "closing" /\ DisconnectOnce

\* The same event when nobody listens yet, or the page has taken its leave already.
CloseUnheard ==
  /\ page = "connected" /\ socket = "closing" /\ (~listening \/ gone)
  /\ socket' = "closed"
  /\ UNCHANGED <<page, listening, gone, clearing, erasing, key, sender, layout, inputs, taps, history>>

\* handlePageResume: the page is shown again and finds its socket closed.
PageResume == listening /\ socket # "open" /\ DisconnectOnce

\* Plausible bug: what the user wants most goes before everything else.
TapAhead ==
  /\ page = "connected" /\ taps < MaxTaps /\ More /\ gone' = TRUE
  /\ queue' = <<Envelope("disconnect", None)>> \o queue /\ calls' = calls + 1
  /\ taps' = taps + 1 /\ tapped' = IF tapped = 0 THEN calls' ELSE tapped
  /\ UNCHANGED <<page, listening, clearing, erasing, socket, key, task, step, seq, sent>>
  /\ UNCHANGED <<layout, inputs, failed, wrong>>

\* handleDisconnect, up to its first await; nothing keeps the user from tapping again.
Tap ==
  /\ page = "connected" /\ taps < MaxTaps /\ More /\ gone' = TRUE /\ Call("disconnect", None)
  /\ taps' = taps + 1 /\ tapped' = IF tapped = 0 THEN calls' ELSE tapped
  /\ UNCHANGED <<page, listening, clearing, erasing, socket, key, layout, inputs, failed, wrong>>

\* Plausible bug: it leaves by disconnectOnce, which has been done already.
ErasedOnce(n) ==
  /\ n \in clearing /\ clearing' = clearing \ {n} /\ key' = FALSE
  /\ UNCHANGED <<page, listening, gone, erasing, socket, sender, layout, inputs, taps, history>>

\* The clearKeypair of a handleDisconnect is done, and the page is left, if another's
\* has not left it already.
Erased(n) ==
  /\ n \in clearing /\ clearing' = clearing \ {n} /\ key' = FALSE /\ LeavePage
  /\ UNCHANGED <<gone, erasing, sender, size, keyboard, last, changes, inputs, taps, history>>

\* The same for disconnectOnce, whose page was left at once.
ErasedLater ==
  /\ erasing /\ erasing' = FALSE /\ key' = FALSE
  /\ UNCHANGED <<page, listening, gone, clearing, socket, sender, layout, inputs, taps, history>>

\* IndexedDB rejects; a handleDisconnect then ends with the exception.
EraseFails ==
  /\ GoesWrong("storage")
  /\ \/ \E n \in clearing : clearing' = clearing \ {n} /\ UNCHANGED erasing
     \/ erasing /\ erasing' = FALSE /\ UNCHANGED clearing
  /\ UNCHANGED <<page, listening, gone, socket, key, sender, layout, inputs, taps, tapped, failed>>

-----------------------------------------------------------------------------
\* The size of the terminal

\* Plausible bug: only a change of the element's own size starts the timer.
LayoutUnheeded(sz, covered) ==
  /\ listening /\ changes < MaxChanges /\ More /\ changes' = changes + 1
  /\ size' = sz /\ keyboard' = covered
  /\ timer' = (timer \/ sz # size)
  /\ UNCHANGED <<exit, key, sender, last, inputs, taps, history>>

\* The window's or the viewport's event, and the ResizeObserver's if the element's own
\* size changes.
Layout(sz, covered) ==
  /\ listening /\ changes < MaxChanges /\ More /\ changes' = changes + 1
  /\ size' = sz /\ keyboard' = covered
  /\ timer' = (timer \/ sz # size \/ ~covered)
  /\ UNCHANGED <<exit, key, sender, last, inputs, taps, history>>

\* The page goes to fullscreen or back.
Refit ==
  /\ listening /\ ~timer /\ timer' = TRUE
  /\ UNCHANGED <<exit, key, sender, size, keyboard, last, changes, inputs, taps, history>>

\* Plausible bug: the size is remembered though the terminal is too small to tell it.
SyncTiny ==
  /\ timer /\ timer' = FALSE
  /\ IF keyboard \/ size = last THEN UNCHANGED <<sender, last>>
     ELSE Call("resize", size) /\ last' = size
  /\ UNCHANGED <<exit, key, size, keyboard, changes, inputs, taps, history>>

\* syncTerminalSize, 80 milliseconds later.
Sync ==
  /\ timer /\ timer' = FALSE
  /\ IF keyboard \/ size \notin Usable \/ size = last THEN UNCHANGED <<sender, last>>
     ELSE Call("resize", size) /\ last' = size
  /\ UNCHANGED <<exit, key, size, keyboard, changes, inputs, taps, history>>

-----------------------------------------------------------------------------
\* Faults

\* The socket is closing, before the page listens or later.
Breaks ==
  /\ GoesWrong("lost") /\ socket = "open" /\ socket' = "closing"
  /\ UNCHANGED <<page, listening, gone, clearing, erasing, key, sender, layout, inputs, taps>>
  /\ UNCHANGED <<tapped, failed>>

OtherTab ==
  /\ GoesWrong("other_tab") /\ key /\ key' = FALSE
  /\ UNCHANGED <<exit, sender, layout, inputs, taps, tapped, failed>>

-----------------------------------------------------------------------------
\* The specification

\* The first rendering of the page; its effects have not run.
Init ==
  /\ page = "connected" /\ listening = FALSE /\ gone = FALSE /\ clearing = {} /\ key = TRUE
  /\ erasing = FALSE /\ socket = "open"
  /\ queue = <<>> /\ task = None /\ step = "none" /\ seq = 0 /\ sent = <<>> /\ calls = 0
  /\ size \in Sizes /\ keyboard = FALSE /\ timer = FALSE /\ last = None /\ changes = 0
  /\ inputs = 0 /\ taps = 0 /\ tapped = 0 /\ failed = {} /\ wrong = {}

Next == \/ Types \/ TaskStarts \/ KeyAnswer \/ SignAnswer \/ TaskFails
        \/ Mounts \/ Hears \/ CloseHeard \/ CloseUnheard \/ PageResume
        \/ Tap \/ (\E n \in clearing : Erased(n)) \/ ErasedLater \/ EraseFails
        \/ \E sz \in Sizes, covered \in BOOLEAN : Layout(sz, covered)
        \/ Refit \/ Sync \/ Breaks \/ OtherTab

Spec == Init /\ [][Next]_vars

\* The browser runs what is due and tells a page that listens that its socket is closed;
\* IndexedDB and crypto.subtle answer.  Nothing is assumed of the user.
Fairness == /\ WF_vars(Mounts) /\ WF_vars(TaskStarts) /\ WF_vars(KeyAnswer \/ SignAnswer \/ TaskFails)
            /\ WF_vars(CloseHeard) /\ WF_vars(Sync)
            /\ WF_vars((\E n \in clearing : Erased(n)) \/ ErasedLater \/ EraseFails)

FairSpec == Spec /\ Fairness

-----------------------------------------------------------------------------
\* Properties

Messages == [n : 1 .. calls, seq : 1 .. seq, type : {"input", "resize", "disconnect"},
             size : Usable \cup {None}]

TypeOK ==
  /\ page \in {"connected", "disconnected"} /\ socket \in {"open", "closing", "closed"}
  /\ {listening, gone, erasing, key, keyboard, timer} \subseteq BOOLEAN
  /\ calls \in Nat /\ seq \in 0 .. calls /\ tapped \in 0 .. calls
  /\ clearing \subseteq 1 .. calls /\ failed \subseteq 1 .. calls
  /\ \A i \in DOMAIN queue : queue[i].n \in 1 .. calls
  /\ (task = None) = (step = "none") /\ step \in {"none", "key", "sign"}
  /\ \A i \in DOMAIN sent : sent[i] \in Messages
  /\ size \in Sizes /\ last \in Usable \cup {None}
  /\ wrong \subseteq Faults

\* The messages leave the phone in the order of the calls that made them, with growing
\* sequence numbers (verify.ts:69 takes one that comes late for a failed check), though
\* each waits for IndexedDB and for a signature, and some fail (ConnectedPage.tsx:60).
SentInOrder ==
  \A i, j \in DOMAIN sent : i < j => sent[i].n < sent[j].n /\ sent[i].seq < sent[j].seq

\* How many calls have begun, and how many of them are over.
Begun == calls - Len(queue)
Over  == IF task = None THEN Begun ELSE Begun - 1

\* Call n was sent, or it was its own signing that failed.
Said(n) == \E i \in DOMAIN sent : sent[i].n = n
Settled(n) == Said(n) \/ n \in failed

\* A failure costs its own message only: as long as the page is up, with its socket and
\* its keypair, every other call that is over was signed and sent, those after the failed
\* one too (ConnectedPage.tsx:83).
FailureCostsOne ==
  page = "connected" /\ wrong \subseteq {"storage"} => \A n \in 1 .. Over : Settled(n)

\* When a Disconnect has come to erasing the keypair, or has erased it, everything the
\* user did before the first Disconnect, and that one's message, has been signed and
\* sent, but for what failed by itself (ConnectedPage.tsx:305).  Not so what the user
\* does after it: the key may be erased under that, and under a second Disconnect.
NothingLeftUnsaid ==
  tapped # 0 /\ (clearing # {} \/ ~key) /\ wrong \subseteq {"storage"}
    => \A n \in 1 .. tapped : Settled(n)

\* A page that has taken its leave (disconnectedRef), or whose socket closes while it
\* listens, gives way to the Disconnected page: the two ways out exclude each other by
\* the same reference, and yet neither leaves the page to the other for good.  Not so
\* when IndexedDB or crypto.subtle rejects in handleDisconnect, nor when the socket
\* closes before the listeners are attached (ConnectedPage.tsx:196, 242, 305).
PageLeaves ==
  (gone \/ (listening /\ socket = "closing")) ~> (page = "disconnected" \/ "storage" \in wrong)

\* Once the page is left, whichever way, the keypair is erased, though disconnectOnce
\* does not wait for it; unless IndexedDB rejects (ConnectedPage.tsx:198, 308).
KeyErased == page = "disconnected" ~> (~key \/ "storage" \in wrong)

Told == \E i \in DOMAIN sent :
          /\ sent[i].type = "resize" /\ sent[i].size = size
          /\ \A j \in DOMAIN sent : j > i => sent[j].type # "resize"

\* When the layout has come to rest, the last size the laptop was told is the one the
\* terminal has, whatever sizes came and went and whenever the keyboard covered the page,
\* as long as the page can speak (ConnectedPage.tsx:87-128).
SizeTold ==
  <>[](\/ page = "disconnected" \/ socket # "open" \/ ~key \/ "storage" \in wrong
       \/ keyboard \/ size \notin Usable
       \/ Told)
=============================================================================
