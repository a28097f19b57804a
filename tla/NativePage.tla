------------------------------ MODULE NativePage ------------------------------
(* The content script of a ChatGPT or Claude page (src/content/chatgpt.ts,      *)
(* claude.ts, providerLogic.ts): one document, its composer, the turns it       *)
(* submits and captures, the Stops that reach it - two of them may be confirmed *)
(* at once and share one interrupt lease - and the monitor of a turn nobody     *)
(* could verify.  An action is the code between two awaits.  The two providers  *)
(* share every decision modelled here.                                          *)
EXTENDS Naturals

CONSTANTS Prompts,    \* bound: prompts the background sends to this document
          Stops,      \* bound: interrupts it sends
          Attached,   \* prompts that carry images
          Chat,       \* conversations
          Start,      \* the page for a new conversation
          Fresh,      \* conversations whose address is not given out yet
          Person,     \* what somebody typed, attached or asked by hand
          Mixed,      \* a prompt of ours that somebody edited
          None,
          MaxEvents   \* bound: what the person does to the page

Request == 1..Prompts
Halt == (Prompts + 1)..(Prompts + Stops)
Job == Request \cup Halt     \* who may run interruptAndConfirm

ASSUME NativeAssumption ==
    /\ Prompts \in Nat /\ Stops \in Nat /\ MaxEvents \in Nat /\ Attached \subseteq Request
    /\ Start \in Chat \ Fresh /\ Fresh \subseteq Chat /\ None \notin Chat
    /\ {Person, Mixed, None} \cap Request = {} /\ Person # Mixed /\ None \notin {Person, Mixed}
    /\ None \notin [by : Request \cup {Person}, shown : BOOLEAN]

VARIABLES
    route,      \* the conversation in the address bar
    gen,        \* [Chat -> None or [by, shown]], what the provider generates
    stands,     \* [Request -> the conversation its prompt is in, or None]
    done,       \* turns whose generation ended
    text,       \* the composer
    files,      \* the attachment input
    blocked,    \* composerBlockedReason
    cancelled,  \* cancelledRequests
    active,     \* activeRequest
    holding,    \* the lease: requests being interrupted
    owed,       \* the lease: teardowns deferred
    held,       \* quarantined conversations (the authority itself: Quarantine)
    send,       \* the requests and where their jobs await
    stop,       \* the interrupt handlers
    conf,       \* [Job -> where its interruptAndConfirm awaits]
    holds,      \* the background's activeRequests
    named,      \* [Request -> the conversation the background has it in]
    events,     \* how many of the bounded events happened
    told,       \* history: turns the background was told are interrupted
    forgot,     \* history: turns whose owed teardown another hold dropped
    strayed,    \* history: turns bound to a conversation they are not in
    misled      \* history: turns whose monitor looked at another conversation

site     == <<route, gen, stands, done>>
composer == <<text, files, blocked>>
script   == <<cancelled, active>>
lease    == <<holding, owed>>
worker   == <<holds, named>>
book     == <<told, forgot, strayed, misled>>
vars == <<site, composer, script, lease, held, send, stop, conf, worker, events, book>>

SendAt == {"idle", "sent", "asked", "accepted", "clear", "staged", "typed", "cleaning", "clicked",
           "capturing", "answering", "unverified", "failing", "erring", "monitor", "ended"}

----------------------------------------------------------------------------
(* What the script reads                                                      *)

\* isBusyState: a Stop control resolves on this page, whatever page it is
Generating == gen[route] # None /\ gen[route].shown

\* own generation whose Stop control has not appeared yet
Starting(r) == \E c \in Chat : gen[c] = [by |-> r, shown |-> FALSE]

Bound(r) == route = send[r].conv

\* the one navigation a running request may make
MayTransit(r) == ~send[r].used /\ send[r].conv = Start /\ route # Start

\* ensureConversationBinding returned: the request is where the page is, or the
\* background still waits for the browser to say so
BinderReturns(r) == send[r].to = None /\ (Bound(r) \/ (MayTransit(r) /\ r \in holds))

\* interruptControl's stillBound
StillBound(r) == active = r /\ Bound(r)

\* preSubmitRefusal, the composer aside
MaySubmit(r) == r \notin cancelled /\ active = r /\ Bound(r)

\* stagedAttachmentRefusal: asks nothing of a prompt without attachments
FilesAreOwn(r) == r \in Attached => files = {r}

\* request.submissionCommitted
Committed(r) == stands[r] # None

Goes(r, where) == send' = [send EXCEPT ![r].at = where]

Event == events < MaxEvents /\ events' = events + 1

NoSend == [at |-> "idle", conv |-> None, used |-> FALSE, to |-> None,
           staged |-> FALSE, typed |-> FALSE, saw |-> FALSE]

StopAt == {"idle", "confirming", "over", "late"}

NoStop == [at |-> "idle", id |-> None, conv |-> None]

Init ==
    /\ route = Start /\ gen = [c \in Chat |-> None]
    /\ stands = [r \in Request |-> None] /\ done = {}
    /\ text = None /\ files = {} /\ blocked = FALSE
    /\ cancelled = {} /\ active = None
    /\ holding = {} /\ owed = {} /\ held = {}
    /\ send = [r \in Request |-> NoSend]
    /\ stop = [x \in Halt |-> NoStop]
    /\ conf = [k \in Job |-> "none"]
    /\ holds = {} /\ named = [r \in Request |-> None]
    /\ events = 0
    /\ told = {} /\ forgot = {} /\ strayed = {} /\ misled = {}

----------------------------------------------------------------------------
(* The interrupt lease                                                        *)

\* createRequestTeardown: the request is forgotten, or the teardown is owed by
\* the interrupt that holds it
Teardown(r) ==
    IF r \in holding THEN owed' = owed \cup {r} /\ UNCHANGED <<holding, script>>
    ELSE /\ cancelled' = cancelled \ {r}
         /\ active' = IF active = r THEN None ELSE active
         /\ UNCHANGED lease

\* interruptAndConfirm begins: the lease, then the cancellation
Hold(k, r) ==
    /\ holding' = holding \cup {r} /\ owed' = owed \ {r}
    /\ forgot' = IF r \in owed THEN forgot \cup {r} ELSE forgot
    /\ cancelled' = cancelled \cup {r}
    /\ conf' = [conf EXCEPT ![k] = "seeking"]

\* mutant: lets go and leaves the debt unpaid
ReleaseUnpaid(k, r, marks) ==
    /\ holding' = holding \ {r} /\ owed' = owed \ {r}
    /\ cancelled' = marks /\ UNCHANGED active
    /\ conf' = [conf EXCEPT ![k] = "none"]

\* its finally block: lets go, and pays the teardown that is owed
Release(k, r, marks) ==
    /\ holding' = holding \ {r} /\ owed' = owed \ {r}
    /\ cancelled' = IF r \in owed THEN marks \ {r} ELSE marks
    /\ active' = IF r \in owed /\ active = r THEN None ELSE active
    /\ conf' = [conf EXCEPT ![k] = "none"]

Interrupts(k) == IF k \in Request THEN k ELSE stop[k].id

\* The Stop control resolved within three seconds and is clicked.
Clicks(k) ==
    /\ conf[k] = "seeking" /\ StillBound(Interrupts(k)) /\ Generating
    /\ conf' = [conf EXCEPT ![k] = "watching"]
    /\ UNCHANGED <<site, composer, script, lease, held, send, stop, worker, events, book>>

\* mutant: any quiet page will do
ConfirmedAnywhere(k, r) == conf[k] = "watching" /\ active = r /\ ~Generating

\* confirmStopped: idle for a second, on the turn's own page
Confirmed(k, r) == conf[k] = "watching" /\ StillBound(r) /\ ~Generating

\* not the turn's page any more, no control, or still busy after ten seconds
Unconfirmed(k, r) ==
    \/ conf[k] # "none" /\ ~StillBound(r)
    \/ conf[k] = "seeking" /\ ~Generating
    \/ conf[k] = "watching" /\ Generating

----------------------------------------------------------------------------
(* The site and the person                                                    *)

Given == {stands[r] : r \in Request} \cap Fresh

\* the conversation begun on the start page gets its address
Relocate(c) ==
    /\ c \in Fresh \ Given /\ \E r \in Request : stands[r] = Start
    /\ gen' = [gen EXCEPT ![c] = gen[Start], ![Start] = None]
    /\ stands' = [r \in Request |-> IF stands[r] = Start THEN c ELSE stands[r]]

Rename(c) ==
    /\ Relocate(c) /\ route' = c
    /\ UNCHANGED <<done, composer, script, lease, held, send, stop, conf, worker, events, book>>

\* Leaving the start page does not lose the conversation begun on it.  An interrupt looks at the
\* page every 100 ms, so it has seen the page somebody leaves; and nobody comes back within the
\* round trip that asks for a transition.
Move(c) ==
    /\ Event /\ \A k \in Job : conf[k] # "none" => StillBound(Interrupts(k))
    /\ \A r \in Request : send[r].to \in {None, route}
    /\ c # route /\ c \in (Chat \ Fresh) \cup Given
    /\ route' = c
    /\ \/ \E d \in Fresh : Relocate(d)
       \/ Start \notin {stands[r] : r \in Request} /\ UNCHANGED <<gen, stands>>
    /\ UNCHANGED <<done, composer, script, lease, held, send, stop, conf, worker, book>>

\* Somebody sends what is in the composer, in a conversation that has its address.
PersonPrompts ==
    /\ Event /\ route # Start /\ gen[route] = None
    /\ gen' = [gen EXCEPT ![route] = [by |-> Person, shown |-> TRUE]]
    /\ text' = None /\ files' = {}
    /\ UNCHANGED <<route, stands, done, blocked, script, lease, held, send, stop, conf, worker, book>>

PersonDrafts ==
    /\ Event /\ text \notin {Person, Mixed}
    /\ text' = IF text = None THEN Person ELSE Mixed
    /\ UNCHANGED <<site, files, blocked, script, lease, held, send, stop, conf, worker, book>>

PersonAttaches ==
    /\ Event /\ Person \notin files
    /\ files' = files \cup {Person}
    /\ UNCHANGED <<site, text, blocked, script, lease, held, send, stop, conf, worker, book>>

ShowStop(c) ==
    /\ gen[c] # None /\ ~gen[c].shown
    /\ gen' = [gen EXCEPT ![c].shown = TRUE]
    /\ UNCHANGED <<route, stands, done, composer, script, lease, held, send, stop, conf, worker, events, book>>

EndGeneration(c) ==
    /\ gen[c] # None
    /\ gen' = [gen EXCEPT ![c] = None]
    /\ done' = done \cup ({gen[c].by} \cap Request)
    /\ UNCHANGED <<route, stands, composer, script, lease, held, send, stop, conf, worker, events, book>>

----------------------------------------------------------------------------
(* submit, up to the click on Send                                            *)

\* The background dispatches the next prompt for the conversation it knows.  To reconnect takes
\* it longer than the prompt and the verdict take to reach the page.
Register(r) ==
    /\ send[r].at = "idle"
    /\ \A q \in 1..(r - 1) : send[q].at # "idle" /\ (send[q].at \in {"sent", "asked"} => q \in told)
    /\ holds = {} /\ holds' = {r}
    /\ named' = [named EXCEPT ![r] = route]
    /\ send' = [send EXCEPT ![r].at = "sent", ![r].conv = route]
    /\ UNCHANGED <<site, composer, script, lease, held, stop, conf, events, book>>

\* Messages of the background arrive, and its verdicts return, in order.
Foremost(r, where) == send[r].at = where /\ \A q \in 1..(r - 1) : send[q].at # where

\* Refused before it became the active request.
Refuse(r) == Goes(r, "ended") /\ holds' = holds \ {r} /\ UNCHANGED named

Arrive(r) ==
    /\ Foremost(r, "sent")
    /\ IF Bound(r) /\ r \notin cancelled /\ active = None
       THEN Goes(r, "asked") /\ UNCHANGED <<worker, cancelled>>
       ELSE Refuse(r) /\ cancelled' = IF Bound(r) THEN cancelled \ {r} ELSE cancelled
    /\ UNCHANGED <<site, composer, active, lease, held, stop, conf, events, book>>

\* mutant: the authority's verdict is ignored
AdmitUnasked(r) ==
    /\ Foremost(r, "asked") /\ ~Generating
    /\ active' = r
    /\ Goes(r, "accepted")
    /\ UNCHANGED <<site, composer, cancelled, lease, held, stop, conf, worker, events, book>>

\* The quarantine authority answered; it may also not have.
Admit(r) ==
    /\ Foremost(r, "asked") /\ send[r].conv \notin held /\ ~Generating
    /\ active' = r
    /\ Goes(r, "accepted")
    /\ UNCHANGED <<site, composer, cancelled, lease, held, stop, conf, worker, events, book>>

RefuseVerdict(r) ==
    /\ Foremost(r, "asked")
    /\ Refuse(r)
    /\ UNCHANGED <<site, composer, script, lease, held, stop, conf, events, book>>

\* composerConflict, once the composer is found
Inspect(r) ==
    /\ send[r].at = "accepted" /\ MaySubmit(r)
    /\ ~blocked /\ text = None /\ files = {}
    /\ Goes(r, "clear")
    /\ UNCHANGED <<site, composer, script, lease, held, stop, conf, worker, events, book>>

\* stagingWriteRefusal and the write, in one piece
Stage(r) ==
    /\ send[r].at = "clear" /\ r \in Attached /\ MaySubmit(r)
    /\ text = None /\ files = {}
    /\ files' = {r}
    /\ send' = [send EXCEPT ![r].at = "staged", ![r].staged = TRUE]
    /\ UNCHANGED <<site, text, blocked, script, lease, held, stop, conf, worker, events, book>>

Type(r) ==
    /\ send[r].at = IF r \in Attached THEN "staged" ELSE "clear"
    /\ MaySubmit(r) /\ FilesAreOwn(r) /\ text = None
    /\ text' = r
    /\ send' = [send EXCEPT ![r].at = "typed", ![r].typed = TRUE]
    /\ UNCHANGED <<site, files, blocked, script, lease, held, stop, conf, worker, events, book>>

\* The last look, submissionCommitted and the click; the site empties its composer.
Submit(r) ==
    /\ send[r].at = "typed" /\ MaySubmit(r) /\ FilesAreOwn(r) /\ text = r
    /\ gen' = [gen EXCEPT ![route] = [by |-> r, shown |-> FALSE]]
    /\ stands' = [stands EXCEPT ![r] = route]
    /\ text' = None /\ files' = {}
    /\ Goes(r, "clicked")
    /\ UNCHANGED <<route, done, blocked, script, lease, held, stop, conf, worker, events, book>>

\* The job is over: its answer goes to the background, the request is forgotten.
Leave(r) == Goes(r, "ended") /\ holds' = holds \ {r} /\ UNCHANGED named /\ Teardown(r)

\* mutant: the clean-up empties the attachment input
FailBeforeClears(r) ==
    /\ send[r].at \in {"accepted", "clear", "staged", "typed"}
    /\ files' = IF send[r].staged THEN {} ELSE files
    /\ text' = IF send[r].typed /\ text = r THEN None ELSE text
    /\ UNCHANGED blocked /\ Leave(r)
    /\ UNCHANGED <<site, held, stop, conf, events, book>>

\* failBeforeSubmission: what the request owns is taken back, unless the text is no longer its own
FailBefore(r) ==
    /\ send[r].at \in {"accepted", "clear", "staged", "typed"}
    /\ files' = IF send[r].staged THEN files \ {r} ELSE files
    /\ text' = IF send[r].typed /\ text = r THEN None ELSE text
    /\ \/ ~send[r].staged /\ ~send[r].typed /\ UNCHANGED blocked /\ Leave(r)
       \/ send[r].typed /\ text # r /\ blocked' = TRUE /\ Leave(r)
       \/ /\ send[r].staged \/ send[r].typed
          /\ send[r].typed => text = r
          /\ Goes(r, "cleaning")
          /\ UNCHANGED <<blocked, script, lease, worker>>
    /\ UNCHANGED <<site, held, stop, conf, events, book>>

\* cleanupComposer saw the composer empty, or it gave up after three seconds.
CleanupEnds(r) ==
    /\ send[r].at = "cleaning"
    /\ blocked' \in IF send[r].typed /\ text # None THEN {TRUE} ELSE {blocked, TRUE}
    /\ Leave(r)
    /\ UNCHANGED <<site, text, files, held, stop, conf, events, book>>

----------------------------------------------------------------------------
(* After the click                                                            *)

\* createConversationBinder tells the background of the conversation's address.
AskTransition(r) ==
    /\ send[r].at \in {"clicked", "capturing"} /\ r \notin cancelled
    /\ send[r].to = None /\ MayTransit(r)
    /\ send' = [send EXCEPT ![r].to = route]
    /\ UNCHANGED <<site, composer, script, lease, held, stop, conf, worker, events, book>>

\* applyTransition: the tab shows that conversation
AdmitTransition(r) ==
    /\ send[r].to = route /\ r \in holds /\ named[r] = send[r].conv
    /\ named' = [named EXCEPT ![r] = route]
    /\ UNCHANGED <<site, composer, script, lease, held, send, stop, conf, holds, events, book>>

TransitionAdmitted(r) ==
    /\ send[r].to # None /\ named[r] = send[r].to
    /\ send' = [send EXCEPT ![r].conv = send[r].to, ![r].used = TRUE, ![r].to = None]
    /\ strayed' = IF stands[r] # send[r].to THEN strayed \cup {r} ELSE strayed
    /\ UNCHANGED <<site, composer, script, lease, held, stop, conf, worker, events, told, forgot, misled>>

\* createSubmittedPromptWaiter: the prompt is there as a message.
PromptSeen(r) ==
    /\ send[r].at = "clicked" /\ r \notin cancelled
    /\ BinderReturns(r) /\ stands[r] = route
    /\ Goes(r, "capturing")
    /\ UNCHANGED <<site, composer, script, lease, held, stop, conf, worker, events, book>>

\* The prompt was not seen, the conversation changed, or the transition was refused.
SubmitFaults(r) ==
    /\ send[r].at = "clicked" /\ named[r] # send[r].to
    /\ send' = [send EXCEPT ![r].at = "unverified", ![r].to = None]
    /\ Hold(r, r)
    /\ UNCHANGED <<site, composer, active, held, stop, worker, events, told, strayed, misled>>

\* The catch of submit: the prompt was stopped ...
SubmitStopped(r) ==
    /\ send[r].at = "unverified" /\ Confirmed(r, r)
    /\ holding' = holding \ {r} /\ owed' = owed \ {r}
    /\ conf' = [conf EXCEPT ![r] = "none"]
    /\ held' = held \ {send[r].conv}
    /\ active' = None /\ cancelled' = cancelled \ {r}
    /\ Refuse(r)
    /\ UNCHANGED <<site, composer, stop, events, book>>

\* ... or nobody knows: the conversation is quarantined and the page is watched.
SubmitUnknown(r) ==
    /\ send[r].at = "unverified" /\ Unconfirmed(r, r)
    /\ Release(r, r, cancelled \cup {r})
    /\ held' = held \cup {send[r].conv}
    /\ send' = [send EXCEPT ![r].at = "monitor", ![r].saw = FALSE]
    /\ holds' = holds \ {r}
    /\ UNCHANGED <<site, composer, stop, named, events, book>>

\* startLifecycleObserver, and the monitor: a Stop control was there.
See(r) ==
    /\ send[r].at \in {"typed", "clicked", "capturing", "monitor"} /\ Generating
    /\ send' = [send EXCEPT ![r].saw = TRUE]
    /\ misled' = IF send[r].at = "monitor" /\ ~Bound(r) THEN misled \cup {r} ELSE misled
    /\ UNCHANGED <<site, composer, script, lease, held, stop, conf, worker, events, told, forgot, strayed>>

\* captureResponse looks at the cancellation before anything else; a transition it asked for
\* earlier answers first, and one that is refused then ends the turn as quietly.
CaptureCancelled(r) ==
    /\ send[r].at = "capturing" /\ r \in cancelled /\ named[r] # send[r].to
    /\ send' = [send EXCEPT ![r].at = "ended", ![r].to = None]
    /\ Teardown(r)
    /\ UNCHANGED <<site, composer, held, stop, conf, worker, events, book>>

\* completionOutcome "complete": the answer after the prompt, the Stop control come and gone
CaptureComplete(r) ==
    /\ send[r].at = "capturing" /\ r \notin cancelled
    /\ BinderReturns(r) /\ stands[r] = route
    /\ send[r].saw /\ ~Generating /\ ~Starting(r)
    /\ held' = held \ {send[r].conv}
    /\ Goes(r, "answering")
    /\ UNCHANGED <<site, composer, script, lease, stop, conf, worker, events, book>>

\* The background took the answer.
AnswerTaken(r) ==
    /\ send[r].at = "answering" /\ r \in holds
    /\ Leave(r)
    /\ UNCHANGED <<site, composer, held, stop, conf, events, book>>

\* The catch of captureResponse, unless the request is cancelled
CaptureFaults(r) ==
    /\ send[r].at \in {"capturing", "answering"} /\ named[r] # send[r].to
    /\ r \notin cancelled
    /\ send[r].at = "answering" => r \notin holds
    /\ send' = [send EXCEPT ![r].at = "failing", ![r].to = None]
    /\ Hold(r, r)
    /\ UNCHANGED <<site, composer, active, held, stop, worker, events, told, strayed, misled>>

\* A refused answer of a request that is cancelled ends quietly.
AnswerRefused(r) ==
    /\ send[r].at = "answering" /\ r \notin holds /\ r \in cancelled
    /\ Leave(r)
    /\ UNCHANGED <<site, composer, held, stop, conf, events, book>>

\* Stopped or not, the conversation is quarantined and the failure is reported ...
CaptureGivesUp(r) ==
    /\ send[r].at = "failing"
    /\ \/ Confirmed(r, r) /\ Release(r, r, cancelled)
       \/ Unconfirmed(r, r) /\ Release(r, r, cancelled \ {r})
    /\ held' = held \cup {send[r].conv}
    /\ Goes(r, "erring")
    /\ UNCHANGED <<site, composer, stop, worker, events, book>>

\* ... and the request forgotten.
FailureReported(r) ==
    /\ send[r].at = "erring"
    /\ Leave(r)
    /\ UNCHANGED <<site, composer, held, stop, conf, events, book>>

\* createIndeterminateMonitor: idle for a second after being busy, for ten otherwise.  No other
\* request becomes active meanwhile: its last exit (forget) is never taken.
MonitorSettles(r) ==
    /\ send[r].at = "monitor" /\ active = r /\ ~Generating
    /\ send[r].saw \/ ~Starting(r)
    /\ held' = IF send[r].saw THEN held \ {send[r].conv} ELSE held
    /\ misled' = IF Bound(r) THEN misled ELSE misled \cup {r}
    /\ Goes(r, "ended") /\ Teardown(r)
    /\ UNCHANGED <<site, composer, stop, conf, worker, events, told, forgot, strayed>>

----------------------------------------------------------------------------
(* createInterruptHandler                                                     *)

\* The background names the turn where it knows it; one that disconnects has
\* already forgotten the turn (stopActiveRequests).
StopArrives(x, recall) == \E r \in holds :
    /\ stop[x].at = "idle" /\ \A y \in Halt : y < x => stop[y].at # "idle"
    /\ LET names    == named[r] = route /\ (active = None \/ (active = r /\ send[r].conv = route))
           unsent   == names /\ (active = None \/ ~Committed(r))
           at       == IF names /\ ~unsent THEN "confirming" ELSE "over"
       IN  /\ stop' = [stop EXCEPT ![x] = [at |-> at, id |-> r, conv |-> named[r]]]
           /\ IF at = "confirming" THEN Hold(x, r)
              ELSE /\ cancelled' = IF unsent THEN cancelled \cup {r} ELSE cancelled
                   /\ UNCHANGED <<lease, conf, forgot>>
           /\ holds' = IF recall \/ unsent THEN holds \ {r} ELSE holds
           /\ told' = IF unsent /\ ~recall THEN told \cup {r} ELSE told
    /\ UNCHANGED <<site, composer, active, held, send, named, events, strayed, misled>>

StopConfirmed(x) == LET r == stop[x].id IN
    /\ stop[x].at = "confirming" /\ Confirmed(x, r)
    /\ Release(x, r, cancelled)
    /\ stop' = [stop EXCEPT ![x].at = "over"]
    /\ held' = held \ {stop[x].conv}
    /\ told' = told \cup (holds \cap {r})
    /\ holds' = holds \ {r}
    /\ UNCHANGED <<site, composer, send, named, events, forgot, strayed, misled>>

\* "late" is history: what it quarantines is the conversation the turn has left meanwhile.
StopUnconfirmed(x) == LET r == stop[x].id IN
    /\ stop[x].at = "confirming" /\ Unconfirmed(x, r)
    /\ Release(x, r, cancelled \ {r})
    /\ stop' = [stop EXCEPT ![x].at = IF stop[x].conv = send[r].conv THEN "over" ELSE "late"]
    /\ held' = held \cup {stop[x].conv}
    /\ UNCHANGED <<site, composer, send, worker, events, book>>

----------------------------------------------------------------------------
Site ==
    \/ \E c \in Chat : Move(c) \/ Rename(c) \/ ShowStop(c) \/ EndGeneration(c)
    \/ PersonPrompts \/ PersonDrafts \/ PersonAttaches

Turn(r) ==
    \/ Arrive(r) \/ Admit(r) \/ RefuseVerdict(r)
    \/ Inspect(r) \/ Stage(r) \/ Type(r) \/ Submit(r) \/ FailBefore(r) \/ CleanupEnds(r)
    \/ AskTransition(r) \/ TransitionAdmitted(r) \/ PromptSeen(r) \/ See(r)
    \/ SubmitFaults(r) \/ SubmitStopped(r) \/ SubmitUnknown(r)
    \/ CaptureCancelled(r) \/ CaptureComplete(r) \/ CaptureFaults(r) \/ CaptureGivesUp(r)
    \/ AnswerTaken(r) \/ AnswerRefused(r) \/ FailureReported(r)
    \/ MonitorSettles(r)

Interrupt(x) == StopConfirmed(x) \/ StopUnconfirmed(x)

Background ==
    \/ \E r \in Request : Register(r) \/ AdmitTransition(r)
    \/ \E x \in Halt, recall \in BOOLEAN : StopArrives(x, recall)

Next ==
    \/ Site \/ Background
    \/ \E r \in Request : Turn(r)
    \/ \E x \in Halt : Interrupt(x)
    \/ \E k \in Job : Clicks(k)

Spec == Init /\ [][Next]_vars

----------------------------------------------------------------------------
SiteTypeOK ==
    /\ route \in Chat /\ stands \in [Request -> Chat \cup {None}] /\ done \subseteq Request
    /\ gen \in [Chat -> [by : Request \cup {Person}, shown : BOOLEAN] \cup {None}]
    /\ text \in Request \cup {Person, Mixed, None} /\ files \subseteq Request \cup {Person}
    /\ blocked \in BOOLEAN /\ events \in 0..MaxEvents

ScriptTypeOK ==
    /\ cancelled \subseteq Request /\ active \in Request \cup {None} /\ held \subseteq Chat
    /\ holding \subseteq Request /\ owed \subseteq Request
    /\ conf \in [Job -> {"none", "seeking", "watching"}]

JobsTypeOK ==
    /\ send \in [Request -> [at : SendAt, conv : Chat \cup {None}, used : BOOLEAN,
                             to : Chat \cup {None}, staged : BOOLEAN, typed : BOOLEAN, saw : BOOLEAN]]
    /\ stop \in [Halt -> [at : StopAt, id : Request \cup {None},
                          conv : Chat \cup {None}]]

WorkerTypeOK ==
    /\ holds \subseteq Request /\ named \in [Request -> Chat \cup {None}]
    /\ told \subseteq Request /\ forgot \subseteq Request
    /\ strayed \subseteq Request /\ misled \subseteq Request

TypeOK == SiteTypeOK /\ ScriptTypeOK /\ JobsTypeOK /\ WorkerTypeOK

Submits(r) == stands[r] = None /\ stands'[r] # None

\* a Stop of r could not be verified, and quarantined the conversation r had before
Belated(r) == \E x \in Halt : stop[x].at = "late" /\ stop[x].id = r

\* the page followed somebody to c, and took it for a turn's own
Followed(c) == \E r \in strayed : send[r].conv = c

\* Prompts whose conversation the page knows: not a first prompt it could not follow to its new
\* address, nor one whose monitor watched another page, nor one stopped under its old address, nor
\* one in a conversation the page took for another turn's.
Placed == {r \in Request \ misled : stands[r] = send[r].conv /\ ~Belated(r) /\ ~Followed(send[r].conv)}

\* A prompt is never put on top of another prompt's unfinished answer: activeRequest, the verdict
\* and the look at the Stop control exclude it between them, each alone does not.
NoSecondPrompt ==
    [][\A r \in Request : Submits(r) => gen[route] = None \/ gen[route].by \notin Placed]_vars

\* Of a turn reported as stopped the prompt was never submitted, or its answer ended, or the
\* conversation the page has it in is quarantined - unless a Stop quarantined the one it had before,
\* or the page followed somebody there: a monitor watches whatever page is shown when it settles.
StopIsReal ==
    \A r \in told : \/ stands[r] = None \/ r \in done \/ send[r].conv \in held
                    \/ Belated(r) \/ Followed(send[r].conv)

Confirming(r) == \E k \in Job : conf[k] # "none" /\ Interrupts(k) = r

\* The page's one turn ends: its job goes on, or its teardown is owed by an interrupt that goes on
\* - unless a later Stop struck the debt (PageAlwaysFreed).
PageIsFreed ==
    active # None => \/ send[active].at # "ended"
                     \/ active \in owed /\ Confirming(active)
                     \/ active \in forgot

\* "The teardown is owed, not skipped: the interrupt runs it when it lets go", lest a turn "leave
\* the document unable to accept the next" (providerLogic.ts).
PageAlwaysFreed == active # None => send[active].at # "ended" \/ Confirming(active)

\* What a person typed or attached is never taken by the script: not by a submission, not by the
\* staging of images, not by the clean-up of a prompt that failed (BR-G6-02).  A prompt without
\* attachments does not look at the files again once it found none.
DraftIsKept ==
    [][events' = events =>
        /\ text \in {Person, Mixed} => text' = text
        /\ Person \in files => Person \in files'
                               \/ \E r \in Request \ Attached : Submits(r)]_vars
=============================================================================
