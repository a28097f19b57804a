------------------------------ MODULE GenericPage ------------------------------
(* The content script of a bound website (src/content/generic/index.ts): one    *)
(* page, the person and the site that move it, and the jobs the background      *)
(* starts in it - SEND, CANCEL, the selected answer, CONFIRM_REUSE and          *)
(* NEW_CONVERSATION.  Every await of a job is a step of its own, so a job reads *)
(* a page that may have become another conversation since its last step: a      *)
(* single-page site changes conversation without replacing the document.  The   *)
(* quarantine authority is behind a channel that may lose a call or its         *)
(* answer.                                                                      *)
EXTENDS Naturals, Sequences, SequencesExt

CONSTANTS Prompts,    \* bound: prompts the background sends to this page
          Chat,       \* conversation identities of the site
          Start,      \* the site's page for a new conversation
          Person,     \* a prompt somebody typed by hand
          None,
          MaxEvents   \* bound: what the person and the site do to the page,
                      \* quarantine calls lost

ASSUME PageAssumption == Prompts \in Nat /\ Start \in Chat

Request == 1..Prompts

VARIABLES
    route,       \* the conversation in the address bar
    lastUrl,     \* the address the navigation listeners last acted on
    rev,         \* documentRevision (with the token: a reload takes a new one)
    transcript,  \* [Chat -> Seq(turn)], the user turns on the site
    gen,         \* [Chat -> None or [by, shown]], what the site generates
    done,        \* turns whose generation ended
    unheld,      \* history: turns being answered in a conversation that nobody holds:
                 \* a fresh job, or a reuse that another conversation's generation
                 \* confirmed, lifted its quarantine, or the page left the new
                 \* address of it before the script learned of that
    accepting,   \* acceptingRequestIds
    cancelled,   \* cancelledRequestIds
    active,      \* activeRequest
    pending,     \* pendingReuseConfirmation
    unack,       \* conversations whose SET was never acknowledged
    auth,        \* what the authority in the background holds
    send,        \* the SEND jobs
    stop,        \* the CANCEL or the selected-answer job
    reuse,       \* the CONFIRM_REUSE job
    fresh,       \* the NEW_CONVERSATION job
    result,      \* None, or the page the last success named
    events       \* how many of the bounded events happened

page   == <<route, lastUrl, rev>>
site   == <<transcript, gen, done, unheld>>
script == <<accepting, cancelled, active, pending>>
memory == <<unack, auth>>
quiet  == <<memory, events>>
jobs   == <<send, stop, reuse, fresh>>
vars   == <<page, site, script, memory, jobs, result, events>>

----------------------------------------------------------------------------
(* What the script reads from the page                                        *)

\* providerGenerationActive: an active Stop control resolves on this page
Generating == gen[route] # None /\ gen[route].shown

\* conversationHoldsNonce
HoldsNonce(r) == r \in ToSet(transcript[route])

\* laterExplicitUserTurn: somebody's turn follows the prompt of r
LaterUserTurn(r) == HoldsNonce(r) /\ Last(transcript[route]) # r

\* genericLifecycleAcquisitionExpired: an answer stands there for which no
\* generation was ever seen
Unobserved(r) == HoldsNonce(r) /\ ~active.saw

\* genericResponseCompletionConfirmed: it was seen, it ended, and all is quiet
Completed == active.saw /\ active.ended /\ ~Generating

SentTo(j) == j.conv = route /\ j.rev = rev

\* requestMatchesCurrentDocument, for a request not submitted yet; afterwards
\* the site's origin is enough
RequestMatches(r) == SentTo(send[r])

IsActive(r) == active # None /\ active.id = r

\* cancellationOwnershipLost, with and without the conversation's nonce
OwnershipLost(r, withProfile) ==
    ~ /\ IsActive(r)
      /\ rev = active.rev
      /\ route \in active.names
      /\ withProfile => HoldsNonce(r)

\* The page the answer was attested on is not the page any more, or the prompt
\* left it; a selected answer names no prompt element to ask for.
AttestationBroken(r) ==
    \/ ~SentTo(send[r].att)
    \/ ~send[r].manual /\ ~HoldsNonce(r)

NoStop == [at |-> "idle", id |-> None, kind |-> None, conv |-> None, shown |-> None]

NoSend == [at |-> "idle", conv |-> None, rev |-> 0, att |-> None,
           manual |-> FALSE, healed |-> FALSE, prevented |-> FALSE, idle |-> FALSE]

\* The job is over, whichever way: answered, failed or lost with its script.
Over(r) == send[r].at = "over"
Busy(r) == send[r].at \notin {"idle", "over"}
Gone == [NoSend EXCEPT !.at = "over"]
End(r) == send' = [send EXCEPT ![r] = Gone]

----------------------------------------------------------------------------
(* The quarantine client.  Its calls are answered in the order they are made, *)
(* so a call takes effect when it is made; what can go wrong is that it, or    *)
(* only its answer, is lost.  A SET without an answer stays unacknowledged     *)
(* here; a CLEAR without one releases nothing here.                            *)

Event == events < MaxEvents /\ events' = events + 1

Set(ids, answered) ==
    IF answered THEN auth' = auth \cup ids /\ unack' = unack \ ids
    ELSE auth' \in {auth, auth \cup ids} /\ unack' = unack \cup ids

SetCalls(ids) ==
    \/ Set(ids, TRUE) /\ UNCHANGED events
    \/ Event /\ Set(ids, FALSE)

Clear(ids) ==
    \/ auth' = auth \ ids /\ unack' = unack \ ids /\ UNCHANGED events
    \/ Event /\ auth' \in {auth, auth \ ids} /\ UNCHANGED unack

\* mutant: an answered "no" is believed although a SET was never answered
UncertainForgotten(id) == id \in auth

\* conversationQuarantineState: "clear" takes an answer, and no SET without one
Uncertain(id) == id \in auth \cup unack

\* quarantineConversations: the named conversations and the one on the page; a
\* submitted turn remembers them all
Named(a, ids) == IF a # None /\ a.submitted
                 THEN [a EXCEPT !.names = @ \cup ids] ELSE a

\* the turns that the site answers in these conversations
AnsweredIn(ids) == {r \in Request : \E c \in ids : gen[c] # None /\ gen[c].by = r}

Init ==
    /\ route = Start /\ lastUrl = Start /\ rev = 1
    /\ transcript = [c \in Chat |-> <<>>]
    /\ gen = [c \in Chat |-> None]
    /\ done = {} /\ unheld = {}
    /\ accepting = {} /\ cancelled = {} /\ active = None /\ pending = None
    /\ unack = {} /\ auth = {}
    /\ send = [r \in Request |-> NoSend]
    /\ stop = NoStop
    /\ reuse = None /\ fresh = None
    /\ result = None /\ events = 0

----------------------------------------------------------------------------
(* The person and the site (external)                                         *)

\* the page leaves a conversation that got its address from the turn and was
\* named in no quarantine call of it
LeaveUnnamed ==
    unheld' = IF active # None /\ gen[route] # None /\ gen[route].by = active.id
                 /\ route \notin active.names
              THEN unheld \cup {active.id} ELSE unheld

\* pushState: the address and the transcript change, the script hears nothing
MoveSilently(c) ==
    /\ Event /\ c # route
    /\ route' = c
    /\ LeaveUnnamed
    /\ UNCHANGED <<lastUrl, rev, transcript, gen, done, script, memory, jobs, result>>

\* the site gives a new conversation its own address, as its first turn begins
Rename(c) ==
    /\ Event
    /\ active # None /\ active.submitted
    /\ route = Start /\ transcript[Start] # <<>>
    /\ c # Start /\ transcript[c] = <<>> /\ gen[c] = None
    /\ route' = c
    /\ transcript' = [transcript EXCEPT ![c] = transcript[Start], ![Start] = <<>>]
    /\ gen' = [gen EXCEPT ![c] = gen[Start], ![Start] = None]
    /\ UNCHANGED <<lastUrl, rev, done, unheld, script, memory, jobs, result>>

\* the document was replaced or the address changed under a turn: a submitted
\* one is quarantined, any other aborted; the revision advances
Disturbed(to) ==
    /\ rev' = rev + 1
    /\ pending' = None
    /\ IF active # None /\ active.submitted
       THEN /\ \E answered \in BOOLEAN : Set({active.conv, to}, answered)
            /\ active' = Named(active, {active.conv, to})
       ELSE /\ active' = IF active = None THEN None
                         ELSE [active EXCEPT !.aborted = TRUE]
            /\ UNCHANGED memory
    /\ UNCHANGED <<accepting, cancelled>>

\* popstate or hashchange; the listener ignores an address it last acted on
MoveHeard(c) ==
    /\ Event /\ c # route
    /\ route' = c
    /\ IF c = lastUrl THEN UNCHANGED <<lastUrl, rev, script, memory>>
       ELSE lastUrl' = c /\ Disturbed(c)
    /\ LeaveUnnamed
    /\ UNCHANGED <<transcript, gen, done, jobs, result>>

\* the page's body is replaced in place
ReplaceBody ==
    /\ Event
    /\ Disturbed(route)
    /\ UNCHANGED <<route, lastUrl, site, jobs, result>>

\* a prompt typed by hand; the composer is taken while a prompt stands in it
PersonPrompts ==
    /\ Event
    /\ gen[route] = None
    /\ \A r \in Request : send[r].at # "typed"
    /\ transcript' = [transcript EXCEPT ![route] = Append(@, Person)]
    /\ gen' = [gen EXCEPT ![route] = [by |-> Person, shown |-> TRUE]]
    /\ UNCHANGED <<page, done, unheld, script, memory, jobs, result>>

\* the page is reloaded: pagehide quarantines a submitted turn, and the new
\* script starts with nothing.  A SET that is lost and then forgotten with its
\* script is held by nobody (the client's own comment says so): not both here.
Reload ==
    /\ Event /\ unack = {}
    /\ lastUrl' = route /\ rev' = rev + 1
    /\ auth' = IF active # None /\ active.submitted
               THEN auth \cup {active.conv, route} ELSE auth
    /\ unack' = {}
    /\ accepting' = {} /\ cancelled' = {} /\ active' = None /\ pending' = None
    /\ send' = [r \in Request |-> IF Busy(r) THEN Gone ELSE send[r]]
    /\ stop' = NoStop
    /\ reuse' = None /\ fresh' = None
    /\ UNCHANGED <<route, site, result>>

\* the Stop control appears, and goes when the generation ends
ShowStop(c) ==
    /\ gen[c] # None /\ ~gen[c].shown
    /\ gen' = [gen EXCEPT ![c].shown = TRUE]
    /\ UNCHANGED <<page, transcript, done, unheld, script, quiet, jobs, result>>

EndGeneration(c) ==
    /\ gen[c] # None /\ gen[c].shown
    /\ gen' = [gen EXCEPT ![c] = None]
    /\ done' = done \cup ({gen[c].by} \cap Request)
    /\ unheld' = unheld \ {gen[c].by}
    /\ UNCHANGED <<page, transcript, script, quiet, jobs, result>>

\* own generations whose Stop control has not appeared yet
Starting(r) == \E c \in Chat : gen[c] # None /\ gen[c].by = r /\ ~gen[c].shown

----------------------------------------------------------------------------
(* SEND (sendWithProfileTracking, submitPrompt)                               *)

Ask(r) ==
    /\ send[r].at = "idle"
    /\ fresh = None /\ \A q \in 1..(r - 1) : Over(q)   \* one at a time
    /\ send' = [send EXCEPT ![r] = [NoSend EXCEPT !.at = "asked", !.conv = route, !.rev = rev]]
    /\ UNCHANGED <<page, site, script, quiet, stop, reuse, fresh, result>>

\* the verdict is in: the request becomes the only one this script accepts
AdmitSend(r) ==
    /\ send[r].at = "asked"
    /\ ~Uncertain(send[r].conv) /\ active = None /\ accepting = {}
    /\ RequestMatches(r) /\ r \notin cancelled
    /\ accepting' = {r}
    /\ send' = [send EXCEPT ![r].at = "accepted"]
    /\ UNCHANGED <<page, site, cancelled, active, pending, quiet, stop, reuse, fresh, result>>

\* quarantined, unavailable, busy, moved on or cancelled
RefuseSend(r) ==
    /\ send[r].at = "asked"
    /\ \/ Uncertain(send[r].conv) /\ UNCHANGED <<cancelled, events>>
       \/ Event /\ UNCHANGED cancelled
       \/ /\ ~RequestMatches(r) \/ r \in cancelled
          /\ cancelled' = cancelled \ {r} /\ UNCHANGED events
    /\ End(r)
    /\ UNCHANGED <<page, site, accepting, active, pending, unack, auth, stop, reuse, fresh,
                   result>>

\* the job ends: the finally blocks forget the request
Released(r) ==
    /\ accepting' = accepting \ {r}
    /\ cancelled' = cancelled \ {r}
    /\ active' = IF IsActive(r) THEN None ELSE active

\* an error before the click: the composer is emptied, nothing is quarantined
FailUnsent(r) ==
    /\ send[r].at \in {"accepted", "typed"}
    /\ End(r)
    /\ Released(r)
    /\ UNCHANGED <<page, site, pending, quiet, stop, reuse, fresh, result>>

Interrupted(r) == r \in cancelled \/ (IsActive(r) /\ active.aborted)

\* the profile is resolved, the page is idle, and the prompt goes into the composer
TypePrompt(r) ==
    /\ send[r].at = "accepted"
    /\ ~Interrupted(r) /\ RequestMatches(r) /\ active = None /\ ~Generating
    /\ active' = [id |-> r, conv |-> send[r].conv, names |-> {send[r].conv}, rev |-> rev,
                  submitted |-> FALSE, aborted |-> FALSE, idle |-> FALSE,
                  saw |-> FALSE, ended |-> FALSE, strayed |-> FALSE]
    /\ send' = [send EXCEPT ![r].at = "typed"]
    /\ UNCHANGED <<page, site, accepting, cancelled, pending, quiet, stop, reuse, fresh,
                   result>>

\* the composer took the prompt and Send is active: everything is asked again,
\* the conversation is quarantined, and Send is clicked
Submit(r) ==
    /\ send[r].at = "typed"
    /\ ~Interrupted(r) /\ RequestMatches(r)
    /\ active' = [active EXCEPT !.submitted = TRUE]
    /\ SetCalls({active.conv})
    /\ transcript' = [transcript EXCEPT ![route] = Append(@, r)]
    /\ gen' = [gen EXCEPT ![route] = [by |-> r, shown |-> FALSE]]
    /\ send' = [send EXCEPT ![r].at = "capturing"]
    /\ UNCHANGED <<page, done, unheld, accepting, cancelled, pending, stop, reuse, fresh, result>>

\* learnTransientStopBinding beside the capture: an active Stop control on
\* whatever page this is counts as the generation of this turn
Saw(r) == [active EXCEPT !.saw = TRUE, !.strayed = @ \/ ~HoldsNonce(r)]

LearnStop(r) ==
    /\ send[r].at = "capturing" /\ IsActive(r) /\ ~active.aborted
    /\ Generating /\ ~active.saw
    /\ active' = Saw(r)
    /\ UNCHANGED <<page, site, accepting, cancelled, pending, quiet, jobs, result>>

\* observeGeneration, only while the prompt is on the page
Observe(r) ==
    /\ send[r].at = "capturing" /\ IsActive(r) /\ ~active.aborted
    /\ HoldsNonce(r)
    /\ active' = IF Generating THEN [active EXCEPT !.saw = TRUE, !.ended = FALSE]
                 ELSE [active EXCEPT !.ended = @ \/ active.saw]
    /\ active' # active
    /\ UNCHANGED <<page, site, accepting, cancelled, pending, quiet, jobs, result>>

\* captureGenericResponse accepts: in one synchronous run the prompt is on the
\* page, no other turn follows it, the generation was seen and has ended, and
\* the page is recorded
AcceptAnswer(r) ==
    /\ send[r].at = "capturing" /\ IsActive(r) /\ ~active.aborted
    /\ HoldsNonce(r) /\ ~LaterUserTurn(r)
    /\ Completed
    /\ send' = [send EXCEPT ![r].at = "attested", ![r].att = [conv |-> route, rev |-> rev]]
    /\ UNCHANGED <<page, site, script, quiet, stop, reuse, fresh, result>>

\* An error after the click.  Binding faults are healed once and captured again;
\* an interrupted, unattributable, lost or late answer never is.
FailSubmitted(r, ids) ==
    /\ End(r)
    /\ SetCalls({send[r].conv, route} \cup ids)
    /\ Released(r)

HealAndCaptureAgain(r) ==
    /\ ~active.aborted /\ ~send[r].healed
    /\ send' = [send EXCEPT ![r].at = "capturing", ![r].att = None, ![r].healed = TRUE]
    /\ UNCHANGED <<accepting, cancelled, active, quiet>>

\* interrupted; the prompt is gone from the page for ten seconds; the deadline.
\* Assumed: a Stop control appears within both spans.
CaptureEnds(r) ==
    /\ send[r].at \in {"capturing", "registering"}
    /\ active.aborted \/ ~Starting(r)
    /\ FailSubmitted(r, {})
    /\ UNCHANGED <<page, site, pending, stop, reuse, fresh, result>>

\* another user turn, a prompt that never showed up, an answer whose generation
\* nobody saw, or a page that could not be registered
CaptureFaults(r) ==
    /\ \/ send[r].at = "registering"
       \/ /\ send[r].at = "capturing"
          /\ LaterUserTurn(r) \/ ~HoldsNonce(r) \/ Unobserved(r)
    /\ ~Starting(r)
    /\ HealAndCaptureAgain(r)
    /\ UNCHANGED <<page, site, pending, stop, reuse, fresh, result>>

\* finalizeResponse up to its first await: the answer's page is still the page,
\* and the provider is known to be idle or the answer was selected by hand
Finalize(r) ==
    /\ send[r].at = "attested"
    /\ ~AttestationBroken(r)
    /\ LET idle == active.idle \/ Completed IN
       /\ active' = [active EXCEPT !.idle = idle]
       /\ \/ /\ idle \/ send[r].manual
             /\ send' = [send EXCEPT ![r].at = IF idle THEN "recording" ELSE "registering",
                                         ![r].idle = idle]
             /\ UNCHANGED <<accepting, cancelled, quiet>>
          \/ /\ ~idle /\ ~send[r].manual /\ ~active.aborted /\ ~send[r].healed
             /\ send' = [send EXCEPT ![r].at = "capturing", ![r].att = None, ![r].healed = TRUE]
             /\ UNCHANGED <<accepting, cancelled, quiet>>
    /\ UNCHANGED <<page, site, pending, stop, reuse, fresh, result>>

\* the same error with no healing left
FinalizeFails(r) ==
    /\ send[r].at = "attested"
    /\ ~active.idle /\ ~Completed /\ ~send[r].manual
    /\ FailSubmitted(r, {})
    /\ UNCHANGED <<page, site, pending, stop, reuse, fresh, result>>

\* the lifecycle evidence is saved
LifecycleRecorded(r) ==
    /\ send[r].at = "recording" /\ ~AttestationBroken(r)
    /\ send' = [send EXCEPT ![r].at = "registering"]
    /\ UNCHANGED <<page, site, script, quiet, stop, reuse, fresh, result>>

\* mutant: the page is not asked again after the registration
AnswerRegisteredUnasked(r) ==
    /\ send[r].at = "registering"
    /\ IF send[r].idle
       THEN /\ pending' = [id |-> r, conv |-> route, rev |-> rev,
                           names |-> active.names \cup {send[r].conv, route},
                           strayed |-> active.strayed]
            /\ UNCHANGED quiet
       ELSE pending' = None /\ SetCalls({send[r].conv, route})
    /\ send' = [send EXCEPT ![r] = [NoSend EXCEPT !.at = "marking", !.att = send[r].att]]
    /\ active' = None
    /\ UNCHANGED <<page, site, accepting, cancelled, stop, reuse, fresh, result>>

\* registerCurrentDocument was answered about the attested page: the answer is
\* returned, with a reuse attestation when the provider is known to be idle
AnswerRegistered(r) ==
    /\ send[r].at = "registering" /\ ~AttestationBroken(r)
    /\ IF send[r].idle
       THEN /\ pending' = [id |-> r, conv |-> route, rev |-> rev,
                           names |-> active.names \cup {send[r].conv, route},
                           strayed |-> active.strayed]
            /\ UNCHANGED quiet
       ELSE pending' = None /\ SetCalls({send[r].conv, route})
    /\ send' = [send EXCEPT ![r] = [NoSend EXCEPT !.at = "marking", !.att = send[r].att]]
    /\ active' = None
    /\ UNCHANGED <<page, site, accepting, cancelled, stop, reuse, fresh, result>>

\* refuseUnattributableAnswer: every conversation it could belong to is held
RefuseAnswer(r) ==
    /\ send[r].at \in {"attested", "recording", "registering"}
    /\ AttestationBroken(r)
    /\ pending' = None
    /\ FailSubmitted(r, {send[r].att.conv})
    /\ UNCHANGED <<page, site, stop, reuse, fresh, result>>

\* the binding's success is saved and the background has its answer; a save that
\* another writer of the binding forestalled fails the request instead
Answered(r) ==
    /\ send[r].at = "marking"
    /\ \/ /\ End(r)
          /\ result' = [id |-> r, conv |-> send[r].att.conv, rev |-> send[r].att.rev]
       \/ End(r) /\ UNCHANGED result
    /\ Released(r)
    /\ UNCHANGED <<page, site, pending, quiet, stop, reuse, fresh>>

\* rememberCancellation's timer; assumed longer than a wait for a verdict
ForgetCancellation(r) ==
    /\ r \in cancelled /\ r \notin accepting /\ ~IsActive(r) /\ send[r].at # "asked"
    /\ cancelled' = cancelled \ {r}
    /\ UNCHANGED <<page, site, accepting, active, pending, quiet, jobs, result>>

----------------------------------------------------------------------------
(* CANCEL and the selected answer: both may press the page's Stop control     *)

Kind == {"cancel", "select"}

At(to) == stop' = [stop EXCEPT !.at = to]
StopOver == stop' = NoStop

\* a request that is not submitted is only remembered (and aborted)
CancelUnsent(r) ==
    /\ Busy(r) /\ ~send[r].prevented
    /\ ~(IsActive(r) /\ active.submitted)
    /\ cancelled' = cancelled \cup {r}
    /\ active' = IF IsActive(r) THEN [active EXCEPT !.aborted = TRUE] ELSE active
    /\ send' = [send EXCEPT ![r].prevented = TRUE]
    /\ UNCHANGED <<page, site, accepting, pending, quiet, stop, reuse, fresh, result>>

\* the job is refused: the turn's conversation and the page's are quarantined
Refuse ==
    LET ids == {stop.conv, route} IN
    /\ SetCalls(ids)
    /\ active' = Named(active, ids)
    /\ StopOver

StartStop(k, r) ==
    /\ stop = NoStop /\ IsActive(r)
    /\ IF k = "cancel" THEN active.submitted ELSE TRUE
    /\ IF OwnershipLost(r, FALSE)
       THEN SetCalls({active.conv, route}) /\ active' = Named(active, {active.conv, route})
            /\ UNCHANGED stop
       ELSE stop' = [at |-> "profile", id |-> r, kind |-> k, conv |-> active.conv,
                     shown |-> IF k = "select" THEN route ELSE None]
            /\ UNCHANGED <<active, quiet>>
    /\ UNCHANGED <<page, site, accepting, cancelled, pending, send, reuse, fresh, result>>

\* ownershipRefusal, assertSelectionOwner: after each await the turn has to be
\* asked for again, and a selection also by the page it was made on
StopDisowned == \/ OwnershipLost(stop.id, TRUE)
                \/ stop.kind = "select" /\ route # stop.shown

StopOwns(at) == stop.at = at /\ ~StopDisowned

StopRefused ==
    /\ stop.at # "idle"
    /\ StopDisowned
    /\ Refuse
    /\ UNCHANGED <<page, site, accepting, cancelled, pending, send, reuse, fresh, result>>


ProfileForStop ==
    /\ StopOwns("profile")
    /\ At("learning")
    /\ UNCHANGED <<page, site, script, quiet, send, reuse, fresh, result>>

\* up to three seconds for a Stop control, on whatever page this is
StopLearned ==
    /\ stop.at = "learning"
    /\ Generating /\ IsActive(stop.id)
    /\ active' = Saw(stop.id)
    /\ At("learned")
    /\ UNCHANGED <<page, site, accepting, cancelled, pending, quiet, send, reuse, fresh,
                   result>>

\* the manual answer is handed to the capture's race
ResolveManual(r, idle) ==
    /\ active' = [active EXCEPT !.idle = idle, !.aborted = TRUE]
    /\ send' = IF send[r].at # "capturing" THEN send
               ELSE [send EXCEPT ![r].at = "attested", ![r].manual = TRUE,
                                 ![r].att = [conv |-> route, rev |-> rev]]
    /\ StopOver

\* Was the generation seen to end?  Then only the evidence is saved.  Else a
\* Stop control that is there is about to be pressed, and one that is not there
\* leaves a cancel unproven and a selected answer without a reuse attestation.
DecideStop ==
    /\ StopOwns("learned") \/ (StopOwns("learning") /\ ~Generating)
    /\ LET r == stop.id IN
       \/ /\ Completed
          /\ active' = [active EXCEPT !.idle = TRUE]
          /\ At("recording")
          /\ UNCHANGED <<quiet, send>>
       \/ /\ Generating
          /\ At("observing")
          /\ UNCHANGED <<active, quiet, send>>
       \/ /\ ~Generating /\ ~(active.saw /\ active.ended)
          /\ IF stop.kind = "cancel" THEN Refuse /\ UNCHANGED send
             ELSE SetCalls({active.conv, route}) /\ ResolveManual(r, FALSE)
    /\ UNCHANGED <<page, site, accepting, cancelled, pending, reuse, fresh, result>>

\* the control was recorded; Stop is pressed (the site ends the generation, or not)
PressStop ==
    /\ StopOwns("observing")
    /\ At("idling")
    /\ UNCHANGED <<page, site, script, quiet, send, reuse, fresh, result>>

\* mutant: a quiet page of another conversation confirms the wait
ProviderIdleAnywhere ==
    /\ stop.at = "idling" /\ IsActive(stop.id) /\ ~Generating
    /\ active' = [active EXCEPT !.saw = TRUE, !.ended = TRUE, !.idle = TRUE]
    /\ At("recording")
    /\ UNCHANGED <<page, site, accepting, cancelled, pending, quiet, send, reuse, fresh,
                   result>>

\* waitForProviderIdle
ProviderIdle ==
    /\ StopOwns("idling") /\ ~Generating
    /\ active' = [active EXCEPT !.saw = TRUE, !.ended = TRUE, !.idle = TRUE]
    /\ At("recording")
    /\ UNCHANGED <<page, site, accepting, cancelled, pending, quiet, send, reuse, fresh,
                   result>>

ProviderStaysBusy ==
    /\ StopOwns("idling")
    /\ IF stop.kind = "cancel" THEN Refuse /\ UNCHANGED send
       ELSE SetCalls({active.conv, route}) /\ ResolveManual(stop.id, FALSE)
    /\ UNCHANGED <<page, site, accepting, cancelled, pending, reuse, fresh, result>>

SelectedRecorded ==
    /\ stop.kind = "select" /\ StopOwns("recording")
    /\ ResolveManual(stop.id, TRUE)
    /\ UNCHANGED <<page, site, accepting, cancelled, pending, quiet, reuse, fresh, result>>

CancelRecorded ==
    /\ stop.kind = "cancel" /\ StopOwns("recording")
    /\ At("registering")
    /\ UNCHANGED <<page, site, script, quiet, send, reuse, fresh, result>>

\* the interruption is confirmed: the page it names can be confirmed for reuse
StopConfirmed ==
    /\ StopOwns("registering")
    /\ LET r == stop.id IN
       /\ pending' = [id |-> r, conv |-> route, rev |-> rev,
                      names |-> active.names \cup {active.conv, route},
                      strayed |-> active.strayed]
       /\ cancelled' = cancelled \cup {r}
       /\ active' = [active EXCEPT !.aborted = TRUE]
       /\ result' = [id |-> r, conv |-> route, rev |-> rev]
    /\ StopOver
    /\ UNCHANGED <<page, site, accepting, quiet, send, reuse, fresh>>

\* resolving the profile or registering the page failed
StopFails ==
    /\ stop.at \in {"profile", "registering"}
    /\ StopOver
    /\ UNCHANGED <<page, site, script, quiet, send, reuse, fresh, result>>

----------------------------------------------------------------------------
(* CONFIRM_REUSE: the attestation is current, and the page stays so and idle  *)

ConfirmReuse ==
    /\ result # None /\ reuse = None /\ active = None
    /\ result' = None
    /\ IF pending # None /\ SentTo(result) /\ pending.id = result.id
          /\ pending.conv = result.conv /\ pending.rev = result.rev
       THEN reuse' = pending /\ UNCHANGED pending
       ELSE pending' = None /\ UNCHANGED reuse
    /\ UNCHANGED <<page, site, accepting, cancelled, active, quiet, send, stop, fresh>>

ReuseConfirmed ==
    /\ reuse # None
    /\ pending = reuse /\ SentTo(reuse) /\ ~Generating
    /\ Clear(reuse.names \cup {route})
    /\ unheld' = IF reuse.strayed THEN unheld \cup AnsweredIn(reuse.names \cup {route}) ELSE unheld
    /\ pending' = None /\ reuse' = None
    /\ UNCHANGED <<page, transcript, gen, done, accepting, cancelled, active, send, stop, fresh, result>>

ReuseRefused ==
    /\ reuse # None
    /\ pending' = None /\ reuse' = None
    /\ UNCHANGED <<page, site, accepting, cancelled, active, quiet, send, stop, fresh, result>>

----------------------------------------------------------------------------
(* NEW_CONVERSATION (startFreshConversation), sent while no prompt is out, as  *)
(* often as the background likes; bound: while there is a prompt to follow     *)

Empty == transcript[route] = <<>>

FreshJob(at) == [at |-> at, from |-> route, rev |-> rev, full |-> ~Empty]

StartFresh ==
    /\ fresh = None /\ active = None /\ accepting = {}
    /\ \A r \in Request : ~Busy(r)
    /\ \E r \in Request : ~Over(r)
    /\ fresh' = FreshJob("profile")
    /\ UNCHANGED <<page, site, script, quiet, send, stop, reuse, result>>

\* an empty page is asked about, any other is left through the control
BeginFresh ==
    /\ fresh # None /\ fresh.at = "profile" /\ ~Generating
    /\ IF Empty
       THEN fresh' = FreshJob("asked") ELSE fresh' = FreshJob("click")
    /\ UNCHANGED <<page, site, script, quiet, send, stop, reuse, result>>

FreshVerdict ==
    /\ fresh # None /\ fresh.at = "asked"
    /\ \/ fresh' = [fresh EXCEPT !.at = IF Uncertain(fresh.from) THEN "click" ELSE "emptying"]
          /\ UNCHANGED events
       \/ Event /\ fresh' = [fresh EXCEPT !.at = "click"]
    /\ UNCHANGED <<page, site, script, unack, auth, send, stop, reuse, result>>

PressNewConversation ==
    /\ fresh # None /\ fresh.at = "click"
    /\ transcript[Start] = <<>>
    /\ route' = Start
    /\ fresh' = [fresh EXCEPT !.at = "watching"]
    /\ UNCHANGED <<lastUrl, rev, site, script, quiet, send, stop, reuse, result>>

\* stableEmptyConversation: five seconds of an empty, idle page
FreshEmptied ==
    /\ fresh # None /\ fresh.at = "emptying"
    /\ ~Generating /\ Empty
    /\ fresh' = [fresh EXCEPT !.at = "registering"]
    /\ UNCHANGED <<page, site, script, quiet, send, stop, reuse, result>>

\* genericFreshnessObserved: the turns that were there are gone, or an empty page
\* was left for another empty one
FreshnessObserved ==
    /\ Empty
    /\ fresh.full \/ route # fresh.from \/ rev # fresh.rev

FreshObserved ==
    /\ fresh # None /\ fresh.at = "watching"
    /\ ~Generating /\ FreshnessObserved
    /\ fresh' = [fresh EXCEPT !.at = "registering"]
    /\ UNCHANGED <<page, site, script, quiet, send, stop, reuse, result>>

\* registerCurrentDocument takes the page as it is at its first try or at a later
\* one, empty or not, and that conversation is cleared.
FreshRegistered ==
    /\ fresh # None /\ fresh.at = "registering"
    /\ pending' = None
    /\ Clear({route})
    /\ unheld' = unheld \cup AnsweredIn({route})
    /\ fresh' = None
    /\ UNCHANGED <<page, transcript, gen, done, accepting, cancelled, active, send, stop, reuse, result>>

FreshFails ==
    /\ fresh # None
    /\ fresh' = None
    /\ UNCHANGED <<page, site, script, quiet, send, stop, reuse, result>>

----------------------------------------------------------------------------
SendStep(r) ==
    \/ AdmitSend(r) \/ RefuseSend(r) \/ FailUnsent(r) \/ TypePrompt(r) \/ Submit(r) \/ AcceptAnswer(r) \/ CaptureEnds(r)
    \/ CaptureFaults(r) \/ Finalize(r) \/ FinalizeFails(r) \/ LifecycleRecorded(r)
    \/ AnswerRegistered(r) \/ RefuseAnswer(r) \/ Answered(r)

StopStep ==
    \/ StopRefused \/ ProfileForStop \/ StopLearned \/ DecideStop
    \/ PressStop \/ ProviderIdle \/ ProviderStaysBusy \/ StopFails

Environment ==
    \/ \E c \in Chat : MoveSilently(c) \/ Rename(c) \/ MoveHeard(c) \/ EndGeneration(c)
    \/ ReplaceBody \/ PersonPrompts \/ Reload

Next ==
    \/ Environment
    \/ \E c \in Chat : ShowStop(c)
    \/ \E r \in Request : Ask(r) \/ SendStep(r) \/ LearnStop(r) \/ Observe(r)
                          \/ CancelUnsent(r) \/ ForgetCancellation(r)
    \/ \E k \in Kind, r \in Request : StartStop(k, r)
    \/ StopStep
    \/ SelectedRecorded \/ CancelRecorded \/ StopConfirmed
    \/ ConfirmReuse \/ ReuseConfirmed \/ ReuseRefused
    \/ StartFresh \/ BeginFresh \/ FreshVerdict \/ PressNewConversation \/ FreshEmptied
    \/ FreshObserved \/ FreshRegistered \/ FreshFails

Spec == Init /\ [][Next]_vars

----------------------------------------------------------------------------
(* Properties                                                                 *)

\* An answer goes back while the page it was taken from is still the page, and one
\* the script accepted by itself belongs to the prompt in that conversation and is
\* whole: its generation has ended.  finalizeResponse asks again after every await because a
\* pushState crosses each of them unseen.  (A turn whose generation was "seen" in
\* another conversation is excepted: see StopIsReal.)
AnswersAreOwn ==
    [][\A r \in Request : (send[r].at = "registering" /\ send'[r].at = "marking") =>
          /\ SentTo(send[r].att)
          /\ send[r].manual \/ (HoldsNonce(r) /\ (active.strayed \/ r \in done))]_vars

Submits(r) == send[r].at = "typed" /\ send'[r].at = "capturing"

\* A prompt never enters a conversation in which an earlier prompt of the bridge
\* is still being answered: while the Stop control is not there yet, only the
\* quarantine and its acknowledgements stand in the way.  (Except a conversation
\* nobody holds: the page came back to it while a fresh one was registered, and the
\* clean-up for the fresh one was its own; or the turn was confirmed idle by what
\* was seen elsewhere; or the page left it before its new address was known.)
NoSecondPrompt ==
    [][\A r \in Request : Submits(r) =>
          gen[route] = None \/ gen[route].by \notin Request \ unheld]_vars

\* A Stop reported as confirmed ended the generation of that very turn, and a
\* request reported as kept from submission is never clicked in later.
StopIsReal ==
    [][\A r \in Request :
          /\ (result' # result /\ result' # None /\ result'.id = r /\ send[r].at # "marking") =>
                r \in done \/ active.strayed
          /\ Submits(r) => ~send[r].prevented]_vars

=============================================================================
