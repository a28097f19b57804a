------------------------------ MODULE Requests ------------------------------
(***************************************************************************)
(* The life of a conversation request in the service worker                *)
(* (src/src/background/index.ts) and in the page that carries it out       *)
(* (content/chatgpt.ts, claude.ts, providerLogic.ts, generic/index.ts).    *)
(*                                                                         *)
(* The VS Code side sends conversation.send and conversation.interrupt     *)
(* frames over one WebSocket.  The worker serialises them, except that a   *)
(* Stop for a running request jumps the queue.  Every handler awaits       *)
(* several times (the tab, the page, storage), and each await is a place   *)
(* where another handler, a closed socket, a popup click or a navigation   *)
(* runs.  A handler here is therefore one action per await.                *)
(*                                                                         *)
(* A Send is one delivery of a conversation.send frame, a Stop one         *)
(* delivery of a conversation.interrupt frame, an Id the requestId they    *)
(* carry.  A Session is one document in one tab showing one conversation.  *)
(***************************************************************************)
EXTENDS Naturals, Sequences, FiniteSets

CONSTANTS
    Send,        \* deliveries of conversation.send
    Stop,        \* deliveries of conversation.interrupt
    Id,          \* request ids
    Session,     \* documents a request can be addressed to
    idOf,        \* [Send -> Id]
    sessionOf,   \* [Send -> Session]
    Generic,     \* the sessions bound to a generic website; the rest are ChatGPT or Claude
    MaxConns,    \* how many times the WebSocket opens
    MaxPopups,   \* how many times the person clicks Disconnect
    None

ASSUME SendAssumption ==
    /\ idOf \in [Send -> Id]
    /\ sessionOf \in [Send -> Session]
    /\ Generic \subseteq Session
    /\ Send \cap Stop = {}
    /\ None \notin Send \cup Stop \cup Id

ASSUME BoundAssumption == MaxConns \in Nat /\ MaxPopups \in Nat

VARIABLES
    (* the WebSocket and the serialised message queue of the current one *)
    conn,        \* which connection is current; 0 while there is no socket
    conns,       \* connections opened so far
    queue,       \* frames waiting in serverMessageQueue
    serving,     \* the frame whose handler the queue is waiting for
    (* requestOrdering.ts *)
    queuedSendIds, pendingInterrupts,
    held,        \* sends whose answer retainCompletion keeps
    (* the two registries *)
    active,      \* activeRequests: the sends registered under their ids
    bySession,   \* activeRequestBySession
    (* handlers between two awaits *)
    pc,          \* where the handler of each send is
    committed,   \* request.submissionCommitted
    stop,        \* where the handler of each Stop is
    report,      \* the content.response or content.error being handled
    popup,       \* popup.disconnect waiting for the pages to answer
    popups,
    (* the page *)
    page,        \* what the content script is doing with each send
    reply,       \* its answer to the dispatched prompt, not yet received
    cancelled,   \* cancelledRequests / cancelledRequestIds
    recall,      \* cancellations sent by stopActiveRequests, on their way
    running,     \* sends the provider is generating an answer for
    gone,        \* sessions whose document was replaced
    changed,     \* ... and whose tab event has yet to reach the worker
    dropped,     \* ... and whose binding the worker has deleted
    (* what was sent and done, for the properties *)
    connOf,      \* the connection each send arrived on
    frames,      \* terminal frames sent for each registered send
    clicked      \* sends whose prompt was submitted to the provider

link     == <<conn, conns, queue, serving>>
ordering == <<queuedSendIds, pendingInterrupts, held>>
registry == <<active, bySession>>
doc      == <<gone, changed, dropped>>
content  == <<page, reply, cancelled, running, clicked>>
vars == <<link, ordering, registry, pc, committed, stop, report, popup, popups,
          content, recall, doc, connOf, frames>>

-----------------------------------------------------------------------------
(* States of a handler, a page and a report. *)

HandlerPC == {"unsent", "queued", "verify", "submit", "status", "send", "held", "finalize", "done"}
PageState == {"none", "accepted", "generating", "unverified", "reporting", "over"}
Reply     == {"none", "submitted", "refused", "answer", "failed", "rejected"}
Report    == {"none", "response", "error", "saving"}
StopPC    == {"unused", "queued", "asked", "settling", "done"}
Answer    == {"none", "confirmed", "prevented", "refused"}
Kind      == {"interrupted", "response", "error"}

IsGeneric(s) == sessionOf[s] \in Generic

\* What a page remembers of a cancelled request.
Mark(s) == <<sessionOf[s], idOf[s]>>

(* The turns a content script holds as its activeRequest. *)
OnPage == {"accepted", "generating", "unverified", "reporting"}

PageBusyWithAnother(s) ==
    \E t \in Send \ {s} : sessionOf[t] = sessionOf[s] /\ page[t] \in OnPage

-----------------------------------------------------------------------------
(* The registries. *)

\* What activeRequests.get(id) finds.
Holder(id) == {t \in active : idOf[t] = id}
Has(id)    == Holder(id) # {}
Target(id) == CHOOSE t \in Holder(id) : TRUE

\* removeActiveRequest for every member of S.
Remove(S) ==
    /\ active' = active \ S
    /\ bySession' = [c \in Session |->
          IF \E t \in S : sessionOf[t] = c /\ bySession[c] = idOf[t]
          THEN None ELSE bySession[c]]

\* Terminal frames of the given kind about the sends in S; without a socket nothing is sent.
Tell(S, kind) ==
    frames' = [s \in Send |->
        IF s \in S /\ conn # 0
        THEN Append(frames[s], [kind |-> kind, conn |-> conn]) ELSE frames[s]]

\* A handler that returns lets the queue go on.
Release(h) == serving' = IF serving = h THEN None ELSE serving

\* takeCompletion
Completion(id) == {t \in held : idOf[t] = id}

\* mutant: the answer is given whether or not the turn is still registered.
AcknowledgeAlways(s) ==
    held' = held \ Completion(idOf[s]) /\ Remove(Holder(idOf[s])) /\ Tell({s}, "interrupted")

\* mutant: the turn stays registered.
AcknowledgeKeepsTurn(s) ==
    /\ held' = held \ Completion(idOf[s])
    /\ IF Has(idOf[s]) THEN Tell({s}, "interrupted") ELSE UNCHANGED frames
    /\ UNCHANGED registry

\* acknowledgeInterrupted(request, true): the flag stays for the queued Stop to consume.
AcknowledgeInterrupted(s) ==
    /\ held' = held \ Completion(idOf[s])
    /\ Remove(Holder(idOf[s]))
    /\ IF Has(idOf[s]) THEN Tell({s}, "interrupted") ELSE UNCHANGED frames

\* The catch of the send handler, once the request is registered.
SendFailed(s) ==
    IF idOf[s] \in pendingInterrupts
    THEN AcknowledgeInterrupted(s)
    ELSE /\ Remove(Holder(idOf[s]))
         /\ IF Has(idOf[s]) THEN Tell({s}, "error") ELSE UNCHANGED frames
         /\ UNCHANGED held

\* mutant: the failure is told, the turn stays registered.
FailKeepsTurn(s, pending) == Tell({s}, "error") /\ UNCHANGED registry

\* failGenericTurn: a failure under a pending Stop is left to the Stop.
FailGenericTurn(s, pending) ==
    IF Has(idOf[s]) /\ idOf[s] \notin pending
    THEN Remove(Holder(idOf[s])) /\ Tell({s}, "error")
    ELSE UNCHANGED <<registry, frames>>

-----------------------------------------------------------------------------
Init ==
    /\ conn = 0 /\ conns = 0 /\ queue = <<>> /\ serving = None
    /\ queuedSendIds = {} /\ pendingInterrupts = {} /\ held = {}
    /\ active = {} /\ bySession = [c \in Session |-> None]
    /\ pc = [s \in Send |-> "unsent"] /\ committed = {}
    /\ stop = [x \in Stop |-> [pc |-> "unused", id |-> None, matches |-> FALSE,
                               target |-> None, answer |-> "none"]]
    /\ report = [s \in Send |-> [pc |-> "none", found |-> FALSE]]
    /\ popup = FALSE /\ popups = 0
    /\ page = [s \in Send |-> "none"] /\ reply = [s \in Send |-> "none"]
    /\ cancelled = {} /\ recall = [s \in Send |-> "none"] /\ running = {}
    /\ gone = {} /\ changed = {} /\ dropped = {}
    /\ connOf = [s \in Send |-> 0] /\ frames = [s \in Send |-> <<>>] /\ clicked = {}

-----------------------------------------------------------------------------
(* Frames arriving on the socket. *)

SendArrives(s) ==
    /\ conn # 0 /\ pc[s] = "unsent"
    /\ pc' = [pc EXCEPT ![s] = "queued"]
    /\ connOf' = [connOf EXCEPT ![s] = conn]
    /\ queue' = Append(queue, s)
    /\ queuedSendIds' = queuedSendIds \cup {idOf[s]}
    /\ UNCHANGED <<conn, conns, serving, pendingInterrupts, held, registry, committed, stop,
                   report, popup, popups, content, recall, doc, frames>>

\* A Stop for a request that is running is handled at once; any other waits its turn.
StopArrives(x, id, matches) ==
    /\ conn # 0 /\ stop[x].pc = "unused"
    /\ LET direct == matches /\ Has(id) IN
       /\ pendingInterrupts' = IF direct \/ id \in queuedSendIds
                               THEN pendingInterrupts \cup {id} ELSE pendingInterrupts
       /\ stop' = [stop EXCEPT ![x] =
             [pc |-> IF direct THEN "asked" ELSE "queued", id |-> id, matches |-> matches,
              target |-> IF direct THEN Target(id) ELSE None,
              answer |-> "none"]]
       /\ queue' = IF direct THEN queue ELSE Append(queue, x)
    /\ UNCHANGED <<conn, conns, serving, queuedSendIds, held, registry, pc, committed, report,
                   popup, popups, content, recall, doc, connOf, frames>>

-----------------------------------------------------------------------------
(* The conversation.send handler. *)

AtHead(h) == serving = None /\ queue # <<>> /\ Head(queue) = h

\* mutant: only the id is looked up.
BusyId(s) == Has(idOf[s])

\* The id or the session already has a turn.
Busy(s) == Has(idOf[s]) \/ bySession[sessionOf[s]] # None

\* The refusal answers for itself and forgets nothing.
Refuse(s) == pc' = [pc EXCEPT ![s] = "done"] /\ UNCHANGED <<serving, registry, held, frames>>

\* Up to the first await: register, or refuse a second request for a busy id or session.
SendBegin(s) ==
    /\ AtHead(s)
    /\ queue' = Tail(queue)
    /\ queuedSendIds' = queuedSendIds \ {idOf[s]}
    /\ \/ Busy(s) /\ Refuse(s)
       \/ /\ ~Busy(s)
          /\ IF idOf[s] \in pendingInterrupts
             THEN /\ pc' = [pc EXCEPT ![s] = "done"]
                  /\ held' = held \ Completion(idOf[s])
                  /\ Tell({s}, "interrupted")
                  /\ UNCHANGED <<serving, registry>>
             ELSE /\ pc' = [pc EXCEPT ![s] = "verify"]
                  /\ serving' = s
                  /\ active' = active \cup {s}
                  /\ bySession' = [bySession EXCEPT ![sessionOf[s]] = idOf[s]]
                  /\ UNCHANGED <<held, frames>>
    /\ UNCHANGED <<conn, conns, pendingInterrupts, committed, stop, report, popup, popups,
                   content, recall, doc, connOf>>

\* exactSession and chrome.tabs.get answered; ok says both still name the session.
SendVerified(s, ok) ==
    /\ pc[s] = "verify"
    /\ ok => sessionOf[s] \notin dropped
    /\ IF ~ok
       THEN /\ pc' = [pc EXCEPT ![s] = "done"]
            /\ Release(s)
            /\ SendFailed(s)
       ELSE IF idOf[s] \in pendingInterrupts
       THEN /\ pc' = [pc EXCEPT ![s] = "done"]
            /\ Release(s)
            /\ AcknowledgeInterrupted(s)
       ELSE /\ pc' = [pc EXCEPT ![s] = IF ~IsGeneric(s) THEN "submit"
                                       ELSE IF Has(idOf[s]) THEN "status" ELSE "done"]
            /\ IF IsGeneric(s) THEN Release(s) ELSE UNCHANGED serving
            /\ UNCHANGED <<registry, held, frames>>
    /\ UNCHANGED <<conn, conns, queue, queuedSendIds, pendingInterrupts, committed, stop, report,
                   popup, popups, content, recall, doc, connOf>>

\* The page of a ChatGPT or Claude session answered the prompt it was sent.
NativeReturns(s) ==
    /\ pc[s] = "submit" /\ reply[s] # "none"
    /\ pc' = [pc EXCEPT ![s] = "done"]
    /\ reply' = [reply EXCEPT ![s] = "none"]
    /\ Release(s)
    /\ \/ /\ reply[s] = "rejected" \/ (reply[s] = "refused" /\ Has(idOf[s]))
          /\ SendFailed(s)
          /\ UNCHANGED committed
       \/ /\ reply[s] = "submitted" /\ Has(idOf[s])
          /\ committed' = committed \cup {s}
          /\ UNCHANGED <<registry, held, frames>>
       \/ /\ reply[s] # "rejected" /\ ~Has(idOf[s])
          /\ UNCHANGED <<committed, registry, held, frames>>
    /\ UNCHANGED <<conn, conns, queue, queuedSendIds, pendingInterrupts, stop, report, popup,
                   popups, page, cancelled, running, clicked, recall, doc, connOf>>

-----------------------------------------------------------------------------
(* runGenericConversation. *)

\* genericStatus answered; ok says it answered and still names the session.
GenericStatus(s, ok) ==
    /\ pc[s] = "status"
    /\ IF ~Has(idOf[s])
       THEN /\ pc' = [pc EXCEPT ![s] = "done"]
            /\ UNCHANGED <<registry, held, frames>>
       ELSE IF ok /\ idOf[s] \in pendingInterrupts
       THEN /\ pc' = [pc EXCEPT ![s] = "done"]
            /\ AcknowledgeInterrupted(s)
       ELSE IF ok
       THEN /\ pc' = [pc EXCEPT ![s] = "send"]
            /\ UNCHANGED <<registry, held, frames>>
       ELSE /\ pc' = [pc EXCEPT ![s] = "done"]
            /\ FailGenericTurn(s, pendingInterrupts)
            /\ UNCHANGED held
    /\ UNCHANGED <<link, queuedSendIds, pendingInterrupts, committed, stop, report, popup, popups,
                   content, recall, doc, connOf>>

\* The page finished the turn.  Under a pending Stop the result is kept for the Stop.
GenericReturns(s) ==
    /\ pc[s] = "send" /\ reply[s] # "none"
    /\ IF reply[s] # "rejected" /\ Has(idOf[s]) /\ idOf[s] \in pendingInterrupts
       THEN /\ pc' = [pc EXCEPT ![s] = "held"]
            /\ held' = (held \ Completion(idOf[s])) \cup {s}
            /\ UNCHANGED <<reply, registry, frames>>
       ELSE /\ reply' = [reply EXCEPT ![s] = "none"]
            /\ UNCHANGED held
            /\ IF reply[s] = "answer" /\ Has(idOf[s])
               THEN /\ pc' = [pc EXCEPT ![s] = "finalize"]
                    /\ UNCHANGED <<registry, frames>>
               ELSE /\ pc' = [pc EXCEPT ![s] = "done"]
                    /\ FailGenericTurn(s, pendingInterrupts)
    /\ UNCHANGED <<link, queuedSendIds, pendingInterrupts, committed, stop, report, popup, popups,
                   page, cancelled, running, clicked, recall, doc, connOf>>

\* finalizeGenericTurn: the attestation, the reuse confirmation and the save, each of which
\* checks the registry again when it answers; ok is FALSE when one of them throws.
FinalizeReturns(s, ok) ==
    /\ pc[s] = "finalize"
    /\ pc' = [pc EXCEPT ![s] = "done"]
    /\ IF ok /\ Has(idOf[s])
       THEN Remove(Holder(idOf[s])) /\ Tell({s}, "response")
       ELSE FailGenericTurn(s, pendingInterrupts)
    /\ UNCHANGED <<link, ordering, committed, stop, report, popup, popups, content, recall, doc,
                   connOf>>

-----------------------------------------------------------------------------
(* The conversation.interrupt handler. *)

\* A Stop that waited in the queue.
StopBegin(x) ==
    /\ AtHead(x)
    /\ queue' = Tail(queue)
    /\ LET id == stop[x].id IN
       \/ /\ ~Has(id) \/ ~stop[x].matches
          /\ pendingInterrupts' = IF Has(id) THEN pendingInterrupts
                                  ELSE pendingInterrupts \ {id}
          /\ stop' = [stop EXCEPT ![x].pc = "done"]
          /\ UNCHANGED serving
       \/ /\ Has(id) /\ stop[x].matches
          /\ stop' = [stop EXCEPT ![x].pc = "asked",
                                  ![x].target = Target(id)]
          /\ serving' = x
          /\ UNCHANGED pendingInterrupts
    /\ UNCHANGED <<conn, conns, queuedSendIds, held, registry, pc, committed, report, popup,
                   popups, content, recall, doc, connOf, frames>>

\* mutant: submissionCommitted is not looked at.
StopTookAnyway(x) == stop[x].answer \in {"confirmed", "prevented"}

\* A prevented submission confirms a generic Stop only while nothing was committed.
StopTook(x) ==
    \/ stop[x].answer = "confirmed"
    \/ /\ stop[x].answer = "prevented"
       /\ IsGeneric(stop[x].target) => stop[x].target \notin committed

\* The page confirmed: acknowledgeInterrupted(request).
StopSucceeds(x) ==
    /\ stop[x].pc = "asked" /\ stop[x].answer # "none" /\ StopTook(x)
    /\ stop' = [stop EXCEPT ![x].pc = "done"]
    /\ AcknowledgeInterrupted(stop[x].target)
    /\ pendingInterrupts' = pendingInterrupts \ {stop[x].id}
    /\ Release(x)
    /\ UNCHANGED <<conn, conns, queue, queuedSendIds, pc, committed, report, popup, popups, content,
                   recall, doc, connOf>>

\* mutant: the flag of a Stop that failed with nothing kept stays.
StopFailsKeepsFlag(x) ==
    /\ stop[x].pc = "asked" /\ stop[x].answer # "none" /\ ~StopTook(x)
    /\ Completion(stop[x].id) = {}
    /\ stop' = [stop EXCEPT ![x].pc = "done"]
    /\ Release(x)
    /\ UNCHANGED <<conn, conns, queue, ordering, registry, pc, committed, report, popup, popups,
                   content, recall, doc, connOf, frames>>

\* The page did not: a kept answer is settled now, otherwise only interruptFailed is sent.
StopFails(x) ==
    /\ stop[x].pc = "asked" /\ stop[x].answer # "none" /\ ~StopTook(x)
    /\ LET id   == stop[x].id
           kept == Completion(id)
           pending == pendingInterrupts \ {id}
       IN
       /\ pendingInterrupts' = pending
       /\ held' = held \ kept
       /\ reply' = [s \in Send |-> IF s \in kept THEN "none" ELSE reply[s]]
       /\ \/ /\ kept = {}
             /\ stop' = [stop EXCEPT ![x].pc = "done"]
             /\ Release(x)
             /\ UNCHANGED <<pc, registry, frames>>
          \/ \E s \in kept :
             IF reply[s] = "answer"
             THEN /\ pc' = [pc EXCEPT ![s] = "finalize"]
                  /\ stop' = [stop EXCEPT ![x].pc = "settling"]
                  /\ UNCHANGED <<serving, registry, frames>>
             ELSE /\ pc' = [pc EXCEPT ![s] = "done"]
                  /\ stop' = [stop EXCEPT ![x].pc = "done"]
                  /\ Release(x)
                  /\ FailGenericTurn(s, pending)
    /\ UNCHANGED <<conn, conns, queue, queuedSendIds, committed, report, popup, popups,
                   page, cancelled, running, clicked, recall, doc, connOf>>

\* The kept answer the Stop was settling has been delivered.
StopSettled(x) ==
    /\ stop[x].pc = "settling"
    /\ \A s \in Send : idOf[s] = stop[x].id => pc[s] # "finalize"
    /\ stop' = [stop EXCEPT ![x].pc = "done"]
    /\ Release(x)
    /\ UNCHANGED <<conn, conns, queue, ordering, registry, pc, committed, report, popup, popups,
                   content, recall, doc, connOf, frames>>

-----------------------------------------------------------------------------
(* The page: the content script's handler of the dispatched prompt. *)

Dispatched(s) == pc[s] \in {"submit", "send"} /\ page[s] = "none" /\ reply[s] = "none"

\* What a page says of a prompt it did not submit.
Refusal(s) == IF IsGeneric(s) THEN "failed" ELSE "refused"

\* The page takes the prompt up: nothing cancelled it and nothing else holds the page.
PageAccepts(s) ==
    /\ Dispatched(s)
    /\ sessionOf[s] \notin gone /\ Mark(s) \notin cancelled /\ ~PageBusyWithAnother(s)
    /\ page' = [page EXCEPT ![s] = "accepted"]
    /\ UNCHANGED <<link, ordering, registry, pc, committed, stop, report, popup, popups, reply,
                   cancelled, running, clicked, recall, doc, connOf, frames>>

\* It refuses, then or before it clicks Send: cancelled, busy, quarantined, a changed composer.
PageRefuses(s) ==
    /\ Dispatched(s) \/ page[s] = "accepted"
    /\ page' = [page EXCEPT ![s] = "over"]
    /\ reply' = [reply EXCEPT ![s] = Refusal(s)]
    /\ cancelled' = cancelled \ {Mark(s)}
    /\ UNCHANGED <<link, ordering, registry, pc, committed, stop, report, popup, popups, running,
                   clicked, recall, doc, connOf, frames>>

\* It cannot be delivered: no receiver, no site permission, the binding being edited.
PromptUndeliverable(s) ==
    /\ Dispatched(s)
    /\ page' = [page EXCEPT ![s] = "over"]
    /\ reply' = [reply EXCEPT ![s] = "rejected"]
    /\ UNCHANGED <<link, ordering, registry, pc, committed, stop, report, popup, popups, cancelled,
                   running, clicked, recall, doc, connOf, frames>>

\* The Send control is clicked.  A generic page reports it (BACHATA_GENERIC_SUBMITTED).
PageClicks(s) ==
    /\ page[s] = "accepted" /\ Mark(s) \notin cancelled
    /\ page' = [page EXCEPT ![s] = "generating"]
    /\ running' = running \cup {s}
    /\ clicked' = clicked \cup {s}
    /\ committed' = IF IsGeneric(s) /\ s \in active THEN committed \cup {s} ELSE committed
    /\ UNCHANGED <<link, ordering, registry, pc, stop, report, popup, popups, reply, cancelled,
                   recall, doc, connOf, frames>>

\* A native page saw its prompt appear, or could neither see it nor stop the turn.
PageAnswersSubmit(s) ==
    /\ ~IsGeneric(s) /\ page[s] = "generating" /\ pc[s] = "submit" /\ reply[s] = "none"
    /\ \/ /\ reply' = [reply EXCEPT ![s] = "submitted"]
          /\ UNCHANGED <<page, running>>
       \/ /\ reply' = [reply EXCEPT ![s] = "refused"]
          /\ \/ page' = [page EXCEPT ![s] = "over"] /\ running' = running \ {s}
             \/ page' = [page EXCEPT ![s] = "unverified"] /\ UNCHANGED running
    /\ UNCHANGED <<link, ordering, registry, pc, committed, stop, report, popup, popups, cancelled,
                   clicked, recall, doc, connOf, frames>>

\* The provider stops generating of its own accord.
ProviderFinishes(s) ==
    /\ s \in running
    /\ running' = running \ {s}
    /\ UNCHANGED <<link, ordering, registry, pc, committed, stop, report, popup, popups, page, reply,
                   cancelled, clicked, recall, doc, connOf, frames>>

\* createIndeterminateMonitor lets an unverified turn go once the page is idle.
MonitorSettles(s) ==
    /\ page[s] = "unverified" /\ s \notin running
    /\ page' = [page EXCEPT ![s] = "over"]
    /\ cancelled' = cancelled \ {Mark(s)}
    /\ UNCHANGED <<link, ordering, registry, pc, committed, stop, report, popup, popups, reply,
                   running, clicked, recall, doc, connOf, frames>>

\* A native content script sends the worker a message about its turn; the worker looks the
\* request up before it awaits anything.
Reports(s, kind) ==
    /\ page' = [page EXCEPT ![s] = "reporting"]
    /\ report' = [report EXCEPT ![s] = [pc |-> kind, found |-> Has(idOf[s])]]

\* The capture is complete: the provider is idle and the answer stable.
PageCaptures(s) ==
    /\ page[s] = "generating" /\ s \notin running
    /\ \/ /\ ~IsGeneric(s) /\ (pc[s] = "submit" => reply[s] = "submitted")
          /\ Reports(s, "response")
          /\ UNCHANGED reply
       \/ /\ IsGeneric(s)
          /\ page' = [page EXCEPT ![s] = "over"]
          /\ reply' = [reply EXCEPT ![s] = "answer"]
          /\ UNCHANGED report
    /\ UNCHANGED <<link, ordering, registry, pc, committed, stop, popup, popups, cancelled, running,
                   clicked, recall, doc, connOf, frames>>

\* The capture failed; a native page first tries to stop the turn.
PageCaptureFails(s) ==
    /\ page[s] = "generating"
    /\ \/ /\ ~IsGeneric(s) /\ (pc[s] = "submit" => reply[s] = "submitted")
          /\ Reports(s, "error")
          /\ running' \in {running, running \ {s}}
          /\ UNCHANGED reply
       \/ /\ IsGeneric(s)
          /\ page' = [page EXCEPT ![s] = "over"]
          /\ reply' = [reply EXCEPT ![s] = "failed"]
          /\ UNCHANGED <<report, running>>
    /\ UNCHANGED <<link, ordering, registry, pc, committed, stop, popup, popups, cancelled, clicked,
                   recall, doc, connOf, frames>>

-----------------------------------------------------------------------------
(* The page: conversation.interrupt and BACHATA_GENERIC_CANCEL. *)

\* mutant: the cancellation is answered and not remembered.
PagePreventsForgets(s) ==
    page[s] \in {"none", "accepted", "over"} /\ UNCHANGED <<cancelled, page, reply, running>>

\* Nothing was submitted: the cancellation is remembered, so that nothing will be.
PagePrevents(s) ==
    /\ page[s] \in {"none", "accepted", "over"}
    /\ IF sessionOf[s] \in gone
       THEN IsGeneric(s) /\ UNCHANGED cancelled
       ELSE /\ IsGeneric(s) \/ ~PageBusyWithAnother(s)
            /\ cancelled' = cancelled \cup {Mark(s)}
    /\ UNCHANGED <<page, reply, running>>

\* The page clicked Stop and watched the provider go idle.
PageConfirmsStop(s) ==
    /\ \/ ~IsGeneric(s) /\ page[s] \in {"generating", "unverified"} /\ s \in running
       \/ IsGeneric(s) /\ page[s] = "generating"
    /\ page' = [page EXCEPT ![s] = "over"]
    /\ running' = running \ {s}
    /\ reply' = IF IsGeneric(s) THEN [reply EXCEPT ![s] = "failed"]
                ELSE IF pc[s] = "submit" /\ reply[s] = "none" THEN [reply EXCEPT ![s] = "refused"]
                ELSE reply
    /\ UNCHANGED cancelled

\* mutant: nobody answers for a document that is gone.
PageCannotStopIfAlive(s) ==
    /\ \/ page[s] \in {"generating", "unverified", "reporting"}
       \/ ~IsGeneric(s) /\ PageBusyWithAnother(s)
    /\ UNCHANGED <<page, reply, running, cancelled>>

\* The page cannot.  A native capture that saw the cancellation has ended all the same; a
\* generic one goes on.
PageCannotStop(s) ==
    /\ \/ sessionOf[s] \in gone
       \/ page[s] \in {"generating", "unverified", "reporting"}
       \/ ~IsGeneric(s) /\ PageBusyWithAnother(s)
    /\ page' = IF ~IsGeneric(s) /\ page[s] = "generating" /\ (pc[s] = "submit" => reply[s] = "submitted")
               THEN [page EXCEPT ![s] = "over"] ELSE page
    /\ UNCHANGED <<reply, running, cancelled>>

PageStops(x) ==
    /\ stop[x].pc = "asked" /\ stop[x].answer = "none"
    /\ LET s == stop[x].target IN
       \/ PagePrevents(s)     /\ stop' = [stop EXCEPT ![x].answer = "prevented"]
       \/ PageConfirmsStop(s) /\ stop' = [stop EXCEPT ![x].answer = "confirmed"]
       \/ PageCannotStop(s)   /\ stop' = [stop EXCEPT ![x].answer = "refused"]
    /\ UNCHANGED <<link, ordering, registry, pc, committed, report, popup, popups, clicked, recall,
                   doc, connOf, frames>>

\* The cancellations of stopActiveRequests; nobody reads the answer.
PageRecalled(s) ==
    /\ recall[s] # "none"
    /\ PagePrevents(s) \/ PageConfirmsStop(s) \/ PageCannotStop(s)
    /\ recall' = [recall EXCEPT ![s] = "none"]
    /\ UNCHANGED <<link, ordering, registry, pc, committed, stop, report, popup, popups, clicked,
                   doc, connOf, frames>>

-----------------------------------------------------------------------------
(* content.response and content.error in the worker. *)

\* The page has its acknowledgement and forgets the turn.
Acknowledged(s) ==
    /\ page' = [page EXCEPT ![s] = "over"]
    /\ report' = [report EXCEPT ![s].pc = "none"]

\* validActiveSender answered.  The request was read before that await.
ReportBound(s) ==
    /\ report[s].pc \in {"response", "error"}
    /\ LET valid == report[s].found /\ sessionOf[s] \notin gone /\ conn # 0 IN
       \/ /\ valid /\ report[s].pc = "response" /\ sessionOf[s] \notin dropped
          /\ report' = [report EXCEPT ![s].pc = "saving"]
          /\ UNCHANGED <<page, registry, frames>>
       \/ /\ valid                               \* an error, an invalid response, a lost binding
          /\ Tell({s}, "error")
          /\ Remove(Holder(idOf[s]))
          /\ Acknowledged(s)
       \/ /\ ~valid
          /\ report[s].pc = "error" \/ sessionOf[s] \in gone
          /\ Acknowledged(s)
          /\ UNCHANGED <<registry, frames>>
       \/ /\ ~valid /\ report[s].pc = "response"   \* the capture's catch reports an error instead
          /\ sessionOf[s] \notin gone
          /\ Reports(s, "error")
          /\ UNCHANGED <<registry, frames>>
    /\ UNCHANGED <<link, ordering, pc, committed, stop, popup, popups, reply, cancelled, running,
                   clicked, recall, doc, connOf>>

\* mutant: the turn stays registered.
ReportSavedKeepsTurn(s) ==
    /\ report[s].pc = "saving"
    /\ \E kind \in {"response", "error"} : Tell({s}, kind)
    /\ Acknowledged(s)
    /\ UNCHANGED <<link, ordering, registry, pc, committed, stop, popup, popups, reply, cancelled,
                   running, clicked, recall, doc, connOf>>

\* saveStored answered: the response goes out, or the error that it is too large, whatever
\* happened to the request meanwhile.
ReportSaved(s) ==
    /\ report[s].pc = "saving"
    /\ \E kind \in {"response", "error"} : Tell({s}, kind)
    /\ Remove(Holder(idOf[s]))
    /\ Acknowledged(s)
    /\ UNCHANGED <<link, ordering, pc, committed, stop, popup, popups, reply, cancelled, running,
                   clicked, recall, doc, connOf>>

-----------------------------------------------------------------------------
(* The socket, the popup and the tabs. *)

Connects ==
    /\ conn = 0 /\ conns < MaxConns
    /\ conn' = conns + 1 /\ conns' = conns + 1
    /\ UNCHANGED <<queue, serving, ordering, registry, pc, committed, stop, report, popup, popups,
                   content, recall, doc, connOf, frames>>

\* Frames queued on a socket that is no longer the current one are ignored when they come up.
Disconnected == conn' = 0 /\ queue' = <<>> /\ serving' = None /\ UNCHANGED conns

\* stopActiveRequests
StopActiveRequests(by) ==
    /\ Remove(active)
    /\ recall' = [s \in Send |-> IF s \in active THEN by ELSE recall[s]]

\* The close listener.
SocketCloses ==
    /\ conn # 0
    /\ Disconnected
    /\ queuedSendIds' = {} /\ pendingInterrupts' = {} /\ held' = {}
    /\ StopActiveRequests("wire")
    /\ UNCHANGED <<pc, committed, stop, report, popup, popups, content, doc, connOf, frames>>

\* popup.disconnect: the pages are told to stop while the socket is still current ...
PopupDisconnects ==
    /\ ~popup /\ popups < MaxPopups
    /\ popup' = TRUE /\ popups' = popups + 1
    /\ StopActiveRequests("popup")
    /\ UNCHANGED <<link, ordering, pc, committed, stop, report, content, doc, connOf, frames>>

\* ... and once they answered the socket is dropped, which keeps its close listener silent.
PopupDropsSocket ==
    /\ popup /\ \A s \in Send : recall[s] # "popup"
    /\ popup' = FALSE
    /\ Disconnected
    /\ UNCHANGED <<ordering, registry, pc, committed, stop, report, popups, content, recall, doc,
                   connOf, frames>>

\* A reload or navigation replaces a document.  Its content script dies with what it knew, and
\* the prompt being answered is rejected.  The provider may go on generating.  A generic tab
\* that stays on its origin raises no event the worker acts on.
DocumentReplaced(c) ==
    /\ c \notin gone
    /\ gone' = gone \cup {c}
    /\ \/ changed' = changed \cup {c}
       \/ c \in Generic /\ UNCHANGED changed
    /\ page' = [s \in Send |-> IF sessionOf[s] = c /\ page[s] # "none" THEN "over" ELSE page[s]]
    /\ reply' = [s \in Send |->
          IF sessionOf[s] = c /\ pc[s] \in {"submit", "send"} /\ reply[s] = "none"
          THEN "rejected" ELSE reply[s]]
    /\ cancelled' = {m \in cancelled : m[1] # c}
    /\ UNCHANGED <<link, ordering, registry, pc, committed, stop, report, popup, popups, running,
                   clicked, recall, dropped, connOf, frames>>

\* applyTabChange reaches the worker: failRequestsForTab, and the binding is deleted.
TabChanged(c) ==
    /\ c \in changed \ dropped
    /\ dropped' = dropped \cup {c}
    /\ LET lost == {s \in active : sessionOf[s] = c} IN Tell(lost, "error") /\ Remove(lost)
    /\ UNCHANGED <<link, ordering, pc, committed, stop, report, popup, popups, content, recall,
                   gone, changed, connOf>>

-----------------------------------------------------------------------------
(* Steps the worker, the browser and the page take by themselves ... *)

Handler(s) ==
    \/ SendBegin(s)
    \/ \E ok \in BOOLEAN : SendVerified(s, ok) \/ GenericStatus(s, ok) \/ FinalizeReturns(s, ok)
    \/ NativeReturns(s) \/ GenericReturns(s)
    \/ ReportBound(s) \/ ReportSaved(s)

StopHandler(x) ==
    StopBegin(x) \/ StopSucceeds(x) \/ StopFails(x) \/ StopSettled(x)

Page(s) ==
    \/ PageAccepts(s) \/ PageRefuses(s) \/ PromptUndeliverable(s)
    \/ PageClicks(s) \/ PageAnswersSubmit(s)
    \/ ProviderFinishes(s) \/ MonitorSettles(s) \/ PageCaptures(s) \/ PageCaptureFails(s)
    \/ PageRecalled(s)

(* ... and what the controller, the person and the network may do. *)

Environment ==
    \/ \E s \in Send : SendArrives(s)
    \/ \E x \in Stop, id \in Id, matches \in BOOLEAN : StopArrives(x, id, matches)
    \/ \E c \in Session : DocumentReplaced(c)
    \/ Connects \/ SocketCloses \/ PopupDisconnects

Next ==
    \/ \E s \in Send : Handler(s) \/ Page(s)
    \/ \E x \in Stop : StopHandler(x) \/ PageStops(x)
    \/ \E c \in Session : TabChanged(c)
    \/ PopupDropsSocket
    \/ Environment

Spec == Init /\ [][Next]_vars

-----------------------------------------------------------------------------
(* Properties. *)

LinkTypeOK ==
    /\ conn \in 0..MaxConns /\ conns \in 0..MaxConns
    /\ queue \in Seq(Send \cup Stop) /\ serving \in Send \cup Stop \cup {None}

OrderingTypeOK == queuedSendIds \subseteq Id /\ pendingInterrupts \subseteq Id /\ held \subseteq Send

RegistryTypeOK == active \subseteq Send /\ bySession \in [Session -> Id \cup {None}]

HandlerTypeOK ==
    /\ pc \in [Send -> HandlerPC] /\ committed \subseteq Send
    /\ stop \in [Stop -> [pc : StopPC, id : Id \cup {None}, matches : BOOLEAN,
                         target : Send \cup {None}, answer : Answer]]
    /\ report \in [Send -> [pc : Report, found : BOOLEAN]]
    /\ popup \in BOOLEAN /\ popups \in 0..MaxPopups

ContentTypeOK ==
    /\ page \in [Send -> PageState] /\ reply \in [Send -> Reply]
    /\ cancelled \subseteq (Session \X Id) /\ recall \in [Send -> {"none", "wire", "popup"}]
    /\ running \subseteq Send /\ clicked \subseteq Send
    /\ gone \subseteq Session /\ changed \subseteq Session /\ dropped \subseteq Session

FramesTypeOK ==
    /\ connOf \in [Send -> 0..MaxConns]
    /\ frames \in [Send -> Seq([kind : Kind, conn : 1..MaxConns])]

\* The type of every variable.
TypeOK ==
    /\ LinkTypeOK /\ OrderingTypeOK /\ RegistryTypeOK
    /\ HandlerTypeOK /\ ContentTypeOK /\ FramesTypeOK

Told(s, kind) == \E i \in 1..Len(frames[s]) : frames[s][i].kind = kind

\* The two registries agree: at most one turn per id and per session, and a session is taken
\* exactly by the turn registered for it (removeActiveRequest, the two checks of the send
\* handler, and BR-G6-11: a refused duplicate forgets only what it registered).
RegistriesAgree ==
    /\ \A s, t \in active : idOf[s] = idOf[t] \/ sessionOf[s] = sessionOf[t] => s = t
    /\ \A s \in active : bySession[sessionOf[s]] = idOf[s]
    /\ \A c \in Session : bySession[c] # None =>
          \E s \in active : sessionOf[s] = c /\ idOf[s] = bySession[c]

\* A generic turn sends one terminal frame at most, whichever of its runner, its Stops, a
\* navigation or a disconnect gets there first.
GenericAnsweredOnce == \A s \in Send : IsGeneric(s) => Len(frames[s]) <= 1

\* When the controller is told that a generic turn was interrupted the provider is not working
\* on it, and will not be.
GenericStopIsReal == \A s \in Send : IsGeneric(s) /\ Told(s, "interrupted") => s \notin running

\* A prompt is never submitted once its controller was told it was interrupted, although the
\* worker may still dispatch it: the page remembers the cancellation.
StoppedNeverSubmits ==
    [][\A s \in clicked' \ clicked : ~Told(s, "interrupted")]_vars

\* A turn reported as interrupted is told nothing else: the Stop removed it from the registry
\* before any late answer, error, navigation or second Stop could look it up.
NothingAfterStop ==
    \A s \in Send : \A i \in 1..Len(frames[s]) :
        frames[s][i].kind = "interrupted" => i = Len(frames[s])

StopTried(s)  == \E x \in Stop : stop[x].id = idOf[s] /\ stop[x].pc = "done"
Stopping(s)   == \E x \in Stop : stop[x].id = idOf[s] /\ stop[x].pc \in {"queued", "asked", "settling"}

\* Somebody will still end the turn: its handler, its page, its report, a Stop, or a
\* navigation that is on its way.
Owned(s) ==
    \/ pc[s] \in {"verify", "submit", "status", "send", "finalize"}
    \/ ~IsGeneric(s) /\ (page[s] \in {"generating", "reporting"} \/ report[s].pc # "none")
    \/ Stopping(s)
    \/ sessionOf[s] \in changed \ dropped

\* A turn that no Stop has failed to end stays owned for as long as its connection lasts.
TurnIsOwned == \A s \in active : Owned(s) \/ StopTried(s) \/ connOf[s] # conn

-----------------------------------------------------------------------------
(* Every await resolves, every page answers, every event is delivered.     *)

Fairness ==
    /\ \A s \in Send : WF_vars(Handler(s)) /\ WF_vars(Page(s))
    /\ \A x \in Stop : WF_vars(StopHandler(x)) /\ WF_vars(PageStops(x))
    /\ \A c \in Session : WF_vars(TabChanged(c))
    /\ WF_vars(PopupDropsSocket)

FairSpec == Spec /\ Fairness

\* A turn ends, unless a Stop failed on it or its connection is gone.
TurnEnds ==
    \A s \in Send : (s \in active) ~> (s \notin active \/ StopTried(s) \/ connOf[s] # conn)

InQueue(h) == \E i \in 1..Len(queue) : queue[i] = h

\* Every pending flag belongs to a Stop that has yet to take it back: one waiting in the queue
\* of the current connection or one the page has been asked about.  popup.disconnect forgets
\* the queue and not the flags, so it is left out here.
FlagIsOwned(id) ==
    \E x \in Stop : stop[x].id = id /\ (InQueue(x) \/ stop[x].pc = "asked")

\* A Stop whose cancellation was sent is settled, and no pending flag is left behind for a
\* later send to find: the last Stop that could take a flag back takes it with it
\* (pendingInterrupts.delete in acknowledgeInterrupted, in the handler's catch and for a Stop
\* that finds no request; requestOrdering.clear when the socket closes).
StopSettles ==
    /\ \A x \in Stop : (stop[x].pc = "asked") ~> (stop[x].pc = "done")
    /\ [](popups = 0 => \A id \in pendingInterrupts : FlagIsOwned(id))

-----------------------------------------------------------------------------
(* What a comment, a document or a test says and the code does not do.     *)

\* "The turn ... owns its own single terminal frame" (index.ts 1186), of a ChatGPT or Claude
\* turn: content.response awaits a save and answers without looking the request up again.
NativeAnsweredOnce == \A s \in Send : ~IsGeneric(s) => Len(frames[s]) <= 1

\* "Nothing here reports a stop it did not observe" (providerLogic.ts): a ChatGPT or Claude turn
\* reported as interrupted is one the provider no longer works on.
NativeStopIsReal == \A s \in Send : ~IsGeneric(s) /\ Told(s, "interrupted") => s \notin running

\* "The turn is still running, so it still owes the controller exactly one terminal frame"
\* (index.ts 1799): after a failed Stop something is still there to end the turn.
FailedStopLeavesOwner == \A s \in active : Owned(s) \/ connOf[s] # conn

\* "disconnect: cancel outstanding operations": no registered turn outlives its connection.
NoOrphan == \A s \in active : connOf[s] = conn
=============================================================================
