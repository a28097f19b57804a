---------------------------- MODULE Provisioning ----------------------------
(***************************************************************************)
(* Opening provider conversations (src/src/background/provisioning.ts,     *)
(* provisioningWaits.ts, cancellation.ts, index.ts 642-925): the queue     *)
(* with its slots, cancellation, the tabs an operation opens, recycles,    *)
(* closes or keeps, and the remembered results.                            *)
(*                                                                         *)
(* An action is the code between two awaits of one operation.  The waits   *)
(* for the tab to load, for its script and for its session all end in the  *)
(* same catch, and are one await here.                                     *)
(***************************************************************************)
EXTENDS Naturals, Sequences, FiniteSets, SequencesExt

CONSTANTS
    Req,            \* request ids
    Conv,           \* conversation identities
    Start,          \* the one a provider's start page has
    Created,        \* tabs the browser creates, in order
    Own,            \* the person's tab
    Wants,          \* what the ids may ask for: functions from Req to Wish
    MaxConcurrent,  \* maximumConcurrentProvisioning
    MaxResults,     \* maximumProvisioningResults
    MaxMarkers,     \* maximumProvisionalCreations
    MaxSocks,       \* connections
    MaxAsks,        \* frames of the controller
    None

Tab == Created \cup {Own}

Wish == [generic  : BOOLEAN,
         fresh    : BOOLEAN,
         identity : Conv \cup {None},      \* preferredConversationIdentity
         tab      : {Own, None},           \* preferredTabId
         registry : {"none", "known", "unknown"}]

ASSUME ProvisioningAssumption ==
    /\ Wants \subseteq [Req -> Wish]
    /\ Start \in Conv /\ None \notin Conv \cup Tab \cup Req
    /\ {MaxConcurrent, MaxSocks, MaxAsks} \subseteq Nat /\ {MaxMarkers, MaxResults} \subseteq Nat \ {0}

VARIABLES
    want,       \* what each id asks for
    sock,       \* the current connection; 0 while there is none
    dropping,   \* popup.pair or popup.disconnect has cancelled and waits to drop the socket
    socks, asks,
    entry,      \* entries: "none", "queued" or "running"
    queued,     \* ids in the order they came
    active,     \* slots taken
    aborted,    \* ids whose AbortController has fired
    from,       \* the connection that asked
    pc,         \* where the operation of an id awaits
    plan,       \* its reopen plan
    made,       \* the tab it created
    goal,       \* the tab whose session it is after
    end,        \* the result it is about to return
    kept,       \* completedProvisioningResults
    order,      \* completedProvisioningOrder
    tabs,       \* conversation and state of each tab
    markers,    \* provisionalCreations
    hear,       \* history: ids accepted on the current connection and not answered on it
    checked,    \* history: fresh generic operations whose signal was quiet when it was last read
    acted       \* history: operations that touched a tab after their cancellation

queue   == <<entry, queued, active, aborted, from>>
runs    == <<pc, plan, made, goal, end>>
results == <<kept, order, hear>>
past    == <<checked, acted>>
browser == <<tabs, markers, past>>
link    == <<want, sock, dropping, socks, asks>>
vars    == <<link, queue, runs, results, browser>>

Result == {"opened", "refused", "failed", "cancelled"}

-----------------------------------------------------------------------------
(* Results. *)

\* mutant: one result fewer fits than the memory holds
RememberOneFewer(s, x) ==
    LET all  == order \o s
        keep == IF Len(all) >= MaxResults THEN SubSeq(all, Len(all) - MaxResults + 2, Len(all)) ELSE all
        old  == Range(all) \ Range(keep) IN
    /\ order' = keep
    /\ kept' = [r \in Req |-> IF r \in old THEN None ELSE IF r \in Range(s) THEN x ELSE kept[r]]

\* mutant: the result goes out only when the operation was not cancelled
TellUncancelled(S) == hear' = hear \ {r \in S : from[r] = sock /\ r \notin aborted}

\* sendProvisioningResult for the ids of S: nobody hears of one asked for on another connection.
Tell(S) == hear' = hear \ {r \in S : from[r] = sock}

\* rememberProvisioningResult for the ids of sequence s, one after the other.
Remember(s, x) ==
    LET all  == order \o s
        keep == IF Len(all) > MaxResults THEN SubSeq(all, Len(all) - MaxResults + 1, Len(all)) ELSE all
        old  == Range(all) \ Range(keep) IN
    /\ order' = keep
    /\ kept' = [r \in Req |-> IF r \in old THEN None ELSE IF r \in Range(s) THEN x ELSE kept[r]]

-----------------------------------------------------------------------------
(* The queue. *)

Begin == "begin"

(* pump: as many as there are free slots begin.  An entry's operation is   *)
(* gone once the entry is.                                                 *)
Pump(e, q, a) ==
    LET n == IF Len(q) < MaxConcurrent - a THEN Len(q) ELSE MaxConcurrent - a
        go == {q[i] : i \in 1..n} IN
    /\ entry' = [r \in Req |-> IF r \in go THEN "running" ELSE e[r]]
    /\ queued' = SubSeq(q, n + 1, Len(q))
    /\ active' = a + n
    /\ pc' = [r \in Req |-> IF r \in go THEN Begin ELSE IF e[r] = "none" THEN "idle" ELSE pc[r]]

(* provider.openConversation and reopenConversation.  A remembered result  *)
(* is sent again and an id that is pending is left alone, so that neither  *)
(* changes anything; nor does the refusal of an id whose wish changed.     *)
Open(r) ==
    /\ sock # 0 /\ asks < MaxAsks /\ asks' = asks + 1
    /\ kept[r] = None /\ entry[r] = "none"
    /\ Pump([entry EXCEPT ![r] = "queued"], Append(queued, r), active)
    /\ from' = [from EXCEPT ![r] = sock]
    /\ aborted' = aborted \ {r}
    /\ plan' = [plan EXCEPT ![r] = "none"]
    /\ made' = [made EXCEPT ![r] = None]
    /\ goal' = [goal EXCEPT ![r] = IF want[r].generic THEN Own ELSE None]
    /\ end' = [end EXCEPT ![r] = None]
    /\ hear' = hear \cup {r}
    /\ checked' = checked \ {r} /\ acted' = acted \ {r}
    /\ UNCHANGED <<want, sock, dropping, socks, kept, order, tabs, markers>>

\* What cancel does to the ids of S: those of q were queued and are settled, rest is left of the queue,
\* the running ones are told.
CancelIds(S, q, rest) ==
    /\ entry' = [r \in Req |-> IF r \in Range(q) THEN "none" ELSE entry[r]]
    /\ queued' = rest
    /\ aborted' = aborted \cup {r \in S : entry[r] # "none"}
    /\ Remember(q, "cancelled")
    /\ Tell(Range(q))
    /\ UNCHANGED <<active, from, runs>>

\* provider.cancelOpenConversation
Cancel(r) ==
    /\ sock # 0 /\ entry[r] # "none" /\ r \notin aborted
    /\ IF entry[r] = "queued" THEN CancelIds({r}, <<r>>, RemoveFirst(queued, r))
                              ELSE CancelIds({r}, <<>>, queued)
    /\ UNCHANGED <<link, browser>>

\* The close listener: the socket is gone before cancelAll, so nobody is told.
LinkLost ==
    /\ sock # 0 /\ sock' = 0 /\ dropping' = FALSE
    /\ entry' = [r \in Req |-> IF entry[r] = "queued" THEN "none" ELSE entry[r]]
    /\ queued' = <<>>
    /\ aborted' = aborted \cup {r \in Req : entry[r] # "none"}
    /\ Remember(queued, "cancelled")
    /\ hear' = {}
    /\ UNCHANGED <<want, socks, asks, active, from, runs, browser>>

\* popup.pair and popup.disconnect: cancelAll, with the socket still there ...
PopupCancels ==
    /\ sock # 0 /\ ~dropping /\ dropping' = TRUE
    /\ CancelIds(Req, queued, <<>>)
    /\ UNCHANGED <<want, sock, socks, asks, browser>>

\* ... which is dropped once the pages have answered; its close event is ignored.  popup.disconnect
\* clears the markers.
PopupDrops ==
    /\ dropping /\ sock' = 0 /\ dropping' = FALSE /\ hear' = {}
    /\ markers' \in {markers, <<>>}
    /\ UNCHANGED <<want, socks, asks, queue, runs, kept, order, tabs, past>>

\* A new connection; popup.reconnect opens it also in place of one that is CLOSING.
LinkOpens ==
    /\ ~dropping /\ socks < MaxSocks
    /\ socks' = socks + 1 /\ sock' = socks + 1 /\ hear' = {}
    /\ UNCHANGED <<want, dropping, asks, queue, runs, kept, order, browser>>

\* mutant: the slot is not given back
SettleKeepingSlot(r, x) ==
    /\ Pump([entry EXCEPT ![r] = "none"], queued, active)
    /\ Remember(<<r>>, x)
    /\ Tell({r})
    /\ UNCHANGED <<aborted, from>>

\* The operation of r has returned: settle, then the slot goes to the next.
Settle(r, x) ==
    /\ Pump([entry EXCEPT ![r] = "none"], queued, active - 1)
    /\ Remember(<<r>>, x)
    /\ Tell({r})
    /\ UNCHANGED <<aborted, from>>

Returns(r) ==
    /\ pc[r] = "end"
    /\ Settle(r, IF r \in aborted THEN "cancelled" ELSE end[r])
    /\ UNCHANGED <<link, plan, made, goal, end, browser>>

-----------------------------------------------------------------------------
(* One operation. *)

Goto(r, l) == pc' = [pc EXCEPT ![r] = l]
Finish(r, x) == Goto(r, "end") /\ end' = [end EXCEPT ![r] = x]

\* The operation opens or navigates a tab, or presses a control of the person's page.
Acts(r) == acted' = IF r \in aborted THEN acted \cup {r} ELSE acted
IsOpen(t) == tabs[t].state # "absent"

\* A registered session on a tab.
Session == {t \in Tab : tabs[t].state \in {"ready", "notReady"}}

Identity(r) == want[r].identity

\* reopenConversationPlan on the sessions that are read now.  A recoverable record ignores ready tabs in front.
ReopenPlan(r, front) ==
    LET open  == {t \in Session : tabs[t].conv = Identity(r)
                     /\ ~(want[r].registry = "known" /\ t = front /\ tabs[t].state = "ready")}
        ready == {t \in open : tabs[t].state = "ready"} IN
    IF want[r].fresh \/ Identity(r) \in {None, Start} THEN {<<"none", None>>}
    ELSE IF ready # {} THEN {"reuse"} \X ready
    ELSE IF open # {} THEN {<<"refuse", None>>}
    ELSE {<<"navigate", None>>}

\* The first turn of provisionProviderConversation.
BeginNative(r) ==
    /\ pc[r] = Begin /\ ~want[r].generic
    /\ IF want[r].registry = "unknown" THEN Finish(r, "refused")
       ELSE IF r \in aborted THEN Finish(r, "failed")
       ELSE Goto(r, "plan") /\ UNCHANGED end
    /\ UNCHANGED <<link, queue, plan, made, goal, results, browser>>

\* Another id or a running request may hold the conversation: refused while it runs.
BusyConversation(r) ==
    /\ pc[r] = Begin /\ ~want[r].generic /\ ~want[r].fresh /\ Identity(r) # None /\ r \notin aborted
    /\ Finish(r, "refused")
    /\ UNCHANGED <<link, queue, plan, made, goal, results, browser>>

\* mutant: the plan is acted on although the operation was cancelled meanwhile
PlannedUnchecked(r, p) ==
    /\ plan' = [plan EXCEPT ![r] = p[1]]
    /\ goal' = [goal EXCEPT ![r] = p[2]]
    /\ Goto(r, "create") /\ Acts(r) /\ UNCHANGED end

\* reopenShortcut, or on to the tab.
Planned(r, p) ==
    /\ plan' = [plan EXCEPT ![r] = p[1]]
    /\ goal' = [goal EXCEPT ![r] = p[2]]
    /\ IF r \in aborted THEN Finish(r, "failed") /\ UNCHANGED acted
       ELSE IF p[1] = "refuse" THEN Finish(r, "refused") /\ UNCHANGED acted
       ELSE IF p[1] = "reuse" THEN Goto(r, "select") /\ UNCHANGED <<end, acted>>
       ELSE IF want[r].fresh /\ want[r].tab # None THEN Goto(r, "lookup") /\ UNCHANGED <<end, acted>>
       ELSE Goto(r, "create") /\ Acts(r) /\ UNCHANGED end

SessionsRead(r) ==
    /\ pc[r] = "plan"
    /\ \E front \in Tab : \E p \in ReopenPlan(r, front) : Planned(r, p)
    /\ UNCHANGED <<link, queue, made, results, tabs, markers, checked>>

\* chrome.tabs.get of the preferred tab, and navigating it if it is still the provider's.
PreferredTab(r) ==
    /\ pc[r] = "lookup"
    /\ IF r \in aborted
       THEN Finish(r, "failed") /\ UNCHANGED <<goal, tabs, acted>>
       ELSE /\ UNCHANGED end
            /\ Acts(r)
            /\ \/ /\ IsOpen(Own)
                  /\ tabs' = [tabs EXCEPT ![Own] = [conv |-> Start, state |-> "loading"]]
                  /\ goal' = [goal EXCEPT ![r] = Own]
                  /\ Goto(r, "page")
               \/ Goto(r, "create") /\ UNCHANGED <<goal, tabs>>
    /\ UNCHANGED <<link, queue, plan, made, results, markers, checked>>

\* A marker of the tab, when the conversation is a new one; the oldest is dropped at the limit.
Marked(r, t) ==
    IF plan[r] # "none" THEN markers
    ELSE LET room == IF Len(markers) < MaxMarkers THEN markers ELSE Tail(markers) IN Append(room, t)

\* provisionalCreations.delete: a Map has one marker of a tab.
Unmarked(t) == RemoveFirst(markers, t)

FreeTab == {t \in Created : tabs[t].state = "absent" /\ \A q \in Req : made[q] # t}

\* chrome.tabs.create is called and answers.
CreateTab(r) ==
    /\ pc[r] = "create"
    /\ \E t \in FreeTab :
         /\ tabs' = [tabs EXCEPT ![t] = [conv |-> IF plan[r] = "navigate" THEN Identity(r) ELSE Start, state |-> "loading"]]
         /\ made' = [made EXCEPT ![r] = t]
         /\ goal' = [goal EXCEPT ![r] = t]
         /\ markers' = Marked(r, t)
    /\ Goto(r, "page")
    /\ UNCHANGED <<link, queue, plan, end, results, past>>

CreateFails(r) ==
    /\ pc[r] = "create"
    /\ Finish(r, "failed")
    /\ UNCHANGED <<link, queue, plan, made, goal, results, browser>>

\* mutant: the marker of a closed tab stays
GiveUpKeepingMarker(r) ==
    /\ Finish(r, "failed")
    /\ UNCHANGED markers
    /\ tabs' = IF made[r] # None /\ r \in aborted
               THEN [tabs EXCEPT ![made[r]] = [conv |-> None, state |-> "absent"]] ELSE tabs

\* The catch: a created tab is closed when the operation was cancelled, and retained when it failed.
GiveUp(r) ==
    /\ Finish(r, "failed")
    /\ markers' = IF made[r] = None THEN markers ELSE Unmarked(made[r])
    /\ tabs' = IF made[r] # None /\ r \in aborted
               THEN [tabs EXCEPT ![made[r]] = [conv |-> None, state |-> "absent"]] ELSE tabs

\* The page has loaded, registered and has a session; then the provider status is sent.
PageRegistered(r) ==
    /\ pc[r] = "page" /\ r \notin aborted
    /\ IsOpen(goal[r])
    /\ \E s \in {"ready", "notReady"}, c \in {tabs[goal[r]].conv, Start} :
          tabs' = [tabs EXCEPT ![goal[r]] = [conv |-> c, state |-> s]]
    /\ Goto(r, "status")
    /\ UNCHANGED <<link, queue, plan, made, goal, end, results, markers, past>>

\* A timeout, a script that cannot run, or a check of the signal.
PageFails(r) ==
    /\ pc[r] \in {"page", "status", "select"}
    /\ GiveUp(r)
    /\ UNCHANGED <<link, queue, plan, made, goal, results, past>>

\* openedSessionRefusal, reopenedSessionRefusal
SessionRefused(r) ==
    LET t == tabs[goal[r]] IN
    \/ t.state # "ready"
    \/ plan[r] = "navigate" /\ t.conv # Identity(r)
    \/ made[r] = None /\ Identity(r) # None /\ t.conv = Identity(r)

\* After sendProviderStatus, where the signal is not looked at again.
StatusSent(r) ==
    /\ pc[r] = "status"
    /\ markers' = IF made[r] = None \/ tabs[made[r]] = [conv |-> Start, state |-> "ready"] THEN markers ELSE Unmarked(made[r])
    /\ IF SessionRefused(r)
       THEN /\ Finish(r, "refused")
            /\ tabs' = IF plan[r] = "navigate"
                       THEN [tabs EXCEPT ![made[r]] = [conv |-> None, state |-> "absent"]] ELSE tabs
       ELSE Goto(r, "select") /\ UNCHANGED <<end, tabs>>
    /\ UNCHANGED <<link, queue, plan, made, goal, results, past>>

\* selectOwnedSession, once the favicon is there.
SelectSession(r) ==
    /\ pc[r] = "select" /\ IsOpen(goal[r])
    /\ Finish(r, "opened")
    /\ UNCHANGED <<link, queue, plan, made, goal, results, browser>>

-----------------------------------------------------------------------------
(* A generic website: a page the person has bound, never a tab opened here. *)

BeginGeneric(r) ==
    /\ pc[r] = Begin /\ want[r].generic
    /\ IF r \in aborted THEN Finish(r, "failed") ELSE Goto(r, "generic") /\ UNCHANGED end
    /\ UNCHANGED <<link, queue, plan, made, goal, results, browser>>

\* selectGenericSession: the page the person has bound is ready, or the open is refused.
Bound == tabs[Own].state = "ready"

\* Without `fresh` the session is taken as it is, cancelled or not.
GenericChosen(r) ==
    /\ pc[r] = "generic"
    /\ \/ /\ ~Bound
          /\ Finish(r, "refused") /\ UNCHANGED checked
       \/ /\ Bound /\ ~want[r].fresh
          /\ Goto(r, "select") /\ UNCHANGED <<end, checked>>
       \/ /\ Bound /\ want[r].fresh /\ r \in aborted
          /\ Finish(r, "failed") /\ UNCHANGED checked
       \/ /\ Bound /\ want[r].fresh /\ r \notin aborted
          /\ Goto(r, "ensure") /\ checked' = checked \cup {r} /\ UNCHANGED end
    /\ UNCHANGED <<link, queue, plan, made, goal, results, tabs, markers, acted>>

\* ensureGenericContentScript answered, and the command is sent without another look at the signal.
GenericEnsured(r) ==
    /\ pc[r] = "ensure"
    /\ Finish(r, "failed") \/ (Goto(r, "command") /\ UNCHANGED end)
    /\ UNCHANGED <<link, queue, plan, made, goal, results, browser>>

\* BACHATA_GENERIC_NEW_CONVERSATION reaches the site's control and the page clicks it.
GenericReset(r) ==
    /\ pc[r] = "command"
    /\ Goto(r, "reset") /\ Acts(r)
    /\ UNCHANGED <<link, queue, plan, made, goal, end, results, tabs, markers, checked>>

\* The command answered, whether or not anything had to be clicked or could be.
GenericAnswered(r) ==
    /\ pc[r] \in {"command", "reset"}
    /\ IF r \in aborted THEN Finish(r, "failed") ELSE Goto(r, "session") /\ UNCHANGED end
    /\ UNCHANGED <<link, queue, plan, made, goal, results, browser>>

\* awaitGenericSession and freshGenericVerdict.  A wait that was cancelled is one more refusal; a
\* session that was being read when the cancellation came is taken.
GenericSession(r) ==
    /\ pc[r] = "session"
    /\ Finish(r, "refused") \/ (Goto(r, "select") /\ UNCHANGED end)
    /\ UNCHANGED <<link, queue, plan, made, goal, results, browser>>

\* The person closes a tab that was opened for an id.
TabCloses(t) ==
    /\ IsOpen(t) /\ tabs' = [tabs EXCEPT ![t] = [conv |-> None, state |-> "absent"]]
    /\ markers' = Unmarked(t)
    /\ UNCHANGED <<link, queue, runs, results, past>>

-----------------------------------------------------------------------------
Init ==
    /\ want \in Wants
    /\ sock = 1 /\ dropping = FALSE /\ socks = 1 /\ asks = 0
    /\ entry = [r \in Req |-> "none"] /\ queued = <<>> /\ active = 0 /\ aborted = {}
    /\ from = [r \in Req |-> 0]
    /\ pc = [r \in Req |-> "idle"] /\ plan = [r \in Req |-> "none"]
    /\ made = [r \in Req |-> None] /\ goal = [r \in Req |-> None] /\ end = [r \in Req |-> None]
    /\ kept = [r \in Req |-> None] /\ order = <<>> /\ hear = {}
    /\ tabs = [t \in Tab |-> IF t = Own THEN [conv |-> Start, state |-> "ready"]
                             ELSE [conv |-> None, state |-> "absent"]]
    /\ markers = <<>> /\ checked = {} /\ acted = {}

Works(r) ==
    \/ BeginNative(r) \/ BusyConversation(r) \/ SessionsRead(r) \/ PreferredTab(r)
    \/ CreateTab(r) \/ CreateFails(r) \/ PageRegistered(r) \/ PageFails(r)
    \/ StatusSent(r) \/ SelectSession(r)
    \/ BeginGeneric(r) \/ GenericChosen(r) \/ GenericEnsured(r)
    \/ GenericReset(r) \/ GenericAnswered(r) \/ GenericSession(r)
    \/ Returns(r)

Next ==
    \/ \E r \in Req : Open(r) \/ Cancel(r) \/ Works(r)
    \/ LinkLost \/ PopupCancels \/ PopupDrops \/ LinkOpens
    \/ \E t \in Created : TabCloses(t)

Spec == Init /\ [][Next]_vars

\* Every await of an operation ends: tabs and storage answer, the waits have deadlines.
FairSpec == Spec /\ \A r \in Req : WF_vars(Works(r))

-----------------------------------------------------------------------------
Promise == INSTANCE OpenPromise WITH pending <- {r \in Req : entry[r] # "none"}

(* The queue keeps what an open request is promised: a pending id is       *)
(* settled, once, and then has a result until the bounded memory drops it, *)
(* through cancellation of queued and running operations and lost          *)
(* connections (provisioning.ts, index.ts 846-925).                        *)
KeepsThePromise == Promise!Spec

(* An open request accepted on the connection that is still the current    *)
(* one has been answered on it, or is pending and will be.                 *)
AskersAreAnswered == \A r \in hear : entry[r] # "none" /\ from[r] = sock

(* Slots are neither lost nor exceeded: the counter is the number of       *)
(* operations under way, cancelled ones included, and nothing waits while  *)
(* one is free (provisioning.ts pump, finally).                            *)
SlotsAreKept ==
    /\ active = Cardinality({r \in Req : pc[r] # "idle"})
    /\ active <= MaxConcurrent
    /\ queued # <<>> => active = MaxConcurrent
    /\ {r \in Req : entry[r] = "queued"} = Range(queued)

(* An operation that was cancelled while it awaited opens no tab, does not *)
(* navigate the person's and presses nothing in it (BB-A4-F10,             *)
(* index.ts:746).  What this leaves out is the fresh generic open: its     *)
(* signal is read for the last time at index.ts:679, and a cancellation    *)
(* that comes later, while the page's script is ensured or the command is  *)
(* on its way, does not keep the page from starting a new conversation.    *)
NothingAfterCancel == acted \subseteq checked

(* A provisional marker, which lets a first prompt adopt the conversation  *)
(* its tab turns out to have, is never left on a tab that is gone, however *)
(* the operation that opened it ends (closeCreatedTab, the catch of        *)
(* provisionProviderConversation, the onRemoved listener).                 *)
MarkersAreOpenTabs == \A i \in DOMAIN markers : IsOpen(markers[i])

(* "disconnect: cancel outstanding operations" (docs/PROTOCOL.md:39), and  *)
(* a cancelled operation touches nothing: the new conversation above.      *)
CancelledTouchesNothing == acted = {}

(* "A tab on it that is not ready is refused with PROVIDER_NOT_READY, so a *)
(* second tab never races the first" (docs/PROTOCOL.md:41).  Two ids for   *)
(* one conversation both plan before either has opened its tab.            *)
OneTabPerConversation ==
    \A t, u \in Created :
        t # u /\ IsOpen(t) /\ IsOpen(u) /\ tabs[t].conv = tabs[u].conv => tabs[t].conv = Start
=============================================================================
