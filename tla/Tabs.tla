-------------------------------- MODULE Tabs --------------------------------
(***************************************************************************)
(* What the worker believes about the browser's tabs while they navigate   *)
(* (src/src/background/index.ts 255-635, 2176-2565, 2850-3155,             *)
(* navigationEvents.ts, tabChange.ts): the navigation tracker, the change  *)
(* of a tab, injection and registration of a document, the selection, and  *)
(* the provider status that is published from all of it.                   *)
(*                                                                         *)
(* A document is told apart by a number, a conversation or website by a    *)
(* place.  An action is the code between two awaits; the socket is open    *)
(* throughout (module Connection).                                         *)
(***************************************************************************)
EXTENDS Naturals, Sequences, FiniteSets

CONSTANTS
    ProviderTab,   \* tabs for ChatGPT and Claude
    GenericTab,    \* tabs for a website
    Chat,          \* conversations
    Start,         \* the one a provider's start page has
    Site,          \* origins of websites
    HomeSite,      \* the one the person's website tab shows
    Away,          \* any other address
    Opened,        \* tabs the person has used so far
    Budgets,       \* how often the browser moves (and moves other tabs than the person's
                   \* conversations), the popup is used and a request begins
    None

Tab == ProviderTab \cup GenericTab

ASSUME TabsAssumption ==
    /\ ProviderTab \cap GenericTab = {}
    /\ Start \in Chat /\ HomeSite \in Site /\ Opened \subseteq Tab /\ Chat \cap Site = {} /\ Away \notin Chat \cup Site
    /\ None \notin Chat \cup Site \cup Tab \cup {Away}
    /\ Budgets \subseteq [moves : Nat, others : Nat, clicks : Nat, turns : Nat]

Place   == Chat \cup Site \cup {Away}
Binding == [doc : Nat, at : Place]
Bound   == [tab : Tab, on : Binding]
Picked  == [tab : Tab, doc : Nat, at : Place]

\* A publication, or a mutation of the popup, and what it read before it waits.
Publication == [step : {"status"}, of : SUBSET Bound] \cup [step : {"release"}, of : SUBSET Picked]
Mutation    == [step : {"ensure", "status"}, tab : Tab, of : SUBSET Bound]
               \cup [step : {"select", "publish"}, tab : Tab, of : SUBSET Picked]
               \cup [step : {"publish", "discover"}, tab : {None}, of : {{}}]

ASSUME NoneAssumption ==
    /\ None \notin Publication /\ None \notin Mutation
    /\ None \notin [doc : Nat, at : Place \cup {None}] /\ None \notin [doc : Nat, at : Place, initial : BOOLEAN]

VARIABLES
    page,       \* the browser: document, place and whether our script runs in it
    permitted,  \* origins the person lets the extension read
    nav, upd,   \* webNavigation and tabs events not yet handled
    tracker,    \* the tracker's states
    accepted,   \* its counter
    checks,     \* navigations waiting for chrome.permissions.contains
    bound,      \* documentsByTab
    reg,        \* generic registrations
    handled,    \* stored.handledTabIds
    released,   \* releasedTabIds
    sel,        \* stored.selectedTabId and selectedSessionId
    turn,       \* the active request of a tab: the document and conversation it is bound to
    drops,      \* tabs whose dropTab or left origin awaits releaseOwnedFavicon
    probes,     \* changes of a tab awaiting tabs.get, then the script
    rebinds,    \* content.register handlers awaiting the release of a selection
    ensure,     \* contentScriptOperations: where the operation of a tab awaits
    asked,      \* a publication newer than the one under way waits in providerStatusQueue
    pub,        \* the publication under way
    sent,       \* the provider.status the controller has
    popup,      \* the popup mutation under way
    applied,    \* history: the last navigation of each tab that was acted on
    overlapped, \* history: tabs whose page was loaded while an operation of the one before was under way,
                \* or a first prompt was left there whose binding a probe had dropped
    late,       \* history: the bindings that were kept for a page that was gone by then
    used        \* how much of a budget is used

browser == <<page, permitted, nav, upd>>
tracked == <<tracker, accepted, checks, applied, overlapped, late>>
docs    == <<bound, reg, handled, released, turn>>
jobs    == <<drops, probes, rebinds, ensure>>
status  == <<asked, pub, sent>>
chosen  == <<sel, popup>>
vars    == <<browser, tracked, docs, jobs, status, chosen, used>>

Now(t) == [doc |-> page[t].doc, at |-> page[t].at]
Exists(t) == page[t].at # None
Provider(t) == page[t].at \in Chat
IsGeneric(t) == t \in GenericTab /\ reg[t] # None

\* What selects a session: its tab, document and conversation.
Session(t, b) == [tab |-> t, doc |-> b.doc, at |-> b.at]

SelectedTab(t) == sel # None /\ sel.tab = t

\* A first prompt that has yet to move to its conversation: the one navigation a request may make.
PendingInitialTransition(t) == turn[t] # None /\ turn[t].initial /\ turn[t].at = Start

-----------------------------------------------------------------------------
(* The browser. *)

\* Mixtures of what comes from outside; each behaviour stays within one of them.
Uses(what) ==
    /\ used' = [w \in DOMAIN used |-> IF w \in what THEN used[w] + 1 ELSE used[w]]
    /\ \E b \in Budgets : \A w \in DOMAIN used : used'[w] <= b[w]

Moved(t) == Uses(IF t \in ProviderTab \cap Opened THEN {"moves"} ELSE {"moves", "others"})

Places(t) == {Away} \cup IF t \in ProviderTab THEN Chat ELSE Site

Committed(t, d, p) == [kind |-> "committed", tab |-> t, doc |-> d, at |-> p]
Routed(t, d, p) == [kind |-> "history", tab |-> t, doc |-> d, at |-> p]
Updated(t, p) == [kind |-> "url", tab |-> t, doc |-> 0, at |-> p]
Complete(t) == [kind |-> "complete", tab |-> t, doc |-> 0, at |-> None]

\* Nothing is under way for a tab, nor is a first prompt left there whose binding a probe has dropped.
Undisturbed(t) ==
    /\ ensure[t] = "none" /\ (popup = None \/ popup.tab # t)
    /\ PendingInitialTransition(t) => bound[t] # None

\* A new tab, a navigation or a reload: another document, without our script.
Loads(t, p) ==
    /\ Exists(t) \/ page[t].doc = 0
    /\ Moved(t)
    /\ page' = [page EXCEPT ![t] = [doc |-> @.doc + 1, at |-> p, script |-> FALSE]]
    /\ nav' = Append(nav, Committed(t, page[t].doc + 1, p))
    /\ upd' = upd \o (IF p = page[t].at THEN <<>> ELSE <<Updated(t, p)>>) \o <<Complete(t)>>
    /\ overlapped' = IF Undisturbed(t) THEN overlapped \ {t} ELSE overlapped \cup {t}
    /\ UNCHANGED <<permitted, tracker, accepted, checks, applied, late, docs, jobs, status, chosen>>

\* history.pushState: the same document on another route.
Routes(t, p) ==
    /\ t \in ProviderTab /\ Exists(t) /\ {p, page[t].at} \subseteq Chat /\ p # page[t].at /\ Moved(t)
    /\ page' = [page EXCEPT ![t].at = p]
    /\ nav' = Append(nav, Routed(t, page[t].doc, p))
    /\ upd' = Append(upd, Updated(t, p))
    /\ UNCHANGED <<permitted, tracked, docs, jobs, status, chosen>>

Closes(t) ==
    /\ Exists(t) /\ Moved(t)
    /\ page' = [page EXCEPT ![t].at = None, ![t].script = FALSE]
    /\ upd' = Append(upd, [kind |-> "removed", tab |-> t, doc |-> 0, at |-> None])
    /\ UNCHANGED <<permitted, nav, tracked, docs, jobs, status, chosen>>

\* A prerendered tab takes the place of another one.
Replaces(t, u) ==
    /\ Exists(t) /\ ~Exists(u) /\ page[u].doc = 0 /\ {t, u} \subseteq ProviderTab /\ Moved(u)
    /\ page' = [page EXCEPT ![t].at = None, ![t].script = FALSE,
                            ![u] = [doc |-> 1, at |-> page[t].at, script |-> FALSE]]
    /\ upd' = Append(upd, [kind |-> "replaced", tab |-> t, doc |-> 0, at |-> u])
    /\ UNCHANGED <<permitted, nav, tracked, docs, jobs, status, chosen>>

\* The person takes a website back in the browser's settings.
Revokes(s) ==
    /\ s \in permitted /\ Moved(None)
    /\ permitted' = permitted \ {s}
    /\ UNCHANGED <<page, nav, upd, tracked, docs, jobs, status, chosen>>

-----------------------------------------------------------------------------
(* Provider status: one publication at a time; a call of sendProviderStatus *)
(* makes every earlier one stale, so only the newest of the queue matters. *)

\* mutant: a call made while a publication is under way is left to that publication
RefreshUnlessBusy == asked' = (asked \/ pub = None)

\* sendProviderStatus
Refresh == asked' = TRUE

\* Which documents a build of the sessions asks, once the tabs are queried: live bindings and registrations.
Candidates ==
    {[tab |-> t, on |-> bound[t]] : t \in {u \in ProviderTab :
        bound[u] # None /\ u \notin released /\ bound[u].at = page[u].at}}
    \cup {[tab |-> t, on |-> reg[t]] : t \in {u \in GenericTab : reg[u] # None}}

\* Those that answer as the page they name are the sessions.
Answering(c) == {Session(x.tab, x.on) : x \in {y \in c : Now(y.tab) = y.on /\ page[y.tab].script}}

\* genericStatus injects the script where it is missing; the new document answers with a token of its own.
Injected(c) == [t \in Tab |-> IF t \in GenericTab /\ (\E x \in c : x.tab = t) /\ page[t].at \in permitted
                            THEN [page[t] EXCEPT !.script = TRUE] ELSE page[t]]

PubBegin ==
    /\ asked /\ pub = None
    /\ asked' = FALSE
    /\ pub' = [step |-> "status", of |-> Candidates]
    /\ UNCHANGED <<browser, tracked, docs, jobs, sent, chosen, used>>

HasActiveInitialTransition == sel # None /\ turn[sel.tab] # None /\ turn[sel.tab].initial

Publish(S) == sent' = [sessions |-> S, selected |-> sel] /\ pub' = None

(* publishProviderStatus once the pages have answered: a selection that    *)
(* none of the sessions is ends here.                                      *)
PubStatuses ==
    /\ pub # None /\ pub.step = "status"
    /\ page' = Injected(pub.of)
    /\ LET S == Answering(pub.of) IN
       IF asked \/ (sel # None /\ sel \notin S /\ HasActiveInitialTransition)
       THEN pub' = None /\ UNCHANGED <<sel, sent>>
       ELSE IF sel # None /\ sel \notin S
       THEN /\ sel' = None
            /\ pub' = [pub EXCEPT !.step = "release", !.of = S]
            /\ UNCHANGED sent
       ELSE Publish(S) /\ UNCHANGED sel

PubAnswered ==
    /\ PubStatuses
    /\ UNCHANGED <<permitted, nav, upd, tracked, docs, jobs, asked, popup, used>>

\* The selection is saved and its favicon released.
PubReleased ==
    /\ pub # None /\ pub.step = "release"
    /\ IF asked THEN pub' = None /\ UNCHANGED sent
       ELSE sent' = [sessions |-> pub.of, selected |-> None] /\ pub' = None
    /\ UNCHANGED <<browser, tracked, docs, jobs, asked, chosen, used>>

-----------------------------------------------------------------------------
(* The change of a tab (applyTabChange). *)

\* removeActiveRequest and SESSION_CHANGED for what runs in the tab.
FailRequests(t) == turn' = [turn EXCEPT ![t] = None]

Deselect(t) == IF SelectedTab(t) THEN None ELSE sel

\* A website's tab that is registered: genericTabChangeVerdict.
GenericChange(t, p) ==
    /\ IF p \notin {None, reg[t].at}
       THEN drops' = drops \cup {<<t, "origin">>} /\ UNCHANGED asked
       ELSE Refresh /\ UNCHANGED drops
    /\ UNCHANGED <<bound, reg, handled, released, turn, sel, probes>>

\* mutant: a replaced document is forgotten like a tab that left
DropDocumentAndTab(t) ==
    /\ bound' = [bound EXCEPT ![t] = None]
    /\ handled' = handled \ {t}
    /\ sel' = Deselect(t)
    /\ FailRequests(t)

\* dropDocument: the document is gone, the tab is not (BB-A4-N04).
DropDocument(t) ==
    /\ bound' = [bound EXCEPT ![t] = None]
    /\ FailRequests(t)
    /\ UNCHANGED <<handled, sel>>

\* Any other tab: providerTabUrlVerdict for a url p of document d, where 0 is an unnamed one.
UrlChange(t, p, d) ==
    /\ IF p \notin Chat
       THEN drops' = drops \cup {<<t, "tab">>} /\ UNCHANGED <<bound, handled, turn, sel, asked>>
       ELSE IF bound[t] # None /\ d # 0 /\ bound[t].doc # d
       THEN DropDocument(t) /\ Refresh /\ UNCHANGED drops
       ELSE IF turn[t] # None
       THEN UNCHANGED <<bound, handled, turn, sel, asked, drops>>
       ELSE IF bound[t] # None /\ bound[t].at # p
       THEN drops' = drops \cup {<<t, "tab">>} /\ UNCHANGED <<bound, handled, turn, sel, asked>>
       ELSE Refresh /\ UNCHANGED <<bound, handled, turn, sel, drops>>
    /\ UNCHANGED <<reg, released, probes>>

(* A finished load: a tracked tab is probed, unless it makes the one move  *)
(* its request allows.  The refresh follows the probe.                     *)
Completed(t) ==
    /\ IF PendingInitialTransition(t)
       THEN UNCHANGED <<probes, asked>>
       ELSE IF bound[t] # None \/ SelectedTab(t) \/ t \in handled
       THEN probes' = probes \cup {<<t, "get">>} /\ UNCHANGED asked
       ELSE Refresh /\ UNCHANGED probes
    /\ UNCHANGED <<docs, sel, drops>>

TabChange(t, p, d) ==
    IF IsGeneric(t) THEN GenericChange(t, p)
    ELSE IF p = None THEN Completed(t)
    ELSE UrlChange(t, p, d)

\* The favicon is released: dropTab, or the end of a registration that left its origin.
Dropped(t, what) ==
    /\ <<t, what>> \in drops /\ drops' = drops \ {<<t, what>>}
    /\ IF what = "origin"
       THEN reg' = [reg EXCEPT ![t] = None] /\ UNCHANGED <<bound, handled, released>>
       ELSE /\ released' = released \cup {t} /\ handled' = handled \ {t}
            /\ bound' = [bound EXCEPT ![t] = None]
            /\ UNCHANGED reg
    /\ sel' = Deselect(t)
    /\ FailRequests(t)
    /\ Refresh
    /\ UNCHANGED <<browser, tracked, probes, rebinds, ensure, pub, sent, popup, used>>

-----------------------------------------------------------------------------
(* Navigation events (navigationEvents.ts). *)

Known(t) == tracker[t] # None

\* normalizeNavigationEvent and isEffectiveTransition; what is refused leaves no trace.
Accepts(e) ==
    /\ e.at \in Chat \/ e.at \in {reg[t].at : t \in {u \in GenericTab : reg[u] # None}}
    /\ Known(e.tab) =>
         IF e.kind = "history"
         THEN tracker[e.tab].doc \in {0, e.doc} /\ e.at # tracker[e.tab].at
         ELSE e.doc = 0 \/ e.doc # tracker[e.tab].doc

Track(e) ==
    /\ accepted' = accepted + 1
    /\ tracker' = [tracker EXCEPT ![e.tab] = [doc |-> e.doc, at |-> e.at, seq |-> accepted + 1]]

\* The document a navigation names, when it is a new one.
NewDoc(e) == IF e.kind = "history" THEN 0 ELSE e.doc

\* handleNavigationEvent up to its first await: a provider's page is acted on at once.
Navigated(e) ==
    IF ~Accepts(e)
    THEN UNCHANGED <<tracker, accepted, checks, applied, docs, sel, drops, probes, asked>>
    ELSE /\ Track(e)
         /\ IF e.at \in Site
            THEN /\ checks' = checks \cup {[tab |-> e.tab, at |-> e.at, doc |-> NewDoc(e), seq |-> accepted + 1]}
                 /\ UNCHANGED <<docs, sel, drops, probes, asked, applied>>
            ELSE /\ TabChange(e.tab, e.at, NewDoc(e))
                 /\ applied' = [applied EXCEPT ![e.tab] = accepted + 1]
                 /\ UNCHANGED checks

NavEvent ==
    /\ nav # <<>> /\ nav' = Tail(nav)
    /\ Navigated(Head(nav))
    /\ UNCHANGED <<page, permitted, upd, overlapped, late, rebinds, ensure, pub, sent, popup, used>>

\* mutant: what the tab has done since is not looked at
StillAnyNavigation(c) == TRUE

\* isCurrent
StillCurrent(c) == Known(c.tab) /\ tracker[c.tab].seq = c.seq

\* The permission was read: the tab may have moved on, or the site may have been taken back.
Permitted(c) ==
    /\ c \in checks /\ checks' = checks \ {c}
    /\ IF ~StillCurrent(c)
       THEN UNCHANGED <<tracker, applied, docs, sel, drops, probes, asked>>
       ELSE /\ applied' = [applied EXCEPT ![c.tab] = c.seq]
            /\ IF c.at \in permitted
               THEN TabChange(c.tab, c.at, c.doc) /\ UNCHANGED tracker
               ELSE /\ tracker' = [tracker EXCEPT ![c.tab] = None]
                    /\ reg' = [reg EXCEPT ![c.tab] = None]
                    /\ FailRequests(c.tab)
                    /\ sel' = Deselect(c.tab)
                    /\ Refresh
                    /\ UNCHANGED <<bound, handled, released, drops, probes>>
    /\ UNCHANGED <<browser, accepted, overlapped, late, rebinds, ensure, pub, sent, popup, used>>

\* tabs.onUpdated.  The browser reports a finished load after the commit of its document.
UpdEvent ==
    /\ upd # <<>> /\ upd' = Tail(upd)
    /\ Head(upd).kind \in {"url", "complete"}
    /\ Head(upd).kind = "complete" => \A i \in DOMAIN nav : nav[i].tab # Head(upd).tab
    /\ TabChange(Head(upd).tab, Head(upd).at, 0)
    /\ UNCHANGED <<page, permitted, nav, tracked, rebinds, ensure, pub, sent, popup, used>>

\* mutant: the document of a tab that is gone is kept
GoneKeepingDocument(t) ==
    /\ UNCHANGED bound
    /\ handled' = handled \ {t}
    /\ FailRequests(t)
    /\ sel' = Deselect(t)

\* What both onRemoved and onReplaced do for a tab that is gone.
Gone(t) ==
    /\ bound' = [bound EXCEPT ![t] = None]
    /\ handled' = handled \ {t}
    /\ FailRequests(t)
    /\ sel' = Deselect(t)

RemEvent ==
    /\ upd # <<>> /\ Head(upd).kind = "removed" /\ upd' = Tail(upd)
    /\ LET t == Head(upd).tab IN
       /\ Gone(t)
       /\ tracker' = [tracker EXCEPT ![t] = None]
       /\ released' = released \ {t}
       /\ reg' = [r \in GenericTab |-> IF r = t THEN None ELSE reg[r]]
    /\ Refresh
    /\ UNCHANGED <<page, permitted, nav, accepted, checks, applied, overlapped, late, jobs, pub, sent, popup, used>>

(* onReplaced.  The surviving tab is read and judged as a first navigation *)
(* that names no document.                                                 *)
ReplEvent ==
    /\ upd # <<>> /\ Head(upd).kind = "replaced" /\ upd' = Tail(upd)
    /\ LET t == Head(upd).tab  u == Head(upd).at IN
       /\ Gone(t)
       /\ tracker' = [tracker EXCEPT ![t] = None, ![u] = None]
       /\ nav' = IF Exists(u) THEN <<Committed(u, 0, page[u].at)>> \o nav ELSE nav
    /\ Refresh
    /\ UNCHANGED <<page, permitted, accepted, checks, applied, overlapped, late, reg, released, jobs, pub, sent, popup, used>>

-----------------------------------------------------------------------------
(* Injection and registration of a document. *)


\* ensureContentScript joins the operation that is under way for the tab.
Ensure(S) == ensure' = [t \in Tab |-> IF t \in S \cap ProviderTab /\ ensure[t] = "none" THEN "load" ELSE ensure[t]]

\* The tab a finished load was reported for is still a provider's, or is dropped.
Probes(t) ==
    /\ <<t, "get">> \in probes
    /\ IF Provider(t)
       THEN Ensure({t}) /\ probes' = (probes \ {<<t, "get">>}) \cup {<<t, "ensure">>} /\ UNCHANGED drops
       ELSE drops' = drops \cup {<<t, "tab">>} /\ probes' = probes \ {<<t, "get">>} /\ UNCHANGED ensure
    /\ UNCHANGED <<browser, tracked, docs, rebinds, status, chosen, used>>

Probed(t) ==
    /\ <<t, "ensure">> \in probes /\ ensure[t] = "none"
    /\ probes' = probes \ {<<t, "ensure">>} /\ Refresh
    /\ UNCHANGED <<browser, tracked, docs, drops, rebinds, ensure, pub, sent, chosen, used>>

\* runContentScriptEnsure goes on to the document the tab has, or asks for one.
EnsureLoad(t) ==
    /\ ensure[t] = "load"
    /\ ensure' = [ensure EXCEPT ![t] = IF ~Provider(t) THEN "none" ELSE IF bound[t] # None THEN "probe" ELSE "ask"]
    /\ UNCHANGED <<bound, page>>

\* provider.status of the bound document: silence ends the binding, whatever it is by now.
EnsureProbe(t) ==
    /\ ensure[t] = "probe"
    /\ IF bound[t] # None /\ page[t].doc = bound[t].doc /\ page[t].script
       THEN ensure' = [ensure EXCEPT ![t] = "none"] /\ UNCHANGED bound
       ELSE ensure' = [ensure EXCEPT ![t] = "ask"] /\ bound' = [bound EXCEPT ![t] = None]
    /\ UNCHANGED page

\* content.reregister, and the injection where nobody answers it.
EnsureAsk(t) ==
    /\ ensure[t] = "ask"
    /\ IF page[t].script THEN UNCHANGED bound ELSE bound' = [bound EXCEPT ![t] = None]
    /\ ensure' = [ensure EXCEPT ![t] = IF page[t].script /\ bound[t] # None THEN "none" ELSE "inject"]
    /\ UNCHANGED page

EnsureInject(t) ==
    /\ ensure[t] = "inject"
    /\ IF Exists(t) /\ Provider(t)
       THEN page' = [page EXCEPT ![t].script = TRUE] /\ ensure' = [ensure EXCEPT ![t] = "wait"]
       ELSE ensure' = [ensure EXCEPT ![t] = "none"] /\ UNCHANGED page
    /\ UNCHANGED bound

\* waitForDocumentRegistration, which gives up on a page that is gone.
EnsureWait(t) ==
    /\ ensure[t] = "wait"
    /\ bound[t] # None \/ ~page[t].script
    /\ ensure' = [ensure EXCEPT ![t] = "none"]
    /\ UNCHANGED <<bound, page>>

EnsureSteps(t) == EnsureLoad(t) \/ EnsureProbe(t) \/ EnsureAsk(t) \/ EnsureInject(t) \/ EnsureWait(t)

Ensures(t) ==
    /\ EnsureSteps(t)
    /\ UNCHANGED <<permitted, nav, upd, tracked, reg, handled, released, turn, drops, probes, rebinds, status, chosen, used>>

\* The page says where it is: on injection, when its route changes, every ten seconds.
Says(t) == t \in ProviderTab /\ page[t].script /\ bound[t] # Now(t)

SameTurn(t) == turn[t] # None /\ turn[t].doc = page[t].doc /\ turn[t].at = page[t].at

(* content.register: a document that replaces another one ends the         *)
(* selection first; while a request runs in the tab it changes nothing.    *)
Registers(t) ==
    /\ Says(t)
    /\ SameTurn(t) \/ bound[t] = None \/ turn[t] = None
    /\ IF bound[t] # None /\ ~SameTurn(t) /\ SelectedTab(t)
       THEN sel' = None /\ rebinds' = rebinds \cup {<<t, Now(t)>>} /\ UNCHANGED <<bound, asked>>
       ELSE /\ bound' = [bound EXCEPT ![t] = Now(t)]
            /\ IF SameTurn(t) THEN UNCHANGED asked ELSE Refresh
            /\ UNCHANGED <<sel, rebinds>>
    /\ UNCHANGED <<browser, tracked, reg, handled, released, turn, drops, probes, ensure, pub, sent, popup, used>>

\* The selection is released: the handler binds the page it was called by, whatever became of it.
Rebound(t, b) ==
    /\ <<t, b>> \in rebinds /\ rebinds' = rebinds \ {<<t, b>>}
    /\ bound' = [bound EXCEPT ![t] = b]
    /\ late' = IF Exists(t) /\ page[t].doc = b.doc THEN late ELSE late \cup {<<t, b>>}
    /\ Refresh
    /\ UNCHANGED <<browser, tracker, accepted, checks, applied, overlapped, reg, handled, released, turn, drops, probes, ensure, pub, sent, chosen, used>>

\* BACHATA_GENERIC_REGISTER of a website the person may still have it read.
GenericRegisters(t) ==
    /\ t \in GenericTab /\ page[t].script /\ page[t].at \in permitted /\ reg[t] # Now(t)
    /\ reg' = [reg EXCEPT ![t] = Now(t)]
    /\ Refresh
    /\ UNCHANGED <<browser, tracked, bound, handled, released, turn, jobs, pub, sent, chosen, used>>

-----------------------------------------------------------------------------
(* Requests, as far as the tab is concerned. *)

Begins(t) ==
    /\ Uses({"turns"})
    /\ turn[t] = None /\ t \notin released /\ page[t].script
    /\ Now(t) = IF t \in ProviderTab THEN bound[t] ELSE reg[t]
    /\ turn' = [turn EXCEPT ![t] = [doc |-> page[t].doc, at |-> page[t].at, initial |-> page[t].at = Start]]
    /\ UNCHANGED <<browser, tracked, bound, reg, handled, released, jobs, status, chosen>>

\* content.transition: the conversation the provider gave to a first prompt (applyTransition).
Transition(t) ==
    /\ PendingInitialTransition(t)
    /\ page[t].script /\ page[t].doc = turn[t].doc /\ page[t].at \in Chat \ {Start}
    /\ turn' = [turn EXCEPT ![t].at = page[t].at]
    /\ bound' = [bound EXCEPT ![t] = Now(t)]
    /\ UNCHANGED <<browser, tracked, reg, handled, released, jobs, status, chosen, used>>

\* content.response: a selection of the tab follows it to its conversation.
Answered(t) ==
    /\ turn[t] # None
    /\ IF t \in GenericTab THEN Now(t) = reg[t] ELSE SameTurn(t) /\ bound[t] = Now(t)
    /\ turn' = [turn EXCEPT ![t] = None]
    /\ sel' = IF SelectedTab(t) THEN Session(t, Now(t)) ELSE sel
    /\ Refresh
    /\ UNCHANGED <<browser, tracked, bound, reg, handled, released, jobs, pub, sent, popup, used>>

\* content.error, a Stop, a deadline.
Fails(t) ==
    /\ turn[t] # None /\ FailRequests(t) /\ Refresh
    /\ UNCHANGED <<browser, tracked, bound, reg, handled, released, jobs, pub, sent, chosen, used>>

-----------------------------------------------------------------------------
(* The popup; its mutations run one at a time. *)

Click == popup = None /\ Uses({"clicks"})

Handle(S) == handled' = handled \cup S /\ released' = released \ S

Wait(step, t) == popup' = [step |-> step, tab |-> t, of |-> {}]

PopupSelect(t) ==
    /\ Click /\ Exists(t)
    /\ t \in GenericTab => reg[t] # None
    /\ Handle({t}) /\ Ensure({t}) /\ Wait("ensure", t)
    /\ UNCHANGED <<browser, tracked, bound, reg, turn, drops, probes, rebinds, status, sel>>

PopupEnsured ==
    /\ popup # None /\ popup.step = "ensure" /\ ensure[popup.tab] = "none"
    /\ popup' = [popup EXCEPT !.step = "status", !.of = Candidates]
    /\ UNCHANGED <<browser, tracked, docs, jobs, status, sel, used>>

\* The tab has no session, or one that is not ready: an error.
PopupBuilt ==
    /\ popup # None /\ popup.step = "status"
    /\ page' = Injected(popup.of)
    /\ \/ popup' = None
       \/ \E s \in Answering(popup.of) :
            s.tab = popup.tab /\ popup' = [popup EXCEPT !.step = "select", !.of = {s}]
    /\ UNCHANGED <<permitted, nav, upd, tracked, docs, jobs, status, sel, used>>

\* selectOwnedSession once the favicon is there.
PopupSelected ==
    /\ popup # None /\ popup.step = "select"
    /\ sel' \in popup.of
    /\ Handle({popup.tab})
    /\ popup' = [popup EXCEPT !.step = "publish"]
    /\ UNCHANGED <<browser, tracked, bound, reg, turn, jobs, asked, pub, sent, used>>

PopupDeselect ==
    /\ Click /\ sel' = None /\ Wait("publish", None)
    /\ UNCHANGED <<browser, tracked, docs, jobs, status>>

PopupDiscover ==
    /\ Click
    /\ LET found == {t \in ProviderTab : Provider(t)}
                    \cup {t \in GenericTab : reg[t] # None /\ page[t].at = reg[t].at} IN
       Handle(found) /\ Ensure(found)
    /\ Wait("discover", None)
    /\ UNCHANGED <<browser, tracked, bound, reg, turn, drops, probes, rebinds, status, sel>>

\* Saved, released and injected: sendProviderStatus.
PopupPublishes ==
    /\ popup # None
    /\ \/ popup.step = "publish"
       \/ popup.step = "discover" /\ \A t \in Tab : ensure[t] = "none"
    /\ popup' = None /\ Refresh
    /\ UNCHANGED <<browser, tracked, docs, jobs, pub, sent, sel, used>>

-----------------------------------------------------------------------------
(* The person has used some tabs already; others are not open yet.         *)
Init ==
    /\ page = [t \in Tab |-> IF t \notin Opened THEN [doc |-> 0, at |-> None, script |-> FALSE]
                   ELSE [doc |-> 1, at |-> IF t \in ProviderTab THEN Start ELSE HomeSite, script |-> TRUE]]
    /\ permitted = Site
    /\ nav = <<>> /\ upd = <<>>
    /\ tracker = [t \in Tab |-> None] /\ accepted = 0 /\ checks = {}
    /\ bound = [t \in Tab |-> IF t \in Opened \cap ProviderTab THEN Now(t) ELSE None]
    /\ reg = [t \in GenericTab |-> IF t \in Opened THEN Now(t) ELSE None]
    /\ handled = Opened /\ released = {} /\ sel = None
    /\ turn = [t \in Tab |-> None]
    /\ drops = {} /\ probes = {} /\ rebinds = {} /\ ensure = [t \in Tab |-> "none"]
    /\ asked = TRUE /\ pub = None /\ sent = [sessions |-> {}, selected |-> None]
    /\ popup = None
    /\ applied = [t \in Tab |-> 0] /\ overlapped = {} /\ late = {}
    /\ used = [moves |-> 0, others |-> 0, clicks |-> 0, turns |-> 0]

Browses ==
    \/ \E t \in Tab : (\E p \in Places(t) : Loads(t, p) \/ Routes(t, p)) \/ Closes(t)
    \/ \E t, u \in Tab : Replaces(t, u)
    \/ \E s \in Site : Revokes(s)

Pub == PubBegin \/ PubAnswered \/ PubReleased

Events == NavEvent \/ UpdEvent \/ RemEvent \/ ReplEvent \/ \E c \in checks : Permitted(c)

Documents(t) ==
    \/ \E what \in {"tab", "origin"} : Dropped(t, what)
    \/ Probes(t) \/ Probed(t) \/ Ensures(t) \/ Registers(t) \/ GenericRegisters(t)
    \/ \E r \in rebinds : r[1] = t /\ Rebound(t, r[2])

Requests(t) == Begins(t) \/ Transition(t) \/ Answered(t) \/ Fails(t)

Popup ==
    \/ \E t \in Tab : PopupSelect(t)
    \/ PopupEnsured \/ PopupBuilt \/ PopupSelected \/ PopupDeselect \/ PopupDiscover \/ PopupPublishes

Next == Browses \/ Pub \/ Events \/ (\E t \in Tab : Documents(t) \/ Requests(t)) \/ Popup

Spec == Init /\ [][Next]_vars

-----------------------------------------------------------------------------
TypeOK ==
    /\ page \in [Tab -> [doc : Nat, at : Place \cup {None}, script : BOOLEAN]]
    /\ permitted \subseteq Site
    /\ nav \in Seq([kind : {"committed", "history"}, tab : Tab, doc : Nat, at : Place])
    /\ upd \in Seq([kind : {"url"}, tab : Tab, doc : Nat, at : Place]
                   \cup [kind : {"complete", "removed"}, tab : Tab, doc : Nat, at : {None}]
                   \cup [kind : {"replaced"}, tab : ProviderTab, doc : Nat, at : ProviderTab])
    /\ tracker \in [Tab -> [doc : Nat, at : Place, seq : Nat] \cup {None}]
    /\ accepted \in Nat
    /\ checks \subseteq [tab : Tab, at : Place, doc : Nat, seq : Nat]
    /\ bound \in [Tab -> Binding \cup {None}] /\ reg \in [GenericTab -> Binding \cup {None}]
    /\ handled \subseteq Tab /\ released \subseteq Tab
    /\ sel \in Picked \cup {None}
    /\ turn \in [Tab -> [doc : Nat, at : Place, initial : BOOLEAN] \cup {None}]
    /\ drops \subseteq Tab \X {"tab", "origin"} /\ probes \subseteq Tab \X {"get", "ensure"}
    /\ rebinds \subseteq ProviderTab \X Binding
    /\ ensure \in [Tab -> {"none", "load", "probe", "ask", "inject", "wait"}]
    /\ asked \in BOOLEAN /\ pub \in Publication \cup {None}
    /\ sent \in [sessions : SUBSET Picked, selected : Picked \cup {None}]
    /\ popup \in Mutation \cup {None}
    /\ applied \in [Tab -> Nat] /\ overlapped \subseteq Tab /\ late \subseteq ProviderTab \X Binding
    /\ used \in [moves : Nat, others : Nat, clicks : Nat, turns : Nat]

-----------------------------------------------------------------------------
(* Nothing the code has begun is left to do.                               *)
Quiet ==
    /\ nav = <<>> /\ upd = <<>> /\ checks = {}
    /\ drops = {} /\ probes = {} /\ rebinds = {} /\ \A t \in Tab : ensure[t] = "none"
    /\ ~asked /\ pub = None /\ popup = None
    /\ \A t \in Tab : ~Says(t)
    /\ \A t \in GenericTab : ~(page[t].script /\ page[t].at \in permitted /\ reg[t] # Now(t))

(* The controller is never left with a session that is not there, nor with *)
(* a selection that is not the person's: a status built over several       *)
(* awaits that something overtook is dropped, and whatever ends a session  *)
(* has a newer one published.  (A session it does not know of yet comes    *)
(* with its page's next registration, at most ten seconds later.)          *)
StatusSettles ==
    Quiet /\ (\A t \in Tab : turn[t] = None) =>
        /\ sent.sessions \subseteq Answering(Candidates)
        /\ sent.selected = IF sel \in sent.sessions THEN sel ELSE None

(* A request ends with the page that was to answer it: a reload, a tab     *)
(* that closes, one that is replaced.                                      *)
TurnEndsWithItsDocument ==
    Quiet => \A t \in ProviderTab : turn[t] # None => Exists(t) /\ page[t].doc = turn[t].doc

(* A binding ends with its page.  Not so for a registration that waits for *)
(* the release of a selection while its page goes away: its handler binds  *)
(* the page without looking again.                                         *)
BindingsEndWithTheirPage ==
    Quiet => \A t \in ProviderTab : bound[t] # None => Exists(t) /\ bound[t].doc = page[t].doc

(* Nothing else the worker keeps names a page that is gone: no binding, no *)
(* registration outside its origin, no selection of a closed tab, in       *)
(* whatever order the browser's events and the pages' messages came.       *)
NothingNamesAGonePage ==
    Quiet => /\ \A t \in ProviderTab : bound[t] # None =>
                    (Exists(t) /\ bound[t].doc = page[t].doc) \/ <<t, bound[t]>> \in late
             /\ \A t \in GenericTab : reg[t] # None => page[t].at = reg[t].at
             /\ sel # None => Exists(sel.tab)

(* A page of the person's tab has our script again after a reload: a       *)
(* document that is replaced keeps the tab's record, which its finished    *)
(* load needs (dropDocument, BB-A4-N04).  Not so where the page was loaded *)
(* while an injection or a selection of the one before was under way,      *)
(* which the load joins, nor where a first prompt was left without its     *)
(* binding: the load is then taken for the one move it may make.           *)
StaysTracked ==
    Quiet => \A t \in (ProviderTab \cap Opened) \ (released \cup overlapped) : Provider(t) => page[t].script

(* A navigation of a tab is acted on only before those that came after it, *)
(* although a permission is read in between (isCurrent).                   *)
InOrder == [][\A t \in Tab : applied'[t] >= applied[t]]_vars
=============================================================================
