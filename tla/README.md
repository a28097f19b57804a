# TLA+ models of the Bachata Browser Bridge

The Browser Bridge is a browser extension that lets a VS Code extension (the *controller*) hold
conversations with ChatGPT, Claude or any other chat page (*generic* pages) that a person has open.
The controller talks to the extension's service worker (the *worker*, `src/background/index.ts`)
over one WebSocket; the worker talks to content scripts, one per document, with `chrome.tabs`
messages; the popup talks to the worker. Paths in this file are relative to the repository.

Everything in the worker runs on one thread, so what makes it hard is not memory races but
*awaits*: between any two of them another frame, a closed socket, a popup click, a navigation or a
worker restart may run, and the code after the await acts on what it read before.

| Files | What they are |
|---|---|
| `Requests`, `RequestsProofs`, `MCRequests`, `requests_*.cfg` | conversation requests: the worker's router, its queue and registries, and the turn in the page |
| `Quarantine`, `QuarantineProofs`, `MCQuarantine`, `quarantine_*.cfg` | the quarantine authority: two unreliable stores and the worker's memory |
| `Connection`, `ConnectionProofs`, `MCConnection`, `connection.cfg` | the WebSocket: pairing, keepalive, reconnect schedule, storage, worker restarts |
| `Provisioning`, `ProvisioningProofs`, `OpenPromise`, `MCProvisioning`, `provisioning.cfg` | opening conversations, and the abstract promise it implements |
| `Tabs`, `TabsProofs`, `MCTabs`, `tabs.cfg` | navigations, registrations, provider status, selection |
| `Assets`, `AssetsProofs`, `MCAssets`, `assets.cfg` | the asset registry and the transfers of downloadable assets |
| `NativePage`, `NativePageProofs`, `MCNativePage`, `native_*.cfg` | the content script of a ChatGPT or Claude page: composer, turns, Stops sharing a lease, the monitor |
| `GenericPage`, `MCGenericPage`, `generic_page.cfg` | the content script of a generic site: send, capture, Stop, reuse, and its quarantine client |
| `GenericSite`, `GenericSiteProofs`, `MCGenericSite`, `generic_site.cfg` | the bindings saved for a generic site and everybody who rewrites them |
| `PROJECT.json` | components, runs, mutants, the source lines of every definition, findings, hazards, theorems |

To check a run: `tlc -config connection.cfg MCConnection`. To check the proofs of a module:
`tlapm ConnectionProofs.tla`.

## Inventory

"Hard" is what an ordinary test would seldom reach; the last column says where it is modelled.

| Component | State it keeps | Interacts with | Hard | Module |
|---|---|---|---|---|
| Conversation requests (`background/index.ts` 1120-1870 and 1945-2100, `requestOrdering.ts`) | `activeRequests`, `activeRequestBySession`, `queuedSendIds`, `pendingInterrupts`, kept completions, `serverMessageQueue` | controller frames, pages, tab events, popup | a Stop overtaking the queue; an answer racing a Stop; a close or a navigation under an await | `Requests` |
| The turn in the page (`content/chatgpt.ts`, `claude.ts`, `providerLogic.ts`) | `activeRequest`, cancelled ids, capture loop, monitor | worker messages, the provider's page | cancellation before, while and after the click | `Requests`, at the grain the worker can tell apart; `NativePage` in detail |
| Quarantine authority (`background/quarantine.ts`, `serializedState.ts`) | identity records and overflow markers in two storage areas, held verdicts, `storesWritable` | content clients, `chrome.storage` | either store refusing any read or write; full stores; expiry; restart | `Quarantine` |
| Quarantine client (`content/generic/conversationQuarantine.ts`) | unacknowledged positives | the authority | lost calls and answers | `GenericPage` |
| Connection (`reconnect.ts`, `index.ts` 930-1121, 1494-1568, 1945-2151, 2471-2597) | socket, handshake, attempt counter, timer, alarm, keepalive nonce, stored state | controller, `chrome.alarms`, popup | alarm and timer for one reconnect; a restart between them; late pongs; refused writes | `Connection` |
| Provisioning (`background/provisioning.ts`, `provisioningWaits.ts`, `index.ts` 642-925) | queue, running operations, markers, remembered results | tabs, controller | cancellation at every await, repeated ids, reconnects | `Provisioning` |
| Provider status and selection (`popupProjection.ts`, `index.ts` 578-614) | revision, selection | tabs, popup, controller | an older publication finishing last | `Tabs` |
| Navigation and tab change (`navigationEvents.ts`, `tabChange.ts`) | per-tab sequence, generation, binding, registrations | tabs, permissions, requests | a permission round trip finishing after a newer navigation; events of one reload in any order | `Tabs` |
| Assets (`assetAdmission.ts`, `assetTransfer.ts`, `content/assetLogic.ts`) | registry and its order, transfers, budgets, the page's jobs | pages, controller | gaps and repeats, eviction, replaced document, reused ids | `Assets` |
| Generic page (`content/generic/index.ts`, `freshConversation.ts`, ...) | the active prompt, what it saw, the reuse window | worker, site, person | the site changes conversation under any await | `GenericPage` |
| Generic bindings (`content/generic/*`, `background/genericProvider.ts`, profiles) | saved profiles, drafts, evidence, management | pages, popup, permissions, a local model | two writers of one binding; evidence outliving its control | `GenericSite` |
| Conversation registry and recovery (`conversationRegistry.ts`, `popupRecovery.ts`) | at most fifty records, recovery notes | storage, requests | promotion into a full registry | — |
| Native turn machine (`content/providerLogic.ts`, `chatgpt.ts`, `claude.ts`) | composer and attachments, interrupt lease, binder, monitor | worker, authority, the provider's page, person | a second Stop sharing the first one's lease; somebody typing, attaching or leaving under an await | `NativePage` |
| Locators, healing, picker, reading of answers | DOM evidence | the provider's page | the page itself | — |
| Popup, protocol parsing, favicon, build and release scripts | what it shows | worker | — | — |

How a request travels: a frame is queued (`serverMessageQueue`), a handler registers the turn,
awaits the tab and the page, and returns; the page submits, captures and reports back through
`content.response` or `content.error`; a generic page answers the dispatching call itself and the
worker finalizes. A Stop for a turn that runs skips the queue; one for a turn still queued only
leaves a flag in `requestOrdering`. Which page a request may use is decided by the bindings that
`Tabs` keeps; which control a generic page presses, by the binding `GenericSite` keeps; whether it
may be used at all, by `Quarantine`.

In every module an action is the code between two awaits of one handler, and the properties speak
of the state or of history variables that record what was promised. Every bound is a constant.

## Requests

One module, because the hazard is the interaction. A `Send` is one delivery of a
`conversation.send`, a `Stop` one delivery of a `conversation.interrupt`; ids and sessions are
attached by `idOf` and `sessionOf`, so a duplicate id or a busy session is a choice of constants.

| Model | Code |
|---|---|
| `conn`, `conns`, `queue`, `serving` | the current socket and its `serverMessageQueue` |
| `queuedSendIds`, `pendingInterrupts`, `held` | `requestOrdering.ts` |
| `active`, `bySession` | `activeRequests`, `activeRequestBySession` |
| `pc[s]` | where the handler, the generic runner or the finalizer of a send awaits |
| `stop[x]` | where a Stop's handler awaits, what it found and what the page answered |
| `report[s]` | the `content.response` or `content.error` under way |
| `page`, `reply`, `cancelled`, `running`, `recall` | the content script and the provider's page |
| `gone`, `changed`, `dropped` | a document replaced; its tab event under way; its binding deleted |
| `connOf`, `frames`, `clicked` | history, read by properties only |

Each action is the code between two awaits. `SendArrives`/`StopArrives` are the message listener,
`SendBegin`, `SendVerified`, `NativeReturns` the send handler, `GenericStatus`, `GenericReturns`,
`FinalizeReturns` the runner and finalizer, `StopBegin`, `StopSucceeds`, `StopFails`,
`StopSettled` the interrupt handler, `ReportBound` and `ReportSaved` the report handlers, `Page...`
the content scripts, `SocketCloses`, `PopupDisconnects`, `PopupDropsSocket`, `DocumentReplaced`,
`TabChanged` the events around them.

Abstractions:

- `exactSession` and `tabs.get` are one await (`verify`): nothing is decided between them. So are
  the attest, confirm and save steps of the finalizer.
- `conn # 0` stands for a socket that is open and through its handshake. The queue is created with
  the socket, so closing resets it; the short CLOSING state of a socket is not distinguished.
- `content.response` always awaits its save. The code sometimes has nothing to save, which allows
  fewer interleavings.
- The SUBMITTED message reaches the worker with the click itself. The page's 30 s memory of a
  cancelled id outlives a dispatch.
- A ChatGPT or Claude page shows a Stop control exactly while the provider generates.
- An interrupt refused for a session mismatch and the refusal of a duplicate send are answers to
  their own frames and not counted as terminal frames of a turn.
- A ChatGPT or Claude response the worker refuses (invalid, its binding gone, too large for the
  transport) is answered with an error; the error its page reports afterwards finds the turn gone
  and is not a step of its own.
- `popup.disconnect` empties the queue and not `requestOrdering`: the close listener, which does,
  ignores a socket that is no longer current. A flag set for a send that was still queued then
  outlives its connection, which is why `StopSettles` speaks of flags only while no popup has
  disconnected.
- Stream frames, conversation transitions, asset registration and recovery notes are left out.

### Runs

Bounds: one or two sends, one or two Stops, up to two connections and one popup disconnect.
Two Stops are what it takes for one to settle a turn the other still looks at; two connections for
an answer to outlive its own; two sends for a queue to have something behind its head and for a
session to be taken. Sends in different sessions with different ids share nothing but the queue, so
more of them only repeat these cases. Two sends with one id are left to the proof of
`RegistriesAgree`, which is for all choices of ids and sessions. The system may stop once these
bounds are used up, so deadlock is not checked for this module.

| Run | Instance | Shows |
|---|---|---|
| `requests_generic` | one generic turn, two Stops, two connections, a disconnect, a replaced document | `GenericAnsweredOnce`, `GenericStopIsReal`, `TurnIsOwned`, `StoppedNeverSubmits` |
| `requests_native` | two ChatGPT turns in one session and a Stop, fair | nothing follows an interrupted frame (`NothingAfterStop`); the second send finds the session taken or free, and the registries agree (`RegistriesAgree`); a turn ends; a Stop settles, and a pending flag always has a Stop waiting or asked that will take it back (`StopSettles`) |

Fairness (`FairSpec`) is weak and only on what the runtime or the code itself promises: an await
of a message, of a tab or of storage settles (each is bounded by the browser or by a timeout of
the code), a page that accepted a prompt finishes or fails (its capture has a deadline), an event
is delivered. Nothing in the environment is fair: nobody has to send, stop, disconnect or navigate.

## Quarantine

A verdict that a conversation must not be sent to lives in two storage areas and, while neither
takes it, in memory. Calls are serialised by `createRevisionQueue`, so at most one is under way:
`Call` reads both stores and compacts them, `Flush` gives each held verdict another chance, one
`Answer...` action finishes. Every read and write may fail, so every pattern of failures of the
two stores is a behaviour; `Restart` may come between any two of these steps.

| Model | Code |
|---|---|
| `records`, `marks`, `markAll` | the identity map, the provider markers and `allUntil`, per store |
| `held`, `heldOrder` | `heldWithoutStorage`, in the order of its maps |
| `writable` | `storesWritable === true` |
| `op` | the call under way: its time, what each read gave, what is left to flush |
| `answer` | the answer it has just given |
| `kept`, `named`, `marked`, `lowered` | what was promised: history, read by properties only |

`kept`, `named` and `marked` record until when an identity was decided to be refused, by which
means, so that the properties compare the answers with the decisions and not with the stores they
were read from. A restart forgives `kept` (the documented limit of the design, `quarantine.ts`
72-86); a clear that removes a record, acknowledged or not, retracts `named`.

Abstractions: a malformed key counts as a failed read, which is how the code treats it. A call
takes its time when it reaches the head of the queue; the code takes it when it joins, and the
queue keeps that order, so times never run backwards, and the clock may advance during a call.
Which store takes a verdict is a choice, since either write may have failed; so is the order of
providers in a flush. A clear that is not acknowledged because one store kept its record
retracts the promise made by name. The browser restarting (which empties the session area) is not
modelled, nor are targets that fail validation.

| Run | Instance | Shows |
|---|---|---|
| `quarantine_limits` | two providers, stores that take one, no passing of time | `VerdictStands`, `ClearIsFinal`, `WithinLimits` through full stores, the global marker, failures and restarts |
| `quarantine_expiry` | two conversations of one provider, stores that take one each, verdicts of one tick and a clock of one | `ListIsWhole` while verdicts expire, also during a call |

The limit is one where the code has sixteen: what matters is a store with room and one without. A
clock of one tick lets a verdict be made, run out and be made again. `VerdictStands` holds there as
well; it excepts exactly the identities whose marker was lowered (see Deviations). Deadlock is checked: a call can always be
made.


## Connection

The worker's WebSocket from the popup's Pair to the reconnect after a restart of the worker. An
action is one event the runtime delivers (a timer, an alarm, a socket event, a frame, an answer of
storage) with everything the handler does up to its next await.

| Model | Code |
|---|---|
| `up` | the worker: stopped, in `initialize()`, ready, or failed to initialise |
| `sock`, `ready`, `to`, `peer` | the current `WebSocket`, the `readyState` of each, what was presented on it and answered |
| `busy`, `greets` | the handlers of `bridge.paired` and `bridge.connected` that await storage or the status queue |
| `connected`, `connecting`, `pairing`, `attempt` | the flags of the same names |
| `timer`, `alarm`, `rang` | `reconnectTimer`, the browser's alarm, an alarm event before `initialize` ended |
| `mem`, `disk`, `writes` | `stored`, `chrome.storage.local`, the `storageWrites` chain |
| `ka`, `nonce`, `late` | the keepalive timer, the pending nonce, the deadline timer: the socket each belongs to |
| `popup`, `work` | the click under way, the operations outstanding and who asked for them |

Pairing codes and connection tokens are told apart by the endpoint that issued them. Delays are not
measured: from attempt `MaybeLong` on the delay may reach the alarm's threshold or not, a choice.

| Run | Instance | Shows |
|---|---|---|
| `connection` | two sockets, one endpoint, attempts up to 2, two waiting writes, two clicks, one failure (a refused write, a status that cannot be sent), one stop of the worker | `NeverStuck`: whoever has somewhere to connect to, no socket and no click has its timer; `Watched`: a handshake that ended well has its own keepalive; `NonceIsOwn`; `DiskCatchesUp`: what a restarted worker needs is stored; `TriesAgain`: a reconnect on the books is made |

Two sockets are the one being closed and the one that replaces it, two clicks the one that replaces
and the one that comes while the first still awaits, one failure and one stop each a crash
between any two steps. A socket object is used again when nothing refers to it, so the number of
connections is not bounded.

Fairness: the browser runs timers and rings alarms, storage answers, `initialize` ends, a closing
socket closes, the popup's handlers and the status queue continue. Nothing has to open, answer,
click or stop.

## Provisioning

`provisioning.ts` and the operation it runs. One operation per id walks through `pc[r]`: its plan,
the tab it opens or recycles, the wait until that tab answers, the navigation of a fresh
conversation, its session. Cancellation (`conversation.cancel`, a lost connection, the popup) may
come at every one of these awaits.

`OpenPromise` is the abstract specification: an id is unknown, pending or settled with a result; a
pending id settles, once; a settled one may be forgotten only by the bounded memory. `Provisioning`
implements it with `pending <- {r : entry[r] # "none"}` and its own `kept` and `order`, liveness
included: `KeepsThePromise` is `Promise!Spec`.

| Model | Code |
|---|---|
| `entry`, `queued`, `active`, `aborted`, `from` | `entries`, the queue and slot counter of `createProvisioningQueue`, the abort signals, the asking socket |
| `pc`, `plan`, `made`, `goal`, `end` | the locals of `provisionProviderConversation` |
| `kept`, `order` | `completedProvisioningResults`, `completedProvisioningOrder` |
| `tabs`, `markers` | the browser's tabs, `provisionalCreations` |
| `sock`, `dropping` | the connection; a popup click that has cancelled and waits to drop it |
| `hear`, `checked`, `acted` | history, read by properties only |

| Run | Instance | Shows |
|---|---|---|
| `provisioning` | two ids over three mixtures of wishes (recycle or reopen, recover from a known or a lost record, a website fresh or not), one slot, one remembered result, one marker, two connections, three asks | `SlotsAreKept`, `NothingAfterCancel`, `MarkersAreOpenTabs`, `AskersAreAnswered`, `KeepsThePromise` |

One slot for two ids makes one wait, one remembered result makes the second evict the first, one
marker makes the second take the first's, three asks include one repeated on a new connection. The
code's limits are two slots and larger memories; the proofs are for all of them.

`NothingAfterCancel` has one exception, which the code has: a fresh open of a generic page reads its
signal for the last time at `index.ts` 679, then awaits `ensureGenericContentScript` (680) and the
command's own checks before the page clicks the site's new-conversation control
(`content/generic/index.ts` 563). `GenericChosen`, `GenericEnsured` and `GenericReset` are those three
steps; `checked` remembers whose signal was quiet at the first, and only those may have `acted`.

Fairness: each operation's awaits end, because tabs and storage answer and every wait has a
deadline (`provisioningWaits.ts`).

## Tabs

What the worker believes about the browser's tabs, and the status it publishes from that. The
browser moves pages and queues events of two families (`webNavigation`, `tabs`), which the worker
handles in any order between the families; permission checks, probes of a tab, injections,
publications and the popup's selection all await in between.

| Model | Code |
|---|---|
| `page`, `permitted`, `nav`, `upd` | the browser: documents, permissions, undelivered events |
| `tracker`, `accepted`, `checks` | `navigationEvents.ts`; navigations awaiting `permissions.contains` |
| `bound`, `reg`, `handled`, `released`, `sel` | `documentsByTab`, generic registrations, `handledTabIds`, `releasedTabIds`, the selection |
| `drops`, `probes`, `rebinds`, `ensure` | the handlers awaiting: a tab dropped, probed, registered, injected |
| `asked`, `pub`, `sent` | `providerStatusQueue`, the publication under way, what the controller has |
| `turn` | the request of a tab, with the document it is bound to |
| `applied`, `overlapped`, `late`, `used` | history and the budget |

| Run | Instance | Shows |
|---|---|---|
| `tabs` | two provider tabs and a website's; three mixtures of moves, clicks and requests | `StatusSettles`: once nothing is under way, the controller has no session that is gone and the person's selection; `NothingNamesAGonePage`; `StaysTracked`: a page in use is injected again; `InOrder`: of one tab no older navigation is acted on after a newer one |

Two moves are the older and the newer navigation, or a reload that overtakes the injection of the
page before; a click is a selection or release racing a move. Moves and clicks are traded against
each other because their product is out of reach: two moves of any tabs with a request, one move
with a click and a request, or two moves of the person's conversation with a click. In the last
mixture a selection is under way while its page is replaced and then closes.

## Assets

The registry of downloadable assets and their transfers, over one page per tab.

| Model | Code |
|---|---|
| `page`, `holds`, `job`, `news`, `made` | the page: document, conversation, its sources, its transfer jobs; the browser's news of it; assets that were made |
| `bound`, `known`, `order` | `documentsByTab`, `assetsById`, `assetOrder` |
| `held` | the bindings whose registration waits for the selection to be saved and the icon to be given back (`index.ts` 2443-2444) |
| `active`, `transfer` | `activeAssetTransfers` and every transfer record |
| `handlers` | the fetches and reveals that await the pages; a closed connection's are no longer `live` and block nobody's queue |
| `mail`, `inbox` | messages between worker and pages |
| `heard` | history: what the controller was sent of each transfer id |
| `stray` | history: the transfers that stayed open when their tab was bound anew or unbound |

| Run | Instance | Shows |
|---|---|---|
| `assets` | one page, two assets (one downloadable), one transfer id with a budget of two chunks, a registry and a source store of one, two fetches or reveals, one move, reload, lost socket or restart | `CompleteIsWhole`, `RegistryIsBounded`, `TransferFollowsItsDocument`, `TransferEnds` |

A budget of two chunks has a chunk within it, one at it and one past it; a registry of one evicts;
one transfer id used by two fetches is the reuse that makes late frames dangerous; one reload is
enough for a registration to wait with its transfers ended while a fetch is admitted on the old
binding, and for `runContentScriptEnsure` to drop a binding before the worker hears of the reload. A
page declares no size or two chunks (`Sizes`), and may send fewer. Fairness: the
worker takes its messages, Chrome delivers messages and news, a download ends or fails. The
controller is not fair.

Abstractions: a chunk is one unit and sizes are chunk counts; the document is always known to the
page; an answer shows one asset, which is in one page; whether a request runs in a tab is not kept:
a navigation may find one (and leave the old conversation bound), a transition of one may bind the
page's conversation at any time, and a registration that finds one does nothing; the wait for the page's answer to a cancel
and the inline size limit of the source store are left out; the cancel and the error after an
invalid chunk are one step.

## Native pages

`NativePage` is the content script of one ChatGPT or Claude document. The two scripts differ in how
they find things in the page and share every decision modelled here, so one module stands for both.
A job may await in the middle of a submission, a capture, a clean-up, an interrupt or the monitor,
and under each of these awaits the person may type, attach, send a prompt or open another
conversation, and a Stop may arrive.

| Model | Code |
|---|---|
| `route`, `gen`, `stands`, `done` | the provider: the conversation in the address bar, what it generates, where each prompt is, whose generation ended |
| `text`, `files`, `blocked` | the composer, the attachment input, `composerBlockedReason` |
| `cancelled`, `active` | `cancelledRequests`, `activeRequest` |
| `holding`, `owed` | `createInterruptLease`: who is being interrupted, which teardowns are owed |
| `send[r]` | the request: where its job awaits, the conversation it is bound to, its transition, what it owns in the composer, whether it saw a Stop control |
| `stop[x]`, `conf[k]` | the interrupt handlers; where each `interruptAndConfirm` awaits |
| `holds`, `named` | the worker: turns it has registered, the conversation it has them in |
| `held` | conversations the authority refuses (the authority itself is `Quarantine`) |
| `told`, `forgot`, `strayed`, `misled` | history, read by properties only |

| Run | Instance | Shows |
|---|---|---|
| `native_page` | two prompts, one with images, two Stops, two events of a person, three conversations one of which has no address yet | `NoSecondPrompt`, `StopIsReal`, `PageIsFreed`, `DraftIsKept` |
| `native_stuck` | one prompt, two Stops, nobody else | the finding below |

Two prompts are the one that is abandoned and the one that must not enter its conversation; two
Stops share one lease; two events are to leave and to come back, or to type and to attach. The
system may stop when these are used up, so deadlock is not checked, and no property here is about
progress.

Assumptions: a person does not leave and come back between two 100 ms looks of an interrupt at the
page, nor within the round trip that asks for a transition; the worker does not reconnect faster
than a prompt or a verdict under way reaches the page; the 30 s memory of a cancelled id outlives a
dispatch; a provider gives a conversation begun on the start page its address at the latest when
the page is left; a person sends prompts by hand only in conversations that have an address; a Stop
control is there for all of a generation that has shown it. The second, provisional address some
ChatGPT conversations pass through, registration, streamed deltas, assets and alerts are left out.

## Generic pages

`GenericPage` is the content script of one page of a website, with the jobs SEND, CANCEL, selected
answer, CONFIRM_REUSE and NEW_CONVERSATION. A single-page site changes conversation without
replacing the document, so every job reads, after every await, a page that may be another
conversation. The page's memory of unacknowledged verdicts (`conversationQuarantine.ts`) and the
authority behind a channel that loses calls or answers are part of it.

| Model | Code |
|---|---|
| `route`, `lastUrl`, `rev` | the address, the one the listeners last acted on, `documentRevision` |
| `transcript`, `gen`, `done` | the site: user turns, generations and their end |
| `unheld` | history: turns being answered in a conversation nobody holds (the exceptions below) |
| `accepting`, `cancelled`, `active`, `pending` | the script's variables of the same names |
| `unack`, `auth` | the client's unacknowledged verdicts; what the authority holds |
| `send`, `stop`, `reuse`, `fresh` | the jobs, each with the await it is in |

| Run | Instance | Shows |
|---|---|---|
| `generic_page` | two prompts, any number of fresh conversations, two events (a silent or a heard move, a rename, a reload, a new body, somebody's own prompt, a lost call) | `AnswersAreOwn`, `NoSecondPrompt`, `StopIsReal` |

Two prompts are the one that was abandoned and the one that must not enter its conversation; two
events are to leave and to come back, also around a fresh conversation, which costs none of them
and may be asked for as often as the background likes while a prompt is still to come. The same
properties hold with three events (25 million states, too many for a routine run); two of the three
exceptions of `NoSecondPrompt` need the third. No property here is about progress.

Assumptions: a Stop control is visible for the whole generation that is shown, and appears within
the acquisition deadline; the memory of a cancelled id outlives the wait for a verdict; the
background sends one prompt at a time and none during a fresh open; one stop job at a time;
quarantine calls take effect in the order made; the waits for composer and send control are one.

## Generic bindings

`GenericSite` is the storage of a website's bindings, one for each route, with everybody who
rewrites them: prompts (which save evidence of a lifecycle), healing with a local model, picking,
validation, Stop and selected-answer jobs, the popup's removal and revocation. Writers read a
binding, wait - for a person, a model or a whole answer - and write. A binding is reduced to its
Stop control, the one whose identity its evidence depends on.

| Model | Code |
|---|---|
| `store`, `draft` | profiles of the origin, unfinished drafts |
| `job[p]`, `job[Side]` | the prompt in a page, and the one other job of the site |
| `manage`, `order`, `permitted`, `registered` | `managementOrigins`, the popup's order, permission, registrations |
| `busy` | pages with a request in `activeRequests`, entered there whatever is done to the site; it meets `managementOrigins` three awaits later, at the two gates of `sendGenericCommand` (`Gate`, `Deliver`) |
| `earned`, `mistaken` | history: lifecycles that were really seen, or credited to a binding of somebody else |

| Run | Instance | Shows |
|---|---|---|
| `generic_site` | two pages, routes and controls (symmetric), two profiles, a prompt, another job, three writes and one event | `EvidenceIsEarned`, `ManagementExcludesPrompts`, `WritersHaveRead` |

Three writes are one that a job reads, one by somebody else, and the stale one. The age limit of
evidence (seven days) is left out; the healing counter is included without a property of its own;
the popup's confirmation and what follows it are one step; one job that is not a prompt runs at a
time; a prompt's own saves are one at a time; a write queued just before management starts commits
as if before it. `PROFILE_CLEAR` and `BACHATA_GENERIC_TAB_COMMAND` have no sender and are left out.

## The finding a run shows

`native_stuck`: a capture ends at the first sight of a cancellation. Its teardown - forget the
request, free `activeRequest` - is owed to the interrupt that holds the request. When a second Stop
for the same turn takes the lease (a repeated frame, or the `stopActiveRequests` of a disconnect),
`hold()` deletes that debt (`content/providerLogic.ts` 1954). Both Stops let go in the end, whether
they could be confirmed or not, and nobody runs the teardown: `activeRequest` stays set for a turn that is over and the
page refuses every later prompt. `providerLogic.ts` 1935 says "The teardown is owed, not skipped:
the interrupt runs it when it lets go", and 1928 that a turn that skipped it "would leave the
document unable to accept the next". `PageIsFreed`, which the run `native_page` checks, says that
this is the only way.

## Deviations met while modelling

Each definition below stands in its module, states what a comment or document says, and TLC refutes
it when it is added to a configuration of that module. They are not runs, to keep the runs for
questions that the code answers with yes.

| Definition | The code | What it says |
|---|---|---|
| `Requests.FailedStopLeavesOwner` | a generic runner that fails under a pending Stop leaves its failure to the Stop (`index.ts` 1405-1411, 1486-1488), whose own failure ends nothing: the turn stays registered; the capture loop of a ChatGPT or Claude turn ends at the first sight of a cancellation (`chatgpt.ts` 942, `claude.ts` 730) | `index.ts` 1298, 1799 |
| `Requests.NativeStopIsReal` | "may still be generating" under a pending Stop is reported as interrupted (`index.ts` 1682) | `providerLogic.ts` 2588 |
| `Requests.NativeAnsweredOnce` | `content.response` answers after a save without looking the request up again (`index.ts` 2685) | `index.ts` 1187 |
| `Requests.NoOrphan` | a send accepted while `popup.disconnect` waits for the pages outlives its connection (`index.ts` 2578) | `docs/PROTOCOL.md` 39 |
| `Quarantine.EveryVerdictStands` | an older held verdict, flushed later, overwrites the provider's marker with its earlier expiry (`quarantine.ts` 332) | `quarantine.ts` 19-21 |
| `Quarantine.ListOmitsNothing` | the flush before a list may fail and the write probe after it succeed (`quarantine.ts` 497) | `quarantine.ts` 498 |
| `Provisioning.OneTabPerConversation` | two ids for one conversation both plan before either has its tab | `docs/PROTOCOL.md` 41 |
| `Provisioning.CancelledTouchesNothing` | a fresh generic open that is cancelled after `index.ts` 679 still starts a new conversation in the person's page (680-684) | `docs/PROTOCOL.md` 39 |
| `Connection.CodeIsPresentedOnce` | a socket that was opening when a code was entered presents it, and is then replaced by one that presents it again | `index.ts` 2488 |
| `Connection.WorkEndsWithItsSocket` | Reconnect while the socket is CLOSING replaces it without cancelling its operations | `docs/PROTOCOL.md` 39 |
| `Tabs.TurnEndsWithItsDocument` | a reload that a probe finds before its commit event rebinds the tab; the commit then finds nothing changed and no turn is ended | what the commit's handler does otherwise |
| `Tabs.BindingsEndWithTheirPage` | a registration that ends a selection waits for its release and then binds the page it was called by (`index.ts` 2437-2449), also when the tab has closed or moved away meanwhile and the binding was dropped already | `README.md` 99, `docs/LIVE_SMOKE_TEST.md` 40: navigating the tab away or closing it invalidates the binding |
| `GenericSite.SelectedAnswerCompletes` | *Use selected text* loads the binding again, records the interruption in its own copy and resolves the prompt; the prompt's last save still holds the version read before and is refused, so the answered request fails (`content/generic/index.ts` 1199); so does a second prompt of the route, or a status poll that records the observed Stop (1136) | `docs/LIVE_SMOKE_TEST.md` 60: selecting an answer "must complete that request, preserve the answer" |

(`EveryVerdictStands` and `ListOmitsNothing` need verdicts of two ticks and a clock of two,
`OneTabPerConversation` the wishes `Same` and two slots, `NativeAnsweredOnce` a native turn and a
Stop.)

Where a checked property excepts a behaviour of the code, it does so by a named history variable
or condition, and this is what the exception is:

- `StaysTracked` (`overlapped`): a reload while an injection or a selection of the
  previous page is under way joins that operation, and the new page is not injected. Nor is it where
  a first prompt was left in the tab without its binding: a probe drops the binding of a reloaded page
  before the commit that would have ended the request (`index.ts` 355), and the next finished load is
  taken for the one move the prompt may make (`tabChange.ts` 95). This takes three loads, more than the
  run has; the proof found it (below).
- `NothingNamesAGonePage` (`late`): the bindings of `BindingsEndWithTheirPage`, made by a handler that
  was held while its page went.
- `AnswersAreOwn`, `StopIsReal` (`strayed`): a generation seen on another conversation's page counts
  as the turn's own. `AnswersAreOwn` looks at the return of `finalizeResponse`; the save that follows
  it (`content/generic/index.ts` 1199) is awaited once more before the answer leaves, and nothing
  looks at the page after that.
- `NoSecondPrompt` of `GenericPage` (`unheld`): a fresh conversation that was observed is registered
  before its quarantine is lifted, and the registration tries again on whatever page it finds
  (`content/generic/index.ts` 88-114). When the page was moved back to an earlier conversation
  meanwhile, it is that one that is cleared (548-550, 597-599), its answer still being written, and
  the next prompt enters it. So it does when a reuse is confirmed for a turn that was taken to be idle
  because of a generation seen in another conversation (`strayed`), and when the turn's conversation
  got its address by a `pushState` and was left by another before the script looked: that address is
  in no quarantine call, and an answer selected before any Stop control is seen ends the turn.
- `StopIsReal` and `NoSecondPrompt` of `NativePage` (`strayed`, `Followed`): a request still on the
  start page takes any conversation the page then shows for its own, also one the person opened. What
  it is told there is of another generation, and its quarantine may be lifted by it: that holds for
  the request itself and for any other turn that is in the conversation it took.
- the same two (`late`, `Belated`): a Stop that arrives while a new conversation gets its address
  carries the old one. When it cannot be confirmed it quarantines the start page, pays the teardown
  and leaves the page free, with the turn unfinished in a conversation nobody refuses.
- `NoSecondPrompt` of `NativePage` (`misled`, `Placed`): the monitor reads whatever page is shown,
  and lifts the quarantine of the turn's conversation when another page falls quiet; a first prompt
  whose new address the page did not follow quarantines the start page instead.
- `DraftIsKept`: a prompt without attachments looks at the attachment input once, so a file
  attached later goes out with it (`providerLogic.ts` 1749-1772).
- `PageIsFreed` (`forgot`): the finding.
- `EvidenceIsEarned` (`mistaken`): a Stop or selected answer credits the binding it loads itself,
  which another page may have rebound during the turn. A prompt earns its credit for the route its
  page shows when the turn ends, as the code saves it (`Aligned`): that the turn was seen on another
  route of the same conversation is not told apart.
- `ManagementExcludesPrompts` speaks of registered pages. The background looks for active requests in
  the registrations of the site only (`genericProvider.ts` 142): a request that was admitted while a
  revocation removed its page's registration, and went on when setup of another page had brought the
  access back, is not seen by the next order.
- `Watched` (`unwatched`): a handler of `bridge.connected` whose save or whose status publication
  fails (no answer from `chrome.tabs.query`, a selection that cannot be saved, a status that is too
  long) ends before it starts the keepalive (`index.ts` 1520-1524). The connection stays up without
  one until it closes.
- `VerdictStands` (`lowered`): the marker whose expiry was overwritten.
- `CompleteIsWhole` counts frames of the last admission's own entry only: a transfer is looked up
  before an await and used after it, so a late completion may close and complete a newer transfer
  with the same id.
- `TransferFollowsItsDocument` and `TransferEnds` (`stray`): the code binds or unbinds a tab in three
  places without ending the transfers open on it. `content.register` of the selected tab ends them,
  waits twice (`index.ts` 2443-2444) and then binds: a fetch admitted on the old binding meanwhile
  stays. `applyTransition` binds the new conversation (2334). `runContentScriptEnsure` deletes the
  binding of a document that does not answer (358, 372), so that the commit and the registration
  that follow find nothing to end. Once its page is elsewhere such a transfer, and one whose page
  moved while a request kept its binding, ends with the controller's cancel, the socket or the worker
  only.
- `TransferEnds` covers transfers admitted while connected: a fetch handler whose socket closed
  admits the transfer anyway, and the page's report is refused (`index.ts` 2798-2802).

Other behaviour that the modelling turned up and that deserves a second look:

- *Assets.* A reused transfer id whose old page job still runs is accepted by the background and
  then refused in the page after `accepted: true` (`providerLogic.ts` 1125). `forgetAsset` (1823,
  1890) leaves the id in `assetOrder`, where it takes a slot. An asset refused as not downloadable
  may stay registered for a document that is gone.
- *Provisioning.* An id asked again on a new connection while its cancelled operation still runs is
  ignored and never answered there. A generic open that is not fresh selects its tab although
  cancelled; there is no check of the signal after `sendProviderStatus`.
- *Tabs.* A released tab that the popup selects and that then fails is un-released without a
  publication, for at most ten seconds. A publication built before a released tab is selected could
  clear that selection (not checked).
- *Native pages.* `activeRequest` is looked at before the verdict's await and not after it; what
  keeps a second prompt out is that the worker sends one at a time. A Stop that arrives when the
  turn is over for the page is answered as if nothing had to be confirmed. A Stop that races a
  completed answer and finds no control quarantines an idle conversation.
- *Generic pages.* A conversation renamed after its turn ended is not remembered by the quarantine;
  a manually selected answer carries no prompt element; a lost SET and a reload forget a verdict.
- *Generic bindings.* A prompt that starts at the site's root and moves to a route with a binding of
  its own overwrites that binding. An unfinished draft whose save was refused puts its controls back
  with the next pick.

## Proofs

Each is for every value of the constants, finite or infinite sets unless stated, from the named
assumptions of its module.

`RequestsProofs` (`SendAssumption`, `BoundAssumption`):

- `TypeCorrect`: `Spec => []TypeOK`. The inductive invariant is `Typed`, which adds
  `StopHasTarget` (a Stop that was sent to a page knows which request it is for): without it the
  actions of a Stop would index functions with `None`. One lemma per helper (`RemoveTyped`,
  `TellTyped`, ...) and one step per action.
- `RegistriesAlwaysAgree`: `Spec => []RegistriesAgree`, duplicate ids and busy sessions included.
  `RegistriesAgree` is inductive with `Typed`; `StepChanges` reduces every action to what it can do
  to the registries: nothing, remove some turns, or register one where neither its id nor its
  session is taken.
- `TurnsAlwaysOwned`: `Spec => []TurnIsOwned`, duplicate ids included. `StageInv` of `OwnInv` says who
  goes on with a registered turn: a generic one has its runner or a Stop; a native one whose prompt
  was submitted has its page at work or its report under way, unless a Stop, a tab event or the end of
  its connection takes over. That needs that a report about a turn which is still registered found
  it (`FoundInv`), that only turns no longer registered are recalled (`RecallInv`), that the worker
  hears of every replaced document (`DocInv`), that nobody answers a prompt that was not dispatched
  (`ReplyInv`) and that each kind of session has its own handler (`KindInv`), besides what the proofs
  below need as well (`GroundInv`).
- `GenericAlwaysAnsweredOnce`: `Spec => []GenericAnsweredOnce`, assuming that no two sends carry
  one id (`IdsDistinct`). That a turn without a frame is the only one that may still get one is
  not inductive by itself; `OnceInv` adds that a turn in the queue or not yet sent was never
  registered (`QueueInv`, `StartedInv`), that a kept answer belongs to a runner which is waiting
  (`HeldInv`), that generic turns have no page reports (`ReportsInv`), and that a turn that was
  answered is no longer registered (`AnswerInv`). The assumption is needed: with one id reused
  while its first owner is being finalized, a late step of the first finds the second.
- `NothingEverAfterStop`: `Spec => []NothingAfterStop`, under `IdsDistinct`. For a generic turn it
  follows from the theorem above. A ChatGPT or Claude page sends its end in a message of its own,
  which may already be on its way, or its save under way, when a Stop is handled. `FinalInv` says why
  that message cannot follow the interrupted frame: a page that granted a Stop is `Quiet` - it has
  reported nothing, and its cancellation mark keeps it from ever submitting (`StopInv`, `PageInv`) -
  and a turn that was told it was interrupted can end no more (`ToldInv`: it is not registered, its
  handler has begun, and a report of its page found nobody). `StopQueueInv` is the queue again: a Stop
  begins once, so the answer it acts on was given for the turn it was sent to.
- `GenericStopsAreReal` and `StoppedNeverSubmitted`: `Spec => []GenericStopIsReal` and
  `Spec => StoppedNeverSubmits`, under `IdsDistinct`. `StoppedInv` says what an interrupted turn is:
  its page will not click (`NoClick`) and, if generic, nothing generates for it. It rests on
  `ClickInv` - who generates has clicked, and a registered generic turn that clicked is
  `committed`, which is what makes a "prevented" answer worth nothing for it - and on `GrantedInv`, what
  a page that answered a Stop is. `IdsDistinct` is needed in all three: under one id the
  handler of one turn acknowledges a Stop by removing another, and on the next connection the refusal of one
  lifts the other's cancellation mark. The controller is not part of this
  repository and the worker only refuses an id that is registered at that moment, so this is an
  assumption and not a theorem.

`QuarantineProofs` (`IdentityAssumption`, `LimitAssumption`; finite sets):

- `AlwaysWithinLimits`: `Spec => []WithinLimits`. It is inductive with `Typed`, the types of the
  stores, of the held verdicts and of the call under way. `StoresChange` reduces every step to what
  it may do to a store: lose names and markers, or gain one that the limits were asked about in the
  state before.
- `VerdictAlwaysStands`, `ListAlwaysWhole`, `ClearAlwaysFinal`: what is answered is right, for any
  pattern of failures, any number of restarts and any lifetime. None of the three is inductive: an
  answer compares the stores of this moment with what was promised long ago. `Backed` says where
  each promise still is - one that only memory made is held (`KeptInv`), one made by name is in the
  records of some store and at least as late there (`NamedInv`), one made by a marker has a marker at
  least as late unless it was shortened (`MarkedInv`). A record may be overwritten by an older verdict
  that memory held, which would break `NamedInv`; that this never happens is `LatestInv`: what is
  held is the latest verdict of its conversation, because a call takes its time once and calls are
  serialised. `CallInv` ties the call under way to the clock.

`ConnectionProofs` (`ConnectionAssumption`): `NeverLeftStuck`, `DiskAlwaysCatchesUp`,
`NonceAlwaysOwn` and `AlwaysWatched`. The inductive invariant has seven parts: `Typed`; `OffInv`, what a worker that is
not running holds; `SockInv`, that a worker which is connecting has a
socket and every socket that is not closed an address; `ScheduleInv`, that timer and stored time agree and that somebody - a
socket, a click, a timer - has the next step, with `DroppedInv` for the moments a Disconnect has
taken it over; `OnePopup`, that at most one write is the popup's; `DiskInv`, that the last snapshot
waiting (or the disk, if none waits) is what the worker acts on; and `NonceIsOwn`. `NeverStuck` alone is not inductive, because a step of the
popup relies on what the click that began it left behind. For `Watched` a further part (`WatchInv`)
follows the handlers of `bridge.paired` and `bridge.connected` of different sockets, which overlap:
they resume in the order in which their sockets became current, so the last to start a keepalive is
the current socket's own.

`ProvisioningProofs` (`ProvisioningAssumption`; ids need not be finite): `SlotsAlwaysKept`,
`AskersAlwaysAnswered`, `NothingDoneAfterCancel`, `MarkersAlwaysOpen` and `ImplementsThePromise`, the safety part of the
refinement: `Init` implies the promise's and every step is a step of it or a stutter. The invariant
adds to `Typed` the queue (`QueueInv`: no id waits twice, exactly the queued entries wait, a running
entry has an operation and vice versa) and the slots (`SlotInv`). `MarkersAlwaysOpen` has an
invariant of its own, `MarkInv`: tabs are typed, a tab that was not made yet is neither open nor
marked, every marker is of an open tab, each tab is marked once, and an operation that has not marked
its tab yet finds no marker there, so that the step which closes a tab strikes the one marker there can be. A Disconnect of the popup clears them all.
`NothingDoneAfterCancel` rests on `CheckInv`: whoever waits for the page's script or for its control
has found its signal quiet before.

`GenericSiteProofs` (`SiteAssumption`, `SlotAssumption`, `NoneAssumption`): `ManagementAlwaysAlone`,
`EvidenceAlwaysEarned` and `WritersAlwaysRead`. The first property is nearly
inductive (`GateInv`): management begins when no registered page has a request, nobody registers while
it lasts, and no step takes a prompt past the second gate then; that no other job moves a prompt which
has not passed the gates is `StaysOut`. The other two are about bindings that many jobs copy, change and write back.
`BindingInv` says of every copy - the saved one, the one a prompt works with, the one a healing, a
rebinding or an adoption holds, the one a save has in hand - that what it claims was earned; that a
route has one binding in the store and in every version a job has read; and that a save asks for what
that version held for its route, so a write that finds its version unchanged replaces what its writer read.

`AssetsProofs` (`AssetsAssumption`): `OpenTransfersFollow`, `CompleteAlwaysWhole` and
`RegistryAlwaysBounded`.
`TransferFollowsItsDocument` follows from `Follows`, the same fact with the record's type and a
binding that is there; every step that moves a binding ends the transfers of that tab in the same
step (`UnboundStep`) or is one of those that leave them open, which `stray` remembers (`PassStep`),
and an admission checks the binding it was recovered with against the one at that moment. For
`CompleteIsWhole` the invariant (`WholeInv`) says that the worker's record of an open transfer and
what the controller heard of it agree, chunk by chunk and asset by asset, until its size is told,
and that open entries and frames under way are of the id they are kept under; an old job's frame
that arrives in the middle is judged against the new entry and either continues it or ends it.
`RegistryIsBounded` is about what filtering a sequence keeps. The order is therefore filtered by
position (`Filtered`: the k-th kept element is the one with k kept positions up to it, `Rank`), which
makes the facts about it (`FilteredDoes`) consequences of counting instead of an induction; that
this is `SelectSeq` is checked by TLC on every sequence of up to four assets
(`FilteredIsSelectSeq` in `MCAssets`). `RegistryInv` then says that nothing is in the order twice
and that every known asset is in it, so what falls off its front is all that has to be forgotten.

`NativePageProofs` (`NativeAssumption`; any number of prompts, Stops, conversations and events):
`TypeCorrect`, `TurnAlwaysFreed` (`Spec => []PageIsFreed`) and `DraftAlwaysKept`
(`Spec => DraftIsKept`). Besides `Typed` (the types, and that whatever is under way names a
conversation) the invariant has `LeaseInv`, that a request in the lease is being interrupted by
somebody - without it a teardown could be owed to nobody -, `ActiveInv`, that the active request has
passed the verdict, so that a refused one is never the page's turn, and `UnsentInv`, that a prompt
stands nowhere before its click, which tells the one submission that may take a late attachment
from all others. Every step of a turn is reduced to one of four kinds - quiet, the last one, one
that takes the lease, one that lets go - and `PageIsFreed` is proved once for each kind.

`StopsAreReal` (`Spec => []StopIsReal`) and `NeverASecondPrompt` (`Spec => NoSecondPrompt`), in the same
module, are about a turn the page has forgotten, so their invariant (`PageInv`) has to say all that
happened before. `Places` relates prompts, answers and addresses: who generates stands where it
generates, a new address is known to nobody before it is given out, and a Stop names the
conversation of its turn or the start page the turn has left. `Order` says which step each job is
at: jobs are sent one after the other, only what was submitted is interrupted, and a prompt that
waits for its verdict beside an active turn finds that turn cancelled before its click. `Own` says
that the active turn's answer goes on where the page has the turn, and that an interrupt which
watches has seen the turn's own control (`WatchInv`); hence a quiet page means an answer that ended
(`ConfirmedEnded`). `Marks` says what a cancellation nobody holds, a failure, a report to the
background and the monitor's memory tell of an answer. `Apart` is the point: a turn that is not
active is quarantined or excused (`HoldInv`), and no other unfinished turn is in a conversation the
active one is in or came from, unless it is excused (`ExclInv`) - otherwise the active turn's end
would lift a quarantine that is not its own. Both properties follow from `Apart`, with `ToldInv` for
the turn that is still active. Each action is shown to be of a kind - before the click (`Passes`),
after it (`Works`), the job's last (`Leaves`), the end of an interrupt (`EndsStop`), the site's
(`Shines`, `Elsewhere`) - and the invariant is proved once for each; what the kinds leave alone is
`Calm` and `Still`. The invariant was first checked by TLC with two prompts, two Stops and four events.
The search for it found the exceptions `late` and `Followed`, and that `CaptureCancelled` has to wait for
a transition that is under way. It assumes of `None` that it is no record of a generation.

`TabsProofs` (`TabsAssumption`, `NoneAssumption`): `NothingEverNamesAGonePage`, `NavigationsInOrder`,
`StatusAlwaysSettles`, `AlwaysStaysTracked` and `TypeCorrect`, for any tabs, conversations and sites and any budget of moves, clicks and requests.
`NothingNamesAGonePage` speaks of a worker at rest; while it works, names of gone pages are everywhere.
The invariant says for each what is going to end it: a binding whose page went has its drop pending, or
the browser's event still queued that will drop it - the removal, the address the tab has now, or a
commit of the document it has now, which the tracker has not seen (`BoundInv`, `CommitInv`: commits come
once per document and in order); a registration off its origin likewise (`RegInv`); a selection of a
closed tab has the removal queued or a publication to come (`SelInv`); a request has its tab or the
removal (`TurnInv`). Handlers that will bind a page later are of pages that were conversations
(`RebindInv`), and only tabs that exist have our script (`ScriptInv`). Actions are reduced to three
kinds: those that leave addresses and events alone (`CalmDoes`), moves of the browser (`MoveDoes`) and
judgements of an event (`JudgeDoes`). That search found the exception `late`: without it the invariant
is not inductive, and a second mixture of moves and clicks showed TLC why. `InOrder` needs `SeqInv`
only, that what the tracker knows is newer than what was acted on.

For `StatusSettles` the invariant (`StatusInv`) says of every session the controller was told, and of
every one a waiting publication is about to tell, that it is there (`Holds`) or that something is
pending which will have a newer status published: an event or a job of its tab (`Pending`), a call of
`sendProviderStatus`, a publication under way, a request. `BuildInv` says that the candidates of a
publication nobody has overtaken are still registered, and `SelectedInv` that the selection was told
or is being saved. Steps that ask for a publication need nothing else; the others must not end a
session quietly.

For `StaysTracked` the invariant (`OwnInv`) follows one page that lost our script: the operation that
is to bring it is still to look at the page (`Ensured`), or its probe, its drop or its finished load
is still to come (`TrackAt`). It needs that an operation past its injection, and a selection that has
its session, are of a page with our script (`EnsureAt`), that only such a page is bound (`ScriptAt`),
and that a first prompt on a page without our script still has the commit ahead that ends it
(`TurnAt`). Most steps are `Steady`: they leave the page and keep what is to come. `TurnAt` is not
inductive without the second part of `overlapped`; TLC then found the behaviour with three loads, one
prompt and one use of the popup, and `overlapped` now counts it (`Undisturbed`).

Only model-checked: everything about liveness (fairness and ENABLED are beyond the proof system),
with it the liveness of `KeepsThePromise`; the properties
of `GenericPage`, which are still to be proved.

## Plan

What would add most, in order:

1. A proof of `GenericPage.AnswersAreOwn`.
2. `ConversationRegistry`: promotion and normalisation as functions, checked against a reference
   definition.
3. Two pages over one authority: `GenericPage` or `NativePage` composed with `Quarantine`.
4. The transition of a running turn, in `Tabs`.
5. `NativePage` with fairness: what a page that nobody leaves must finish.

## Not modelled

- The conversation registry (fifty records, normalised at every write) and the popup's recovery
  notes; provisional markers and their promotion are in `Provisioning`.
- The rendering of the popup; its orders to the worker are steps of the modules above.
- Locators, scoring, healing heuristics, the picker, and the reading of answers and markdown: pure
  functions of a page nobody can enumerate. What they decide is a choice where it matters.
- Shape checks of protocol frames, the tab favicon, build and release scripts: no state, or
  cosmetic.

`PROJECT.json` names each component with its reason, and every hazard that no property covers.
