-------------------------------- MODULE Assets --------------------------------
(* The files an answer links to or draws: the pages that hold them, the         *)
(* worker's registry of which page holds which, and the transfers the           *)
(* controller opens on them.  A transfer is an entry of the worker, admitted    *)
(* after an await; a job of the page, that streams the file one message at a    *)
(* time; and the messages between the two, each judged against the entry that   *)
(* was looked up before another await.  The page's job may outlive the entry,   *)
(* and the entry the page.                                                      *)
EXTENDS Integers, FiniteSets, SequencesExt

CONSTANTS Tab,
          Asset,           \* asset identifiers, each made once, by one page
          Linked,          \* those that can be downloaded
          Id,              \* transfer identifiers, chosen by the controller
          None,
          Budgets,         \* the maxBytes a fetch may name
          Sizes,           \* bound: the sizes a page may declare
          MaxRegistered,   \* maximumRegisteredAssets
          MaxSources,      \* maximumSources of a page
          MaxFetches,      \* bound: fetches and reveals the controller sends
          MaxEvents        \* bound: moves, reloads, closed sockets, worker restarts

ASSUME AssetsAssumption ==
    Linked \subseteq Asset /\ Budgets \subseteq Nat \ {0} /\ Sizes \subseteq Nat
    /\ MaxRegistered \in Nat \ {0} /\ MaxSources \in Nat \ {0}

Conversation == {1, 2}

VARIABLES
    page,       \* [Tab -> what the tab shows: document and conversation]
    holds,      \* [Tab -> the page's source store, oldest first]
    job,        \* [Tab \X Id -> the page's transfer with that id]
    news,       \* [Tab -> navigation events the worker has not handled]
    made,       \* the assets made
    bound,      \* documentsByTab
    held,       \* bindings whose content.register waits before it binds them
    known,      \* assetsById: [Asset -> a document binding, or None]
    order,      \* assetOrder
    active,     \* activeAssetTransfers: [Id -> an index of transfer, or 0]
    transfer,   \* every transfer admitted, in order: the records' contents
    handlers,   \* the fetches and reveals that wait for the pages' answers
    mail,       \* [Tab -> fetches and cancels on their way to the page]
    inbox,      \* the pages' messages whose transfer was looked up
    up,         \* the socket is connected
    heard,      \* [Id -> what the controller was sent since the last admission]
    stray,      \* history: the transfers left open when their tab was bound anew
                \* or unbound
    used        \* how many of the bounded events happened

pages    == <<page, holds, job, news, made>>
registry == <<known, order>>
vars     == <<pages, bound, held, registry, active, transfer, handlers, mail, inbox, up, heard, stray, used>>

Binding(t) == [tab |-> t, doc |-> page[t].doc, conv |-> page[t].conv]

Alive(t, doc) == page[t].doc = doc

NoJob == [at |-> "none"]

\* What the controller can tell of a transfer that was just admitted.
Silence(n, a, max) == [n |-> n, asset |-> a, max |-> max, started |-> FALSE, next |-> 0, bad |-> FALSE, size |-> None]

Happens(what, max) == used[what] < max /\ used' = [used EXCEPT ![what] = @ + 1]

Init ==
    /\ page = [t \in Tab |-> [doc |-> 1, conv |-> 1]]
    /\ holds = [t \in Tab |-> <<>>]
    /\ job = [s \in Tab \X Id |-> NoJob]
    /\ news = [t \in Tab |-> <<>>]
    /\ made = {}
    /\ bound = [t \in Tab |-> Binding(t)]
    /\ known = [a \in Asset |-> None] /\ order = <<>>
    /\ active = [i \in Id |-> 0] /\ transfer = <<>>
    /\ held = {} /\ handlers = {} /\ stray = {}
    /\ mail = [t \in Tab |-> <<>>] /\ inbox = {}
    /\ up = TRUE
    /\ heard = [i \in Id |-> Silence(0, None, 0)]
    /\ used = [fetches |-> 0, events |-> 0]

----------------------------------------------------------------------------
(* The registry and the list of transfers                                       *)

\* What of o is in s, in the order of o: SelectSeq by position, so that it can be
\* reasoned about without induction.
Rank(at, i) == Cardinality({j \in at : j <= i})
Filtered(o, s) ==
    LET at == {i \in DOMAIN o : o[i] \in s}
    IN  [k \in 1 .. Cardinality(at) |-> o[CHOOSE i \in at : Rank(at, i) = k]]

\* assetOrderAfterRegistration, for one asset
Order(o, a) == Append(Filtered(o, Asset \ {a}), a)
Overflow(o) == IF Len(o) > MaxRegistered THEN Len(o) - MaxRegistered ELSE 0
Kept(o) == SubSeq(o, Overflow(o) + 1, Len(o))
\* mutant: the newest go
NewestEvicted(o) == ToSet(SubSeq(o, MaxRegistered + 1, Len(o)))
Evicted(o) == ToSet(SubSeq(o, 1, Overflow(o)))

\* registerAssets, for one asset
KnownAfter(a, b) == [c \in Asset |->
    IF c \in Evicted(Order(order, a)) THEN None ELSE IF c = a THEN b ELSE known[c]]

RegisterAsset(a, b) == known' = KnownAfter(a, b) /\ order' = Kept(Order(order, a))

OpenOn(t) == {i \in Id : active[i] # 0 /\ transfer[active[i]].binding.tab = t}

\* The tab is bound to b, or to nothing, and its other transfers stay open.
PassOver(t, b) == stray' = stray \cup {active[i] : i \in {j \in OpenOn(t) : transfer[active[j]].binding # b}}

Cancel(n) == [kind |-> "cancel", n |-> n, acked |-> FALSE]

\* the cancels sent to the page of t for the transfers in s, in some order
Cancels(s, t) == SetToSeq({Cancel(n) : n \in {m \in s : transfer[m].binding.tab = t}})

Closed(ids) == [i \in Id |-> IF i \in ids THEN 0 ELSE active[i]]

\* every asset and every transfer of the tab goes; the page is told
RemoveAssetsForTab(t) ==
    LET left == [a \in Asset |->
                    IF known[a] # None /\ known[a].tab = t THEN None ELSE known[a]]
    IN  /\ known' = left
        /\ order' = Filtered(order, {a \in Asset : left[a] # None})
        /\ active' = Closed(OpenOn(t))
        /\ mail' = [mail EXCEPT ![t] = @ \o Cancels({active[i] : i \in OpenOn(t)}, t)]

\* stopActiveAssetTransfers
StopTransfers ==
    /\ active' = [i \in Id |-> 0]
    /\ mail' = [t \in Tab |-> mail[t] \o Cancels({active[i] : i \in Id} \ {0}, t)]

----------------------------------------------------------------------------
(* Pages, and what the worker hears of them                                     *)

\* The page finds an asset in an answer and keeps its source, the oldest goes.
Remember(t, a) ==
    LET next == Append(holds[t], a)
    IN  holds' = [holds EXCEPT ![t] =
                    IF Len(next) > MaxSources THEN Tail(next) ELSE next]

\* An answer with one asset: the worker registers it, unless it refuses the
\* answer or lost the request.
Capture(t, a) ==
    /\ a \notin made
    /\ made' = made \cup {a}
    /\ Remember(t, a)
    /\ \/ up /\ bound[t] = Binding(t) /\ RegisterAsset(a, bound[t])
       \/ UNCHANGED registry
    /\ UNCHANGED <<page, job, news, bound, held, active, transfer, handlers, mail, inbox, up, heard, stray, used>>

Event(t, load) == [load |-> load, doc |-> page'[t].doc, conv |-> page'[t].conv]

\* history.pushState: sources and jobs stay.
Move(t, c) ==
    /\ c # page[t].conv /\ Happens("events", MaxEvents)
    /\ page' = [page EXCEPT ![t].conv = c]
    /\ news' = [news EXCEPT ![t] = Append(@, Event(t, FALSE))]
    /\ UNCHANGED <<holds, job, made, bound, held, registry, active, transfer, handlers, mail, inbox, up, heard, stray>>

\* Another document: sources and jobs are gone, messages already sent are not.
Reload(t, c) ==
    /\ Happens("events", MaxEvents)
    /\ page' = [page EXCEPT ![t] = [doc |-> @.doc + 1, conv |-> c]]
    /\ holds' = [holds EXCEPT ![t] = <<>>]
    /\ job' = [s \in Tab \X Id |-> IF s[1] = t THEN NoJob ELSE job[s]]
    /\ news' = [news EXCEPT ![t] = Append(@, Event(t, TRUE))]
    /\ UNCHANGED <<made, bound, held, registry, active, transfer, handlers, mail, inbox, up, heard, stray>>

\* applyTabChange: another document, or another conversation, unbinds the tab; a
\* request of the tab, which Tabs models, keeps another conversation bound.
Hear(t) ==
    /\ news[t] # <<>>
    /\ news' = [news EXCEPT ![t] = Tail(@)]
    /\ LET e == Head(news[t])
           replaced == bound[t] # None /\ e.load /\ e.doc # bound[t].doc
           moved == bound[t] # None /\ e.conv # bound[t].conv
       IN  \/ /\ replaced \/ moved
              /\ bound' = [bound EXCEPT ![t] = None]
              /\ RemoveAssetsForTab(t)
           \/ ~replaced /\ UNCHANGED <<bound, registry, active, mail>>
    /\ UNCHANGED <<page, holds, job, made, held, transfer, handlers, inbox, up, heard, stray, used>>

\* content.register of the page as it is.  A tab with a binding loses its assets
\* first; the selected one is then unselected, saved and given its icon back
\* before it is bound.  (While a request of the tab runs, nothing happens.)
Register(t) ==
    /\ bound[t] # Binding(t)
    /\ IF bound[t] # None THEN RemoveAssetsForTab(t) ELSE UNCHANGED <<registry, active, mail>>
    /\ \/ bound' = [bound EXCEPT ![t] = Binding(t)] /\ UNCHANGED held
       \/ bound[t] # None /\ held' = held \cup {Binding(t)} /\ UNCHANGED bound
    /\ UNCHANGED <<pages, transfer, handlers, inbox, up, heard, stray, used>>

\* The selection is saved and the icon given back: what the tab was bound to
\* meanwhile, and opened meanwhile, is not looked at again.
RegisterBinds(b) ==
    /\ held' = held \ {b}
    /\ bound' = [bound EXCEPT ![b.tab] = b]
    /\ PassOver(b.tab, b)
    /\ UNCHANGED <<pages, registry, active, transfer, handlers, mail, inbox, up, heard, used>>

\* content.transition and content.register of the conversation a running request
\* of the tab created: bound at once, nothing is ended.
Transition(t) ==
    /\ bound[t] # None /\ bound[t].doc = page[t].doc /\ bound[t].conv # page[t].conv
    /\ bound' = [bound EXCEPT ![t] = Binding(t)]
    /\ PassOver(t, Binding(t))
    /\ UNCHANGED <<pages, held, registry, active, transfer, handlers, mail, inbox, up, heard, used>>

\* runContentScriptEnsure: a document that does not answer, because it is gone, is
\* unbound, and so is whatever the tab was bound to while it was asked.
Drop(t) ==
    /\ bound[t] # None /\ page[t].doc > 1
    /\ bound' = [bound EXCEPT ![t] = None]
    /\ PassOver(t, None)
    /\ UNCHANGED <<pages, held, registry, active, transfer, handlers, mail, inbox, up, heard, used>>

\* The socket closes: every transfer stops; what was being handled goes on, and
\* the next connection does not wait for it.
Close ==
    /\ up /\ Happens("events", MaxEvents)
    /\ up' = FALSE
    /\ StopTransfers
    /\ handlers' = {[h EXCEPT !.live = FALSE] : h \in handlers}
    /\ UNCHANGED <<pages, bound, held, registry, transfer, inbox, heard, stray>>

\* The worker restarts with nothing, and nobody tells the pages; a message it
\* had not answered fails in the page.
Restart ==
    /\ Happens("events", MaxEvents)
    /\ up' = FALSE
    /\ bound' = [t \in Tab |-> None]
    /\ known' = [a \in Asset |-> None] /\ order' = <<>>
    /\ active' = [i \in Id |-> 0]
    /\ held' = {} /\ handlers' = {} /\ inbox' = {}
    /\ mail' = [t \in Tab |-> [k \in DOMAIN mail[t] |-> [mail[t][k] EXCEPT !.acked = FALSE]]]
    /\ job' = [s \in Tab \X Id |->
                  IF job[s].at = "reporting" THEN NoJob
                  ELSE IF job[s].at = "waiting" THEN [job[s] EXCEPT !.at = "failing"] ELSE job[s]]
    /\ UNCHANGED <<page, holds, news, made, transfer, heard, stray>>

Reconnect == ~up /\ up' = TRUE
    /\ UNCHANGED <<pages, bound, held, registry, active, transfer, handlers, mail, inbox, heard, stray, used>>

----------------------------------------------------------------------------
(* asset.fetch, asset.reveal and asset.cancel.  The worker handles the          *)
(* controller's messages one at a time.                                         *)

\* mutant: the document bound to the tab now is not read again
UncheckedVerdict(q, b) ==
    IF b = None THEN "asset-unknown"
    ELSE IF q.asset \notin Linked THEN "asset-not-downloadable"
    ELSE IF active[q.id] # 0 THEN "transfer-exists"
    ELSE "admitted"

\* admitAssetFetch, for an asset recovered on binding b (None: not recovered)
Verdict(q, b) ==
    IF b = None THEN "asset-unknown"
    ELSE IF q.asset \notin Linked THEN "asset-not-downloadable"
    ELSE IF active[q.id] # 0 THEN "transfer-exists"
    ELSE IF bound[b.tab] # b THEN "document-changed"
    ELSE "admitted"

\* online: whether the controller could hear of it, for TransferEnds only
Admitted(q, b) == [id |-> q.id, asset |-> q.asset, binding |-> b, max |-> q.max, online |-> up,
                   received |-> 0, next |-> 0, started |-> FALSE, declared |-> None]

Fetch(n) == [kind |-> "fetch", n |-> n, acked |-> TRUE]

Admit(q, b) ==
    LET n == Len(transfer) + 1
    IN  /\ transfer' = Append(transfer, Admitted(q, b))
        /\ active' = [active EXCEPT ![q.id] = n]
        /\ mail' = [mail EXCEPT ![b.tab] = Append(@, Fetch(n))]
        /\ heard' = [heard EXCEPT ![q.id] = Silence(n, q.asset, q.max)]

\* A recovered asset is registered again; a verdict may forget the entry, and
\* leaves its place in the order.
Remembered(a, again, b, forget) ==
    LET kept == IF again THEN KnownAfter(a, b) ELSE known
    IN  /\ known' = IF forget THEN [kept EXCEPT ![a] = None] ELSE kept
        /\ order' = IF again THEN Kept(Order(order, a)) ELSE order

\* What the worker does with fetch q, its asset found on binding b
HandleFetch(q, again, b) ==
    /\ Remembered(q.asset, again, b, Verdict(q, b) = "document-changed")
    /\ IF Verdict(q, b) = "admitted" THEN Admit(q, b)
       ELSE UNCHANGED <<active, transfer, mail, heard>>

\* asset.reveal: the tab is shown and the page scrolls to the asset, if it can.
HandleReveal(q, again, b) ==
    /\ Remembered(q.asset, again, b, IF b = None THEN FALSE ELSE bound[b.tab] # b)
    /\ UNCHANGED <<active, transfer, mail, heard>>

Handle(q, again, b) ==
    IF q.kind = "fetch" THEN HandleFetch(q, again, b) ELSE HandleReveal(q, again, b)

\* The connection's queue is free.
Idle == \A h \in handlers : ~h.live

\* A fetch or reveal arrives.  recoverRegisteredAsset: an asset that is not
\* registered is asked of every bound page at once.
Ask(q) ==
    /\ up /\ Idle /\ Happens("fetches", MaxFetches)
    /\ IF known[q.asset] # None
       THEN Handle(q, FALSE, known[q.asset]) /\ UNCHANGED handlers
       ELSE /\ handlers' = handlers \cup {[no |-> used.fetches, q |-> q, found |-> {}, live |-> TRUE,
                                           asked |-> {bound[t] : t \in Tab} \ {None}]}
            /\ UNCHANGED <<registry, active, transfer, mail, heard>>
    /\ UNCHANGED <<pages, bound, held, inbox, up, stray>>

\* asset.probe: the page answers from its source store, or is gone.
Probe(h, b) ==
    /\ b \in h.asked
    /\ LET has == Alive(b.tab, b.doc) /\ h.q.asset \in ToSet(holds[b.tab])
       IN  handlers' = (handlers \ {h}) \cup
                           {[h EXCEPT !.asked = @ \ {b}, !.found = IF has THEN @ \cup {b} ELSE @]}
    /\ UNCHANGED <<pages, bound, held, registry, active, transfer, mail, inbox, up, heard, stray, used>>

\* Every page has answered: the asset is recovered if exactly one holds it.
Recover(h) ==
    /\ h.asked = {}
    /\ handlers' = handlers \ {h}
    /\ LET one == Cardinality(h.found) = 1
       IN  Handle(h.q, one, IF one THEN CHOOSE b \in h.found : TRUE ELSE None)
    /\ UNCHANGED <<pages, bound, held, inbox, up, stray, used>>

\* asset.cancel (its wait for the page's answer is left out: the page reads the
\* worker's messages in their order).
HandleCancel(i) ==
    /\ up /\ Idle /\ active[i] # 0
    /\ active' = Closed({i})
    /\ LET t == transfer[active[i]].binding.tab
       IN  mail' = [mail EXCEPT ![t] = Append(@, Cancel(active[i]))]
    /\ UNCHANGED <<pages, bound, held, registry, transfer, handlers, inbox, up, heard, stray, used>>

----------------------------------------------------------------------------
(* The page's transfer (createAssetTransferDriver, transferAsset).  A unit of   *)
(* the file is a chunk.                                                         *)

Job(n) == [at |-> "fetching", n |-> n, declared |-> None, count |-> 0, aborted |-> FALSE]

\* A message of the page's job s on the transfer it names: the entry is looked
\* up when it arrives, before the sender's document is.
Message(kind, t, i, n, amount) ==
    [kind |-> kind, tab |-> t, doc |-> page[t].doc, id |-> i, job |-> n,
     asset |-> transfer[n].asset, entry |-> active[i], amount |-> amount]

Send(kind, s, amount) == inbox' = inbox \cup {Message(kind, s[1], s[2], job[s].n, amount)}

JobIs(s, at) == job[s].at = at

\* the job's next phase, and what it waits for
Waits(s, declared) == job' = [job EXCEPT ![s].at = "waiting", ![s].declared = declared]

\* no size is declared, or one within the budget
Fits(size, max) == size \in {None} \cup 0 .. max

PageOnly == UNCHANGED <<page, holds, news, made, bound, held, registry, active, transfer,
                        handlers, mail, up, heard, stray, used>>

\* The file arrives, or is there; a declared size over the budget is refused.
Start(s, declared) ==
    /\ JobIs(s, "fetching")
    /\ Fits(declared, transfer[job[s].n].max)
    /\ Send("start", s, declared)
    /\ Waits(s, declared)
    /\ PageOnly

NextChunk(s) ==
    /\ JobIs(s, "streaming") /\ ~job[s].aborted
    /\ job[s].count < transfer[job[s].n].max
    /\ Send("chunk", s, job[s].count)
    /\ Waits(s, job[s].declared)
    /\ PageOnly

\* The end of the stream, which must agree with a declared size; no abort is
\* looked for here.
EndOfStream(s) ==
    /\ JobIs(s, "streaming")
    /\ job[s].declared \in {None, job[s].count}
    /\ Send("complete", s, job[s].count)
    /\ Waits(s, job[s].declared)
    /\ PageOnly

\* The download fails or is aborted, the file is too long or too short, or the
\* worker refused a message: the page says so.
ReportFailure(s) ==
    /\ job[s].at \in {"fetching", "streaming", "failing"}
    /\ Send("error", s, 0)
    /\ job' = [job EXCEPT ![s].at = "reporting"]
    /\ PageOnly

\* mutant: nothing is said of an asset the page no longer holds
SilentOpenJob(n) ==
    LET r == transfer[n]
        s == <<r.binding.tab, r.id>>
    IN  /\ job' = IF r.asset \in ToSet(holds[s[1]]) /\ job[s] = NoJob
                  THEN [job EXCEPT ![s] = Job(n)] ELSE job
        /\ UNCHANGED inbox

\* asset.fetch in the page: accepted before anything is looked at.
OpenJob(n) ==
    LET r == transfer[n]
        s == <<r.binding.tab, r.id>>
    IN  IF r.asset \notin ToSet(holds[s[1]])
        THEN /\ inbox' = inbox \cup {Message("error", s[1], s[2], n, 0)}
             /\ UNCHANGED job
        ELSE /\ job' = IF job[s] = NoJob THEN [job EXCEPT ![s] = Job(n)] ELSE job
             /\ UNCHANGED inbox

\* asset.cancel in the page.
AbortJob(n) ==
    LET r == transfer[n]
        s == <<r.binding.tab, r.id>>
    IN  /\ job' = IF job[s] # NoJob /\ transfer[job[s].n].asset = r.asset
                  THEN [job EXCEPT ![s].aborted = TRUE] ELSE job
        /\ UNCHANGED inbox

\* A fetch whose page is gone closes the entry of its id.
Deliver(t) ==
    /\ mail[t] # <<>>
    /\ mail' = [mail EXCEPT ![t] = Tail(@)]
    /\ LET m == Head(mail[t])
           r == transfer[m.n]
       IN  IF Alive(t, r.binding.doc)
           THEN /\ IF m.kind = "fetch" THEN OpenJob(m.n) ELSE AbortJob(m.n)
                /\ UNCHANGED active
           ELSE /\ active' = IF m.acked THEN Closed({r.id}) ELSE active
                /\ UNCHANGED <<job, inbox>>
    /\ UNCHANGED <<page, holds, news, made, bound, held, registry, transfer, handlers, up, heard, stray, used>>

----------------------------------------------------------------------------
(* The page's messages in the worker                                            *)

\* validAssetSender, once the sender's document has been read: the entry looked
\* up before, whatever became of it since.
ValidSender(m) ==
    /\ m.entry # 0
    /\ transfer[m.entry].asset = m.asset
    /\ transfer[m.entry].binding = [tab |-> m.tab, doc |-> m.doc, conv |-> page[m.tab].conv]

ParsedStart(r, m) == ~r.started /\ Fits(m.amount, r.max)

ParsedChunk(r, m) == r.started /\ m.amount = r.next /\ r.received + 1 <= r.max

\* mutant: a completion before the start
UnstartedParsedCompletion(r, m) == m.amount = r.received /\ r.declared \in {None, m.amount}

ParsedCompletion(r, m) ==
    r.started /\ m.amount = r.received /\ r.declared \in {None, m.amount}

\* The job goes on with the answer, unless its page is gone.
Answer(m, at) ==
    LET s == <<m.tab, m.id>>
    IN  job' = IF Alive(m.tab, m.doc) /\ job[s].at \in {"waiting", "reporting"} /\ job[s].n = m.job
               THEN [job EXCEPT ![s] = at] ELSE job

Take(m) == inbox' = inbox \ {m}

Running(m) == [job[<<m.tab, m.id>>] EXCEPT !.at = "streaming"]
Refused(m) == [job[<<m.tab, m.id>>] EXCEPT !.at = "failing"]

\* A frame of the last transfer admitted under its id, as the controller hears
\* it: nothing after the last, and nothing of an earlier transfer with that id.
Tell(m, told) ==
    heard' = [heard EXCEPT ![m.id] =
                 IF @.size # None \/ @.n # m.entry THEN @
                 ELSE [told EXCEPT !.bad = @ \/ m.asset # heard[m.id].asset]]

Update(n, r) == transfer' = [transfer EXCEPT ![n] = r]

Inside == UNCHANGED <<page, holds, news, made, bound, held, registry, handlers, up, stray, used>>

TakeStart(m) ==
    LET r == transfer[m.entry]
        h == heard[m.id]
    IN  /\ m.kind = "start" /\ Take(m)
        /\ IF ValidSender(m) /\ up /\ ParsedStart(r, m)
           THEN /\ Update(m.entry, [r EXCEPT !.started = TRUE, !.declared = m.amount])
                /\ Tell(m, [h EXCEPT !.started = TRUE, !.bad = @ \/ h.started])
                /\ Answer(m, Running(m))
           ELSE Answer(m, Refused(m)) /\ UNCHANGED <<transfer, heard>>
        /\ UNCHANGED <<active, mail>> /\ Inside

\* cancelAssetTransfer on the entry held, then an error frame.
CloseInvalid(m) ==
    IF ValidSender(m)
    THEN /\ active' = Closed({m.id})
         /\ mail' = [mail EXCEPT ![m.tab] = Append(@, Cancel(m.entry))]
    ELSE UNCHANGED <<active, mail>>

TakeChunk(m) ==
    LET r == transfer[m.entry]
        h == heard[m.id]
    IN  /\ m.kind = "chunk" /\ Take(m)
        /\ IF ValidSender(m) /\ up /\ ParsedChunk(r, m)
           THEN /\ Update(m.entry, [r EXCEPT !.next = @ + 1, !.received = @ + 1])
                /\ Tell(m, [h EXCEPT !.next = @ + 1, !.bad = @ \/ m.amount # h.next])
                /\ Answer(m, [Running(m) EXCEPT !.count = @ + 1])
                /\ UNCHANGED <<active, mail>>
           ELSE CloseInvalid(m) /\ Answer(m, Refused(m)) /\ UNCHANGED <<transfer, heard>>
        /\ Inside

TakeComplete(m) ==
    LET r == transfer[m.entry]
    IN  /\ m.kind = "complete" /\ Take(m)
        /\ IF ValidSender(m) /\ up /\ ParsedCompletion(r, m)
           THEN /\ active' = Closed({m.id})
                /\ Tell(m, [heard[m.id] EXCEPT !.size = m.amount])
                /\ Answer(m, NoJob)
                /\ UNCHANGED mail
           ELSE CloseInvalid(m) /\ Answer(m, Refused(m)) /\ UNCHANGED heard
        /\ UNCHANGED transfer /\ Inside

TakeError(m) ==
    /\ m.kind = "error" /\ Take(m)
    /\ active' = IF ValidSender(m) /\ up THEN Closed({m.id}) ELSE active
    /\ Answer(m, NoJob)
    /\ UNCHANGED <<transfer, heard, mail>> /\ Inside

----------------------------------------------------------------------------
Request == [kind : {"fetch"}, id : Id, asset : Asset, max : Budgets]
           \cup [kind : {"reveal"}, asset : Asset]

Controller == (\E i \in Id : HandleCancel(i)) \/ (\E q \in Request : Ask(q))

World ==
    \/ \E b \in held : RegisterBinds(b)
    \/ \E t \in Tab :
        \/ \E a \in Asset : Capture(t, a)
        \/ \E c \in Conversation : Move(t, c) \/ Reload(t, c)
        \/ Hear(t) \/ Register(t) \/ Transition(t) \/ Drop(t)

Handler == \E h \in handlers : Recover(h) \/ (\E b \in h.asked : Probe(h, b))

PageWorks(s) ==
    \/ \E declared \in Sizes : Start(s, declared)
    \/ Start(s, None) \/ NextChunk(s) \/ EndOfStream(s) \/ ReportFailure(s)

TakeMessage == \E m \in inbox : TakeStart(m) \/ TakeChunk(m) \/ TakeComplete(m) \/ TakeError(m)

Next ==
    \/ Controller \/ World \/ Handler \/ TakeMessage
    \/ Close \/ Restart \/ Reconnect
    \/ \E t \in Tab : Deliver(t)
    \/ \E s \in Tab \X Id : PageWorks(s)

\* The worker handles what reaches it, Chrome reports every navigation and
\* delivers messages, and a download ends or fails: a body that stalls for ever
\* is ended by the controller's cancel only, and
\* PageWorks says that it does not.  Nothing is asked of the controller.
Fairness ==
    /\ WF_vars(TakeMessage)
    /\ \A t \in Tab : WF_vars(Hear(t)) /\ WF_vars(Deliver(t))
    /\ \A s \in Tab \X Id : WF_vars(PageWorks(s))

Spec == Init /\ [][Next]_vars /\ Fairness
----------------------------------------------------------------------------
(* Properties                                                                 *)

\* A file the controller is told is complete is whole: it heard the start, then
\* the chunks 0, 1, ... of that asset in order, as many as the size it is told,
\* within the budget it granted - although the page's job may have begun for an
\* earlier transfer, which the worker forgot when it restarted.
CompleteIsWhole ==
    \A i \in Id : heard[i].size # None =>
        /\ heard[i].started /\ ~heard[i].bad
        /\ heard[i].next = heard[i].size
        /\ heard[i].size <= heard[i].max

\* The registry keeps at most maximumRegisteredAssets entries: every entry has its
\* place in the order, once, whatever evictions, recoveries and documents that
\* went away left behind.
RegistryIsBounded ==
    /\ {a \in Asset : known[a] # None} \subseteq ToSet(order)
    /\ IsInjective(order)
    /\ Len(order) <= MaxRegistered

\* A transfer is open only while its tab is bound to the very document and
\* conversation the asset was recovered from: not after a navigation or a reload,
\* nor because it was admitted after one, when the pages' answers were stale.
\* (Except those that a registration waiting for a save, a running request's
\* transition or a document that did not answer left open on their old binding.)
TransferFollowsItsDocument ==
    \A i \in Id : active[i] # 0 /\ active[i] \notin stray =>
        LET b == transfer[active[i]].binding IN bound[b.tab] = b

\* an id that no earlier transfer had
FirstUse(n) == \A k \in 1 .. n - 1 : transfer[k].id # transfer[n].id

\* the first transfer of id i is open, and was admitted while connected
FirstOpen(i) == active[i] # 0 /\ FirstUse(active[i]) /\ transfer[active[i]].online

\* The page is not where the transfer was opened, and the worker, which has heard
\* so, bound the tab anew without ending it or keeps its old binding for a request.
Astray(n) ==
    LET b == transfer[n].binding
    IN  /\ Binding(b.tab) # b
        /\ n \in stray \/ (bound[b.tab] = b /\ news[b.tab] = <<>>)

\* Every transfer ends: completed, failed, cancelled, or with its document, its
\* socket or the worker.  (Not one admitted for a socket that closed while the
\* pages were asked, nor a second one with the id of a job the page still has,
\* nor one gone astray.)
TransferEnds == \A i \in Id : FirstOpen(i) ~> (~FirstOpen(i) \/ Astray(active[i]))
=============================================================================
