------------------------------ MODULE GenericSite ------------------------------
(* One website bound as a generic provider: the bindings saved for it           *)
(* (profiles, one for a route), the pages that read and rewrite them, and the   *)
(* popup that removes bindings or revokes the site.  The background serialises  *)
(* the writes of a site and refuses one whose writer read an older binding;     *)
(* between reading and writing a page waits for the person, a model, a whole    *)
(* answer.  A binding is reduced to its Stop control, the one control whose     *)
(* identity the evidence of a lifecycle depends on.                             *)
EXTENDS Naturals, FiniteSets

CONSTANTS Page,          \* tabs of the site
          Route,         \* route patterns of its pages
          Control,       \* controls that may be bound as Stop
          None,
          MaxProfiles,   \* maximumProfilesPerOrigin
          MaxFailures,   \* consecutive failures that end a validation
          MaxHeals,      \* maximumHealingAttempts
          MaxWrites,     \* bound: writes that succeed
          MaxTurns,      \* bound: prompts
          MaxSide,       \* bound: other jobs of the pages, and setups
          MaxEvents      \* bound: moves, permission changes, restarts, popup orders

ASSUME SiteAssumption ==
    MaxProfiles \in Nat \ {0} /\ MaxFailures \in Nat \ {0} /\ MaxHeals \in Nat \ {0}

Side == "side"   \* the slot of every job that is not a prompt
ASSUME SlotAssumption == Side \notin Page

Slot == Page \cup {Side}

\* A Stop control seen, with the route and the lifecycle it was seen in; a saved binding.
Evidence == [stop : Control, route : Route, level : 1..3, at : Nat]
Profile  == [route : Route, stop : Control \cup {None}, ev : Evidence \cup {None},
             valid : BOOLEAN, fails : Nat, at : Nat]

\* Where a job waits.
Step == {"asked", "matched", "gated", "resolving", "ready", "submitted", "captured", "recorded", "answered", "refused",
         "saving", "heal", "healing", "healed", "load", "loaded", "press", "done", "over"}

ASSUME NoneAssumption == None \notin Step /\ None \notin Profile /\ None \notin Evidence

VARIABLES
    store,       \* the saved profiles, a set with one profile for a route
    draft,       \* [Route -> the Stop of an unfinished binding, or None]
    job,         \* [Slot -> the prompt in a page, or the other job]
    route,       \* [Page -> the route the page shows]
    shown,       \* [Page -> the active Stop control on the page, or None]
    heals,       \* [Page -> healing attempts made for its document]
    manage,      \* what managementOrigins holds this site for, or None
    order,       \* what the popup asks the person to confirm, or None
    permitted,   \* the browser grants access to the site
    registered,  \* pages in the worker's registrations
    busy,        \* pages with a request in activeRequests
    clock,       \* time: how many writes have succeeded
    used,        \* how many of the bounded turns, jobs and events happened
    earned,      \* <<route, control>> whose lifecycle a prompt saw to its end
    mistaken     \* <<route, control>> credited with another control's lifecycle

pages  == <<route, shown, heals>>
access == <<manage, order, permitted, registered>>
book   == <<earned, mistaken>>
vars   == <<store, draft, job, pages, access, busy, clock, used, book>>

Find(ps, r) == IF \E q \in ps : q.route = r
               THEN CHOOSE q \in ps : q.route = r ELSE None

NoJob == [at |-> None, task |-> None]

Job(p) == [at |-> "asked", page |-> p, task |-> "send", obj |-> None, ver |-> None,
           msg |-> None, saw |-> None, manual |-> FALSE, idle |-> FALSE, retried |-> FALSE]

\* an activeRequest exists in the page
Active(p) == job[p].at \in {"submitted", "captured", "recorded"}
             \/ (job[p].at = "saving" /\ job[p].msg.ok \in {"submitted", "recorded"})

Count(what, max) == used[what] < max /\ used' = [used EXCEPT ![what] = @ + 1]

----------------------------------------------------------------------------
(* A profile and its evidence: [stop, route, level, at], level 1 a Stop         *)
(* control was seen, 2 a whole lifecycle, 3 an interruption                     *)

WithoutEvidence(o) == [o EXCEPT !.ev = None]

\* the evidence counts for the control and the route it was taken from
EvidenceMatches(o) == o.ev # None /\ o.ev.stop = o.stop /\ o.ev.route = o.route

HasObservedStop(o)      == o.stop # None /\ EvidenceMatches(o)
HasVerifiedLifecycle(o) == HasObservedStop(o) /\ o.ev.level >= 2

ObservedKeepingLevel(o) ==
    IF o.stop = None THEN WithoutEvidence(o)
    ELSE [o EXCEPT !.ev = [stop |-> o.stop, route |-> o.route, at |-> clock,
                           level |-> IF o.ev # None THEN o.ev.level ELSE 1]]

WithObserved(o) ==
    IF o.stop = None THEN WithoutEvidence(o)
    ELSE [o EXCEPT !.ev = [stop |-> o.stop, route |-> o.route, at |-> clock,
                           level |-> IF EvidenceMatches(o) THEN o.ev.level ELSE 1]]

AtLeast(level, o) ==
    IF o.ev = None \/ o.ev.level >= level THEN o ELSE [o EXCEPT !.ev.level = level]

WithCompleted(o) == AtLeast(2, WithObserved(o))

WithConfirmed(o) == AtLeast(3, WithCompleted(o))

\* profileAlignedToCurrentRoute
Aligned(o, p) == IF o.route = route[p] THEN o
                 ELSE [WithoutEvidence(o) EXCEPT !.route = route[p]]

\* markProfileValidation
Marked(o, p, success, force) ==
    LET moved == success /\ o.route # route[p]
        fails == IF success THEN 0 ELSE o.fails + 1
    IN  [o EXCEPT !.route = IF moved THEN route[p] ELSE @,
                  !.ev    = IF success /\ ~moved THEN @ ELSE None,
                  !.valid = success \/ (~force /\ @ /\ fails < MaxFailures),
                  !.fails = fails,
                  !.at    = IF success THEN clock ELSE @]

Fresh(r, c) == [route |-> r, stop |-> c, ev |-> None, valid |-> FALSE, fails |-> 0, at |-> 0]

Saved(r, c) == [Fresh(r, c) EXCEPT !.valid = TRUE]

Proven(r, c) == [Saved(r, c) EXCEPT !.ev = [stop |-> c, route |-> r, level |-> 2, at |-> 0]]

\* earlier sessions left some routes bound, all with evidence or none; the pages
\* show one route
Init ==
    /\ \E bound \in SUBSET Route : \E stop \in [bound -> Control] :
          \/ store = {Saved(r, stop[r]) : r \in bound} /\ earned = {}
          \/ /\ store = {Proven(r, stop[r]) : r \in bound}
             /\ earned = {<<r, stop[r]>> : r \in bound}
    /\ draft = [r \in Route |-> None]
    /\ job = [s \in Slot |-> NoJob]
    /\ \E r \in Route : route = [p \in Page |-> r]
    /\ shown = [p \in Page |-> None]
    /\ heals = [p \in Page |-> 0]
    /\ manage = None /\ order = None
    /\ permitted = TRUE /\ registered = Page /\ busy = {}
    /\ clock = 1 /\ used = [turns |-> 0, side |-> 0, events |-> 0]
    /\ mistaken = {}

----------------------------------------------------------------------------
(* Reading and writing: what a job read is remembered with the object it holds  *)

\* the versions loadBindingProfiles attaches to every profile it returns
Version(r) == [route |-> r, targets |-> store]

Matching(p, validated) ==
    LET q == Find(store, route[p]) IN
    IF q # None /\ (q.valid \/ ~validated) THEN q ELSE None

Put(s, to)      == job' = [job EXCEPT ![s].at = to]
Hold(s, o, to)  == job' = [job EXCEPT ![s].at = to, ![s].obj = o, ![s].ver = Version(o.route)]

\* saveBindingProfile(o) from the version ver; ok and bad say how the job goes on
Message(o, ver, ok, bad) ==
    [profile |-> o, ok |-> ok, bad |-> bad,
     target  |-> IF ver = None THEN None ELSE Find(ver.targets, o.route),
     source  |-> IF ver = None THEN None ELSE Find(ver.targets, ver.route)]

SaveFrom(s, o, ver, ok, bad) ==
    job' = [job EXCEPT ![s].at = "saving", ![s].ver = ver,
                       ![s].msg = Message(o, ver, ok, bad)]

Save(s, o, ok, bad) == SaveFrom(s, o, job[s].ver, ok, bad)

\* a record of evidence is best effort: it goes on whatever the answer
Record(s, o, to) == Save(s, o, to, to)

\* the background's test, inside the site's mutation queue
SourceOnly(m) == m.source # None => Find(store, m.source.route) = m.source

Current(m) ==
    /\ m.source # None => Find(store, m.source.route) = m.source
    /\ Find(store, m.profile.route) = m.target

\* the profiles that stay beside the new one: the latest to have succeeded
Kept(o) ==
    LET prior == {q \in store : q.route # o.route} IN
    {k \in SUBSET prior :
        /\ Cardinality(k) = IF Cardinality(prior) < MaxProfiles THEN Cardinality(prior)
                            ELSE MaxProfiles - 1
        /\ \A q \in k, d \in prior \ k : q.at >= d.at}

Upsert(s) ==
    /\ job[s].at = "saving" /\ manage = None /\ Current(job[s].msg) /\ clock <= MaxWrites
    /\ LET o     == job[s].msg.profile
           known == IF job[s].ver = None THEN {} ELSE job[s].ver.targets
       IN  /\ \E k \in Kept(o) : store' = k \cup {o}
           /\ job' = [job EXCEPT
                 ![s].at = job[s].msg.ok, ![s].obj = o, ![s].msg = None,
                 ![s].ver = [route |-> o.route,
                             targets |-> {q \in known : q.route # o.route} \cup {o}]]
           /\ draft' = IF job[s].task = "pick" THEN [draft EXCEPT ![o.route] = None] ELSE draft
    /\ clock' = clock + 1
    /\ UNCHANGED <<pages, access, busy, used, book>>

\* the binding changed or was removed, or it is being managed
SaveRefused(s) ==
    /\ job[s].at = "saving" /\ (manage # None \/ ~Current(job[s].msg))
    /\ job' = [job EXCEPT ![s].at = job[s].msg.bad, ![s].obj = job[s].msg.profile,
                          ![s].msg = None]
    /\ UNCHANGED <<store, draft, pages, access, busy, clock, used, book>>

\* resolveProfile: the route's own profile, or one of another route that fits
\* the page, saved for this route first
Resolve(s, validated, to) ==
    LET p == job[s].page IN
    IF Matching(p, validated) # None
    THEN Hold(s, Matching(p, validated), to)
    ELSE \E q \in {q \in store : q.valid \/ ~validated} :
            SaveFrom(s, [WithoutEvidence(q) EXCEPT !.route = route[p], !.fails = 0],
                     Version(q.route), to, "over")

Over(s) ==
    /\ job' = [job EXCEPT ![s] = NoJob]
    /\ busy' = IF s = Side THEN busy ELSE busy \ {s}

----------------------------------------------------------------------------
(* SEND: the background's registry and gates (sendGenericCommand), then the page *)

\* entered among the active requests, whatever is being done to the site
Ask(p) ==
    /\ job[p] = NoJob /\ p \notin busy
    /\ Count("turns", MaxTurns)
    /\ busy' = busy \cup {p} /\ job' = [job EXCEPT ![p] = Job(p)]
    /\ UNCHANGED <<store, draft, pages, access, clock, book>>

\* exactSession: the page is registered
Match(p) ==
    /\ job[p].at = "asked" /\ p \in registered
    /\ Put(p, "matched")
    /\ UNCHANGED <<store, draft, pages, access, busy, clock, used, book>>

\* the first assertManagementIdle, which asks the page's registration for its site
Gate(p) ==
    /\ job[p].at = "matched" /\ (p \in registered => manage = None)
    /\ Put(p, "gated")
    /\ UNCHANGED <<store, draft, pages, access, busy, clock, used, book>>

\* asked again after the await that read the permission
Deliver(p) ==
    /\ job[p].at = "gated" /\ permitted /\ manage = None
    /\ Put(p, "resolving")
    /\ UNCHANGED <<store, draft, pages, access, busy, clock, used, book>>

\* the binding is being changed, or website access is unavailable
Withhold(p) ==
    /\ \/ job[p].at = "matched" /\ p \in registered /\ manage # None
       \/ job[p].at = "gated" /\ ~(permitted /\ manage = None)
    /\ Over(p)
    /\ UNCHANGED <<store, draft, pages, access, clock, used, book>>

Bind(p) ==
    /\ job[p].at = "resolving" /\ Resolve(p, TRUE, "ready")
    /\ UNCHANGED <<store, draft, pages, access, busy, clock, used, book>>

\* no validated binding, a refused save, a page that is not the one expected
Fail(p) ==
    /\ job[p].at \in {"asked", "matched", "gated", "resolving", "ready", "submitted", "over"}
    /\ Over(p)
    /\ UNCHANGED <<store, draft, pages, access, clock, used, book>>

\* no generation may run when the prompt is clicked in
Submit(p) ==
    /\ job[p].at = "ready" /\ shown[p] = None
    /\ Put(p, "submitted")
    /\ UNCHANGED <<store, draft, pages, access, busy, clock, used, book>>

\* a control of the binding no longer resolves: counted, then healed once
BindingInvalid(p) ==
    /\ job[p].at = "ready"
    /\ Save(p, Marked(job[p].obj, p, FALSE, FALSE), IF job[p].retried THEN "over" ELSE "heal", "over")
    /\ UNCHANGED <<store, draft, pages, access, busy, clock, used, book>>

ShowStop(p, c) ==
    /\ job[p].at = "submitted" /\ shown[p] = None /\ job[p].saw = None
    /\ shown' = [shown EXCEPT ![p] = c]
    /\ UNCHANGED <<store, draft, job, route, heals, access, busy, clock, used, book>>

\* the site may also stop by itself
EndGeneration(p) ==
    /\ shown[p] # None /\ shown' = [shown EXCEPT ![p] = None]
    /\ UNCHANGED <<store, draft, job, route, heals, access, busy, clock, used, book>>

\* learnTransientStopBinding, bindObservedStop
WithStop(o, c) == [o EXCEPT !.stop = c]

LearnStop(p) ==
    /\ job[p].at = "submitted" /\ shown[p] # None /\ job[p].saw = None
    /\ LET o == WithStop(job[p].obj, shown[p])
           n == WithObserved(Aligned(o, p))
       IN  job' = [job EXCEPT ![p].saw = shown[p],
                       ![p].at = IF HasObservedStop(o) THEN @ ELSE "saving",
                       ![p].msg = IF HasObservedStop(o) THEN None
                                  ELSE Message(n, job[p].ver, "submitted", "submitted")]
    /\ UNCHANGED <<store, draft, pages, access, busy, clock, used, book>>

\* the answer is complete: a generation was seen and it has ended
Capture(p) ==
    /\ job[p].at = "submitted" /\ job[p].saw # None /\ shown[p] = None
    /\ job' = [job EXCEPT ![p].at = "captured", ![p].idle = TRUE]
    /\ UNCHANGED <<store, draft, pages, access, busy, clock, used, book>>

\* whose lifecycle is the evidence really about?
Credit(o, p, saw) ==
    LET pair == <<Aligned(o, p).route, o.stop>> IN
    IF o.stop = saw
    THEN earned' = earned \cup {pair} /\ UNCHANGED mistaken
    ELSE mistaken' = mistaken \cup {pair} /\ UNCHANGED earned

\* finalizeResponse
Finalize(p) ==
    /\ job[p].at = "captured"
    /\ IF job[p].idle
       THEN /\ Record(p, WithCompleted(Aligned(job[p].obj, p)), "recorded")
            /\ Credit(job[p].obj, p, job[p].saw)
       ELSE Put(p, "recorded") /\ UNCHANGED book
    /\ UNCHANGED <<store, draft, pages, access, busy, clock, used>>

\* the last thing before the answer goes back: the binding worked
CountSuccess(p) ==
    /\ job[p].at = "recorded"
    /\ Save(p, Marked(job[p].obj, p, TRUE, FALSE), "answered", "refused")
    /\ UNCHANGED <<store, draft, pages, access, busy, clock, used, book>>

Answered(p) ==
    /\ job[p].at = "answered"
    /\ heals' = [heals EXCEPT ![p] = 0]   \* clearHealingAttempts
    /\ Over(p)
    /\ UNCHANGED <<store, draft, route, shown, access, clock, used, book>>

\* the save was refused, and so the request fails although it was answered
AnswerRefused(p) ==
    /\ job[p].at = "refused"
    /\ Over(p)
    /\ UNCHANGED <<store, draft, pages, access, clock, used, book>>

----------------------------------------------------------------------------
(* autoHeal, in a prompt whose binding was invalid or asked for by itself       *)

\* one at a time; healingInFlight
Healing(p) == \E s \in {p, Side} : job[s].at \notin {None, "saving"} /\ job[s].page = p
                                   /\ job[s].at = "healing"

ReserveHealing(p) == heals[p] < MaxHeals /\ heals' = [heals EXCEPT ![p] = @ + 1]

StartHealing(s) ==
    /\ job[s].at = "heal"
    /\ LET p == job[s].page
           q == Matching(p, FALSE)
       IN  /\ ~Healing(p) /\ ~Active(p) /\ (q # None => shown[p] = None \/ shown[p] # q.stop)
           /\ ReserveHealing(p)
           /\ job' = [job EXCEPT ![s].at = "healing", ![s].obj = route[p],
                                 ![s].ver = IF q = None THEN None ELSE Version(q.route)]
    /\ UNCHANGED <<store, draft, route, shown, access, busy, clock, used, book>>

\* the model chose among the page's controls and the page is still that page
Heal(s) ==
    /\ job[s].at = "healing" /\ ~Active(job[s].page)
    /\ route[job[s].page] = job[s].obj
    /\ \E c \in Control \cup {None} :
          SaveFrom(s, Fresh(route[job[s].page], c), job[s].ver, "healed", "over")
    /\ UNCHANGED <<store, draft, pages, access, busy, clock, used, book>>

\* the candidate is tried on the page
ValidateHealed(s) ==
    /\ job[s].at = "healed"
    /\ LET p == job[s].page IN
       \/ /\ job' = [job EXCEPT ![s].at = "saving", ![s].retried = TRUE,
                 ![s].msg = Message(Marked(job[s].obj, p, TRUE, FALSE), job[s].ver,
                                    IF s = Side THEN "over" ELSE "resolving", "over")]
       \/ Save(s, Marked(job[s].obj, p, FALSE, TRUE), "over", "over")
    /\ UNCHANGED <<store, draft, pages, access, busy, clock, used, book>>

\* not reserved, or nothing was chosen
HealingFails(s) ==
    /\ job[s].at \in {"heal", "healing"}
    /\ Over(s)
    /\ UNCHANGED <<store, draft, pages, access, clock, used, book>>

----------------------------------------------------------------------------
(* The other jobs of a page                                                   *)

Start(p, task, at) ==
    /\ job[Side] = NoJob /\ Count("side", MaxSide)
    /\ job' = [job EXCEPT ![Side] = [Job(p) EXCEPT !.task = task, !.at = at]]
    /\ UNCHANGED <<store, draft, pages, access, busy, clock, book>>

StartHeal(p)  == Start(p, "heal", "heal")
StartJob(p)   == \E task \in {"status", "validate", "pick"} : Start(p, task, "load")
\* CANCEL and the selected answer, while the prompt is submitted and not captured
StartStop(p)  == job[p].at = "submitted" /\ \E task \in {"cancel", "select"} : Start(p, task, "load")

SideOver ==
    /\ job[Side].at = "over" /\ Over(Side)
    /\ UNCHANGED <<store, draft, pages, access, clock, used, book>>

Load ==
    /\ job[Side].at = "load" /\ job[Side].task # "pick"
    /\ \/ Resolve(Side, FALSE, "loaded")
       \/ store = {} /\ Put(Side, "over")
    /\ UNCHANGED <<store, draft, pages, access, busy, clock, used, book>>

\* profileStatus records a Stop control nobody has recorded yet, and starts a
\* healing when the binding has failed and the page is idle
Status ==
    /\ job[Side].at = "loaded" /\ job[Side].task = "status"
    /\ LET p == job[Side].page
           o == job[Side].obj
       IN  IF shown[p] # None /\ shown[p] = o.stop /\ ~HasObservedStop(o)
           THEN Record(Side, WithObserved(Aligned(o, p)), "over")
           ELSE Put(Side, IF o.fails > 0 /\ job[p] = NoJob THEN "heal" ELSE "over")
    /\ UNCHANGED <<store, draft, pages, access, busy, clock, used, book>>

\* validateProfile: do the controls resolve?
Validate ==
    /\ job[Side].at = "loaded" /\ job[Side].task = "validate"
    /\ \E ready \in BOOLEAN :
          Save(Side, Marked(job[Side].obj, job[Side].page, ready, ~ready), "over", "over")
    /\ UNCHANGED <<store, draft, pages, access, busy, clock, used, book>>

Stopping == job[Side].at = "loaded" /\ job[Side].task \in {"cancel", "select"}

\* the prompt it was started for is not active any more
StopDisowned ==
    /\ job[Side].task \in {"cancel", "select"} /\ job[Side].at \in {"loaded", "press", "done"}
    /\ ~Active(job[Side].page)
    /\ Over(Side)
    /\ UNCHANGED <<store, draft, pages, access, clock, used, book>>

\* a control is shown: it is bound, recorded, and will be pressed
FindStop ==
    /\ Stopping /\ Active(job[Side].page)
    /\ LET p == job[Side].page IN
       /\ shown[p] # None
       /\ job' = [job EXCEPT ![Side].at = "saving", ![Side].saw = shown[p],
                     ![Side].msg = Message(WithObserved(Aligned(WithStop(job[Side].obj, shown[p]), p)),
                                           job[Side].ver, "press", "press"),
                     ![p].saw = shown[p]]
    /\ UNCHANGED <<store, draft, pages, access, busy, clock, used, book>>

PressStop ==
    /\ job[Side].at = "press" /\ Active(job[Side].page)
    /\ LET p == job[Side].page IN
       /\ shown' = [shown EXCEPT ![p] = None]
       /\ Record(Side, WithConfirmed(Aligned(job[Side].obj, p)), "done")
       /\ Credit(job[Side].obj, p, job[Side].saw)
    /\ UNCHANGED <<store, draft, route, heals, access, busy, clock, used>>

\* the generation had ended already, or none was seen
NothingToStop ==
    /\ Stopping /\ Active(job[Side].page)
    /\ LET p == job[Side].page IN
       /\ shown[p] = None
       /\ IF job[p].saw # None
          THEN /\ Record(Side, WithCompleted(Aligned(job[Side].obj, p)), "done")
               /\ Credit(job[Side].obj, p, job[p].saw)
          ELSE Put(Side, IF job[Side].task = "select" THEN "done" ELSE "over") /\ UNCHANGED book
    /\ UNCHANGED <<store, draft, pages, access, busy, clock, used>>

\* resolveManual: the selected text is the prompt's answer
SelectedAnswer ==
    /\ job[Side].at = "done" /\ job[Side].task = "select"
    /\ LET p == job[Side].page IN
       /\ job[p].at = "submitted"
       /\ job' = [job EXCEPT ![Side] = NoJob, ![p].at = "captured", ![p].manual = TRUE,
                             ![p].idle = job[p].saw # None]
    /\ UNCHANGED <<store, draft, pages, access, busy, clock, used, book>>

Cancelled ==
    /\ job[Side].at = "done" /\ job[Side].task = "cancel"
    /\ LET p == job[Side].page IN
       /\ job[p].at = "submitted"
       /\ job' = [job EXCEPT ![Side] = NoJob, ![p] = NoJob]
       /\ busy' = busy \ {p}
    /\ UNCHANGED <<store, draft, pages, access, clock, used, book>>

\* saveBindingDraftRole: somebody chose a Stop control, or another one
Pick ==
    /\ job[Side].at = "load" /\ job[Side].task = "pick"
    /\ LET p == job[Side].page
           r == route[p]
           q == Find(store, r)
           kept == IF draft[r] # None THEN draft[r] ELSE IF q # None THEN q.stop ELSE None
       IN  \E c \in Control \cup {kept} :
              /\ draft' = [draft EXCEPT ![r] = c]
              /\ \/ SaveFrom(Side, Fresh(r, c), IF q = None THEN None ELSE Version(r), "over", "over")
                 \/ q = None /\ Put(Side, "over")   \* composer or region still missing
    /\ UNCHANGED <<store, pages, access, busy, clock, used, book>>

----------------------------------------------------------------------------
(* The popup and the background's management of the site                      *)

\* the list was shown, and a row's button asks for a confirmation
AskPerson(op) ==
    /\ order = None /\ manage = None
    /\ \/ op = "remove" /\ Count("events", MaxEvents)
          /\ \E q \in store : order' = [op |-> op, id |-> q]
       \/ op = "revoke" /\ Count("events", MaxEvents) /\ order' = [op |-> op, id |-> None]
       \/ op = "setup" /\ registered # Page /\ Count("side", MaxSide)
          /\ order' = [op |-> op, id |-> None]
    /\ UNCHANGED <<store, draft, job, pages, manage, permitted, registered, busy, clock, book>>

\* no registered page has an active request
AnyTime == TRUE
SiteIdle == registered \cap busy = {}

\* the person confirms
StartManagement ==
    /\ order # None /\ manage = None /\ SiteIdle
    /\ manage' = order /\ order' = None
    /\ permitted' = (permitted \/ order.op = "setup")   \* the popup asks the browser first
    /\ UNCHANGED <<store, draft, job, pages, registered, busy, clock, used, book>>

RefuseManagement ==
    /\ order # None /\ ~SiteIdle
    /\ order' = None
    /\ UNCHANGED <<store, draft, job, pages, manage, permitted, registered, busy, clock, used, book>>

\* the binding shown is the binding removed, or nothing is
RemoveBinding ==
    /\ manage # None /\ manage.op = "remove"
    /\ store' = store \ {manage.id} /\ manage' = None
    /\ UNCHANGED <<draft, job, pages, order, permitted, registered, busy, clock, used, book>>

RevokeAccess ==
    /\ manage # None /\ manage.op = "revoke" /\ permitted
    /\ permitted' = FALSE
    /\ UNCHANGED <<store, draft, job, pages, manage, order, registered, busy, clock, used, book>>

Revoked ==
    /\ manage # None /\ manage.op = "revoke" /\ ~permitted
    /\ registered' = {} /\ manage' = None
    /\ UNCHANGED <<store, draft, job, pages, order, permitted, busy, clock, used, book>>

\* setup ended, or an action failed: finally
ManagementOver ==
    /\ manage # None /\ manage' = None
    /\ UNCHANGED <<store, draft, job, pages, order, permitted, registered, busy, clock, used, book>>

\* handleGenericContentMessage
Register(p) ==
    /\ p \notin registered /\ permitted /\ manage = None
    /\ registered' = registered \cup {p}
    /\ UNCHANGED <<store, draft, job, pages, manage, order, permitted, busy, clock, used, book>>

----------------------------------------------------------------------------
(* What happens to the site                                                   *)

Move(p, r) ==
    /\ route[p] # r /\ Count("events", MaxEvents)
    /\ route' = [route EXCEPT ![p] = r] /\ heals' = [heals EXCEPT ![p] = 0]
    /\ UNCHANGED <<store, draft, job, shown, access, busy, clock, book>>

\* somebody takes the access back in the browser's own settings
TakeAccess ==
    /\ permitted /\ Count("events", MaxEvents)
    /\ permitted' = FALSE
    /\ UNCHANGED <<store, draft, job, pages, manage, order, registered, busy, clock, book>>

\* a navigation is handled: the permission is read again
NavigationUnpermitted(p) ==
    /\ ~permitted /\ p \in registered
    /\ registered' = registered \ {p} /\ busy' = busy \ {p}
    /\ UNCHANGED <<store, draft, job, pages, manage, order, permitted, clock, used, book>>

\* the worker dies and starts again: its requests, its management and the
\* answers it owed are gone; restoreGenericRegistrations asks for the permission
Restart ==
    /\ Count("events", MaxEvents)
    /\ manage' = None /\ busy' = {}
    /\ registered' = IF permitted THEN registered ELSE {}
    /\ job' = [s \in Slot |->
                 IF job[s].at = "saving" THEN [job[s] EXCEPT !.at = job[s].msg.bad,
                                               !.obj = job[s].msg.profile, !.msg = None]
                 ELSE IF job[s].at \in {"asked", "matched", "gated"} THEN NoJob ELSE job[s]]
    /\ UNCHANGED <<store, draft, pages, order, permitted, clock, book>>

----------------------------------------------------------------------------

Prompt(p) ==
    \/ Ask(p) \/ Match(p) \/ Gate(p) \/ Deliver(p) \/ Withhold(p) \/ Bind(p) \/ Fail(p) \/ Submit(p)
    \/ BindingInvalid(p) \/ LearnStop(p) \/ Capture(p) \/ Finalize(p) \/ CountSuccess(p)
    \/ Answered(p) \/ AnswerRefused(p)

Popup ==
    \/ \E op \in {"setup", "remove", "revoke"} : AskPerson(op)
    \/ StartManagement \/ RefuseManagement
    \/ RemoveBinding \/ RevokeAccess \/ Revoked \/ ManagementOver

Site ==
    \/ \E p \in Page, c \in Control : ShowStop(p, c)
    \/ \E p \in Page : EndGeneration(p) \/ NavigationUnpermitted(p) \/ Register(p)
    \/ \E p \in Page, r \in Route : Move(p, r)
    \/ TakeAccess \/ Restart

Next ==
    \/ \E p \in Page : Prompt(p) \/ StartHeal(p) \/ StartJob(p) \/ StartStop(p)
    \/ \E s \in Slot : Upsert(s) \/ SaveRefused(s) \/ StartHealing(s) \/ Heal(s)
                       \/ ValidateHealed(s) \/ HealingFails(s)
    \/ SideOver \/ Load \/ Status \/ Validate \/ StopDisowned \/ FindStop \/ PressStop
    \/ NothingToStop \/ SelectedAnswer \/ Cancelled \/ Pick
    \/ Popup \/ Site

Spec == Init /\ [][Next]_vars

----------------------------------------------------------------------------
(* Properties                                                                 *)

Stops(ps, r) == {q.stop : q \in {q \in ps : q.route = r}}

\* A write replaces, creates or brings back a control only if its writer had read
\* what the route held: a page that loaded a binding, waited - for a model, a
\* person, a whole answer - and writes its bookkeeping never puts back a control
\* that somebody has chosen again or a binding that was removed meanwhile.
WritersHaveRead ==
    [][\A r \in Route :
          Stops(store', r) \notin {{}, Stops(store, r)} =>
             \E s \in Slot :
                /\ job[s].at = "saving" /\ job[s].msg.profile \in store'
                /\ Stops(IF job[s].ver = None THEN {} ELSE job[s].ver.targets, r) = Stops(store, r)]_vars

\* A saved binding claims a verified lifecycle only for a control and a route with
\* which a prompt ran to its end: rebinding, healing, adopting for another route
\* and a control learned in the middle of a turn start from nothing.  (A Stop or a
\* selected answer credits the binding it loads itself, which another page may have
\* rebound during the turn: mistaken.)
EvidenceIsEarned ==
    \A q \in store : HasVerifiedLifecycle(q) => <<q.route, q.stop>> \in earned \cup mistaken

\* While a binding is changed or the access revoked, no prompt the background
\* answers for is in a registered page of the site, and none enters one: a request
\* that is admitted meanwhile stops at the gates of sendGenericCommand.
ManagementExcludesPrompts ==
    manage # None => \A p \in busy \cap registered : job[p].at \in {None, "asked", "matched", "gated"}

\* docs/LIVE_SMOKE_TEST.md:60: a selected answer "must complete that request,
\* preserve the answer".
SelectedAnswerCompletes == \A p \in Page : job[p].at = "refused" => ~job[p].manual

=============================================================================
