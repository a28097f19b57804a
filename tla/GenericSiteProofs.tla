-------------------------- MODULE GenericSiteProofs --------------------------
(* Theorems about GenericSite for every value of its constants: a site's        *)
(* bindings and access are managed only while no prompt is answered there, a    *)
(* binding claims only lifecycles that were seen, and nobody overwrites what it *)
(* has not read.                                                                *)
EXTENDS GenericSite, TLAPS

-----------------------------------------------------------------------------
(* The bindings and the jobs that write them. *)

\* A version a writer holds, and a write on its way to the background.
Versions == [route : Route, targets : SUBSET Profile]

Writes == [profile : Profile, ok : Step \ {"saving"}, bad : Step \ {"saving"},
           target : Profile \cup {None}, source : Profile \cup {None}]

Task == {"send", "heal", "status", "validate", "pick", "cancel", "select"}

Jobs == [at : Step, page : Page, task : Task, obj : Profile \cup Route \cup {None},
         ver : Versions \cup {None}, msg : Writes \cup {None}, saw : Control \cup {None},
         manual : BOOLEAN, idle : BOOLEAN, retried : BOOLEAN]

\* The steps at which a job holds the binding it loaded or saved.
Holding == {"ready", "submitted", "captured", "recorded", "answered", "refused",
            "healed", "loaded", "press", "done"}

OneEach(ps) == \A q, r \in ps : q.route = r.route => q = r

Credited == earned \cup mistaken

\* Evidence of a lifecycle is of a prompt in C, whatever the binding it is attached to by now.
Rightful(o, C) == o.ev # None /\ o.ev.level >= 2 => <<o.ev.route, o.ev.stop>> \in C

\* What a job keeps between its awaits.
VersionOK(v) == v \in Versions \cup {None} /\ (v # None => OneEach(v.targets))

JobOK(j, C) ==
    /\ j \in Jobs /\ VersionOK(j.ver)
    /\ j.at \in Holding => j.obj \in Profile /\ Rightful(j.obj, C)
    /\ j.at = "saving" =>
         /\ j.msg \in Writes /\ Rightful(j.msg.profile, C)
         /\ j.msg.target = IF j.ver = None THEN None ELSE Find(j.ver.targets, j.msg.profile.route)

PagesTyped ==
    /\ route \in [Page -> Route] /\ shown \in [Page -> Control \cup {None}]
    /\ draft \in [Route -> Control \cup {None}]

BindingInv ==
    /\ store \subseteq Profile /\ OneEach(store)
    /\ \A q \in store : Rightful(q, Credited)
    /\ clock \in Nat /\ PagesTyped
    /\ job \in [Slot -> Jobs \cup {NoJob}]
    /\ \A s \in Slot : job[s] = NoJob \/ JobOK(job[s], Credited)

LEMMA Bounds == None \notin Step /\ None \notin Profile /\ None \notin Evidence /\ Side \notin Page
BY NoneAssumption, SlotAssumption

\* A slot that waits somewhere has a job.
LEMMA Waiting ==
  ASSUME BindingInv, NEW s \in Slot, job[s].at \in Step
  PROVE  JobOK(job[s], Credited) /\ job[s] \in Jobs
<1>1. NoJob.at = None
  BY DEF NoJob
<1>2. job[s] # NoJob
  BY <1>1, Bounds
<1> QED BY <1>2 DEF BindingInv, JobOK

LEMMA Grows ==
  ASSUME NEW C, NEW D, C \subseteq D, NEW j, JobOK(j, C)
  PROVE  JobOK(j, D)
BY DEF JobOK, Rightful

LEMMA Found ==
  ASSUME NEW ps, ps \subseteq Profile, NEW r
  PROVE  /\ Find(ps, r) = None => \A q \in ps : q.route # r
         /\ Find(ps, r) # None => Find(ps, r) \in ps /\ Find(ps, r).route = r
         /\ Find(ps, r) \in Profile \cup {None}
<1>1. CASE \E q \in ps : q.route = r
  <2> DEFINE f == CHOOSE q \in ps : q.route = r
  <2>1. f \in ps /\ f.route = r
    BY <1>1
  <2>2. Find(ps, r) = f
    BY <1>1 DEF Find
  <2> QED BY <2>1, <2>2, Bounds
<1>2. CASE ~ \E q \in ps : q.route = r
  BY <1>2 DEF Find
<1> QED BY <1>1, <1>2

\* saveBindingProfile: the message carries what the version says of the route.
LEMMA Messages ==
  ASSUME NEW o \in Profile, NEW v, VersionOK(v), NEW ok \in Step \ {"saving"}, NEW bad \in Step \ {"saving"}
  PROVE  /\ Message(o, v, ok, bad) \in Writes
         /\ Message(o, v, ok, bad).profile = o
         /\ Message(o, v, ok, bad).target = IF v = None THEN None ELSE Find(v.targets, o.route)
<1> DEFINE f(r) == IF v = None THEN None ELSE Find(v.targets, r)
<1>1. \A r : f(r) \in Profile \cup {None}
  BY Found DEF VersionOK, Versions
<1>2. Message(o, v, ok, bad) = [profile |-> o, ok |-> ok, bad |-> bad,
          target |-> f(o.route), source |-> IF v = None THEN None ELSE f(v.route)]
  BY DEF Message
<1>3. (IF v = None THEN None ELSE f(v.route)) \in Profile \cup {None}
  BY <1>1
<1> HIDE DEF f
<1>4. f(o.route) \in Profile \cup {None}
  BY <1>1
<1>5. Message(o, v, ok, bad) \in Writes
  BY <1>2, <1>3, <1>4 DEF Writes
<1> QED BY <1>2, <1>5 DEF f
-----------------------------------------------------------------------------
(* What the operators on bindings keep. *)

LEMMA WithoutKeeps ==
  ASSUME NEW o \in Profile, NEW C
  PROVE  /\ WithoutEvidence(o) \in Profile /\ Rightful(WithoutEvidence(o), C)
         /\ WithoutEvidence(o).stop = o.stop
BY Bounds DEF WithoutEvidence, Profile, Rightful

LEMMA AlignedKeeps ==
  ASSUME BindingInv, NEW o \in Profile, NEW C, NEW p \in Page
  PROVE  /\ Aligned(o, p) \in Profile /\ Aligned(o, p).stop = o.stop
         /\ Rightful(o, C) => Rightful(Aligned(o, p), C)
<1>1. route[p] \in Route
  BY DEF BindingInv, PagesTyped
<1>2. CASE o.route = route[p]
  BY <1>2 DEF Aligned
<1>3. CASE o.route # route[p]
  <2>1. Aligned(o, p) = [o EXCEPT !.ev = None, !.route = route[p]]
    BY <1>3 DEF Aligned, WithoutEvidence, Profile
  <2> QED BY <1>1, <2>1 DEF Profile, Rightful
<1> QED BY <1>2, <1>3

LEMMA StopKeeps ==
  ASSUME NEW o \in Profile, NEW C, NEW c \in Control \cup {None}
  PROVE  WithStop(o, c) \in Profile /\ (Rightful(o, C) => Rightful(WithStop(o, c), C))
BY DEF WithStop, Profile, Rightful

LEMMA ObservedKeeps ==
  ASSUME BindingInv, NEW o \in Profile, NEW C
  PROVE  /\ WithObserved(o) \in Profile
         /\ Rightful(o, C) => Rightful(WithObserved(o), C)
         /\ WithObserved(o).ev # None =>
              WithObserved(o).ev.route = o.route /\ WithObserved(o).ev.stop = o.stop
<1>1. CASE o.stop = None
  BY <1>1, WithoutKeeps DEF WithObserved, WithoutEvidence, Profile
<1>2. CASE o.stop # None
  <2> DEFINE lvl == IF EvidenceMatches(o) THEN o.ev.level ELSE 1
             e == [stop |-> o.stop, route |-> o.route, at |-> clock, level |-> lvl]
  <2>1. o.ev # None => o.ev \in Evidence
    BY DEF Profile
  <2>2. lvl \in 1..3
    BY <2>1 DEF EvidenceMatches, Evidence
  <2>3. o.stop \in Control /\ o.route \in Route
    BY <1>2 DEF Profile
  <2>4. e \in Evidence
    BY <2>2, <2>3 DEF Evidence, BindingInv
  <2>5. WithObserved(o) = [o EXCEPT !.ev = e]
    BY <1>2 DEF WithObserved
  <2>6. WithObserved(o) \in Profile /\ WithObserved(o).ev = e
    BY <2>4, <2>5 DEF Profile
  <2>7. ASSUME Rightful(o, C) PROVE Rightful(WithObserved(o), C)
    <3>1. CASE EvidenceMatches(o)
      BY <2>6, <2>7, <3>1 DEF Rightful, EvidenceMatches
    <3>2. CASE ~EvidenceMatches(o)
      BY <2>6, <3>2 DEF Rightful
    <3> QED BY <3>1, <3>2
  <2> QED BY <2>6, <2>7
<1> QED BY <1>1, <1>2

LEMMA AtLeastKeeps ==
  ASSUME NEW o \in Profile, NEW level \in 1..3, NEW C,
         o.ev # None => <<o.ev.route, o.ev.stop>> \in C
  PROVE  /\ AtLeast(level, o) \in Profile /\ Rightful(AtLeast(level, o), C)
         /\ AtLeast(level, o).ev # None => <<AtLeast(level, o).ev.route, AtLeast(level, o).ev.stop>> \in C
<1>1. CASE o.ev = None \/ o.ev.level >= level
  BY <1>1 DEF AtLeast, Rightful
<1>2. CASE ~(o.ev = None \/ o.ev.level >= level)
  <2>1. o.ev \in Evidence
    BY <1>2 DEF Profile
  <2> DEFINE e == [o.ev EXCEPT !.level = level]
  <2>2. e \in Evidence /\ e.route = o.ev.route /\ e.stop = o.ev.stop
    BY <2>1 DEF Evidence
  <2>3. AtLeast(level, o) = [o EXCEPT !.ev = e]
    BY <1>2 DEF AtLeast, Profile
  <2>4. AtLeast(level, o) \in Profile /\ AtLeast(level, o).ev = e
    BY <2>2, <2>3 DEF Profile
  <2> QED BY <1>2, <2>2, <2>4 DEF Rightful
<1> QED BY <1>1, <1>2

\* A lifecycle that was credited, and an interruption.
LEMMA CompletedKeeps ==
  ASSUME BindingInv, NEW o \in Profile, NEW C, <<o.route, o.stop>> \in C
  PROVE  /\ WithCompleted(o) \in Profile /\ Rightful(WithCompleted(o), C)
         /\ WithConfirmed(o) \in Profile /\ Rightful(WithConfirmed(o), C)
<1> DEFINE w == WithObserved(o)
           x == AtLeast(2, w)
<1>1. w \in Profile /\ (w.ev # None => <<w.ev.route, w.ev.stop>> \in C)
  BY ObservedKeeps
<1>2. WithCompleted(o) = x /\ WithConfirmed(o) = AtLeast(3, x)
  BY DEF WithCompleted, WithConfirmed
<1>3. 2 \in 1..3 /\ 3 \in 1..3
  OBVIOUS
<1> HIDE DEF w
<1>4. x \in Profile /\ Rightful(x, C) /\ (x.ev # None => <<x.ev.route, x.ev.stop>> \in C)
  BY <1>1, <1>3, AtLeastKeeps
<1> HIDE DEF x
<1>5. AtLeast(3, x) \in Profile /\ Rightful(AtLeast(3, x), C)
  BY <1>3, <1>4, AtLeastKeeps
<1> QED BY <1>2, <1>4, <1>5

LEMMA MarkedKeeps ==
  ASSUME BindingInv, NEW o \in Profile, NEW C, NEW p \in Page,
         NEW success \in BOOLEAN, NEW force \in BOOLEAN, Rightful(o, C)
  PROVE  Marked(o, p, success, force) \in Profile /\ Rightful(Marked(o, p, success, force), C)
<1> DEFINE moved == success /\ o.route # route[p]
           fails == IF success THEN 0 ELSE o.fails + 1
           ok    == success \/ (~force /\ o.valid /\ fails < MaxFailures)
<1>1. route[p] \in Route /\ clock \in Nat
  BY DEF BindingInv, PagesTyped
<1>2. fails \in Nat /\ o.valid \in BOOLEAN
  BY DEF Profile
<1>3. ok \in BOOLEAN
  BY <1>2
<1>4. Marked(o, p, success, force) =
        [o EXCEPT !.route = IF moved THEN route[p] ELSE @,
                  !.ev    = IF success /\ ~moved THEN @ ELSE None,
                  !.valid = ok, !.fails = fails, !.at = IF success THEN clock ELSE @]
  BY DEF Marked
<1> HIDE DEF moved, fails, ok
<1> QED BY <1>1, <1>2, <1>3, <1>4 DEF Profile, Rightful

LEMMA FreshKeeps ==
  ASSUME NEW r \in Route, NEW c \in Control \cup {None}, NEW C
  PROVE  Fresh(r, c) \in Profile /\ Rightful(Fresh(r, c), C)
BY DEF Fresh, Profile, Rightful
-----------------------------------------------------------------------------
(* The steps of one job. *)

\* What a step does around the jobs it moves: it may only credit more.
Around == UNCHANGED <<store, clock>> /\ PagesTyped' /\ Credited \subseteq Credited'

LEMMA OneMoves ==
  ASSUME BindingInv, Around, NEW s \in Slot, NEW j,
         j = NoJob \/ JobOK(j, Credited'), job' = [job EXCEPT ![s] = j]
  PROVE  BindingInv'
<1>1. job \in [Slot -> Jobs \cup {NoJob}]
  BY DEF BindingInv
<1>2. job' \in [Slot -> Jobs \cup {NoJob}] /\ job'[s] = j /\ \A q \in Slot : q # s => job'[q] = job[q]
  BY <1>1 DEF JobOK
<1>3. \A q \in Slot : job'[q] = NoJob \/ JobOK(job'[q], Credited')
  BY <1>2, Grows DEF BindingInv, Around
<1>4. \A q \in store : Rightful(q, Credited')
  BY DEF BindingInv, Around, Rightful
<1> QED BY <1>2, <1>3, <1>4 DEF BindingInv, Around

LEMMA NoneMoves ==
  ASSUME BindingInv, Around, UNCHANGED job
  PROVE  BindingInv'
<1>1. \A q \in Slot : job'[q] = NoJob \/ JobOK(job'[q], Credited')
  BY Grows DEF BindingInv, Around
<1>2. \A q \in store : Rightful(q, Credited')
  BY DEF BindingInv, Around, Rightful
<1> QED BY <1>1, <1>2 DEF BindingInv, Around

\* Two jobs of one page.
LEMMA TwoMove ==
  ASSUME BindingInv, Around, NEW p \in Page, NEW i, NEW j,
         i = NoJob \/ JobOK(i, Credited'), j = NoJob \/ JobOK(j, Credited'),
         job' = [job EXCEPT ![Side] = i, ![p] = j]
  PROVE  BindingInv'
<1>1. job \in [Slot -> Jobs \cup {NoJob}] /\ Side \in Slot /\ p \in Slot /\ p # Side
  BY Bounds DEF BindingInv, Slot
<1>2. /\ job' \in [Slot -> Jobs \cup {NoJob}] /\ job'[Side] = i /\ job'[p] = j
      /\ \A q \in Slot : q \notin {Side, p} => job'[q] = job[q]
  BY <1>1 DEF JobOK
<1>3. \A q \in Slot : job'[q] = NoJob \/ JobOK(job'[q], Credited')
  BY <1>2, Grows DEF BindingInv, Around
<1>4. \A q \in store : Rightful(q, Credited')
  BY DEF BindingInv, Around, Rightful
<1> QED BY <1>2, <1>3, <1>4 DEF BindingInv, Around

LEMMA Begins ==
  ASSUME BindingInv, Around, NEW s \in Slot, NEW p \in Page, NEW task \in Task,
         NEW at \in Step \ (Holding \cup {"saving"}),
         job' = [job EXCEPT ![s] = [Job(p) EXCEPT !.task = task, !.at = at]]
  PROVE  BindingInv'
<1> DEFINE j == [Job(p) EXCEPT !.task = task, !.at = at]
<1>1. JobOK(j, Credited')
  BY DEF JobOK, Jobs, Job, VersionOK, Task
<1> HIDE DEF j
<1> QED BY <1>1, OneMoves DEF j

LEMMA Puts ==
  ASSUME BindingInv, Around, NEW s \in Slot, job[s].at \in Step, NEW to \in Step \ {"saving"},
         to \in Holding => job[s].at \in Holding, Put(s, to)
  PROVE  BindingInv'
<1> DEFINE j == [job[s] EXCEPT !.at = to]
<1>1. JobOK(job[s], Credited') /\ job[s] \in Jobs
  BY Waiting, Grows DEF Around
<1>2. JobOK(j, Credited')
  BY <1>1 DEF JobOK, Jobs
<1>3. job' = [job EXCEPT ![s] = j]
  BY DEF Put
<1> HIDE DEF j
<1> QED BY <1>2, <1>3, OneMoves

LEMMA Holds ==
  ASSUME BindingInv, Around, NEW s \in Slot, job[s].at \in Step, NEW to \in Step \ {"saving"},
         NEW o \in store, Hold(s, o, to)
  PROVE  BindingInv'
<1> DEFINE j == [job[s] EXCEPT !.at = to, !.obj = o, !.ver = Version(o.route)]
<1>1. job[s] \in Jobs
  BY Waiting
<1>2. o \in Profile /\ Rightful(o, Credited') /\ o.route \in Route
  BY DEF BindingInv, Around, Rightful, Profile
<1>3. VersionOK(Version(o.route)) /\ Version(o.route) \in Versions
  BY <1>2 DEF Version, VersionOK, Versions, BindingInv
<1>4. j \in Jobs /\ j.at = to /\ j.obj = o /\ j.ver = Version(o.route)
  BY <1>1, <1>2, <1>3 DEF Jobs
<1>5. job' = [job EXCEPT ![s] = j]
  BY DEF Hold
<1> HIDE DEF j
<1>6. JobOK(j, Credited')
  BY <1>2, <1>3, <1>4 DEF JobOK
<1> QED BY <1>5, <1>6, OneMoves

\* A job that turns to saving a binding; other fields of its record may move with it.
LEMMA Saving ==
  ASSUME NEW j \in Jobs, NEW C, NEW o \in Profile, Rightful(o, C), NEW v, VersionOK(v),
         NEW ok \in Step \ {"saving"}, NEW bad \in Step \ {"saving"},
         j.at = "saving", j.ver = v, j.msg = Message(o, v, ok, bad)
  PROVE  JobOK(j, C)
BY Messages DEF JobOK, Holding

LEMMA Saves ==
  ASSUME BindingInv, Around, NEW s \in Slot, job[s].at \in Step,
         NEW o \in Profile, Rightful(o, Credited'), NEW v, VersionOK(v),
         NEW ok \in Step \ {"saving"}, NEW bad \in Step \ {"saving"}, SaveFrom(s, o, v, ok, bad)
  PROVE  BindingInv'
<1> DEFINE m == Message(o, v, ok, bad)
           j == [job[s] EXCEPT !.at = "saving", !.ver = v, !.msg = m]
<1>1. job[s] \in Jobs /\ m \in Writes /\ v \in Versions \cup {None}
  BY Waiting, Messages DEF VersionOK
<1>2. job' = [job EXCEPT ![s] = j]
  BY DEF SaveFrom
<1> HIDE DEF m
<1>3. j \in Jobs /\ j.at = "saving" /\ j.ver = v /\ j.msg = m
  BY <1>1 DEF Jobs, Step
<1> HIDE DEF j
<1>4. JobOK(j, Credited')
  BY <1>3, Saving DEF m
<1> QED BY <1>2, <1>4, OneMoves

LEMMA Overs ==
  ASSUME BindingInv, Around, NEW s \in Slot, Over(s)
  PROVE  BindingInv'
BY OneMoves DEF Over

\* resolveProfile
LEMMA Resolves ==
  ASSUME BindingInv, Around, UNCHANGED route, NEW s \in Slot, job[s].at \in Step,
         NEW to \in Step \ {"saving"}, NEW validated \in BOOLEAN, Resolve(s, validated, to)
  PROVE  BindingInv'
<1> DEFINE p == job[s].page
<1>1. p \in Page /\ route[p] \in Route
  BY Waiting DEF Jobs, BindingInv, PagesTyped
<1>2. CASE Matching(p, validated) # None
  <2>1. Matching(p, validated) \in store
    BY <1>2, Found DEF Matching, BindingInv
  <2>2. Hold(s, Matching(p, validated), to)
    BY <1>2 DEF Resolve
  <2> HIDE DEF p
  <2>3. PICK o \in store : Hold(s, o, to)
    BY <2>1, <2>2
  <2> QED BY <2>3, Holds
<1>3. CASE Matching(p, validated) = None
  <2>1. PICK q \in store : SaveFrom(s, [WithoutEvidence(q) EXCEPT !.route = route[p], !.fails = 0],
                                    Version(q.route), to, "over")
    BY <1>3 DEF Resolve
  <2> DEFINE w == WithoutEvidence(q)
             o == [w EXCEPT !.route = route[p], !.fails = 0]
  <2>2. q \in Profile /\ q.route \in Route
    BY DEF BindingInv, Profile
  <2>3. w \in Profile /\ w.ev = None
    BY <2>2, WithoutKeeps DEF WithoutEvidence, Profile
  <2>4. VersionOK(Version(q.route))
    BY <2>2 DEF Version, VersionOK, Versions, BindingInv
  <2> HIDE DEF w
  <2>5. o \in Profile /\ Rightful(o, Credited')
    BY <1>1, <2>3 DEF Profile, Rightful
  <2>6. SaveFrom(s, o, Version(q.route), to, "over")
    BY <2>1 DEF w
  <2> HIDE DEF o, p
  <2> QED BY <2>4, <2>5, <2>6, Saves DEF Step
<1> QED BY <1>2, <1>3
-----------------------------------------------------------------------------
(* Every step keeps the bindings and the jobs. *)

LEMMA Still ==
  ASSUME BindingInv, UNCHANGED <<store, clock, draft, route, shown, book>>
  PROVE  Around
BY DEF BindingInv, PagesTyped, Around, Credited, book

LEMMA Slots == Side \in Slot /\ (\A p \in Page : p \in Slot) /\ Holding \subseteq Step
BY DEF Slot, Holding, Step

LEMMA PromptKeeps ==
  ASSUME BindingInv, NEW p \in Page,
         Ask(p) \/ Match(p) \/ Gate(p) \/ Deliver(p) \/ Withhold(p) \/ Bind(p) \/ Fail(p) \/ Submit(p)
           \/ BindingInvalid(p) \/ CountSuccess(p) \/ Answered(p) \/ AnswerRefused(p)
  PROVE  BindingInv'
<1>1. Around /\ UNCHANGED route
  BY Still DEF Ask, Match, Gate, Deliver, Withhold, Bind, Fail, Submit, BindingInvalid, CountSuccess, Answered,
               AnswerRefused, pages
<1>2. p \in Slot
  BY Slots
<1>3. CASE Ask(p)
  <2>1. Job(p) \in Jobs /\ Job(p).at = "asked" /\ Job(p).ver = None
    BY DEF Jobs, Job, Step, Task
  <2>2. JobOK(Job(p), Credited')
    BY <2>1 DEF JobOK, VersionOK, Holding
  <2> QED BY <1>1, <1>2, <1>3, <2>2, OneMoves DEF Ask
<1>4. CASE Match(p) \/ Gate(p) \/ Deliver(p)
  <2>1. PICK to \in {"matched", "gated", "resolving"} : Put(p, to)
    BY <1>4 DEF Match, Gate, Deliver
  <2>2. job[p].at \in Step /\ to \notin Holding
    BY <1>4 DEF Match, Gate, Deliver, Step, Holding
  <2> QED BY <1>1, <1>2, <2>1, <2>2, Puts DEF Step
<1>5. CASE Withhold(p) \/ Fail(p) \/ Answered(p) \/ AnswerRefused(p)
  BY <1>1, <1>2, <1>5, Overs DEF Withhold, Fail, Answered, AnswerRefused
<1>6. CASE Bind(p)
  <2>1. Resolve(p, TRUE, "ready") /\ job[p].at \in Step
    BY <1>6 DEF Bind, Step
  <2> QED BY <1>1, <1>2, <2>1, Resolves DEF Step
<1>7. CASE Submit(p)
  <2>1. Put(p, "submitted") /\ job[p].at \in Step /\ job[p].at \in Holding
    BY <1>7 DEF Submit, Step, Holding
  <2> QED BY <1>1, <1>2, <2>1, Puts DEF Step
<1>8. CASE BindingInvalid(p) \/ CountSuccess(p)
  <2>1. job[p].at \in Holding /\ job[p].at \in Step
    BY <1>8 DEF BindingInvalid, CountSuccess, Holding, Step
  <2>2. JobOK(job[p], Credited')
    BY <1>1, <1>2, <2>1, Waiting, Grows DEF Around
  <2>3. \A s \in BOOLEAN : /\ Marked(job[p].obj, p, s, FALSE) \in Profile
                           /\ Rightful(Marked(job[p].obj, p, s, FALSE), Credited')
    BY <2>1, <2>2, MarkedKeeps DEF JobOK
  <2>4. PICK s \in BOOLEAN, ok \in Step \ {"saving"}, bad \in Step \ {"saving"} :
          SaveFrom(p, Marked(job[p].obj, p, s, FALSE), job[p].ver, ok, bad)
    BY <1>8 DEF BindingInvalid, CountSuccess, Save, Step
  <2> QED BY <1>1, <1>2, <2>1, <2>2, <2>3, <2>4, Saves DEF JobOK
<1> QED BY <1>3, <1>4, <1>5, <1>6, <1>7, <1>8

LEMMA LearnKeeps ==
  ASSUME BindingInv, NEW p \in Page, LearnStop(p)
  PROVE  BindingInv'
<1>1. Around /\ p \in Slot
  BY Still, Slots DEF LearnStop, pages
<1>2. job[p].at = "submitted" /\ shown[p] \in Control
  BY DEF LearnStop, BindingInv, PagesTyped
<1>3. JobOK(job[p], Credited') /\ job[p] \in Jobs
  BY <1>1, <1>2, Waiting, Grows DEF Around, Step
<1>4. job[p].obj \in Profile /\ Rightful(job[p].obj, Credited') /\ VersionOK(job[p].ver)
  BY <1>2, <1>3 DEF JobOK, Holding
<1> DEFINE o == WithStop(job[p].obj, shown[p])
           n == WithObserved(Aligned(o, p))
           m == Message(n, job[p].ver, "submitted", "submitted")
<1>5. o \in Profile /\ Rightful(o, Credited')
  BY <1>2, <1>4, StopKeeps
<1> HIDE DEF o
<1>6. n \in Profile /\ Rightful(n, Credited')
  BY <1>5, AlignedKeeps, ObservedKeeps
<1>7. job' = [job EXCEPT ![p].saw = shown[p],
                         ![p].at = IF HasObservedStop(o) THEN @ ELSE "saving",
                         ![p].msg = IF HasObservedStop(o) THEN None ELSE m]
  BY DEF LearnStop, o
<1> HIDE DEF n
<1>8. m \in Writes
  BY <1>4, <1>6, Messages DEF Step
<1>9. CASE HasObservedStop(o)
  <2> DEFINE j == [job[p] EXCEPT !.saw = shown[p], !.msg = None]
  <2>1. job' = [job EXCEPT ![p] = j]
    BY <1>3, <1>7, <1>9 DEF Jobs
  <2>2. j \in Jobs /\ j.at = "submitted" /\ j.obj = job[p].obj /\ j.ver = job[p].ver
    BY <1>2, <1>3 DEF Jobs
  <2> HIDE DEF j
  <2>3. JobOK(j, Credited')
    BY <1>4, <2>2 DEF JobOK
  <2> QED BY <1>1, <2>1, <2>3, OneMoves
<1>10. CASE ~HasObservedStop(o)
  <2> HIDE DEF m
  <2> DEFINE j == [job[p] EXCEPT !.saw = shown[p], !.at = "saving", !.msg = m]
  <2>1. job' = [job EXCEPT ![p] = j]
    BY <1>7, <1>10
  <2>2. j \in Jobs /\ j.at = "saving" /\ j.msg = m /\ j.ver = job[p].ver
    BY <1>2, <1>3, <1>8 DEF Jobs, Step
  <2> HIDE DEF j
  <2>3. JobOK(j, Credited')
    BY <1>4, <1>6, <2>2, Saving DEF m, Step
  <2> QED BY <1>1, <2>1, <2>3, OneMoves
<1> QED BY <1>9, <1>10

LEMMA CaptureKeeps ==
  ASSUME BindingInv, NEW p \in Page, Capture(p)
  PROVE  BindingInv'
<1>1. Around /\ p \in Slot
  BY Still, Slots DEF Capture, pages
<1>2. JobOK(job[p], Credited') /\ job[p] \in Jobs /\ job[p].at = "submitted"
  BY <1>1, Waiting, Grows DEF Capture, Around, Step
<1> DEFINE j == [job[p] EXCEPT !.at = "captured", !.idle = TRUE]
<1>3. job' = [job EXCEPT ![p] = j]
  BY DEF Capture
<1>4. j \in Jobs /\ j.at = "captured" /\ j.obj = job[p].obj /\ j.ver = job[p].ver
  BY <1>2 DEF Jobs, Step
<1> HIDE DEF j
<1>5. JobOK(j, Credited')
  BY <1>2, <1>4 DEF JobOK, Holding
<1> QED BY <1>1, <1>3, <1>5, OneMoves

\* Whoever records a lifecycle credits the pair it is recorded for in the same step.
LEMMA Credits ==
  ASSUME BindingInv, NEW o \in Profile, NEW p \in Page, NEW saw, Credit(o, p, saw)
  PROVE  /\ Credited \subseteq Credited'
         /\ Aligned(o, p) \in Profile
         /\ <<Aligned(o, p).route, Aligned(o, p).stop>> \in Credited'
<1>1. Aligned(o, p) \in Profile /\ Aligned(o, p).stop = o.stop
  BY AlignedKeeps
<1> QED BY <1>1 DEF Credit, Credited

LEMMA RecordKeeps ==
  ASSUME BindingInv, NEW s \in Slot, NEW p \in Page, job[s].at \in Step, job[s].at \in Holding, NEW saw,
         Credit(job[s].obj, p, saw), UNCHANGED <<store, clock>>, PagesTyped',
         NEW to \in Step \ {"saving"},
         Record(s, WithCompleted(Aligned(job[s].obj, p)), to)
           \/ Record(s, WithConfirmed(Aligned(job[s].obj, p)), to)
  PROVE  BindingInv'
<1>1. job[s].obj \in Profile /\ VersionOK(job[s].ver)
  BY Waiting DEF JobOK
<1> DEFINE a == Aligned(job[s].obj, p)
<1>2. Credited \subseteq Credited' /\ a \in Profile /\ <<a.route, a.stop>> \in Credited'
  BY <1>1, Credits
<1>3. Around
  BY <1>2 DEF Around
<1> HIDE DEF a
<1>4. /\ WithCompleted(a) \in Profile /\ Rightful(WithCompleted(a), Credited')
      /\ WithConfirmed(a) \in Profile /\ Rightful(WithConfirmed(a), Credited')
  BY <1>2, CompletedKeeps
<1>5. PICK o \in Profile : Rightful(o, Credited') /\ SaveFrom(s, o, job[s].ver, to, to)
  BY <1>4 DEF Record, Save, a
<1> QED BY <1>1, <1>3, <1>5, Saves

LEMMA FinalizeKeeps ==
  ASSUME BindingInv, NEW p \in Page, Finalize(p)
  PROVE  BindingInv'
<1>1. p \in Slot /\ job[p].at \in Step /\ job[p].at \in Holding /\ PagesTyped'
  BY Slots DEF Finalize, Step, Holding, BindingInv, PagesTyped, pages
<1>2. CASE job[p].idle
  <2>1. /\ Record(p, WithCompleted(Aligned(job[p].obj, p)), "recorded")
        /\ Credit(job[p].obj, p, job[p].saw) /\ UNCHANGED <<store, clock>>
    BY <1>2 DEF Finalize
  <2> QED BY <1>1, <2>1, RecordKeeps DEF Step
<1>3. CASE ~job[p].idle
  <2>1. Put(p, "recorded") /\ Around
    BY <1>3, Still DEF Finalize, pages
  <2> QED BY <1>1, <2>1, Puts DEF Step
<1> QED BY <1>2, <1>3
LEMMA HealKeeps ==
  ASSUME BindingInv, NEW s \in Slot,
         StartHealing(s) \/ Heal(s) \/ ValidateHealed(s) \/ HealingFails(s)
  PROVE  BindingInv'
<1>1. Around
  BY Still DEF StartHealing, Heal, ValidateHealed, HealingFails, pages
<1>2. CASE HealingFails(s)
  BY <1>1, <1>2, Overs DEF HealingFails
<1>3. CASE StartHealing(s) \/ Heal(s) \/ ValidateHealed(s)
  <2> DEFINE p == job[s].page
  <2>1. job[s].at \in Step
    BY <1>3 DEF StartHealing, Heal, ValidateHealed, Step
  <2>2. JobOK(job[s], Credited') /\ job[s] \in Jobs /\ p \in Page /\ route[p] \in Route
    BY <1>1, <2>1, Waiting, Grows DEF Around, Jobs, BindingInv, PagesTyped
  <2>3. CASE StartHealing(s)
    <3> DEFINE q == Matching(p, FALSE)
               v == IF q = None THEN None ELSE Version(q.route)
               j == [job[s] EXCEPT !.at = "healing", !.obj = route[p], !.ver = v]
    <3>1. job' = [job EXCEPT ![s] = j]
      BY <2>3 DEF StartHealing
    <3>2. q # None => q \in store
      BY Found DEF Matching, BindingInv
    <3> HIDE DEF q
    <3>3. VersionOK(v)
      BY <3>2 DEF VersionOK, Version, Versions, BindingInv, Profile
    <3> HIDE DEF v
    <3>4. j \in Jobs /\ j.at = "healing" /\ j.ver = v
      BY <2>2, <3>3 DEF Jobs, Step, VersionOK
    <3> HIDE DEF j
    <3>5. JobOK(j, Credited')
      BY <3>3, <3>4 DEF JobOK, Holding
    <3> QED BY <1>1, <3>1, <3>5, OneMoves
  <2>4. CASE Heal(s)
    <3>1. PICK c \in Control \cup {None} : SaveFrom(s, Fresh(route[p], c), job[s].ver, "healed", "over")
      BY <2>4 DEF Heal
    <3>2. Fresh(route[p], c) \in Profile /\ Rightful(Fresh(route[p], c), Credited')
      BY <2>2, FreshKeeps
    <3> QED BY <1>1, <2>1, <2>2, <3>1, <3>2, Saves DEF JobOK, Step
  <2>5. CASE ValidateHealed(s)
    <3>1. job[s].obj \in Profile /\ Rightful(job[s].obj, Credited') /\ VersionOK(job[s].ver)
      BY <2>2, <2>5 DEF ValidateHealed, JobOK, Holding
    <3>2. \A ok, force \in BOOLEAN : /\ Marked(job[s].obj, p, ok, force) \in Profile
                                     /\ Rightful(Marked(job[s].obj, p, ok, force), Credited')
      BY <2>2, <3>1, MarkedKeeps
    <3> DEFINE n == Marked(job[s].obj, p, TRUE, FALSE)
               to == IF s = Side THEN "over" ELSE "resolving"
               m == Message(n, job[s].ver, to, "over")
               j == [job[s] EXCEPT !.at = "saving", !.retried = TRUE, !.msg = m]
    <3>3. CASE job' = [job EXCEPT ![s] = j]
      <4>1. to \in Step \ {"saving"} /\ "over" \in Step \ {"saving"}
        BY DEF Step
      <4>2. n \in Profile /\ Rightful(n, Credited')
        BY <3>2
      <4> HIDE DEF n, to
      <4>3. m \in Writes
        BY <3>1, <4>1, <4>2, Messages
      <4> HIDE DEF m
      <4>4. j \in Jobs /\ j.at = "saving" /\ j.msg = m /\ j.ver = job[s].ver
        BY <2>2, <4>3 DEF Jobs, Step
      <4> HIDE DEF j
      <4>5. JobOK(j, Credited')
        BY <3>1, <4>1, <4>2, <4>4, Saving DEF m
      <4> QED BY <1>1, <3>3, <4>5, OneMoves
    <3>4. CASE Save(s, Marked(job[s].obj, p, FALSE, TRUE), "over", "over")
      BY <1>1, <2>1, <3>1, <3>2, <3>4, Saves DEF Save, Step
    <3> QED BY <2>5, <3>3, <3>4 DEF ValidateHealed
  <2> QED BY <1>3, <2>3, <2>4, <2>5
<1> QED BY <1>2, <1>3

LEMMA StartKeeps ==
  ASSUME BindingInv, NEW p \in Page, StartHeal(p) \/ StartJob(p) \/ StartStop(p)
  PROVE  BindingInv'
<1>1. PICK task \in Task, at \in {"heal", "load"} : Start(p, task, at)
  BY DEF StartHeal, StartJob, StartStop, Task
<1>2. Around
  BY <1>1, Still DEF Start, pages
<1>3. at \in Step \ (Holding \cup {"saving"})
  BY DEF Step, Holding
<1> QED BY <1>1, <1>2, <1>3, Begins, Slots DEF Start

LEMMA SideKeeps ==
  ASSUME BindingInv, SideOver \/ Load \/ Status \/ Validate \/ StopDisowned \/ Pick
  PROVE  BindingInv'
<1>1. CASE SideOver \/ StopDisowned
  BY <1>1, Still, Overs, Slots DEF SideOver, StopDisowned, pages
<1>2. CASE Load
  <2>1. Around /\ UNCHANGED route /\ job[Side].at \in Step /\ "load" \notin Holding
    BY <1>2, Still DEF Load, pages, Step, Holding
  <2>2. CASE Resolve(Side, FALSE, "loaded")
    BY <2>1, <2>2, Resolves, Slots DEF Step
  <2>3. CASE Put(Side, "over")
    BY <2>1, <2>3, Puts, Slots DEF Step, Holding
  <2> QED BY <1>2, <2>2, <2>3 DEF Load
<1>3. CASE Status \/ Validate
  <2> DEFINE p == job[Side].page
             o == job[Side].obj
  <2>1. Around /\ job[Side].at \in Step /\ job[Side].at \in Holding
    BY <1>3, Still DEF Status, Validate, pages, Step, Holding
  <2>2. JobOK(job[Side], Credited') /\ job[Side] \in Jobs /\ p \in Page
    BY <2>1, Waiting, Grows, Slots DEF Around, Jobs
  <2>3. o \in Profile /\ Rightful(o, Credited') /\ VersionOK(job[Side].ver)
    BY <2>1, <2>2 DEF JobOK
  <2>4. CASE Status
    <3> DEFINE n == WithObserved(Aligned(o, p))
    <3>1. n \in Profile /\ Rightful(n, Credited')
      BY <2>2, <2>3, AlignedKeeps, ObservedKeeps
    <3>2. CASE Record(Side, n, "over")
      BY <2>1, <2>3, <3>1, <3>2, Saves, Slots DEF Record, Save, Step
    <3>3. CASE Put(Side, IF o.fails > 0 /\ job[p] = NoJob THEN "heal" ELSE "over")
      <4>1. PICK to \in {"heal", "over"} : Put(Side, to)
        BY <3>3
      <4> QED BY <2>1, <4>1, Puts, Slots DEF Step
    <3> QED BY <2>4, <3>2, <3>3 DEF Status
  <2>5. CASE Validate
    <3>1. PICK ready \in BOOLEAN : Save(Side, Marked(o, p, ready, ~ready), "over", "over")
      BY <2>5 DEF Validate
    <3>2. Marked(o, p, ready, ~ready) \in Profile /\ Rightful(Marked(o, p, ready, ~ready), Credited')
      BY <2>2, <2>3, MarkedKeeps
    <3> QED BY <2>1, <2>3, <3>1, <3>2, Saves, Slots DEF Save, Step
  <2> QED BY <1>3, <2>4, <2>5
<1>4. CASE Pick
  <2> DEFINE r == route[job[Side].page]
             q == Find(store, r)
             kept == IF draft[r] # None THEN draft[r] ELSE IF q # None THEN q.stop ELSE None
  <2>1. job[Side].at \in Step /\ "load" \notin Holding /\ job[Side].at = "load"
    BY <1>4 DEF Pick, Step, Holding
  <2>2. job[Side] \in Jobs /\ r \in Route
    BY <2>1, Waiting, Slots DEF Jobs, BindingInv, PagesTyped
  <2>3. q # None => q \in store
    BY Found DEF BindingInv
  <2>4. kept \in Control \cup {None}
    BY <2>2, <2>3 DEF BindingInv, PagesTyped, Profile
  <2>5. VersionOK(IF q = None THEN None ELSE Version(r))
    BY <2>2 DEF VersionOK, Version, Versions, BindingInv
  <2>6. PICK c \in Control \cup {kept} :
          /\ draft' = [draft EXCEPT ![r] = c]
          /\ \/ SaveFrom(Side, Fresh(r, c), IF q = None THEN None ELSE Version(r), "over", "over")
             \/ Put(Side, "over")
    BY <1>4 DEF Pick
  <2> HIDE DEF kept, q
  <2>7. c \in Control \cup {None} /\ Fresh(r, c) \in Profile /\ Rightful(Fresh(r, c), Credited')
    BY <2>2, <2>4, FreshKeeps
  <2> HIDE DEF r
  <2>8. UNCHANGED <<store, clock, book>> /\ PagesTyped'
    BY <1>4, <2>6, <2>7 DEF Pick, BindingInv, PagesTyped, pages
  <2>9. Around
    BY <2>8 DEF Around, Credited, book
  <2>10. CASE Put(Side, "over")
    BY <2>1, <2>9, <2>10, Puts, Slots DEF Step, Holding
  <2> DEFINE v == IF q = None THEN None ELSE Version(r)
  <2>11. CASE SaveFrom(Side, Fresh(r, c), v, "over", "over")
    <3>1. VersionOK(v) /\ "over" \in Step \ {"saving"}
      BY <2>5 DEF Step
    <3> HIDE DEF v
    <3> QED BY <2>1, <2>7, <2>9, <2>11, <3>1, Saves, Slots
  <2> QED BY <2>6, <2>10, <2>11
<1> QED BY <1>1, <1>2, <1>3, <1>4
\* A prompt in its page: it holds a job that waits at one of these steps.
LEMMA ActiveHas ==
  ASSUME BindingInv, NEW p \in Page, Active(p) \/ job[p].at = "submitted"
  PROVE  job[p] \in Jobs /\ JobOK(job[p], Credited)
<1>1. job[p].at \in Step
  BY DEF Active, Step
<1> QED BY <1>1, Waiting, Slots

LEMMA StopKeepsBindings ==
  ASSUME BindingInv, FindStop \/ PressStop \/ NothingToStop \/ SelectedAnswer \/ Cancelled
  PROVE  BindingInv'
<1> DEFINE p == job[Side].page
<1>1. job[Side].at \in {"loaded", "press", "done"}
  BY DEF FindStop, PressStop, NothingToStop, SelectedAnswer, Cancelled, Stopping
<1>2. Side \in Slot /\ job[Side].at \in Step /\ job[Side].at \in Holding
  BY <1>1, Slots DEF Step, Holding
<1>3. /\ JobOK(job[Side], Credited) /\ job[Side] \in Jobs /\ p \in Page
      /\ job[Side].obj \in Profile /\ Rightful(job[Side].obj, Credited) /\ VersionOK(job[Side].ver)
  BY <1>2, Waiting DEF JobOK, Jobs
<1>4. CASE FindStop
  <2> DEFINE o == WithStop(job[Side].obj, shown[p])
             n == WithObserved(Aligned(o, p))
             m == Message(n, job[Side].ver, "press", "press")
             i == [job[Side] EXCEPT !.at = "saving", !.saw = shown[p], !.msg = m]
             j == [job[p] EXCEPT !.saw = shown[p]]
  <2>1. Around /\ shown[p] \in Control /\ Active(p) /\ Credited' = Credited
    BY <1>3, <1>4, Still DEF FindStop, pages, BindingInv, PagesTyped, Credited, book
  <2>2. o \in Profile /\ Rightful(o, Credited')
    BY <1>3, <2>1, StopKeeps
  <2> HIDE DEF o
  <2>3. n \in Profile /\ Rightful(n, Credited')
    BY <1>3, <2>2, AlignedKeeps, ObservedKeeps
  <2>4. job' = [job EXCEPT ![Side] = i, ![p] = j]
    BY <1>3, <1>4, SlotAssumption DEF FindStop, o
  <2> HIDE DEF n
  <2>5. m \in Writes
    BY <1>3, <2>3, Messages DEF Step
  <2> HIDE DEF m
  <2>6. i \in Jobs /\ i.at = "saving" /\ i.ver = job[Side].ver /\ i.msg = m
    BY <1>3, <2>1, <2>5 DEF Jobs, Step
  <2>7. j \in Jobs /\ j.at = job[p].at /\ j.obj = job[p].obj /\ j.ver = job[p].ver /\ j.msg = job[p].msg
    BY <1>3, <2>1, ActiveHas DEF Jobs
  <2> HIDE DEF i, j
  <2>8. JobOK(i, Credited')
    BY <1>3, <2>3, <2>6, Saving DEF m, Step
  <2>9. JobOK(j, Credited')
    BY <1>3, <2>1, <2>7, ActiveHas DEF JobOK
  <2> HIDE DEF p
  <2> QED BY <1>3, <2>1, <2>4, <2>8, <2>9, TwoMove
<1>5. CASE PressStop
  <2>1. PagesTyped'
    BY <1>3, <1>5 DEF PressStop, BindingInv, PagesTyped
  <2>2. /\ Record(Side, WithConfirmed(Aligned(job[Side].obj, p)), "done")
        /\ Credit(job[Side].obj, p, job[Side].saw) /\ UNCHANGED <<store, clock>>
    BY <1>5 DEF PressStop
  <2> QED BY <1>2, <1>3, <2>1, <2>2, RecordKeeps DEF Step
<1>6. CASE NothingToStop
  <2>1. PagesTyped'
    BY <1>3, <1>6 DEF NothingToStop, BindingInv, PagesTyped, pages
  <2>2. CASE job[p].saw # None
    <3>1. /\ Record(Side, WithCompleted(Aligned(job[Side].obj, p)), "done")
          /\ Credit(job[Side].obj, p, job[p].saw) /\ UNCHANGED <<store, clock>>
      BY <1>6, <2>2 DEF NothingToStop
    <3> QED BY <1>2, <1>3, <2>1, <3>1, RecordKeeps DEF Step
  <2>3. CASE job[p].saw = None
    <3>1. Around
      BY <1>6, <2>3, Still DEF NothingToStop, pages
    <3>2. PICK to \in {"done", "over"} : Put(Side, to)
      BY <1>6, <2>3 DEF NothingToStop
    <3> QED BY <1>2, <3>1, <3>2, Puts DEF Step
  <2> QED BY <2>2, <2>3
<1>7. CASE SelectedAnswer
  <2> DEFINE j == [job[p] EXCEPT !.at = "captured", !.manual = TRUE, !.idle = job[p].saw # None]
  <2>1. Around /\ job[p].at = "submitted" /\ Credited' = Credited
    BY <1>7, Still DEF SelectedAnswer, pages, Credited, book
  <2>2. JobOK(job[p], Credited) /\ job[p] \in Jobs
    BY <1>3, <2>1, ActiveHas
  <2>3. job' = [job EXCEPT ![Side] = NoJob, ![p] = j]
    BY <1>3, <1>7, SlotAssumption DEF SelectedAnswer
  <2>4. j \in Jobs /\ j.at = "captured" /\ j.obj = job[p].obj /\ j.ver = job[p].ver
    BY <2>2 DEF Jobs, Step
  <2> HIDE DEF j
  <2>5. JobOK(j, Credited')
    BY <2>1, <2>2, <2>4 DEF JobOK, Holding
  <2> HIDE DEF p
  <2> QED BY <1>3, <2>1, <2>3, <2>5, TwoMove
<1>8. CASE Cancelled
  <2>1. Around /\ job' = [job EXCEPT ![Side] = NoJob, ![p] = NoJob]
    BY <1>8, Still DEF Cancelled, pages
  <2> HIDE DEF p
  <2> QED BY <1>3, <2>1, TwoMove
<1> QED BY <1>4, <1>5, <1>6, <1>7, <1>8

\* upsertProfile: the route's binding is replaced by one that is rightful, and others may go.
LEMMA UpsertKeeps ==
  ASSUME BindingInv, NEW s \in Slot, Upsert(s)
  PROVE  BindingInv'
<1>1. job[s].at = "saving" /\ JobOK(job[s], Credited) /\ job[s] \in Jobs
  BY Waiting DEF Upsert, Step
<1> DEFINE m == job[s].msg
           o == m.profile
           known == IF job[s].ver = None THEN {} ELSE job[s].ver.targets
           v == [route |-> o.route, targets |-> {q \in known : q.route # o.route} \cup {o}]
           j == [job[s] EXCEPT !.at = m.ok, !.obj = o, !.msg = None, !.ver = v]
<1>2. m \in Writes /\ o \in Profile /\ Rightful(o, Credited) /\ m.ok \in Step \ {"saving"}
  BY <1>1 DEF JobOK, Writes
<1>3. known \subseteq Profile /\ OneEach(known)
  BY <1>1 DEF JobOK, VersionOK, Versions, OneEach
<1>4. PICK k \in Kept(o) : store' = k \cup {o}
  BY DEF Upsert
<1>5. k \subseteq store /\ \A q \in k : q.route # o.route
  BY <1>4 DEF Kept
<1>6. Credited' = Credited /\ clock' \in Nat
  BY DEF Upsert, book, Credited, BindingInv
<1>7. store' \subseteq Profile /\ OneEach(store') /\ \A q \in store' : Rightful(q, Credited')
  BY <1>2, <1>4, <1>5, <1>6 DEF BindingInv, OneEach
<1>8. job' = [job EXCEPT ![s] = j]
  BY DEF Upsert
<1>9. PagesTyped'
  <2>1. o.route \in Route
    BY <1>2 DEF Profile
  <2>2. draft' = IF job[s].task = "pick" THEN [draft EXCEPT ![o.route] = None] ELSE draft
    BY DEF Upsert
  <2>3. draft' \in [Route -> Control \cup {None}]
    BY <2>1, <2>2 DEF BindingInv, PagesTyped
  <2> QED BY <2>3 DEF Upsert, BindingInv, PagesTyped, pages
<1>10. v \in Versions /\ VersionOK(v)
  <2>1. o.route \in Route
    BY <1>2 DEF Profile
  <2> HIDE DEF known, o
  <2>2. OneEach(v.targets)
    BY <1>3 DEF OneEach
  <2> QED BY <1>2, <1>3, <2>1, <2>2 DEF VersionOK, Versions
<1> HIDE DEF v
<1>11. j \in Jobs /\ j.at = m.ok /\ j.obj = o /\ j.ver = v
  BY <1>1, <1>2, <1>10 DEF Jobs
<1> HIDE DEF j, o, m
<1>12. JobOK(j, Credited')
  BY <1>2, <1>6, <1>10, <1>11 DEF JobOK
<1>13. job' \in [Slot -> Jobs \cup {NoJob}] /\ \A q \in Slot : job'[q] = j \/ job'[q] = job[q]
  BY <1>8, <1>11 DEF BindingInv
<1>14. \A q \in Slot : job'[q] = NoJob \/ JobOK(job'[q], Credited')
  BY <1>6, <1>12, <1>13 DEF BindingInv
<1> QED BY <1>6, <1>7, <1>9, <1>13, <1>14 DEF BindingInv

\* What becomes of a job whose write was refused, or whose worker died.
LEMMA Refused ==
  ASSUME NEW j, NEW C, JobOK(j, C), j.at = "saving"
  PROVE  JobOK([j EXCEPT !.at = j.msg.bad, !.obj = j.msg.profile, !.msg = None], C)
<1> DEFINE i == [j EXCEPT !.at = j.msg.bad, !.obj = j.msg.profile, !.msg = None]
<1>1. /\ j \in Jobs /\ j.msg.bad \in Step \ {"saving"}
      /\ j.msg.profile \in Profile /\ Rightful(j.msg.profile, C)
  BY DEF JobOK, Writes
<1>2. i \in Jobs /\ i.at = j.msg.bad /\ i.obj = j.msg.profile /\ i.ver = j.ver
  BY <1>1 DEF Jobs
<1> HIDE DEF i
<1>3. JobOK(i, C)
  BY <1>1, <1>2 DEF JobOK
<1> QED BY <1>3 DEF i

LEMMA RefusedKeeps ==
  ASSUME BindingInv, NEW s \in Slot, SaveRefused(s)
  PROVE  BindingInv'
<1>1. Around /\ job[s].at = "saving" /\ Credited' = Credited
  BY Still DEF SaveRefused, pages, Credited, book
<1>2. JobOK(job[s], Credited)
  BY <1>1, Waiting DEF Step
<1>3. PICK j : j = [job[s] EXCEPT !.at = job[s].msg.bad, !.obj = job[s].msg.profile, !.msg = None]
  OBVIOUS
<1>4. job' = [job EXCEPT ![s] = j]
  BY <1>3 DEF SaveRefused
<1> QED BY <1>1, <1>2, <1>3, <1>4, Refused, OneMoves

LEMMA PopupKeeps ==
  ASSUME BindingInv, Popup
  PROVE  BindingInv'
<1>1. CASE RemoveBinding
  <2>1. store' \subseteq store /\ UNCHANGED <<draft, job, route, shown, clock, earned, mistaken>>
    BY <1>1 DEF RemoveBinding, pages, book
  <2> QED BY <2>1 DEF BindingInv, OneEach, Rightful, PagesTyped, Credited
<1>2. CASE ~RemoveBinding
  <2>1. UNCHANGED <<store, draft, job, route, shown, clock, book>>
    BY <1>2 DEF Popup, AskPerson, StartManagement, RefuseManagement, RevokeAccess, Revoked,
                ManagementOver, pages
  <2> QED BY <2>1, Still, NoneMoves
<1> QED BY <1>1, <1>2

LEMMA SiteKeeps ==
  ASSUME BindingInv, Site
  PROVE  BindingInv'
<1>1. CASE Restart
  <2>1. UNCHANGED <<store, draft, route, shown, clock, earned, mistaken>>
    BY <1>1 DEF Restart, pages, book
  <2>2. \A s \in Slot : job'[s] = NoJob \/ job'[s] = job[s] \/
          /\ job[s].at = "saving"
          /\ job'[s] = [job[s] EXCEPT !.at = job[s].msg.bad, !.obj = job[s].msg.profile, !.msg = None]
    BY <1>1 DEF Restart
  <2>3. \A s \in Slot : job'[s] = NoJob \/ JobOK(job'[s], Credited)
    <3> SUFFICES ASSUME NEW s \in Slot PROVE job'[s] = NoJob \/ JobOK(job'[s], Credited)
      OBVIOUS
    <3>1. job[s].at = "saving" => JobOK(job[s], Credited)
      BY Waiting DEF Step
    <3>2. PICK i : i = [job[s] EXCEPT !.at = job[s].msg.bad, !.obj = job[s].msg.profile, !.msg = None]
      OBVIOUS
    <3>3. job[s].at = "saving" => JobOK(i, Credited)
      BY <3>1, <3>2, Refused
    <3> QED BY <2>2, <3>2, <3>3 DEF BindingInv
  <2>4. job' = [s \in Slot |-> job'[s]]
    BY <1>1 DEF Restart
  <2>5. job' \in [Slot -> Jobs \cup {NoJob}]
    BY <2>3, <2>4 DEF JobOK
  <2> QED BY <2>1, <2>3, <2>5 DEF BindingInv, PagesTyped, Credited
<1>2. CASE ~Restart
  <2>1. UNCHANGED <<store, draft, job, clock, book>>
    BY <1>2 DEF Site, ShowStop, EndGeneration, NavigationUnpermitted, Register, Move, TakeAccess, pages
  <2>2. PagesTyped'
    BY <1>2 DEF Site, ShowStop, EndGeneration, NavigationUnpermitted, Register, Move, TakeAccess, pages,
                BindingInv, PagesTyped
  <2> QED BY <2>1, <2>2, NoneMoves DEF Around, Credited, book
<1> QED BY <1>1, <1>2

LEMMA BindingStep == BindingInv /\ [Next]_vars => BindingInv'
<1> SUFFICES ASSUME BindingInv, [Next]_vars PROVE BindingInv'
  OBVIOUS
<1>1. CASE UNCHANGED vars
  BY <1>1, Still, NoneMoves DEF vars, pages
<1>2. ASSUME NEW p \in Page, Prompt(p) PROVE BindingInv'
  BY <1>2, PromptKeeps, LearnKeeps, CaptureKeeps, FinalizeKeeps DEF Prompt
<1> QED BY <1>1, <1>2, StartKeeps, UpsertKeeps, RefusedKeeps, HealKeeps, SideKeeps, StopKeepsBindings,
           PopupKeeps, SiteKeeps DEF Next

LEMMA BindingInit == Init => BindingInv
<1> SUFFICES ASSUME Init PROVE BindingInv
  OBVIOUS
<1>1. PICK bound \in SUBSET Route : \E stop \in [bound -> Control] :
          \/ store = {Saved(r, stop[r]) : r \in bound} /\ earned = {}
          \/ /\ store = {Proven(r, stop[r]) : r \in bound}
             /\ earned = {<<r, stop[r]>> : r \in bound}
  BY DEF Init
<1>2. PICK stop \in [bound -> Control] :
          \/ store = {Saved(r, stop[r]) : r \in bound} /\ earned = {}
          \/ /\ store = {Proven(r, stop[r]) : r \in bound}
             /\ earned = {<<r, stop[r]>> : r \in bound}
  BY <1>1
<1>3. \A r \in bound : r \in Route /\ stop[r] \in Control
  OBVIOUS
<1>4. \A r \in bound : /\ Saved(r, stop[r]) \in Profile /\ Saved(r, stop[r]).route = r
                       /\ Saved(r, stop[r]).ev = None
  BY <1>3 DEF Saved, Fresh, Profile
<1>5. \A r \in bound : /\ Proven(r, stop[r]) \in Profile /\ Proven(r, stop[r]).route = r
                       /\ Proven(r, stop[r]).ev.route = r /\ Proven(r, stop[r]).ev.stop = stop[r]
  <2> SUFFICES ASSUME NEW r \in bound
               PROVE  /\ Proven(r, stop[r]) \in Profile /\ Proven(r, stop[r]).route = r
                      /\ Proven(r, stop[r]).ev.route = r /\ Proven(r, stop[r]).ev.stop = stop[r]
    OBVIOUS
  <2> DEFINE e == [stop |-> stop[r], route |-> r, level |-> 2, at |-> 0]
  <2>1. e \in Evidence
    BY <1>3 DEF Evidence
  <2>2. Proven(r, stop[r]) = [Saved(r, stop[r]) EXCEPT !.ev = e]
    BY DEF Proven
  <2>3. e.route = r /\ e.stop = stop[r]
    OBVIOUS
  <2> HIDE DEF e
  <2>4. Saved(r, stop[r]) \in Profile /\ Saved(r, stop[r]).route = r
    BY <1>4
  <2> QED BY <2>1, <2>2, <2>3, <2>4 DEF Profile
<1>6. store \subseteq Profile /\ OneEach(store) /\ \A q \in store : Rightful(q, Credited)
  BY <1>2, <1>4, <1>5 DEF OneEach, Rightful, Credited
<1>7. PagesTyped /\ clock \in Nat /\ job \in [Slot -> Jobs \cup {NoJob}] /\ \A s \in Slot : job[s] = NoJob
  BY DEF Init, PagesTyped
<1> QED BY <1>6, <1>7 DEF BindingInv

(* A saved binding claims a verified lifecycle only for a control and a route   *)
(* with which a prompt ran to its end, or one a Stop credited by mistake:       *)
(* rebinding, healing, adopting for another route and a control learned during  *)
(* a turn start from nothing (lifecycleEvidence.ts, markProfileValidation).     *)
THEOREM EvidenceAlwaysEarned == Spec => []EvidenceIsEarned
<1>1. BindingInv => EvidenceIsEarned
  BY DEF BindingInv, EvidenceIsEarned, HasVerifiedLifecycle, HasObservedStop, EvidenceMatches, Rightful,
         Credited
<1> QED BY <1>1, BindingInit, BindingStep, PTL DEF Spec

-----------------------------------------------------------------------------
(* Management and the gates of a prompt. *)

\* Where a prompt waits that has not passed the gates of sendGenericCommand.
Early == {None, "asked", "matched", "gated"}

\* What the gates of a prompt and the one of management keep of each other.
GateInv ==
    /\ busy \subseteq Page
    /\ manage # None => \A p \in busy \cap registered : job[p].at \in Early

\* A step that moves no job but one that is past the gates, or ends one.
LEMMA LateJobMoves ==
  ASSUME BindingInv, NEW s \in Slot, NEW j, job' = [job EXCEPT ![s] = j],
         NEW p \in Page, job[p].at \in Early, s = p => j = NoJob
  PROVE  job'[p].at \in Early
<1>1. p \in Slot /\ job \in [Slot -> Jobs \cup {NoJob}]
  BY Slots DEF BindingInv
<1>2. NoJob.at = None
  BY DEF NoJob
<1> QED BY <1>1, <1>2 DEF Early

\* No step of the prompt itself passes the gates while the site is managed.
LEMMA PromptStaysOut ==
  ASSUME BindingInv, manage # None, NEW q \in Page, Prompt(q), NEW p \in Page, job[p].at \in Early
  PROVE  job'[p].at \in Early
<1>1. q \in Slot /\ p \in Slot /\ job \in [Slot -> Jobs \cup {NoJob}]
  BY Slots DEF BindingInv
<1>2. CASE Ask(q) \/ Match(q) \/ Gate(q)
  <2>1. PICK j : job' = [job EXCEPT ![q] = j] /\ j.at \in Early
    <3>1. CASE Ask(q)
      <4>1. job' = [job EXCEPT ![q] = Job(q)] /\ Job(q).at = "asked"
        BY <3>1 DEF Ask, Job
      <4> HIDE DEF Job
      <4> QED BY <4>1 DEF Early
    <3>2. CASE Match(q) \/ Gate(q)
      <4>1. job[q].at \in Step
        BY <3>2 DEF Match, Gate, Step
      <4>2. job[q] \in Jobs
        BY <1>1, <4>1, Waiting
      <4>3. PICK to \in {"matched", "gated"} : Put(q, to)
        BY <3>2 DEF Match, Gate
      <4>4. job' = [job EXCEPT ![q] = [job[q] EXCEPT !.at = to]]
        BY <4>3 DEF Put
      <4>5. [job[q] EXCEPT !.at = to].at = to
        BY <4>2 DEF Jobs
      <4> QED BY <4>4, <4>5 DEF Early
    <3> QED BY <1>2, <3>1, <3>2
  <2> QED BY <1>1, <2>1
<1>3. CASE Withhold(q) \/ Fail(q) \/ Answered(q) \/ AnswerRefused(q)
  <2>1. job' = [job EXCEPT ![q] = NoJob]
    BY <1>3 DEF Withhold, Fail, Answered, AnswerRefused, Over
  <2> QED BY <1>1, <2>1, LateJobMoves
<1>4. CASE Deliver(q)
  BY <1>4 DEF Deliver
<1>5. CASE Bind(q) \/ Submit(q) \/ BindingInvalid(q) \/ LearnStop(q) \/ Capture(q) \/ Finalize(q)
             \/ CountSuccess(q)
  <2>1. job[q].at \notin Early
    BY <1>5, Bounds DEF Bind, Submit, BindingInvalid, LearnStop, Capture, Finalize, CountSuccess, Early, Step
  <2>2. p # q
    BY <2>1
  <2>3. PICK j : job' = [job EXCEPT ![q] = j]
    BY <1>5 DEF Bind, Resolve, Hold, Submit, BindingInvalid, LearnStop, Capture, Finalize, Record, Put,
                CountSuccess, Save, SaveFrom
  <2> QED BY <1>1, <2>2, <2>3, LateJobMoves
<1> QED BY <1>2, <1>3, <1>4, <1>5 DEF Prompt

\* The jobs of a slot: reading, healing and writing a binding come after the gates.
LEMMA SlotStaysOut ==
  ASSUME BindingInv, NEW s \in Slot, NEW p \in Page, job[p].at \in Early,
         Upsert(s) \/ SaveRefused(s) \/ StartHealing(s) \/ Heal(s) \/ ValidateHealed(s) \/ HealingFails(s)
  PROVE  job'[p].at \in Early
<1>1. CASE HealingFails(s)
  <2>1. job' = [job EXCEPT ![s] = NoJob]
    BY <1>1 DEF HealingFails, Over
  <2> QED BY <2>1, LateJobMoves
<1>2. CASE ~HealingFails(s)
  <2>1. s # p
    BY <1>2, Bounds DEF Upsert, SaveRefused, StartHealing, Heal, ValidateHealed, Early, Step
  <2>2. PICK j : job' = [job EXCEPT ![s] = j]
    BY <1>2 DEF Upsert, SaveRefused, StartHealing, Heal, ValidateHealed, Save, SaveFrom
  <2> QED BY <2>1, <2>2, LateJobMoves
<1> QED BY <1>1, <1>2

\* The other jobs move the prompt of a page only when it was submitted.
LEMMA SideStaysOut ==
  ASSUME BindingInv, NEW p \in Page, job[p].at \in Early,
         \/ \E q \in Page : StartHeal(q) \/ StartJob(q) \/ StartStop(q)
         \/ SideOver \/ Load \/ Status \/ Validate \/ StopDisowned \/ FindStop \/ PressStop
         \/ NothingToStop \/ SelectedAnswer \/ Cancelled \/ Pick
  PROVE  job'[p].at \in Early
<1>1. /\ Side \in Slot /\ p \in Slot /\ Side # p
      /\ job \in [Slot -> Jobs \cup {NoJob}]
  BY Slots, Bounds DEF BindingInv
<1>2. CASE FindStop \/ SelectedAnswer \/ Cancelled
  <2> DEFINE q == job[Side].page
  <2>1. job[q].at \notin Early
    BY <1>2, Bounds DEF FindStop, SelectedAnswer, Cancelled, Active, Early, Step
  <2>2. p # q
    BY <2>1
  <2>3. CASE FindStop
    <3>1. PICK m : job' = [job EXCEPT ![Side].at = "saving", ![Side].saw = shown[q],
                                      ![Side].msg = m, ![q].saw = shown[q]]
      BY <2>3 DEF FindStop
    <3> HIDE DEF q
    <3> QED BY <1>1, <2>2, <3>1
  <2>4. CASE SelectedAnswer
    <3>1. job' = [job EXCEPT ![Side] = NoJob, ![q].at = "captured", ![q].manual = TRUE,
                             ![q].idle = job[q].saw # None]
      BY <2>4 DEF SelectedAnswer
    <3> HIDE DEF q
    <3> QED BY <1>1, <2>2, <3>1
  <2>5. CASE Cancelled
    <3>1. job' = [job EXCEPT ![Side] = NoJob, ![q] = NoJob]
      BY <2>5 DEF Cancelled
    <3> HIDE DEF q
    <3> QED BY <1>1, <2>2, <3>1
  <2> QED BY <1>2, <2>3, <2>4, <2>5
<1>3. CASE ~(FindStop \/ SelectedAnswer \/ Cancelled)
  <2>1. PICK j : job' = [job EXCEPT ![Side] = j]
    <3>1. ASSUME NEW q \in Page, StartHeal(q) \/ StartJob(q) \/ StartStop(q)
          PROVE  \E j : job' = [job EXCEPT ![Side] = j]
      BY <3>1 DEF StartHeal, StartJob, StartStop, Start
    <3>2. CASE SideOver \/ StopDisowned
      BY <3>2 DEF SideOver, Over, StopDisowned
    <3>3. CASE Load
      BY <3>3 DEF Load, Resolve, Hold, Put, SaveFrom
    <3>4. CASE Status \/ Validate
      BY <3>4 DEF Status, Validate, Record, Put, Save, SaveFrom
    <3>5. CASE PressStop \/ NothingToStop
      BY <3>5 DEF PressStop, NothingToStop, Record, Put, Save, SaveFrom
    <3>6. CASE Pick
      BY <3>6 DEF Pick, Put, SaveFrom
    <3> QED BY <1>3, <3>1, <3>2, <3>3, <3>4, <3>5, <3>6
  <2> QED BY <1>1, <2>1, LateJobMoves
<1> QED BY <1>2, <1>3

LEMMA StaysOut ==
  ASSUME BindingInv, manage # None, Next, NEW p \in Page, job[p].at \in Early
  PROVE  job'[p].at \in Early
<1>1. CASE Popup
  BY <1>1 DEF Popup, AskPerson, StartManagement, RefuseManagement, RemoveBinding, RevokeAccess, Revoked,
              ManagementOver
<1>2. CASE Restart
  <2>1. p \in Slot /\ NoJob.at = None /\ job[p].at # "saving"
    BY Slots, Bounds DEF NoJob, Early, Step
  <2>2. job'[p] = NoJob \/ job'[p] = job[p]
    BY <1>2, <2>1 DEF Restart
  <2> QED BY <2>1, <2>2 DEF Early
<1>3. CASE Site /\ ~Restart
  BY <1>3 DEF Site, ShowStop, EndGeneration, NavigationUnpermitted, Register, Move, TakeAccess
<1>4. ASSUME NEW q \in Page, Prompt(q) PROVE job'[p].at \in Early
  BY <1>4, PromptStaysOut
<1> QED BY <1>1, <1>2, <1>3, <1>4, SlotStaysOut, SideStaysOut DEF Next

\* Only a request just admitted joins the requests of the background; only
\* handleGenericContentMessage, never while the site is managed, a registration.
LEMMA Joins ==
  ASSUME Next
  PROVE  /\ \A p \in busy' : p \in busy \/ (p \in Page /\ job[p].at = None)
         /\ manage # None => registered' \subseteq registered
         /\ manage = None /\ manage' # None => StartManagement
<1>1. NoJob.at = None
  BY DEF NoJob
<1>2. ASSUME NEW q \in Page, Prompt(q)
      PROVE  UNCHANGED access /\ \A p \in busy' : p \in busy \/ (p = q /\ job[p].at = None)
  BY <1>1, <1>2 DEF Prompt, Ask, Match, Gate, Deliver, Withhold, Bind, Fail, Submit, BindingInvalid,
                    LearnStop, Capture, Finalize, CountSuccess, Answered, AnswerRefused, Over
<1>3. ASSUME NEW q \in Page, StartHeal(q) \/ StartJob(q) \/ StartStop(q)
      PROVE  UNCHANGED access /\ busy' \subseteq busy
  BY <1>3 DEF StartHeal, StartJob, StartStop, Start
<1>4. ASSUME NEW s \in Slot, Upsert(s) \/ SaveRefused(s) \/ StartHealing(s) \/ Heal(s)
                             \/ ValidateHealed(s) \/ HealingFails(s)
      PROVE  UNCHANGED access /\ busy' \subseteq busy
  BY <1>4 DEF Upsert, SaveRefused, StartHealing, Heal, ValidateHealed, HealingFails, Over
<1>5. ASSUME SideOver \/ Load \/ Status \/ Validate \/ StopDisowned \/ FindStop \/ PressStop
               \/ NothingToStop \/ SelectedAnswer \/ Cancelled \/ Pick
      PROVE  UNCHANGED access /\ busy' \subseteq busy
  BY <1>5 DEF SideOver, Load, Status, Validate, StopDisowned, FindStop, PressStop, NothingToStop,
              SelectedAnswer, Cancelled, Pick, Over
<1>6. ASSUME Popup
      PROVE  /\ busy' = busy /\ registered' \subseteq registered
             /\ manage = None /\ manage' # None => StartManagement
  BY <1>6 DEF Popup, AskPerson, StartManagement, RefuseManagement, RemoveBinding, RevokeAccess, Revoked,
              ManagementOver
<1>7. ASSUME Site
      PROVE  /\ busy' \subseteq busy /\ manage' \in {manage, None}
             /\ manage # None => registered' \subseteq registered
  BY <1>7 DEF Site, ShowStop, EndGeneration, NavigationUnpermitted, Register, Move, TakeAccess, Restart, access
<1> QED BY <1>2, <1>3, <1>4, <1>5, <1>6, <1>7 DEF Next, access

LEMMA GateStep == BindingInv /\ GateInv /\ [Next]_vars => GateInv'
<1> SUFFICES ASSUME BindingInv, GateInv, [Next]_vars
             PROVE  GateInv'
  OBVIOUS
<1>1. CASE UNCHANGED vars
  BY <1>1 DEF vars, access, GateInv
<1>2. CASE Next
  <2>1. busy' \subseteq Page
    BY <1>2, Joins DEF GateInv
  <2>2. ASSUME manage' # None, NEW p \in busy' \cap registered'
        PROVE  job'[p].at \in Early
    <3>1. CASE manage # None
      <4>1. p \in registered /\ (p \in busy \/ job[p].at = None)
        BY <1>2, <2>2, <3>1, Joins
      <4>2. job[p].at \in Early
        BY <3>1, <4>1 DEF GateInv, Early
      <4> QED BY <1>2, <2>1, <3>1, <4>2, StaysOut
    <3>2. CASE manage = None
      <4>1. StartManagement
        BY <1>2, <2>2, <3>2, Joins
      <4> QED BY <2>2, <4>1 DEF StartManagement, SiteIdle
    <3> QED BY <3>1, <3>2
  <2> QED BY <2>1, <2>2 DEF GateInv
<1> QED BY <1>1, <1>2

(* While a binding is changed or the access revoked, no prompt the background   *)
(* answers for is in a registered page of the site, and none enters one: a      *)
(* request admitted meanwhile stops at the gates (assertManagementIdle,         *)
(* managementOrigins in genericProvider.ts).                                    *)
THEOREM ManagementAlwaysAlone == Spec => []ManagementExcludesPrompts
<1>1. Init => GateInv
  BY DEF Init, GateInv
<1>2. GateInv => ManagementExcludesPrompts
  BY DEF GateInv, ManagementExcludesPrompts, Early
<1> QED BY <1>1, <1>2, BindingInit, BindingStep, GateStep, PTL DEF Spec

-----------------------------------------------------------------------------
(* Writers have read. *)

LEMMA StopsOf ==
  ASSUME NEW ps, ps \subseteq Profile, OneEach(ps), NEW r
  PROVE  /\ Find(ps, r) = None => Stops(ps, r) = {}
         /\ Find(ps, r) # None => Stops(ps, r) = {Find(ps, r).stop}
<1>1. CASE Find(ps, r) = None
  BY <1>1, Found DEF Stops
<1>2. CASE Find(ps, r) # None
  <2> DEFINE f == Find(ps, r)
  <2>1. f \in ps /\ f.route = r
    BY <1>2, Found
  <2> HIDE DEF f
  <2>2. \A q \in ps : q.route = r => q = f
    BY <2>1 DEF OneEach
  <2>3. Stops(ps, r) = {f.stop}
    BY <2>1, <2>2 DEF Stops
  <2> QED BY <1>2, <2>3 DEF f
<1> QED BY <1>1, <1>2

\* A store that lost bindings has for every route what it had, or nothing.
LEMMA Loses ==
  ASSUME NEW ps, ps \subseteq Profile, OneEach(ps), NEW qs, NEW r,
         \A q \in qs : q.route = r => q \in ps
  PROVE  Stops(qs, r) \in {{}, Stops(ps, r)}
<1>1. \A q, x \in qs : q.route = r /\ x.route = r => q = x
  BY DEF OneEach
<1>2. CASE \E q \in qs : q.route = r
  <2>1. PICK q \in qs : q.route = r
    BY <1>2
  <2>2. q \in ps /\ \A x \in ps : x.route = r => x = q
    BY <2>1 DEF OneEach
  <2>3. Stops(qs, r) = {q.stop}
    BY <1>1, <2>1 DEF Stops
  <2>4. Stops(ps, r) = {q.stop}
    BY <2>1, <2>2 DEF Stops
  <2> QED BY <2>3, <2>4
<1>3. CASE ~ \E q \in qs : q.route = r
  BY <1>3 DEF Stops
<1> QED BY <1>2, <1>3

Reads(s, r) ==
    /\ job[s].at = "saving" /\ job[s].msg.profile \in store'
    /\ Stops(IF job[s].ver = None THEN {} ELSE job[s].ver.targets, r) = Stops(store, r)

LEMMA UpsertReads ==
  ASSUME BindingInv, NEW s \in Slot, Upsert(s), NEW r \in Route,
         Stops(store', r) \notin {{}, Stops(store, r)}
  PROVE  Reads(s, r)
<1>1. job[s].at = "saving" /\ JobOK(job[s], Credited)
  BY Waiting DEF Upsert, Step
<1> DEFINE o == job[s].msg.profile
           known == IF job[s].ver = None THEN {} ELSE job[s].ver.targets
<1>2. PICK k \in Kept(o) : store' = k \cup {o}
  BY DEF Upsert
<1>3. k \subseteq store /\ \A q \in k : q.route # o.route
  BY <1>2 DEF Kept
<1>4. store \subseteq Profile /\ OneEach(store)
  BY DEF BindingInv
<1>5. r = o.route
  <2> SUFFICES ASSUME r # o.route PROVE FALSE
    OBVIOUS
  <2>1. \A q \in store' : q.route = r => q \in store
    BY <1>2, <1>3
  <2> QED BY <1>4, <2>1, Loses
<1>6. known \subseteq Profile /\ OneEach(known)
  BY <1>1 DEF JobOK, VersionOK, Versions, OneEach
<1>7. Find(store, r) = Find(known, r)
  <2>1. Find(store, o.route) = job[s].msg.target
    BY DEF Upsert, Current
  <2>2. job[s].msg.target = IF job[s].ver = None THEN None ELSE Find(job[s].ver.targets, o.route)
    BY <1>1 DEF JobOK
  <2>3. Find({}, r) = None
    BY DEF Find
  <2> QED BY <1>5, <2>1, <2>2, <2>3
<1>8. Stops(known, r) = Stops(store, r)
  <2> HIDE DEF known
  <2> QED BY <1>4, <1>6, <1>7, StopsOf
<1> QED BY <1>1, <1>2, <1>8 DEF Reads

LEMMA OthersKeepStore ==
  ASSUME Next, \A s \in Slot : ~Upsert(s), ~RemoveBinding
  PROVE  UNCHANGED store
<1>1. ASSUME NEW p \in Page, Prompt(p) \/ StartHeal(p) \/ StartJob(p) \/ StartStop(p)
      PROVE  UNCHANGED store
  BY <1>1 DEF Prompt, Ask, Match, Gate, Deliver, Withhold, Bind, Fail, Submit, BindingInvalid, LearnStop, Capture,
              Finalize, CountSuccess, Answered, AnswerRefused, StartHeal, StartJob, StartStop, Start
<1>2. ASSUME NEW s \in Slot, SaveRefused(s) \/ StartHealing(s) \/ Heal(s) \/ ValidateHealed(s) \/ HealingFails(s)
      PROVE  UNCHANGED store
  BY <1>2 DEF SaveRefused, StartHealing, Heal, ValidateHealed, HealingFails
<1>3. ASSUME SideOver \/ Load \/ Status \/ Validate \/ StopDisowned \/ FindStop \/ PressStop
               \/ NothingToStop \/ SelectedAnswer \/ Cancelled \/ Pick
      PROVE  UNCHANGED store
  BY <1>3 DEF SideOver, Load, Status, Validate, StopDisowned, FindStop, PressStop, NothingToStop,
              SelectedAnswer, Cancelled, Pick
<1>4. ASSUME Popup PROVE UNCHANGED store
  BY <1>4 DEF Popup, AskPerson, StartManagement, RefuseManagement, RevokeAccess, Revoked, ManagementOver
<1>5. ASSUME Site PROVE UNCHANGED store
  BY <1>5 DEF Site, ShowStop, EndGeneration, NavigationUnpermitted, Register, Move, TakeAccess, Restart
<1> QED BY <1>1, <1>2, <1>3, <1>4, <1>5 DEF Next

LEMMA ReadStep ==
  ASSUME BindingInv, [Next]_vars, NEW r \in Route, Stops(store', r) \notin {{}, Stops(store, r)}
  PROVE  \E s \in Slot : Reads(s, r)
<1>1. CASE \E s \in Slot : Upsert(s)
  BY <1>1, UpsertReads
<1>2. CASE RemoveBinding
  <2>1. store' \subseteq store
    BY <1>2 DEF RemoveBinding
  <2> QED BY <2>1, Loses DEF BindingInv
<1>3. CASE UNCHANGED store
  BY <1>3
<1> QED BY <1>1, <1>2, <1>3, OthersKeepStore DEF vars

(* A write replaces, creates or brings back a control only if its writer had    *)
(* read what the route held: bookkeeping written after a wait never puts back a *)
(* control that somebody has chosen again or a binding that was removed         *)
(* (upsertProfile's versions, bindingProfile.ts profileVersions).               *)
THEOREM WritersAlwaysRead == Spec => WritersHaveRead
<1>1. BindingInv /\ [Next]_vars => [\A r \in Route :
          Stops(store', r) \notin {{}, Stops(store, r)} =>
             \E s \in Slot :
                /\ job[s].at = "saving" /\ job[s].msg.profile \in store'
                /\ Stops(IF job[s].ver = None THEN {} ELSE job[s].ver.targets, r) = Stops(store, r)]_vars
  BY ReadStep DEF Reads
<1> QED BY <1>1, BindingInit, BindingStep, PTL DEF Spec, WritersHaveRead
=============================================================================
