----------------------------- MODULE TabsProofs -----------------------------
(***************************************************************************)
(* Proofs about module Tabs: types, the order of navigations, and that     *)
(* whatever names a page that is gone is about to be ended.  That is the   *)
(* inductive part: for each binding, registration, request and selection   *)
(* it says which event of the browser, which drop or which publication is  *)
(* still to come when its page is no longer there.                         *)
(* On top of it: that the status the controller has settles, and that a    *)
(* page in use gets our script again.                                      *)
(***************************************************************************)
EXTENDS Tabs, TLAPS

(* Navigations. *)

\* What the tracker knows of a tab is newer than what was acted on and older than the counter.
SeqInv ==
    \A t \in Tab : /\ applied[t] <= accepted
                   /\ Known(t) => applied[t] <= tracker[t].seq /\ tracker[t].seq <= accepted

(* Pages. *)

Commit(i) == nav[i].kind = "committed" /\ nav[i].doc # 0

\* Commit events come once for a document and in order.
CommitInv ==
    /\ \A i \in DOMAIN nav : nav[i].doc <= page[nav[i].tab].doc
    /\ \A i \in DOMAIN nav : Commit(i) /\ Known(nav[i].tab) => tracker[nav[i].tab].doc < nav[i].doc
    /\ \A i, j \in DOMAIN nav : i < j /\ Commit(j) /\ nav[i].tab = nav[j].tab => nav[i].doc < nav[j].doc
    /\ \A t \in Tab : Known(t) => tracker[t].doc <= page[t].doc

ScriptInv ==
    \A t \in Tab : page[t].script => Exists(t) /\ (t \in ProviderTab => Provider(t))

\* The browser has yet to say that the tab is gone.
Leaving(t) == \E i \in DOMAIN upd : upd[i].kind \in {"removed", "replaced"} /\ upd[i].tab = t

\* ... that it has a document of another number, at a conversation.
Arriving(t) == \E i \in DOMAIN nav : Commit(i) /\ nav[i].tab = t /\ nav[i].doc = page[t].doc /\ nav[i].at \in Chat

\* ... that it has another address.
Moving(t) == \E i \in DOMAIN upd : upd[i].kind = "url" /\ upd[i].tab = t /\ upd[i].at = page[t].at

Kept(t) == Provider(t) /\ bound[t].doc = page[t].doc

\* A binding whose page is gone is about to end.
BoundAt(t) ==
    bound[t] # None =>
        \/ Kept(t) \/ <<t, bound[t]>> \in late \/ <<t, "tab">> \in drops \/ Leaving(t)
        \/ (Provider(t) /\ Arriving(t))
        \/ (page[t].at = Away /\ Moving(t))

BoundInv == \A t \in ProviderTab : BoundAt(t)

\* So is a registration whose page has left its origin.
RegAt(t) ==
    reg[t] # None =>
        page[t].at = reg[t].at \/ <<t, "origin">> \in drops \/ Leaving(t) \/ (Exists(t) /\ Moving(t))

RegInv == \A t \in GenericTab : RegAt(t)

\* A tab that was not opened yet.
UnbornInv ==
    \A t \in Tab : page[t].doc = 0 => ~Exists(t) /\ (t \in ProviderTab => bound[t] = None)

\* A page that waits to be bound was at a conversation.
RebindInv ==
    \A r \in rebinds :
        LET t == r[1] IN
        page[t].doc # 0 /\ r[2].doc <= page[t].doc /\ (Exists(t) /\ r[2].doc = page[t].doc => Provider(t))

TurnInv == \A t \in Tab : turn[t] # None => Exists(t) \/ Leaving(t)

Republishing ==
    asked \/ (pub # None /\ pub.step = "status") \/ (popup # None /\ popup.step = "publish")

SelInv == sel # None => Exists(sel.tab) \/ Leaving(sel.tab) \/ Republishing

Inv == TypeOK /\ SeqInv /\ CommitInv /\ ScriptInv /\ BoundInv /\ RegInv /\ UnbornInv /\ RebindInv /\ TurnInv /\ SelInv
-----------------------------------------------------------------------------
(* Types, in the groups the actions leave alone. *)

Page   == [doc : Nat, at : Place \cup {None}, script : BOOLEAN]
Nav    == [kind : {"committed", "history"}, tab : Tab, doc : Nat, at : Place]
Upd    == [kind : {"url"}, tab : Tab, doc : Nat, at : Place]
          \cup [kind : {"complete", "removed"}, tab : Tab, doc : Nat, at : {None}]
          \cup [kind : {"replaced"}, tab : ProviderTab, doc : Nat, at : ProviderTab]
Mark   == [doc : Nat, at : Place, seq : Nat]
Check  == [tab : Tab, at : Place, doc : Nat, seq : Nat]
Turn   == [doc : Nat, at : Place, initial : BOOLEAN]
Count  == [moves : Nat, others : Nat, clicks : Nat, turns : Nat]

BrowserOK == page \in [Tab -> Page] /\ permitted \subseteq Site /\ nav \in Seq(Nav) /\ upd \in Seq(Upd)
TrackedOK ==
    /\ tracker \in [Tab -> Mark \cup {None}] /\ accepted \in Nat /\ checks \subseteq Check
    /\ applied \in [Tab -> Nat] /\ overlapped \subseteq Tab /\ late \subseteq ProviderTab \X Binding
DocsOK ==
    /\ bound \in [Tab -> Binding \cup {None}] /\ reg \in [GenericTab -> Binding \cup {None}]
    /\ handled \subseteq Tab /\ released \subseteq Tab /\ turn \in [Tab -> Turn \cup {None}]
JobsOK ==
    /\ drops \subseteq Tab \X {"tab", "origin"} /\ probes \subseteq Tab \X {"get", "ensure"}
    /\ rebinds \subseteq ProviderTab \X Binding
    /\ ensure \in [Tab -> {"none", "load", "probe", "ask", "inject", "wait"}]
StatusOK ==
    /\ asked \in BOOLEAN /\ pub \in Publication \cup {None}
    /\ sent \in [sessions : SUBSET Picked, selected : Picked \cup {None}]
ChosenOK == sel \in Picked \cup {None} /\ popup \in Mutation \cup {None}
Parts == BrowserOK /\ TrackedOK /\ DocsOK /\ JobsOK /\ StatusOK /\ ChosenOK /\ used \in Count

\* The type invariant is its groups.
LEMMA TypeParts == (TypeOK <=> Parts) /\ (TypeOK' <=> Parts')
BY DEF TypeOK, Parts, BrowserOK, TrackedOK, DocsOK, JobsOK, StatusOK, ChosenOK, Page, Nav, Upd, Mark, Check, Turn, Count

LEMMA Constants ==
    /\ ProviderTab \cap GenericTab = {} /\ Chat \cap Site = {} /\ Start \in Chat /\ HomeSite \in Site
    /\ Away \notin Chat \cup Site /\ None \notin Place /\ None \notin Tab /\ Opened \subseteq Tab
    /\ None \notin Publication /\ None \notin Mutation /\ None \notin [doc : Nat, at : Place \cup {None}]
BY TabsAssumption, NoneAssumption DEF Place, Tab

\* A budget that is used is counted.
LEMMA UsesTyped ==
  ASSUME used \in Count, NEW S, Uses(S)
  PROVE  used' \in Count
<1>1. DOMAIN used = {"moves", "others", "clicks", "turns"}
  BY DEF Count
<1>2. \A w \in {"moves", "others", "clicks", "turns"} : used[w] \in Nat
  BY DEF Count
<1>3. \A w \in {"moves", "others", "clicks", "turns"} : used'[w] \in Nat
  BY <1>1, <1>2 DEF Uses
<1>4. used' = [moves |-> used'["moves"], others |-> used'["others"], clicks |-> used'["clicks"], turns |-> used'["turns"]]
  BY <1>1 DEF Uses
<1> QED  BY <1>3, <1>4 DEF Count

-----------------------------------------------------------------------------
(* The change of a tab: what it may do to any tab and what it does to its own. *)

TabChangeDoes(t, p, d) ==
    /\ UNCHANGED <<reg, released>>
    /\ handled' \subseteq handled /\ drops \subseteq drops' /\ (asked => asked') /\ asked' \in BOOLEAN
    /\ drops' \subseteq Tab \X {"tab", "origin"} /\ probes' \subseteq Tab \X {"get", "ensure"}
    /\ sel' = sel
    /\ bound' \in [Tab -> Binding \cup {None}] /\ \A u \in Tab : bound'[u] \in {bound[u], None}
    /\ turn' \in [Tab -> Turn \cup {None}] /\ \A u \in Tab : turn'[u] \in {turn[u], None}
    /\ t \in ProviderTab /\ p \notin Chat \cup {None} => <<t, "tab">> \in drops'
    /\ t \in ProviderTab /\ p \in Chat /\ d # 0 /\ bound[t] # None /\ bound[t].doc # d => bound'[t] = None
    /\ IsGeneric(t) /\ p \notin {None, reg[t].at} => <<t, "origin">> \in drops'

LEMMA Changes ==
  ASSUME Parts, NEW t \in Tab, NEW p \in Place \cup {None}, NEW d \in Nat, TabChange(t, p, d)
  PROVE  TabChangeDoes(t, p, d)
<1>0. /\ \A u \in Tab : bound[u] \in Binding \cup {None} /\ turn[u] \in Turn \cup {None}
      /\ asked \in BOOLEAN /\ drops \subseteq Tab \X {"tab", "origin"} /\ probes \subseteq Tab \X {"get", "ensure"}
      /\ bound \in [Tab -> Binding \cup {None}] /\ turn \in [Tab -> Turn \cup {None}]
  BY DEF Parts, DocsOK, JobsOK, StatusOK
<1>1. CASE IsGeneric(t)
  <2>1. GenericChange(t, p)
    BY <1>1 DEF TabChange
  <2>2. t \in GenericTab /\ t \notin ProviderTab
    BY <1>1, Constants DEF IsGeneric
  <2>3. /\ UNCHANGED <<bound, reg, handled, released, turn, sel, probes>>
        /\ (drops' = drops \/ drops' = drops \cup {<<t, "origin">>}) /\ (asked' = asked \/ asked' = TRUE)
        /\ p \notin {None, reg[t].at} => <<t, "origin">> \in drops'
    BY <2>1 DEF GenericChange, Refresh
  <2>4. drops \subseteq drops' /\ drops' \subseteq Tab \X {"tab", "origin"}
    BY <2>3, <1>0
  <2>5. (asked => asked') /\ asked' \in BOOLEAN
    BY <2>3, <1>0, Zenon
  <2> QED  BY <2>2, <2>3, <2>4, <2>5, <1>0 DEF TabChangeDoes
<1>2. CASE ~IsGeneric(t) /\ p = None
  <2>1. Completed(t)
    BY <1>2 DEF TabChange
  <2>2. /\ UNCHANGED <<bound, reg, handled, released, turn, sel, drops>>
        /\ (probes' = probes \/ probes' = probes \cup {<<t, "get">>}) /\ (asked' = asked \/ asked' = TRUE)
    BY <2>1 DEF Completed, Refresh, docs
  <2>3. probes' \subseteq Tab \X {"get", "ensure"}
    BY <2>2, <1>0
  <2>5. (asked => asked') /\ asked' \in BOOLEAN
    BY <2>2, <1>0, Zenon
  <2> QED  BY <2>2, <2>3, <2>5, <1>0, <1>2, Constants DEF Place, TabChangeDoes
<1>3. CASE ~IsGeneric(t) /\ p # None
  <2>1. UrlChange(t, p, d)
    BY <1>3 DEF TabChange
  <2>2. UNCHANGED <<reg, released, probes>>
    BY <2>1 DEF UrlChange
  <2>3. CASE p \in Chat /\ bound[t] # None /\ d # 0 /\ bound[t].doc # d
    <3>1. DropDocument(t) /\ asked' /\ drops' = drops
      BY <2>1, <2>3 DEF UrlChange, Refresh
    <3>2. bound' \in [Tab -> Binding \cup {None}] /\ bound'[t] = None /\ \A u \in Tab : bound'[u] \in {bound[u], None}
      BY <3>1, <1>0 DEF DropDocument
    <3>3. turn' \in [Tab -> Turn \cup {None}] /\ \A u \in Tab : turn'[u] \in {turn[u], None}
      BY <3>1, <1>0 DEF DropDocument, FailRequests
    <3>4. handled' = handled /\ sel' = sel /\ asked' \in BOOLEAN
      BY <3>1, <2>1, <2>3 DEF DropDocument, UrlChange, Refresh
    <3> QED  BY <1>3, <2>2, <2>3, <3>1, <3>2, <3>3, <3>4, <1>0 DEF TabChangeDoes
  <2>4. CASE ~(p \in Chat /\ bound[t] # None /\ d # 0 /\ bound[t].doc # d)
    <3>1. /\ UNCHANGED <<bound, handled, turn, sel>>
          /\ (drops' = drops \/ drops' = drops \cup {<<t, "tab">>}) /\ (asked' = asked \/ asked' = TRUE)
          /\ p \notin Chat => <<t, "tab">> \in drops'
      BY <2>1, <2>4 DEF UrlChange, Refresh
    <3>2. drops \subseteq drops' /\ drops' \subseteq Tab \X {"tab", "origin"}
      BY <3>1, <1>0
    <3>5. (asked => asked') /\ asked' \in BOOLEAN
      BY <3>1, <1>0, Zenon
    <3> QED  BY <1>3, <2>2, <2>4, <3>1, <3>2, <3>5, <1>0 DEF TabChangeDoes
  <2> QED  BY <2>3, <2>4
<1> QED  BY <1>1, <1>2, <1>3

-----------------------------------------------------------------------------
(* Type correctness. *)

\* A group that is left alone keeps its types.
LEMMA GroupsKept ==
  ASSUME Parts
  PROVE  /\ UNCHANGED browser => BrowserOK'
         /\ UNCHANGED tracked => TrackedOK'
         /\ UNCHANGED docs => DocsOK'
         /\ UNCHANGED jobs => JobsOK'
         /\ UNCHANGED status => StatusOK'
         /\ UNCHANGED chosen => ChosenOK'
         /\ UNCHANGED used => used' \in Count
BY DEF Parts, BrowserOK, TrackedOK, DocsOK, JobsOK, StatusOK, ChosenOK, browser, tracked, docs, jobs, status, chosen

LEMMA Refreshed ==
  ASSUME Parts, Refresh, UNCHANGED <<pub, sent>>
  PROVE  StatusOK'
BY DEF Parts, StatusOK, Refresh

LEMMA Deselected ==
  ASSUME Parts, NEW t, sel' = Deselect(t), UNCHANGED popup
  PROVE  ChosenOK'
BY DEF Parts, ChosenOK, Deselect

LEMMA LoadsTyped ==
  ASSUME Parts, NEW t \in Tab, NEW p \in Places(t), Loads(t, p)
  PROVE  Parts'
<1>1. p \in Place /\ page[t] \in Page /\ page[t].doc \in Nat
  BY DEF Parts, BrowserOK, Places, Place, Page
<1>2. page' \in [Tab -> Page] /\ permitted' \subseteq Site
  BY <1>1 DEF Parts, BrowserOK, Loads, Page
<1>3. nav' \in Seq(Nav)
  <2>1. Committed(t, page[t].doc + 1, p) \in Nav
    BY <1>1 DEF Committed, Nav
  <2> QED  BY <2>1 DEF Parts, BrowserOK, Loads
<1>4. upd' \in Seq(Upd)
  <2>1. Updated(t, p) \in Upd /\ Complete(t) \in Upd
    BY <1>1 DEF Updated, Complete, Upd
  <2> DEFINE more == IF p = page[t].at THEN <<>> ELSE <<Updated(t, p)>>
  <2>2. more \in Seq(Upd) /\ <<Complete(t)>> \in Seq(Upd) /\ upd \in Seq(Upd)
    BY <2>1 DEF Parts, BrowserOK
  <2>3. upd' = upd \o more \o <<Complete(t)>>
    BY DEF Loads
  <2> HIDE DEF more
  <2> QED  BY <2>2, <2>3
<1>5. TrackedOK'
  BY DEF Parts, TrackedOK, Loads
<1>6. used' \in Count
  BY UsesTyped DEF Parts, Loads, Moved
<1> QED  BY <1>2, <1>3, <1>4, <1>5, <1>6, GroupsKept DEF Loads, Parts, BrowserOK

LEMMA RoutesTyped ==
  ASSUME Parts, NEW t \in Tab, NEW p \in Places(t), Routes(t, p)
  PROVE  Parts'
<1>1. p \in Place /\ page[t] \in Page
  BY DEF Parts, BrowserOK, Places, Place
<1>2. page' \in [Tab -> Page] /\ permitted' \subseteq Site
  BY <1>1 DEF Parts, BrowserOK, Routes, Page
<1>3. Routed(t, page[t].doc, p) \in Nav /\ Updated(t, p) \in Upd
  BY <1>1 DEF Routed, Nav, Updated, Upd, Page
<1>4. nav' \in Seq(Nav) /\ upd' \in Seq(Upd)
  BY <1>3 DEF Parts, BrowserOK, Routes
<1>5. used' \in Count
  BY UsesTyped DEF Parts, Routes, Moved
<1> QED  BY <1>2, <1>4, <1>5, GroupsKept DEF Routes, Parts, BrowserOK

LEMMA ClosesTyped ==
  ASSUME Parts, NEW t \in Tab, Closes(t)
  PROVE  Parts'
<1>1. page' \in [Tab -> Page] /\ permitted' \subseteq Site /\ nav' \in Seq(Nav)
  BY DEF Parts, BrowserOK, Closes, Page
<1>2. [kind |-> "removed", tab |-> t, doc |-> 0, at |-> None] \in Upd
  BY DEF Upd
<1>3. upd' \in Seq(Upd)
  BY <1>2 DEF Parts, BrowserOK, Closes
<1>4. used' \in Count
  BY UsesTyped DEF Parts, Closes, Moved
<1> QED  BY <1>1, <1>3, <1>4, GroupsKept DEF Closes, Parts, BrowserOK

LEMMA ReplacesTyped ==
  ASSUME Parts, NEW t \in Tab, NEW u \in Tab, Replaces(t, u)
  PROVE  Parts'
<1>1. page' \in [Tab -> Page] /\ permitted' \subseteq Site /\ nav' \in Seq(Nav)
  BY DEF Parts, BrowserOK, Replaces, Page
<1>2. [kind |-> "replaced", tab |-> t, doc |-> 0, at |-> u] \in Upd
  BY DEF Upd, Replaces
<1>3. upd' \in Seq(Upd)
  BY <1>2 DEF Parts, BrowserOK, Replaces
<1>4. used' \in Count
  BY UsesTyped DEF Parts, Replaces, Moved
<1> QED  BY <1>1, <1>3, <1>4, GroupsKept DEF Replaces, Parts, BrowserOK

LEMMA RevokesTyped ==
  ASSUME Parts, NEW s \in Site, Revokes(s)
  PROVE  Parts'
<1>1. BrowserOK'
  BY DEF Parts, BrowserOK, Revokes
<1>2. used' \in Count
  BY UsesTyped DEF Parts, Revokes, Moved
<1> QED  BY <1>1, <1>2, GroupsKept DEF Revokes, Parts

-----------------------------------------------------------------------------
(* A publication. *)

\* What a build of the sessions asks and who answers are tabs with their documents.
LEMMA CandidatesTyped ==
  ASSUME Parts
  PROVE  Candidates \subseteq Bound
<1>1. \A t \in ProviderTab : bound[t] # None => bound[t] \in Binding
  BY DEF Parts, DocsOK, Tab
<1>2. \A t \in GenericTab : reg[t] # None => reg[t] \in Binding
  BY DEF Parts, DocsOK
<1> QED  BY <1>1, <1>2 DEF Candidates, Bound, Tab

LEMMA AnsweringTyped ==
  ASSUME NEW c \in SUBSET Bound
  PROVE  Answering(c) \subseteq Picked
<1>1. \A x \in c : Session(x.tab, x.on) \in Picked
  BY DEF Bound, Binding, Session, Picked
<1> QED  BY <1>1 DEF Answering

\* What the injection of a website's script does to the pages.
LEMMA InjectedDoes ==
  ASSUME Parts, NEW c
  PROVE  /\ Injected(c) \in [Tab -> Page]
         /\ \A t \in Tab : /\ Injected(c)[t].doc = page[t].doc /\ Injected(c)[t].at = page[t].at
                           /\ Injected(c)[t].script => page[t].script \/ (t \in GenericTab /\ page[t].at \in Site)
<1>1. \A t \in Tab : page[t] \in Page
  BY DEF Parts, BrowserOK
<1>2. \A t \in Tab : Injected(c)[t] \in {page[t], [page[t] EXCEPT !.script = TRUE]}
  BY DEF Injected
<1>3. \A t \in Tab : Injected(c)[t] # page[t] => t \in GenericTab /\ page[t].at \in Site
  BY DEF Injected, Parts, BrowserOK
<1>4. \A t \in Tab : Injected(c)[t] \in Page /\ Injected(c)[t].doc = page[t].doc /\ Injected(c)[t].at = page[t].at
  BY <1>1, <1>2 DEF Page
<1>5. Injected(c) \in [Tab -> Page]
  BY <1>4 DEF Injected
<1> QED  BY <1>3, <1>4, <1>5

LEMMA PubBeginTyped ==
  ASSUME Parts, PubBegin
  PROVE  Parts'
<1>1. pub' \in Publication /\ asked' \in BOOLEAN
  BY CandidatesTyped DEF PubBegin, Publication
<1>2. StatusOK'
  BY <1>1 DEF Parts, StatusOK, PubBegin
<1> QED  BY <1>2, GroupsKept DEF PubBegin, Parts

LEMMA PubAnsweredTyped ==
  ASSUME Parts, PubAnswered
  PROVE  Parts'
<1>1. BrowserOK'
  BY InjectedDoes DEF Parts, BrowserOK, PubAnswered, PubStatuses
<1>2. pub \in Publication /\ pub.step = "status"
  BY DEF PubAnswered, PubStatuses, Parts, StatusOK
<1>3. pub.of \subseteq Bound /\ DOMAIN pub = {"step", "of"}
  BY <1>2 DEF Publication
<1> DEFINE S == Answering(pub.of)
<1>4. S \subseteq Picked
  BY <1>3, AnsweringTyped
<1>5. [pub EXCEPT !.step = "release", !.of = S] \in Publication
  <2>1. pub \in [step : {"status"}, of : SUBSET Bound]
    BY <1>2 DEF Publication
  <2> HIDE DEF S
  <2>2. [pub EXCEPT !.step = "release", !.of = S] \in [step : {"release"}, of : SUBSET Picked]
    BY <2>1, <1>4
  <2> QED  BY <2>2 DEF Publication
<1>6. sel \in Picked \cup {None} /\ sent \in [sessions : SUBSET Picked, selected : Picked \cup {None}]
  BY DEF Parts, ChosenOK, StatusOK
<1>7. \/ pub' = None /\ UNCHANGED <<sel, sent>>
      \/ sel' = None /\ pub' = [pub EXCEPT !.step = "release", !.of = S] /\ UNCHANGED sent
      \/ Publish(S) /\ UNCHANGED sel
  BY DEF PubAnswered, PubStatuses
<1> HIDE DEF S
<1>8. sel' \in Picked \cup {None} /\ pub' \in Publication \cup {None}
  BY <1>5, <1>6, <1>7 DEF Publish
<1>9. sent' \in [sessions : SUBSET Picked, selected : Picked \cup {None}]
  BY <1>4, <1>6, <1>7 DEF Publish
<1>10. StatusOK' /\ ChosenOK'
  BY <1>8, <1>9 DEF PubAnswered, Parts, StatusOK, ChosenOK
<1> QED  BY <1>1, <1>10, GroupsKept DEF PubAnswered, Parts

LEMMA PubReleasedTyped ==
  ASSUME Parts, PubReleased
  PROVE  Parts'
<1>1. pub.of \subseteq Picked
  BY DEF PubReleased, Parts, StatusOK, Publication
<1>2. StatusOK'
  BY <1>1 DEF Parts, StatusOK, PubReleased
<1> QED  BY <1>2, GroupsKept DEF PubReleased, Parts

-----------------------------------------------------------------------------
(* The browser's events. *)

\* What the change of a tab leaves to its caller.
LEMMA ChangeTyped ==
  ASSUME Parts, NEW t \in Tab, NEW p \in Place \cup {None}, NEW d \in Nat, TabChange(t, p, d),
         UNCHANGED <<rebinds, ensure, pub, sent, popup>>
  PROVE  DocsOK' /\ JobsOK' /\ StatusOK' /\ ChosenOK'
<1>1. TabChangeDoes(t, p, d)
  BY Changes
<1>2. DocsOK'
  BY <1>1 DEF TabChangeDoes, Parts, DocsOK
<1>3. JobsOK'
  BY <1>1 DEF TabChangeDoes, Parts, JobsOK
<1>4. StatusOK'
  BY <1>1 DEF TabChangeDoes, Parts, StatusOK
<1>5. ChosenOK'
  BY <1>1 DEF TabChangeDoes, Parts, ChosenOK
<1> QED  BY <1>2, <1>3, <1>4, <1>5

LEMMA HeadOfNav ==
  ASSUME Parts, nav # <<>>
  PROVE  Head(nav) \in Nav /\ Tail(nav) \in Seq(Nav)
BY DEF Parts, BrowserOK

LEMMA HeadOfUpd ==
  ASSUME Parts, upd # <<>>
  PROVE  Head(upd) \in Upd /\ Tail(upd) \in Seq(Upd) /\ Head(upd).tab \in Tab
<1>1. Head(upd) \in Upd /\ Tail(upd) \in Seq(Upd)
  BY DEF Parts, BrowserOK
<1> QED  BY <1>1 DEF Upd, Tab

LEMMA NavEventTyped ==
  ASSUME Parts, NavEvent
  PROVE  Parts'
<1> DEFINE e == Head(nav)
<1>1. e \in Nav /\ Tail(nav) \in Seq(Nav)
  BY HeadOfNav DEF NavEvent
<1>2. BrowserOK' /\ used' \in Count
  BY <1>1 DEF NavEvent, Parts, BrowserOK
<1>3. Navigated(e) /\ UNCHANGED <<overlapped, late, rebinds, ensure, pub, sent, popup>>
  BY DEF NavEvent
<1> HIDE DEF e
<1>4. e.tab \in Tab /\ e.at \in Place /\ NewDoc(e) \in Nat /\ e.doc \in Nat /\ accepted + 1 \in Nat
  BY <1>1 DEF Nav, NewDoc, Parts, TrackedOK
<1>5. CASE ~Accepts(e)
  <2>1. UNCHANGED <<tracker, accepted, checks, applied, docs, sel, drops, probes, asked>>
    BY <1>3, <1>5 DEF Navigated
  <2> QED  BY <1>2, <1>3, <2>1, GroupsKept DEF Parts, tracked, jobs, status, chosen
<1>6. CASE Accepts(e)
  <2>1. Track(e)
    BY <1>3, <1>6 DEF Navigated
  <2>2. tracker' \in [Tab -> Mark \cup {None}] /\ accepted' \in Nat
    <3>1. [doc |-> e.doc, at |-> e.at, seq |-> accepted + 1] \in Mark
      BY <1>4 DEF Mark
    <3> QED  BY <2>1, <3>1, <1>4 DEF Track, Parts, TrackedOK
  <2>3. CASE e.at \in Site
    <3>1. /\ checks' = checks \cup {[tab |-> e.tab, at |-> e.at, doc |-> NewDoc(e), seq |-> accepted + 1]}
          /\ UNCHANGED <<docs, sel, drops, probes, asked, applied>>
      BY <1>3, <1>6, <2>3 DEF Navigated
    <3>2. checks' \subseteq Check
      BY <3>1, <1>4 DEF Check, Parts, TrackedOK
    <3>3. TrackedOK'
      BY <2>2, <3>1, <3>2, <1>3 DEF Parts, TrackedOK
    <3> QED  BY <1>2, <1>3, <3>1, <3>3, GroupsKept DEF Parts, jobs, status, chosen
  <2>4. CASE e.at \notin Site
    <3>1. TabChange(e.tab, e.at, NewDoc(e)) /\ applied' = [applied EXCEPT ![e.tab] = accepted + 1] /\ UNCHANGED checks
      BY <1>3, <1>6, <2>4 DEF Navigated
    <3>2. DocsOK' /\ JobsOK' /\ StatusOK' /\ ChosenOK'
      BY <3>1, <1>3, <1>4, ChangeTyped
    <3>3. TrackedOK'
      BY <2>2, <3>1, <1>3, <1>4 DEF Parts, TrackedOK
    <3> QED  BY <1>2, <3>2, <3>3 DEF Parts
  <2> QED  BY <2>3, <2>4
<1> QED  BY <1>5, <1>6

LEMMA PermittedTyped ==
  ASSUME Parts, NEW c \in checks, Permitted(c)
  PROVE  Parts'
<1>1. c \in Check
  BY DEF Parts, TrackedOK
<1>2. c.tab \in Tab /\ c.at \in Place /\ c.doc \in Nat /\ c.seq \in Nat
  BY <1>1 DEF Check
<1>3. BrowserOK' /\ used' \in Count /\ checks' \subseteq Check
  BY GroupsKept DEF Permitted, Parts, TrackedOK
<1>4. UNCHANGED <<accepted, overlapped, late, rebinds, ensure, pub, sent, popup>>
  BY DEF Permitted
<1>5. CASE ~StillCurrent(c)
  <2>1. UNCHANGED <<tracker, applied, docs, sel, drops, probes, asked>>
    BY <1>5 DEF Permitted
  <2>2. TrackedOK'
    BY <2>1, <1>3, <1>4 DEF Parts, TrackedOK
  <2> QED  BY <2>1, <2>2, <1>3, <1>4, GroupsKept DEF Parts, jobs, status, chosen
<1>6. CASE StillCurrent(c) /\ c.at \in permitted
  <2>1. applied' = [applied EXCEPT ![c.tab] = c.seq] /\ TabChange(c.tab, c.at, c.doc) /\ UNCHANGED tracker
    BY <1>6 DEF Permitted
  <2>2. TrackedOK'
    BY <2>1, <1>2, <1>3, <1>4 DEF Parts, TrackedOK
  <2> QED  BY <2>1, <2>2, <1>2, <1>3, <1>4, ChangeTyped DEF Parts
<1>7. CASE StillCurrent(c) /\ c.at \notin permitted
  <2>1. /\ applied' = [applied EXCEPT ![c.tab] = c.seq] /\ tracker' = [tracker EXCEPT ![c.tab] = None]
        /\ reg' = [reg EXCEPT ![c.tab] = None]
        /\ FailRequests(c.tab) /\ sel' = Deselect(c.tab) /\ Refresh /\ UNCHANGED <<bound, handled, released, drops, probes>>
    BY <1>7 DEF Permitted
  <2>2. TrackedOK'
    BY <2>1, <1>2, <1>3, <1>4 DEF Parts, TrackedOK
  <2>3. DocsOK'
    BY <2>1 DEF Parts, DocsOK, FailRequests
  <2> QED  BY <2>1, <2>2, <2>3, <1>3, <1>4, GroupsKept, Refreshed, Deselected DEF Parts, jobs
<1> QED  BY <1>5, <1>6, <1>7

LEMMA UpdEventTyped ==
  ASSUME Parts, UpdEvent
  PROVE  Parts'
<1> DEFINE e == Head(upd)
<1>1. e \in Upd /\ Tail(upd) \in Seq(Upd) /\ e.tab \in Tab
  BY HeadOfUpd DEF UpdEvent
<1>2. e.at \in Place \cup {None}
  BY <1>1 DEF UpdEvent, Upd
<1>3. BrowserOK' /\ used' \in Count
  BY <1>1 DEF UpdEvent, Parts, BrowserOK
<1>4. TrackedOK'
  BY GroupsKept DEF UpdEvent
<1>5. TabChange(e.tab, e.at, 0) /\ UNCHANGED <<rebinds, ensure, pub, sent, popup>>
  BY DEF UpdEvent
<1> HIDE DEF e
<1> QED  BY <1>1, <1>2, <1>3, <1>4, <1>5, ChangeTyped DEF Parts

LEMMA GoneTyped ==
  ASSUME Parts, NEW t \in Tab, Gone(t), UNCHANGED popup
  PROVE  /\ bound' \in [Tab -> Binding \cup {None}] /\ handled' \subseteq Tab /\ turn' \in [Tab -> Turn \cup {None}]
         /\ ChosenOK'
<1>1. bound' \in [Tab -> Binding \cup {None}] /\ handled' \subseteq Tab
  BY DEF Parts, DocsOK, Gone
<1>2. turn' \in [Tab -> Turn \cup {None}]
  BY DEF Parts, DocsOK, Gone, FailRequests
<1> QED  BY <1>1, <1>2, Deselected DEF Gone

LEMMA RemEventTyped ==
  ASSUME Parts, RemEvent
  PROVE  Parts'
<1> DEFINE t == Head(upd).tab
<1>1. t \in Tab /\ Tail(upd) \in Seq(Upd)
  BY HeadOfUpd DEF RemEvent
<1>2. BrowserOK' /\ used' \in Count
  BY <1>1 DEF RemEvent, Parts, BrowserOK
<1>3. /\ Gone(t) /\ tracker' = [tracker EXCEPT ![t] = None] /\ released' = released \ {t}
      /\ reg' = [r \in GenericTab |-> IF r = t THEN None ELSE reg[r]]
      /\ Refresh /\ UNCHANGED <<accepted, checks, applied, overlapped, late, jobs, pub, sent, popup>>
  BY DEF RemEvent
<1> HIDE DEF t
<1>4. TrackedOK'
  BY <1>3 DEF Parts, TrackedOK
<1>5. reg' \in [GenericTab -> Binding \cup {None}] /\ released' \subseteq Tab
  BY <1>3 DEF Parts, DocsOK
<1>6. DocsOK' /\ ChosenOK'
  BY <1>1, <1>3, <1>5, GoneTyped DEF DocsOK
<1> QED  BY <1>2, <1>3, <1>4, <1>6, GroupsKept, Refreshed DEF Parts

LEMMA ReplEventTyped ==
  ASSUME Parts, ReplEvent
  PROVE  Parts'
<1> DEFINE t == Head(upd).tab
           u == Head(upd).at
<1>1. t \in Tab /\ Tail(upd) \in Seq(Upd) /\ Head(upd) \in Upd
  BY HeadOfUpd DEF ReplEvent
<1>2. u \in Tab
  BY <1>1 DEF ReplEvent, Upd, Tab
<1>3. /\ Gone(t) /\ tracker' = [tracker EXCEPT ![t] = None, ![u] = None]
      /\ nav' = (IF Exists(u) THEN <<Committed(u, 0, page[u].at)>> \o nav ELSE nav) /\ upd' = Tail(upd)
      /\ Refresh /\ UNCHANGED <<page, permitted, accepted, checks, applied, overlapped, late, reg, released, jobs, pub, sent, popup, used>>
  BY DEF ReplEvent
<1> HIDE DEF t, u
<1>4. nav' \in Seq(Nav)
  <2>1. nav \in Seq(Nav) /\ page[u] \in Page
    BY <1>2 DEF Parts, BrowserOK
  <2>2. CASE Exists(u)
    <3>1. Committed(u, 0, page[u].at) \in Nav
      BY <1>2, <2>1, <2>2 DEF Committed, Nav, Page, Exists
    <3> QED  BY <1>3, <2>1, <2>2, <3>1
  <2> QED  BY <1>3, <2>1, <2>2
<1>5. BrowserOK' /\ used' \in Count
  BY <1>1, <1>3, <1>4 DEF Parts, BrowserOK
<1>6. TrackedOK'
  BY <1>3 DEF Parts, TrackedOK
<1>7. DocsOK' /\ ChosenOK'
  BY <1>1, <1>3, GoneTyped DEF DocsOK, Parts
<1> QED  BY <1>3, <1>5, <1>6, <1>7, GroupsKept, Refreshed DEF Parts

-----------------------------------------------------------------------------
(* Documents and requests. *)

LEMMA NowTyped ==
  ASSUME Parts, NEW t \in Tab, page[t].at \in Place
  PROVE  Now(t) \in Binding
BY DEF Parts, BrowserOK, Page, Now, Binding

LEMMA DroppedTyped ==
  ASSUME Parts, NEW t \in Tab, NEW what, Dropped(t, what)
  PROVE  Parts'
<1>1. JobsOK'
  BY DEF Dropped, Parts, JobsOK
<1>2. reg' \in [GenericTab -> Binding \cup {None}] /\ released' \subseteq Tab /\ handled' \subseteq Tab
  BY DEF Dropped, Parts, DocsOK
<1>3. bound' \in [Tab -> Binding \cup {None}] /\ turn' \in [Tab -> Turn \cup {None}]
  BY DEF Dropped, Parts, DocsOK, FailRequests
<1>4. DocsOK'
  BY <1>2, <1>3 DEF DocsOK
<1> QED  BY <1>1, <1>4, GroupsKept, Refreshed, Deselected DEF Dropped, Parts

LEMMA EnsureTyped ==
  ASSUME Parts, NEW S, Ensure(S)
  PROVE  ensure' \in [Tab -> {"none", "load", "probe", "ask", "inject", "wait"}]
BY DEF Parts, JobsOK, Ensure

LEMMA ProbesTyped ==
  ASSUME Parts, NEW t \in Tab, Probes(t)
  PROVE  Parts'
<1>1. ensure' \in [Tab -> {"none", "load", "probe", "ask", "inject", "wait"}]
  BY EnsureTyped DEF Probes, Parts, JobsOK
<1>2. JobsOK'
  BY <1>1 DEF Probes, Parts, JobsOK
<1> QED  BY <1>2, GroupsKept DEF Probes, Parts

LEMMA ProbedTyped ==
  ASSUME Parts, NEW t \in Tab, Probed(t)
  PROVE  Parts'
<1>1. JobsOK'
  BY DEF Probed, Parts, JobsOK
<1> QED  BY <1>1, GroupsKept, Refreshed DEF Probed, Parts

\* What the operation for a tab does to the pages and the bindings.
EnsureDoes(t) ==
    /\ page' \in {page, [page EXCEPT ![t].script = TRUE]}
    /\ page' # page => Exists(t) /\ Provider(t)
    /\ bound' \in {bound, [bound EXCEPT ![t] = None]}

LEMMA Ensuring ==
  ASSUME Parts, NEW t \in Tab, Ensures(t)
  PROVE  EnsureDoes(t) /\ ensure' \in [Tab -> {"none", "load", "probe", "ask", "inject", "wait"}]
<1>0. ensure \in [Tab -> {"none", "load", "probe", "ask", "inject", "wait"}]
  BY DEF Parts, JobsOK
<1>1. CASE EnsureLoad(t)
  BY <1>0, <1>1 DEF EnsureDoes, EnsureLoad
<1>2. CASE EnsureProbe(t)
  BY <1>0, <1>2 DEF EnsureDoes, EnsureProbe
<1>3. CASE EnsureAsk(t)
  BY <1>0, <1>3 DEF EnsureDoes, EnsureAsk
<1>4. CASE EnsureInject(t)
  BY <1>0, <1>4 DEF EnsureDoes, EnsureInject
<1>5. CASE EnsureWait(t)
  BY <1>0, <1>5 DEF EnsureDoes, EnsureWait
<1> QED  BY <1>1, <1>2, <1>3, <1>4, <1>5 DEF Ensures, EnsureSteps

LEMMA EnsuresTyped ==
  ASSUME Parts, NEW t \in Tab, Ensures(t)
  PROVE  Parts'
<1>1. page' \in [Tab -> Page]
  BY Ensuring, ZenonT(30) DEF EnsureDoes, Parts, BrowserOK, Page
<1>2. BrowserOK'
  BY <1>1 DEF Ensures, Parts, BrowserOK
<1>3. bound' \in [Tab -> Binding \cup {None}]
  BY Ensuring DEF EnsureDoes, Parts, DocsOK
<1>4. DocsOK' /\ JobsOK'
  BY <1>3, Ensuring DEF Ensures, Parts, DocsOK, JobsOK
<1> QED  BY <1>2, <1>4, GroupsKept DEF Ensures, Parts, chosen

\* Our script runs in pages that exist, and of a provider's tabs in conversations.
LEMMA ScriptPlaces ==
  ASSUME Parts, ScriptInv, NEW t \in Tab, page[t].script
  PROVE  page[t].at \in Place /\ Now(t) \in Binding /\ Exists(t)
<1>1. Exists(t)
  BY DEF ScriptInv
<1>2. page[t].at \in Place
  BY <1>1 DEF Parts, BrowserOK, Page, Exists
<1> QED  BY <1>1, <1>2, NowTyped

LEMMA RegistersTyped ==
  ASSUME Parts, ScriptInv, NEW t \in Tab, Registers(t)
  PROVE  Parts'
<1>1. Now(t) \in Binding /\ t \in ProviderTab
  BY ScriptPlaces DEF Registers, Says
<1>2. DocsOK'
  BY <1>1 DEF Registers, Parts, DocsOK
<1>3. JobsOK'
  BY <1>1 DEF Registers, Parts, JobsOK
<1>4. StatusOK'
  BY DEF Registers, Parts, StatusOK, Refresh
<1>5. ChosenOK'
  BY DEF Registers, Parts, ChosenOK
<1> QED  BY <1>2, <1>3, <1>4, <1>5, GroupsKept DEF Registers, Parts

LEMMA ReboundTyped ==
  ASSUME Parts, NEW t, NEW b, Rebound(t, b)
  PROVE  Parts' /\ t \in ProviderTab /\ t \in Tab /\ b \in Binding
<1>1. t \in ProviderTab /\ t \in Tab /\ b \in Binding
  BY DEF Rebound, Parts, JobsOK, Tab
<1>2. DocsOK'
  BY <1>1 DEF Rebound, Parts, DocsOK
<1>3. JobsOK'
  BY DEF Rebound, Parts, JobsOK
<1>4. TrackedOK'
  BY <1>1 DEF Rebound, Parts, TrackedOK
<1> QED  BY <1>1, <1>2, <1>3, <1>4, GroupsKept, Refreshed DEF Rebound, Parts

LEMMA GenericRegistersTyped ==
  ASSUME Parts, ScriptInv, NEW t \in Tab, GenericRegisters(t)
  PROVE  Parts'
<1>1. Now(t) \in Binding
  BY ScriptPlaces DEF GenericRegisters
<1>2. DocsOK'
  BY <1>1 DEF GenericRegisters, Parts, DocsOK
<1> QED  BY <1>2, GroupsKept, Refreshed DEF GenericRegisters, Parts

LEMMA BeginsTyped ==
  ASSUME Parts, ScriptInv, NEW t \in Tab, Begins(t)
  PROVE  Parts'
<1>1. page[t].at \in Place /\ page[t].doc \in Nat
  BY ScriptPlaces DEF Begins, Parts, BrowserOK, Page
<1> DEFINE new == [doc |-> page[t].doc, at |-> page[t].at, initial |-> page[t].at = Start]
<1>2. new \in Turn
  BY <1>1 DEF Turn
<1>3. turn' = [turn EXCEPT ![t] = new] /\ UNCHANGED <<bound, reg, handled, released>>
  BY DEF Begins
<1> HIDE DEF new
<1>4. DocsOK'
  BY <1>2, <1>3 DEF Parts, DocsOK
<1>5. used' \in Count
  BY UsesTyped DEF Begins, Parts
<1> QED  BY <1>4, <1>5, GroupsKept DEF Begins, Parts

LEMMA TransitionTyped ==
  ASSUME Parts, ScriptInv, NEW t \in Tab, Transition(t)
  PROVE  Parts'
<1>1. page[t].at \in Place /\ Now(t) \in Binding
  BY ScriptPlaces DEF Transition
<1>2. turn' \in [Tab -> Turn \cup {None}]
  BY <1>1 DEF Transition, PendingInitialTransition, Parts, DocsOK, Turn
<1>3. DocsOK'
  BY <1>1, <1>2 DEF Transition, Parts, DocsOK
<1> QED  BY <1>3, GroupsKept DEF Transition, Parts

LEMMA AnsweredTyped ==
  ASSUME Parts, NEW t \in Tab, Answered(t)
  PROVE  Parts' /\ page[t].at \in Place
<1>1. page[t].at \in Place
  <2>1. CASE t \in GenericTab
    <3>1. reg[t] \in Binding \cup {None} /\ reg[t] = Now(t)
      BY <2>1 DEF Answered, Parts, DocsOK
    <3>2. CASE reg[t] \in Binding
      BY <3>1, <3>2 DEF Binding, Now
    <3>3. Now(t) \in [doc : Nat, at : Place \cup {None}]
      BY DEF Now, Parts, BrowserOK, Page
    <3> QED  BY <3>1, <3>2, <3>3, Constants
  <2>2. CASE t \notin GenericTab
    BY <2>2 DEF Answered, SameTurn, Parts, DocsOK, Turn
  <2> QED  BY <2>1, <2>2
<1>2. DocsOK'
  BY DEF Answered, Parts, DocsOK
<1>3. Session(t, Now(t)) \in Picked
  BY <1>1, NowTyped DEF Session, Picked, Binding
<1>4. ChosenOK'
  BY <1>3 DEF Answered, Parts, ChosenOK
<1> QED  BY <1>1, <1>2, <1>4, GroupsKept, Refreshed DEF Answered, Parts

LEMMA FailsTyped ==
  ASSUME Parts, NEW t \in Tab, Fails(t)
  PROVE  Parts'
<1>1. DocsOK'
  BY DEF Fails, FailRequests, Parts, DocsOK
<1> QED  BY <1>1, GroupsKept, Refreshed DEF Fails, Parts

-----------------------------------------------------------------------------
(* The popup. *)

LEMMA HandleTyped ==
  ASSUME Parts, NEW S \in SUBSET Tab, Handle(S), UNCHANGED <<bound, reg, turn>>
  PROVE  DocsOK'
BY DEF Parts, DocsOK, Handle

\* A mutation that waits for a step of its own is for one tab.
LEMMA PopupAt ==
  ASSUME Parts, popup # None
  PROVE  /\ popup.step = "ensure" => popup.tab \in Tab
         /\ popup.step = "status" => popup.tab \in Tab /\ popup.of \subseteq Bound
         /\ popup.step = "select" => popup.tab \in Tab /\ popup.of \subseteq Picked
BY DEF Parts, ChosenOK, Mutation

LEMMA PopupSelectTyped ==
  ASSUME Parts, NEW t \in Tab, PopupSelect(t)
  PROVE  Parts'
<1>1. ensure' \in [Tab -> {"none", "load", "probe", "ask", "inject", "wait"}]
  BY EnsureTyped DEF PopupSelect
<1>2. JobsOK'
  BY <1>1 DEF PopupSelect, Parts, JobsOK
<1>3. popup' \in Mutation
  BY DEF PopupSelect, Wait, Mutation
<1>4. ChosenOK'
  BY <1>3 DEF PopupSelect, Parts, ChosenOK
<1>5. used' \in Count
  BY UsesTyped DEF PopupSelect, Click, Parts
<1> QED  BY <1>2, <1>4, <1>5, HandleTyped, GroupsKept DEF PopupSelect, Parts

LEMMA PopupEnsuredTyped ==
  ASSUME Parts, PopupEnsured
  PROVE  Parts'
<1>1. popup \in [step : {"ensure", "status"}, tab : Tab, of : SUBSET Bound]
  BY DEF PopupEnsured, Parts, ChosenOK, Mutation
<1>2. popup' \in [step : {"ensure", "status"}, tab : Tab, of : SUBSET Bound]
  BY <1>1, CandidatesTyped DEF PopupEnsured
<1>3. ChosenOK'
  BY <1>2 DEF PopupEnsured, Parts, ChosenOK, Mutation
<1> QED  BY <1>3, GroupsKept DEF PopupEnsured, Parts

LEMMA PopupBuiltTyped ==
  ASSUME Parts, PopupBuilt
  PROVE  Parts'
<1>1. BrowserOK'
  BY InjectedDoes DEF PopupBuilt, Parts, BrowserOK
<1>2. popup \in [step : {"ensure", "status"}, tab : Tab, of : SUBSET Bound]
  BY DEF PopupBuilt, Parts, ChosenOK, Mutation
<1>3. Answering(popup.of) \subseteq Picked
  BY <1>2, AnsweringTyped
<1>4. CASE popup' = None
  <2>1. ChosenOK'
    BY <1>4 DEF PopupBuilt, Parts, ChosenOK
  <2> QED  BY <1>1, <2>1, GroupsKept DEF PopupBuilt, Parts
<1>5. CASE \E s \in Answering(popup.of) :
            s.tab = popup.tab /\ popup' = [popup EXCEPT !.step = "select", !.of = {s}]
  <2>1. PICK s \in Answering(popup.of) : popup' = [popup EXCEPT !.step = "select", !.of = {s}]
    BY <1>5
  <2>2. {s} \in SUBSET Picked
    BY <1>3
  <2>3. popup' \in [step : {"select", "publish"}, tab : Tab, of : SUBSET Picked]
    BY <1>2, <2>1, <2>2
  <2>4. ChosenOK'
    BY <2>3 DEF PopupBuilt, Parts, ChosenOK, Mutation
  <2> QED  BY <1>1, <2>4, GroupsKept DEF PopupBuilt, Parts
<1> QED  BY <1>4, <1>5 DEF PopupBuilt

LEMMA PopupSelectedTyped ==
  ASSUME Parts, PopupSelected
  PROVE  Parts' /\ popup' # None /\ popup'.step = "publish"
<1>1. popup \in [step : {"select", "publish"}, tab : Tab, of : SUBSET Picked]
  BY DEF PopupSelected, Parts, ChosenOK, Mutation
<1>2. popup' \in [step : {"select", "publish"}, tab : Tab, of : SUBSET Picked] /\ popup'.step = "publish"
  BY <1>1 DEF PopupSelected
<1>3. sel' \in Picked
  BY <1>1 DEF PopupSelected
<1>4. ChosenOK'
  BY <1>2, <1>3 DEF ChosenOK, Mutation
<1>5. DocsOK'
  BY <1>1, HandleTyped DEF PopupSelected
<1> QED  BY <1>2, <1>4, <1>5, GroupsKept, Constants DEF PopupSelected, Parts, Mutation, StatusOK

LEMMA PopupDeselectTyped ==
  ASSUME Parts, PopupDeselect
  PROVE  Parts'
<1>1. ChosenOK'
  BY DEF PopupDeselect, Wait, Mutation, ChosenOK
<1>2. used' \in Count
  BY UsesTyped DEF PopupDeselect, Click, Parts
<1> QED  BY <1>1, <1>2, GroupsKept DEF PopupDeselect, Parts

LEMMA PopupDiscoverTyped ==
  ASSUME Parts, PopupDiscover
  PROVE  Parts'
<1>1. PICK found \in SUBSET Tab : Handle(found) /\ Ensure(found)
  BY DEF PopupDiscover, Tab
<1>2. ensure' \in [Tab -> {"none", "load", "probe", "ask", "inject", "wait"}]
  BY <1>1, EnsureTyped
<1>3. JobsOK'
  BY <1>2 DEF PopupDiscover, Parts, JobsOK
<1>4. ChosenOK'
  BY DEF PopupDiscover, Wait, Mutation, Parts, ChosenOK
<1>5. used' \in Count
  BY UsesTyped DEF PopupDiscover, Click, Parts
<1>6. DocsOK'
  BY <1>1, HandleTyped DEF PopupDiscover
<1> QED  BY <1>3, <1>4, <1>5, <1>6, GroupsKept DEF PopupDiscover, Parts

LEMMA PopupPublishesTyped ==
  ASSUME Parts, PopupPublishes
  PROVE  Parts'
<1>1. ChosenOK'
  BY DEF PopupPublishes, Parts, ChosenOK
<1> QED  BY <1>1, GroupsKept, Refreshed DEF PopupPublishes, Parts

-----------------------------------------------------------------------------
(* Most actions leave the addresses and the browser's events alone.         *)

CalmDoes ==
    /\ UNCHANGED <<nav, upd, tracker, accepted, applied>>
    /\ \A t \in Tab : page'[t].doc = page[t].doc /\ page'[t].at = page[t].at
    /\ \A t \in Tab : page'[t].script => page[t].script \/ (Exists(t) /\ (t \in ProviderTab => Provider(t)))
    /\ late \subseteq late'
    /\ \A t \in Tab : <<t, "tab">> \in drops => <<t, "tab">> \in drops' \/ bound'[t] = None
    /\ \A t \in GenericTab : <<t, "origin">> \in drops => <<t, "origin">> \in drops' \/ reg'[t] = None
    /\ \A t \in ProviderTab :
          \/ bound'[t] \in {bound[t], None}
          \/ page[t].doc # 0 /\ ((Provider(t) /\ bound'[t].doc = page[t].doc) \/ <<t, bound'[t]>> \in late')
    /\ \A t \in GenericTab : reg'[t] \in {reg[t], None} \/ reg'[t].at = page[t].at
    /\ \A r \in rebinds' : r \in rebinds \/ (Provider(r[1]) /\ r[2].doc = page[r[1]].doc)
    /\ \A t \in Tab : turn'[t] # None => turn[t] # None \/ Exists(t)
    /\ \/ sel' = None \/ Exists(sel'.tab) \/ Leaving(sel'.tab) \/ Republishing'
       \/ sel' = sel /\ (Republishing => Republishing')

LEMMA CalmPages ==
  ASSUME Parts, NEW c, page' = Injected(c)
  PROVE  /\ \A t \in Tab : page'[t].doc = page[t].doc /\ page'[t].at = page[t].at
         /\ \A t \in Tab : page'[t].script => page[t].script \/ (Exists(t) /\ (t \in ProviderTab => Provider(t)))
BY InjectedDoes, Constants DEF Exists, Place

\* A document that answers is the one its tab has.
LEMMA AnsweringExist ==
  ASSUME Parts, ScriptInv, NEW c \in SUBSET Bound, NEW s \in Answering(c)
  PROVE  Exists(s.tab)
<1>1. PICK x \in c : page[x.tab].script /\ s = Session(x.tab, x.on)
  BY DEF Answering
<1>2. x.tab \in Tab /\ s.tab = x.tab
  BY <1>1 DEF Bound, Session
<1> QED  BY <1>1, <1>2 DEF ScriptInv

LEMMA PubBeginCalm ==
  ASSUME Parts, PubBegin
  PROVE  CalmDoes
<1>1. pub' \in Publication /\ pub'.step = "status"
  BY CandidatesTyped DEF PubBegin, Publication
<1>2. Republishing'
  BY <1>1, Constants DEF Republishing
<1> QED  BY <1>2 DEF PubBegin, CalmDoes, browser, tracked, docs, jobs

LEMMA PubAnsweredCalm ==
  ASSUME Parts, ScriptInv, TurnInv, PubAnswered
  PROVE  CalmDoes
<1>1. UNCHANGED <<permitted, nav, upd, tracked, docs, jobs, asked, popup, used>> /\ page' = Injected(pub.of)
  BY DEF PubAnswered, PubStatuses
<1>2. pub.of \in SUBSET Bound /\ pub.step = "status" /\ sel \in Picked \cup {None}
  BY DEF PubAnswered, PubStatuses, Parts, StatusOK, Publication, ChosenOK
<1> DEFINE S == Answering(pub.of)
<1>3. sel \in S => Exists(sel.tab)
  BY <1>2, AnsweringExist
<1>4. sel # None /\ HasActiveInitialTransition => Exists(sel.tab) \/ Leaving(sel.tab)
  BY <1>2 DEF HasActiveInitialTransition, TurnInv, Picked
<1>5. asked => Republishing'
  BY <1>1 DEF Republishing
<1>6. \/ asked /\ sel' = sel
      \/ sel # None /\ HasActiveInitialTransition /\ sel' = sel
      \/ sel' = None
      \/ sel' = sel /\ (sel = None \/ sel \in S)
  BY DEF PubAnswered, PubStatuses
<1> HIDE DEF S
<1>7. sel' = None \/ Exists(sel'.tab) \/ Leaving(sel'.tab) \/ Republishing'
  BY <1>3, <1>4, <1>5, <1>6
<1> QED  BY <1>1, <1>7, CalmPages DEF CalmDoes, tracked, docs, jobs

LEMMA PubReleasedCalm ==
  ASSUME Parts, PubReleased
  PROVE  CalmDoes
<1>1. Republishing => Republishing'
  BY DEF PubReleased, Republishing, chosen
<1> QED  BY <1>1 DEF PubReleased, CalmDoes, browser, tracked, docs, jobs, chosen

LEMMA DroppedCalm ==
  ASSUME Parts, NEW t \in Tab, NEW what \in {"tab", "origin"}, Dropped(t, what)
  PROVE  CalmDoes
<1>1. UNCHANGED <<browser, tracked, rebinds>> /\ asked'
  BY DEF Dropped, Refresh
<1>2. \A u \in Tab : turn'[u] \in {turn[u], None}
  BY DEF Dropped, FailRequests, Parts, DocsOK
<1>3. \A u \in Tab : <<u, "tab">> \in drops => <<u, "tab">> \in drops' \/ bound'[u] = None
  BY DEF Dropped, Parts, DocsOK
<1>4. \A u \in GenericTab : <<u, "origin">> \in drops => <<u, "origin">> \in drops' \/ reg'[u] = None
  BY DEF Dropped, Parts, DocsOK
<1>5. /\ \A u \in ProviderTab : bound'[u] \in {bound[u], None}
      /\ \A u \in GenericTab : reg'[u] \in {reg[u], None}
  BY DEF Dropped, Parts, DocsOK, Tab
<1>6. Republishing'
  BY <1>1 DEF Republishing
<1> QED  BY <1>1, <1>2, <1>3, <1>4, <1>5, <1>6 DEF CalmDoes, browser, tracked

LEMMA ProbesCalm ==
  ASSUME Parts, NEW t \in Tab, Probes(t)
  PROVE  CalmDoes
<1>1. drops \subseteq drops' /\ UNCHANGED <<browser, tracked, docs, rebinds, status, chosen>>
  BY DEF Probes
<1> QED  BY <1>1 DEF CalmDoes, Republishing, browser, tracked, docs, status, chosen

LEMMA ProbedCalm ==
  ASSUME Parts, NEW t \in Tab, Probed(t)
  PROVE  CalmDoes
BY DEF Probed, Refresh, CalmDoes, Republishing, browser, tracked, docs, chosen

LEMMA EnsuresCalm ==
  ASSUME Parts, NEW t \in Tab, Ensures(t)
  PROVE  CalmDoes
<1>1. EnsureDoes(t) /\ UNCHANGED <<nav, upd, tracked, reg, turn, drops, rebinds, status, chosen>>
  BY Ensuring DEF Ensures
<1>2. \A u \in Tab : page[u] \in Page
  BY DEF Parts, BrowserOK
<1>3. \A u \in Tab : page'[u].doc = page[u].doc /\ page'[u].at = page[u].at
  BY <1>1, <1>2 DEF EnsureDoes, Parts, BrowserOK, Page
<1>4. \A u \in Tab : page'[u].script => page[u].script \/ (Exists(u) /\ (u \in ProviderTab => Provider(u)))
  <2>1. CASE page' = page
    BY <2>1
  <2>2. CASE page' # page
    <3>1. page' = [page EXCEPT ![t].script = TRUE] /\ Exists(t) /\ Provider(t)
      BY <1>1, <2>2 DEF EnsureDoes
    <3>2. \A u \in Tab : u # t => page'[u] = page[u]
      BY <3>1 DEF Parts, BrowserOK
    <3> QED  BY <3>1, <3>2
  <2> QED  BY <2>1, <2>2
<1>5. \A u \in ProviderTab : bound'[u] \in {bound[u], None}
  BY <1>1 DEF EnsureDoes, Parts, DocsOK, Tab
<1>6. \A u \in Tab : <<u, "tab">> \in drops => <<u, "tab">> \in drops'
  BY <1>1
<1> QED  BY <1>1, <1>3, <1>4, <1>5, <1>6 DEF CalmDoes, Republishing, tracked, status, chosen

LEMMA RegistersCalm ==
  ASSUME Parts, ScriptInv, UnbornInv, NEW t \in Tab, Registers(t)
  PROVE  CalmDoes
<1>1. UNCHANGED <<browser, tracked, reg, turn, drops, pub, popup>>
  BY DEF Registers
<1>2. Provider(t) /\ page[t].doc # 0 /\ Now(t).doc = page[t].doc
  BY ScriptPlaces DEF Registers, Says, UnbornInv, Now, ScriptInv
<1>3. \A u \in ProviderTab : bound'[u] = bound[u] \/ (u = t /\ bound'[u] = Now(t))
  BY DEF Registers, Parts, DocsOK, Tab
<1>4. \A r \in rebinds' : r \in rebinds \/ (r[1] = t /\ r[2] = Now(t))
  BY DEF Registers
<1>5. sel' = None \/ (sel' = sel /\ (asked' = asked \/ asked'))
  BY DEF Registers, Refresh
<1>6. sel' = None \/ (sel' = sel /\ (Republishing => Republishing'))
  BY <1>1, <1>5 DEF Republishing
<1> QED  BY <1>1, <1>2, <1>3, <1>4, <1>6 DEF CalmDoes, browser, tracked

LEMMA ReboundCalm ==
  ASSUME Parts, RebindInv, NEW t \in ProviderTab, NEW b, Rebound(t, b)
  PROVE  CalmDoes
<1>1. /\ UNCHANGED <<browser, tracker, accepted, applied, reg, turn, drops, pub, chosen>> /\ asked'
      /\ rebinds' \subseteq rebinds /\ late \subseteq late' /\ <<t, b>> \in rebinds
  BY DEF Rebound, Refresh
<1>2. page[t].doc # 0 /\ (Exists(t) /\ b.doc = page[t].doc => Provider(t))
  <2>1. <<t, b>>[1] = t /\ <<t, b>>[2] = b
    OBVIOUS
  <2> QED  BY <1>1, <2>1 DEF RebindInv
<1>3. \A u \in ProviderTab : bound'[u] = bound[u] \/ (u = t /\ bound'[u] = b)
  BY DEF Rebound, Parts, DocsOK, Tab
<1>4. (Exists(t) /\ b.doc = page[t].doc) \/ <<t, b>> \in late'
  BY DEF Rebound
<1> QED  BY <1>1, <1>2, <1>3, <1>4 DEF CalmDoes, Republishing, browser, chosen

LEMMA GenericRegistersCalm ==
  ASSUME Parts, NEW t \in Tab, GenericRegisters(t)
  PROVE  CalmDoes
<1>1. \A u \in GenericTab : reg'[u] = reg[u] \/ (u = t /\ reg'[u].at = page[t].at)
  BY DEF GenericRegisters, Now, Parts, DocsOK
<1> QED  BY <1>1 DEF GenericRegisters, Refresh, CalmDoes, Republishing, browser, tracked, jobs, chosen

LEMMA BeginsCalm ==
  ASSUME Parts, ScriptInv, NEW t \in Tab, Begins(t)
  PROVE  CalmDoes
<1>1. Exists(t)
  BY DEF Begins, ScriptInv
<1>2. \A u \in Tab : u # t => turn'[u] = turn[u]
  BY DEF Begins, Parts, DocsOK
<1> QED  BY <1>1, <1>2 DEF Begins, CalmDoes, Republishing, browser, tracked, jobs, status, chosen

LEMMA TransitionCalm ==
  ASSUME Parts, ScriptInv, UnbornInv, NEW t \in Tab, Transition(t)
  PROVE  CalmDoes
<1>1. Provider(t) /\ page[t].doc # 0
  BY DEF Transition, ScriptInv, UnbornInv, Provider
<1>2. \A u \in Tab : u # t => turn'[u] = turn[u]
  BY DEF Transition, Parts, DocsOK
<1>3. \A u \in ProviderTab : bound'[u] = bound[u] \/ (u = t /\ bound'[u].doc = page[t].doc)
  BY DEF Transition, Now, Parts, DocsOK, Tab
<1> QED  BY <1>1, <1>2, <1>3 DEF Transition, PendingInitialTransition, CalmDoes, Republishing, browser, tracked, jobs, status, chosen

LEMMA AnsweredCalm ==
  ASSUME Parts, NEW t \in Tab, Answered(t)
  PROVE  CalmDoes
<1>1. \A u \in Tab : turn'[u] \in {turn[u], None}
  BY DEF Answered, Parts, DocsOK
<1>2. asked' /\ UNCHANGED <<browser, tracked, bound, reg, jobs>>
  BY DEF Answered, Refresh
<1>3. Republishing'
  BY <1>2 DEF Republishing
<1> QED  BY <1>1, <1>2, <1>3 DEF CalmDoes, browser, tracked, jobs

LEMMA FailsCalm ==
  ASSUME Parts, NEW t \in Tab, Fails(t)
  PROVE  CalmDoes
<1>1. \A u \in Tab : turn'[u] \in {turn[u], None}
  BY DEF Fails, FailRequests, Parts, DocsOK
<1>2. asked' /\ UNCHANGED <<browser, tracked, bound, reg, jobs>>
  BY DEF Fails, Refresh
<1>3. Republishing'
  BY <1>2 DEF Republishing
<1> QED  BY <1>1, <1>2, <1>3 DEF CalmDoes, browser, tracked, jobs

\* The popup's steps.
LEMMA PopupCalm ==
  ASSUME Parts, Popup
  PROVE  CalmDoes
<1>1. ASSUME NEW t \in Tab, PopupSelect(t)
      PROVE  CalmDoes
  BY <1>1 DEF PopupSelect, Click, CalmDoes, Republishing, browser, tracked, status
<1>2. CASE PopupEnsured
  BY <1>2 DEF PopupEnsured, CalmDoes, Republishing, browser, tracked, docs, jobs, status
<1>3. CASE PopupBuilt
  <2>1. Republishing => Republishing'
    BY <1>3 DEF PopupBuilt, Republishing, status
  <2>2. page' = Injected(popup.of) /\ UNCHANGED <<nav, upd, tracked, docs, jobs, sel>>
    BY <1>3 DEF PopupBuilt
  <2> QED  BY <2>1, <2>2, CalmPages DEF CalmDoes, tracked, docs, jobs
<1>4. CASE PopupSelected
  <2>1. Republishing'
    BY <1>4, PopupSelectedTyped DEF Republishing
  <2> QED  BY <1>4, <2>1 DEF PopupSelected, CalmDoes, browser, tracked, jobs
<1>5. CASE PopupDeselect
  BY <1>5 DEF PopupDeselect, CalmDoes, browser, tracked, docs, jobs
<1>6. CASE PopupDiscover
  BY <1>6 DEF PopupDiscover, Click, CalmDoes, Republishing, browser, tracked, status
<1>7. CASE PopupPublishes
  BY <1>7 DEF PopupPublishes, Refresh, CalmDoes, Republishing, browser, tracked, docs, jobs
<1> QED  BY <1>1, <1>2, <1>3, <1>4, <1>5, <1>6, <1>7 DEF Popup

\* Such an action keeps every part of the invariant.
LEMMA CalmKeeps ==
  ASSUME Inv, Parts, Parts', CalmDoes
  PROVE  /\ SeqInv' /\ CommitInv' /\ ScriptInv' /\ BoundInv' /\ RegInv' /\ UnbornInv' /\ RebindInv' /\ TurnInv' /\ SelInv'
         /\ \A t \in Tab : applied'[t] >= applied[t]
<1>1. /\ SeqInv /\ CommitInv /\ ScriptInv /\ BoundInv /\ RegInv /\ UnbornInv /\ RebindInv /\ TurnInv /\ SelInv
      /\ UNCHANGED <<nav, upd, tracker, accepted, applied>>
      /\ \A t \in Tab : page'[t].doc = page[t].doc /\ page'[t].at = page[t].at
  BY DEF Inv, CalmDoes
<1>2. \A i \in DOMAIN nav : nav[i].tab \in Tab
  <2>1. \A i \in DOMAIN nav : nav[i] \in Nav
    BY DEF Parts, BrowserOK
  <2> QED  BY <2>1 DEF Nav
<1>3. \A t \in Tab : (Exists(t)' <=> Exists(t)) /\ (Provider(t)' <=> Provider(t)) /\ (Leaving(t)' <=> Leaving(t))
                     /\ (Arriving(t)' <=> Arriving(t)) /\ (Moving(t)' <=> Moving(t))
  BY <1>1 DEF Exists, Provider, Leaving, Arriving, Moving, Commit
<1>4. SeqInv' /\ \A t \in Tab : applied'[t] >= applied[t]
  <2>1. \A t \in Tab : applied[t] \in Nat
    BY DEF Parts, TrackedOK
  <2> QED  BY <1>1, <2>1 DEF SeqInv, Known
<1>5. CommitInv'
  BY <1>1, <1>2 DEF CommitInv, Commit, Known
<1>6. ScriptInv'
  BY <1>1, <1>3 DEF ScriptInv, CalmDoes
<1>7. BoundInv'
  <2> SUFFICES ASSUME NEW t \in ProviderTab
               PROVE  BoundAt(t)'
    BY DEF BoundInv
  <2>1. t \in Tab /\ BoundAt(t)
    BY <1>1 DEF Tab, BoundInv
  <2>2. CASE bound'[t] = bound[t] /\ bound[t] # None
    <3>1. <<t, bound[t]>> \in late => <<t, bound'[t]>> \in late'
      BY <2>2 DEF CalmDoes
    <3>2. <<t, "tab">> \in drops => <<t, "tab">> \in drops'
      BY <2>1, <2>2 DEF CalmDoes
    <3>3. Kept(t) => Kept(t)'
      BY <1>1, <1>3, <2>1, <2>2 DEF Kept
    <3> QED  BY <1>1, <1>3, <2>1, <2>2, <3>1, <3>2, <3>3 DEF BoundAt
  <2>3. CASE bound'[t] # bound[t] /\ bound'[t] # None
    <3>1. (Provider(t) /\ bound'[t].doc = page[t].doc) \/ <<t, bound'[t]>> \in late'
      BY <2>3 DEF CalmDoes
    <3> QED  BY <1>1, <1>3, <2>1, <3>1 DEF Kept, BoundAt
  <2>4. CASE bound'[t] = None
    BY <2>4 DEF BoundAt
  <2> QED  BY <2>2, <2>3, <2>4
<1>8. RegInv'
  <2> SUFFICES ASSUME NEW t \in GenericTab
               PROVE  RegAt(t)'
    BY DEF RegInv
  <2>1. t \in Tab /\ RegAt(t)
    BY <1>1 DEF Tab, RegInv
  <2>2. CASE reg'[t] = reg[t] /\ reg[t] # None
    <3>1. <<t, "origin">> \in drops => <<t, "origin">> \in drops'
      BY <2>2 DEF CalmDoes
    <3> QED  BY <1>1, <1>3, <2>1, <2>2, <3>1 DEF RegAt
  <2>3. CASE reg'[t] # reg[t] /\ reg'[t] # None
    BY <1>1, <2>1, <2>3 DEF CalmDoes, RegAt
  <2>4. CASE reg'[t] = None
    BY <2>4 DEF RegAt
  <2> QED  BY <2>2, <2>3, <2>4
<1>9. UnbornInv'
  <2> SUFFICES ASSUME NEW t \in Tab, page'[t].doc = 0
               PROVE  ~Exists(t)' /\ (t \in ProviderTab => bound'[t] = None)
    BY DEF UnbornInv
  <2>1. page[t].doc = 0 /\ ~Exists(t) /\ (t \in ProviderTab => bound[t] = None)
    BY <1>1 DEF UnbornInv
  <2> QED  BY <1>3, <2>1 DEF CalmDoes
<1>10. RebindInv'
  <2> SUFFICES ASSUME NEW r \in rebinds'
               PROVE  /\ page'[r[1]].doc # 0 /\ r[2].doc <= page'[r[1]].doc
                      /\ Exists(r[1])' /\ r[2].doc = page'[r[1]].doc => Provider(r[1])'
    BY DEF RebindInv
  <2>1. r[1] \in Tab
    BY DEF Parts, JobsOK, Tab
  <2>2. CASE r \in rebinds
    BY <1>1, <1>3, <2>1, <2>2 DEF RebindInv
  <2>3. CASE r \notin rebinds
    <3>1. Provider(r[1]) /\ r[2].doc = page[r[1]].doc
      BY <2>3 DEF CalmDoes
    <3>2. Exists(r[1]) /\ page[r[1]].doc \in Nat
      BY <2>1, <3>1, Constants DEF Parts, BrowserOK, Page, Exists, Provider, Place
    <3> QED  BY <1>1, <1>3, <2>1, <3>1, <3>2 DEF UnbornInv
  <2> QED  BY <2>2, <2>3
<1>11. TurnInv'
  BY <1>1, <1>3 DEF TurnInv, CalmDoes
<1>12. SelInv'
  <2>1. SUFFICES ASSUME NEW x, x = sel', x # None
                 PROVE  Exists(x.tab)' \/ Leaving(x.tab)' \/ Republishing'
    BY DEF SelInv
  <2>2. x \in Picked
    BY <2>1 DEF Parts, ChosenOK
  <2>3. x.tab \in Tab
    BY <2>2 DEF Picked
  <2>4. Exists(x.tab) \/ Leaving(x.tab) \/ Republishing' \/ (x = sel /\ (Republishing => Republishing'))
    BY <2>1 DEF CalmDoes
  <2> QED  BY <1>1, <1>3, <2>1, <2>3, <2>4 DEF SelInv
<1> QED  BY <1>4, <1>5, <1>6, <1>7, <1>8, <1>9, <1>10, <1>11, <1>12

-----------------------------------------------------------------------------
(* The browser moves: the tabs that stay where they are keep what is known  *)
(* of them.                                                                 *)

Extends(s, r) == \A i \in DOMAIN s : i \in DOMAIN r /\ r[i] = s[i]

\* Sequences that grow at their end.
LEMMA Appended ==
  ASSUME NEW S, NEW s \in Seq(S), NEW r \in Seq(S)
  PROVE  /\ Extends(s, s \o r) /\ Len(s \o r) = Len(s) + Len(r)
         /\ \A i \in DOMAIN r : Len(s) + i \in DOMAIN (s \o r) /\ (s \o r)[Len(s) + i] = r[i]
BY DEF Extends

LEMMA AppendedOne ==
  ASSUME NEW S, NEW s \in Seq(S), NEW x \in S
  PROVE  /\ Extends(s, Append(s, x)) /\ DOMAIN Append(s, x) = 1..(Len(s) + 1) /\ DOMAIN s = 1..Len(s)
         /\ Append(s, x)[Len(s) + 1] = x
BY DEF Extends

\* A move of the browser leaves what the worker keeps, and adds to what it will be told.
MoveDoes ==
    /\ UNCHANGED <<tracker, accepted, applied, late, docs, jobs, status, chosen>>
    /\ Extends(nav, nav') /\ Extends(upd, upd')
    /\ \A t \in Tab : Exists(t) => Exists(t)' \/ Leaving(t)'

\* What the browser has said is still there after it says more.
LEMMA LeavingStays ==
  ASSUME NEW t, Leaving(t), Extends(upd, upd')
  PROVE  Leaving(t)'
BY DEF Leaving, Extends

\* A move of the browser keeps what is not about the page that moves.
LEMMA MoveKeeps ==
  ASSUME Inv, Parts, MoveDoes
  PROVE  /\ SeqInv' /\ TurnInv' /\ SelInv' /\ \A t \in Tab : applied'[t] >= applied[t]
         /\ \A t \in Tab : page'[t] = page[t] => (t \in ProviderTab => BoundAt(t)') /\ (t \in GenericTab => RegAt(t)')
<1>1. SeqInv' /\ \A t \in Tab : applied'[t] >= applied[t]
  <2>1. \A t \in Tab : applied[t] \in Nat
    BY DEF Parts, TrackedOK
  <2> QED  BY <2>1 DEF SeqInv, Known, MoveDoes, Inv
<1>2. TurnInv'
  BY LeavingStays DEF TurnInv, MoveDoes, Inv, docs
<1>3. SelInv'
  <2>1. Republishing => Republishing'
    BY DEF Republishing, MoveDoes, status, chosen
  <2>2. sel' = sel
    BY DEF MoveDoes, chosen
  <2>3. CASE sel # None
    <3>1. sel.tab \in Tab
      BY <2>3 DEF Parts, ChosenOK, Picked
    <3>2. Exists(sel.tab) \/ Leaving(sel.tab) \/ Republishing
      BY <2>3 DEF Inv, SelInv
    <3>3. \A x \in Tab : x = sel.tab => Exists(x)' \/ Leaving(x)' \/ Republishing'
      BY <2>1, <3>1, <3>2, LeavingStays DEF MoveDoes
    <3> QED  BY <2>2, <3>1, <3>3 DEF SelInv
  <2> QED  BY <2>2, <2>3 DEF SelInv
<1>4. ASSUME NEW t \in Tab, page'[t] = page[t]
      PROVE  (t \in ProviderTab => BoundAt(t)') /\ (t \in GenericTab => RegAt(t)')
  <2>1. /\ Leaving(t) => Leaving(t)'
        /\ Arriving(t) => Arriving(t)'
        /\ Moving(t) => Moving(t)'
    BY <1>4 DEF MoveDoes, Extends, Leaving, Arriving, Moving, Commit
  <2>2. UNCHANGED <<bound, reg, drops, late>>
    BY DEF MoveDoes, docs, jobs
  <2>3. t \in ProviderTab => BoundAt(t)'
    <3>1. t \in ProviderTab => BoundAt(t)
      BY DEF Inv, BoundInv
    <3> QED  BY <1>4, <2>1, <2>2, <3>1 DEF BoundAt, Kept, Provider
  <2>4. t \in GenericTab => RegAt(t)'
    <3>1. t \in GenericTab => RegAt(t)
      BY DEF Inv, RegInv
    <3> QED  BY <1>4, <2>1, <2>2, <3>1 DEF RegAt, Exists
  <2> QED  BY <2>3, <2>4
<1> QED  BY <1>1, <1>2, <1>3, <1>4

AllInvs == SeqInv /\ CommitInv /\ ScriptInv /\ BoundInv /\ RegInv /\ UnbornInv /\ RebindInv /\ TurnInv /\ SelInv

LEMMA NavOfTabs ==
  ASSUME Parts
  PROVE  \A i \in DOMAIN nav : nav[i].tab \in Tab /\ nav[i].doc \in Nat
<1>1. \A i \in DOMAIN nav : nav[i] \in Nav
  BY DEF Parts, BrowserOK
<1> QED  BY <1>1 DEF Nav

LEMMA RebindsOfTabs ==
  ASSUME Parts
  PROVE  \A r \in rebinds : r[1] \in Tab /\ r[1] \in ProviderTab /\ r[2].doc \in Nat
BY DEF Parts, JobsOK, Tab, Binding

LEMMA PagesOfTabs ==
  ASSUME Parts
  PROVE  \A t \in Tab : page[t].doc \in Nat /\ page[t].at \in Place \cup {None}
BY DEF Parts, BrowserOK, Page

\* A new document of the tab: its commit event and its address are now on their way.
LEMMA LoadsKeeps ==
  ASSUME Inv, Parts, NEW t \in Tab, NEW p \in Places(t), Loads(t, p)
  PROVE  AllInvs' /\ \A u \in Tab : applied'[u] >= applied[u]
<1> DEFINE d == page[t].doc + 1
<1>1. p \in Place /\ p # None /\ page[t].doc \in Nat /\ d \in Nat \ {0}
  BY PagesOfTabs, Constants DEF Places, Place
<1>2. /\ page'[t].doc = d /\ page'[t].at = p /\ ~page'[t].script
      /\ \A u \in Tab : u # t => page'[u] = page[u]
  BY DEF Loads, Parts, BrowserOK
<1>3. nav' = Append(nav, Committed(t, d, p))
  BY DEF Loads
<1>4. /\ Extends(nav, nav') /\ DOMAIN nav' = 1..(Len(nav) + 1) /\ DOMAIN nav = 1..Len(nav) /\ Len(nav) \in Nat
      /\ nav'[Len(nav) + 1] = Committed(t, d, p)
  <2>1. Committed(t, d, p) \in Nav /\ nav \in Seq(Nav)
    BY <1>1 DEF Committed, Nav, Parts, BrowserOK
  <2> QED  BY <1>3, <2>1, AppendedOne
<1>5. Extends(upd, upd') /\ (p # page[t].at => \E i \in DOMAIN upd' : upd'[i] = Updated(t, p))
  <2> DEFINE more == IF p = page[t].at THEN <<>> ELSE <<Updated(t, p)>>
  <2>1. upd \in Seq(Upd) /\ Updated(t, p) \in Upd /\ <<Complete(t)>> \in Seq(Upd)
    BY <1>1 DEF Parts, BrowserOK, Updated, Complete, Upd
  <2>2. more \in Seq(Upd) /\ (p # page[t].at => 1 \in DOMAIN more /\ more[1] = Updated(t, p))
    BY <2>1
  <2>3. upd' = (upd \o more) \o <<Complete(t)>>
    BY DEF Loads
  <2> HIDE DEF more
  <2>4. upd \o more \in Seq(Upd) /\ Extends(upd, upd \o more)
        /\ \A i \in DOMAIN more : Len(upd) + i \in DOMAIN (upd \o more) /\ (upd \o more)[Len(upd) + i] = more[i]
    BY <2>1, <2>2, Appended
  <2>6. p # page[t].at => \E i \in DOMAIN (upd \o more) : (upd \o more)[i] = Updated(t, p)
    BY <2>2, <2>4
  <2>5. Extends(upd \o more, upd')
    BY <2>1, <2>3, <2>4, Appended
  <2> QED  BY <2>4, <2>5, <2>6 DEF Extends
<1> HIDE DEF d
<1>6. MoveDoes
  BY <1>1, <1>2, <1>4, <1>5 DEF MoveDoes, Loads, Exists
<1>7. CommitInv'
  <2>1. \A u \in Tab : page[u].doc \in Nat /\ page'[u].doc \in Nat /\ page[u].doc <= page'[u].doc /\ (u = t => page[u].doc < d)
    BY <1>1, <1>2, PagesOfTabs DEF d
  <2>2. \A i \in DOMAIN nav' : i \in DOMAIN nav \/ (i = Len(nav) + 1 /\ nav'[i].tab = t /\ nav'[i].doc = d)
    BY <1>4 DEF Committed
  <2>3. \A i \in DOMAIN nav : nav'[i] = nav[i] /\ i < Len(nav) + 1
    BY <1>4 DEF Extends
  <2>4. \A i \in DOMAIN nav : nav[i].doc <= page[nav[i].tab].doc
    BY DEF Inv, CommitInv
  <2>5. \A i \in DOMAIN nav' : nav'[i].doc <= page'[nav'[i].tab].doc
    BY <2>1, <2>2, <2>3, <2>4, <1>1, <1>2, NavOfTabs
  <2>6. \A u \in Tab : tracker'[u] # None => Known(u) /\ tracker'[u] = tracker[u] /\ tracker[u].doc \in Nat /\ tracker[u].doc <= page[u].doc
    BY DEF Loads, Known, Parts, TrackedOK, Mark, Inv, CommitInv
  <2>7. \A i \in DOMAIN nav' : Commit(i)' /\ tracker'[nav'[i].tab] # None => tracker'[nav'[i].tab].doc < nav'[i].doc
    <3>1. ASSUME NEW i \in DOMAIN nav, Commit(i)', tracker'[nav'[i].tab] # None PROVE tracker'[nav'[i].tab].doc < nav'[i].doc
      BY <2>3, <2>6, <3>1, NavOfTabs DEF Commit, Inv, CommitInv
    <3>2. tracker'[t] # None => tracker'[t].doc < d
      BY <2>1, <2>6, <1>1
    <3> QED  BY <2>2, <3>1, <3>2
  <2>8. \A i, j \in DOMAIN nav' : i < j /\ Commit(j)' /\ nav'[i].tab = nav'[j].tab => nav'[i].doc < nav'[j].doc
    <3> SUFFICES ASSUME NEW i \in DOMAIN nav', NEW j \in DOMAIN nav', i < j, Commit(j)', nav'[i].tab = nav'[j].tab
                 PROVE  nav'[i].doc < nav'[j].doc
      OBVIOUS
    <3>1. i \in DOMAIN nav
      BY <1>4
    <3>2. CASE j \in DOMAIN nav
      BY <2>3, <3>1, <3>2 DEF Commit, Inv, CommitInv
    <3>3. CASE j \notin DOMAIN nav
      <4>1. nav[i].tab = t /\ nav'[i] = nav[i] /\ nav'[j].doc = d
        BY <2>2, <2>3, <3>1, <3>3
      <4> QED  BY <2>1, <2>4, <3>1, <4>1, NavOfTabs, <1>1
    <3> QED  BY <3>2, <3>3
  <2>9. \A u \in Tab : tracker'[u] # None => tracker'[u].doc <= page'[u].doc
    BY <2>1, <2>6
  <2> QED  BY <2>5, <2>7, <2>8, <2>9 DEF CommitInv, Known
<1>8. ScriptInv'
  BY <1>2 DEF Inv, ScriptInv, Exists, Provider
<1>9. BoundInv'
  <2>1. t \in ProviderTab => BoundAt(t)'
    <3> SUFFICES ASSUME t \in ProviderTab, bound[t] # None
                 PROVE  BoundAt(t)'
      BY DEF BoundAt, Loads, docs
    <3>1. CASE p \in Chat
      <4>1. Arriving(t)'
        BY <3>1, <1>1, <1>2, <1>4 DEF Arriving, Commit, Committed
      <4> QED  BY <3>1, <4>1, <1>2 DEF BoundAt, Provider
    <3>2. CASE p = Away /\ page[t].at # Away
      <4>1. Moving(t)'
        BY <3>2, <1>2, <1>5 DEF Moving, Updated
      <4> QED  BY <3>2, <4>1, <1>2 DEF BoundAt
    <3>3. CASE p = Away /\ page[t].at = Away
      <4>1. ~Provider(t) /\ BoundAt(t) /\ UNCHANGED <<bound, drops, late>>
        BY <3>3, Constants DEF Provider, Inv, BoundInv, Loads, docs, jobs
      <4>2. (Leaving(t) => Leaving(t)') /\ (Moving(t) => Moving(t)')
        BY <3>3, <1>2, <1>5 DEF Leaving, Moving, Extends
      <4> QED  BY <3>3, <4>1, <4>2, <1>2 DEF BoundAt, Kept
    <3> QED  BY <3>1, <3>2, <3>3 DEF Places
  <2> QED  BY <2>1, <1>2, <1>6, MoveKeeps DEF BoundInv, Tab
<1>10. RegInv'
  <2>1. t \in GenericTab => RegAt(t)'
    <3> SUFFICES ASSUME t \in GenericTab, reg[t] # None
                 PROVE  RegAt(t)'
      BY DEF RegAt, Loads, docs
    <3>1. Exists(t)'
      BY <1>1, <1>2 DEF Exists
    <3>2. CASE p # page[t].at
      <4>1. Moving(t)'
        BY <3>2, <1>2, <1>5 DEF Moving, Updated
      <4> QED  BY <3>1, <4>1 DEF RegAt
    <3>3. CASE p = page[t].at
      <4>1. RegAt(t) /\ UNCHANGED <<reg, drops>>
        BY DEF Inv, RegInv, Loads, docs, jobs
      <4>2. (Leaving(t) => Leaving(t)') /\ (Moving(t) => Moving(t)')
        BY <3>3, <1>2, <1>5 DEF Leaving, Moving, Extends
      <4> QED  BY <3>1, <3>3, <4>1, <4>2, <1>2 DEF RegAt
    <3> QED  BY <3>2, <3>3
  <2> QED  BY <2>1, <1>2, <1>6, MoveKeeps DEF RegInv, Tab
<1>11. UnbornInv'
  <2>1. \A u \in Tab : u # t => (page'[u].doc = 0 => ~Exists(u)' /\ (u \in ProviderTab => bound'[u] = None))
    BY <1>2 DEF Inv, UnbornInv, Exists, Loads, docs
  <2> QED  BY <2>1, <1>1, <1>2 DEF UnbornInv
<1>12. RebindInv'
  <2> SUFFICES ASSUME NEW r \in rebinds
               PROVE  /\ page'[r[1]].doc # 0 /\ r[2].doc <= page'[r[1]].doc
                      /\ Exists(r[1])' /\ r[2].doc = page'[r[1]].doc => Provider(r[1])'
    BY DEF RebindInv, Loads, jobs
  <2>1. /\ page[r[1]].doc # 0 /\ r[2].doc <= page[r[1]].doc
        /\ Exists(r[1]) /\ r[2].doc = page[r[1]].doc => Provider(r[1])
    BY DEF Inv, RebindInv
  <2>2. r[1] \in Tab /\ r[2].doc \in Nat
    BY RebindsOfTabs
  <2>3. CASE r[1] = t
    BY <1>1, <1>2, <2>1, <2>2, <2>3 DEF d
  <2>4. CASE r[1] # t
    BY <1>2, <2>1, <2>2, <2>4 DEF Exists, Provider
  <2> QED  BY <2>3, <2>4
<1> QED  BY <1>6, <1>7, <1>8, <1>9, <1>10, <1>11, <1>12, MoveKeeps DEF AllInvs

\* Another route of the same document.
LEMMA RoutesKeeps ==
  ASSUME Inv, Parts, NEW t \in Tab, NEW p \in Places(t), Routes(t, p)
  PROVE  AllInvs' /\ \A u \in Tab : applied'[u] >= applied[u]
<1>1. t \in ProviderTab /\ Exists(t) /\ p \in Chat /\ page[t].at \in Chat /\ p \in Place /\ page[t].doc \in Nat
  BY PagesOfTabs DEF Routes, Place
<1>2. /\ page'[t].doc = page[t].doc /\ page'[t].at = p /\ page'[t].script = page[t].script
      /\ \A u \in Tab : u # t => page'[u] = page[u]
  BY DEF Routes, Parts, BrowserOK, Page
<1>3. Provider(t) /\ Provider(t)' /\ Exists(t)' /\ t \notin GenericTab
  BY <1>1, <1>2, Constants DEF Provider, Exists, Place
<1> DEFINE e == Routed(t, page[t].doc, p)
<1>4. /\ Extends(nav, nav') /\ DOMAIN nav' = 1..(Len(nav) + 1) /\ DOMAIN nav = 1..Len(nav) /\ Len(nav) \in Nat
      /\ nav'[Len(nav) + 1] = e
  <2>1. e \in Nav /\ nav \in Seq(Nav) /\ nav' = Append(nav, e)
    BY <1>1 DEF Routed, Nav, Parts, BrowserOK, Routes
  <2> HIDE DEF e
  <2> QED  BY <2>1, AppendedOne
<1>5. Extends(upd, upd')
  <2>1. Updated(t, p) \in Upd /\ upd \in Seq(Upd) /\ upd' = Append(upd, Updated(t, p))
    BY <1>1 DEF Updated, Upd, Parts, BrowserOK, Routes
  <2> QED  BY <2>1, AppendedOne
<1>6. UNCHANGED <<tracked, docs, jobs, status, chosen>>
  BY DEF Routes
<1>7. MoveDoes
  BY <1>2, <1>3, <1>4, <1>5, <1>6 DEF MoveDoes, Exists, tracked
<1>8. CommitInv'
  <2>1. \A i \in DOMAIN nav' : i \in DOMAIN nav \/ (i = Len(nav) + 1 /\ nav'[i].tab = t /\ nav'[i].doc = page[t].doc /\ nav'[i].kind = "history")
    BY <1>4 DEF Routed
  <2>2. \A i \in DOMAIN nav : nav'[i] = nav[i] /\ i < Len(nav) + 1
    BY <1>4 DEF Extends
  <2>3. \A u \in Tab : page'[u].doc = page[u].doc /\ tracker'[u] = tracker[u]
    BY <1>2, <1>6 DEF tracked
  <2>4. \A i \in DOMAIN nav' : Commit(i)' => i \in DOMAIN nav /\ Commit(i)
    BY <2>1, <2>2 DEF Commit
  <2>5. \A i \in DOMAIN nav' : nav'[i].doc <= page'[nav'[i].tab].doc
    BY <2>1, <2>2, <2>3, <1>1, NavOfTabs DEF Inv, CommitInv
  <2>6. \A i \in DOMAIN nav' : Commit(i)' /\ tracker'[nav'[i].tab] # None => tracker'[nav'[i].tab].doc < nav'[i].doc
    BY <2>2, <2>3, <2>4, NavOfTabs DEF Inv, CommitInv, Known
  <2>7. \A i, j \in DOMAIN nav' : i < j /\ Commit(j)' /\ nav'[i].tab = nav'[j].tab => nav'[i].doc < nav'[j].doc
    <3> SUFFICES ASSUME NEW i \in DOMAIN nav', NEW j \in DOMAIN nav', i < j, Commit(j)', nav'[i].tab = nav'[j].tab
                 PROVE  nav'[i].doc < nav'[j].doc
      OBVIOUS
    <3>1. j \in DOMAIN nav /\ i \in DOMAIN nav /\ Commit(j)
      BY <2>4, <1>4
    <3> QED  BY <2>2, <3>1 DEF Inv, CommitInv
  <2>8. \A u \in Tab : tracker'[u] # None => tracker'[u].doc <= page'[u].doc
    BY <2>3 DEF Inv, CommitInv, Known
  <2> QED  BY <2>5, <2>6, <2>7, <2>8 DEF CommitInv, Known
<1>9. ScriptInv'
  BY <1>2, <1>3 DEF Inv, ScriptInv, Exists, Provider
<1>10. BoundInv'
  <2>1. BoundAt(t)'
    <3>1. BoundAt(t) /\ UNCHANGED <<bound, drops, late>>
      BY <1>1, <1>6 DEF Inv, BoundInv, docs, jobs, tracked
    <3>2. Arriving(t) => Arriving(t)'
      BY <1>2, <1>4 DEF Arriving, Commit, Extends
    <3>3. Leaving(t) => Leaving(t)'
      BY <1>5, LeavingStays
    <3>4. page[t].at # Away
      BY <1>1, Constants
    <3> QED  BY <1>2, <1>3, <3>1, <3>2, <3>3, <3>4 DEF BoundAt, Kept
  <2> QED  BY <2>1, <1>2, <1>7, MoveKeeps DEF BoundInv, Tab
<1>11. RegInv'
  BY <1>2, <1>3, <1>7, MoveKeeps DEF RegInv, Tab
<1>12. UnbornInv'
  BY <1>1, <1>2, <1>3, <1>6 DEF Inv, UnbornInv, Exists, docs
<1>13. RebindInv'
  BY <1>2, <1>3, <1>6, RebindsOfTabs DEF Inv, RebindInv, Exists, Provider, jobs
<1> QED  BY <1>7, <1>8, <1>9, <1>10, <1>11, <1>12, <1>13, MoveKeeps DEF AllInvs

\* Nothing is heard of a document by a step that leaves the navigations alone.
LEMMA CommitStays ==
  ASSUME Inv, Parts, UNCHANGED <<nav, tracker>>, \A u \in Tab : page'[u].doc \in Nat /\ page'[u].doc >= page[u].doc
  PROVE  CommitInv'
<1>1. \A u \in Tab : page[u].doc \in Nat
  BY PagesOfTabs
<1>2. \A u \in Tab : tracker[u] # None => tracker[u].doc \in Nat
  BY DEF Parts, TrackedOK, Mark
<1>3. \A i \in DOMAIN nav : nav[i].doc <= page'[nav[i].tab].doc
  <2> SUFFICES ASSUME NEW i \in DOMAIN nav PROVE nav[i].doc <= page'[nav[i].tab].doc
    OBVIOUS
  <2>1. nav[i].tab \in Tab /\ nav[i].doc \in Nat /\ nav[i].doc <= page[nav[i].tab].doc
    BY NavOfTabs DEF Inv, CommitInv
  <2> QED  BY <2>1, <1>1
<1>4. \A u \in Tab : tracker[u] # None => tracker[u].doc <= page'[u].doc
  BY <1>1, <1>2 DEF Inv, CommitInv, Known
<1> QED  BY <1>3, <1>4 DEF Inv, CommitInv, Commit, Known

\* A tab that closes: its event is on its way.
LEMMA ClosesKeeps ==
  ASSUME Inv, Parts, NEW t \in Tab, Closes(t)
  PROVE  AllInvs' /\ \A u \in Tab : applied'[u] >= applied[u]
<1>1. /\ page'[t].doc = page[t].doc /\ page'[t].at = None /\ ~page'[t].script
      /\ \A u \in Tab : u # t => page'[u] = page[u]
  BY DEF Closes, Parts, BrowserOK, Page
<1>2. ~Exists(t)' /\ Exists(t)
  BY <1>1 DEF Exists, Closes
<1> DEFINE e == [kind |-> "removed", tab |-> t, doc |-> 0, at |-> None]
<1>3. Extends(upd, upd') /\ Leaving(t)'
  <2>1. e \in Upd /\ upd \in Seq(Upd) /\ upd' = Append(upd, e)
    BY DEF Upd, Parts, BrowserOK, Closes
  <2>2. e.kind \in {"removed", "replaced"} /\ e.tab = t
    OBVIOUS
  <2> HIDE DEF e
  <2>3. Extends(upd, upd') /\ Len(upd) + 1 \in DOMAIN upd' /\ upd'[Len(upd) + 1] = e
    BY <2>1, AppendedOne
  <2> QED  BY <2>2, <2>3 DEF Leaving
<1>4. UNCHANGED <<nav, tracked, docs, jobs, status, chosen>>
  BY DEF Closes
<1>5. MoveDoes
  BY <1>1, <1>3, <1>4 DEF MoveDoes, Exists, tracked, Extends
<1>6. CommitInv'
  BY <1>1, <1>4, CommitStays, PagesOfTabs DEF tracked
<1>7. ScriptInv'
  BY <1>1 DEF Inv, ScriptInv, Exists, Provider
<1>8. BoundInv' /\ RegInv'
  <2>1. BoundAt(t)' /\ RegAt(t)'
    BY <1>3 DEF BoundAt, RegAt
  <2> QED  BY <2>1, <1>1, <1>5, MoveKeeps DEF BoundInv, RegInv, Tab
<1>9. UnbornInv'
  BY <1>1, <1>2, <1>4 DEF Inv, UnbornInv, Exists, docs
<1>10. RebindInv'
  BY <1>1, <1>2, <1>4, RebindsOfTabs DEF Inv, RebindInv, Exists, Provider, jobs
<1> QED  BY <1>5, <1>6, <1>7, <1>8, <1>9, <1>10, MoveKeeps DEF AllInvs

\* A prerendered tab takes the place of another one.
LEMMA ReplacesKeeps ==
  ASSUME Inv, Parts, NEW t \in Tab, NEW v \in Tab, Replaces(t, v)
  PROVE  AllInvs' /\ \A u \in Tab : applied'[u] >= applied[u]
<1>1. t # v /\ t \in ProviderTab /\ v \in ProviderTab /\ page[v].doc = 0 /\ Exists(t) /\ bound[v] = None
  BY DEF Replaces, Inv, UnbornInv
<1>2. /\ page'[t].doc = page[t].doc /\ page'[t].at = None /\ ~page'[t].script
      /\ page'[v].doc = 1 /\ page'[v].at = page[t].at /\ ~page'[v].script
      /\ \A u \in Tab : u \notin {t, v} => page'[u] = page[u]
  BY <1>1 DEF Replaces, Parts, BrowserOK, Page
<1>3. ~Exists(t)' /\ Exists(v)'
  BY <1>1, <1>2 DEF Exists
<1> DEFINE e == [kind |-> "replaced", tab |-> t, doc |-> 0, at |-> v]
<1>4. Extends(upd, upd') /\ Leaving(t)'
  <2>1. e \in Upd /\ upd \in Seq(Upd) /\ upd' = Append(upd, e)
    BY <1>1 DEF Upd, Parts, BrowserOK, Replaces
  <2>2. e.kind \in {"removed", "replaced"} /\ e.tab = t
    OBVIOUS
  <2> HIDE DEF e
  <2>3. Extends(upd, upd') /\ Len(upd) + 1 \in DOMAIN upd' /\ upd'[Len(upd) + 1] = e
    BY <2>1, AppendedOne
  <2> QED  BY <2>2, <2>3 DEF Leaving
<1>5. UNCHANGED <<nav, tracked, docs, jobs, status, chosen>>
  BY DEF Replaces
<1>6. MoveDoes
  BY <1>2, <1>3, <1>4, <1>5 DEF MoveDoes, Exists, tracked, Extends
<1>7. CommitInv'
  BY <1>1, <1>2, <1>5, CommitStays, PagesOfTabs DEF tracked
<1>8. ScriptInv'
  BY <1>2 DEF Inv, ScriptInv, Exists, Provider
<1>9. BoundInv' /\ RegInv'
  <2>1. BoundAt(t)' /\ BoundAt(v)'
    BY <1>1, <1>4, <1>5 DEF BoundAt, docs
  <2>2. t \notin GenericTab /\ v \notin GenericTab
    BY <1>1, Constants
  <2> QED  BY <2>1, <2>2, <1>2, <1>6, MoveKeeps DEF BoundInv, RegInv, Tab
<1>10. UnbornInv'
  BY <1>1, <1>2, <1>3, <1>5 DEF Inv, UnbornInv, Exists, docs
<1>11. RebindInv'
  <2> SUFFICES ASSUME NEW r \in rebinds
               PROVE  /\ page'[r[1]].doc # 0 /\ r[2].doc <= page'[r[1]].doc
                      /\ Exists(r[1])' /\ r[2].doc = page'[r[1]].doc => Provider(r[1])'
    BY <1>5 DEF RebindInv, jobs
  <2>1. r[1] # v /\ r[1] \in Tab
    BY <1>1, RebindsOfTabs DEF Inv, RebindInv
  <2> QED  BY <1>2, <1>3, <2>1 DEF Inv, RebindInv, Exists, Provider
<1> QED  BY <1>6, <1>7, <1>8, <1>9, <1>10, <1>11, MoveKeeps DEF AllInvs

LEMMA RevokesCalm ==
  ASSUME NEW s, Revokes(s)
  PROVE  CalmDoes
BY DEF Revokes, CalmDoes, Republishing, tracked, docs, jobs, status, chosen

-----------------------------------------------------------------------------
(* The worker hears of it.                                                  *)

\* Sequences without their head.
LEMMA TailOf ==
  ASSUME NEW S, NEW s \in Seq(S), s # <<>>
  PROVE  /\ Len(s) \in Nat \ {0} /\ DOMAIN s = 1..Len(s) /\ DOMAIN Tail(s) = 1..(Len(s) - 1) /\ 1 \in DOMAIN s /\ Head(s) = s[1]
         /\ \A i \in DOMAIN Tail(s) : i + 1 \in DOMAIN s /\ Tail(s)[i] = s[i + 1]
         /\ \A i \in DOMAIN s : i # 1 => i - 1 \in DOMAIN Tail(s) /\ Tail(s)[i - 1] = s[i]
<1>1. Len(s) \in Nat \ {0} /\ DOMAIN s = 1..Len(s)
  OBVIOUS
<1>2. Tail(s) \in Seq(S) /\ Len(Tail(s)) = Len(s) - 1 /\ \A i \in 1..(Len(s) - 1) : Tail(s)[i] = s[i + 1]
  OBVIOUS
<1> QED  BY <1>1, <1>2

\* What a step that judges an event does to what is known, apart from the event itself.
JudgeDoes ==
    /\ UNCHANGED <<page, rebinds, pub, popup, late>>
    /\ \A t \in Tab : <<t, "tab">> \in drops => <<t, "tab">> \in drops'
    /\ \A t \in GenericTab : <<t, "origin">> \in drops => <<t, "origin">> \in drops'
    /\ \A t \in ProviderTab : bound'[t] \in {bound[t], None}
    /\ \A t \in GenericTab : reg'[t] \in {reg[t], None}
    /\ \A t \in Tab : turn'[t] \in {turn[t], None}
    /\ sel' = None \/ (sel' = sel /\ (asked => asked'))

LEMMA ChangeJudges ==
  ASSUME NEW t, NEW p, NEW d, TabChangeDoes(t, p, d), UNCHANGED <<page, rebinds, pub, popup, late>>
  PROVE  JudgeDoes
BY DEF TabChangeDoes, JudgeDoes, Tab

\* A judgement keeps what is not about the events; the rest if none that it needs is gone.
LEMMA JudgeKeeps ==
  ASSUME Inv, Parts, JudgeDoes
  PROVE  /\ ScriptInv' /\ UnbornInv' /\ RebindInv'
         /\ (\A t \in Tab : Leaving(t) => Leaving(t)' \/ turn'[t] = None) => TurnInv'
         /\ (\A t \in Tab : Leaving(t) => Leaving(t)' \/ asked') => SelInv'
<1>1. ScriptInv' /\ RebindInv'
  BY DEF JudgeDoes, Inv, ScriptInv, RebindInv, Exists, Provider
<1>2. UnbornInv'
  BY DEF JudgeDoes, Inv, UnbornInv, Exists
<1>3. (\A t \in Tab : Leaving(t) => Leaving(t)' \/ turn'[t] = None) => TurnInv'
  BY DEF JudgeDoes, Inv, TurnInv, Exists
<1>4. (\A t \in Tab : Leaving(t) => Leaving(t)' \/ asked') => SelInv'
  <2> SUFFICES ASSUME \A t \in Tab : Leaving(t) => Leaving(t)' \/ asked', sel' = sel, sel # None, asked => asked'
               PROVE  SelInv'
    BY DEF JudgeDoes, SelInv
  <2>1. sel.tab \in Tab
    BY DEF Parts, ChosenOK, Picked
  <2>2. Exists(sel.tab) \/ Leaving(sel.tab) \/ Republishing
    BY DEF Inv, SelInv
  <2>3. Republishing => Republishing'
    BY DEF Republishing, JudgeDoes
  <2>4. \A x \in Tab : x = sel.tab => Exists(x)' \/ Leaving(x)' \/ Republishing'
    BY <2>1, <2>2, <2>3 DEF JudgeDoes, Exists, Republishing
  <2> QED  BY <2>1, <2>4 DEF SelInv
<1> QED  BY <1>1, <1>2, <1>3, <1>4

\* A tab whose events are still to come keeps what is known of it.
LEMMA JudgedTab ==
  ASSUME Inv, Parts, JudgeDoes, NEW t \in Tab,
         Leaving(t) => Leaving(t)', Arriving(t) => Arriving(t)', Moving(t) => Moving(t)'
  PROVE  (t \in ProviderTab => BoundAt(t)') /\ (t \in GenericTab => RegAt(t)')
<1>1. ASSUME t \in ProviderTab
      PROVE  BoundAt(t)'
  <2>1. CASE bound'[t] = bound[t] /\ bound[t] # None
    <3>1. BoundAt(t) /\ (<<t, "tab">> \in drops => <<t, "tab">> \in drops') /\ UNCHANGED <<page, late>>
      BY <1>1 DEF Inv, BoundInv, JudgeDoes
    <3> QED  BY <2>1, <3>1 DEF BoundAt, Kept, Provider
  <2>2. CASE bound'[t] = None
    BY <2>2 DEF BoundAt
  <2> QED  BY <1>1, <2>1, <2>2 DEF JudgeDoes, BoundAt
<1>2. ASSUME t \in GenericTab
      PROVE  RegAt(t)'
  <2>1. CASE reg'[t] = reg[t] /\ reg[t] # None
    <3>1. RegAt(t) /\ (<<t, "origin">> \in drops => <<t, "origin">> \in drops') /\ UNCHANGED page
      BY <1>2 DEF Inv, RegInv, JudgeDoes
    <3> QED  BY <2>1, <3>1 DEF RegAt, Exists
  <2>2. CASE reg'[t] = None
    BY <2>2 DEF RegAt
  <2> QED  BY <1>2, <2>1, <2>2 DEF JudgeDoes, RegAt
<1> QED  BY <1>1, <1>2

\* A navigation of a provider's tab is acted on at once; what was about to end the binding has ended it.
LEMMA NavEventKeeps ==
  ASSUME Inv, Parts, NavEvent
  PROVE  AllInvs' /\ \A u \in Tab : applied'[u] >= applied[u]
<1> DEFINE e == Head(nav)
<1>1. /\ nav # <<>> /\ nav' = Tail(nav) /\ Navigated(e)
      /\ UNCHANGED <<page, permitted, upd, overlapped, late, rebinds, ensure, pub, sent, popup, used>>
  BY DEF NavEvent
<1>2. e \in Nav /\ e = nav[1]
  BY <1>1, HeadOfNav DEF Parts, BrowserOK
<1>3. /\ Len(nav) \in Nat \ {0} /\ DOMAIN nav = 1..Len(nav) /\ DOMAIN nav' = 1..(Len(nav) - 1) /\ 1 \in DOMAIN nav
      /\ \A i \in DOMAIN nav' : i + 1 \in DOMAIN nav /\ nav'[i] = nav[i + 1]
      /\ \A i \in DOMAIN nav : i # 1 => i - 1 \in DOMAIN nav' /\ nav'[i - 1] = nav[i]
  <2>1. nav \in Seq(Nav)
    BY DEF Parts, BrowserOK
  <2> QED  BY <1>1, <2>1, TailOf
<1>4. e.tab \in Tab /\ e.at \in Place /\ e.doc \in Nat /\ NewDoc(e) \in Nat /\ accepted \in Nat /\ e.kind \in {"committed", "history"}
  BY <1>2 DEF Nav, NewDoc, Parts, TrackedOK
<1> HIDE DEF e
<1>5. /\ \A u \in Tab : applied[u] \in Nat
      /\ \A u \in Tab : Known(u) => tracker[u].seq \in Nat /\ tracker[u].doc \in Nat
  BY DEF Parts, TrackedOK, Mark, Known
<1>6. /\ \A u \in Tab : tracker'[u] = tracker[u] \/ (u = e.tab /\ tracker'[u] = [doc |-> e.doc, at |-> e.at, seq |-> accepted + 1])
      /\ \/ UNCHANGED <<tracker, accepted, applied>>
         \/ /\ tracker' = [tracker EXCEPT ![e.tab] = [doc |-> e.doc, at |-> e.at, seq |-> accepted + 1]]
            /\ accepted' = accepted + 1
            /\ applied' = applied \/ applied' = [applied EXCEPT ![e.tab] = accepted + 1]
  BY <1>1 DEF Navigated, Track, Parts, TrackedOK
<1>7. SeqInv' /\ \A u \in Tab : applied'[u] >= applied[u]
  <2>1. CASE UNCHANGED <<tracker, accepted, applied>>
    BY <2>1, <1>5 DEF Inv, SeqInv, Known
  <2>2. CASE /\ tracker' = [tracker EXCEPT ![e.tab] = [doc |-> e.doc, at |-> e.at, seq |-> accepted + 1]]
             /\ accepted' = accepted + 1
             /\ applied' = applied \/ applied' = [applied EXCEPT ![e.tab] = accepted + 1]
    <3>1. \A u \in Tab : applied'[u] \in {applied[u], accepted + 1} /\ (u # e.tab => applied'[u] = applied[u])
      BY <2>2, <1>4 DEF Parts, TrackedOK
    <3>2. /\ \A u \in Tab : u # e.tab => tracker'[u] = tracker[u]
          /\ tracker'[e.tab].seq = accepted + 1
      BY <2>2, <1>4 DEF Parts, TrackedOK
    <3>3. \A u \in Tab : applied[u] <= accepted /\ (tracker[u] # None => applied[u] <= tracker[u].seq /\ tracker[u].seq <= accepted)
      BY DEF Inv, SeqInv, Known
    <3>4. \A u \in Tab : tracker[u] # None => tracker[u].seq \in Nat
      BY <1>5 DEF Known
    <3>5. \A u \in Tab : applied'[u] <= accepted' /\ applied'[u] >= applied[u]
      BY <2>2, <3>1, <3>3, <1>4, <1>5
    <3>6. \A u \in Tab : tracker'[u] # None => applied'[u] <= tracker'[u].seq /\ tracker'[u].seq <= accepted'
      BY <2>2, <3>1, <3>2, <3>3, <3>4, <1>4, <1>5
    <3> QED  BY <3>5, <3>6 DEF SeqInv, Known
  <2> QED  BY <1>6, <2>1, <2>2
<1>8. CommitInv'
  <2>1. \A i \in DOMAIN nav : nav[i].doc <= page[nav[i].tab].doc /\ nav[i].tab \in Tab /\ nav[i].doc \in Nat
    BY NavOfTabs DEF Inv, CommitInv
  <2>2. \A i \in DOMAIN nav' : nav'[i].doc <= page'[nav'[i].tab].doc
    BY <2>1, <1>1, <1>3
  <2>3. \A j \in DOMAIN nav : j # 1 /\ Commit(j) /\ nav[j].tab = e.tab => e.doc < nav[j].doc
    BY <1>2, <1>3 DEF Inv, CommitInv
  <2>4. \A i \in DOMAIN nav' : Commit(i)' => i + 1 \in DOMAIN nav /\ Commit(i + 1) /\ nav'[i] = nav[i + 1] /\ i + 1 # 1
    BY <1>3 DEF Commit
  <2>5. \A i \in DOMAIN nav' : Commit(i)' /\ tracker'[nav'[i].tab] # None => tracker'[nav'[i].tab].doc < nav'[i].doc
    <3> SUFFICES ASSUME NEW i \in DOMAIN nav', Commit(i)', tracker'[nav'[i].tab] # None
                 PROVE  tracker'[nav'[i].tab].doc < nav'[i].doc
      OBVIOUS
    <3>1. i + 1 \in DOMAIN nav /\ Commit(i + 1) /\ nav'[i] = nav[i + 1] /\ i + 1 # 1 /\ nav'[i].tab \in Tab
      BY <2>4, <2>1
    <3>2. CASE tracker'[nav'[i].tab] = tracker[nav'[i].tab]
      BY <3>1, <3>2 DEF Inv, CommitInv, Known
    <3>3. CASE nav'[i].tab = e.tab /\ tracker'[nav'[i].tab] = [doc |-> e.doc, at |-> e.at, seq |-> accepted + 1]
      BY <2>3, <3>1, <3>3
    <3> QED  BY <1>6, <3>1, <3>2, <3>3
  <2>6. \A i, j \in DOMAIN nav' : i < j /\ Commit(j)' /\ nav'[i].tab = nav'[j].tab => nav'[i].doc < nav'[j].doc
    <3> SUFFICES ASSUME NEW i \in DOMAIN nav', NEW j \in DOMAIN nav', i < j, Commit(j)', nav'[i].tab = nav'[j].tab
                 PROVE  nav'[i].doc < nav'[j].doc
      OBVIOUS
    <3>1. i + 1 \in DOMAIN nav /\ nav'[i] = nav[i + 1] /\ j + 1 \in DOMAIN nav /\ Commit(j + 1) /\ nav'[j] = nav[j + 1] /\ i + 1 < j + 1
      BY <1>3, <2>4
    <3> QED  BY <3>1 DEF Inv, CommitInv
  <2>7. \A u \in Tab : tracker'[u] # None => tracker'[u].doc <= page'[u].doc
    <3>1. e.doc <= page[e.tab].doc
      BY <1>2, <1>3, <2>1
    <3> QED  BY <1>1, <1>6, <3>1 DEF Inv, CommitInv, Known
  <2> QED  BY <2>2, <2>5, <2>6, <2>7 DEF CommitInv, Known
<1>9. \A u \in Tab : (Leaving(u)' <=> Leaving(u)) /\ (Moving(u)' <=> Moving(u))
  BY <1>1 DEF Leaving, Moving
<1>10. \A u \in Tab : Arriving(u) => Arriving(u)' \/ (u = e.tab /\ e.kind = "committed" /\ e.doc # 0 /\ e.doc = page[u].doc /\ e.at \in Chat)
  <2> SUFFICES ASSUME NEW u \in Tab, NEW i \in DOMAIN nav, Commit(i), nav[i].tab = u, nav[i].doc = page[u].doc, nav[i].at \in Chat
               PROVE  Arriving(u)' \/ (u = e.tab /\ e.kind = "committed" /\ e.doc # 0 /\ e.doc = page[u].doc /\ e.at \in Chat)
    BY DEF Arriving
  <2>1. CASE i = 1
    BY <2>1, <1>2 DEF Commit
  <2>2. CASE i # 1
    <3>1. i - 1 \in DOMAIN nav' /\ nav'[i - 1] = nav[i]
      BY <2>2, <1>3
    <3> QED  BY <3>1, <1>1 DEF Arriving, Commit
  <2> QED  BY <2>1, <2>2
<1>11. CASE e.at \in Site \/ ~Accepts(e)
  <2>1. UNCHANGED <<docs, sel, drops, probes, asked>>
    BY <1>1, <1>11 DEF Navigated
  <2>2. JudgeDoes
    BY <2>1, <1>1 DEF JudgeDoes, docs
  <2>3. \A u \in ProviderTab : Arriving(u) => Arriving(u)'
    <3> SUFFICES ASSUME NEW u \in ProviderTab, u = e.tab, e.kind = "committed", e.doc # 0, e.doc = page[u].doc, e.at \in Chat
                 PROVE  FALSE
      BY <1>10 DEF Tab
    <3>1. Commit(1)
      BY <1>2 DEF Commit
    <3>2. Known(e.tab) => tracker[e.tab].doc < e.doc
      BY <3>1, <1>2, <1>3 DEF Inv, CommitInv
    <3>3. Accepts(e)
      BY <3>2, <1>4, <1>5 DEF Accepts
    <3> QED  BY <3>3, <1>11, Constants
  <2>4. BoundInv' /\ RegInv'
    <3>1. \A u \in ProviderTab : BoundAt(u)'
      BY <2>2, <2>3, <1>9, JudgedTab DEF Tab
    <3>2. \A u \in GenericTab : RegAt(u)'
      <4> SUFFICES ASSUME NEW u \in GenericTab PROVE RegAt(u)'
        OBVIOUS
      <4>1. RegAt(u) /\ u \in Tab /\ reg' = reg /\ drops' = drops /\ page' = page
        BY <2>1, <1>1 DEF Inv, RegInv, Tab, docs
      <4> QED  BY <4>1, <1>9 DEF RegAt, Exists
    <3> QED  BY <3>1, <3>2 DEF BoundInv, RegInv
  <2> QED  BY <2>2, <2>4, <1>7, <1>8, <1>9, JudgeKeeps DEF AllInvs
<1>12. CASE e.at \notin Site /\ Accepts(e)
  <2>1. TabChange(e.tab, e.at, NewDoc(e))
    BY <1>1, <1>12 DEF Navigated
  <2>2. TabChangeDoes(e.tab, e.at, NewDoc(e))
    BY <2>1, <1>4, Changes
  <2>3. JudgeDoes
    BY <2>2, <1>1, ChangeJudges
  <2>4. \A u \in ProviderTab : BoundAt(u)'
    <3> SUFFICES ASSUME NEW u \in ProviderTab PROVE BoundAt(u)'
      OBVIOUS
    <3>1. u \in Tab
      BY DEF Tab
    <3>2. CASE Arriving(u) => Arriving(u)'
      BY <3>1, <3>2, <2>3, <1>9, JudgedTab
    <3>3. CASE u = e.tab /\ e.kind = "committed" /\ e.doc # 0 /\ e.doc = page[u].doc /\ e.at \in Chat
      <4>1. NewDoc(e) = e.doc
        BY <3>3 DEF NewDoc
      <4>2. bound'[u] # None => bound'[u] = bound[u] /\ bound[u] # None
        BY <2>3 DEF JudgeDoes
      <4>3. bound'[u] # None => bound[u].doc = e.doc
        BY <2>2, <3>3, <4>1, <4>2 DEF TabChangeDoes
      <4>4. bound'[u] # None /\ Provider(u) => Kept(u)'
        BY <3>3, <4>2, <4>3, <1>1 DEF Kept, Provider
      <4>5. BoundAt(u) /\ (<<u, "tab">> \in drops => <<u, "tab">> \in drops') /\ UNCHANGED <<page, late>>
        BY <3>1, <2>3 DEF Inv, BoundInv, JudgeDoes
      <4> QED  BY <3>1, <4>2, <4>4, <4>5, <1>9 DEF BoundAt, Kept, Provider
    <3> QED  BY <3>1, <3>2, <3>3, <1>10
  <2>5. \A u \in GenericTab : RegAt(u)'
    <3> SUFFICES ASSUME NEW u \in GenericTab, reg[u] # None PROVE RegAt(u)'
      BY <2>2 DEF TabChangeDoes, RegAt
    <3>1. RegAt(u) /\ u \in Tab /\ reg' = reg /\ page' = page /\ (<<u, "origin">> \in drops => <<u, "origin">> \in drops')
      BY <2>2, <1>1 DEF Inv, RegInv, Tab, TabChangeDoes
    <3> QED  BY <3>1, <1>9 DEF RegAt, Exists
  <2> QED  BY <2>3, <2>4, <2>5, <1>7, <1>8, <1>9, JudgeKeeps DEF AllInvs, BoundInv, RegInv
<1> QED  BY <1>7, <1>11, <1>12

\* A tab the tracker forgets can be told of nothing it knew already.
LEMMA CommitForgets ==
  ASSUME Inv, Parts, UNCHANGED <<nav, page>>, \A u \in Tab : tracker'[u] \in {tracker[u], None}
  PROVE  CommitInv'
<1>1. \A i \in DOMAIN nav : nav[i].tab \in Tab
  BY NavOfTabs
<1>2. \A i \in DOMAIN nav : Commit(i) /\ tracker'[nav[i].tab] # None => tracker'[nav[i].tab].doc < nav[i].doc
  BY <1>1 DEF Inv, CommitInv, Known
<1>3. \A u \in Tab : tracker'[u] # None => tracker'[u].doc <= page[u].doc
  BY DEF Inv, CommitInv, Known
<1> QED  BY <1>2, <1>3 DEF Inv, CommitInv, Commit, Known

\* The permission of a website was read.
LEMMA PermittedKeeps ==
  ASSUME Inv, Parts, NEW c \in checks, Permitted(c)
  PROVE  AllInvs' /\ \A u \in Tab : applied'[u] >= applied[u]
<1>1. c.tab \in Tab /\ c.at \in Place /\ c.doc \in Nat /\ c.seq \in Nat
  BY DEF Parts, TrackedOK, Check
<1>2. UNCHANGED <<page, nav, upd, accepted, late, rebinds, pub, popup>>
  BY DEF Permitted, browser
<1>3. \A u \in Tab : (Leaving(u)' <=> Leaving(u)) /\ (Moving(u)' <=> Moving(u)) /\ (Arriving(u)' <=> Arriving(u))
  BY <1>2 DEF Leaving, Moving, Arriving, Commit
<1>4. JudgeDoes
  <2>1. CASE ~StillCurrent(c)
    BY <2>1, <1>2 DEF Permitted, JudgeDoes, docs
  <2>2. CASE StillCurrent(c) /\ c.at \in permitted
    <3>1. TabChangeDoes(c.tab, c.at, c.doc)
      BY <2>2, <1>1, Changes DEF Permitted
    <3> QED  BY <3>1, <1>2, ChangeJudges
  <2>3. CASE StillCurrent(c) /\ c.at \notin permitted
    <3>1. /\ reg' = [reg EXCEPT ![c.tab] = None] /\ FailRequests(c.tab) /\ sel' = Deselect(c.tab) /\ asked'
          /\ UNCHANGED <<bound, drops>>
      BY <2>3 DEF Permitted, Refresh
    <3>2. \A u \in GenericTab : reg'[u] \in {reg[u], None}
      BY <3>1 DEF Parts, DocsOK
    <3>3. \A u \in Tab : turn'[u] \in {turn[u], None}
      BY <3>1 DEF FailRequests, Parts, DocsOK
    <3> QED  BY <3>1, <3>2, <3>3, <1>2 DEF JudgeDoes, Deselect
  <2> QED  BY <2>1, <2>2, <2>3
<1>5. /\ \A u \in Tab : tracker'[u] \in {tracker[u], None}
      /\ \A u \in Tab : applied'[u] = applied[u] \/ (u = c.tab /\ StillCurrent(c) /\ applied'[u] = c.seq)
  BY DEF Permitted, Parts, TrackedOK
<1>6. SeqInv' /\ \A u \in Tab : applied'[u] >= applied[u]
  <2>1. \A u \in Tab : /\ applied[u] \in Nat /\ applied[u] <= accepted
                       /\ tracker[u] # None => applied[u] <= tracker[u].seq /\ tracker[u].seq <= accepted
    BY DEF Inv, SeqInv, Known, Parts, TrackedOK
  <2>2. \A u \in Tab : applied'[u] # applied[u] => tracker[u] # None /\ applied'[u] = tracker[u].seq
    BY <1>5 DEF StillCurrent, Known
  <2>3. \A u \in Tab : tracker[u] # None => tracker[u].seq \in Nat
    BY DEF Parts, TrackedOK, Mark
  <2>4. accepted' = accepted /\ accepted \in Nat
    BY <1>2 DEF Parts, TrackedOK
  <2>5. \A u \in Tab : applied'[u] <= accepted' /\ applied'[u] >= applied[u]
    BY <2>1, <2>2, <2>3, <2>4
  <2>6. \A u \in Tab : tracker'[u] # None => applied'[u] <= tracker'[u].seq /\ tracker'[u].seq <= accepted'
    BY <2>1, <2>2, <2>3, <2>4, <1>5
  <2> QED  BY <2>5, <2>6 DEF SeqInv, Known
<1>7. CommitInv'
  BY <1>2, <1>5, CommitForgets
<1>8. BoundInv' /\ RegInv'
  BY <1>3, <1>4, JudgedTab DEF BoundInv, RegInv, Tab
<1> QED  BY <1>3, <1>4, <1>6, <1>7, <1>8, JudgeKeeps DEF AllInvs

\* A new address ends the binding or the registration it moved from.
LEMMA UpdEventKeeps ==
  ASSUME Inv, Parts, UpdEvent
  PROVE  AllInvs' /\ \A u \in Tab : applied'[u] >= applied[u]
<1> DEFINE e == Head(upd)
<1>1. /\ upd # <<>> /\ upd' = Tail(upd) /\ e.kind \in {"url", "complete"} /\ TabChange(e.tab, e.at, 0)
      /\ UNCHANGED <<page, nav, tracked, rebinds, pub, popup>>
  BY DEF UpdEvent
<1>2. e \in Upd /\ e.tab \in Tab /\ e = upd[1]
  BY <1>1, HeadOfUpd DEF Parts, BrowserOK
<1>3. \A i \in DOMAIN upd : i # 1 => i - 1 \in DOMAIN upd' /\ upd'[i - 1] = upd[i]
  <2>1. upd \in Seq(Upd)
    BY DEF Parts, BrowserOK
  <2> QED  BY <1>1, <2>1, TailOf
<1> HIDE DEF e
<1>4. e.at \in Place \cup {None} /\ (e.kind = "url" => e.at \in Place /\ e.at # None)
  BY <1>1, <1>2, Constants DEF Upd
<1>5. TabChangeDoes(e.tab, e.at, 0)
  BY <1>1, <1>2, <1>4, Changes
<1>6. JudgeDoes
  BY <1>1, <1>5, ChangeJudges DEF tracked
<1>7. \A u \in Tab : /\ Arriving(u)' <=> Arriving(u)
                     /\ Leaving(u) => Leaving(u)'
                     /\ Moving(u) => Moving(u)' \/ (u = e.tab /\ e.kind = "url" /\ e.at = page[u].at)
  <2>1. \A u \in Tab : Arriving(u)' <=> Arriving(u)
    BY <1>1 DEF Arriving, Commit
  <2>2. ASSUME NEW u \in Tab, Leaving(u) PROVE Leaving(u)'
    <3>1. PICK i \in DOMAIN upd : upd[i].kind \in {"removed", "replaced"} /\ upd[i].tab = u
      BY <2>2 DEF Leaving
    <3>2. i # 1
      BY <3>1, <1>1, <1>2
    <3> QED  BY <3>1, <3>2, <1>3 DEF Leaving
  <2>3. ASSUME NEW u \in Tab, Moving(u) PROVE Moving(u)' \/ (u = e.tab /\ e.kind = "url" /\ e.at = page[u].at)
    <3>1. PICK i \in DOMAIN upd : upd[i].kind = "url" /\ upd[i].tab = u /\ upd[i].at = page[u].at
      BY <2>3 DEF Moving
    <3>2. CASE i = 1
      BY <3>1, <3>2, <1>2
    <3>3. CASE i # 1
      BY <3>1, <3>3, <1>1, <1>3 DEF Moving
    <3> QED  BY <3>2, <3>3
  <2> QED  BY <2>1, <2>2, <2>3
<1>8. SeqInv' /\ \A u \in Tab : applied'[u] >= applied[u]
  <2>1. \A u \in Tab : applied[u] \in Nat
    BY DEF Parts, TrackedOK
  <2> QED  BY <1>1, <2>1 DEF Inv, SeqInv, Known, tracked
<1>9. CommitInv'
  BY <1>1, CommitForgets DEF tracked
<1>10. \A u \in ProviderTab : BoundAt(u)'
  <2> SUFFICES ASSUME NEW u \in ProviderTab PROVE BoundAt(u)'
    OBVIOUS
  <2>1. u \in Tab
    BY DEF Tab
  <2>2. CASE Moving(u) => Moving(u)'
    BY <2>1, <2>2, <1>6, <1>7, JudgedTab
  <2>3. CASE u = e.tab /\ e.kind = "url" /\ e.at = page[u].at
    <3>1. page[u].at = Away => <<u, "tab">> \in drops'
      BY <2>3, <1>4, <1>5, Constants DEF TabChangeDoes
    <3>2. BoundAt(u) /\ (<<u, "tab">> \in drops => <<u, "tab">> \in drops') /\ UNCHANGED <<page, late>>
          /\ bound'[u] \in {bound[u], None}
      BY <2>1, <1>6 DEF Inv, BoundInv, JudgeDoes
    <3> QED  BY <2>1, <3>1, <3>2, <1>7 DEF BoundAt, Kept, Provider
  <2> QED  BY <2>1, <2>2, <2>3, <1>7
<1>11. \A u \in GenericTab : RegAt(u)'
  <2> SUFFICES ASSUME NEW u \in GenericTab, reg[u] # None PROVE RegAt(u)'
    BY <1>5 DEF TabChangeDoes, RegAt
  <2>1. u \in Tab
    BY DEF Tab
  <2>2. CASE Moving(u) => Moving(u)'
    BY <2>1, <2>2, <1>6, <1>7, JudgedTab
  <2>3. CASE u = e.tab /\ e.kind = "url" /\ e.at = page[u].at
    <3>1. IsGeneric(e.tab) /\ e.at # None
      BY <2>3, <1>4 DEF IsGeneric
    <3>2. page[u].at # reg[u].at => <<u, "origin">> \in drops'
      BY <2>3, <1>5, <3>1 DEF TabChangeDoes
    <3>3. reg' = reg /\ page' = page
      BY <1>1, <1>5 DEF TabChangeDoes
    <3> QED  BY <3>2, <3>3 DEF RegAt
  <2> QED  BY <2>1, <2>2, <2>3, <1>7
<1> QED  BY <1>6, <1>7, <1>8, <1>9, <1>10, <1>11, JudgeKeeps DEF AllInvs, BoundInv, RegInv

\* What both handlers of a tab that is gone do.
LEMMA GoneDoes ==
  ASSUME Parts, NEW t \in Tab, Gone(t)
  PROVE  /\ \A u \in Tab : bound'[u] \in {bound[u], None} /\ bound'[t] = None
         /\ \A u \in Tab : turn'[u] \in {turn[u], None} /\ turn'[t] = None
         /\ sel' \in {sel, None}
BY DEF Gone, FailRequests, Deselect, Parts, DocsOK

LEMMA GoneHeads ==
  ASSUME Parts, upd # <<>>, upd' = Tail(upd), Head(upd).kind \in {"removed", "replaced"}, NEW u \in Tab, page' = page
  PROVE  /\ Moving(u) => Moving(u)'
         /\ Leaving(u) => Leaving(u)' \/ u = Head(upd).tab
<1>1. /\ Head(upd) = upd[1]
      /\ \A i \in DOMAIN upd : i # 1 => i - 1 \in DOMAIN upd' /\ upd'[i - 1] = upd[i]
  <2>1. upd \in Seq(Upd)
    BY DEF Parts, BrowserOK
  <2> QED  BY <2>1, TailOf
<1>2. ASSUME Moving(u) PROVE Moving(u)'
  <2>1. PICK i \in DOMAIN upd : upd[i].kind = "url" /\ upd[i].tab = u /\ upd[i].at = page[u].at
    BY <1>2 DEF Moving
  <2>2. i # 1
    BY <2>1, <1>1
  <2> QED  BY <2>1, <2>2, <1>1 DEF Moving
<1>3. ASSUME Leaving(u), u # Head(upd).tab PROVE Leaving(u)'
  <2>1. PICK i \in DOMAIN upd : upd[i].kind \in {"removed", "replaced"} /\ upd[i].tab = u
    BY <1>3 DEF Leaving
  <2>2. i # 1
    BY <2>1, <1>1, <1>3
  <2> QED  BY <2>1, <2>2, <1>1 DEF Leaving
<1> QED  BY <1>2, <1>3

LEMMA RemEventKeeps ==
  ASSUME Inv, Parts, RemEvent
  PROVE  AllInvs' /\ \A u \in Tab : applied'[u] >= applied[u]
<1>0. Head(upd).tab \in Tab
  BY HeadOfUpd DEF RemEvent
<1> PICK t \in Tab : t = Head(upd).tab
  BY <1>0
<1>1. /\ upd # <<>> /\ upd' = Tail(upd) /\ Head(upd).kind \in {"removed", "replaced"}
      /\ Gone(t) /\ tracker' = [tracker EXCEPT ![t] = None]
      /\ reg' = [r \in GenericTab |-> IF r = t THEN None ELSE reg[r]] /\ asked'
      /\ UNCHANGED <<page, nav, accepted, applied, late, jobs, pub, popup>>
  BY DEF RemEvent, Refresh
<1>3. \A u \in Tab : (Moving(u) => Moving(u)') /\ (Leaving(u) => Leaving(u)' \/ u = t) /\ (Arriving(u) => Arriving(u)')
  BY <1>1, GoneHeads DEF Arriving, Commit
<1>4. JudgeDoes
  BY <1>1, GoneDoes DEF JudgeDoes, jobs, Tab
<1>5. \A u \in Tab : tracker'[u] \in {tracker[u], None}
  BY <1>1 DEF Parts, TrackedOK
<1>6. SeqInv' /\ \A u \in Tab : applied'[u] >= applied[u]
  <2>1. \A u \in Tab : applied[u] \in Nat
    BY DEF Parts, TrackedOK
  <2> QED  BY <1>1, <1>5, <2>1 DEF Inv, SeqInv, Known
<1>7. CommitInv'
  BY <1>1, <1>5, CommitForgets
<1>8. BoundInv' /\ RegInv'
  <2>1. \A u \in Tab : u # t => (u \in ProviderTab => BoundAt(u)') /\ (u \in GenericTab => RegAt(u)')
    BY <1>3, <1>4, JudgedTab
  <2>2. (t \in ProviderTab => BoundAt(t)') /\ (t \in GenericTab => RegAt(t)')
    BY <1>1, GoneDoes DEF BoundAt, RegAt
  <2> QED  BY <2>1, <2>2 DEF BoundInv, RegInv, Tab
<1>9. TurnInv' /\ SelInv'
  BY <1>1, <1>3, <1>4, JudgeKeeps, GoneDoes
<1> QED  BY <1>4, <1>6, <1>7, <1>8, <1>9, JudgeKeeps DEF AllInvs

LEMMA ReplEventKeeps ==
  ASSUME Inv, Parts, Parts', ReplEvent
  PROVE  AllInvs' /\ \A u \in Tab : applied'[u] >= applied[u]
<1>0. /\ upd # <<>> /\ Head(upd).kind = "replaced" /\ Head(upd) \in Upd
      /\ Head(upd).tab \in ProviderTab /\ Head(upd).at \in ProviderTab
  <2>1. upd # <<>> /\ Head(upd).kind = "replaced"
    BY DEF ReplEvent
  <2>2. Head(upd) \in Upd
    BY <2>1, HeadOfUpd
  <2> QED  BY <2>1, <2>2 DEF Upd
<1> PICK t \in ProviderTab, v \in ProviderTab : t = Head(upd).tab /\ v = Head(upd).at
  BY <1>0
<1>1. /\ upd # <<>> /\ upd' = Tail(upd) /\ Head(upd).kind = "replaced"
      /\ Gone(t) /\ tracker' = [tracker EXCEPT ![t] = None, ![v] = None]
      /\ nav' = (IF Exists(v) THEN <<Committed(v, 0, page[v].at)>> \o nav ELSE nav) /\ asked'
      /\ UNCHANGED <<page, accepted, applied, late, reg, jobs, pub, popup>>
  BY DEF ReplEvent, Refresh
<1>2. t \in Tab /\ v \in Tab /\ t \notin GenericTab
  BY Constants DEF Tab
<1>3. \A u \in Tab : (Moving(u) => Moving(u)') /\ (Leaving(u) => Leaving(u)' \/ u = t)
  BY <1>1, GoneHeads
<1>4. PICK k \in {0, 1} :
        /\ DOMAIN nav' = 1..(Len(nav) + k) /\ DOMAIN nav = 1..Len(nav) /\ Len(nav) \in Nat
        /\ \A i \in DOMAIN nav : i + k \in DOMAIN nav' /\ nav'[i + k] = nav[i]
        /\ k = 1 => nav'[1].doc = 0 /\ nav'[1].tab = v
  <2>1. nav \in Seq(Nav)
    BY DEF Parts, BrowserOK
  <2>2. CASE ~Exists(v)
    BY <1>1, <2>1, <2>2
  <2>3. CASE Exists(v)
    <3>1. Committed(v, 0, page[v].at) \in Nav
      BY <1>2, <2>3, PagesOfTabs DEF Committed, Nav, Exists
    <3>2. nav' = <<Committed(v, 0, page[v].at)>> \o nav /\ <<Committed(v, 0, page[v].at)>> \in Seq(Nav)
      BY <1>1, <2>3, <3>1
    <3>3. /\ Len(nav') = 1 + Len(nav) /\ nav'[1] = Committed(v, 0, page[v].at) /\ nav' \in Seq(Nav)
          /\ \A i \in DOMAIN nav : nav'[i + 1] = nav[i]
      BY <2>1, <3>2
    <3> QED  BY <2>1, <3>3 DEF Committed
  <2> QED  BY <2>2, <2>3
<1>5. ASSUME NEW u \in Tab, Arriving(u) PROVE Arriving(u)'
  <2>1. PICK i \in DOMAIN nav : Commit(i) /\ nav[i].tab = u /\ nav[i].doc = page[u].doc /\ nav[i].at \in Chat
    BY <1>5 DEF Arriving
  <2>2. i + k \in DOMAIN nav' /\ nav'[i + k] = nav[i] /\ page' = page
    BY <1>1, <1>4
  <2> QED  BY <2>1, <2>2 DEF Arriving, Commit
<1>6. JudgeDoes
  BY <1>1, <1>2, GoneDoes DEF JudgeDoes, jobs, Tab
<1>7. \A u \in Tab : tracker'[u] \in {tracker[u], None}
  BY <1>1 DEF Parts, TrackedOK
<1>8. SeqInv' /\ \A u \in Tab : applied'[u] >= applied[u]
  <2>1. \A u \in Tab : applied[u] \in Nat
    BY DEF Parts, TrackedOK
  <2>2. accepted' = accepted /\ applied' = applied
    BY <1>1
  <2> QED  BY <1>7, <2>1, <2>2 DEF Inv, SeqInv, Known
<1>9. CommitInv'
  <2>1. \A i \in DOMAIN nav' : \/ i - k \in DOMAIN nav /\ nav'[i] = nav[i - k]
                               \/ k = 1 /\ i = 1 /\ nav'[i].doc = 0 /\ nav'[i].tab = v
    BY <1>4
  <2>2. \A i \in DOMAIN nav : nav[i].doc <= page[nav[i].tab].doc /\ nav[i].tab \in Tab /\ nav[i].doc \in Nat
    BY NavOfTabs DEF Inv, CommitInv
  <2>3. \A i \in DOMAIN nav' : nav'[i].doc <= page'[nav'[i].tab].doc
    BY <2>1, <2>2, <1>1, <1>2, PagesOfTabs
  <2>4. \A i \in DOMAIN nav' : Commit(i)' => i - k \in DOMAIN nav /\ nav'[i] = nav[i - k] /\ Commit(i - k)
    BY <2>1 DEF Commit
  <2>5. \A i \in DOMAIN nav' : Commit(i)' /\ tracker'[nav'[i].tab] # None => tracker'[nav'[i].tab].doc < nav'[i].doc
    BY <2>2, <2>4, <1>7 DEF Inv, CommitInv, Known
  <2>6. \A i, j \in DOMAIN nav' : i < j /\ Commit(j)' /\ nav'[i].tab = nav'[j].tab => nav'[i].doc < nav'[j].doc
    <3> SUFFICES ASSUME NEW i \in DOMAIN nav', NEW j \in DOMAIN nav', i < j, Commit(j)', nav'[i].tab = nav'[j].tab
                 PROVE  nav'[i].doc < nav'[j].doc
      OBVIOUS
    <3>1. j - k \in DOMAIN nav /\ nav'[j] = nav[j - k] /\ Commit(j - k)
      BY <2>4
    <3>2. CASE i - k \in DOMAIN nav /\ nav'[i] = nav[i - k]
      <4>1. i - k < j - k
        BY <1>4
      <4> QED  BY <3>1, <3>2, <4>1 DEF Inv, CommitInv
    <3>3. CASE nav'[i].doc = 0
      BY <3>1, <3>3, <2>2 DEF Commit
    <3> QED  BY <2>1, <3>2, <3>3
  <2>7. \A u \in Tab : tracker'[u] # None => tracker'[u].doc <= page'[u].doc
    BY <1>1, <1>7 DEF Inv, CommitInv, Known
  <2> QED  BY <2>3, <2>5, <2>6, <2>7 DEF CommitInv, Known
<1>10. BoundInv' /\ RegInv'
  <2>1. \A u \in Tab : u # t => (u \in ProviderTab => BoundAt(u)') /\ (u \in GenericTab => RegAt(u)')
    BY <1>3, <1>5, <1>6, JudgedTab
  <2>2. BoundAt(t)'
    BY <1>1, <1>2, GoneDoes DEF BoundAt
  <2> QED  BY <2>1, <2>2, <1>2 DEF BoundInv, RegInv, Tab
<1>11. TurnInv' /\ SelInv'
  BY <1>1, <1>2, <1>3, <1>6, JudgeKeeps, GoneDoes
<1> QED  BY <1>6, <1>8, <1>9, <1>10, <1>11, JudgeKeeps DEF AllInvs

-----------------------------------------------------------------------------
\* The tabs the person has used are bound to their pages.
LEMMA InitInv ==
  ASSUME Init
  PROVE  Inv
<1>0. Start \in Chat /\ Start \in Place /\ HomeSite \in Place /\ Start # None /\ HomeSite # None /\ None \notin Place
  BY Constants DEF Place
<1>1. \A t \in Tab : page[t] = IF t \notin Opened THEN [doc |-> 0, at |-> None, script |-> FALSE]
                              ELSE [doc |-> 1, at |-> IF t \in ProviderTab THEN Start ELSE HomeSite, script |-> TRUE]
  BY DEF Init
<1>2. \A t \in Tab : /\ t \notin Opened => page[t].doc = 0 /\ page[t].at = None /\ ~page[t].script
                     /\ t \in Opened => page[t].doc = 1 /\ page[t].at = IF t \in ProviderTab THEN Start ELSE HomeSite
  <2> SUFFICES ASSUME NEW t \in Tab
               PROVE  /\ t \notin Opened => page[t].doc = 0 /\ page[t].at = None /\ ~page[t].script
                      /\ t \in Opened => page[t].doc = 1 /\ page[t].at = IF t \in ProviderTab THEN Start ELSE HomeSite
    OBVIOUS
  <2>1. CASE t \notin Opened
    <3>1. page[t] = [doc |-> 0, at |-> None, script |-> FALSE]
      BY <1>1, <2>1
    <3> QED  BY <2>1, <3>1
  <2>2. CASE t \in Opened
    <3>1. page[t] = [doc |-> 1, at |-> IF t \in ProviderTab THEN Start ELSE HomeSite, script |-> TRUE]
      BY <1>1, <2>2
    <3> QED  BY <2>2, <3>1
  <2> QED  BY <2>1, <2>2
<1>3. /\ \A t \in ProviderTab : bound[t] = IF t \in Opened THEN Now(t) ELSE None
      /\ \A t \in GenericTab : reg[t] = IF t \in Opened THEN Now(t) ELSE None
  BY Constants DEF Init, Tab
<1>10. Parts
  <2>1. BrowserOK
    <3>1. \A t \in Tab : page[t] \in Page
      <4> SUFFICES ASSUME NEW t \in Tab PROVE page[t] \in Page
        OBVIOUS
      <4>1. PICK a \in Place \cup {None} : a = IF t \in ProviderTab THEN Start ELSE HomeSite
        BY <1>0
      <4>2. page[t] = IF t \notin Opened THEN [doc |-> 0, at |-> None, script |-> FALSE] ELSE [doc |-> 1, at |-> a, script |-> TRUE]
        BY <1>1, <4>1
      <4>3. [doc |-> 0, at |-> None, script |-> FALSE] \in Page /\ [doc |-> 1, at |-> a, script |-> TRUE] \in Page
        BY DEF Page
      <4> QED  BY <4>2, <4>3
    <3>2. page = [t \in Tab |-> page[t]]
      BY DEF Init
    <3>3. page \in [Tab -> Page]
      BY <3>1, <3>2
    <3>4. permitted = Site /\ nav = <<>> /\ upd = <<>>
      BY DEF Init
    <3> QED  BY <3>3, <3>4 DEF BrowserOK
  <2>2. TrackedOK
    BY DEF TrackedOK, Init
  <2>3. \A t \in Opened : Now(t) \in Binding
    BY <1>0, <1>2, Constants DEF Now, Binding
  <2>4. bound \in [Tab -> Binding \cup {None}] /\ reg \in [GenericTab -> Binding \cup {None}]
    BY <2>3 DEF Init
  <2>5. DocsOK
    BY <2>4, Constants DEF DocsOK, Init
  <2>6. JobsOK /\ StatusOK /\ ChosenOK /\ used \in Count
    BY DEF JobsOK, StatusOK, ChosenOK, Count, Init
  <2> QED  BY <2>1, <2>2, <2>5, <2>6 DEF Parts
<1>4. SeqInv /\ RebindInv /\ TurnInv /\ SelInv
  BY DEF Init, SeqInv, RebindInv, TurnInv, SelInv, Known
<1>5. CommitInv
  BY DEF Init, CommitInv, Known
<1>12. \A t : Now(t).doc = page[t].doc /\ Now(t).at = page[t].at
  BY DEF Now
<1>6. \A t \in Tab : t \in Opened => Exists(t) /\ (t \in ProviderTab => Provider(t))
  BY <1>0, <1>2 DEF Exists, Provider
<1>7. ScriptInv
  BY <1>2, <1>6, Zenon DEF ScriptInv
<1>11. BoundInv
  <2>1. \A t \in ProviderTab : bound[t] # None => t \in Opened /\ t \in Tab /\ bound[t] = Now(t)
    BY <1>3 DEF Tab
  <2>2. \A t \in ProviderTab : bound[t] # None => Provider(t) /\ bound[t].doc = page[t].doc
    BY <1>6, <1>12, <2>1
  <2> QED  BY <2>2 DEF BoundInv, BoundAt, Kept
<1>8. RegInv
  BY <1>3, <1>12 DEF RegInv, RegAt
<1>9. UnbornInv
  BY <1>2, <1>3 DEF UnbornInv, Exists
<1> QED  BY <1>4, <1>5, <1>7, <1>8, <1>9, <1>10, <1>11, TypeParts DEF Inv

\* Every action keeps the types, given that our script runs in pages that exist.
LEMMA NextTyped ==
  ASSUME Parts, ScriptInv, Next
  PROVE  Parts'
<1>1. CASE Browses
  BY <1>1, LoadsTyped, RoutesTyped, ClosesTyped, ReplacesTyped, RevokesTyped DEF Browses
<1>2. CASE Pub
  BY <1>2, PubBeginTyped, PubAnsweredTyped, PubReleasedTyped DEF Pub
<1>3. CASE Events
  BY <1>3, NavEventTyped, UpdEventTyped, RemEventTyped, ReplEventTyped, PermittedTyped DEF Events
<1>4. ASSUME NEW t \in Tab, Documents(t) PROVE Parts'
  BY <1>4, DroppedTyped, ProbesTyped, ProbedTyped, EnsuresTyped, RegistersTyped, GenericRegistersTyped, ReboundTyped DEF Documents
<1>5. ASSUME NEW t \in Tab, Requests(t) PROVE Parts'
  BY <1>5, BeginsTyped, TransitionTyped, AnsweredTyped, FailsTyped DEF Requests
<1>6. CASE Popup
  BY <1>6, PopupSelectTyped, PopupEnsuredTyped, PopupBuiltTyped, PopupSelectedTyped, PopupDeselectTyped,
     PopupDiscoverTyped, PopupPublishesTyped DEF Popup
<1> QED  BY <1>1, <1>2, <1>3, <1>4, <1>5, <1>6 DEF Next

\* Every action keeps the rest, and acts on later navigations only.
LEMMA NextKeeps ==
  ASSUME Inv, Parts, Parts', Next
  PROVE  AllInvs' /\ \A u \in Tab : applied'[u] >= applied[u]
<1>0. ScriptInv /\ UnbornInv /\ RebindInv /\ TurnInv
  BY DEF Inv
<1>1. CASE Browses
  BY <1>1, LoadsKeeps, RoutesKeeps, ClosesKeeps, ReplacesKeeps, RevokesCalm, CalmKeeps DEF Browses, AllInvs
<1>2. CASE Pub
  BY <1>0, <1>2, PubBeginCalm, PubAnsweredCalm, PubReleasedCalm, CalmKeeps DEF Pub, AllInvs
<1>3. CASE Events
  BY <1>3, NavEventKeeps, UpdEventKeeps, RemEventKeeps, ReplEventKeeps, PermittedKeeps DEF Events
<1>4. ASSUME NEW t \in Tab, Documents(t) PROVE CalmDoes
  BY <1>0, <1>4, DroppedCalm, ProbesCalm, ProbedCalm, EnsuresCalm, RegistersCalm, GenericRegistersCalm, ReboundTyped, ReboundCalm
     DEF Documents
<1>5. ASSUME NEW t \in Tab, Requests(t) PROVE CalmDoes
  BY <1>0, <1>5, BeginsCalm, TransitionCalm, AnsweredCalm, FailsCalm DEF Requests
<1>6. CASE Popup
  BY <1>6, PopupCalm, CalmKeeps DEF AllInvs
<1> QED  BY <1>1, <1>2, <1>3, <1>4, <1>5, <1>6, CalmKeeps DEF Next, AllInvs

\* Inductive; and no step acts on an older navigation.
LEMMA StepInv ==
  ASSUME Inv, [Next]_vars
  PROVE  Inv' /\ \A u \in Tab : applied'[u] >= applied[u]
<1>1. Parts
  BY TypeParts DEF Inv
<1>2. CASE Next
  <2>1. Parts'
    BY <1>1, <1>2, NextTyped DEF Inv
  <2> QED  BY <1>1, <1>2, <2>1, NextKeeps, TypeParts DEF Inv, AllInvs
<1>3. CASE UNCHANGED vars
  <2>1. CalmDoes /\ Parts'
    BY <1>1, <1>3, GroupsKept DEF vars, CalmDoes, Parts, browser, tracked, docs, jobs, status, chosen, Republishing
  <2> QED  BY <1>1, <2>1, CalmKeeps, TypeParts DEF Inv
<1> QED  BY <1>2, <1>3

\* The inductive invariant holds throughout.
THEOREM Invariance == Spec => []Inv
BY InitInv, StepInv, PTL DEF Spec

\* Every variable keeps its type: in particular what the handlers bind and select are pages that exist.
THEOREM TypeCorrect == Spec => []TypeOK
<1>1. Inv => TypeOK
  BY DEF Inv
<1> QED  BY <1>1, Invariance, PTL

(* Once everything begun is done, no binding, registration or selection    *)
(* names a page that is gone (index.ts 371-470, 2850-3155), but for the    *)
(* bindings a handler made of a page it had waited too long for.           *)
THEOREM NothingEverNamesAGonePage == Spec => []NothingNamesAGonePage
<1>1. Inv => NothingNamesAGonePage
  <2> SUFFICES ASSUME Inv, Quiet PROVE NothingNamesAGonePage
    BY DEF NothingNamesAGonePage
  <2>1. \A t : ~Leaving(t) /\ ~Moving(t) /\ ~Arriving(t)
    BY DEF Quiet, Leaving, Moving, Arriving
  <2>2. drops = {} /\ ~Republishing
    BY DEF Quiet, Republishing
  <2>3. \A t \in ProviderTab : bound[t] # None => (Exists(t) /\ bound[t].doc = page[t].doc) \/ <<t, bound[t]>> \in late
    BY <2>1, <2>2, Constants DEF Inv, BoundInv, BoundAt, Kept, Provider, Exists, Place
  <2>4. \A t \in GenericTab : reg[t] # None => page[t].at = reg[t].at
    BY <2>1, <2>2 DEF Inv, RegInv, RegAt
  <2>5. sel # None => Exists(sel.tab)
    BY <2>1, <2>2 DEF Inv, SelInv
  <2> QED  BY <2>3, <2>4, <2>5 DEF NothingNamesAGonePage
<1> QED  BY <1>1, Invariance, PTL

(* A navigation is acted on only before the later ones of its tab, in      *)
(* whatever order the permissions of websites are read                     *)
(* (navigationEvents.ts, isCurrent).                                       *)
THEOREM NavigationsInOrder == Spec => InOrder
<1>1. Inv /\ [Next]_vars => [\A t \in Tab : applied'[t] >= applied[t]]_vars
  BY StepInv
<1> QED  BY <1>1, Invariance, PTL DEF Spec, InOrder

-----------------------------------------------------------------------------
(* What the controller was told. *)

AnyTurn == \E t \in Tab : turn[t] # None

Saving == popup # None /\ popup.step = "publish"

\* A session is there.
Holds(s) ==
    /\ page[s.tab].script /\ page[s.tab].doc = s.doc /\ page[s.tab].at = s.at
    /\ s.tab \in ProviderTab => s.tab \notin released
    /\ s.tab \in GenericTab => reg[s.tab] # None /\ reg[s.tab].doc = s.doc /\ reg[s.tab].at = s.at

\* Something of the tab is still to be handled, which ends with a publication.
Pending(t) ==
    \/ \E i \in DOMAIN upd : upd[i].tab = t
    \/ \E w \in {"tab", "origin"} : <<t, w>> \in drops
    \/ \E w \in {"get", "ensure"} : <<t, w>> \in probes

SentInv == \A s \in sent.sessions : Holds(s) \/ Pending(s.tab) \/ asked \/ pub # None \/ AnyTurn

ReleaseInv ==
    pub # None /\ pub.step = "release" =>
        /\ \A s \in pub.of : Holds(s) \/ Pending(s.tab) \/ asked \/ AnyTurn
        /\ sel = None \/ asked \/ Saving

BuildInv ==
    pub # None /\ pub.step = "status" /\ ~asked =>
        \A x \in pub.of : /\ x.tab \in ProviderTab => x.tab \notin released
                          /\ x.tab \in GenericTab => reg[x.tab] = x.on

SelectedInv ==
    \/ sent.selected = IF sel \in sent.sessions THEN sel ELSE None
    \/ asked \/ pub # None \/ rebinds # {} \/ Saving \/ AnyTurn

StatusInv == SentInv /\ ReleaseInv /\ BuildInv /\ SelectedInv

-----------------------------------------------------------------------------
\* Where a publication is asked for, nothing else is needed.
LEMMA AskedSettles ==
  ASSUME asked'
  PROVE  StatusInv'
BY DEF StatusInv, SentInv, ReleaseInv, BuildInv, SelectedInv

\* A step that asks for none leaves what is published, and what would end with a publication.
StatusCalm ==
    /\ UNCHANGED <<sent, pub, asked, reg>>
    /\ released' \subseteq released
    /\ \A s \in Picked : Holds(s) => Holds(s)' \/ Pending(s.tab)'
    /\ \A t \in Tab : Pending(t) => Pending(t)' \/ AnyTurn'
    /\ AnyTurn => AnyTurn'
    /\ sel' = sel \/ (sel' = None /\ rebinds' # {}) \/ Saving'
    /\ rebinds # {} => rebinds' # {}
    /\ Saving => Saving'

LEMMA StatusKept ==
  ASSUME Parts, StatusInv, asked' \/ StatusCalm
  PROVE  StatusInv'
<1>1. CASE asked'
  BY <1>1, AskedSettles
<1>2. CASE ~asked' /\ StatusCalm
  <2>1. /\ UNCHANGED <<sent, pub, reg>> /\ asked' = asked /\ ~asked /\ released' \subseteq released
        /\ \A s \in Picked : Holds(s) => Holds(s)' \/ Pending(s.tab)'
        /\ \A t \in Tab : Pending(t) => Pending(t)' \/ AnyTurn'
        /\ AnyTurn => AnyTurn'
    BY <1>2, Zenon DEF StatusCalm
  <2>2. \A s \in Picked : Holds(s) \/ Pending(s.tab) \/ AnyTurn => Holds(s)' \/ Pending(s.tab)' \/ AnyTurn'
    <3>1. \A s \in Picked : s.tab \in Tab
      BY DEF Picked
    <3> QED  BY <2>1, <3>1, Zenon
  <2>3. SentInv'
    <3>1. sent.sessions \subseteq Picked
      BY DEF Parts, StatusOK
    <3> SUFFICES ASSUME NEW s \in sent.sessions
                 PROVE  Holds(s)' \/ Pending(s.tab)' \/ asked' \/ pub' # None \/ AnyTurn'
      BY <2>1 DEF SentInv
    <3>2. Holds(s) \/ Pending(s.tab) \/ pub # None \/ AnyTurn
      BY <2>1 DEF StatusInv, SentInv
    <3> QED  BY <2>1, <2>2, <3>1, <3>2
  <2>4. ReleaseInv'
    <3> SUFFICES ASSUME pub # None, pub.step = "release"
                 PROVE  (\A s \in pub.of : Holds(s)' \/ Pending(s.tab)' \/ asked' \/ AnyTurn') /\ (sel' = None \/ Saving')
      BY <2>1 DEF ReleaseInv
    <3>1. pub.of \subseteq Picked
      BY DEF Parts, StatusOK, Publication
    <3>2. \A s \in pub.of : Holds(s) \/ Pending(s.tab) \/ AnyTurn
      BY <2>1 DEF StatusInv, ReleaseInv
    <3>3. sel = None \/ Saving
      BY <2>1 DEF StatusInv, ReleaseInv
    <3>4. sel' = None \/ Saving'
      BY <1>2, <3>3 DEF StatusCalm
    <3> QED  BY <2>2, <3>1, <3>2, <3>4
  <2>5. BuildInv'
    BY <2>1 DEF StatusInv, BuildInv
  <2>6. SelectedInv'
    <3>1. CASE sel' = sel
      BY <1>2, <2>1, <3>1 DEF StatusCalm, StatusInv, SelectedInv
    <3>2. CASE sel' # sel
      BY <1>2, <3>2 DEF StatusCalm, SelectedInv
    <3> QED  BY <3>1, <3>2
  <2> QED  BY <2>3, <2>4, <2>5, <2>6 DEF StatusInv
<1> QED  BY <1>1, <1>2

-----------------------------------------------------------------------------
(* The publication itself.                                                  *)

LEMMA PubBeginStatus ==
  ASSUME Parts, StatusInv, PubBegin
  PROVE  StatusInv'
<1>1. /\ asked /\ pub = None /\ asked' = FALSE /\ pub' = [step |-> "status", of |-> Candidates]
      /\ UNCHANGED <<browser, tracked, docs, jobs, sent, chosen, used>>
  BY DEF PubBegin
<1>2. pub' # None /\ pub'.step = "status" /\ pub'.of = Candidates
  BY <1>1, CandidatesTyped, Constants DEF Publication
<1>3. \A x \in Candidates : /\ x.tab \in ProviderTab => x.tab \notin released
                            /\ x.tab \in GenericTab => reg[x.tab] = x.on
  BY Constants DEF Candidates
<1>4. BuildInv'
  BY <1>1, <1>2, <1>3 DEF BuildInv, docs
<1> QED  BY <1>2, <1>4 DEF StatusInv, SentInv, ReleaseInv, SelectedInv

LEMMA InjectedKeeps ==
  ASSUME Parts, NEW c, NEW t \in Tab, page[t].script
  PROVE  Injected(c)[t].script
<1>1. page[t] \in Page
  BY DEF Parts, BrowserOK
<1> QED  BY <1>1 DEF Injected, Page

\* Who answers is there, unless something that is published later came in between.
LEMMA AnsweringHold ==
  ASSUME Parts, NEW c \in SUBSET Bound, NEW s \in Answering(c),
         \A x \in c : /\ x.tab \in ProviderTab => x.tab \notin released
                      /\ x.tab \in GenericTab => reg[x.tab] = x.on
  PROVE  Holds(s)
<1>1. PICK x \in c : Now(x.tab) = x.on /\ page[x.tab].script /\ s = Session(x.tab, x.on)
  BY DEF Answering
<1>2. x \in Bound
  OBVIOUS
<1>3. x.tab \in Tab /\ x.on \in Binding
  BY <1>2 DEF Bound
<1>4. s.tab = x.tab /\ s.doc = x.on.doc /\ s.at = x.on.at
  BY <1>1 DEF Session
<1>5. page[x.tab].doc = x.on.doc /\ page[x.tab].at = x.on.at
  BY <1>1 DEF Now
<1>6. x.on # None
  BY <1>3, Constants DEF Binding
<1>7. page[s.tab].script
  BY <1>1, <1>4, Zenon
<1>8. page[s.tab].doc = s.doc /\ page[s.tab].at = s.at
  BY <1>4, <1>5
<1>9. PICK t \in Tab, o \in Binding : t = x.tab /\ o = x.on
  BY <1>3
<1>10. (t \in ProviderTab => t \notin released) /\ (t \in GenericTab => reg[t] = o)
  BY <1>9
<1>11. t \in GenericTab => reg[t] # None /\ reg[t].doc = o.doc /\ reg[t].at = o.at
  BY <1>6, <1>9, <1>10
<1>12. t = s.tab /\ o.doc = s.doc /\ o.at = s.at
  BY <1>4, <1>9
<1> QED  BY <1>7, <1>8, <1>10, <1>11, <1>12, Zenon DEF Holds

LEMMA PubAnsweredStatus ==
  ASSUME Parts, StatusInv, PubAnswered
  PROVE  StatusInv'
<1>1. /\ pub # None /\ pub.step = "status" /\ page' = Injected(pub.of)
      /\ UNCHANGED <<permitted, nav, upd, tracked, docs, jobs, asked, popup, used>>
  BY DEF PubAnswered, PubStatuses
<1>2. pub.of \in SUBSET Bound /\ sel \in Picked \cup {None} /\ DOMAIN pub = {"step", "of"}
  BY <1>1 DEF Parts, StatusOK, Publication, ChosenOK
<1> DEFINE S == Answering(pub.of)
<1>3. S \subseteq Picked
  BY <1>2, AnsweringTyped
<1>4. \/ asked /\ pub' = None /\ UNCHANGED <<sel, sent>>
      \/ sel # None /\ HasActiveInitialTransition /\ pub' = None /\ UNCHANGED <<sel, sent>>
      \/ ~asked /\ sel' = None /\ pub' = [pub EXCEPT !.step = "release", !.of = S] /\ UNCHANGED sent
      \/ ~asked /\ (sel = None \/ sel \in S) /\ Publish(S) /\ UNCHANGED sel
  BY <1>1 DEF PubAnswered, PubStatuses
<1>5. ASSUME ~asked, NEW s \in S
      PROVE  Holds(s)'
  <2>1. Holds(s)
    BY <1>1, <1>2, <1>5, AnsweringHold DEF StatusInv, BuildInv
  <2>2. s.tab \in Tab
    BY <1>3, <1>5 DEF Picked
  <2>3. /\ page'[s.tab].doc = page[s.tab].doc /\ page'[s.tab].at = page[s.tab].at
        /\ page[s.tab].script => page'[s.tab].script
    BY <1>1, <2>2, InjectedDoes, InjectedKeeps
  <2> QED  BY <1>1, <2>1, <2>3 DEF Holds, docs
<1> HIDE DEF S
<1>6. CASE asked
  BY <1>1, <1>6, AskedSettles
<1>7. CASE sel # None /\ HasActiveInitialTransition /\ pub' = None /\ UNCHANGED <<sel, sent>>
  <2>1. sel.tab \in Tab /\ turn[sel.tab] # None
    BY <1>2, <1>7 DEF Picked, HasActiveInitialTransition
  <2>2. AnyTurn'
    BY <1>1, <2>1 DEF AnyTurn, docs
  <2> QED  BY <1>7, <2>2 DEF StatusInv, SentInv, ReleaseInv, BuildInv, SelectedInv
<1>8. CASE ~asked /\ sel' = None /\ pub' = [pub EXCEPT !.step = "release", !.of = S] /\ UNCHANGED sent
  <2>1. pub'.step = "release" /\ pub'.of = S
    BY <1>2, <1>8
  <2>2. pub \in [step : {"status"}, of : SUBSET Bound]
    BY <1>1, <1>2 DEF Parts, StatusOK, Publication
  <2>3. pub' \in [step : {"release"}, of : SUBSET Picked]
    BY <2>2, <1>3, <1>8
  <2>4. pub' # None
    BY <2>3, Constants DEF Publication
  <2>5. ReleaseInv'
    BY <1>5, <1>8, <2>1 DEF ReleaseInv
  <2> QED  BY <2>1, <2>4, <2>5 DEF StatusInv, SentInv, BuildInv, SelectedInv
<1>9. CASE ~asked /\ (sel = None \/ sel \in S) /\ Publish(S) /\ UNCHANGED sel
  <2>1. pub' = None /\ sent'.sessions = S /\ sent'.selected = sel /\ sel' = sel
    BY <1>9 DEF Publish
  <2>2. SentInv'
    BY <1>5, <1>9, <2>1 DEF SentInv
  <2>3. SelectedInv'
    BY <1>9, <2>1 DEF SelectedInv
  <2> QED  BY <2>1, <2>2, <2>3 DEF StatusInv, ReleaseInv, BuildInv
<1> QED  BY <1>4, <1>6, <1>7, <1>8, <1>9

LEMMA PubReleasedStatus ==
  ASSUME Parts, StatusInv, PubReleased
  PROVE  StatusInv'
<1>1. /\ pub # None /\ pub.step = "release" /\ pub' = None
      /\ UNCHANGED <<browser, tracked, docs, jobs, asked, chosen, used>>
  BY DEF PubReleased
<1>2. CASE asked
  BY <1>1, <1>2, AskedSettles
<1>3. CASE ~asked
  <2>1. sent'.sessions = pub.of /\ sent'.selected = None
    BY <1>3 DEF PubReleased
  <2>2. \A s \in pub.of : Holds(s) \/ Pending(s.tab) \/ AnyTurn
    BY <1>1, <1>3 DEF StatusInv, ReleaseInv
  <2>3. sel = None \/ Saving
    BY <1>1, <1>3 DEF StatusInv, ReleaseInv
  <2>4. SentInv'
    BY <1>1, <2>1, <2>2 DEF SentInv, Holds, Pending, AnyTurn, browser, docs, jobs
  <2>5. SelectedInv'
    BY <1>1, <2>1, <2>3 DEF SelectedInv, Saving, chosen
  <2> QED  BY <1>1, <2>4, <2>5 DEF StatusInv, ReleaseInv, BuildInv
<1> QED  BY <1>2, <1>3

-----------------------------------------------------------------------------
(* The other steps.                                                         *)

\* A judged change is published, or is about to end something that will be.
LEMMA ChangeSettles ==
  ASSUME Parts, NEW t \in Tab, NEW p, NEW d, TabChange(t, p, d)
  PROVE  \/ asked'
         \/ /\ UNCHANGED <<asked, reg, released, sel, turn>> /\ drops \subseteq drops' /\ probes \subseteq probes'
            /\ turn[t] # None \/ <<t, "tab">> \in drops' \/ <<t, "origin">> \in drops' \/ <<t, "get">> \in probes'
<1>1. CASE IsGeneric(t)
  BY <1>1 DEF TabChange, GenericChange, Refresh
<1>2. CASE ~IsGeneric(t) /\ p = None
  BY <1>2 DEF TabChange, Completed, PendingInitialTransition, Refresh, docs
<1>3. CASE ~IsGeneric(t) /\ p # None
  BY <1>3 DEF TabChange, UrlChange, DropDocument, Refresh
<1> QED  BY <1>1, <1>2, <1>3

\* A step that leaves the pages, the events and the jobs alone.
LEMMA HoldsStay ==
  ASSUME UNCHANGED <<page, reg>>, released' \subseteq released
  PROVE  \A s \in Picked : Holds(s) => Holds(s)'
BY DEF Holds

LEMMA PendingStays ==
  ASSUME UNCHANGED upd, drops \subseteq drops', probes \subseteq probes'
  PROVE  \A t \in Tab : Pending(t) => Pending(t)'
BY DEF Pending

\* A move of the browser: who leaves says so.
LEMMA MoveStatus ==
  ASSUME UNCHANGED <<docs, jobs, status, chosen>>, Extends(upd, upd'),
         \A t \in Tab : page[t].script /\ page'[t] # page[t] => Pending(t)'
  PROVE  StatusCalm
<1>1. UNCHANGED <<sent, pub, asked, reg, released, turn, drops, probes, rebinds, sel, popup>> /\ Extends(upd, upd')
  BY DEF docs, jobs, status, chosen
<1>2. \A t \in Tab : Pending(t) => Pending(t)'
  BY <1>1 DEF Pending, Extends
<1>3. \A s \in Picked : Holds(s) => Holds(s)' \/ Pending(s.tab)'
  <2> SUFFICES ASSUME NEW s \in Picked, Holds(s), ~Pending(s.tab)'
               PROVE  Holds(s)'
    OBVIOUS
  <2>1. s.tab \in Tab
    BY DEF Picked
  <2>2. page[s.tab].script
    BY DEF Holds
  <2>3. PICK x \in Tab : x = s.tab
    BY <2>1
  <2>4. page'[x] = page[x]
    BY <2>2, <2>3
  <2> QED  BY <1>1, <2>3, <2>4 DEF Holds
<1> QED  BY <1>1, <1>2, <1>3 DEF StatusCalm, AnyTurn, Saving

LEMMA LoadsStatus ==
  ASSUME Parts, NEW t \in Tab, NEW p \in Places(t), Loads(t, p)
  PROVE  StatusCalm
<1>1. UNCHANGED <<docs, jobs, status, chosen>> /\ \A u \in Tab : u # t => page'[u] = page[u]
  BY DEF Loads, Parts, BrowserOK
<1>2. p \in Place
  BY DEF Places, Place
<1> DEFINE more == IF p = page[t].at THEN <<>> ELSE <<Updated(t, p)>>
<1>3. upd \in Seq(Upd) /\ Updated(t, p) \in Upd /\ Complete(t) \in Upd /\ Complete(t).tab = t
  BY <1>2 DEF Parts, BrowserOK, Updated, Complete, Upd
<1>4. more \in Seq(Upd)
  BY <1>3
<1>5. upd' = (upd \o more) \o <<Complete(t)>>
  BY DEF Loads
<1> HIDE DEF more
<1>6. upd \o more \in Seq(Upd) /\ Extends(upd, upd \o more)
  BY <1>3, <1>4, Appended
<1>7. PICK s \in Seq(Upd) : s = upd \o more
  BY <1>6
<1>8. Extends(s, upd') /\ Len(s) + 1 \in DOMAIN upd' /\ upd'[Len(s) + 1] = Complete(t)
  <2>1. upd' = Append(s, Complete(t))
    BY <1>3, <1>5, <1>7
  <2> QED  BY <1>3, <2>1, AppendedOne
<1>9. Extends(upd, upd')
  BY <1>6, <1>7, <1>8 DEF Extends
<1>10. Pending(t)'
  BY <1>3, <1>8 DEF Pending
<1> QED  BY <1>1, <1>9, <1>10, MoveStatus

\* One more event is heard of the tab later.
LEMMA OneMore ==
  ASSUME Parts, NEW e \in Upd, upd' = Append(upd, e)
  PROVE  Extends(upd, upd') /\ Pending(e.tab)'
<1>1. Extends(upd, upd') /\ Len(upd) + 1 \in DOMAIN upd' /\ upd'[Len(upd) + 1] = e
  BY AppendedOne DEF Parts, BrowserOK
<1> QED  BY <1>1 DEF Pending

LEMMA RoutesStatus ==
  ASSUME Parts, NEW t \in Tab, NEW p \in Places(t), Routes(t, p)
  PROVE  StatusCalm
<1>1. UNCHANGED <<docs, jobs, status, chosen>> /\ \A u \in Tab : u # t => page'[u] = page[u]
  BY DEF Routes, Parts, BrowserOK
<1>2. Updated(t, p) \in Upd /\ Updated(t, p).tab = t /\ upd' = Append(upd, Updated(t, p))
  BY DEF Routes, Updated, Upd, Place
<1>3. Extends(upd, upd') /\ Pending(t)'
  BY <1>2, OneMore
<1> QED  BY <1>1, <1>3, MoveStatus

LEMMA ClosesStatus ==
  ASSUME Parts, NEW t \in Tab, Closes(t)
  PROVE  StatusCalm
<1>1. UNCHANGED <<docs, jobs, status, chosen>> /\ \A u \in Tab : u # t => page'[u] = page[u]
  BY DEF Closes, Parts, BrowserOK
<1> DEFINE e == [kind |-> "removed", tab |-> t, doc |-> 0, at |-> None]
<1>2. e \in Upd /\ e.tab = t /\ upd' = Append(upd, e)
  BY DEF Closes, Upd
<1> HIDE DEF e
<1>3. Extends(upd, upd') /\ Pending(t)'
  BY <1>2, OneMore
<1> QED  BY <1>1, <1>3, MoveStatus

LEMMA ReplacesStatus ==
  ASSUME Parts, ScriptInv, NEW t \in Tab, NEW v \in Tab, Replaces(t, v)
  PROVE  StatusCalm
<1>1. /\ UNCHANGED <<docs, jobs, status, chosen>> /\ \A u \in Tab : u \notin {t, v} => page'[u] = page[u]
      /\ t \in ProviderTab /\ v \in ProviderTab
  BY DEF Replaces, Parts, BrowserOK
<1>2. ~page[v].script
  BY DEF Replaces, ScriptInv
<1> DEFINE e == [kind |-> "replaced", tab |-> t, doc |-> 0, at |-> v]
<1>3. e \in Upd /\ e.tab = t /\ upd' = Append(upd, e)
  BY <1>1 DEF Replaces, Upd
<1> HIDE DEF e
<1>4. Extends(upd, upd') /\ Pending(t)'
  BY <1>3, OneMore
<1> QED  BY <1>1, <1>2, <1>4, MoveStatus

LEMMA RevokesStatus ==
  ASSUME Parts, NEW s, Revokes(s)
  PROVE  StatusCalm
<1>1. UNCHANGED <<page, upd, docs, jobs, status, chosen>>
  BY DEF Revokes
<1> QED  BY <1>1, MoveStatus DEF Extends

\* A change that is judged, where the event that told of it is no longer there.
LEMMA JudgedStatus ==
  ASSUME Parts, NEW t \in Tab, NEW p, NEW d, TabChange(t, p, d),
         UNCHANGED <<page, rebinds, pub, sent, popup>>,
         \A u \in Tab : Pending(u) => Pending(u)' \/ u = t \/ asked'
  PROVE  asked' \/ StatusCalm
<1> SUFFICES ASSUME ~asked' PROVE StatusCalm
  OBVIOUS
<1>1. /\ UNCHANGED <<asked, reg, released, sel, turn>> /\ drops \subseteq drops' /\ probes \subseteq probes'
      /\ turn[t] # None \/ <<t, "tab">> \in drops' \/ <<t, "origin">> \in drops' \/ <<t, "get">> \in probes'
  BY ChangeSettles
<1>2. AnyTurn' \/ Pending(t)'
  BY <1>1 DEF AnyTurn, Pending
<1>3. \A u \in Tab : Pending(u) => Pending(u)' \/ AnyTurn'
  BY <1>2
<1> QED  BY <1>1, <1>3, HoldsStay DEF StatusCalm, AnyTurn, Saving

\* A step that leaves all of it alone, but that our script may run in more pages.
LEMMA StatusUntouched ==
  ASSUME UNCHANGED <<upd, reg, turn, sel, sent, pub, asked>>, released' \subseteq released,
         drops \subseteq drops', rebinds # {} => rebinds' # {},
         \A t \in Tab : Pending(t) => Pending(t)',
         \A t \in Tab : page'[t].doc = page[t].doc /\ page'[t].at = page[t].at /\ (page[t].script => page'[t].script),
         Saving => Saving'
  PROVE  StatusCalm
<1>1. \A s \in Picked : Holds(s) => Holds(s)'
  <2> SUFFICES ASSUME NEW s \in Picked, Holds(s) PROVE Holds(s)'
    OBVIOUS
  <2>1. PICK t \in Tab : t = s.tab
    BY DEF Picked
  <2>2. page[t].script /\ page[t].doc = s.doc /\ page[t].at = s.at
    BY <2>1, Zenon DEF Holds
  <2>3. page'[t].script /\ page'[t].doc = s.doc /\ page'[t].at = s.at
    BY <2>2
  <2> QED  BY <2>1, <2>3 DEF Holds
<1> QED  BY <1>1 DEF StatusCalm, AnyTurn

LEMMA NavEventStatus ==
  ASSUME Parts, NavEvent
  PROVE  asked' \/ StatusCalm
<1> DEFINE e == Head(nav)
<1>1. /\ Navigated(e) /\ e \in Nav
      /\ UNCHANGED <<page, permitted, upd, overlapped, late, rebinds, ensure, pub, sent, popup, used>>
  BY HeadOfNav DEF NavEvent
<1> HIDE DEF e
<1>2. e.tab \in Tab
  BY <1>1 DEF Nav
<1>3. CASE Accepts(e) /\ e.at \notin Site
  <2>1. TabChange(e.tab, e.at, NewDoc(e))
    BY <1>1, <1>3 DEF Navigated
  <2>2. asked' \/ (drops \subseteq drops' /\ probes \subseteq probes')
    BY <1>2, <2>1, ChangeSettles
  <2>3. \A u \in Tab : Pending(u) => Pending(u)' \/ u = e.tab \/ asked'
    BY <1>1, <2>2, PendingStays
  <2> QED  BY <1>1, <1>2, <2>1, <2>3, JudgedStatus
<1>4. CASE ~(Accepts(e) /\ e.at \notin Site)
  <2>1. UNCHANGED <<page, upd, docs, sel, drops, probes, asked, rebinds, pub, sent, popup>>
    BY <1>1, <1>4 DEF Navigated
  <2> QED  BY <2>1, StatusUntouched, PendingStays DEF docs, Saving
<1> QED  BY <1>3, <1>4

LEMMA PermittedStatus ==
  ASSUME Parts, NEW c \in checks, Permitted(c)
  PROVE  asked' \/ StatusCalm
<1>1. c.tab \in Tab /\ UNCHANGED <<page, upd, rebinds, pub, sent, popup>>
  BY DEF Parts, TrackedOK, Check, Permitted, browser
<1>2. CASE ~StillCurrent(c)
  <2>1. UNCHANGED <<docs, sel, drops, probes, asked>>
    BY <1>2 DEF Permitted
  <2> QED  BY <1>1, <2>1, StatusUntouched, PendingStays DEF docs, Saving
<1>3. CASE StillCurrent(c) /\ c.at \in permitted
  <2>1. TabChange(c.tab, c.at, c.doc)
    BY <1>3 DEF Permitted
  <2>2. asked' \/ (drops \subseteq drops' /\ probes \subseteq probes')
    BY <1>1, <2>1, ChangeSettles
  <2>3. \A u \in Tab : Pending(u) => Pending(u)' \/ u = c.tab \/ asked'
    BY <1>1, <2>2, PendingStays
  <2> QED  BY <1>1, <2>1, <2>3, JudgedStatus
<1>4. CASE StillCurrent(c) /\ c.at \notin permitted
  BY <1>4 DEF Permitted, Refresh
<1> QED  BY <1>2, <1>3, <1>4

LEMMA UpdEventStatus ==
  ASSUME Parts, UpdEvent
  PROVE  asked' \/ StatusCalm
<1>1. upd # <<>> /\ upd' = Tail(upd) /\ TabChange(Head(upd).tab, Head(upd).at, 0)
  BY DEF UpdEvent
<1>2. Head(upd).tab \in Tab
  BY <1>1, HeadOfUpd
<1>3. PICK t \in Tab : t = Head(upd).tab
  BY <1>2
<1>4. UNCHANGED <<page, rebinds, pub, sent, popup>>
  BY DEF UpdEvent
<1>5. asked' \/ (drops \subseteq drops' /\ probes \subseteq probes')
  BY <1>1, <1>2, ChangeSettles
<1>6. ASSUME NEW u \in Tab, Pending(u), u # t
      PROVE  Pending(u)' \/ asked'
  <2>1. CASE \E i \in DOMAIN upd : upd[i].tab = u
    <3>1. PICK i \in DOMAIN upd : upd[i].tab = u
      BY <2>1
    <3>2. upd \in Seq(Upd)
      BY DEF Parts, BrowserOK
    <3>3. i # 1
      BY <1>1, <1>3, <1>6, <3>1, <3>2, TailOf
    <3>4. i - 1 \in DOMAIN upd' /\ upd'[i - 1].tab = u
      BY <1>1, <3>1, <3>2, <3>3, TailOf
    <3> QED  BY <3>4 DEF Pending
  <2>2. CASE ~\E i \in DOMAIN upd : upd[i].tab = u
    BY <1>5, <1>6, <2>2 DEF Pending
  <2> QED  BY <2>1, <2>2
<1> QED  BY <1>1, <1>3, <1>4, <1>6, JudgedStatus

LEMMA ProbesStatus ==
  ASSUME Parts, NEW t \in Tab, Probes(t)
  PROVE  StatusCalm
<1>1. UNCHANGED <<browser, tracked, docs, rebinds, status, chosen, used>>
  BY DEF Probes
<1>2. \/ drops' = drops /\ probes' = (probes \ {<<t, "get">>}) \cup {<<t, "ensure">>}
      \/ drops' = drops \cup {<<t, "tab">>} /\ probes' = probes \ {<<t, "get">>}
  BY DEF Probes
<1>3. \A u \in Tab : Pending(u) => Pending(u)'
  <2> SUFFICES ASSUME NEW u \in Tab, Pending(u) PROVE Pending(u)'
    OBVIOUS
  <2>1. CASE u = t
    BY <1>2, <2>1 DEF Pending
  <2>2. CASE u # t
    <3>1. upd' = upd /\ drops \subseteq drops' /\ \A w \in {"get", "ensure"} : <<u, w>> \in probes => <<u, w>> \in probes'
      BY <1>1, <1>2, <2>2 DEF browser
    <3> QED  BY <3>1 DEF Pending
  <2> QED  BY <2>1, <2>2
<1> QED  BY <1>1, <1>2, <1>3, StatusUntouched DEF browser, docs, status, chosen, Saving

LEMMA EnsuresStatus ==
  ASSUME Parts, NEW t \in Tab, Ensures(t)
  PROVE  StatusCalm
<1>1. EnsureDoes(t) /\ UNCHANGED <<upd, reg, released, turn, drops, probes, rebinds, status, chosen>>
  BY Ensuring DEF Ensures
<1>2. \A u \in Tab : page[u] \in Page
  BY DEF Parts, BrowserOK
<1>3. \A u \in Tab : page'[u].doc = page[u].doc /\ page'[u].at = page[u].at
  BY EnsuresCalm DEF CalmDoes
<1>4. \A u \in Tab : page[u].script => page'[u].script
  <2>1. \A u \in Tab : page'[u] = page[u] \/ page'[u].script = TRUE
    BY <1>1, <1>2 DEF EnsureDoes, Parts, BrowserOK, Page
  <2> QED  BY <2>1
<1> QED  BY <1>1, <1>3, <1>4, StatusUntouched, PendingStays DEF status, chosen, Saving

LEMMA RegistersStatus ==
  ASSUME Parts, NEW t \in Tab, Registers(t)
  PROVE  asked' \/ StatusCalm
<1>1. UNCHANGED <<browser, reg, released, turn, drops, probes, pub, sent, popup>>
  BY DEF Registers
<1>2. \/ sel' = None /\ rebinds' # {} /\ UNCHANGED asked
      \/ UNCHANGED <<sel, rebinds>> /\ (asked' \/ UNCHANGED asked)
  BY DEF Registers, Refresh
<1>3. rebinds # {} => rebinds' # {}
  BY DEF Registers
<1> QED  BY <1>1, <1>2, <1>3, HoldsStay, PendingStays DEF StatusCalm, AnyTurn, Saving, browser

LEMMA BeginsStatus ==
  ASSUME Parts, NEW t \in Tab, Begins(t)
  PROVE  StatusCalm
<1>1. UNCHANGED <<browser, tracked, bound, reg, handled, released, jobs, status, chosen>>
  BY DEF Begins
<1>2. AnyTurn => AnyTurn'
  BY DEF AnyTurn, Begins, Parts, DocsOK
<1> QED  BY <1>1, <1>2, HoldsStay, PendingStays DEF StatusCalm, Saving, browser, jobs, status, chosen

LEMMA TransitionStatus ==
  ASSUME Parts, NEW t \in Tab, Transition(t)
  PROVE  StatusCalm
<1>1. UNCHANGED <<browser, tracked, reg, handled, released, jobs, status, chosen>>
  BY DEF Transition
<1>2. AnyTurn'
  <2>1. turn[t] \in Turn /\ turn \in [Tab -> Turn \cup {None}]
    BY DEF Transition, PendingInitialTransition, Parts, DocsOK
  <2>2. turn' = [turn EXCEPT ![t].at = page[t].at] /\ page[t].at \in Chat
    BY DEF Transition
  <2>3. turn'[t] \in Turn
    BY <2>1, <2>2 DEF Turn, Place
  <2> QED  BY <2>3, NoneAssumption DEF AnyTurn, Turn
<1> QED  BY <1>1, <1>2, HoldsStay, PendingStays DEF StatusCalm, Saving, browser, jobs, status, chosen

LEMMA PopupStatus ==
  ASSUME Parts, Popup
  PROVE  asked' \/ StatusCalm
<1>1. ASSUME NEW t \in Tab, PopupSelect(t)
      PROVE  StatusCalm
  <2>1. /\ UNCHANGED <<browser, reg, turn, drops, probes, rebinds, status, sel>> /\ popup = None
        /\ released' \subseteq released
    BY <1>1 DEF PopupSelect, Click, Handle
  <2> QED  BY <2>1, StatusUntouched, PendingStays DEF browser, status, Saving
<1>2. CASE PopupEnsured
  <2>1. UNCHANGED <<browser, tracked, docs, jobs, status, sel>> /\ ~Saving
    BY <1>2 DEF PopupEnsured, Saving
  <2> QED  BY <2>1, StatusUntouched, PendingStays DEF browser, docs, jobs, status
<1>3. CASE PopupBuilt
  <2>1. UNCHANGED <<permitted, nav, upd, tracked, docs, jobs, status, sel, used>> /\ page' = Injected(popup.of) /\ ~Saving
    BY <1>3 DEF PopupBuilt, Saving
  <2>2. \A t \in Tab : page'[t].doc = page[t].doc /\ page'[t].at = page[t].at /\ (page[t].script => page'[t].script)
    BY <2>1, InjectedDoes, InjectedKeeps
  <2> QED  BY <2>1, <2>2, StatusUntouched, PendingStays DEF docs, jobs, status
<1>4. CASE PopupSelected
  <2>1. Saving'
    BY <1>4, PopupSelectedTyped DEF Saving
  <2>2. UNCHANGED <<browser, reg, turn, jobs, asked, pub, sent>> /\ released' \subseteq released
    BY <1>4 DEF PopupSelected, Handle
  <2> QED  BY <2>1, <2>2, HoldsStay, PendingStays DEF StatusCalm, AnyTurn, browser, jobs
<1>5. CASE PopupDeselect
  <2>1. Saving'
    BY <1>5, Constants DEF PopupDeselect, Wait, Saving, Mutation
  <2>2. UNCHANGED <<browser, docs, jobs, status>>
    BY <1>5 DEF PopupDeselect
  <2> QED  BY <2>1, <2>2, HoldsStay, PendingStays DEF StatusCalm, AnyTurn, browser, docs, jobs, status
<1>6. CASE PopupDiscover
  <2>1. /\ UNCHANGED <<browser, reg, turn, drops, probes, rebinds, status, sel>> /\ popup = None
        /\ released' \subseteq released
    BY <1>6 DEF PopupDiscover, Click, Handle
  <2> QED  BY <2>1, StatusUntouched, PendingStays DEF browser, status, Saving
<1>7. CASE PopupPublishes
  BY <1>7 DEF PopupPublishes, Refresh
<1> QED  BY <1>1, <1>2, <1>3, <1>4, <1>5, <1>6, <1>7 DEF Popup

LEMMA StepStatus ==
  ASSUME Inv, StatusInv, [Next]_vars
  PROVE  StatusInv'
<1>1. Parts /\ ScriptInv
  BY TypeParts DEF Inv
<1>2. CASE Browses
  BY <1>1, <1>2, LoadsStatus, RoutesStatus, ClosesStatus, ReplacesStatus, RevokesStatus, StatusKept DEF Browses
<1>3. CASE Pub
  BY <1>1, <1>3, PubBeginStatus, PubAnsweredStatus, PubReleasedStatus DEF Pub
<1>4. CASE Events
  <2>1. RemEvent \/ ReplEvent => asked'
    BY DEF RemEvent, ReplEvent, Refresh
  <2> QED  BY <1>1, <1>4, <2>1, NavEventStatus, UpdEventStatus, PermittedStatus, StatusKept DEF Events
<1>5. ASSUME NEW t \in Tab, Documents(t) PROVE asked' \/ StatusCalm
  <2>1. ASSUME NEW what, Dropped(t, what) PROVE asked'
    BY <2>1 DEF Dropped, Refresh
  <2>2. ASSUME NEW b, Rebound(t, b) PROVE asked'
    BY <2>2 DEF Rebound, Refresh
  <2>3. Probed(t) \/ GenericRegisters(t) => asked'
    BY DEF Probed, GenericRegisters, Refresh
  <2> QED  BY <1>1, <1>5, <2>1, <2>2, <2>3, ProbesStatus, EnsuresStatus, RegistersStatus DEF Documents
<1>6. ASSUME NEW t \in Tab, Requests(t) PROVE asked' \/ StatusCalm
  <2>1. Answered(t) \/ Fails(t) => asked'
    BY DEF Answered, Fails, Refresh
  <2> QED  BY <1>1, <1>6, <2>1, BeginsStatus, TransitionStatus DEF Requests
<1>7. CASE Popup
  BY <1>1, <1>7, PopupStatus, StatusKept
<1>8. CASE UNCHANGED vars
  BY <1>1, <1>8, StatusUntouched, PendingStays, StatusKept DEF vars, browser, tracked, docs, jobs, status, chosen, Saving
<1> QED  BY <1>1, <1>2, <1>3, <1>4, <1>5, <1>6, <1>7, <1>8, StatusKept DEF Next

LEMMA InitStatus ==
  ASSUME Init
  PROVE  StatusInv
<1>1. asked /\ pub = None
  BY DEF Init
<1> QED  BY <1>1 DEF StatusInv, SentInv, ReleaseInv, BuildInv, SelectedInv

(* Once everything begun is done, the status the controller has names the   *)
(* sessions that are there and the person's selection (sendProviderStatus,   *)
(* publishProviderStatus, index.ts 371-470, 582-629): a publication that     *)
(* something overtook while it waited for the pages is not the last one.     *)
THEOREM StatusAlwaysSettles == Spec => []StatusSettles
<1>1. Inv /\ StatusInv => StatusSettles
  <2> SUFFICES ASSUME Inv, StatusInv, Quiet, \A t \in Tab : turn[t] = None
               PROVE  /\ sent.sessions \subseteq Answering(Candidates)
                      /\ sent.selected = IF sel \in sent.sessions THEN sel ELSE None
    BY DEF StatusSettles
  <2>1. /\ ~asked /\ pub = None /\ ~AnyTurn /\ ~Saving /\ rebinds = {}
        /\ upd = <<>> /\ drops = {} /\ probes = {} /\ \A t \in Tab : ~Says(t)
    BY DEF Quiet, AnyTurn, Saving
  <2>2. Parts
    BY TypeParts DEF Inv
  <2>3. ASSUME NEW s \in sent.sessions
        PROVE  s \in Answering(Candidates)
    <3>1. ~Pending(s.tab)
      BY <2>1 DEF Pending
    <3>2. Holds(s)
      BY <2>1, <3>1 DEF StatusInv, SentInv
    <3>3. s \in Picked
      BY <2>2 DEF Parts, StatusOK
    <3>4. PICK t \in Tab : t = s.tab
      BY <3>3 DEF Picked
    <3>5. page[t].script /\ page[t].doc = s.doc /\ page[t].at = s.at
      BY <3>2, <3>4, Zenon DEF Holds
    <3>6. Now(t) \in Binding /\ Now(t) # None
      BY <2>2, <3>5, ScriptPlaces, Constants DEF Inv, Binding
    <3>7. Session(t, Now(t)) = s
      BY <3>3, <3>4, <3>5 DEF Session, Now, Picked
    <3>8. [tab |-> t, on |-> Now(t)] \in Candidates
      <4>1. CASE t \in ProviderTab
        <5>1. bound[t] = Now(t) /\ t \notin released
          BY <2>1, <3>2, <3>4, <3>5, <4>1 DEF Says, Holds
        <5> QED  BY <3>6, <4>1, <5>1 DEF Candidates, Now
      <4>2. CASE t \in GenericTab
        <5>1. reg[t] # None /\ reg[t].doc = s.doc /\ reg[t].at = s.at
          BY <3>2, <3>4, <4>2 DEF Holds
        <5>2. reg[t] \in Binding
          BY <2>2, <4>2, <5>1 DEF Parts, DocsOK
        <5>3. reg[t] = Now(t)
          <6>1. Now(t).doc = s.doc /\ Now(t).at = s.at
            BY <3>5 DEF Now
          <6> QED  BY <3>6, <5>1, <5>2, <6>1 DEF Binding
        <5> QED  BY <3>6, <4>2, <5>3 DEF Candidates
      <4> QED  BY <4>1, <4>2 DEF Tab
    <3>9. PICK x \in Candidates : x.tab = t /\ x.on = Now(t)
      BY <3>8
    <3> QED  BY <3>5, <3>7, <3>9 DEF Answering
  <2>4. sent.selected = IF sel \in sent.sessions THEN sel ELSE None
    BY <2>1 DEF StatusInv, SelectedInv
  <2> QED  BY <2>3, <2>4
<1>2. Spec => []StatusInv
  <2>1. Inv /\ StatusInv /\ [Next]_vars => StatusInv'
    BY StepStatus
  <2> QED  BY <2>1, InitStatus, Invariance, PTL DEF Spec
<1> QED  BY <1>1, <1>2, Invariance, PTL

-----------------------------------------------------------------------------
(* The tabs the person used. *)

Own == ProviderTab \cap Opened

\* The operation that is to bring our script into the page is still to look at it.
Ensured(t) == ensure[t] \in {"load", "probe", "ask", "inject"}

Completing(t) == \E i \in DOMAIN upd : upd[i].kind = "complete" /\ upd[i].tab = t

OpenAt(t) == page[t].doc # 0 /\ (Leaving(t) => ~Exists(t)) /\ (Exists(t) => t \in handled \cup released)

EnsureAt(t) ==
    Exists(t) /\ t \notin overlapped =>
        /\ ensure[t] \in {"probe", "ask", "inject"} => Provider(t)
        /\ ensure[t] = "wait" => page[t].script
        /\ popup # None /\ popup.step = "select" /\ popup.tab = t => page[t].script

\* Only a page that had our script is bound.
ScriptAt(t) ==
    /\ bound[t] # None => bound[t].doc <= page[t].doc
    /\ Exists(t) /\ bound[t] # None /\ bound[t].doc = page[t].doc => page[t].script
    /\ \A r \in rebinds : r[1] = t /\ Exists(t) /\ r[2].doc = page[t].doc => page[t].script

TurnAt(t) ==
    Exists(t) /\ t \notin overlapped /\ PendingInitialTransition(t) =>
        /\ bound[t] = None => ensure[t] \in {"ask", "inject", "wait"}
        /\ Provider(t) /\ ~page[t].script => Arriving(t) \/ Ensured(t) \/ <<t, "tab">> \in drops

TrackAt(t) ==
    Provider(t) /\ ~page[t].script /\ t \notin released \cup overlapped =>
        Ensured(t) \/ <<t, "get">> \in probes \/ <<t, "tab">> \in drops \/ Completing(t)

OwnAt(t) == OpenAt(t) /\ EnsureAt(t) /\ ScriptAt(t) /\ TurnAt(t) /\ TrackAt(t)

OwnInv == \A t \in Own : OwnAt(t)

\* Nothing is asked of a tab that is closed, of one whose page has our script, or of one that was overlapped.
Fine(t) == ~Exists(t) \/ t \in overlapped \/ page'[t].script

\* What most steps do to such a tab.
Steady(t) ==
    /\ page'[t].doc = page[t].doc /\ (page[t].script => page'[t].script)
    /\ (Exists(t)' <=> Exists(t)) /\ (Provider(t)' <=> Provider(t))
    /\ t \in overlapped' <=> t \in overlapped
    /\ Leaving(t)' => Leaving(t)
    /\ Arriving(t) => Arriving(t)'
    /\ Completing(t) => Completing(t)'
    /\ t \in handled \cup released => t \in handled' \cup released'
    /\ t \in released => t \in released' \/ Fine(t) \/ Ensured(t)'
    /\ ensure'[t] = ensure[t] \/ (ensure[t] = "none" /\ ensure'[t] = "load")
    /\ \/ bound'[t] = bound[t]
       \/ bound'[t] = None /\ turn'[t] = None
       \/ bound'[t] # None /\ bound'[t].doc <= page[t].doc /\ (Exists(t) /\ bound'[t].doc = page[t].doc => page[t].script)
    /\ \A r \in rebinds' : r[1] = t => r \in rebinds \/ page[t].script
    /\ PendingInitialTransition(t)' => PendingInitialTransition(t) \/ (bound'[t] # None /\ page[t].script)
    /\ <<t, "tab">> \in drops => <<t, "tab">> \in drops' \/ (t \in released' /\ turn'[t] = None)
    /\ <<t, "get">> \in probes => <<t, "get">> \in probes' \/ <<t, "tab">> \in drops' \/ Fine(t) \/ Ensured(t)'
    /\ popup' # None /\ popup'.step = "select" /\ popup'.tab = t =>
         (popup # None /\ popup.step = "select" /\ popup.tab = t) \/ page[t].script

LEMMA SteadyKeeps ==
  ASSUME NEW t \in Own, OwnAt(t), Steady(t)
  PROVE  OwnAt(t)'
<1>0. /\ page'[t].doc = page[t].doc /\ (page[t].script => page'[t].script)
      /\ (Exists(t)' <=> Exists(t)) /\ (Provider(t)' <=> Provider(t))
      /\ t \in overlapped' <=> t \in overlapped
  BY DEF Steady
<1>1. OpenAt(t)'
  BY <1>0 DEF OwnAt, OpenAt, Steady
<1>2. EnsureAt(t)'
  <2> SUFFICES ASSUME Exists(t)', t \notin overlapped'
               PROVE  /\ ensure'[t] \in {"probe", "ask", "inject"} => Provider(t)'
                      /\ ensure'[t] = "wait" => page'[t].script
                      /\ popup' # None /\ popup'.step = "select" /\ popup'.tab = t => page'[t].script
    BY DEF EnsureAt
  <2>1. /\ ensure[t] \in {"probe", "ask", "inject"} => Provider(t)
        /\ ensure[t] = "wait" => page[t].script
        /\ popup # None /\ popup.step = "select" /\ popup.tab = t => page[t].script
    BY <1>0 DEF OwnAt, EnsureAt
  <2>2. ensure'[t] = ensure[t] \/ ensure'[t] = "load"
    BY DEF Steady
  <2>3. popup' # None /\ popup'.step = "select" /\ popup'.tab = t => page[t].script
    BY <2>1 DEF Steady
  <2> QED  BY <1>0, <2>1, <2>2, <2>3
<1>3. ScriptAt(t)'
  <2>1. bound'[t] # None => /\ bound'[t].doc <= page[t].doc
                            /\ Exists(t) /\ bound'[t].doc = page[t].doc => page[t].script
    BY DEF OwnAt, ScriptAt, Steady
  <2>2. \A r \in rebinds' : r[1] = t /\ Exists(t) /\ r[2].doc = page[t].doc => page[t].script
    BY DEF OwnAt, ScriptAt, Steady
  <2> QED  BY <1>0, <2>1, <2>2 DEF ScriptAt
<1>4. TurnAt(t)'
  <2> SUFFICES ASSUME Exists(t)', t \notin overlapped', PendingInitialTransition(t)'
               PROVE  /\ bound'[t] = None => ensure'[t] \in {"ask", "inject", "wait"}
                      /\ Provider(t)' /\ ~page'[t].script => Arriving(t)' \/ Ensured(t)' \/ <<t, "tab">> \in drops'
    BY DEF TurnAt
  <2>1. CASE bound'[t] # None /\ page[t].script
    BY <1>0, <2>1
  <2>2. CASE PendingInitialTransition(t)
    <3>1. /\ bound[t] = None => ensure[t] \in {"ask", "inject", "wait"}
          /\ Provider(t) /\ ~page[t].script => Arriving(t) \/ Ensured(t) \/ <<t, "tab">> \in drops
      BY <1>0, <2>2 DEF OwnAt, TurnAt
    <3>0. turn'[t] # None
      BY DEF PendingInitialTransition
    <3>2. bound'[t] = None => bound[t] = None
      BY <3>0 DEF Steady
    <3>3. ensure'[t] = ensure[t] \/ (ensure[t] = "none" /\ ensure'[t] = "load")
      BY DEF Steady
    <3>4. (Ensured(t) => Ensured(t)') /\ (Arriving(t) => Arriving(t)') /\ (<<t, "tab">> \in drops => <<t, "tab">> \in drops')
      BY <3>0, <3>3 DEF Steady, Ensured
    <3>5. bound'[t] = None => ensure'[t] \in {"ask", "inject", "wait"}
      BY <3>1, <3>2, <3>3
    <3> QED  BY <1>0, <3>1, <3>4, <3>5
  <2> QED  BY <2>1, <2>2 DEF Steady
<1>5. TrackAt(t)'
  <2> SUFFICES ASSUME Provider(t)', ~page'[t].script, t \notin released', t \notin overlapped'
               PROVE  Ensured(t)' \/ <<t, "get">> \in probes' \/ <<t, "tab">> \in drops' \/ Completing(t)'
    BY DEF TrackAt
  <2>1. Provider(t) /\ ~page[t].script /\ t \notin overlapped /\ Exists(t)
    BY <1>0, Constants DEF Provider, Exists, Place
  <2>2. CASE t \in released
    BY <2>1, <2>2 DEF Steady, Fine
  <2>3. CASE t \notin released
    <3>1. Ensured(t) \/ <<t, "get">> \in probes \/ <<t, "tab">> \in drops \/ Completing(t)
      BY <2>1, <2>3 DEF OwnAt, TrackAt
    <3>2. /\ Ensured(t) => Ensured(t)'
          /\ Completing(t) => Completing(t)'
          /\ <<t, "tab">> \in drops => <<t, "tab">> \in drops'
          /\ <<t, "get">> \in probes => <<t, "get">> \in probes' \/ <<t, "tab">> \in drops' \/ Ensured(t)'
      BY <2>1 DEF Steady, Ensured, Fine
    <3> QED  BY <3>1, <3>2
  <2> QED  BY <2>2, <2>3
<1> QED  BY <1>1, <1>2, <1>3, <1>4, <1>5 DEF OwnAt

\* A tab that is closed.
LEMMA ClosedKeeps ==
  ASSUME NEW t \in Own, OwnAt(t), ~Exists(t)', page'[t].doc = page[t].doc, bound'[t] \in {bound[t], None}
  PROVE  OwnAt(t)'
<1>1. ~Provider(t)'
  BY Constants DEF Provider, Exists, Place
<1>2. OpenAt(t)' /\ EnsureAt(t)' /\ TurnAt(t)' /\ TrackAt(t)'
  BY <1>1 DEF OwnAt, OpenAt, EnsureAt, TurnAt, TrackAt
<1>3. ScriptAt(t)'
  BY DEF OwnAt, ScriptAt
<1> QED  BY <1>2, <1>3 DEF OwnAt

LEMMA OwnTabs ==
  ASSUME Parts
  PROVE  \A t \in Own : t \in Tab /\ t \in ProviderTab /\ t \notin GenericTab /\ page[t] \in Page /\ ~IsGeneric(t)
BY Constants DEF Own, Tab, Parts, BrowserOK, IsGeneric

-----------------------------------------------------------------------------
(* The browser. *)

\* A step of the browser adds to what is still to come.
LEMMA MoreToCome ==
  ASSUME NEW t, Extends(upd, upd'), Extends(nav, nav'), page'[t].doc = page[t].doc
  PROVE  (Arriving(t) => Arriving(t)') /\ (Completing(t) => Completing(t)')
BY DEF Extends, Arriving, Completing, Commit

\* What the browser adds for another tab, or for this one without saying that it is gone.
LEMMA MovedSteady ==
  ASSUME Parts, Extends(upd, upd'), Extends(nav, nav'), UNCHANGED <<docs, jobs, status, chosen>>, NEW t \in Own,
         page'[t].doc = page[t].doc, page'[t].script = page[t].script,
         Exists(t)' <=> Exists(t), Provider(t)' <=> Provider(t), t \in overlapped' <=> t \in overlapped,
         Leaving(t)' => Leaving(t)
  PROVE  Steady(t)
<1>1. UNCHANGED <<bound, handled, released, turn, drops, probes, rebinds, ensure, popup>>
  BY DEF docs, jobs, chosen
<1> QED  BY <1>1, MoreToCome DEF Steady, PendingInitialTransition

LEMMA LoadsOwn ==
  ASSUME Inv, Parts, NEW v \in Tab, NEW p \in Places(v), Loads(v, p), NEW t \in Own, OwnAt(t)
  PROVE  OwnAt(t)'
<1>1. /\ page'[v].doc = page[v].doc + 1 /\ page'[v].at = p /\ \A u \in Tab : u # v => page'[u] = page[u]
      /\ UNCHANGED <<docs, jobs, status, chosen>>
  BY DEF Loads, Parts, BrowserOK
<1>2. p \in Place /\ p # None /\ page[v].doc \in Nat
  BY PagesOfTabs, Constants DEF Places, Place
<1> DEFINE more == IF p = page[v].at THEN <<>> ELSE <<Updated(v, p)>>
<1>3. upd \in Seq(Upd) /\ Updated(v, p) \in Upd /\ Complete(v) \in Upd
  BY <1>2 DEF Parts, BrowserOK, Updated, Complete, Upd
<1>4. PICK s \in Seq(Upd) : s = upd \o more
  <2>1. more \in Seq(Upd)
    BY <1>3
  <2>2. upd \o more \in Seq(Upd)
    BY <1>3, <2>1, Appended
  <2> QED  BY <2>2
<1>5. /\ Extends(upd, s)
      /\ \A i \in DOMAIN s : (i \in DOMAIN upd /\ s[i] = upd[i]) \/ s[i] = Updated(v, p)
  <2>1. more \in Seq(Upd) /\ \A i \in DOMAIN more : more[i] = Updated(v, p)
    BY <1>3
  <2> HIDE DEF more
  <2>2. Extends(upd, s)
    BY <1>3, <1>4, <2>1, Appended
  <2>3. \A i \in DOMAIN s : (i \in DOMAIN upd /\ s[i] = upd[i]) \/ (i - Len(upd) \in DOMAIN more /\ s[i] = more[i - Len(upd)])
    BY <1>3, <1>4, <2>1
  <2> QED  BY <2>1, <2>2, <2>3
<1>6. upd' = Append(s, Complete(v))
  BY <1>3, <1>4 DEF Loads
<1> HIDE DEF more
<1>7. Extends(s, upd') /\ DOMAIN upd' = 1..(Len(s) + 1) /\ DOMAIN s = 1..Len(s) /\ upd'[Len(s) + 1] = Complete(v) /\ Len(s) \in Nat
  BY <1>3, <1>6, AppendedOne
<1>8. Extends(upd, upd') /\ Len(s) + 1 \in DOMAIN upd'
  BY <1>5, <1>7 DEF Extends
<1>9. \A u \in Tab : Leaving(u)' => Leaving(u)
  <2> SUFFICES ASSUME NEW u \in Tab, NEW i \in DOMAIN upd', upd'[i].kind \in {"removed", "replaced"}, upd'[i].tab = u
               PROVE  Leaving(u)
    BY DEF Leaving
  <2>1. i # Len(s) + 1
    BY <1>7 DEF Complete
  <2>2. i \in DOMAIN s /\ upd'[i] = s[i]
    BY <1>7, <2>1 DEF Extends
  <2>3. s[i] # Updated(v, p)
    BY <2>2 DEF Updated
  <2> QED  BY <1>5, <2>2, <2>3 DEF Leaving
<1>10. Extends(nav, nav') /\ Len(nav) + 1 \in DOMAIN nav' /\ nav'[Len(nav) + 1] = Committed(v, page[v].doc + 1, p)
  <2>1. Committed(v, page[v].doc + 1, p) \in Nav /\ nav \in Seq(Nav)
    BY <1>2 DEF Committed, Nav, Parts, BrowserOK
  <2> QED  BY <2>1, AppendedOne DEF Loads
<1>11. CASE t # v
  <2>1. t \in Tab /\ page'[t] = page[t] /\ (t \in overlapped' <=> t \in overlapped)
    BY <1>1, <1>11, OwnTabs DEF Loads
  <2>2. Steady(t)
    BY <1>1, <1>8, <1>9, <1>10, <2>1, MovedSteady DEF Exists, Provider
  <2> QED  BY <2>2, SteadyKeeps
<1>12. CASE t = v
  <2>1. UNCHANGED <<bound, handled, released, turn, drops, probes, rebinds, ensure, popup>>
    BY <1>1 DEF docs, jobs, chosen
  <2>2. Exists(t) /\ page[t].doc # 0 /\ page'[t].doc = page[t].doc + 1 /\ page[t].doc \in Nat
    BY <1>1, <1>2, <1>12 DEF Loads, OwnAt, OpenAt
  <2>3. OpenAt(t)'
    BY <1>2, <1>9, <1>12, <2>1, <2>2 DEF OwnAt, OpenAt
  <2>4. EnsureAt(t)'
    BY <1>12, <2>1 DEF Loads, EnsureAt, Undisturbed
  <2>5. ScriptAt(t)'
    <3>1. bound[t] # None => bound[t].doc <= page[t].doc /\ bound[t].doc \in Nat
      BY <1>12 DEF OwnAt, ScriptAt, Parts, DocsOK, Binding
    <3>2. \A r \in rebinds : r[1] = t => r[2].doc <= page[t].doc /\ r[2].doc \in Nat
      BY RebindsOfTabs DEF Inv, RebindInv
    <3> QED  BY <2>1, <2>2, <3>1, <3>2 DEF ScriptAt
  <2>6. TurnAt(t)'
    <3>1. Provider(t)' => Arriving(t)'
      BY <1>1, <1>2, <1>10, <1>12 DEF Provider, Arriving, Commit, Committed
    <3>2. t \notin overlapped' => (PendingInitialTransition(t) => bound[t] # None)
      BY <1>12 DEF Loads, Undisturbed
    <3> QED  BY <2>1, <3>1, <3>2 DEF TurnAt, PendingInitialTransition
  <2>7. TrackAt(t)'
    <3>1. Completing(t)'
      BY <1>7, <1>8, <1>12 DEF Completing, Complete
    <3> QED  BY <3>1 DEF TrackAt
  <2> QED  BY <2>3, <2>4, <2>5, <2>6, <2>7 DEF OwnAt
<1> QED  BY <1>11, <1>12

LEMMA RoutesOwn ==
  ASSUME Inv, Parts, NEW v \in Tab, NEW p \in Places(v), Routes(v, p), NEW t \in Own, OwnAt(t)
  PROVE  OwnAt(t)'
<1>1. /\ page'[v].doc = page[v].doc /\ page'[v].at = p /\ page'[v].script = page[v].script
      /\ \A u \in Tab : u # v => page'[u] = page[u]
      /\ p \in Chat /\ page[v].at \in Chat /\ p \in Place /\ p # None /\ page[v].at # None /\ page[v].doc \in Nat
  BY PagesOfTabs, Constants DEF Routes, Parts, BrowserOK, Page, Place
<1>2. UNCHANGED <<tracked, docs, jobs, status, chosen>>
  BY DEF Routes
<1>3. Updated(v, p) \in Upd /\ upd \in Seq(Upd) /\ upd' = Append(upd, Updated(v, p)) /\ Updated(v, p).kind = "url"
  BY <1>1 DEF Updated, Upd, Parts, BrowserOK, Routes
<1>4. Routed(v, page[v].doc, p) \in Nav /\ nav \in Seq(Nav) /\ nav' = Append(nav, Routed(v, page[v].doc, p))
  BY <1>1 DEF Routed, Nav, Parts, BrowserOK, Routes
<1>5. /\ Extends(upd, upd') /\ Extends(nav, nav') /\ DOMAIN upd' = 1..(Len(upd) + 1) /\ DOMAIN upd = 1..Len(upd)
      /\ upd'[Len(upd) + 1] = Updated(v, p)
  BY <1>3, <1>4, AppendedOne
<1>6. Leaving(t)' => Leaving(t)
  BY <1>3, <1>5 DEF Leaving, Extends
<1>7. t \in Tab
  BY OwnTabs
<1>8. Steady(t)
  BY <1>1, <1>2, <1>5, <1>6, <1>7, MovedSteady DEF Exists, Provider, tracked
<1> QED  BY <1>8, SteadyKeeps

LEMMA ClosesOwn ==
  ASSUME Inv, Parts, NEW v \in Tab, Closes(v), NEW t \in Own, OwnAt(t)
  PROVE  OwnAt(t)'
<1>1. /\ page'[v].doc = page[v].doc /\ page'[v].at = None /\ \A u \in Tab : u # v => page'[u] = page[u]
      /\ UNCHANGED <<nav, tracked, docs, jobs, status, chosen>> /\ t \in Tab
  BY OwnTabs DEF Closes, Parts, BrowserOK, Page
<1> DEFINE e == [kind |-> "removed", tab |-> v, doc |-> 0, at |-> None]
<1>2. e \in Upd /\ upd \in Seq(Upd) /\ upd' = Append(upd, e) /\ e.tab = v
  BY DEF Upd, Parts, BrowserOK, Closes
<1> HIDE DEF e
<1>3. /\ Extends(upd, upd') /\ DOMAIN upd' = 1..(Len(upd) + 1) /\ DOMAIN upd = 1..Len(upd) /\ upd'[Len(upd) + 1] = e
  BY <1>2, AppendedOne
<1>4. CASE t = v
  BY <1>1, <1>4, ClosedKeeps DEF Exists, docs
<1>5. CASE t # v
  <2>1. Leaving(t)' => Leaving(t)
    BY <1>2, <1>3, <1>5 DEF Leaving, Extends
  <2>2. Steady(t)
    BY <1>1, <1>3, <1>5, <2>1, MovedSteady DEF Exists, Provider, tracked, Extends
  <2> QED  BY <2>2, SteadyKeeps
<1> QED  BY <1>4, <1>5

LEMMA ReplacesOwn ==
  ASSUME Inv, Parts, NEW x \in Tab, NEW v \in Tab, Replaces(x, v), NEW t \in Own, OwnAt(t)
  PROVE  OwnAt(t)'
<1>0. t # v /\ x # v /\ t \in Tab
  BY OwnTabs DEF Replaces, OwnAt, OpenAt
<1>1. /\ page'[x].doc = page[x].doc /\ page'[x].at = None /\ \A u \in Tab : u \notin {x, v} => page'[u] = page[u]
      /\ UNCHANGED <<nav, tracked, docs, jobs, status, chosen>>
  BY <1>0 DEF Replaces, Parts, BrowserOK, Page
<1> DEFINE e == [kind |-> "replaced", tab |-> x, doc |-> 0, at |-> v]
<1>2. e \in Upd /\ upd \in Seq(Upd) /\ upd' = Append(upd, e) /\ e.tab = x
  BY DEF Upd, Parts, BrowserOK, Replaces
<1> HIDE DEF e
<1>3. /\ Extends(upd, upd') /\ DOMAIN upd' = 1..(Len(upd) + 1) /\ DOMAIN upd = 1..Len(upd) /\ upd'[Len(upd) + 1] = e
  BY <1>2, AppendedOne
<1>4. CASE t = x
  BY <1>1, <1>4, ClosedKeeps DEF Exists, docs
<1>5. CASE t # x
  <2>1. Leaving(t)' => Leaving(t)
    BY <1>2, <1>3, <1>5 DEF Leaving, Extends
  <2>2. Steady(t)
    BY <1>0, <1>1, <1>3, <1>5, <2>1, MovedSteady DEF Exists, Provider, tracked, Extends
  <2> QED  BY <2>2, SteadyKeeps
<1> QED  BY <1>4, <1>5

-----------------------------------------------------------------------------
(* The worker hears of it. *)

\* What the change of a tab does to the tabs the person used.
LEMMA ChangeOwn ==
  ASSUME Parts, NEW v \in Tab, NEW p \in Place \cup {None}, NEW d \in Nat, TabChange(v, p, d), NEW t \in Own
  PROVE  /\ UNCHANGED <<handled, released>>
         /\ <<t, "tab">> \in drops => <<t, "tab">> \in drops'
         /\ <<t, "get">> \in probes => <<t, "get">> \in probes'
         /\ bound'[t] = bound[t] \/ (bound'[t] = None /\ turn'[t] = None)
         /\ turn'[t] \in {turn[t], None}
         /\ t = v /\ p \in Chat /\ d # 0 /\ bound[t] # None /\ bound[t].doc # d => turn'[t] = None
<1>0. t \in Tab /\ ~IsGeneric(t)
  BY OwnTabs
<1>1. CASE IsGeneric(v)
  BY <1>0, <1>1 DEF TabChange, GenericChange
<1>2. CASE ~IsGeneric(v) /\ p = None
  BY <1>2, Constants DEF TabChange, Completed, docs, Place
<1>3. CASE ~IsGeneric(v) /\ p # None
  <2>1. UrlChange(v, p, d)
    BY <1>3 DEF TabChange
  <2>2. UNCHANGED <<released, handled, probes>> /\ drops \subseteq drops'
    BY <2>1 DEF UrlChange, DropDocument
  <2>3. \/ UNCHANGED <<bound, turn>> /\ ~(p \in Chat /\ bound[v] # None /\ d # 0 /\ bound[v].doc # d)
        \/ bound' = [bound EXCEPT ![v] = None] /\ turn' = [turn EXCEPT ![v] = None]
    BY <2>1 DEF UrlChange, DropDocument, FailRequests
  <2>4. bound \in [Tab -> Binding \cup {None}] /\ turn \in [Tab -> Turn \cup {None}]
    BY DEF Parts, DocsOK
  <2> QED  BY <1>0, <2>2, <2>3, <2>4
<1> QED  BY <1>1, <1>2, <1>3

\* A judged change, while no event of the tab that is needed is used up.
LEMMA ChangedSteady ==
  ASSUME Parts, NEW v \in Tab, NEW p \in Place \cup {None}, NEW d \in Nat, TabChange(v, p, d), NEW t \in Own,
         UNCHANGED <<page, overlapped, rebinds, ensure, popup>>,
         Leaving(t)' => Leaving(t), Arriving(t) => Arriving(t)', Completing(t) => Completing(t)'
  PROVE  Steady(t)
BY ChangeOwn DEF Steady, PendingInitialTransition, Exists, Provider

LEMMA NavEventOwn ==
  ASSUME Inv, Parts, NavEvent, NEW t \in Own, OwnAt(t)
  PROVE  OwnAt(t)'
<1> DEFINE e == Head(nav)
<1>1. /\ nav # <<>> /\ nav' = Tail(nav) /\ Navigated(e) /\ e \in Nav /\ nav \in Seq(Nav)
      /\ UNCHANGED <<page, permitted, upd, overlapped, late, rebinds, ensure, pub, sent, popup, used>>
  BY HeadOfNav DEF NavEvent, Parts, BrowserOK
<1>2. /\ 1 \in DOMAIN nav /\ e = nav[1]
      /\ \A i \in DOMAIN nav : i # 1 => i - 1 \in DOMAIN nav' /\ nav'[i - 1] = nav[i]
  BY <1>1, TailOf
<1> HIDE DEF e
<1>3. e.tab \in Tab /\ e.at \in Place /\ NewDoc(e) \in Nat
  BY <1>1 DEF Nav, NewDoc
<1>4. (Leaving(t)' <=> Leaving(t)) /\ (Completing(t)' <=> Completing(t))
  BY <1>1 DEF Leaving, Completing
<1>5. Arriving(t) => Arriving(t)' \/ (Commit(1) /\ nav[1].tab = t /\ nav[1].doc = page[t].doc /\ nav[1].at \in Chat)
  <2> SUFFICES ASSUME NEW i \in DOMAIN nav, Commit(i), nav[i].tab = t, nav[i].doc = page[t].doc, nav[i].at \in Chat, i # 1
               PROVE  Arriving(t)'
    BY DEF Arriving
  <2>1. i - 1 \in DOMAIN nav' /\ nav'[i - 1] = nav[i] /\ page' = page
    BY <1>1, <1>2
  <2> QED  BY <2>1 DEF Arriving, Commit
<1>6. CASE Arriving(t) => Arriving(t)'
  <2>1. CASE Accepts(e) /\ e.at \notin Site
    <3>1. TabChange(e.tab, e.at, NewDoc(e))
      BY <1>1, <2>1 DEF Navigated
    <3>2. Steady(t)
      BY <1>1, <1>3, <1>4, <1>6, <3>1, ChangedSteady
    <3> QED  BY <3>2, SteadyKeeps
  <2>2. CASE ~(Accepts(e) /\ e.at \notin Site)
    <3>1. UNCHANGED <<docs, drops, probes>>
      BY <1>1, <2>2 DEF Navigated
    <3>2. Steady(t)
      BY <1>1, <1>4, <1>6, <3>1 DEF Steady, PendingInitialTransition, docs, Exists, Provider
    <3> QED  BY <3>2, SteadyKeeps
  <2> QED  BY <2>1, <2>2
<1>7. CASE Commit(1) /\ nav[1].tab = t /\ nav[1].doc = page[t].doc /\ nav[1].at \in Chat
  <2>1. e.tab = t /\ e.kind = "committed" /\ e.doc # 0 /\ e.doc = page[t].doc /\ e.at \in Chat /\ e.at \notin Site
        /\ NewDoc(e) = page[t].doc
    BY <1>2, <1>7, Constants DEF Commit, NewDoc
  <2>2. Known(t) => e.doc # tracker[t].doc
    <3>1. Known(t) => tracker[t].doc < e.doc
      BY <1>2, <1>7, <2>1 DEF Inv, CommitInv
    <3>2. Known(t) => tracker[t].doc \in Nat
      BY OwnTabs DEF Known, Parts, TrackedOK, Mark
    <3> QED  BY <1>1, <3>1, <3>2 DEF Nav
  <2>3. Accepts(e)
    BY <2>1, <2>2 DEF Accepts
  <2>4. TabChange(t, e.at, page[t].doc)
    BY <1>1, <2>1, <2>3 DEF Navigated
  <2>5. t \in Tab /\ page[t].doc \in Nat /\ page[t].doc # 0 /\ e.at \in Place \cup {None}
    BY <1>3, <2>1, OwnTabs, PagesOfTabs
  <2>6. /\ UNCHANGED <<handled, released>>
        /\ <<t, "tab">> \in drops => <<t, "tab">> \in drops'
        /\ <<t, "get">> \in probes => <<t, "get">> \in probes'
        /\ bound'[t] = bound[t] \/ (bound'[t] = None /\ turn'[t] = None)
        /\ turn'[t] \in {turn[t], None}
        /\ bound[t] # None /\ bound[t].doc # page[t].doc => turn'[t] = None
    BY <2>1, <2>4, <2>5, ChangeOwn
  <2>7. OpenAt(t)' /\ EnsureAt(t)' /\ ScriptAt(t)'
    BY <1>1, <1>4, <2>6 DEF OwnAt, OpenAt, EnsureAt, ScriptAt, Exists, Provider
  <2>8. TrackAt(t)'
    BY <1>1, <1>4, <2>6 DEF OwnAt, TrackAt, Provider, Ensured
  <2>9. TurnAt(t)'
    <3> SUFFICES ASSUME Exists(t), t \notin overlapped, PendingInitialTransition(t)'
                 PROVE  /\ bound'[t] = None => ensure[t] \in {"ask", "inject", "wait"}
                        /\ ~page[t].script => Ensured(t)'
      BY <1>1 DEF TurnAt, Exists, Provider
    <3>1. PendingInitialTransition(t) /\ bound'[t] = bound[t] /\ (bound[t] # None => bound[t].doc = page[t].doc)
      BY <2>6 DEF PendingInitialTransition
    <3>2. bound[t] # None => page[t].script
      BY <3>1 DEF OwnAt, ScriptAt
    <3>3. bound[t] = None => ensure[t] \in {"ask", "inject", "wait"}
      BY <3>1 DEF OwnAt, TurnAt
    <3>4. ensure[t] = "wait" => page[t].script
      BY DEF OwnAt, EnsureAt
    <3> QED  BY <1>1, <3>1, <3>2, <3>3, <3>4 DEF Ensured
  <2> QED  BY <2>7, <2>8, <2>9 DEF OwnAt
<1> QED  BY <1>5, <1>6, <1>7

LEMMA PermittedOwn ==
  ASSUME Inv, Parts, NEW c \in checks, Permitted(c), NEW t \in Own, OwnAt(t)
  PROVE  OwnAt(t)'
<1>1. c.tab \in Tab /\ c.at \in Place /\ c.doc \in Nat
  BY DEF Parts, TrackedOK, Check
<1>2. UNCHANGED <<page, nav, upd, overlapped, rebinds, ensure, popup>>
  BY DEF Permitted, browser
<1>3. (Leaving(t)' <=> Leaving(t)) /\ (Completing(t)' <=> Completing(t)) /\ (Arriving(t)' <=> Arriving(t))
  BY <1>2 DEF Leaving, Completing, Arriving, Commit
<1>4. CASE StillCurrent(c) /\ c.at \in permitted
  <2>1. TabChange(c.tab, c.at, c.doc)
    BY <1>4 DEF Permitted
  <2>2. Steady(t)
    BY <1>1, <1>2, <1>3, <2>1, ChangedSteady
  <2> QED  BY <2>2, SteadyKeeps
<1>5. CASE ~(StillCurrent(c) /\ c.at \in permitted)
  <2>1. UNCHANGED <<bound, handled, released, drops, probes>> /\ turn'[t] \in {turn[t], None}
    BY <1>5, OwnTabs DEF Permitted, docs, FailRequests, Parts, DocsOK
  <2>2. Steady(t)
    BY <1>2, <1>3, <2>1 DEF Steady, PendingInitialTransition, Exists, Provider
  <2> QED  BY <2>2, SteadyKeeps
<1> QED  BY <1>4, <1>5

\* The head of the tabs' events is used up.
LEMMA HeadUsed ==
  ASSUME Parts, upd # <<>>, upd' = Tail(upd), NEW t \in Own
  PROVE  /\ Leaving(t)' => Leaving(t)
         /\ Completing(t) => Completing(t)' \/ (Head(upd).kind = "complete" /\ Head(upd).tab = t)
<1>1. /\ Head(upd) = upd[1] /\ 1 \in DOMAIN upd
      /\ \A i \in DOMAIN upd : i # 1 => i - 1 \in DOMAIN upd' /\ upd'[i - 1] = upd[i]
      /\ \A i \in DOMAIN upd' : i + 1 \in DOMAIN upd /\ upd'[i] = upd[i + 1]
  <2>1. upd \in Seq(Upd)
    BY DEF Parts, BrowserOK
  <2> QED  BY <2>1, TailOf
<1>2. Leaving(t)' => Leaving(t)
  BY <1>1 DEF Leaving
<1>3. ASSUME Completing(t) PROVE Completing(t)' \/ (Head(upd).kind = "complete" /\ Head(upd).tab = t)
  <2>1. PICK i \in DOMAIN upd : upd[i].kind = "complete" /\ upd[i].tab = t
    BY <1>3 DEF Completing
  <2>2. CASE i = 1
    BY <1>1, <2>1, <2>2
  <2>3. CASE i # 1
    BY <1>1, <2>1, <2>3 DEF Completing
  <2> QED  BY <2>2, <2>3
<1> QED  BY <1>2, <1>3

LEMMA UpdEventOwn ==
  ASSUME Inv, Parts, UpdEvent, NEW t \in Own, OwnAt(t)
  PROVE  OwnAt(t)'
<1> DEFINE e == Head(upd)
<1>1. /\ upd # <<>> /\ upd' = Tail(upd) /\ e.kind \in {"url", "complete"} /\ TabChange(e.tab, e.at, 0)
      /\ e.kind = "complete" => \A i \in DOMAIN nav : nav[i].tab # e.tab
      /\ UNCHANGED <<page, nav, tracked, rebinds, ensure, popup>> /\ e \in Upd /\ e.tab \in Tab
  BY HeadOfUpd DEF UpdEvent
<1>2. /\ Leaving(t)' => Leaving(t)
      /\ Completing(t) => Completing(t)' \/ (e.kind = "complete" /\ e.tab = t)
      /\ Arriving(t) => Arriving(t)'
  BY <1>1, HeadUsed DEF Arriving, Commit
<1> HIDE DEF e
<1>3. e.at \in Place \cup {None} /\ (e.kind = "complete" => e.at = None)
  BY <1>1 DEF Upd
<1>4. CASE Completing(t) => Completing(t)'
  <2>1. Steady(t)
    BY <1>1, <1>2, <1>3, <1>4, ChangedSteady DEF tracked
  <2> QED  BY <2>1, SteadyKeeps
<1>5. CASE e.kind = "complete" /\ e.tab = t
  <2>1. Completed(t) /\ t \in Tab
    BY <1>1, <1>3, <1>5, OwnTabs DEF TabChange
  <2>2. UNCHANGED <<bound, handled, released, turn, drops, overlapped>> /\ probes \subseteq probes'
    BY <1>1, <2>1 DEF Completed, docs, tracked
  <2>3. OpenAt(t)' /\ EnsureAt(t)' /\ ScriptAt(t)' /\ TurnAt(t)'
    <3>1. ~Arriving(t)
      BY <1>1, <1>5 DEF Arriving
    <3> QED  BY <1>1, <1>2, <2>2, <3>1 DEF OwnAt, OpenAt, EnsureAt, ScriptAt, TurnAt, PendingInitialTransition, Exists, Provider, Ensured
  <2>4. TrackAt(t)'
    <3> SUFFICES ASSUME Provider(t), ~page[t].script, t \notin released, t \notin overlapped
                 PROVE  Ensured(t)' \/ <<t, "get">> \in probes' \/ <<t, "tab">> \in drops'
      BY <1>1, <2>2 DEF TrackAt, Provider
    <3>1. Exists(t) /\ t \in handled
      BY Constants DEF OwnAt, OpenAt, Exists, Provider, Place
    <3>2. CASE PendingInitialTransition(t)
      <4>1. ~Arriving(t)
        BY <1>1, <1>5 DEF Arriving
      <4>2. Ensured(t) \/ <<t, "tab">> \in drops
        BY <3>1, <3>2, <4>1 DEF OwnAt, TurnAt
      <4> QED  BY <1>1, <2>2, <4>2 DEF Ensured
    <3>3. CASE ~PendingInitialTransition(t)
      BY <2>1, <3>1, <3>3 DEF Completed
    <3> QED  BY <3>2, <3>3
  <2> QED  BY <2>3, <2>4 DEF OwnAt
<1> QED  BY <1>2, <1>4, <1>5

LEMMA RemEventOwn ==
  ASSUME Inv, Parts, RemEvent, NEW t \in Own, OwnAt(t)
  PROVE  OwnAt(t)'
<1>0. Head(upd).tab \in Tab /\ t \in Tab
  BY HeadOfUpd, OwnTabs DEF RemEvent
<1> PICK v \in Tab : v = Head(upd).tab
  BY <1>0
<1>1. /\ upd # <<>> /\ upd' = Tail(upd) /\ Head(upd).kind = "removed" /\ Gone(v) /\ released' = released \ {v}
      /\ UNCHANGED <<page, nav, overlapped, jobs, popup>>
  BY DEF RemEvent
<1>2. Leaving(v)
  BY <1>1 DEF Leaving, Parts, BrowserOK
<1>3. CASE t = v
  BY <1>0, <1>1, <1>2, <1>3, GoneDoes, ClosedKeeps DEF OwnAt, OpenAt, Exists
<1>4. CASE t # v
  <2>1. (Leaving(t)' => Leaving(t)) /\ (Completing(t) => Completing(t)') /\ (Arriving(t) => Arriving(t)')
    BY <1>1, HeadUsed DEF Arriving, Commit
  <2>2. bound'[t] = bound[t] /\ turn'[t] = turn[t] /\ handled' = handled \ {v}
    BY <1>0, <1>1, <1>4 DEF Gone, FailRequests, Parts, DocsOK
  <2>3. Steady(t)
    BY <1>1, <1>4, <2>1, <2>2 DEF Steady, PendingInitialTransition, jobs, Exists, Provider
  <2> QED  BY <2>3, SteadyKeeps
<1> QED  BY <1>3, <1>4

LEMMA ReplEventOwn ==
  ASSUME Inv, Parts, ReplEvent, NEW t \in Own, OwnAt(t)
  PROVE  OwnAt(t)'
<1>0. /\ Head(upd).tab \in Tab /\ t \in Tab /\ Head(upd).at \in ProviderTab
      /\ upd # <<>> /\ upd' = Tail(upd) /\ Head(upd).kind = "replaced"
  <2>1. Head(upd) \in Upd /\ Head(upd).kind = "replaced" /\ Head(upd).tab \in Tab
    BY HeadOfUpd DEF ReplEvent
  <2> QED  BY <2>1, OwnTabs DEF Upd, ReplEvent
<1> PICK v \in Tab, w \in ProviderTab : v = Head(upd).tab /\ w = Head(upd).at
  BY <1>0
<1>1. /\ Gone(v) /\ UNCHANGED <<page, overlapped, released, jobs, popup>>
      /\ nav' = (IF Exists(w) THEN <<Committed(w, 0, page[w].at)>> \o nav ELSE nav)
  BY DEF ReplEvent
<1>2. Leaving(v)
  BY <1>0 DEF Leaving, Parts, BrowserOK
<1>3. CASE t = v
  BY <1>0, <1>1, <1>2, <1>3, GoneDoes, ClosedKeeps DEF OwnAt, OpenAt, Exists
<1>4. CASE t # v
  <2>1. (Leaving(t)' => Leaving(t)) /\ (Completing(t) => Completing(t)')
    BY <1>0, <1>4, HeadUsed
  <2>2. Arriving(t) => Arriving(t)'
    <3>1. CASE nav' = nav
      BY <1>1, <3>1 DEF Arriving, Commit
    <3>2. CASE Exists(w)
      <4>1. Committed(w, 0, page[w].at) \in Nav /\ nav \in Seq(Nav)
        BY <3>2, PagesOfTabs DEF Committed, Nav, Exists, Tab, Parts, BrowserOK
      <4>2. nav' = <<Committed(w, 0, page[w].at)>> \o nav /\ <<Committed(w, 0, page[w].at)>> \in Seq(Nav)
        BY <1>1, <3>2, <4>1
      <4>3. \A i \in DOMAIN nav : i + 1 \in DOMAIN nav' /\ nav'[i + 1] = nav[i]
        BY <4>1, <4>2
      <4> QED  BY <1>1, <4>3 DEF Arriving, Commit
    <3> QED  BY <1>1, <3>1, <3>2
  <2>3. bound'[t] = bound[t] /\ turn'[t] = turn[t] /\ handled' = handled \ {v}
    BY <1>0, <1>1, <1>4 DEF Gone, FailRequests, Parts, DocsOK
  <2>4. Steady(t)
    BY <1>1, <1>4, <2>1, <2>2, <2>3 DEF Steady, PendingInitialTransition, jobs, Exists, Provider
  <2> QED  BY <2>4, SteadyKeeps
<1> QED  BY <1>3, <1>4

-----------------------------------------------------------------------------
(* Documents, requests, publications and the popup. *)

\* A step that leaves the tab alone, but that our script may run in its page.
LEMMA LeftAlone ==
  ASSUME NEW t \in Own, UNCHANGED <<nav, upd, overlapped>>,
         page'[t].doc = page[t].doc, page'[t].at = page[t].at, page[t].script => page'[t].script,
         t \in handled \cup released => t \in handled' \cup released',
         t \in released => t \in released' \/ Fine(t) \/ Ensured(t)',
         ensure'[t] = ensure[t] \/ (ensure[t] = "none" /\ ensure'[t] = "load"),
         bound'[t] = bound[t], turn'[t] = turn[t] \/ turn'[t] = None,
         \A r \in rebinds' : r[1] = t => r \in rebinds \/ page[t].script,
         <<t, "tab">> \in drops => <<t, "tab">> \in drops', <<t, "get">> \in probes => <<t, "get">> \in probes',
         popup' # None /\ popup'.step = "select" /\ popup'.tab = t =>
           (popup # None /\ popup.step = "select" /\ popup.tab = t) \/ page[t].script
  PROVE  Steady(t)
<1>1. /\ Leaving(t)' <=> Leaving(t)
      /\ Arriving(t)' <=> Arriving(t)
      /\ Completing(t)' <=> Completing(t)
      /\ Exists(t)' <=> Exists(t)
      /\ Provider(t)' <=> Provider(t)
  BY DEF Leaving, Arriving, Completing, Commit, Exists, Provider
<1> QED  BY <1>1 DEF Steady, PendingInitialTransition

LEMMA InjectedOwn ==
  ASSUME Parts, NEW c, page' = Injected(c), NEW t \in Own
  PROVE  page'[t].doc = page[t].doc /\ page'[t].at = page[t].at /\ (page[t].script => page'[t].script)
<1>1. t \in Tab /\ page[t] \in Page
  BY OwnTabs
<1> QED  BY <1>1, OwnTabs DEF Injected

LEMMA PubSteady ==
  ASSUME Parts, Pub, NEW t \in Own
  PROVE  Steady(t)
<1>1. CASE PubBegin
  BY <1>1, LeftAlone DEF PubBegin, browser, tracked, docs, jobs, chosen
<1>2. CASE PubAnswered
  <2>1. UNCHANGED <<permitted, nav, upd, tracked, docs, jobs, asked, popup, used>> /\ page' = Injected(pub.of)
    BY <1>2 DEF PubAnswered, PubStatuses
  <2> QED  BY <2>1, InjectedOwn, LeftAlone DEF tracked, docs, jobs
<1>3. CASE PubReleased
  BY <1>3, LeftAlone DEF PubReleased, browser, tracked, docs, jobs, chosen
<1> QED  BY <1>1, <1>2, <1>3 DEF Pub

LEMMA DroppedSteady ==
  ASSUME Parts, NEW v \in Tab, NEW what \in {"tab", "origin"}, Dropped(v, what), NEW t \in Own
  PROVE  Steady(t)
<1>1. UNCHANGED <<browser, tracked, probes, rebinds, ensure, popup>> /\ drops' = drops \ {<<v, what>>} /\ t \in Tab
  BY OwnTabs DEF Dropped
<1>2. CASE t = v /\ what = "tab"
  <2>1. t \in released' /\ bound'[t] = None /\ turn'[t] = None
    BY <1>1, <1>2 DEF Dropped, FailRequests, Parts, DocsOK
  <2>2. /\ Leaving(t)' <=> Leaving(t)
        /\ Arriving(t)' <=> Arriving(t)
        /\ Completing(t)' <=> Completing(t)
    BY <1>1 DEF Leaving, Arriving, Completing, Commit, browser
  <2> QED  BY <1>1, <2>1, <2>2 DEF Steady, PendingInitialTransition, Exists, Provider, browser, tracked
<1>3. CASE ~(t = v /\ what = "tab")
  <2>1. /\ bound'[t] = bound[t] /\ turn'[t] \in {turn[t], None}
        /\ t \in released => t \in released'
        /\ t \in handled => t \in handled' \cup released'
    BY <1>1, <1>3 DEF Dropped, FailRequests, Parts, DocsOK
  <2>2. <<t, "tab">> \in drops => <<t, "tab">> \in drops'
    BY <1>1, <1>3
  <2>3. UNCHANGED <<page, nav, upd, overlapped, probes, rebinds, ensure, popup>>
    BY <1>1 DEF browser, tracked
  <2> QED  BY <2>1, <2>2, <2>3, LeftAlone
<1> QED  BY <1>2, <1>3

\* Ensuring a tab starts an operation, or the one under way has done its work.
LEMMA EnsuredFine ==
  ASSUME Parts, NEW t \in Own, OwnAt(t), NEW S, t \in S, Ensure(S), page' = page
  PROVE  Fine(t) \/ Ensured(t)'
<1>1. t \in Tab /\ t \in ProviderTab
  BY OwnTabs
<1>2. ensure'[t] = IF ensure[t] = "none" THEN "load" ELSE ensure[t]
  BY <1>1 DEF Ensure
<1>3. ensure[t] \in {"none", "load", "probe", "ask", "inject", "wait"}
  BY <1>1 DEF Parts, JobsOK
<1>4. ensure[t] = "wait" => Fine(t)
  BY DEF OwnAt, EnsureAt, Fine
<1> QED  BY <1>2, <1>3, <1>4 DEF Ensured

LEMMA EnsureStarts ==
  ASSUME NEW S, Ensure(S), NEW t \in Tab
  PROVE  ensure'[t] = ensure[t] \/ (ensure[t] = "none" /\ ensure'[t] = "load")
BY DEF Ensure

LEMMA ProbesSteady ==
  ASSUME Parts, NEW v \in Tab, Probes(v), NEW t \in Own, OwnAt(t)
  PROVE  Steady(t)
<1>1. UNCHANGED <<browser, tracked, docs, rebinds, status, chosen, used>> /\ t \in Tab
  BY OwnTabs DEF Probes
<1>2. /\ Leaving(t)' <=> Leaving(t)
      /\ Arriving(t)' <=> Arriving(t)
      /\ Completing(t)' <=> Completing(t)
  BY <1>1 DEF Leaving, Arriving, Completing, Commit, browser
<1>3. drops \subseteq drops' /\ (ensure'[t] = ensure[t] \/ (ensure[t] = "none" /\ ensure'[t] = "load"))
  BY <1>1, EnsureStarts DEF Probes
<1>4. <<t, "get">> \in probes => <<t, "get">> \in probes' \/ <<t, "tab">> \in drops' \/ Fine(t) \/ Ensured(t)'
  <2>1. CASE t # v
    BY <2>1 DEF Probes
  <2>2. CASE t = v /\ Provider(v)
    <3>1. Ensure({t}) /\ page' = page
      BY <1>1, <2>2 DEF Probes, browser
    <3> QED  BY <3>1, EnsuredFine
  <2>3. CASE t = v /\ ~Provider(v)
    BY <2>3 DEF Probes
  <2> QED  BY <2>1, <2>2, <2>3
<1> QED  BY <1>1, <1>2, <1>3, <1>4 DEF Steady, PendingInitialTransition, Exists, Provider, browser, tracked, docs, chosen

LEMMA ProbedSteady ==
  ASSUME Parts, NEW v \in Tab, Probed(v), NEW t \in Own
  PROVE  Steady(t)
<1>1. UNCHANGED <<browser, tracked, docs, drops, rebinds, ensure, chosen>> /\ probes' = probes \ {<<v, "ensure">>}
  BY DEF Probed
<1> QED  BY <1>1, LeftAlone DEF browser, tracked, docs, chosen

\* The operation for the tab itself.
LEMMA EnsuresOwn ==
  ASSUME Inv, Parts, NEW v \in Tab, Ensures(v), NEW t \in Own, OwnAt(t)
  PROVE  OwnAt(t)'
<1>0. /\ t \in Tab /\ page \in [Tab -> Page] /\ bound \in [Tab -> Binding \cup {None}]
      /\ ensure \in [Tab -> {"none", "load", "probe", "ask", "inject", "wait"}]
  BY OwnTabs DEF Parts, BrowserOK, DocsOK, JobsOK
<1>1. EnsureSteps(v) /\ UNCHANGED <<nav, upd, tracked, handled, released, turn, drops, probes, rebinds, chosen>>
  BY DEF Ensures
<1>2. CASE t # v
  <2>1. page'[t] = page[t] /\ bound'[t] = bound[t] /\ ensure'[t] = ensure[t]
    BY <1>0, <1>1, <1>2 DEF EnsureSteps, EnsureLoad, EnsureProbe, EnsureAsk, EnsureInject, EnsureWait
  <2>2. Steady(t)
    BY <1>1, <2>1, LeftAlone DEF tracked, chosen
  <2> QED  BY <2>2, SteadyKeeps
<1>3. CASE t = v
  <2>1. page'[t].doc = page[t].doc /\ page'[t].at = page[t].at /\ (page[t].script => page'[t].script)
    <3>1. page'[t] = page[t] \/ page'[t] = [page[t] EXCEPT !.script = TRUE]
      BY <1>0, <1>1, <1>3 DEF EnsureSteps, EnsureLoad, EnsureProbe, EnsureAsk, EnsureInject, EnsureWait
    <3>2. page[t] \in Page
      BY <1>0
    <3> QED  BY <3>1, <3>2 DEF Page
  <2>2. /\ Leaving(t)' <=> Leaving(t)
        /\ Arriving(t)' <=> Arriving(t)
        /\ Completing(t)' <=> Completing(t)
        /\ Exists(t)' <=> Exists(t)
        /\ Provider(t)' <=> Provider(t)
    BY <1>1, <2>1 DEF Leaving, Arriving, Completing, Commit, Exists, Provider
  <2>3. bound'[t] \in {bound[t], None}
    BY <1>0, <1>1, <1>3 DEF EnsureSteps, EnsureLoad, EnsureProbe, EnsureAsk, EnsureInject, EnsureWait
  <2>4. UNCHANGED <<overlapped, popup>>
    BY <1>1 DEF tracked, chosen
  <2>5. OpenAt(t)'
    BY <1>1, <2>1, <2>2 DEF OwnAt, OpenAt
  <2>6. ScriptAt(t)'
    BY <1>1, <2>1, <2>2, <2>3 DEF OwnAt, ScriptAt
  <2>7. CASE ~Exists(t) \/ t \in overlapped
    <3>1. ~Exists(t) => ~Provider(t)
      BY Constants DEF Exists, Provider, Place
    <3>2. EnsureAt(t)' /\ TurnAt(t)' /\ TrackAt(t)'
      BY <2>2, <2>4, <2>7, <3>1 DEF EnsureAt, TurnAt, TrackAt
    <3> QED  BY <2>5, <2>6, <3>2 DEF OwnAt
  <2>8. CASE Exists(t) /\ t \notin overlapped
    \* What the operation comes to, by the step it was at.
    <3>1. /\ ensure[t] \in {"probe", "ask", "inject"} => Provider(t)
          /\ ensure[t] = "wait" => page[t].script
          /\ popup # None /\ popup.step = "select" /\ popup.tab = t => page[t].script
      BY <2>8 DEF OwnAt, EnsureAt
    <3>2. \/ ensure[t] = "load" /\ ~Provider(t) /\ ensure'[t] = "none" /\ bound'[t] = bound[t]
          \/ ensure[t] = "load" /\ Provider(t) /\ ensure'[t] \in {"probe", "ask"} /\ bound'[t] = bound[t]
             /\ (bound[t] = None => ensure'[t] = "ask")
          \/ ensure[t] = "probe" /\ page[t].script /\ ensure'[t] = "none" /\ bound[t] # None /\ bound'[t] = bound[t]
          \/ ensure[t] = "probe" /\ ensure'[t] = "ask"
          \/ ensure[t] = "ask" /\ page[t].script /\ ensure'[t] = "none" /\ bound[t] # None /\ bound'[t] = bound[t]
          \/ ensure[t] = "ask" /\ ensure'[t] = "inject"
          \/ ensure[t] = "inject" /\ page'[t].script /\ ensure'[t] = "wait"
          \/ ensure[t] = "wait" /\ ensure'[t] = "none" /\ bound[t] # None /\ bound'[t] = bound[t]
      <4>1. EnsureLoad(v) \/ EnsureProbe(v) \/ EnsureAsk(v) \/ EnsureInject(v) \/ EnsureWait(v)
        BY <1>1 DEF EnsureSteps
      <4>2. CASE EnsureLoad(v)
        BY <1>0, <1>3, <4>2 DEF EnsureLoad
      <4>3. CASE EnsureProbe(v)
        BY <1>0, <1>3, <4>3 DEF EnsureProbe
      <4>4. CASE EnsureAsk(v)
        BY <1>0, <1>3, <4>4 DEF EnsureAsk
      <4>5. CASE EnsureInject(v)
        <5>1. ensure[t] = "inject" /\ Provider(t)
          BY <1>3, <3>1, <4>5 DEF EnsureInject
        <5>2. page' = [page EXCEPT ![t].script = TRUE] /\ ensure' = [ensure EXCEPT ![t] = "wait"]
          BY <1>3, <2>8, <4>5, <5>1 DEF EnsureInject
        <5>3. page'[t].script
          BY <1>0, <5>2 DEF Page
        <5> QED  BY <1>0, <5>1, <5>2, <5>3
      <4>6. CASE EnsureWait(v)
        BY <1>0, <1>3, <3>1, <4>6 DEF EnsureWait
      <4> QED  BY <4>1, <4>2, <4>3, <4>4, <4>5, <4>6
    <3>3. EnsureAt(t)'
      BY <2>1, <2>2, <2>4, <3>1, <3>2 DEF EnsureAt
    <3>4. TurnAt(t)'
      <4> SUFFICES ASSUME PendingInitialTransition(t)
                   PROVE  /\ bound'[t] = None => ensure'[t] \in {"ask", "inject", "wait"}
                          /\ Provider(t) /\ ~page'[t].script => Arriving(t) \/ Ensured(t)' \/ <<t, "tab">> \in drops
        BY <1>1, <2>2 DEF TurnAt, PendingInitialTransition
      <4>1. /\ bound[t] = None => ensure[t] \in {"ask", "inject", "wait"}
            /\ Provider(t) /\ ~page[t].script => Arriving(t) \/ Ensured(t) \/ <<t, "tab">> \in drops
        BY <2>8 DEF OwnAt, TurnAt
      <4>2. bound'[t] = None => ensure'[t] \in {"ask", "inject", "wait"}
        BY <3>2, <4>1
      <4>3. Provider(t) /\ ~page'[t].script => ~page[t].script /\ (Ensured(t) => Ensured(t)')
        BY <2>1, <3>1, <3>2 DEF Ensured
      <4> QED  BY <4>1, <4>2, <4>3
    <3>5. TrackAt(t)'
      <4>1. Provider(t) /\ ~page'[t].script => ~page[t].script /\ (Ensured(t) => Ensured(t)')
        BY <2>1, <3>1, <3>2 DEF Ensured
      <4> QED  BY <1>1, <2>2, <2>4, <4>1 DEF OwnAt, TrackAt
    <3> QED  BY <2>5, <2>6, <3>3, <3>4, <3>5 DEF OwnAt
  <2> QED  BY <2>7, <2>8
<1> QED  BY <1>2, <1>3

LEMMA RegistersSteady ==
  ASSUME Parts, ScriptInv, NEW v \in Tab, Registers(v), NEW t \in Own
  PROVE  Steady(t)
<1>1. /\ UNCHANGED <<page, nav, upd, overlapped, handled, released, turn, drops, probes, ensure, popup>>
      /\ page[v].script /\ Now(v) \in Binding /\ Now(v).doc = page[v].doc
  BY ScriptPlaces DEF Registers, Says, browser, tracked, Now
<1>2. \A r \in rebinds' : r \in rebinds \/ r = <<v, Now(v)>>
  BY DEF Registers
<1>3. bound'[t] = bound[t] \/ (t = v /\ bound'[t] = Now(v))
  BY OwnTabs DEF Registers, Parts, DocsOK
<1>4. bound'[t] = bound[t] \/ (bound'[t] # None /\ bound'[t].doc = page[t].doc /\ page[t].script)
  BY <1>1, <1>3, Constants DEF Binding
<1>5. page[t].doc <= page[t].doc
  BY OwnTabs, PagesOfTabs
<1>6. /\ Leaving(t)' <=> Leaving(t)
      /\ Arriving(t)' <=> Arriving(t)
      /\ Completing(t)' <=> Completing(t)
      /\ Exists(t)' <=> Exists(t)
      /\ Provider(t)' <=> Provider(t)
  BY <1>1 DEF Leaving, Arriving, Completing, Commit, Exists, Provider
<1> QED  BY <1>1, <1>2, <1>4, <1>5, <1>6 DEF Steady, PendingInitialTransition

LEMMA ReboundOwn ==
  ASSUME Inv, Parts, NEW v \in ProviderTab, NEW b \in Binding, Rebound(v, b), NEW t \in Own, OwnAt(t)
  PROVE  Steady(t)
<1>1. /\ UNCHANGED <<page, nav, upd, overlapped, handled, released, turn, drops, probes, ensure, popup>>
      /\ <<v, b>> \in rebinds /\ rebinds' \subseteq rebinds
  BY DEF Rebound, browser, chosen
<1>2. bound'[t] = bound[t] \/ (t = v /\ bound'[t] = b)
  BY OwnTabs DEF Rebound, Parts, DocsOK
<1>3. t = v => b.doc <= page[t].doc /\ (Exists(t) /\ b.doc = page[t].doc => page[t].script)
  <2>1. <<v, b>>[1] = v /\ <<v, b>>[2] = b
    OBVIOUS
  <2> QED  BY <1>1, <2>1 DEF Inv, RebindInv, OwnAt, ScriptAt
<1>4. b # None
  BY Constants DEF Binding
<1>5. /\ Leaving(t)' <=> Leaving(t)
      /\ Arriving(t)' <=> Arriving(t)
      /\ Completing(t)' <=> Completing(t)
      /\ Exists(t)' <=> Exists(t)
      /\ Provider(t)' <=> Provider(t)
  BY <1>1 DEF Leaving, Arriving, Completing, Commit, Exists, Provider
<1> QED  BY <1>1, <1>2, <1>3, <1>4, <1>5 DEF Steady, PendingInitialTransition

LEMMA GenericRegistersSteady ==
  ASSUME Parts, NEW v \in Tab, GenericRegisters(v), NEW t \in Own
  PROVE  Steady(t)
<1>1. UNCHANGED <<page, nav, upd, overlapped, bound, handled, released, turn, drops, probes, rebinds, ensure, popup>>
  BY DEF GenericRegisters, browser, tracked, jobs, chosen
<1> QED  BY <1>1, LeftAlone

LEMMA RequestsSteady ==
  ASSUME Parts, ScriptInv, NEW v \in Tab, Requests(v), NEW t \in Own
  PROVE  Steady(t)
<1>1. UNCHANGED <<page, nav, upd, overlapped, handled, released, drops, probes, rebinds, ensure, popup>>
  BY DEF Requests, Begins, Transition, Answered, Fails, browser, tracked, jobs, chosen
<1>2. /\ Leaving(t)' <=> Leaving(t)
      /\ Arriving(t)' <=> Arriving(t)
      /\ Completing(t)' <=> Completing(t)
      /\ Exists(t)' <=> Exists(t)
      /\ Provider(t)' <=> Provider(t)
  BY <1>1 DEF Leaving, Arriving, Completing, Commit, Exists, Provider
<1>3. t \in Tab /\ t \in ProviderTab /\ page[t].doc <= page[t].doc
  BY OwnTabs, PagesOfTabs
<1>4. CASE Begins(v)
  <2>1. bound'[t] = bound[t] /\ (turn'[t] = turn[t] \/ (t = v /\ page[t].script /\ bound[t] = Now(t)))
    BY <1>3, <1>4 DEF Begins, Parts, DocsOK
  <2>2. page[t].script => Now(t) # None
    BY <1>3, ScriptPlaces, Constants DEF Binding
  <2> QED  BY <1>1, <1>2, <2>1, <2>2 DEF Steady, PendingInitialTransition
<1>5. CASE Transition(v)
  <2>1. \/ bound'[t] = bound[t] /\ turn'[t] = turn[t]
        \/ bound'[t] = Now(t) /\ page[t].script
    BY <1>3, <1>5 DEF Transition, Parts, DocsOK
  <2>2. page[t].script => Now(t) # None /\ Now(t).doc = page[t].doc
    BY <1>3, ScriptPlaces, Constants DEF Binding, Now
  <2> QED  BY <1>1, <1>2, <1>3, <2>1, <2>2 DEF Steady, PendingInitialTransition
<1>6. CASE Answered(v) \/ Fails(v)
  <2>1. bound'[t] = bound[t] /\ turn'[t] \in {turn[t], None}
    BY <1>3, <1>6 DEF Answered, Fails, FailRequests, Parts, DocsOK
  <2> QED  BY <1>1, <2>1, LeftAlone
<1> QED  BY <1>4, <1>5, <1>6 DEF Requests

-----------------------------------------------------------------------------
(* The popup. *)

\* A step that takes tabs out of the released ones and ensures them.
LEMMA HandledSteady ==
  ASSUME Parts, NEW S, Handle(S), Ensure(S), NEW t \in Own, OwnAt(t),
         UNCHANGED <<page, nav, upd, overlapped, bound, turn, drops, probes, rebinds>>,
         popup' = None \/ popup'.step # "select"
  PROVE  Steady(t)
<1>1. t \in handled \cup released => t \in handled' \cup released'
  BY DEF Handle
<1>2. t \in released => t \in released' \/ Fine(t) \/ Ensured(t)'
  <2>1. CASE t \in S
    BY <2>1, EnsuredFine
  <2>2. CASE t \notin S
    BY <2>2 DEF Handle
  <2> QED  BY <2>1, <2>2
<1>3. ensure'[t] = ensure[t] \/ (ensure[t] = "none" /\ ensure'[t] = "load")
  BY OwnTabs, EnsureStarts
<1> QED  BY <1>1, <1>2, <1>3, LeftAlone

LEMMA PopupBuiltSteady ==
  ASSUME Parts, PopupBuilt, NEW t \in Own
  PROVE  Steady(t)
<1>1. /\ UNCHANGED <<nav, upd, overlapped, bound, handled, released, turn, drops, probes, rebinds, ensure>>
      /\ page' = Injected(popup.of)
  BY DEF PopupBuilt, tracked, docs, jobs
<1>2. page'[t].doc = page[t].doc /\ page'[t].at = page[t].at /\ (page[t].script => page'[t].script)
  BY <1>1, InjectedOwn
<1>3. popup' # None /\ popup'.step = "select" /\ popup'.tab = t => page[t].script
  <2>1. popup \in [step : {"ensure", "status"}, tab : Tab, of : SUBSET Bound]
    BY DEF PopupBuilt, Parts, ChosenOK, Mutation
  <2>2. ASSUME NEW s \in Answering(popup.of), s.tab = popup.tab, popup' = [popup EXCEPT !.step = "select", !.of = {s}],
               popup'.tab = t
        PROVE  page[t].script
    <3>1. popup.tab = t
      BY <2>1, <2>2
    <3>2. PICK x \in popup.of : page[x.tab].script /\ s = Session(x.tab, x.on)
      BY <2>2 DEF Answering
    <3> QED  BY <2>2, <3>1, <3>2 DEF Session
  <2> QED  BY <2>2 DEF PopupBuilt
<1> QED  BY <1>1, <1>2, <1>3, LeftAlone

LEMMA PopupSelectedSteady ==
  ASSUME Parts, PopupSelected, NEW t \in Own, OwnAt(t)
  PROVE  Steady(t)
<1>1. /\ UNCHANGED <<page, nav, upd, overlapped, bound, turn, drops, probes, rebinds, ensure>>
      /\ Handle({popup.tab}) /\ popup # None /\ popup.step = "select"
  BY DEF PopupSelected, browser, tracked, jobs
<1>2. t \in handled \cup released => t \in handled' \cup released'
  BY <1>1 DEF Handle
<1>3. t \in released => t \in released' \/ Fine(t)
  <2>1. CASE popup.tab = t
    BY <1>1, <2>1 DEF OwnAt, EnsureAt, Fine
  <2>2. CASE popup.tab # t
    BY <1>1, <2>2 DEF Handle
  <2> QED  BY <2>1, <2>2
<1>4. popup'.step = "publish"
  BY PopupSelectedTyped
<1> QED  BY <1>1, <1>2, <1>3, <1>4, LeftAlone

LEMMA PopupSteady ==
  ASSUME Parts, Popup, NEW t \in Own, OwnAt(t)
  PROVE  Steady(t)
<1>1. ASSUME NEW v \in Tab, PopupSelect(v)
      PROVE  Steady(t)
  <2>1. popup'.step # "select"
    BY <1>1 DEF PopupSelect, Wait
  <2>2. Handle({v}) /\ Ensure({v}) /\ UNCHANGED <<page, nav, upd, overlapped, bound, turn, drops, probes, rebinds>>
    BY <1>1 DEF PopupSelect, browser, tracked
  <2> QED  BY <2>1, <2>2, HandledSteady
<1>2. CASE PopupEnsured
  <2>1. popup'.step = "status"
    BY <1>2 DEF PopupEnsured, Parts, ChosenOK, Mutation
  <2>2. UNCHANGED <<page, nav, upd, overlapped, docs, jobs>>
    BY <1>2 DEF PopupEnsured, browser, tracked
  <2> QED  BY <2>1, <2>2, LeftAlone DEF docs, jobs
<1>3. CASE PopupDeselect
  <2>1. popup'.step = "publish"
    BY <1>3 DEF PopupDeselect, Wait
  <2>2. UNCHANGED <<page, nav, upd, overlapped, docs, jobs>>
    BY <1>3 DEF PopupDeselect, browser, tracked
  <2> QED  BY <2>1, <2>2, LeftAlone DEF docs, jobs
<1>4. CASE PopupDiscover
  <2>1. popup'.step # "select"
    BY <1>4 DEF PopupDiscover, Wait
  <2>2. PICK found : Handle(found) /\ Ensure(found)
    BY <1>4 DEF PopupDiscover
  <2>3. UNCHANGED <<page, nav, upd, overlapped, bound, turn, drops, probes, rebinds>>
    BY <1>4 DEF PopupDiscover, browser, tracked
  <2> QED  BY <2>1, <2>2, <2>3, HandledSteady
<1>5. CASE PopupPublishes
  <2>1. popup' = None /\ UNCHANGED <<page, nav, upd, overlapped, docs, jobs>>
    BY <1>5 DEF PopupPublishes, browser, tracked
  <2> QED  BY <2>1, LeftAlone DEF docs, jobs
<1> QED  BY <1>1, <1>2, <1>3, <1>4, <1>5, PopupBuiltSteady, PopupSelectedSteady DEF Popup

\* Every action keeps the page of a tab the person used on its way to our script.
LEMMA StepOwn ==
  ASSUME Inv, OwnInv, [Next]_vars
  PROVE  OwnInv'
<1>1. Parts /\ ScriptInv
  BY TypeParts DEF Inv
<1> SUFFICES ASSUME NEW t \in Own PROVE OwnAt(t)'
  BY DEF OwnInv, Own
<1>2. OwnAt(t)
  BY DEF OwnInv
<1>3. CASE Browses
  <2>1. ASSUME NEW s \in Site, Revokes(s) PROVE Steady(t)
    <3>1. UNCHANGED <<page, nav, upd, tracked, docs, jobs, status, chosen>>
      BY <2>1 DEF Revokes
    <3> QED  BY <3>1, LeftAlone DEF tracked, docs, jobs, chosen
  <2> QED  BY <1>1, <1>2, <1>3, <2>1, LoadsOwn, RoutesOwn, ClosesOwn, ReplacesOwn, SteadyKeeps DEF Browses
<1>4. CASE Pub
  BY <1>1, <1>2, <1>4, PubSteady, SteadyKeeps
<1>5. CASE Events
  BY <1>1, <1>2, <1>5, NavEventOwn, UpdEventOwn, RemEventOwn, ReplEventOwn, PermittedOwn DEF Events
<1>6. ASSUME NEW v \in Tab, Documents(v) PROVE OwnAt(t)'
  <2>1. ASSUME NEW r \in rebinds, r[1] = v, Rebound(v, r[2]) PROVE Steady(t)
    BY <1>1, <1>2, <2>1, ReboundTyped, ReboundOwn
  <2> QED  BY <1>1, <1>2, <1>6, <2>1, DroppedSteady, ProbesSteady, ProbedSteady, EnsuresOwn, RegistersSteady,
              GenericRegistersSteady, SteadyKeeps DEF Documents
<1>7. ASSUME NEW v \in Tab, Requests(v) PROVE OwnAt(t)'
  BY <1>1, <1>2, <1>7, RequestsSteady, SteadyKeeps
<1>8. CASE Popup
  BY <1>1, <1>2, <1>8, PopupSteady, SteadyKeeps
<1>9. CASE UNCHANGED vars
  <2>1. UNCHANGED <<page, nav, upd, overlapped, docs, jobs, popup>>
    BY <1>9 DEF vars, browser, tracked, chosen
  <2> QED  BY <1>2, <2>1, LeftAlone, SteadyKeeps DEF docs, jobs
<1> QED  BY <1>3, <1>4, <1>5, <1>6, <1>7, <1>8, <1>9 DEF Next

LEMMA InitOwn ==
  ASSUME Init
  PROVE  OwnInv
<1> SUFFICES ASSUME NEW t \in Own PROVE OwnAt(t)
  BY DEF OwnInv
<1>1. t \in Tab /\ t \in Opened /\ t \in ProviderTab
  BY DEF Own, Tab
<1>2. page[t] = [doc |-> 1, at |-> Start, script |-> TRUE]
  BY <1>1 DEF Init
<1>3. page[t].doc = 1 /\ page[t].script
  BY <1>2
<1>4. bound[t] = Now(t) /\ Now(t).doc = 1
  BY <1>1, <1>3 DEF Init, Now
<1>5. upd = <<>> /\ rebinds = {} /\ handled = Opened /\ ensure[t] = "none" /\ turn[t] = None /\ popup = None
  BY <1>1 DEF Init
<1>6. ~Leaving(t)
  BY <1>5 DEF Leaving
<1> QED  BY <1>1, <1>3, <1>4, <1>5, <1>6 DEF OwnAt, OpenAt, EnsureAt, ScriptAt, TurnAt, TrackAt, PendingInitialTransition

(* After a reload the page of a tab the person used gets our script again: *)
(* what would bring it is never lost on the way (index.ts 371-470, 540-635, *)
(* 2850-3155): the tab's record outlives its document, so that its finished *)
(* load is probed, and an operation that is under way ends only once the    *)
(* page has answered.                                                       *)
THEOREM AlwaysStaysTracked == Spec => []StaysTracked
<1>1. Inv /\ OwnInv => StaysTracked
  <2> SUFFICES ASSUME Inv, OwnInv, Quiet, NEW t \in (ProviderTab \cap Opened) \ (released \cup overlapped), Provider(t),
                      ~page[t].script
               PROVE  FALSE
    BY DEF StaysTracked
  <2>1. t \in Own /\ t \in Tab
    BY DEF Own, Tab
  <2>2. Ensured(t) \/ <<t, "get">> \in probes \/ <<t, "tab">> \in drops \/ Completing(t)
    BY <2>1 DEF OwnInv, OwnAt, TrackAt
  <2> QED  BY <2>1, <2>2 DEF Quiet, Ensured, Completing
<1>2. Spec => []OwnInv
  <2>1. Inv /\ OwnInv /\ [Next]_vars => OwnInv'
    BY StepOwn
  <2> QED  BY <2>1, InitOwn, Invariance, PTL DEF Spec
<1> QED  BY <1>1, <1>2, Invariance, PTL
=============================================================================
