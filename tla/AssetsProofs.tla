----------------------------- MODULE AssetsProofs -----------------------------
(* Three theorems about Assets for every value of its constants: however many   *)
(* tabs, assets and transfer ids there are, however the pages' probes, the      *)
(* moves, the reloads and the worker's restarts interleave, a transfer that is  *)
(* open has its tab bound to the document it was admitted for, one that is told *)
(* to be complete has all its bytes, and the registry stays within its limit    *)
(* with a place in its order for every asset it knows.                          *)
EXTENDS Assets, FiniteSetTheorems, TLAPS

Bindings == [tab : Tab, doc : Nat, conv : Conversation]

Records == [id : Id, asset : Asset, binding : Bindings, max : Budgets, online : BOOLEAN,
            received : Nat, next : Nat, started : BOOLEAN, declared : Nat \cup {None}]

Asks(h) == h \in [no : {h.no}, q : Request, found : SUBSET Bindings, live : BOOLEAN, asked : SUBSET Bindings]

\* A frame that may change an entry looked up one that exists, or none.
Judged(m) == m.kind \in {"start", "chunk"} =>
    /\ m.entry \in 0 .. Len(transfer)
    /\ m.kind = "start" => m.amount \in Nat \cup {None}

\* What the argument needs of the variables' types.
Typed ==
    /\ up \in BOOLEAN
    /\ page \in [Tab -> [doc : Nat, conv : Conversation]]
    /\ bound \in [Tab -> Bindings \cup {None}]
    /\ known \in [Asset -> Bindings \cup {None}]
    /\ held \subseteq Bindings
    /\ \A h \in handlers : Asks(h)
    /\ transfer \in Seq(Records)
    /\ active \in [Id -> 0 .. Len(transfer)]
    /\ \A m \in inbox : Judged(m)

\* TransferFollowsItsDocument, and a binding is never None: without it a page
\* that registers in an unbound tab could meet an open transfer of that tab.
Follows ==
    \A i \in Id : active[i] # 0 /\ active[i] \notin stray =>
        LET b == transfer[active[i]].binding IN b # None /\ bound[b.tab] = b

IInv == Typed /\ Follows

----------------------------------------------------------------------------
(* What a step may do to the entries                                           *)

\* The entries keep their bindings and none is added; transfers may close.
Shrinks ==
    /\ UNCHANGED <<bound, stray>>
    /\ transfer' \in Seq(Records) /\ Len(transfer') = Len(transfer)
    /\ \A n \in 1 .. Len(transfer) : transfer'[n].binding = transfer[n].binding
    /\ active' \in [Id -> 0 .. Len(transfer)]
    /\ \A i \in Id : active'[i] \in {0, active[i]}

LEMMA ShrinksFollows ==
  ASSUME IInv, Shrinks
  PROVE  Follows'
<1> SUFFICES ASSUME NEW i \in Id, active'[i] # 0, active'[i] \notin stray'
             PROVE  LET b == transfer'[active'[i]].binding IN b # None /\ bound'[b.tab] = b
  BY DEF Follows
<1>1. active'[i] = active[i] /\ active[i] \in 1 .. Len(transfer)
  BY DEF Shrinks, IInv, Typed
<1>2. transfer'[active'[i]].binding = transfer[active[i]].binding
  BY <1>1 DEF Shrinks
<1> QED BY <1>1, <1>2 DEF Shrinks, IInv, Follows

LEMMA EntryTyped ==
  ASSUME Typed, NEW n \in 1 .. Len(transfer)
  PROVE  transfer[n] \in Records /\ transfer[n].binding \in Bindings
<1>1. transfer[n] \in Records
  BY DEF Typed
<1> QED BY <1>1 DEF Records

LEMMA ClosedTyped ==
  ASSUME Typed, NEW ids
  PROVE  /\ Closed(ids) \in [Id -> 0 .. Len(transfer)]
         /\ \A i \in Id : Closed(ids)[i] \in {0, active[i]}
  BY DEF Closed, Typed

\* Closing transfers and nothing else that matters keeps the invariant.
LEMMA CloseStep ==
  ASSUME IInv, NEW ids, active' = active \/ active' = Closed(ids),
         UNCHANGED <<page, bound, held, known, handlers, transfer, stray, up>>,
         \A m \in inbox' : m \in inbox \/ Judged(m)
  PROVE  IInv'
<1>1. Shrinks
  <2>1. active \in [Id -> 0 .. Len(transfer)] /\ \A i \in Id : active[i] \in {0, active[i]}
    BY DEF IInv, Typed
  <2> QED BY <2>1, ClosedTyped DEF Shrinks, IInv, Typed
<1>2. Follows'
  BY <1>1, ShrinksFollows
<1>3. \A m \in inbox' : Judged(m)'
  BY DEF IInv, Typed, Judged
<1> QED BY <1>1, <1>2, <1>3 DEF IInv, Typed, Shrinks

LEMMA KnownTyped ==
  ASSUME Typed, NEW a, NEW b \in Bindings \cup {None}
  PROVE  KnownAfter(a, b) \in [Asset -> Bindings \cup {None}]
  BY DEF KnownAfter, Typed

LEMMA BindingTyped ==
  ASSUME Typed, NEW t \in Tab
  PROVE  Binding(t) \in Bindings
  BY DEF Binding, Bindings, Typed

\* The transfers of a tab that is unbound are closed.
LEMMA UnboundStep ==
  ASSUME IInv, NEW t \in Tab, NEW b \in Bindings \cup {None},
         bound' = [bound EXCEPT ![t] = b] \/ bound' = bound, RemoveAssetsForTab(t), held' \subseteq Bindings,
         UNCHANGED <<page, handlers, transfer, inbox, stray, up>>
  PROVE  IInv'
<1>1. known' \in [Asset -> Bindings \cup {None}]
  BY DEF RemoveAssetsForTab, IInv, Typed
<1>2. /\ active' \in [Id -> 0 .. Len(transfer)]
      /\ \A i \in Id : active'[i] # 0 => active'[i] = active[i] /\ transfer[active[i]].binding.tab # t
  BY DEF RemoveAssetsForTab, Closed, OpenOn, IInv, Typed
<1>3. Follows'
  <2> SUFFICES ASSUME NEW i \in Id, active'[i] # 0, active'[i] \notin stray'
               PROVE  LET c == transfer'[active'[i]].binding IN c # None /\ bound'[c.tab] = c
    BY DEF Follows
  <2> DEFINE c == transfer[active[i]].binding
  <2>1. active[i] \in 1 .. Len(transfer) /\ active'[i] = active[i] /\ c.tab # t
    BY <1>2 DEF IInv, Typed
  <2>2. c \in Bindings
    BY <2>1, EntryTyped DEF IInv
  <2>3. c # None /\ bound[c.tab] = c
    BY <2>1 DEF IInv, Follows
  <2>4. bound'[c.tab] = bound[c.tab]
    BY <2>1, <2>2 DEF Bindings, IInv, Typed
  <2> QED BY <2>1, <2>3, <2>4
<1>4. bound' \in [Tab -> Bindings \cup {None}]
  BY DEF IInv, Typed
<1> QED BY <1>1, <1>2, <1>3, <1>4 DEF IInv, Typed, Judged

\* A tab is bound to b, or to nothing, and the transfers this leaves open are remembered.
LEMMA PassStep ==
  ASSUME IInv, NEW t \in Tab, NEW b \in Bindings \cup {None},
         bound' = [bound EXCEPT ![t] = b], PassOver(t, b), held' \subseteq Bindings,
         UNCHANGED <<page, known, active, handlers, transfer, inbox, up>>
  PROVE  IInv'
<1>1. Follows'
  <2> SUFFICES ASSUME NEW i \in Id, active'[i] # 0, active'[i] \notin stray'
               PROVE  LET c == transfer'[active'[i]].binding IN c # None /\ bound'[c.tab] = c
    BY DEF Follows
  <2> DEFINE c == transfer[active[i]].binding
  <2>1. active'[i] = active[i] /\ active[i] \in 1 .. Len(transfer) /\ active[i] \notin stray
    BY DEF PassOver, IInv, Typed
  <2>2. c \in Bindings
    BY <2>1, EntryTyped DEF IInv
  <2>3. c # None /\ bound[c.tab] = c
    BY <2>1 DEF IInv, Follows
  <2>4. c.tab = t => c = b
    BY <2>1 DEF PassOver, OpenOn
  <2>5. bound'[c.tab] = c
    BY <2>2, <2>3, <2>4 DEF Bindings, IInv, Typed
  <2> QED BY <2>1, <2>3, <2>5
<1>2. bound' \in [Tab -> Bindings \cup {None}]
  BY DEF IInv, Typed
<1> QED BY <1>1, <1>2 DEF IInv, Typed, Judged

----------------------------------------------------------------------------
(* Admission                                                                   *)

\* What is admitted is bound now, whatever was read before.
LEMMA AdmittedIsBound ==
  ASSUME NEW q, NEW b, Verdict(q, b) = "admitted"
  PROVE  b # None /\ bound[b.tab] = b
  BY DEF Verdict

LEMMA AdmitStep ==
  ASSUME IInv, NEW q \in Request, q.kind = "fetch", NEW b \in Bindings \cup {None},
         Verdict(q, b) = "admitted", Admit(q, b), UNCHANGED <<bound, stray>>
  PROVE  /\ transfer' \in Seq(Records) /\ Len(transfer') = Len(transfer) + 1
         /\ active' \in [Id -> 0 .. Len(transfer')]
         /\ Follows'
<1> DEFINE n == Len(transfer) + 1
<1>1. b \in Bindings /\ b # None /\ bound[b.tab] = b
  BY AdmittedIsBound
<1>2. q.id \in Id /\ q.asset \in Asset /\ q.max \in Budgets
  BY DEF Request
<1>3. Admitted(q, b) \in Records /\ Admitted(q, b).binding = b
  BY <1>1, <1>2 DEF Admitted, Records, IInv, Typed
<1>4. /\ transfer' = Append(transfer, Admitted(q, b)) /\ active' = [active EXCEPT ![q.id] = n]
  BY DEF Admit
<1>5. /\ transfer' \in Seq(Records) /\ Len(transfer') = n
      /\ transfer'[n] = Admitted(q, b)
      /\ \A k \in 1 .. Len(transfer) : transfer'[k] = transfer[k]
  BY <1>3, <1>4 DEF IInv, Typed
<1>6. active' \in [Id -> 0 .. n]
  BY <1>2, <1>4 DEF IInv, Typed
<1>7. Follows'
  <2> SUFFICES ASSUME NEW i \in Id, active'[i] # 0, active'[i] \notin stray'
               PROVE  LET c == transfer'[active'[i]].binding IN c # None /\ bound'[c.tab] = c
    BY DEF Follows
  <2>1. CASE i = q.id
    BY <2>1, <1>1, <1>2, <1>3, <1>4, <1>5 DEF IInv, Typed
  <2>2. CASE i # q.id
    <3>1. active'[i] = active[i] /\ active[i] \in 1 .. Len(transfer)
      BY <2>2, <1>2, <1>4 DEF IInv, Typed
    <3> QED BY <3>1, <1>5 DEF IInv, Follows
  <2> QED BY <2>1, <2>2
<1> QED BY <1>5, <1>6, <1>7

\* Whatever binding the asset was found on, the verdict is on the tab as it is.
LEMMA HandleStep ==
  ASSUME IInv, NEW q \in Request, NEW again \in BOOLEAN, NEW b \in Bindings \cup {None},
         Handle(q, again, b), UNCHANGED <<page, bound, held, inbox, stray, up>>,
         \A h \in handlers' : Asks(h)
  PROVE  IInv'
<1>1. q.asset \in Asset /\ q.kind \in {"fetch", "reveal"}
  BY DEF Request
<1>2. \A forget \in BOOLEAN : Remembered(q.asset, again, b, forget)
                                => known' \in [Asset -> Bindings \cup {None}]
  BY KnownTyped, <1>1 DEF Remembered, IInv, Typed
<1>3. known' \in [Asset -> Bindings \cup {None}]
  BY <1>1, <1>2 DEF Handle, HandleFetch, HandleReveal
<1>4. CASE q.kind = "fetch" /\ Verdict(q, b) = "admitted"
  <2>1. Admit(q, b)
    BY <1>4 DEF Handle, HandleFetch
  <2>2. /\ transfer' \in Seq(Records) /\ Len(transfer') = Len(transfer) + 1
        /\ active' \in [Id -> 0 .. Len(transfer')]
        /\ Follows'
    BY <1>4, <2>1, AdmitStep
  <2>3. \A m \in inbox' : Judged(m)'
    BY <2>2 DEF IInv, Typed, Judged
  <2> QED BY <1>3, <2>2, <2>3 DEF IInv, Typed
<1>5. CASE ~(q.kind = "fetch" /\ Verdict(q, b) = "admitted")
  <2>1. UNCHANGED <<active, transfer>>
    BY <1>5 DEF Handle, HandleFetch, HandleReveal
  <2> QED BY <1>3, <2>1 DEF IInv, Typed, Follows, Judged
<1> QED BY <1>4, <1>5

----------------------------------------------------------------------------
(* The frames of a page                                                        *)

\* An update of an entry that keeps its binding.
LEMMA UpdateStep ==
  ASSUME IInv, NEW n \in 1 .. Len(transfer), NEW r \in Records,
         r.binding = transfer[n].binding, Update(n, r),
         UNCHANGED <<page, bound, held, known, handlers, active, stray, up>>, inbox' \subseteq inbox
  PROVE  IInv'
<1>1. transfer' = [transfer EXCEPT ![n] = r]
  BY DEF Update
<1>2. /\ transfer' \in Seq(Records) /\ Len(transfer') = Len(transfer)
      /\ \A k \in 1 .. Len(transfer) : transfer'[k].binding = transfer[k].binding
  BY <1>1 DEF IInv, Typed
<1>3. Shrinks
  BY <1>2 DEF Shrinks, IInv, Typed
<1>4. Follows'
  BY <1>3, ShrinksFollows
<1> QED BY <1>2, <1>4 DEF IInv, Typed, Judged

LEMMA TakeStep ==
  ASSUME IInv, NEW m \in inbox, TakeStart(m) \/ TakeChunk(m) \/ TakeComplete(m) \/ TakeError(m)
  PROVE  IInv'
<1> DEFINE r == transfer[m.entry]
<1>0. inbox' \subseteq inbox /\ UNCHANGED <<page, bound, held, known, handlers, stray, up>>
  BY DEF TakeStart, TakeChunk, TakeComplete, TakeError, Take, Inside, registry
<1>1. ASSUME m.kind \in {"start", "chunk"}, ValidSender(m)
      PROVE  m.entry \in 1 .. Len(transfer) /\ r \in Records
  BY <1>1 DEF ValidSender, IInv, Typed, Judged
<1>2. ASSUME UNCHANGED transfer, active' = active \/ active' = Closed({m.id})
      PROVE  IInv'
  BY <1>0, <1>2, CloseStep
<1>3. CASE TakeStart(m)
  <2> DEFINE s == [r EXCEPT !.started = TRUE, !.declared = m.amount]
  <2>1. CASE UNCHANGED transfer
    BY <1>2, <1>3, <2>1 DEF TakeStart
  <2>2. CASE ValidSender(m) /\ Update(m.entry, s) /\ UNCHANGED active
    <3>1. m.kind = "start" /\ m.entry \in 1 .. Len(transfer) /\ r \in Records
      BY <1>1, <1>3, <2>2 DEF TakeStart
    <3>2. m.amount \in Nat \cup {None}
      BY <3>1 DEF IInv, Typed, Judged
    <3>3. s \in Records /\ s.binding = r.binding
      BY <3>1, <3>2 DEF Records
    <3> QED BY <1>0, <2>2, <3>1, <3>3, UpdateStep
  <2> QED BY <1>3, <2>1, <2>2 DEF TakeStart
<1>4. CASE TakeChunk(m)
  <2> DEFINE s == [r EXCEPT !.next = @ + 1, !.received = @ + 1]
  <2>1. CASE UNCHANGED transfer
    BY <1>2, <1>4, <2>1 DEF TakeChunk, CloseInvalid
  <2>2. CASE ValidSender(m) /\ Update(m.entry, s) /\ UNCHANGED active
    <3>1. m.entry \in 1 .. Len(transfer) /\ r \in Records
      BY <1>1, <1>4, <2>2 DEF TakeChunk
    <3>2. r.next + 1 \in Nat /\ r.received + 1 \in Nat
      BY <3>1 DEF Records
    <3>3. s = [[r EXCEPT !.next = r.next + 1] EXCEPT !.received = r.received + 1]
      BY <3>1 DEF Records
    <3>4. [r EXCEPT !.next = r.next + 1] \in Records
      BY <3>1, <3>2 DEF Records
    <3>5. s \in Records /\ s.binding = r.binding
      BY <3>1, <3>2, <3>3, <3>4 DEF Records
    <3> QED BY <1>0, <2>2, <3>1, <3>5, UpdateStep
  <2> QED BY <1>4, <2>1, <2>2 DEF TakeChunk
<1>5. CASE TakeComplete(m)
  BY <1>2, <1>5 DEF TakeComplete, CloseInvalid
<1>6. CASE TakeError(m)
  BY <1>2, <1>6 DEF TakeError
<1> QED BY <1>3, <1>4, <1>5, <1>6

LEMMA SendJudged ==
  ASSUME IInv, NEW s \in Tab \X Id, NEW amount, NEW kind,
         kind = "start" => amount \in Nat \cup {None}, Send(kind, s, amount)
  PROVE  \A m \in inbox' : m \in inbox \/ Judged(m)
<1>1. s[1] \in Tab /\ s[2] \in Id
  OBVIOUS
<1>2. Judged(Message(kind, s[1], s[2], job[s].n, amount))
  BY <1>1 DEF Judged, Message, IInv, Typed
<1> QED BY <1>2 DEF Send

LEMMA PageWorksStep ==
  ASSUME IInv, NEW s \in Tab \X Id, PageWorks(s)
  PROVE  IInv'
<1>1. UNCHANGED <<page, bound, held, known, handlers, active, transfer, stray, up>>
  BY DEF PageWorks, Start, NextChunk, EndOfStream, ReportFailure, PageOnly, registry
<1>2. \A m \in inbox' : m \in inbox \/ Judged(m)
  <2>1. ASSUME NEW declared \in Nat \cup {None}, Start(s, declared)
        PROVE  \A m \in inbox' : m \in inbox \/ Judged(m)
    BY <2>1, SendJudged DEF Start
  <2>2. CASE NextChunk(s)
    BY <2>2, SendJudged DEF NextChunk
  <2>3. CASE EndOfStream(s)
    BY <2>3, SendJudged DEF EndOfStream
  <2>4. CASE ReportFailure(s)
    BY <2>4, SendJudged DEF ReportFailure
  <2>5. ASSUME NEW declared \in Sizes, Start(s, declared)
        PROVE  \A m \in inbox' : m \in inbox \/ Judged(m)
    BY <2>1, <2>5, AssetsAssumption
  <2>6. CASE Start(s, None)
    BY <2>1, <2>6
  <2> QED BY <2>2, <2>3, <2>4, <2>5, <2>6 DEF PageWorks
<1> QED BY <1>1, <1>2, CloseStep

LEMMA DeliverStep ==
  ASSUME IInv, NEW t \in Tab, Deliver(t)
  PROVE  IInv'
<1> DEFINE m == Head(mail[t])
<1>1. UNCHANGED <<page, bound, held, known, handlers, transfer, stray, up>>
  BY DEF Deliver, registry
<1>2. active' = active \/ active' = Closed({transfer[m.n].id})
  BY DEF Deliver
<1>3. \A e \in inbox' : e \in inbox \/ Judged(e)
  <2>1. inbox' = inbox \/ OpenJob(m.n)
    BY DEF Deliver, AbortJob
  <2>2. ASSUME NEW t2, NEW i, NEW n PROVE Judged(Message("error", t2, i, n, 0))
    BY DEF Message, Judged
  <2>3. CASE OpenJob(m.n)
    BY <2>2, <2>3 DEF OpenJob
  <2> QED BY <2>1, <2>3
<1> QED BY <1>1, <1>2, <1>3, CloseStep

----------------------------------------------------------------------------
(* The invariant                                                               *)

LEMMA InitIInv == Init => IInv
  BY DEF Init, IInv, Typed, Follows, Binding, Bindings, Conversation, Judged

LEMMA WorldStep ==
  ASSUME IInv, World
  PROVE  IInv'
<1>0. ASSUME NEW b \in held, RegisterBinds(b) PROVE IInv'
  <2>1. b \in Bindings /\ b.tab \in Tab
    BY DEF Bindings, IInv, Typed
  <2>2. /\ bound' = [bound EXCEPT ![b.tab] = b] /\ PassOver(b.tab, b)
        /\ UNCHANGED <<page, known, active, handlers, transfer, inbox, up>>
    BY <1>0 DEF RegisterBinds, pages, registry
  <2>3. held' \subseteq Bindings
    BY <1>0 DEF RegisterBinds, IInv, Typed
  <2> QED BY <2>1, <2>2, <2>3, PassStep
<1>1. SUFFICES ASSUME NEW t \in Tab,
        \/ \E a \in Asset : Capture(t, a)
        \/ \E c \in Conversation : Move(t, c) \/ Reload(t, c)
        \/ Hear(t) \/ Register(t) \/ Transition(t) \/ Drop(t)
               PROVE  IInv'
  BY <1>0 DEF World
<1>2. ASSUME NEW a \in Asset, Capture(t, a) PROVE IInv'
  <2>1. UNCHANGED <<page, bound, held, active, transfer, handlers, inbox, stray, up>>
    BY <1>2 DEF Capture
  <2>2. known' \in [Asset -> Bindings \cup {None}]
    BY <1>2, KnownTyped DEF Capture, RegisterAsset, registry, IInv, Typed
  <2> QED BY <2>1, <2>2 DEF IInv, Typed, Follows, Judged
<1>3. ASSUME NEW c \in Conversation, Move(t, c) \/ Reload(t, c) PROVE IInv'
  <2>1. UNCHANGED <<bound, held, known, active, transfer, handlers, inbox, stray, up>>
    BY <1>3 DEF Move, Reload, registry
  <2>2. page' \in [Tab -> [doc : Nat, conv : Conversation]]
    <3>1. page \in [Tab -> [doc : Nat, conv : Conversation]]
      BY DEF IInv, Typed
    <3>2. CASE Move(t, c)
      BY <3>1, <3>2 DEF Move
    <3>3. CASE Reload(t, c)
      <4>1. page' = [page EXCEPT ![t] = [doc |-> page[t].doc + 1, conv |-> c]]
        BY <3>3 DEF Reload
      <4>2. page[t].doc + 1 \in Nat
        BY <3>1
      <4> QED BY <3>1, <4>1, <4>2
    <3> QED BY <1>3, <3>2, <3>3
  <2> QED BY <2>1, <2>2 DEF IInv, Typed, Follows, Judged
<1>4. CASE Hear(t)
  <2>1. UNCHANGED <<page, held, transfer, handlers, inbox, stray, up>>
    BY <1>4 DEF Hear
  <2>2. CASE bound' = [bound EXCEPT ![t] = None] /\ RemoveAssetsForTab(t)
    <3>1. held' \subseteq Bindings
      BY <2>1 DEF IInv, Typed
    <3> QED BY <2>1, <2>2, <3>1, UnboundStep
  <2>3. CASE UNCHANGED <<bound, registry, active>>
    BY <2>1, <2>3 DEF IInv, Typed, Follows, Judged, registry
  <2> QED BY <1>4, <2>2, <2>3 DEF Hear
<1>5. CASE Register(t)
  <2> DEFINE b == Binding(t)
  <2>1. b \in Bindings
    BY BindingTyped DEF IInv
  <2> HIDE DEF b
  <2>a. /\ UNCHANGED <<page, transfer, handlers, inbox, stray, up>>
        /\ bound' = [bound EXCEPT ![t] = b] \/ bound' = bound
    BY <1>5 DEF Register, pages, b
  <2>b. held' \subseteq Bindings
    <3>1. held' = held \/ held' = held \cup {b}
      BY <1>5 DEF Register, b
    <3> QED BY <2>1, <3>1 DEF IInv, Typed
  <2>2. CASE RemoveAssetsForTab(t)
    BY <2>1, <2>a, <2>b, <2>2, UnboundStep
  <2>3. CASE bound[t] = None /\ UNCHANGED <<registry, active, mail>>
    <3>1. Follows'
      <4> SUFFICES ASSUME NEW i \in Id, active'[i] # 0, active'[i] \notin stray'
                   PROVE  LET c == transfer'[active'[i]].binding IN c # None /\ bound'[c.tab] = c
        BY DEF Follows
      <4> DEFINE c == transfer[active[i]].binding
      <4>1. active[i] \in 1 .. Len(transfer) /\ active'[i] = active[i]
        BY <2>3 DEF IInv, Typed
      <4>2. c \in Bindings
        BY <4>1, EntryTyped DEF IInv
      <4>3. c # None /\ bound[c.tab] = c
        BY <2>a, <4>1 DEF IInv, Follows
      <4>4. c.tab # t
        BY <2>3, <4>3
      <4>5. bound'[c.tab] = bound[c.tab]
        BY <2>a, <4>2, <4>4 DEF Bindings, IInv, Typed
      <4> QED BY <2>a, <4>1, <4>3, <4>5
    <3>2. bound' \in [Tab -> Bindings \cup {None}]
      BY <2>1, <2>a DEF IInv, Typed
    <3> QED BY <2>a, <2>b, <2>3, <3>1, <3>2 DEF IInv, Typed, Judged, registry
  <2> QED BY <1>5, <2>2, <2>3 DEF Register
<1>6. CASE Transition(t)
  <2> DEFINE b == Binding(t)
  <2>1. b \in Bindings
    BY BindingTyped DEF IInv
  <2> HIDE DEF b
  <2>2. /\ bound' = [bound EXCEPT ![t] = b] /\ PassOver(t, b)
        /\ UNCHANGED <<page, held, known, active, handlers, transfer, inbox, up>>
    BY <1>6 DEF Transition, pages, registry, b
  <2>3. held' \subseteq Bindings
    BY <2>2 DEF IInv, Typed
  <2> QED BY <2>1, <2>2, <2>3, PassStep
<1>7. CASE Drop(t)
  <2>1. /\ bound' = [bound EXCEPT ![t] = None] /\ PassOver(t, None)
        /\ UNCHANGED <<page, held, known, active, handlers, transfer, inbox, up>>
    BY <1>7 DEF Drop, pages, registry
  <2>2. held' \subseteq Bindings
    BY <2>1 DEF IInv, Typed
  <2> QED BY <2>1, <2>2, PassStep
<1> QED BY <1>1, <1>2, <1>3, <1>4, <1>5, <1>6, <1>7

LEMMA ControllerStep ==
  ASSUME IInv, Controller
  PROVE  IInv'
<1>1. ASSUME NEW i \in Id, HandleCancel(i) PROVE IInv'
  BY <1>1, CloseStep DEF HandleCancel, pages, registry, IInv, Typed
<1>2. ASSUME NEW q \in Request, Ask(q) PROVE IInv'
  <2>1. UNCHANGED <<page, bound, held, inbox, stray, up>>
    BY <1>2 DEF Ask, pages
  <2>2. CASE known[q.asset] # None
    <3>1. q.asset \in Asset
      BY DEF Request
    <3> QED BY <1>2, <2>1, <2>2, <3>1, HandleStep DEF Ask, IInv, Typed
  <2>3. CASE known[q.asset] = None
    <3> DEFINE h == [no |-> used.fetches, q |-> q, found |-> {}, live |-> TRUE,
                     asked |-> {bound[t] : t \in Tab} \ {None}]
    <3>1. handlers' = handlers \cup {h}
      BY <1>2, <2>3 DEF Ask
    <3>a. h.asked \subseteq Bindings
      BY DEF IInv, Typed
    <3>b. Asks(h)
      BY <3>a DEF Asks
    <3> HIDE DEF h
    <3>2. \A g \in handlers' : Asks(g)
      BY <3>1, <3>b DEF IInv, Typed
    <3>3. UNCHANGED <<known, active, transfer>>
      BY <1>2, <2>3 DEF Ask, registry
    <3> QED BY <2>1, <3>2, <3>3 DEF IInv, Typed, Follows, Judged
  <2> QED BY <2>2, <2>3
<1> QED BY <1>1, <1>2 DEF Controller

\* What is recovered, it is on a binding that was asked.
LEMMA Recovered ==
  ASSUME IInv, NEW h \in handlers
  PROVE  /\ h.q \in Request /\ (Cardinality(h.found) = 1) \in BOOLEAN
         /\ (IF Cardinality(h.found) = 1 THEN CHOOSE c \in h.found : TRUE ELSE None) \in Bindings \cup {None}
<1>1. h.q \in Request /\ h.found \subseteq Bindings
  BY DEF IInv, Typed, Asks
<1>2. Cardinality(h.found) = 1 => h.found # {}
  BY FS_EmptySet
<1> QED BY <1>1, <1>2

LEMMA HandlerStep ==
  ASSUME IInv, Handler
  PROVE  IInv'
<1>1. ASSUME NEW h \in handlers, NEW b \in h.asked, Probe(h, b) PROVE IInv'
  <2>1. UNCHANGED <<page, bound, held, known, active, transfer, inbox, stray, up>>
    BY <1>1 DEF Probe, pages, registry
  <2>2. Asks(h) /\ b \in Bindings
    BY <1>1 DEF Asks, IInv, Typed
  <2>3. PICK found \in {h.found, h.found \cup {b}} :
            handlers' = (handlers \ {h}) \cup {[h EXCEPT !.asked = h.asked \ {b}, !.found = found]}
    BY <1>1 DEF Probe
  <2>4. found \subseteq Bindings
    BY <2>2, <2>3 DEF Asks
  <2>5. Asks([h EXCEPT !.asked = h.asked \ {b}, !.found = found])
    BY <2>2, <2>4 DEF Asks
  <2>6. \A g \in handlers' : Asks(g)
    BY <2>3, <2>5 DEF IInv, Typed
  <2> QED BY <2>1, <2>6 DEF IInv, Typed, Follows, Judged
<1>2. ASSUME NEW h \in handlers, Recover(h) PROVE IInv'
  <2> DEFINE one == Cardinality(h.found) = 1
             b == IF one THEN CHOOSE c \in h.found : TRUE ELSE None
  <2>1. h.q \in Request /\ one \in BOOLEAN /\ b \in Bindings \cup {None}
    BY Recovered
  <2>2. /\ Handle(h.q, one, b) /\ UNCHANGED <<page, bound, held, inbox, stray, up>>
        /\ handlers' = handlers \ {h}
    BY <1>2 DEF Recover, pages
  <2>3. \A g \in handlers' : Asks(g)
    BY <2>2 DEF IInv, Typed
  <2> HIDE DEF one, b
  <2> QED BY <2>1, <2>2, <2>3, HandleStep
<1> QED BY <1>1, <1>2 DEF Handler

\* A closed socket or a restarted worker leaves no transfer open.
LEMMA SocketStep ==
  ASSUME IInv, Close \/ Restart \/ Reconnect
  PROVE  IInv'
<1>0. 0 \in 0 .. Len(transfer)
  BY DEF IInv, Typed
<1>1. CASE Close
  <2>1. /\ UNCHANGED <<page, bound, held, known, transfer, inbox>>
        /\ up' = FALSE /\ active' = [i \in Id |-> 0]
    BY <1>1 DEF Close, StopTransfers, pages, registry
  <2>2. active' \in [Id -> 0 .. Len(transfer')] /\ Follows'
    BY <1>0, <2>1 DEF Follows
  <2>3. \A m \in inbox' : Judged(m)'
    BY <2>1 DEF IInv, Typed, Judged
  <2>4. \A g \in handlers' : Asks(g)
    <3> SUFFICES ASSUME NEW h \in handlers PROVE Asks([h EXCEPT !.live = FALSE])
      BY <1>1 DEF Close
    <3>1. Asks(h)
      BY DEF IInv, Typed
    <3> QED BY <3>1 DEF Asks
  <2> QED BY <2>1, <2>2, <2>3, <2>4 DEF IInv, Typed
<1>2. CASE Restart
  <2>1. /\ UNCHANGED <<page, transfer>> /\ up' = FALSE /\ held' = {} /\ handlers' = {} /\ inbox' = {}
        /\ active' = [i \in Id |-> 0] /\ known' = [a \in Asset |-> None]
        /\ bound' = [t \in Tab |-> None]
    BY <1>2 DEF Restart
  <2>2. active' \in [Id -> 0 .. Len(transfer')] /\ Follows'
    BY <1>0, <2>1 DEF Follows
  <2> QED BY <2>1, <2>2 DEF IInv, Typed
<1>3. CASE Reconnect
  BY <1>3 DEF Reconnect, pages, registry, IInv, Typed, Follows, Judged
<1> QED BY <1>1, <1>2, <1>3

LEMMA IInvStep == IInv /\ [Next]_vars => IInv'
<1> SUFFICES ASSUME IInv, [Next]_vars PROVE IInv'
  OBVIOUS
<1>1. CASE Next
  BY <1>1, WorldStep, ControllerStep, HandlerStep, TakeStep, SocketStep, DeliverStep, PageWorksStep
     DEF Next, TakeMessage
<1>2. CASE UNCHANGED vars
  BY <1>2 DEF vars, pages, registry, IInv, Typed, Follows, Judged
<1> QED BY <1>1, <1>2

\* An open transfer's tab is bound to the document and the conversation the asset
\* was recovered from, for any tabs, assets, ids, limits and bounds: the probes'
\* answers may be stale, the verdict on them is not.
THEOREM OpenTransfersFollow == Spec => []TransferFollowsItsDocument
<1>1. IInv => TransferFollowsItsDocument
  BY DEF IInv, Follows, TransferFollowsItsDocument
<1> QED BY <1>1, InitIInv, IInvStep, PTL DEF Spec

----------------------------------------------------------------------------
(* What the controller hears                                                    *)

HeardRecords == [n : Nat, asset : Asset \cup {None}, max : Nat, started : BOOLEAN,
                 next : Nat, bad : BOOLEAN, size : Nat \cup {None}]

\* A frame that may be passed on looked up an entry of its own id, or none.
Traced(m) == m.kind # "error" =>
    /\ m.id \in Id /\ m.entry \in 0 .. Len(transfer)
    /\ m.entry # 0 => transfer[m.entry].id = m.id

\* Until it is told the size, the controller knows of the last transfer admitted under an id what the
\* worker's record of it says.
Agrees(i) == heard[i].size = None /\ heard[i].n # 0 =>
    LET h == heard[i]
        r == transfer[h.n]
    IN  /\ r.id = i /\ r.asset = h.asset /\ r.max = h.max
        /\ ~h.bad /\ h.started = r.started
        /\ h.next = r.next /\ h.next = r.received /\ h.next <= h.max

Whole(i) == heard[i].size # None =>
    /\ heard[i].started /\ ~heard[i].bad
    /\ heard[i].next = heard[i].size
    /\ heard[i].size <= heard[i].max

\* CompleteIsWhole with what it rests on: an open entry and a frame are of the id they are kept
\* under, so that a record is changed only by frames the controller hears under that id.
WholeInv ==
    /\ heard \in [Id -> HeardRecords]
    /\ \A i \in Id : active[i] # 0 => transfer[active[i]].id = i
    /\ \A m \in inbox : Traced(m)
    /\ \A i \in Id : heard[i].n \in 0 .. Len(transfer) /\ Agrees(i) /\ Whole(i)

\* Steps that tell the controller nothing and change no record.
LEMMA SilentStep ==
  ASSUME IInv, WholeInv, UNCHANGED <<transfer, heard>>,
         \A i \in Id : active'[i] \in {0, active[i]},
         \A m \in inbox' : m \in inbox \/ Traced(m)
  PROVE  WholeInv'
BY DEF WholeInv, Traced, Agrees, Whole

LEMMA SendTraced ==
  ASSUME IInv, WholeInv, NEW s \in Tab \X Id, NEW amount, NEW kind, Send(kind, s, amount)
  PROVE  \A m \in inbox' : m \in inbox \/ Traced(m)
<1>1. s[1] \in Tab /\ s[2] \in Id
  OBVIOUS
<1>2. Traced(Message(kind, s[1], s[2], job[s].n, amount))
  BY <1>1 DEF Traced, Message, IInv, Typed, WholeInv
<1> QED BY <1>2 DEF Send

LEMMA SilentPage ==
  ASSUME IInv, WholeInv, NEW s \in Tab \X Id, PageWorks(s)
  PROVE  WholeInv'
<1>1. UNCHANGED <<transfer, heard, active>>
  BY DEF PageWorks, Start, NextChunk, EndOfStream, ReportFailure, PageOnly
<1>2. PICK kind, amount : Send(kind, s, amount)
  BY DEF PageWorks, Start, NextChunk, EndOfStream, ReportFailure
<1> QED BY <1>1, <1>2, SendTraced, SilentStep

LEMMA SilentDelivery ==
  ASSUME IInv, WholeInv, NEW t \in Tab, Deliver(t)
  PROVE  WholeInv'
<1> DEFINE m == Head(mail[t])
<1>1. UNCHANGED <<transfer, heard>>
  BY DEF Deliver
<1>2. active' = active \/ active' = Closed({transfer[m.n].id})
  BY DEF Deliver
<1>3. \A i \in Id : active'[i] \in {0, active[i]}
  BY <1>2 DEF Closed
<1>4. \A e \in inbox' : e \in inbox \/ Traced(e)
  <2>1. inbox' = inbox \/ OpenJob(m.n)
    BY DEF Deliver, AbortJob
  <2>2. ASSUME NEW t2, NEW i, NEW n PROVE Traced(Message("error", t2, i, n, 0))
    BY DEF Message, Traced
  <2> QED BY <2>1, <2>2 DEF OpenJob
<1> QED BY <1>1, <1>3, <1>4, SilentStep

LEMMA SilentRest ==
  ASSUME IInv, WholeInv,
         World \/ Close \/ Restart \/ Reconnect \/ (\E i \in Id : HandleCancel(i))
               \/ (\E h \in handlers : \E b \in h.asked : Probe(h, b))
  PROVE  WholeInv'
<1>1. UNCHANGED <<transfer, heard>> /\ inbox' \subseteq inbox
  BY DEF World, Capture, Move, Reload, Hear, Register, RegisterBinds, Transition, Drop, Close, Restart, Reconnect, HandleCancel,
         Probe, pages
<1>2. \A i \in Id : active'[i] \in {0, active[i]}
  BY DEF World, Capture, Move, Reload, Hear, Register, RegisterBinds, Transition, Drop, Close, Restart, Reconnect, HandleCancel,
         Probe, RemoveAssetsForTab, StopTransfers, Closed, registry
<1> QED BY <1>1, <1>2, SilentStep

\* A new transfer: what was known of an earlier one with its id is forgotten.
LEMMA AdmitHeard ==
  ASSUME IInv, WholeInv, NEW q \in Request, q.kind = "fetch", NEW b \in Bindings \cup {None},
         Verdict(q, b) = "admitted", Admit(q, b), UNCHANGED inbox
  PROVE  WholeInv'
<1> DEFINE n == Len(transfer) + 1
           r == Admitted(q, b)
           h == Silence(n, q.asset, q.max)
<1>1. q.id \in Id /\ q.asset \in Asset /\ q.max \in Budgets /\ q.max \in Nat
  BY AssetsAssumption DEF Request
<1>2. b \in Bindings
  BY AdmittedIsBound
<1>3. r \in Records
  BY <1>1, <1>2 DEF Admitted, Records, IInv, Typed
<1>4. /\ transfer' \in Seq(Records) /\ Len(transfer') = n /\ transfer'[n] = r
      /\ \A k \in 1 .. Len(transfer) : transfer'[k] = transfer[k]
  BY <1>3 DEF Admit, IInv, Typed
<1>5. /\ r.id = q.id /\ r.asset = q.asset /\ r.max = q.max /\ r.started = FALSE
      /\ r.next = 0 /\ r.received = 0
  BY DEF Admitted
<1>6. /\ h \in HeardRecords /\ h.n = n /\ h.asset = q.asset /\ h.max = q.max /\ h.started = FALSE
      /\ h.next = 0 /\ h.bad = FALSE /\ h.size = None
  BY <1>1 DEF Silence, HeardRecords, IInv, Typed
<1>7. heard' = [heard EXCEPT ![q.id] = h] /\ active' = [active EXCEPT ![q.id] = n]
  BY DEF Admit
<1>8. Len(transfer) \in Nat
  BY DEF IInv, Typed
<1> HIDE DEF r, h
<1>9. heard' \in [Id -> HeardRecords]
  BY <1>1, <1>6, <1>7 DEF WholeInv
<1>10. ASSUME NEW i \in Id, active'[i] # 0 PROVE transfer'[active'[i]].id = i
  BY <1>1, <1>4, <1>5, <1>7, <1>8, <1>10 DEF WholeInv, IInv, Typed
<1>11. ASSUME NEW m \in inbox' PROVE Traced(m)'
  BY <1>4, <1>8 DEF WholeInv, Traced
<1>12. ASSUME NEW i \in Id
       PROVE  (heard[i].n \in 0 .. Len(transfer) /\ Agrees(i) /\ Whole(i))'
  <2>1. CASE i = q.id
    <3>1. heard'[i] = h
      BY <2>1, <1>1, <1>7 DEF WholeInv
    <3>2. heard'[i].n = n /\ transfer'[heard'[i].n] = r /\ n \in 0 .. Len(transfer')
      BY <3>1, <1>4, <1>6, <1>8
    <3>3. Agrees(i)'
      <4>1. r.id = i /\ r.asset = h.asset /\ r.max = h.max /\ ~h.bad /\ h.started = r.started
        BY <2>1, <1>5, <1>6
      <4>2. h.next = r.next /\ h.next = r.received /\ h.next <= h.max
        BY <1>1, <1>5, <1>6
      <4> QED BY <4>1, <4>2, <3>1, <3>2 DEF Agrees
    <3>4. Whole(i)'
      BY <3>1, <1>6 DEF Whole
    <3> QED BY <3>2, <3>3, <3>4
  <2>2. CASE i # q.id
    <3>1. heard'[i] = heard[i] /\ heard[i].n \in 0 .. Len(transfer) /\ Agrees(i) /\ Whole(i)
      BY <2>2, <1>7 DEF WholeInv
    <3>2. heard[i].n # 0 => transfer'[heard[i].n] = transfer[heard[i].n]
      BY <3>1, <1>4, <1>8
    <3> QED BY <3>1, <3>2, <1>4, <1>8 DEF Agrees, Whole
  <2> QED BY <2>1, <2>2
<1> QED BY <1>9, <1>10, <1>11, <1>12 DEF WholeInv

LEMMA HandleHeard ==
  ASSUME IInv, WholeInv, NEW q \in Request, NEW again \in BOOLEAN, NEW b \in Bindings \cup {None},
         Handle(q, again, b), UNCHANGED inbox
  PROVE  WholeInv'
<1>1. CASE q.kind = "fetch" /\ Verdict(q, b) = "admitted"
  BY <1>1, AdmitHeard DEF Handle, HandleFetch
<1>2. CASE ~(q.kind = "fetch" /\ Verdict(q, b) = "admitted")
  <2>1. UNCHANGED <<active, transfer, heard>>
    BY <1>2 DEF Handle, HandleFetch, HandleReveal
  <2> QED BY <2>1, SilentStep
<1> QED BY <1>1, <1>2

\* An accepted frame changes the record of its entry and, when the entry is the last of its id, what
\* the controller knows; r and h are what they become.
LEMMA FrameStep ==
  ASSUME IInv, WholeInv, NEW m \in inbox, m.kind # "error", m.entry # 0, NEW r \in Records,
         NEW h \in HeardRecords,
         r.id = transfer[m.entry].id,
         transfer' = [transfer EXCEPT ![m.entry] = r],
         heard' = [heard EXCEPT ![m.id] =
                      IF heard[m.id].size # None \/ heard[m.id].n # m.entry THEN heard[m.id] ELSE h],
         h.n = heard[m.id].n,
         heard[m.id].size = None /\ heard[m.id].n = m.entry =>
            /\ h.size = None =>
                 /\ r.asset = h.asset /\ r.max = h.max /\ ~h.bad /\ h.started = r.started
                 /\ h.next = r.next /\ h.next = r.received /\ h.next <= h.max
            /\ h.size # None => h.started /\ ~h.bad /\ h.next = h.size /\ h.size <= h.max,
         \A i \in Id : active'[i] \in {0, active[i]}, inbox' \subseteq inbox
  PROVE  WholeInv'
<1>1. m.id \in Id /\ m.entry \in 1 .. Len(transfer) /\ transfer[m.entry].id = m.id
  BY DEF WholeInv, Traced, IInv, Typed
<1>2. /\ transfer' \in Seq(Records) /\ Len(transfer') = Len(transfer)
      /\ transfer'[m.entry] = r
      /\ \A k \in 1 .. Len(transfer) : k # m.entry => transfer'[k] = transfer[k]
  BY <1>1 DEF IInv, Typed
<1>3. \A k \in 1 .. Len(transfer) : transfer'[k].id = transfer[k].id
  BY <1>2
<1>4. /\ heard \in [Id -> HeardRecords] /\ heard' \in [Id -> HeardRecords]
      /\ \A i \in Id : i # m.id => heard'[i] = heard[i]
      /\ heard'[m.id] = IF heard[m.id].size # None \/ heard[m.id].n # m.entry THEN heard[m.id] ELSE h
  BY <1>1 DEF WholeInv
<1>5. ASSUME NEW i \in Id, active'[i] # 0 PROVE transfer'[active'[i]].id = i
  <2>1. active'[i] = active[i] /\ active[i] \in 1 .. Len(transfer)
    BY <1>5 DEF IInv, Typed
  <2> QED BY <2>1, <1>3 DEF WholeInv
<1>6. ASSUME NEW e \in inbox' PROVE Traced(e)'
  BY <1>2, <1>3 DEF WholeInv, Traced
<1>7. ASSUME NEW i \in Id
      PROVE  (heard[i].n \in 0 .. Len(transfer) /\ Agrees(i) /\ Whole(i))'
  <2>0. heard[i].n \in 0 .. Len(transfer) /\ Agrees(i) /\ Whole(i)
    BY DEF WholeInv
  <2>1. CASE i = m.id /\ heard[i].size = None /\ heard[i].n = m.entry
    <3>1. heard'[i] = h
      BY <2>1, <1>4
    <3> QED BY <3>1, <2>0, <2>1, <1>1, <1>2 DEF Agrees, Whole
  <2>2. CASE ~(i = m.id /\ heard[i].size = None /\ heard[i].n = m.entry)
    <3>1. heard'[i] = heard[i]
      BY <2>2, <1>4
    <3>2. CASE heard[i].size = None /\ heard[i].n # 0
      <4>1. transfer[heard[i].n].id = i
        BY <2>0, <3>2 DEF Agrees
      <4>2. heard[i].n # m.entry
        BY <4>1, <2>2, <3>2, <1>1
      <4>3. transfer'[heard[i].n] = transfer[heard[i].n]
        BY <4>2, <2>0, <3>2, <1>2
      <4> QED BY <4>3, <3>1, <3>2, <2>0, <1>2 DEF Agrees, Whole
    <3>3. CASE ~(heard[i].size = None /\ heard[i].n # 0)
      BY <3>1, <3>3, <2>0, <1>2 DEF Agrees, Whole
    <3> QED BY <3>2, <3>3
  <2> QED BY <2>1, <2>2
<1> QED BY <1>4, <1>5, <1>6, <1>7 DEF WholeInv

LEMMA FrameHeard ==
  ASSUME IInv, WholeInv, NEW m \in inbox, m.kind # "error", ValidSender(m)
  PROVE  /\ m.id \in Id /\ m.entry # 0 /\ m.entry \in 1 .. Len(transfer)
         /\ transfer[m.entry] \in Records /\ heard[m.id] \in HeardRecords
         /\ Agrees(m.id) /\ transfer[m.entry].asset = m.asset
<1>1. m.id \in Id /\ m.entry \in 1 .. Len(transfer)
  BY DEF ValidSender, WholeInv, Traced, IInv, Typed
<1> QED BY <1>1, EntryTyped DEF ValidSender, WholeInv, IInv

LEMMA TakeStartHeard ==
  ASSUME IInv, WholeInv, NEW m \in inbox, TakeStart(m)
  PROVE  WholeInv'
<1> DEFINE r == transfer[m.entry]
           h == heard[m.id]
           r2 == [r EXCEPT !.started = TRUE, !.declared = m.amount]
           h1 == [h EXCEPT !.started = TRUE, !.bad = h.bad \/ h.started]
           h2 == [h1 EXCEPT !.bad = h1.bad \/ m.asset # h.asset]
<1>0. m.kind = "start" /\ inbox' \subseteq inbox /\ UNCHANGED active
  BY DEF TakeStart, Take
<1>1. CASE UNCHANGED <<transfer, heard>>
  BY <1>0, <1>1, SilentStep
<1>2. CASE ValidSender(m) /\ ParsedStart(r, m) /\ Update(m.entry, r2) /\ Tell(m, h1)
  <2>1. /\ m.id \in Id /\ m.entry # 0 /\ m.entry \in 1 .. Len(transfer)
        /\ r \in Records /\ h \in HeardRecords /\ Agrees(m.id) /\ r.asset = m.asset
    BY <1>0, <1>2, FrameHeard
  <2>2. m.amount \in Nat \cup {None} /\ ~r.started
    BY <1>0, <1>2 DEF ParsedStart, IInv, Typed, Judged
  <2>3. /\ r2 \in Records /\ r2.id = r.id /\ r2.asset = r.asset /\ r2.max = r.max /\ r2.started = TRUE
        /\ r2.next = r.next /\ r2.received = r.received
    BY <2>1, <2>2 DEF Records
  <2>4. /\ h1 \in HeardRecords /\ h1.n = h.n /\ h1.asset = h.asset /\ h1.max = h.max
        /\ h1.started = TRUE /\ h1.next = h.next /\ h1.size = h.size
    BY <2>1 DEF HeardRecords
  <2>5. h1.bad = (h.bad \/ h.started)
    BY <2>1 DEF HeardRecords
  <2>6. /\ h2 \in HeardRecords /\ h2.n = h.n /\ h2.asset = h.asset /\ h2.max = h.max
        /\ h2.started = TRUE /\ h2.next = h.next /\ h2.size = h.size
    BY <2>4 DEF HeardRecords
  <2>7. h2.bad = (h.bad \/ h.started \/ m.asset # h.asset)
    BY <2>4, <2>5 DEF HeardRecords
  <2>8. transfer' = [transfer EXCEPT ![m.entry] = r2]
    BY <1>2 DEF Update
  <2>9. heard' = [heard EXCEPT ![m.id] = IF h.size # None \/ h.n # m.entry THEN h ELSE h2]
    BY <1>2 DEF Tell
  <2>10. \A i \in Id : active'[i] \in {0, active[i]}
    BY <1>0
  <2>11. ASSUME h.size = None, h.n = m.entry
         PROVE  /\ r.asset = h.asset /\ r.max = h.max /\ ~h.bad /\ h.started = r.started
                /\ h.next = r.next /\ h.next = r.received /\ h.next <= h.max
    BY <2>1, <2>11 DEF Agrees
  <2> HIDE DEF r2, h1, h2
  <2>12. ASSUME h.size = None, h.n = m.entry
         PROVE  /\ r2.asset = h2.asset /\ r2.max = h2.max /\ ~h2.bad /\ h2.started = r2.started
                /\ h2.next = r2.next /\ h2.next = r2.received /\ h2.next <= h2.max /\ h2.size = None
    <3>1. ~h2.bad
      BY <2>1, <2>2, <2>7, <2>11, <2>12
    <3> QED BY <3>1, <2>3, <2>6, <2>11, <2>12
  <2> QED BY <1>0, <2>1, <2>3, <2>6, <2>8, <2>9, <2>10, <2>12, FrameStep
<1> QED BY <1>1, <1>2 DEF TakeStart

LEMMA TakeChunkHeard ==
  ASSUME IInv, WholeInv, NEW m \in inbox, TakeChunk(m)
  PROVE  WholeInv'
<1> DEFINE r == transfer[m.entry]
           h == heard[m.id]
           r1 == [r EXCEPT !.next = r.next + 1]
           r2 == [r1 EXCEPT !.received = r.received + 1]
           h1 == [h EXCEPT !.next = h.next + 1]
           h2 == [h1 EXCEPT !.bad = h.bad \/ m.amount # h.next]
           h3 == [h2 EXCEPT !.bad = h2.bad \/ m.asset # h.asset]
<1>0. m.kind = "chunk" /\ inbox' \subseteq inbox
  BY DEF TakeChunk, Take
<1>1. CASE UNCHANGED <<transfer, heard>> /\ CloseInvalid(m)
  <2>1. \A i \in Id : active'[i] \in {0, active[i]}
    BY <1>1 DEF CloseInvalid, Closed
  <2> QED BY <1>0, <1>1, <2>1, SilentStep
<1>2. CASE /\ ValidSender(m) /\ ParsedChunk(r, m) /\ UNCHANGED active
           /\ Update(m.entry, [r EXCEPT !.next = @ + 1, !.received = @ + 1])
           /\ Tell(m, [h EXCEPT !.next = @ + 1, !.bad = @ \/ m.amount # h.next])
  <2>1. /\ m.id \in Id /\ m.entry # 0 /\ m.entry \in 1 .. Len(transfer)
        /\ r \in Records /\ h \in HeardRecords /\ Agrees(m.id) /\ r.asset = m.asset
    BY <1>0, <1>2, FrameHeard
  <2>2. r.started /\ m.amount = r.next /\ r.received + 1 <= r.max
    BY <1>2 DEF ParsedChunk
  <2>3. r.next + 1 \in Nat /\ r.received + 1 \in Nat /\ h.next + 1 \in Nat
    <3>1. r.next \in Nat /\ r.received \in Nat
      BY <2>1 DEF Records
    <3>2. h.next \in Nat
      BY <2>1 DEF HeardRecords
    <3> QED BY <3>1, <3>2
  <2>4. /\ r1 \in Records /\ r1.id = r.id /\ r1.asset = r.asset /\ r1.max = r.max
        /\ r1.started = r.started /\ r1.next = r.next + 1 /\ r1.received = r.received
    BY <2>1, <2>3 DEF Records
  <2>5. /\ r2 \in Records /\ r2.id = r.id /\ r2.asset = r.asset /\ r2.max = r.max
        /\ r2.started = r.started /\ r2.next = r.next + 1 /\ r2.received = r.received + 1
    BY <2>3, <2>4 DEF Records
  <2>6. /\ h1 \in HeardRecords /\ h1.n = h.n /\ h1.asset = h.asset /\ h1.max = h.max
        /\ h1.started = h.started /\ h1.next = h.next + 1 /\ h1.size = h.size
    BY <2>1, <2>3 DEF HeardRecords
  <2>7. /\ h2 \in HeardRecords /\ h2.n = h.n /\ h2.asset = h.asset /\ h2.max = h.max
        /\ h2.started = h.started /\ h2.next = h.next + 1 /\ h2.size = h.size
    BY <2>6 DEF HeardRecords
  <2>8. h2.bad = (h.bad \/ m.amount # h.next)
    BY <2>6 DEF HeardRecords
  <2>9. /\ h3 \in HeardRecords /\ h3.n = h.n /\ h3.asset = h.asset /\ h3.max = h.max
        /\ h3.started = h.started /\ h3.next = h.next + 1 /\ h3.size = h.size
    BY <2>7 DEF HeardRecords
  <2>10. h3.bad = (h2.bad \/ m.asset # h.asset)
    BY <2>7 DEF HeardRecords
  <2>11. transfer' = [transfer EXCEPT ![m.entry] = r2]
    <3>1. r2 = [r EXCEPT !.next = @ + 1, !.received = @ + 1]
      BY <2>1 DEF Records
    <3> QED BY <1>2, <3>1 DEF Update
  <2>12. heard' = [heard EXCEPT ![m.id] = IF h.size # None \/ h.n # m.entry THEN h ELSE h3]
    <3>1. h2 = [h EXCEPT !.next = @ + 1, !.bad = @ \/ m.amount # h.next]
      BY <2>1 DEF HeardRecords
    <3> QED BY <1>2, <3>1 DEF Tell
  <2>13. \A i \in Id : active'[i] \in {0, active[i]}
    BY <1>2
  <2>14. ASSUME h.size = None, h.n = m.entry
         PROVE  /\ r.asset = h.asset /\ r.max = h.max /\ ~h.bad /\ h.started = r.started
                /\ h.next = r.next /\ h.next = r.received /\ h.next <= h.max
    BY <2>1, <2>14 DEF Agrees
  <2> HIDE DEF r1, r2, h1, h2, h3
  <2>15. ASSUME h.size = None, h.n = m.entry
         PROVE  /\ r2.asset = h3.asset /\ r2.max = h3.max /\ ~h3.bad /\ h3.started = r2.started
                /\ h3.next = r2.next /\ h3.next = r2.received /\ h3.next <= h3.max /\ h3.size = None
    <3>1. ~h3.bad
      BY <2>1, <2>2, <2>8, <2>10, <2>14, <2>15
    <3>2. h3.next = r2.next /\ h3.next = r2.received /\ h3.next <= h3.max
      BY <2>2, <2>5, <2>9, <2>14, <2>15
    <3> QED BY <3>1, <3>2, <2>5, <2>9, <2>14, <2>15
  <2> QED BY <1>0, <2>1, <2>5, <2>9, <2>11, <2>12, <2>13, <2>15, FrameStep
<1> QED BY <1>1, <1>2 DEF TakeChunk

\* The frame that makes a file complete: its size is what was received, which is what the
\* controller heard.
LEMMA TakeCompleteHeard ==
  ASSUME IInv, WholeInv, NEW m \in inbox, TakeComplete(m)
  PROVE  WholeInv'
<1> DEFINE r == transfer[m.entry]
           h == heard[m.id]
           h1 == [h EXCEPT !.size = m.amount]
           h2 == [h1 EXCEPT !.bad = h1.bad \/ m.asset # h.asset]
<1>0. m.kind = "complete" /\ inbox' \subseteq inbox /\ UNCHANGED transfer
  BY DEF TakeComplete, Take
<1>1. \A i \in Id : active'[i] \in {0, active[i]}
  BY DEF TakeComplete, CloseInvalid, Closed
<1>2. CASE UNCHANGED heard
  BY <1>0, <1>1, <1>2, SilentStep
<1>3. CASE ValidSender(m) /\ ParsedCompletion(r, m) /\ Tell(m, h1)
  <2>1. /\ m.id \in Id /\ m.entry # 0 /\ m.entry \in 1 .. Len(transfer)
        /\ r \in Records /\ h \in HeardRecords /\ Agrees(m.id) /\ r.asset = m.asset
    BY <1>0, <1>3, FrameHeard
  <2>2. r.started /\ m.amount = r.received /\ m.amount \in Nat
    BY <1>3, <2>1 DEF ParsedCompletion, Records
  <2>3. /\ h1 \in HeardRecords /\ h1.n = h.n /\ h1.asset = h.asset /\ h1.max = h.max
        /\ h1.started = h.started /\ h1.next = h.next /\ h1.size = m.amount
    BY <2>1, <2>2 DEF HeardRecords
  <2>4. h1.bad = h.bad
    BY <2>1 DEF HeardRecords
  <2>5. /\ h2 \in HeardRecords /\ h2.n = h.n /\ h2.asset = h.asset /\ h2.max = h.max
        /\ h2.started = h.started /\ h2.next = h.next /\ h2.size = m.amount
    BY <2>3 DEF HeardRecords
  <2>6. h2.bad = (h.bad \/ m.asset # h.asset)
    BY <2>3, <2>4 DEF HeardRecords
  <2>7. transfer' = [transfer EXCEPT ![m.entry] = r]
    BY <1>0, <2>1 DEF IInv, Typed
  <2>8. heard' = [heard EXCEPT ![m.id] = IF h.size # None \/ h.n # m.entry THEN h ELSE h2]
    BY <1>3 DEF Tell
  <2>9. ASSUME h.size = None, h.n = m.entry
        PROVE  /\ r.asset = h.asset /\ r.max = h.max /\ ~h.bad /\ h.started = r.started
               /\ h.next = r.next /\ h.next = r.received /\ h.next <= h.max
    BY <2>1, <2>9 DEF Agrees
  <2> HIDE DEF h1, h2
  <2>10. ASSUME h.size = None, h.n = m.entry
         PROVE  /\ r.asset = h2.asset /\ r.max = h2.max /\ ~h2.bad /\ h2.started = r.started
                /\ h2.next = r.next /\ h2.next = r.received /\ h2.next <= h2.max
                /\ h2.started /\ h2.next = h2.size /\ h2.size <= h2.max
    <3>1. ~h2.bad
      BY <2>1, <2>6, <2>9, <2>10
    <3>2. h2.started = r.started /\ h2.started
      BY <2>2, <2>5, <2>9, <2>10
    <3>3. h2.next = r.next /\ h2.next = r.received /\ h2.next <= h2.max /\ h2.next = h2.size
          /\ h2.size <= h2.max
      BY <2>2, <2>5, <2>9, <2>10
    <3> QED BY <3>1, <3>2, <3>3, <2>5, <2>9, <2>10
  <2> QED BY <1>0, <1>1, <2>1, <2>5, <2>7, <2>8, <2>10, FrameStep
<1> QED BY <1>2, <1>3 DEF TakeComplete

LEMMA InitWhole == Init => WholeInv
<1> SUFFICES ASSUME Init PROVE WholeInv
  OBVIOUS
<1>1. transfer = <<>> /\ active = [i \in Id |-> 0] /\ inbox = {} /\ heard = [i \in Id |-> Silence(0, None, 0)]
  BY DEF Init
<1>2. /\ Silence(0, None, 0) \in HeardRecords
      /\ Silence(0, None, 0).n = 0 /\ Silence(0, None, 0).size = None
  BY DEF Silence, HeardRecords
<1>3. Len(transfer) = 0 /\ heard \in [Id -> HeardRecords] /\ \A i \in Id : heard[i] = Silence(0, None, 0)
  BY <1>1, <1>2
<1> QED BY <1>1, <1>2, <1>3 DEF WholeInv, Agrees, Whole

LEMMA WholeStep == IInv /\ WholeInv /\ [Next]_vars => WholeInv'
<1> SUFFICES ASSUME IInv, WholeInv, [Next]_vars PROVE WholeInv'
  OBVIOUS
<1>1. ASSUME NEW q \in Request, Ask(q) PROVE WholeInv'
  <2>1. UNCHANGED inbox
    BY <1>1 DEF Ask
  <2>2. CASE known[q.asset] # None
    <3>1. q.asset \in Asset
      BY DEF Request
    <3> QED BY <1>1, <2>1, <2>2, <3>1, HandleHeard DEF Ask, IInv, Typed
  <2>3. CASE known[q.asset] = None
    BY <1>1, <2>1, <2>3, SilentStep DEF Ask
  <2> QED BY <2>2, <2>3
<1>2. ASSUME NEW h \in handlers, Recover(h) PROVE WholeInv'
  <2> DEFINE one == Cardinality(h.found) = 1
             b == IF one THEN CHOOSE c \in h.found : TRUE ELSE None
  <2>1. h.q \in Request /\ one \in BOOLEAN /\ b \in Bindings \cup {None}
    BY Recovered
  <2>2. Handle(h.q, one, b) /\ UNCHANGED inbox
    BY <1>2 DEF Recover
  <2> HIDE DEF one, b
  <2> QED BY <2>1, <2>2, HandleHeard
<1>3. ASSUME NEW m \in inbox, TakeError(m) PROVE WholeInv'
  <2>1. UNCHANGED <<transfer, heard>> /\ inbox' \subseteq inbox
    BY <1>3 DEF TakeError, Take
  <2>2. \A i \in Id : active'[i] \in {0, active[i]}
    BY <1>3 DEF TakeError, Closed
  <2> QED BY <2>1, <2>2, SilentStep
<1>4. CASE TakeMessage
  BY <1>3, <1>4, TakeStartHeard, TakeChunkHeard, TakeCompleteHeard DEF TakeMessage
<1>5. CASE UNCHANGED vars
  BY <1>5, SilentStep DEF vars
<1> QED BY <1>1, <1>2, <1>4, <1>5, SilentRest, SilentDelivery, SilentPage
        DEF Next, Controller, Handler

\* A file the controller is told is complete is whole, for any tabs, assets, ids, budgets and
\* bounds: whichever frames of whichever jobs were looked up before it, and whatever a restart
\* of the worker left running in the pages.
THEOREM CompleteAlwaysWhole == Spec => []CompleteIsWhole
<1>1. WholeInv => CompleteIsWhole
  BY DEF WholeInv, Whole, CompleteIsWhole
<1> QED BY <1>1, InitIInv, IInvStep, InitWhole, WholeStep, PTL DEF Spec

----------------------------------------------------------------------------
(* The registry. *)

\* The rank of each kept position is its place in what is kept, and no place is left out.
LEMMA Ranks ==
  ASSUME NEW n \in Nat, NEW at \in SUBSET (1 .. n)
  PROVE  /\ IsFiniteSet(at) /\ Cardinality(at) \in 0 .. n
         /\ \A i \in at : Rank(at, i) \in 1 .. Cardinality(at)
         /\ \A i \in at, j \in at : Rank(at, i) = Rank(at, j) => i = j
         /\ \A k \in 1 .. Cardinality(at) : \E i \in at : Rank(at, i) = k
<1>1. IsFiniteSet(at) /\ Cardinality(at) <= n /\ Cardinality(at) \in Nat
  <2>1. IsFiniteSet(1 .. n) /\ Cardinality(1 .. n) = n
    BY FS_Interval
  <2>2. IsFiniteSet(at) /\ Cardinality(at) <= n
    BY <2>1, FS_Subset
  <2> QED  BY <2>2, FS_CardinalityType
<1>2. ASSUME NEW i \in at
      PROVE  Rank(at, i) \in 1 .. Cardinality(at)
  <2>1. {j \in at : j <= i} \in SUBSET at /\ i \in {j \in at : j <= i}
    OBVIOUS
  <2>2. Cardinality({j \in at : j <= i}) <= Cardinality(at) /\ IsFiniteSet({j \in at : j <= i})
    BY <1>1, <2>1, FS_Subset
  <2>3. Cardinality({j \in at : j <= i}) \in Nat \ {0}
    BY <2>1, <2>2, FS_CardinalityType, FS_EmptySet
  <2> QED  BY <1>1, <2>2, <2>3 DEF Rank
<1>3. ASSUME NEW i \in at, NEW j \in at, i < j
      PROVE  Rank(at, i) < Rank(at, j)
  <2> DEFINE below == {k \in at : k <= i}
             upto  == {k \in at : k <= j}
  <2>0. \A k \in at : k \in Nat
    OBVIOUS
  <2>a. i \in Nat /\ j \in Nat
    BY <2>0
  <2>b. j <= j /\ ~(j <= i)
    BY <1>3, <2>a
  <2>c. \A k \in at : (k <= i) => (k <= j)
    BY <1>3, <2>0, <2>a
  <2>1. below \in SUBSET upto /\ j \in upto /\ j \notin below
    <3>1. below \in SUBSET upto
      BY <2>c, Zenon
    <3>2. j \in upto /\ j \notin below
      BY <2>b
    <3> QED  BY <3>1, <3>2
  <2>2. IsFiniteSet(upto) /\ IsFiniteSet(below)
    <3>1. upto \in SUBSET at /\ below \in SUBSET at
      OBVIOUS
    <3> HIDE DEF below, upto
    <3> QED  BY <1>1, <3>1, FS_Subset
  <2>3. Cardinality(below) <= Cardinality(upto) /\ Cardinality(below) # Cardinality(upto)
    <3> HIDE DEF below, upto
    <3> QED  BY <2>1, <2>2, FS_Subset
  <2>4. Cardinality(below) \in Nat /\ Cardinality(upto) \in Nat
    BY <2>2, FS_CardinalityType
  <2> QED  BY <2>3, <2>4 DEF Rank
<1>4. \A i \in at, j \in at : Rank(at, i) = Rank(at, j) => i = j
  <2> SUFFICES ASSUME NEW i \in at, NEW j \in at, Rank(at, i) = Rank(at, j) PROVE i = j
    OBVIOUS
  <2>1. Rank(at, i) \in Nat /\ Rank(at, j) \in Nat /\ i \in Nat /\ j \in Nat
    BY <1>2
  <2>2. ~(i < j) /\ ~(j < i)
    BY <1>3, <2>1
  <2> QED  BY <2>1, <2>2
<1>5. \A k \in 1 .. Cardinality(at) : \E i \in at : Rank(at, i) = k
  <2> DEFINE f == [i \in at |-> Rank(at, i)]
  <2>1. f \in Injection(at, 1 .. Cardinality(at))
    BY <1>2, <1>4 DEF Injection, IsInjective
  <2>2. IsFiniteSet(1 .. Cardinality(at)) /\ Cardinality(1 .. Cardinality(at)) = Cardinality(at)
    BY <1>1, FS_Interval
  <2>3. f \in Surjection(at, 1 .. Cardinality(at))
    <3> HIDE DEF f
    <3> QED  BY <2>1, <2>2, FS_Injection
  <2> QED  BY <2>3 DEF Surjection
<1> QED  BY <1>1, <1>2, <1>4, <1>5

\* What filtering keeps: only what was asked for, all of it, and nothing twice.
LEMMA FilteredDoes ==
  ASSUME NEW S, NEW o \in Seq(S), NEW W
  PROVE  /\ Filtered(o, W) \in Seq(S)
         /\ Len(Filtered(o, W)) <= Len(o)
         /\ ToSet(Filtered(o, W)) = ToSet(o) \cap W
         /\ IsInjective(o) => IsInjective(Filtered(o, W))
<1> DEFINE at == {i \in DOMAIN o : o[i] \in W}
           pos == [k \in 1 .. Cardinality(at) |-> CHOOSE i \in at : Rank(at, i) = k]
           f == Filtered(o, W)
<1>1. at \in SUBSET (1 .. Len(o)) /\ DOMAIN o = 1 .. Len(o) /\ Len(o) \in Nat
  OBVIOUS
<1>2. /\ Cardinality(at) \in 0 .. Len(o)
      /\ \A i \in at : Rank(at, i) \in 1 .. Cardinality(at)
      /\ \A i \in at, j \in at : Rank(at, i) = Rank(at, j) => i = j
      /\ \A k \in 1 .. Cardinality(at) : \E i \in at : Rank(at, i) = k
  <2> HIDE DEF at
  <2> QED  BY <1>1, Ranks
<1>3. \A k \in 1 .. Cardinality(at) : pos[k] \in at /\ Rank(at, pos[k]) = k
  <2> HIDE DEF at
  <2> QED  BY <1>2
<1>4. f = [k \in 1 .. Cardinality(at) |-> o[pos[k]]]
  BY DEF Filtered
<1>5. \A i \in at : i \in 1 .. Len(o) /\ o[i] \in S /\ o[i] \in W
  OBVIOUS
<1>6. \A i \in 1 .. Len(o) : o[i] \in W => i \in at
  OBVIOUS
<1> HIDE DEF at, f, pos
<1>7. f \in Seq(S) /\ Len(f) = Cardinality(at) /\ DOMAIN f = 1 .. Cardinality(at)
  BY <1>2, <1>3, <1>4, <1>5
<1>8. ToSet(f) = ToSet(o) \cap W
  <2>1. ASSUME NEW k \in DOMAIN f PROVE f[k] \in ToSet(o) \cap W
    BY <1>1, <1>3, <1>4, <1>5, <1>7 DEF ToSet
  <2>2. ASSUME NEW i \in DOMAIN o, o[i] \in W PROVE \E k \in DOMAIN f : f[k] = o[i]
    <3>1. i \in at
      BY <1>1, <1>6, <2>2
    <3>2. Rank(at, i) \in 1 .. Cardinality(at) /\ pos[Rank(at, i)] = i
      BY <1>2, <1>3, <3>1
    <3> QED  BY <1>4, <1>7, <3>2
  <2> QED  BY <2>1, <2>2 DEF ToSet
<1>9. IsInjective(o) => IsInjective(f)
  <2> SUFFICES ASSUME IsInjective(o), NEW j \in DOMAIN f, NEW k \in DOMAIN f, f[j] = f[k]
               PROVE  j = k
    BY DEF IsInjective
  <2>1. pos[j] \in DOMAIN o /\ pos[k] \in DOMAIN o /\ o[pos[j]] = o[pos[k]]
    BY <1>1, <1>3, <1>4, <1>5, <1>7
  <2>2. pos[j] = pos[k]
    BY <2>1 DEF IsInjective
  <2> QED  BY <1>3, <1>7, <2>2
<1> QED  BY <1>2, <1>7, <1>8, <1>9 DEF f

\* The registry is in order, and every entry has its place.
Ordered(o, k) ==
    /\ o \in Seq(Asset) /\ IsInjective(o)
    /\ {a \in Asset : k[a] # None} \subseteq ToSet(o)

RegistryInv == Ordered(order, known) /\ Len(order) <= MaxRegistered

\* A registration moves the asset to the end, and what it evicts is forgotten.
LEMMA Registration ==
  ASSUME Typed, RegistryInv, NEW a \in Asset, NEW b \in Bindings \cup {None}
  PROVE  /\ Ordered(Kept(Order(order, a)), KnownAfter(a, b))
         /\ Len(Kept(Order(order, a))) <= MaxRegistered
<1> DEFINE f == Filtered(order, Asset \ {a})
           o == Order(order, a)
           n == Overflow(o)
<1>1. /\ f \in Seq(Asset) /\ Len(f) <= Len(order) /\ ToSet(f) = ToSet(order) \cap (Asset \ {a}) /\ IsInjective(f)
      /\ Len(f) \in Nat /\ Len(order) \in Nat /\ MaxRegistered \in Nat \ {0} /\ Len(order) <= MaxRegistered
  BY FilteredDoes, AssetsAssumption DEF RegistryInv, Ordered
<1>2. /\ o \in Seq(Asset) /\ Len(o) = Len(f) + 1 /\ o[Len(f) + 1] = a /\ \A i \in 1 .. Len(f) : o[i] = f[i]
  <2> HIDE DEF f
  <2>1. o = Append(f, a)
    BY DEF Order, f
  <2> QED  BY <1>1, <2>1
<1> HIDE DEF f, o
<1>3. IsInjective(o)
  <2>1. \A i \in 1 .. Len(f) : f[i] \in ToSet(f)
    BY <1>1 DEF ToSet
  <2>2. \A i \in 1 .. Len(f) : f[i] # a
    BY <1>1, <2>1
  <2> QED  BY <1>1, <1>2, <2>2 DEF IsInjective
<1>4. n \in Nat /\ n <= Len(o) /\ Len(o) - n <= MaxRegistered
  BY <1>1, <1>2 DEF Overflow
<1> HIDE DEF n
<1>5. /\ Kept(o) \in Seq(Asset) /\ Len(Kept(o)) = Len(o) - n
      /\ \A i \in 1 .. Len(o) - n : Kept(o)[i] = o[n + i]
  <2>1. Kept(o) = SubSeq(o, n + 1, Len(o))
    BY DEF Kept, n
  <2> QED  BY <1>1, <1>2, <1>4, <2>1
<1>6. IsInjective(Kept(o))
  <2> SUFFICES ASSUME NEW i \in DOMAIN Kept(o), NEW j \in DOMAIN Kept(o), Kept(o)[i] = Kept(o)[j]
               PROVE  i = j
    BY DEF IsInjective
  <2>1. i \in 1 .. Len(o) - n /\ j \in 1 .. Len(o) - n
    BY <1>5
  <2>2. n + i \in DOMAIN o /\ n + j \in DOMAIN o /\ o[n + i] = o[n + j]
    BY <1>1, <1>2, <1>4, <1>5, <2>1
  <2>3. n + i = n + j
    BY <1>3, <2>2 DEF IsInjective
  <2> QED  BY <1>4, <2>1, <2>3
<1>7. ASSUME NEW c \in Asset, KnownAfter(a, b)[c] # None
      PROVE  c \in ToSet(Kept(o))
  <2>1. c \notin Evicted(o) /\ (c = a \/ known[c] # None)
    BY <1>7 DEF KnownAfter, o
  <2>2. PICK i \in 1 .. Len(o) : o[i] = c
    <3>1. CASE c = a
      BY <1>1, <1>2, <3>1
    <3>2. CASE c # a
      <4>1. c \in ToSet(f)
        BY <1>1, <2>1, <3>2 DEF RegistryInv, Ordered
      <4>2. PICK i \in 1 .. Len(f) : f[i] = c
        BY <1>1, <4>1 DEF ToSet
      <4> QED  BY <1>1, <1>2, <4>2
    <3> QED  BY <3>1, <3>2
  <2>3. i > n
    <3> SUFFICES ASSUME i <= n PROVE FALSE
      BY <1>4
    <3>1. Evicted(o) = ToSet(SubSeq(o, 1, n))
      BY DEF Evicted, n
    <3>2. i \in DOMAIN SubSeq(o, 1, n) /\ SubSeq(o, 1, n)[i] = o[i]
      BY <1>2, <1>4
    <3> QED  BY <2>1, <2>2, <3>1, <3>2 DEF ToSet
  <2>4. Len(o) \in Nat /\ i - n \in 1 .. Len(o) - n /\ n + (i - n) = i
    BY <1>1, <1>2, <1>4, <2>2, <2>3
  <2>5. DOMAIN Kept(o) = 1 .. Len(o) - n /\ Kept(o)[i - n] = o[n + (i - n)]
    BY <1>5, <2>4
  <2>6. i - n \in DOMAIN Kept(o) /\ Kept(o)[i - n] = c
    BY <2>2, <2>4, <2>5
  <2> QED  BY <2>6 DEF ToSet
<1> QED  BY <1>1, <1>2, <1>4, <1>5, <1>6, <1>7 DEF Ordered, o

\* A tab's entries leave the order with the registry.
LEMMA Removal ==
  ASSUME Typed, RegistryInv, NEW t \in Tab, RemoveAssetsForTab(t)
  PROVE  RegistryInv'
<1> DEFINE W == {a \in Asset : known'[a] # None}
<1>1. order' = Filtered(order, W) /\ \A a \in Asset : known'[a] \in {known[a], None}
  BY DEF RemoveAssetsForTab
<1> HIDE DEF W
<1>2. /\ order' \in Seq(Asset) /\ Len(order') <= Len(order) /\ ToSet(order') = ToSet(order) \cap W /\ IsInjective(order')
      /\ Len(order') \in Nat /\ Len(order) \in Nat /\ MaxRegistered \in Nat
  BY <1>1, FilteredDoes, AssetsAssumption DEF RegistryInv, Ordered
<1>3. {a \in Asset : known'[a] # None} \subseteq ToSet(order')
  BY <1>1, <1>2 DEF RegistryInv, Ordered, W
<1> QED  BY <1>2, <1>3 DEF RegistryInv, Ordered

LEMMA Remembering ==
  ASSUME Typed, RegistryInv, NEW a \in Asset, NEW again \in BOOLEAN, NEW b \in Bindings \cup {None}, NEW forget \in BOOLEAN,
         Remembered(a, again, b, forget)
  PROVE  RegistryInv'
<1> DEFINE kept == IF again THEN KnownAfter(a, b) ELSE known
<1>1. kept \in [Asset -> Bindings \cup {None}]
  BY KnownTyped DEF Typed
<1>2. order' = (IF again THEN Kept(Order(order, a)) ELSE order) /\ known' = IF forget THEN [kept EXCEPT ![a] = None] ELSE kept
  BY DEF Remembered
<1>3. Ordered(order', kept) /\ Len(order') <= MaxRegistered
  BY <1>2, Registration DEF RegistryInv
<1> HIDE DEF kept
<1>4. \A c \in Asset : known'[c] \in {kept[c], None}
  BY <1>1, <1>2
<1> QED  BY <1>3, <1>4 DEF RegistryInv, Ordered

\* Every other step leaves the registry alone.
LEMMA RegistryStep == IInv /\ RegistryInv /\ [Next]_vars => RegistryInv'
<1> SUFFICES ASSUME IInv, RegistryInv, [Next]_vars PROVE RegistryInv'
  OBVIOUS
<1>0. Typed
  BY DEF IInv
<1>1. CASE UNCHANGED registry
  BY <1>1 DEF registry, RegistryInv, Ordered
<1>2. ASSUME NEW q \in Request, NEW again \in BOOLEAN, NEW b \in Bindings \cup {None}, Handle(q, again, b)
      PROVE  RegistryInv'
  <2>1. q.asset \in Asset
    BY DEF Request
  <2>2. PICK forget \in BOOLEAN : Remembered(q.asset, again, b, forget)
    BY <1>2 DEF Handle, HandleFetch, HandleReveal
  <2> QED  BY <1>0, <2>1, <2>2, Remembering
<1>3. ASSUME NEW q \in Request, Ask(q) PROVE RegistryInv'
  <2>1. q.asset \in Asset
    BY DEF Request
  <2>2. known[q.asset] \in Bindings \cup {None}
    BY <1>0, <2>1 DEF Typed
  <2> QED  BY <1>1, <1>2, <1>3, <2>2 DEF Ask
<1>4. ASSUME NEW h \in handlers, Recover(h) PROVE RegistryInv'
  <2> DEFINE one == Cardinality(h.found) = 1
             b == IF one THEN CHOOSE c \in h.found : TRUE ELSE None
  <2>1. h.q \in Request /\ one \in BOOLEAN /\ b \in Bindings \cup {None}
    BY Recovered
  <2>2. Handle(h.q, one, b)
    BY <1>4 DEF Recover
  <2> HIDE DEF one, b
  <2> QED BY <1>2, <2>1, <2>2
<1>5. ASSUME NEW t \in Tab, NEW a \in Asset, Capture(t, a) PROVE RegistryInv'
  <2>1. bound[t] \in Bindings \cup {None}
    BY <1>0 DEF Typed
  <2>2. CASE RegisterAsset(a, bound[t])
    BY <1>0, <2>1, <2>2, Registration DEF RegisterAsset, RegistryInv
  <2> QED  BY <1>1, <1>5, <2>2 DEF Capture
<1>6. ASSUME NEW t \in Tab, Hear(t) \/ Register(t) PROVE RegistryInv'
  BY <1>0, <1>1, <1>6, Removal DEF Hear, Register, registry
<1>7. CASE Restart
  <2>1. known' = [a \in Asset |-> None] /\ order' = <<>>
    BY <1>7 DEF Restart
  <2> QED  BY <2>1, AssetsAssumption DEF RegistryInv, Ordered, IsInjective
<1>8. ASSUME NEW t \in Tab, NEW c \in Conversation, Move(t, c) \/ Reload(t, c) PROVE UNCHANGED registry
  BY <1>8 DEF Move, Reload
<1>9. CASE World
  <2>1. ASSUME NEW b \in held, RegisterBinds(b) PROVE UNCHANGED registry
    BY <2>1 DEF RegisterBinds
  <2>2. ASSUME NEW t \in Tab, Transition(t) \/ Drop(t) PROVE UNCHANGED registry
    BY <2>2 DEF Transition, Drop
  <2> QED BY <1>1, <1>5, <1>6, <1>8, <1>9, <2>1, <2>2 DEF World
<1>10. ASSUME NEW s \in Tab \X Id, PageWorks(s) PROVE UNCHANGED registry
  BY <1>10 DEF PageWorks, Start, NextChunk, EndOfStream, ReportFailure, PageOnly
<1>11. CASE TakeMessage
  BY <1>1, <1>11 DEF TakeMessage, TakeStart, TakeChunk, TakeComplete, TakeError, Inside
<1>12. ASSUME NEW t \in Tab, Deliver(t) PROVE UNCHANGED registry
  BY <1>12 DEF Deliver
<1>13. CASE Controller
  <2>1. ASSUME NEW i \in Id, HandleCancel(i) PROVE UNCHANGED registry
    BY <2>1 DEF HandleCancel
  <2> QED  BY <1>1, <1>3, <1>13, <2>1 DEF Controller
<1>14. CASE Handler
  <2>1. ASSUME NEW h \in handlers, NEW b \in h.asked, Probe(h, b) PROVE UNCHANGED registry
    BY <2>1 DEF Probe
  <2> QED  BY <1>1, <1>4, <1>14, <2>1 DEF Handler
<1>15. Close \/ Reconnect \/ UNCHANGED vars => UNCHANGED registry
  BY DEF Close, Reconnect, vars
<1> QED  BY <1>1, <1>7, <1>9, <1>10, <1>11, <1>12, <1>13, <1>14, <1>15 DEF Next

\* The registry of assets never outgrows its limit, and every entry has its one place in the
\* order, for any assets and any limit: after evictions, recoveries that nobody waited for,
\* documents that went away and restarts (assetOrderAfterRegistration, removeAssetsForTab).
THEOREM RegistryAlwaysBounded == Spec => []RegistryIsBounded
<1>1. Init => RegistryInv
  <2> SUFFICES ASSUME Init PROVE RegistryInv
    OBVIOUS
  <2>1. known = [a \in Asset |-> None] /\ order = <<>>
    BY DEF Init
  <2> QED  BY <2>1, AssetsAssumption DEF RegistryInv, Ordered, IsInjective
<1>2. RegistryInv => RegistryIsBounded
  BY DEF RegistryInv, Ordered, RegistryIsBounded
<1> QED  BY <1>1, <1>2, InitIInv, IInvStep, RegistryStep, PTL DEF Spec
=============================================================================
