----------------------------- MODULE Quarantine -----------------------------
(***************************************************************************)
(* The quarantine authority of the service worker                          *)
(* (src/src/background/quarantine.ts).  A verdict says that a conversation *)
(* may not be sent to, because nobody saw the provider go idle.  It lives  *)
(* in two chrome.storage areas, either of which may refuse any read and    *)
(* any write, and in memory while neither takes it.                        *)
(*                                                                         *)
(* Calls are serialised (createRevisionQueue), so at most one is under     *)
(* way.  It reads both stores, flushes what the worker holds in memory,    *)
(* and then answers; the worker may be stopped at any point in between.    *)
(***************************************************************************)
EXTENDS Naturals, Sequences, FiniteSets

CONSTANTS
    Identity,       \* conversations
    Provider,
    providerOf,     \* [Identity -> Provider]
    MaxIdentities,  \* maximumIdentitiesPerProvider
    MaxProviders,   \* maximumProviders
    Lifetime,       \* quarantineLifetimeMs, in ticks of the clock
    MaxTime,        \* bound on the clock
    None

ASSUME IdentityAssumption ==
    /\ IsFiniteSet(Identity) /\ IsFiniteSet(Provider)
    /\ providerOf \in [Identity -> Provider]
    /\ None \notin Identity

ASSUME LimitAssumption ==
    /\ MaxIdentities \in Nat \ {0} /\ MaxProviders \in Nat \ {0}
    /\ Lifetime \in Nat \ {0} /\ MaxTime \in Nat

Store == {"session", "local"}
Time  == 0..(MaxTime + Lifetime)

VARIABLES
    (* the stores: 0 where nothing is recorded, otherwise when it expires *)
    records,     \* [Store -> [Identity -> Time]]
    marks,       \* overflow markers, [Store -> [Provider -> Time]]
    markAll,     \* the global one, allUntil, [Store -> Time]
    (* the worker's memory *)
    held,        \* heldWithoutStorage
    heldOrder,   \* ... in the order of the Map
    writable,    \* storesWritable = true
    op,          \* the call under way
    answer,      \* the answer just given, if the last step gave one
    now,
    (* what was promised, for the properties *)
    kept,        \* until when the worker decided to refuse an identity no store took
    named,       \* until when a store was made to refuse it by name
    marked,      \* until when a marker was made to stand for it
    lowered      \* identities whose marker was overwritten by an earlier one

stores  == <<records, marks, markAll>>
memory  == <<held, heldOrder>>
history == <<kept, named, marked, lowered>>
vars    == <<stores, memory, writable, op, answer, now, history>>

Later(a, b) == IF a > b THEN a ELSE b

-----------------------------------------------------------------------------
(* What a call saw in the stores.  A failed read is empty; a read whose    *)
(* compaction failed is used, and not believed to be the whole.            *)

ReadState == {"failed", "partial", "complete"}
Idle      == [kind |-> "none", id |-> None, at |-> 0,
              read |-> [st \in Store |-> "failed"], todo |-> {}]
NoAnswer  == [kind |-> "none", id |-> None, value |-> "none", ids |-> {}]

Complete(st) == op.read[st] = "complete"

\* holdsIdentity
Holds(st, i) == op.read[st] \in {"partial", "complete"} /\ records[st][i] > op.at

\* mutant: the global marker is not looked at.
OverflowByProvider(st, p) == op.read[st] \in {"partial", "complete"} /\ marks[st][p] > op.at

\* overflowInForce
Overflow(st, p) ==
    /\ op.read[st] \in {"partial", "complete"}
    /\ marks[st][p] > op.at \/ markAll[st] > op.at

NamesOf(st, p) == {i \in Identity : providerOf[i] = p /\ records[st][i] # 0}

\* mutant: a limit is noticed one too late.
FitsOneMore(st, i) ==
    LET p == providerOf[i] IN
    /\ Cardinality({q \in Provider : NamesOf(st, q) # {}}) <= MaxProviders
    /\ Cardinality(NamesOf(st, p)) <= MaxIdentities

\* A store takes one more verdict only within both of its limits.
Fits(st, i) ==
    LET p == providerOf[i] IN
    /\ Cardinality({q \in Provider : NamesOf(st, q) # {}} \cup {p}) <= MaxProviders
    /\ Cardinality(NamesOf(st, p) \cup {i}) <= MaxIdentities

-----------------------------------------------------------------------------
(* persistVerdict.  Any write may fail, so that any store after a refusing *)
(* one may be the one that takes the verdict.                              *)

\* recordInStore
RecordIn(st, i, until) ==
    /\ Complete(st) /\ Fits(st, i)
    /\ records' = [records EXCEPT ![st][i] = until]
    /\ named' = [named EXCEPT ![i] = Later(@, until)]
    /\ writable' = TRUE
    /\ UNCHANGED <<marks, markAll, marked, lowered>>

\* markOverflow: the marker of the provider, or the global one once there are too many.
MarkIn(st, i, until) ==
    /\ Complete(st)
    /\ LET p    == providerOf[i]
           many == Cardinality({q \in Provider : marks[st][q] # 0} \cup {p}) > MaxProviders
       IN
       IF many
       THEN /\ markAll' = [markAll EXCEPT ![st] = Later(@, until)]
            /\ UNCHANGED <<marks, lowered>>
       ELSE /\ marks' = [marks EXCEPT ![st][p] = until]
            /\ lowered' = lowered \cup {j \in Identity : providerOf[j] = p /\ marked[j] > until}
            /\ UNCHANGED markAll
    /\ marked' = [marked EXCEPT ![i] = Later(@, until)]
    /\ writable' = TRUE
    /\ UNCHANGED <<records, named>>

\* No store took it.
PersistFails ==
    /\ writable' = IF \E st \in Store : Complete(st) THEN FALSE ELSE writable
    /\ UNCHANGED <<stores, named, marked, lowered>>

\* releaseWithoutStorage
ReleaseHeld(i) ==
    /\ held' = [held EXCEPT ![i] = 0]
    /\ heldOrder' = SelectSeq(heldOrder, LAMBDA j : j # i)

\* heldFor(provider).set: a Map keeps the place of a key it has.
Hold(i, until) ==
    /\ held' = [held EXCEPT ![i] = until]
    /\ heldOrder' = IF held[i] # 0 THEN heldOrder ELSE Append(heldOrder, i)

-----------------------------------------------------------------------------
Init ==
    /\ records = [st \in Store |-> [i \in Identity |-> 0]]
    /\ marks = [st \in Store |-> [p \in Provider |-> 0]]
    /\ markAll = [st \in Store |-> 0]
    /\ held = [i \in Identity |-> 0] /\ heldOrder = <<>> /\ writable = FALSE
    /\ op = Idle /\ answer = NoAnswer /\ now = 0
    /\ kept = [i \in Identity |-> 0] /\ named = [i \in Identity |-> 0]
    /\ marked = [i \in Identity |-> 0] /\ lowered = {}

Stale(t)     == t # 0 /\ t <= now
Compacted(f) == [x \in DOMAIN f |-> IF Stale(f[x]) THEN 0 ELSE f[x]]

StaleRecords(st) == \E i \in Identity : Stale(records[st][i])
StaleMarks(st)   == Stale(markAll[st]) \/ \E p \in Provider : Stale(marks[st][p])

\* What readStore can come to.  A store may not answer.  If it does, each of its two keys that
\* holds something expired is written back without it, and that write may be refused.
Reads(st) ==
    {[answers |-> FALSE, records |-> FALSE, marks |-> FALSE]} \cup
    [answers : {TRUE}, records : IF StaleRecords(st) THEN BOOLEAN ELSE {TRUE},
                       marks   : IF StaleMarks(st) THEN BOOLEAN ELSE {TRUE}]

ReadAs(r) == IF ~r.answers THEN "failed" ELSE IF r.records /\ r.marks THEN "complete" ELSE "partial"

\* The outcome of the last write of a read, if it wrote anything.
LastWrite(st, r) ==
    IF ~r.answers THEN {}
    ELSE IF StaleMarks(st) THEN {r.marks} ELSE IF StaleRecords(st) THEN {r.records} ELSE {}

\* A call reaches the head of the queue and reads both stores, at the same time: either may be
\* the last to write.  A clear does not flush its own target.
Call(kind, i, session, local) ==
    LET r == [st \in Store |-> IF st = "session" THEN session ELSE local] IN
    /\ op.kind = "none"
    /\ op' = [kind |-> kind, id |-> i, at |-> now, read |-> [st \in Store |-> ReadAs(r[st])],
              todo |-> {j \in Identity : held[j] # 0} \ (IF kind = "CLEAR" THEN {i} ELSE {})]
    /\ records' = [st \in Store |->
          IF r[st].answers /\ r[st].records THEN Compacted(records[st]) ELSE records[st]]
    /\ marks' = [st \in Store |->
          IF r[st].answers /\ r[st].marks THEN Compacted(marks[st]) ELSE marks[st]]
    /\ markAll' = [st \in Store |->
          IF r[st].answers /\ r[st].marks /\ Stale(markAll[st]) THEN 0 ELSE markAll[st]]
    /\ LET writes == UNION {LastWrite(st, r[st]) : st \in Store} IN
       writable' \in IF writes = {} THEN {writable} ELSE writes
    /\ answer' = NoAnswer
    /\ UNCHANGED <<memory, now, history>>

\* flushHeldVerdicts, one identity of it.  Those of one provider go in the order of its Map.
Flush(i) ==
    /\ i \in op.todo
    /\ \A m, n \in 1..Len(heldOrder) :
          m < n /\ heldOrder[n] = i /\ providerOf[heldOrder[m]] = providerOf[i]
          => heldOrder[m] \notin op.todo
    /\ op' = [op EXCEPT !.todo = @ \ {i}]
    /\ \/ /\ held[i] <= op.at
          /\ ReleaseHeld(i)
          /\ UNCHANGED <<stores, writable, history>>
       \/ /\ held[i] > op.at
          /\ \E st \in Store : RecordIn(st, i, held[i]) \/ MarkIn(st, i, held[i])
          /\ ReleaseHeld(i)
          /\ kept' = [kept EXCEPT ![i] = 0]
       \/ held[i] > op.at /\ PersistFails /\ UNCHANGED <<memory, kept>>
    /\ UNCHANGED <<answer, now>>

-----------------------------------------------------------------------------
(* The answers. *)

Ready(kind) == op.kind = kind /\ op.todo = {}

Answer(value, ids) ==
    /\ answer' = [kind |-> op.kind, id |-> op.id, value |-> value, ids |-> ids]
    /\ op' = Idle

\* provenWritable: what was read is written back to one store that answered in full, unless
\* the last write is remembered to have landed.
Proven(yes) ==
    /\ writable => yes
    /\ yes => writable \/ \E st \in Store : Complete(st)
    /\ writable' = yes

Uncertain(p) == (\E st \in Store : Overflow(st, p)) \/ (\E st \in Store : ~Complete(st))

\* conversationQuarantineVerdict
AnswerIs ==
    /\ Ready("IS")
    /\ LET i == op.id
           yes == held[i] > op.at \/ \E st \in Store : Holds(st, i)
       IN
       \/ yes /\ Answer("quarantined", {}) /\ UNCHANGED writable
       \/ ~yes /\ Uncertain(providerOf[i]) /\ Answer("unavailable", {}) /\ UNCHANGED writable
       \/ /\ ~yes /\ ~Uncertain(providerOf[i])
          /\ \E ok \in BOOLEAN :
                Proven(ok) /\ Answer(IF ok THEN "clear" ELSE "unavailable", {})
    /\ UNCHANGED <<stores, memory, now, history>>

\* mutant: the stores that answered are the whole list.
AnswerListAnyway ==
    /\ Ready("LIST")
    /\ Answer("listed", {i \in Identity : /\ providerOf[i] = providerOf[op.id]
                                          /\ \E st \in Store : Holds(st, i)})
    /\ UNCHANGED <<stores, memory, writable, now, history>>

\* quarantinedIdentities of the provider of op.id
AnswerList ==
    /\ Ready("LIST")
    /\ LET p == providerOf[op.id] IN
       \/ Uncertain(p) /\ Answer("unavailable", {}) /\ UNCHANGED writable
       \/ /\ ~Uncertain(p)
          /\ \/ Proven(FALSE) /\ Answer("unavailable", {})
             \/ /\ Proven(TRUE)
                /\ Answer("listed", {i \in Identity : /\ providerOf[i] = p
                                                      /\ \E st \in Store : Holds(st, i)})
    /\ UNCHANGED <<stores, memory, now, history>>

\* quarantineConversation
AnswerSet ==
    /\ Ready("SET")
    /\ LET i == op.id
           until == op.at + Lifetime
       IN
       /\ \/ /\ \E st \in Store : RecordIn(st, i, until)
             /\ ReleaseHeld(i) /\ Answer("done", {})
             /\ kept' = [kept EXCEPT ![i] = 0]
          \/ /\ \E st \in Store : MarkIn(st, i, until)
             /\ ReleaseHeld(i) /\ Answer("refused", {})
             /\ kept' = [kept EXCEPT ![i] = 0]
          \/ /\ PersistFails
             /\ Hold(i, until) /\ Answer("refused", {})
             /\ kept' = [kept EXCEPT ![i] = until]
    /\ UNCHANGED now

\* mutant: a store that could not answer is taken to have let go.
ClearTookAnyway(i, proven, removed) ==
    /\ proven
    /\ removed = {st \in Store : Complete(st) /\ Holds(st, i)}
    /\ \A st \in Store : ~Overflow(st, providerOf[i])

\* A clear took: every store answered in full, let go of the identity, and no marker may be
\* standing for it.
ClearTook(i, proven, removed) ==
    /\ proven
    /\ \A st \in Store : Complete(st) /\ (Holds(st, i) => st \in removed)
    /\ \A st \in Store : ~Overflow(st, providerOf[i])

\* clearConversationQuarantine; removed is the set of stores whose write lands.
AnswerClear ==
    /\ Ready("CLEAR")
    /\ LET i == op.id
           holding == {st \in Store : Complete(st) /\ Holds(st, i)}
       IN \E removed \in SUBSET holding, proven \in BOOLEAN :
          /\ writable => proven
          /\ proven => writable \/ \E st \in Store : Complete(st)
          /\ writable' = IF holding = {} THEN proven
                         ELSE IF "local" \in holding THEN "local" \in removed
                         ELSE "session" \in removed
          /\ records' = [st \in Store |->
                IF st \in removed THEN [records[st] EXCEPT ![i] = 0] ELSE records[st]]
          /\ IF ClearTook(i, proven, removed)
             THEN /\ ReleaseHeld(i) /\ Answer("done", {})
                  /\ marked' = [marked EXCEPT ![i] = 0] /\ kept' = [kept EXCEPT ![i] = 0]
             ELSE Answer("refused", {}) /\ UNCHANGED <<memory, marked, kept>>
          /\ named' = IF removed # {} \/ ClearTook(i, proven, removed)
                      THEN [named EXCEPT ![i] = 0] ELSE named
    /\ UNCHANGED <<marks, markAll, now, lowered>>

-----------------------------------------------------------------------------
\* The browser stops the worker and starts it again: what only its memory held is lost.
Restart ==
    /\ op' = Idle /\ answer' = NoAnswer
    /\ held' = [i \in Identity |-> 0] /\ heldOrder' = <<>> /\ writable' = FALSE
    /\ kept' = [i \in Identity |-> 0]
    /\ UNCHANGED <<stores, now, named, marked, lowered>>

\* A promise that has run out is forgotten.
InForce(f) == [i \in Identity |-> IF f[i] <= now + 1 THEN 0 ELSE f[i]]

Tick ==
    /\ now < MaxTime
    /\ now' = now + 1
    /\ kept' = InForce(kept) /\ named' = InForce(named) /\ marked' = InForce(marked)
    /\ answer' = NoAnswer
    /\ UNCHANGED <<stores, memory, writable, op, lowered>>

Next ==
    \/ \E kind \in {"IS", "LIST", "SET", "CLEAR"}, i \in Identity :
          \E session \in Reads("session"), local \in Reads("local") : Call(kind, i, session, local)
    \/ \E i \in Identity : Flush(i)
    \/ AnswerIs \/ AnswerList \/ AnswerSet \/ AnswerClear
    \/ Restart \/ Tick

Spec == Init /\ [][Next]_vars

-----------------------------------------------------------------------------
(* Properties. *)

\* Types, and the two halves of the worker's memory agree: the order names each identity that is
\* held (heldWithoutStorage), once.
TypeOK ==
    /\ records \in [Store -> [Identity -> Time]]
    /\ marks \in [Store -> [Provider -> Time]] /\ markAll \in [Store -> Time]
    /\ held \in [Identity -> Time] /\ heldOrder \in Seq(Identity)
    /\ \A i \in Identity :
          Cardinality({n \in DOMAIN heldOrder : heldOrder[n] = i}) = IF held[i] = 0 THEN 0 ELSE 1
    /\ writable \in BOOLEAN /\ now \in 0..MaxTime
    /\ op \in [kind : {"none", "IS", "LIST", "SET", "CLEAR"}, id : Identity \cup {None},
               at : 0..MaxTime, read : [Store -> ReadState], todo : SUBSET Identity]
    /\ answer \in [kind : {"none", "IS", "LIST", "SET", "CLEAR"}, id : Identity \cup {None},
                   value : {"none", "clear", "quarantined", "unavailable", "listed", "done",
                            "refused"},
                   ids : SUBSET Identity]
    /\ kept \in [Identity -> Time] /\ named \in [Identity -> Time]
    /\ marked \in [Identity -> Time] /\ lowered \subseteq Identity

\* A verdict in force: made durable by name or by marker, or decided by the worker that lives.
Refused(i) == kept[i] > now \/ named[i] > now \/ marked[i] > now

\* An identity whose verdict is in force never reads clear, whatever the stores refused, when
\* the worker was stopped, and how full they are.  A verdict that only a marker stands for is
\* excepted once a later write has shortened that marker (see EveryVerdictStands).
VerdictStands ==
    answer.value = "clear" =>
        /\ named[answer.id] <= now
        /\ answer.id \in lowered \/ ~Refused(answer.id)

\* A list that is given holds every identity of its provider that is refused, except one only
\* the worker's memory refuses (see ListOmitsNothing) or whose marker was shortened.
ListIsWhole ==
    answer.value = "listed" =>
        \A i \in Identity :
            providerOf[i] = providerOf[answer.id] /\ Refused(i) /\ held[i] = 0 /\ i \notin lowered
            => i \in answer.ids

\* "Reporting success here would be a clear the very next read contradicts": when a clear is
\* acknowledged nothing is left, in any store or in memory, that refuses the identity.
ClearIsFinal ==
    answer.kind = "CLEAR" /\ answer.value = "done" =>
        /\ held[answer.id] = 0
        /\ \A st \in Store :
            /\ records[st][answer.id] <= now
            /\ marks[st][providerOf[answer.id]] <= now /\ markAll[st] <= now

\* No store is driven past its own format, which would make it unreadable for good.
WithinLimits ==
    \A st \in Store :
        /\ Cardinality({p \in Provider : NamesOf(st, p) # {}}) <= MaxProviders
        /\ \A p \in Provider : Cardinality(NamesOf(st, p)) <= MaxIdentities
        /\ Cardinality({p \in Provider : marks[st][p] # 0}) <= MaxProviders

-----------------------------------------------------------------------------
(* What the comments say and the code does not do. *)

\* "Silence is not evidence of absence": the marker standing for a verdict keeps its identity
\* from reading clear for as long as the verdict is in force.
EveryVerdictStands == answer.value = "clear" => ~Refused(answer.id)

\* "The flush above turns any hold into a record or a marker" before a list is given: a list
\* that is given has no verdict beside it that only the worker's memory holds.
ListOmitsNothing ==
    answer.value = "listed" =>
        \A i \in Identity :
            providerOf[i] = providerOf[answer.id] /\ held[i] > now => i \in answer.ids
=============================================================================
