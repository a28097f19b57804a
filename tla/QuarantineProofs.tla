-------------------------- MODULE QuarantineProofs --------------------------
(* Theorems about Quarantine, for every finite set of conversations and     *)
(* providers, every limit, lifetime and length of time: no store is driven  *)
(* past its own format, and what the authority answers is right whatever    *)
(* its stores refused.                                                      *)
EXTENDS Quarantine, FiniteSetTheorems, TLAPS

-----------------------------------------------------------------------------
(* The part of the type invariant the limits rest on. *)

StoresTyped == records \in [Store -> [Identity -> Nat]] /\ marks \in [Store -> [Provider -> Nat]]

MemoryTyped == held \in [Identity -> Nat] /\ now \in Nat

OpTyped ==
    /\ op.at \in Nat /\ op.todo \subseteq Identity
    /\ op.kind # "none" => op.id \in Identity

Typed == StoresTyped /\ MemoryTyped /\ OpTyped

(* What a step may do to the names and the markers of a store: lose some,   *)
(* or gain one that the limits were asked about.                            *)

RecordsChange(st) ==
    \/ \A j \in Identity : records'[st][j] # 0 => records[st][j] # 0
    \/ \E i \in Identity :
          /\ Fits(st, i)
          /\ \A j \in Identity \ {i} : records'[st][j] # 0 => records[st][j] # 0

MarksChange(st) ==
    \/ \A q \in Provider : marks'[st][q] # 0 => marks[st][q] # 0
    \/ \E p \in Provider :
          /\ Cardinality({q \in Provider : marks[st][q] # 0} \cup {p}) <= MaxProviders
          /\ \A q \in Provider \ {p} : marks'[st][q] # 0 => marks[st][q] # 0

StoresChange == \A st \in Store : RecordsChange(st) /\ MarksChange(st)

LEMMA InitTyped == Init => Typed
  BY DEF Init, Typed, StoresTyped, MemoryTyped, OpTyped, Idle

LEMMA UnchangedStores ==
  ASSUME UNCHANGED <<records, marks>>
  PROVE  StoresChange
  BY DEF StoresChange, RecordsChange, MarksChange

\* A verdict that is recorded went where there was room for it.
LEMMA RecordStep ==
  ASSUME Typed, NEW st \in Store, NEW i \in Identity, NEW until \in Nat, RecordIn(st, i, until)
  PROVE  StoresTyped' /\ StoresChange
<1>1. records' = [records EXCEPT ![st][i] = until] /\ UNCHANGED marks /\ Fits(st, i)
  BY DEF RecordIn
<1>2. StoresTyped'
  BY <1>1 DEF Typed, StoresTyped
<1>3. ASSUME NEW s \in Store PROVE RecordsChange(s)
  <2>1. CASE s = st
    <3>1. \A j \in Identity \ {i} : records'[s][j] = records[s][j]
      BY <1>1, <2>1 DEF Typed, StoresTyped
    <3> QED BY <3>1, <1>1, <2>1 DEF RecordsChange
  <2>2. CASE s # st
    BY <1>1, <2>2 DEF RecordsChange, Typed, StoresTyped
  <2> QED BY <2>1, <2>2
<1>4. \A s \in Store : MarksChange(s)
  BY <1>1 DEF MarksChange
<1> QED BY <1>2, <1>3, <1>4 DEF StoresChange

\* A marker is added only where the providers that have one stay within the limit.
LEMMA MarkStep ==
  ASSUME Typed, NEW st \in Store, NEW i \in Identity, NEW until \in Nat, MarkIn(st, i, until)
  PROVE  StoresTyped' /\ StoresChange
<1> DEFINE p    == providerOf[i]
           many == Cardinality({q \in Provider : marks[st][q] # 0} \cup {p}) > MaxProviders
<1>0. p \in Provider
  BY IdentityAssumption
<1>1. UNCHANGED records
  BY DEF MarkIn
<1>2. CASE many
  <2>1. UNCHANGED marks
    BY <1>2 DEF MarkIn
  <2> QED BY <1>1, <2>1, UnchangedStores DEF Typed, StoresTyped
<1>3. CASE ~many
  <2>1. marks' = [marks EXCEPT ![st][p] = until]
    BY <1>3 DEF MarkIn
  <2>2. StoresTyped'
    BY <1>0, <1>1, <2>1 DEF Typed, StoresTyped
  <2>3. Cardinality({q \in Provider : marks[st][q] # 0} \cup {p}) <= MaxProviders
    <3>1. IsFiniteSet({q \in Provider : marks[st][q] # 0} \cup {p})
      <4>1. {q \in Provider : marks[st][q] # 0} \cup {p} \subseteq Provider
        BY <1>0
      <4> QED BY <4>1, IdentityAssumption, FS_Subset
    <3>2. Cardinality({q \in Provider : marks[st][q] # 0} \cup {p}) \in Nat
      BY <3>1, FS_CardinalityType
    <3> QED BY <3>2, <1>3, LimitAssumption
  <2>4. ASSUME NEW s \in Store PROVE MarksChange(s)
    <3>1. CASE s = st
      <4>1. \A q \in Provider \ {p} : marks'[s][q] = marks[s][q]
        BY <2>1, <3>1, <1>0 DEF Typed, StoresTyped
      <4> QED BY <4>1, <2>3, <3>1, <1>0 DEF MarksChange
    <3>2. CASE s # st
      BY <2>1, <3>2 DEF MarksChange, Typed, StoresTyped
    <3> QED BY <3>1, <3>2
  <2>5. \A s \in Store : RecordsChange(s)
    BY <1>1 DEF RecordsChange
  <2> QED BY <2>2, <2>4, <2>5 DEF StoresChange
<1> QED BY <1>2, <1>3

LEMMA ReleaseTyped ==
  ASSUME Typed, NEW i, ReleaseHeld(i)
  PROVE  held' \in [Identity -> Nat]
  BY DEF ReleaseHeld, Typed, MemoryTyped

-----------------------------------------------------------------------------
(* One lemma per action. *)

\* Reading only loses what has expired.
LEMMA CallStep ==
  ASSUME Typed, NEW kind \in {"IS", "LIST", "SET", "CLEAR"}, NEW i \in Identity,
         NEW session \in Reads("session"), NEW local \in Reads("local"),
         Call(kind, i, session, local)
  PROVE  Typed' /\ StoresChange
<1> DEFINE r == [st \in Store |-> IF st = "session" THEN session ELSE local]
<1>1. /\ records' = [st \in Store |->
            IF r[st].answers /\ r[st].records THEN Compacted(records[st]) ELSE records[st]]
      /\ marks' = [st \in Store |->
            IF r[st].answers /\ r[st].marks THEN Compacted(marks[st]) ELSE marks[st]]
      /\ UNCHANGED <<held, now>>
  BY DEF Call, memory
<1>2. op'.at = now /\ op'.id = i /\ op'.todo \subseteq Identity
  BY DEF Call
<1>3. ASSUME NEW st \in Store
      PROVE  /\ Compacted(records[st]) \in [Identity -> Nat]
             /\ \A j \in Identity : Compacted(records[st])[j] # 0 => records[st][j] # 0
             /\ Compacted(marks[st]) \in [Provider -> Nat]
             /\ \A q \in Provider : Compacted(marks[st])[q] # 0 => marks[st][q] # 0
  BY DEF Compacted, Typed, StoresTyped
<1>4. StoresTyped'
  <2> HIDE DEF r
  <2> QED BY <1>1, <1>3 DEF Typed, StoresTyped
<1>5. ASSUME NEW st \in Store PROVE RecordsChange(st) /\ MarksChange(st)
  <2>1. \A j \in Identity : records'[st][j] # 0 => records[st][j] # 0
    <3> HIDE DEF r
    <3> QED BY <1>1, <1>3
  <2>2. \A q \in Provider : marks'[st][q] # 0 => marks[st][q] # 0
    <3> HIDE DEF r
    <3> QED BY <1>1, <1>3
  <2> QED BY <2>1, <2>2 DEF RecordsChange, MarksChange
<1>6. Typed'
  BY <1>1, <1>2, <1>4 DEF Typed, MemoryTyped, OpTyped
<1> QED BY <1>5, <1>6 DEF StoresChange

LEMMA FlushStep ==
  ASSUME Typed, NEW i \in Identity, Flush(i)
  PROVE  Typed' /\ StoresChange
<1>1. op' = [op EXCEPT !.todo = @ \ {i}] /\ UNCHANGED now
  BY DEF Flush
<1>2. OpTyped'
  BY <1>1 DEF Typed, OpTyped
<1>3. CASE ReleaseHeld(i) /\ UNCHANGED stores
  BY <1>1, <1>2, <1>3, ReleaseTyped, UnchangedStores DEF stores, Typed, StoresTyped, MemoryTyped
<1>4. ASSUME NEW st \in Store, RecordIn(st, i, held[i]) \/ MarkIn(st, i, held[i]), ReleaseHeld(i)
      PROVE  Typed' /\ StoresChange
  <2>1. held[i] \in Nat
    BY DEF Typed, MemoryTyped
  <2>2. StoresTyped' /\ StoresChange
    BY <1>4, <2>1, RecordStep, MarkStep
  <2> QED BY <1>1, <1>2, <1>4, <2>2, ReleaseTyped DEF Typed, MemoryTyped
<1>5. CASE PersistFails /\ UNCHANGED memory
  BY <1>1, <1>2, <1>5, UnchangedStores
     DEF PersistFails, stores, memory, Typed, StoresTyped, MemoryTyped
<1> QED BY <1>3, <1>4, <1>5 DEF Flush

LEMMA IdleTyped == op' = Idle => OpTyped'
  BY DEF OpTyped, Idle

\* What an answer that writes nothing but the probe does.
LEMMA ReadOnlyStep ==
  ASSUME Typed, op' = Idle, UNCHANGED <<stores, memory, now>>
  PROVE  Typed' /\ StoresChange
  BY IdleTyped, UnchangedStores DEF stores, memory, Typed, StoresTyped, MemoryTyped

LEMMA AnswerSetStep ==
  ASSUME Typed, AnswerSet
  PROVE  Typed' /\ StoresChange
<1> DEFINE i == op.id
           until == op.at + Lifetime
<1>1. i \in Identity /\ until \in Nat
  BY LimitAssumption DEF AnswerSet, Ready, Typed, OpTyped
<1>2. op' = Idle /\ UNCHANGED now
  BY DEF AnswerSet, Answer
<1>3. ASSUME NEW st \in Store, RecordIn(st, i, until) \/ MarkIn(st, i, until), ReleaseHeld(i)
      PROVE  Typed' /\ StoresChange
  <2>1. StoresTyped' /\ StoresChange
    BY <1>1, <1>3, RecordStep, MarkStep
  <2> QED BY <1>2, <1>3, <2>1, ReleaseTyped, IdleTyped DEF Typed, MemoryTyped
<1>4. CASE PersistFails /\ Hold(i, until)
  BY <1>1, <1>2, <1>4, UnchangedStores, IdleTyped
     DEF PersistFails, Hold, stores, Typed, StoresTyped, MemoryTyped
<1> QED BY <1>3, <1>4 DEF AnswerSet

\* A clear removes one name from the stores that let go of it.
LEMMA AnswerClearStep ==
  ASSUME Typed, AnswerClear
  PROVE  Typed' /\ StoresChange
<1> DEFINE i == op.id
<1>1. PICK removed \in SUBSET Store, proven \in BOOLEAN :
        /\ records' = [st \in Store |->
              IF st \in removed THEN [records[st] EXCEPT ![i] = 0] ELSE records[st]]
        /\ \/ ReleaseHeld(i) /\ op' = Idle
           \/ op' = Idle /\ UNCHANGED memory
  BY DEF AnswerClear, Answer
<1>2. UNCHANGED <<marks, now>>
  BY DEF AnswerClear
<1>3. held' \in [Identity -> Nat]
  BY <1>1, ReleaseTyped DEF memory, Typed, MemoryTyped
<1>4. \A st \in Store : \A j \in Identity : records'[st][j] # 0 => records[st][j] # 0
  BY <1>1 DEF Typed, StoresTyped
<1>5. StoresTyped'
  BY <1>1, <1>2 DEF Typed, StoresTyped
<1>6. StoresChange
  BY <1>2, <1>4 DEF StoresChange, RecordsChange, MarksChange
<1> QED BY <1>1, <1>2, <1>3, <1>5, <1>6, IdleTyped DEF Typed, MemoryTyped

LEMMA Step == Typed /\ [Next]_vars => Typed' /\ StoresChange
<1> SUFFICES ASSUME Typed, [Next]_vars PROVE Typed' /\ StoresChange
  OBVIOUS
<1>1. ASSUME NEW kind \in {"IS", "LIST", "SET", "CLEAR"}, NEW i \in Identity,
             NEW session \in Reads("session"), NEW local \in Reads("local"),
             Call(kind, i, session, local)
      PROVE  Typed' /\ StoresChange
  BY <1>1, CallStep
<1>2. ASSUME NEW i \in Identity, Flush(i) PROVE Typed' /\ StoresChange
  BY <1>2, FlushStep
<1>3. CASE AnswerIs
  BY <1>3, ReadOnlyStep DEF AnswerIs, Answer
<1>4. CASE AnswerList
  BY <1>4, ReadOnlyStep DEF AnswerList, Answer
<1>5. CASE AnswerSet
  BY <1>5, AnswerSetStep
<1>6. CASE AnswerClear
  BY <1>6, AnswerClearStep
<1>7. CASE Restart
  <2>1. op' = Idle /\ held' = [i \in Identity |-> 0] /\ UNCHANGED <<records, marks, now>>
    BY <1>7 DEF Restart, stores
  <2> QED BY <2>1, IdleTyped, UnchangedStores DEF Typed, StoresTyped, MemoryTyped
<1>8. CASE Tick
  BY <1>8, UnchangedStores DEF Tick, stores, memory, Typed, StoresTyped, MemoryTyped, OpTyped
<1>9. CASE UNCHANGED vars
  BY <1>9, UnchangedStores DEF vars, stores, memory, Typed, StoresTyped, MemoryTyped, OpTyped
<1> QED BY <1>1, <1>2, <1>3, <1>4, <1>5, <1>6, <1>7, <1>8, <1>9 DEF Next

-----------------------------------------------------------------------------
(* The limits. *)

LEMMA Finite ==
  /\ \A S \in SUBSET Identity : IsFiniteSet(S) /\ Cardinality(S) \in Nat
  /\ \A S \in SUBSET Provider : IsFiniteSet(S) /\ Cardinality(S) \in Nat
  BY IdentityAssumption, FS_Subset, FS_CardinalityType

\* A part of a set that is within a limit is within it.
LEMMA Smaller ==
  ASSUME NEW T, IsFiniteSet(T), NEW S \in SUBSET T, NEW limit \in Nat, Cardinality(T) <= limit
  PROVE  Cardinality(S) <= limit
<1>1. Cardinality(T) \in Nat /\ Cardinality(S) <= Cardinality(T) /\ IsFiniteSet(S)
  BY FS_Subset, FS_CardinalityType
<1>2. Cardinality(S) \in Nat
  BY <1>1, FS_CardinalityType
<1> QED BY <1>1, <1>2

LEMMA InitLimits == Init => WithinLimits
<1> SUFFICES ASSUME Init, NEW st \in Store
             PROVE  /\ Cardinality({p \in Provider : NamesOf(st, p) # {}}) <= MaxProviders
                    /\ \A p \in Provider : Cardinality(NamesOf(st, p)) <= MaxIdentities
                    /\ Cardinality({p \in Provider : marks[st][p] # 0}) <= MaxProviders
  BY DEF WithinLimits
<1>1. \A p \in Provider : NamesOf(st, p) = {}
  BY DEF Init, NamesOf
<1>2. {p \in Provider : NamesOf(st, p) # {}} = {} /\ {p \in Provider : marks[st][p] # 0} = {}
  BY <1>1 DEF Init
<1>3. Cardinality({}) = 0
  BY FS_EmptySet
<1>4. 0 <= MaxProviders /\ 0 <= MaxIdentities
  BY LimitAssumption
<1>5. \A p \in Provider : Cardinality(NamesOf(st, p)) <= MaxIdentities
  BY <1>1, <1>3, <1>4
<1>6. /\ Cardinality({p \in Provider : NamesOf(st, p) # {}}) <= MaxProviders
      /\ Cardinality({p \in Provider : marks[st][p] # 0}) <= MaxProviders
  BY <1>2, <1>3, <1>4
<1> QED BY <1>5, <1>6

LEMMA LimitsStep ==
  ASSUME WithinLimits, StoresChange
  PROVE  WithinLimits'
<1> SUFFICES ASSUME NEW st \in Store
             PROVE  /\ Cardinality({p \in Provider : NamesOf(st, p)' # {}}) <= MaxProviders
                    /\ \A p \in Provider : Cardinality(NamesOf(st, p)') <= MaxIdentities
                    /\ Cardinality({p \in Provider : marks'[st][p] # 0}) <= MaxProviders
  BY DEF WithinLimits
<1> DEFINE Named(p)  == NamesOf(st, p)
           Naming    == {q \in Provider : Named(q) # {}}
           Marked    == {q \in Provider : marks[st][q] # 0}
<1>0. /\ Cardinality(Naming) <= MaxProviders
      /\ \A p \in Provider : Cardinality(Named(p)) <= MaxIdentities
      /\ Cardinality(Marked) <= MaxProviders
  BY DEF WithinLimits
<1>1. MaxProviders \in Nat /\ MaxIdentities \in Nat
  BY LimitAssumption
<1>2. ASSUME \A j \in Identity : records'[st][j] # 0 => records[st][j] # 0
      PROVE  /\ Cardinality({p \in Provider : NamesOf(st, p)' # {}}) <= MaxProviders
             /\ \A p \in Provider : Cardinality(NamesOf(st, p)') <= MaxIdentities
  <2>1. \A p \in Provider : NamesOf(st, p)' \subseteq Named(p) /\ Named(p) \subseteq Identity
    BY <1>2 DEF NamesOf
  <2>2. {p \in Provider : NamesOf(st, p)' # {}} \subseteq Naming
    BY <2>1
  <2>3. Cardinality({p \in Provider : NamesOf(st, p)' # {}}) <= MaxProviders
    <3> HIDE DEF Naming
    <3>1. IsFiniteSet(Naming)
      BY Finite DEF Naming
    <3> QED BY <3>1, <2>2, <1>0, <1>1, Smaller
  <2>4. ASSUME NEW p \in Provider PROVE Cardinality(NamesOf(st, p)') <= MaxIdentities
    <3>1. IsFiniteSet(Named(p))
      BY <2>1, Finite
    <3> HIDE DEF Named
    <3> QED BY <3>1, <2>1, <1>0, <1>1, Smaller
  <2> QED BY <2>3, <2>4
<1>3. ASSUME NEW i \in Identity, Fits(st, i),
             \A j \in Identity \ {i} : records'[st][j] # 0 => records[st][j] # 0
      PROVE  /\ Cardinality({p \in Provider : NamesOf(st, p)' # {}}) <= MaxProviders
             /\ \A p \in Provider : Cardinality(NamesOf(st, p)') <= MaxIdentities
  <2> DEFINE own == providerOf[i]
  <2>0. own \in Provider
    BY IdentityAssumption
  <2>1. \A p \in Provider : p # own => NamesOf(st, p)' \subseteq Named(p)
    BY <1>3 DEF NamesOf
  <2>2. NamesOf(st, own)' \subseteq Named(own) \cup {i}
    BY <1>3 DEF NamesOf
  <2>3. Cardinality(Naming \cup {own}) <= MaxProviders /\ Cardinality(Named(own) \cup {i}) <= MaxIdentities
    BY <1>3 DEF Fits
  <2>4. \A p \in Provider : Named(p) \subseteq Identity
    BY DEF NamesOf
  <2>5. {p \in Provider : NamesOf(st, p)' # {}} \subseteq Naming \cup {own}
    BY <2>1
  <2>6. IsFiniteSet(Naming \cup {own})
    <3>1. Naming \cup {own} \subseteq Provider
      BY <2>0
    <3> HIDE DEF Naming, own
    <3> QED BY <3>1, Finite
  <2>7. Cardinality({p \in Provider : NamesOf(st, p)' # {}}) <= MaxProviders
    <3> HIDE DEF Naming, own
    <3> QED BY <2>3, <2>5, <2>6, <1>1, Smaller
  <2>8. ASSUME NEW p \in Provider PROVE Cardinality(NamesOf(st, p)') <= MaxIdentities
    <3>1. CASE p = own
      <4>1. IsFiniteSet(Named(own) \cup {i})
        <5>1. Named(own) \cup {i} \subseteq Identity
          BY <2>0, <2>4
        <5> HIDE DEF Named, own
        <5> QED BY <5>1, Finite
      <4>2. NamesOf(st, p)' \subseteq Named(own) \cup {i}
        BY <2>2, <3>1
      <4> HIDE DEF Named, own
      <4> QED BY <4>1, <4>2, <2>3, <1>1, Smaller
    <3>2. CASE p # own
      <4>1. IsFiniteSet(Named(p)) /\ NamesOf(st, p)' \subseteq Named(p)
        BY <2>1, <2>4, <3>2, Finite
      <4> HIDE DEF Named
      <4> QED BY <4>1, <1>0, <1>1, Smaller
    <3> QED BY <3>1, <3>2
  <2> QED BY <2>7, <2>8
<1>4. Cardinality({p \in Provider : marks'[st][p] # 0}) <= MaxProviders
  <2>1. CASE \A q \in Provider : marks'[st][q] # 0 => marks[st][q] # 0
    <3>1. {p \in Provider : marks'[st][p] # 0} \subseteq Marked /\ IsFiniteSet(Marked)
      BY <2>1, Finite
    <3> HIDE DEF Marked
    <3> QED BY <3>1, <1>0, <1>1, Smaller
  <2>2. ASSUME NEW p \in Provider, Cardinality(Marked \cup {p}) <= MaxProviders,
               \A q \in Provider \ {p} : marks'[st][q] # 0 => marks[st][q] # 0
        PROVE  Cardinality({q \in Provider : marks'[st][q] # 0}) <= MaxProviders
    <3>1. {q \in Provider : marks'[st][q] # 0} \subseteq Marked \cup {p}
      BY <2>2
    <3>2. IsFiniteSet(Marked \cup {p})
      <4>1. Marked \cup {p} \subseteq Provider
        OBVIOUS
      <4> HIDE DEF Marked
      <4> QED BY <4>1, Finite
    <3> HIDE DEF Marked
    <3> QED BY <3>1, <3>2, <2>2, <1>1, Smaller
  <2> QED BY <2>1, <2>2 DEF StoresChange, MarksChange
<1> QED BY <1>2, <1>3, <1>4 DEF StoresChange, RecordsChange

\* No store of the authority is ever driven past the format its own parser accepts
\* (recordInStore, markOverflow), whatever fails and however many conversations there are.
THEOREM AlwaysWithinLimits == Spec => []WithinLimits
<1>1. Init => Typed /\ WithinLimits
  BY InitTyped, InitLimits
<1>2. Typed /\ WithinLimits /\ [Next]_vars => (Typed /\ WithinLimits)'
  BY Step, LimitsStep
<1> QED BY <1>1, <1>2, PTL DEF Spec
-----------------------------------------------------------------------------
(* What the answers rest on: where the verdict in force of each identity    *)
(* still is.                                                                *)

HistoryTyped ==
    /\ markAll \in [Store -> Nat]
    /\ kept \in [Identity -> Nat] /\ named \in [Identity -> Nat] /\ marked \in [Identity -> Nat]

\* A call acts on a time that has come, and has not answered yet.
CallInv ==
    /\ op.at <= now /\ (op.kind = "none" => op.todo = {})
    /\ op.kind # "none" => answer = NoAnswer

\* The latest moment at which a verdict can have been made.
Clock == IF op.kind = "none" THEN now ELSE op.at

\* What is held is the latest verdict, and no verdict outlives its lifetime.
LatestInv ==
    \A i \in Identity :
        /\ held[i] <= Clock + Lifetime /\ named[i] <= Clock + Lifetime
        /\ held[i] # 0 => named[i] <= held[i]

KeptInv == \A i \in Identity : kept[i] > now => held[i] = kept[i]

NamedInv == \A i \in Identity : named[i] > now => \E st \in Store : records[st][i] >= named[i]

MarkedInv ==
    \A i \in Identity \ lowered : marked[i] > now =>
        \E st \in Store : marks[st][providerOf[i]] >= marked[i] \/ markAll[st] >= marked[i]

Backed == Typed /\ HistoryTyped /\ CallInv /\ LatestInv /\ KeptInv /\ NamedInv /\ MarkedInv

LEMMA InitBacked == Init => Backed
<1> SUFFICES ASSUME Init PROVE Backed
  OBVIOUS
<1>1. Typed
  BY InitTyped
<1>2. HistoryTyped /\ KeptInv /\ NamedInv /\ MarkedInv
  BY DEF Init, HistoryTyped, KeptInv, NamedInv, MarkedInv
<1>3. CallInv /\ LatestInv
  BY LimitAssumption DEF Init, CallInv, LatestInv, Clock, Idle
<1> QED BY <1>1, <1>2, <1>3 DEF Backed

\* A verdict recorded by name is the latest of its identity.
LEMMA RecordBacks ==
  ASSUME Typed, HistoryTyped, NamedInv, MarkedInv, NEW st \in Store, NEW i \in Identity, NEW until \in Nat,
         RecordIn(st, i, until), named[i] <= until, UNCHANGED now
  PROVE  /\ markAll' \in [Store -> Nat] /\ named' \in [Identity -> Nat] /\ marked' \in [Identity -> Nat]
         /\ named' = [named EXCEPT ![i] = until]
         /\ NamedInv' /\ MarkedInv'
<1>1. /\ records' = [records EXCEPT ![st][i] = until] /\ named' = [named EXCEPT ![i] = Later(@, until)]
      /\ UNCHANGED <<marks, markAll, marked, lowered>>
  BY DEF RecordIn
<1>2. Later(named[i], until) = until
  BY DEF Later, HistoryTyped
<1>3. named' = [named EXCEPT ![i] = until]
  BY <1>1, <1>2
<1>4. /\ records'[st][i] = until
      /\ \A s \in Store, j \in Identity : s # st \/ j # i => records'[s][j] = records[s][j]
  BY <1>1 DEF Typed, StoresTyped
<1>5. NamedInv'
  <2> SUFFICES ASSUME NEW j \in Identity, named'[j] > now PROVE \E s \in Store : records'[s][j] >= named'[j]
    BY DEF NamedInv
  <2>1. CASE j = i
    <3>1. records'[st][j] >= named'[j]
      BY <1>3, <1>4, <2>1 DEF HistoryTyped
    <3> QED BY <3>1
  <2>2. CASE j # i
    <3>1. named'[j] = named[j]
      BY <1>3, <2>2 DEF HistoryTyped
    <3> QED BY <1>4, <2>2, <3>1 DEF NamedInv
  <2> QED BY <2>1, <2>2
<1>6. MarkedInv'
  BY <1>1 DEF MarkedInv
<1> QED BY <1>1, <1>3, <1>5, <1>6 DEF HistoryTyped

\* A marker stands for every identity of its provider it does not shorten.
LEMMA MarkBacks ==
  ASSUME Typed, HistoryTyped, NamedInv, MarkedInv, NEW st \in Store, NEW i \in Identity, NEW until \in Nat,
         MarkIn(st, i, until), UNCHANGED now
  PROVE  /\ markAll' \in [Store -> Nat] /\ named' \in [Identity -> Nat] /\ marked' \in [Identity -> Nat]
         /\ named' = named
         /\ NamedInv' /\ MarkedInv'
<1> DEFINE p == providerOf[i]
<1>0. p \in Provider /\ \A j \in Identity : providerOf[j] \in Provider
  BY IdentityAssumption
<1>1. marked' = [marked EXCEPT ![i] = Later(@, until)] /\ UNCHANGED <<records, named>>
  BY DEF MarkIn
<1>2. \A a, b \in Nat : Later(a, b) \in Nat /\ Later(a, b) >= a /\ Later(a, b) >= b /\ Later(a, b) \in {a, b}
  BY DEF Later
<1>3. marked' \in [Identity -> Nat] /\ NamedInv'
  BY <1>1, <1>2 DEF HistoryTyped, NamedInv
<1>4. /\ marked'[i] \in {marked[i], until} /\ marked'[i] >= marked[i] /\ marked'[i] >= until
      /\ \A j \in Identity \ {i} : marked'[j] = marked[j]
  BY <1>1, <1>2 DEF HistoryTyped
<1>5. CASE /\ markAll' = [markAll EXCEPT ![st] = Later(@, until)]
           /\ UNCHANGED <<marks, lowered>>
  <2>1. /\ markAll' \in [Store -> Nat] /\ markAll'[st] >= until
        /\ \A s \in Store : markAll'[s] >= markAll[s]
    BY <1>2, <1>5 DEF HistoryTyped
  <2>2. MarkedInv'
    <3> SUFFICES ASSUME NEW j \in Identity \ lowered, marked'[j] > now
                 PROVE  \E s \in Store : marks[s][providerOf[j]] >= marked'[j] \/ markAll'[s] >= marked'[j]
      BY <1>5 DEF MarkedInv
    <3>1. CASE marked'[j] = marked[j]
      <4>1. PICK s \in Store : marks[s][providerOf[j]] >= marked[j] \/ markAll[s] >= marked[j]
        BY <3>1 DEF MarkedInv
      <4>2. markAll'[s] >= markAll[s] /\ markAll'[s] \in Nat /\ markAll[s] \in Nat /\ marked[j] \in Nat
        BY <2>1 DEF HistoryTyped
      <4> QED BY <3>1, <4>1, <4>2
    <3>2. CASE j = i /\ marked'[j] = until
      BY <2>1, <3>2
    <3> QED BY <1>4, <3>1, <3>2
  <2> QED BY <1>1, <1>3, <2>1, <2>2 DEF HistoryTyped
<1>6. CASE /\ marks' = [marks EXCEPT ![st][p] = until]
           /\ lowered' = lowered \cup {j \in Identity : providerOf[j] = p /\ marked[j] > until}
           /\ UNCHANGED markAll
  <2>1. /\ marks'[st][p] = until
        /\ \A s \in Store, q \in Provider : s # st \/ q # p => marks'[s][q] = marks[s][q]
    BY <1>0, <1>6 DEF Typed, StoresTyped
  <2>2. MarkedInv'
    <3> SUFFICES ASSUME NEW j \in Identity \ lowered', marked'[j] > now
                 PROVE  \E s \in Store : marks'[s][providerOf[j]] >= marked'[j] \/ markAll[s] >= marked'[j]
      BY <1>6 DEF MarkedInv
    <3>0. j \notin lowered
      BY <1>6
    <3>1. CASE providerOf[j] = p
      <4>1. marked[j] <= until
        BY <1>6, <3>1 DEF HistoryTyped
      <4>2. marked'[j] <= until
        BY <1>4, <4>1
      <4> QED BY <2>1, <3>1, <4>2, <1>3
    <3>2. CASE providerOf[j] # p
      <4>1. marked'[j] = marked[j]
        BY <1>4, <3>2
      <4> QED BY <1>0, <2>1, <3>0, <3>2, <4>1 DEF MarkedInv
    <3> QED BY <3>1, <3>2
  <2> QED BY <1>1, <1>3, <1>6, <2>2 DEF HistoryTyped
<1> QED BY <1>5, <1>6 DEF MarkIn

\* A step during a call or after it leaves the clock or moves it on.
LEMMA ClockMoves ==
  ASSUME Backed, op'.kind = "none" \/ (op'.kind = op.kind /\ op'.at = op.at) \/ op'.at = now,
         now' \in Nat, now <= now'
  PROVE  Clock \in Nat /\ Clock' \in Nat /\ Clock <= Clock'
  BY DEF Clock, Backed, Typed, MemoryTyped, OpTyped, CallInv

LEMMA CallBacked ==
  ASSUME Backed, NEW kind \in {"IS", "LIST", "SET", "CLEAR"}, NEW i \in Identity,
         NEW session \in Reads("session"), NEW local \in Reads("local"),
         Call(kind, i, session, local)
  PROVE  Backed'
<1> DEFINE r == [st \in Store |-> IF st = "session" THEN session ELSE local]
<1>1. Typed'
  BY CallStep DEF Backed
<1>2. UNCHANGED <<held, now, kept, named, marked, lowered>> /\ answer' = NoAnswer /\ op'.at = now /\ op'.kind # "none"
  BY DEF Call, memory, history
<1>3. /\ records' = [st \in Store |->
            IF r[st].answers /\ r[st].records THEN Compacted(records[st]) ELSE records[st]]
      /\ marks' = [st \in Store |->
            IF r[st].answers /\ r[st].marks THEN Compacted(marks[st]) ELSE marks[st]]
      /\ markAll' = [st \in Store |->
            IF r[st].answers /\ r[st].marks /\ Stale(markAll[st]) THEN 0 ELSE markAll[st]]
  BY DEF Call
<1>4. ASSUME NEW st \in Store
      PROVE  /\ \A j \in Identity : Compacted(records[st])[j] = records[st][j] \/ records[st][j] <= now
             /\ \A q \in Provider : Compacted(marks[st])[q] = marks[st][q] \/ marks[st][q] <= now
             /\ ~Stale(markAll[st]) \/ markAll[st] <= now
  BY DEF Compacted, Stale, Backed, Typed, StoresTyped
<1> HIDE DEF r
<1>5. \A st \in Store : /\ \A j \in Identity : records'[st][j] = records[st][j] \/ records[st][j] <= now
                        /\ \A q \in Provider : marks'[st][q] = marks[st][q] \/ marks[st][q] <= now
                        /\ markAll'[st] = markAll[st] \/ markAll[st] <= now
  BY <1>3, <1>4
<1>6. HistoryTyped'
  BY <1>2, <1>3 DEF Backed, HistoryTyped
<1>7. NamedInv'
  <2> SUFFICES ASSUME NEW j \in Identity, named[j] > now PROVE \E st \in Store : records'[st][j] >= named[j]
    BY <1>2 DEF NamedInv
  <2>1. PICK st \in Store : records[st][j] >= named[j]
    BY DEF Backed, NamedInv
  <2>2. records[st][j] \in Nat /\ named[j] \in Nat /\ now \in Nat
    BY DEF Backed, Typed, StoresTyped, MemoryTyped, HistoryTyped
  <2> QED BY <1>5, <2>1, <2>2
<1>8. MarkedInv'
  <2> SUFFICES ASSUME NEW j \in Identity \ lowered, marked[j] > now
               PROVE  \E st \in Store : marks'[st][providerOf[j]] >= marked[j] \/ markAll'[st] >= marked[j]
    BY <1>2 DEF MarkedInv
  <2>1. PICK st \in Store : marks[st][providerOf[j]] >= marked[j] \/ markAll[st] >= marked[j]
    BY DEF Backed, MarkedInv
  <2>2. /\ providerOf[j] \in Provider /\ marks[st][providerOf[j]] \in Nat /\ markAll[st] \in Nat
        /\ marked[j] \in Nat /\ now \in Nat
    BY IdentityAssumption DEF Backed, Typed, StoresTyped, MemoryTyped, HistoryTyped
  <2> QED BY <1>5, <2>1, <2>2
<1>9. CallInv'
  BY <1>2 DEF CallInv, Backed, Typed, MemoryTyped
<1>10. LatestInv' /\ KeptInv'
  <2>1. Clock' = Clock
    BY <1>2 DEF Clock, Call
  <2> QED BY <1>2, <2>1 DEF Backed, LatestInv, KeptInv
<1> QED BY <1>1, <1>6, <1>7, <1>8, <1>9, <1>10 DEF Backed

LEMMA FlushBacked ==
  ASSUME Backed, NEW i \in Identity, Flush(i)
  PROVE  Backed'
<1>1. Typed'
  BY FlushStep DEF Backed
<1>2. /\ op' = [op EXCEPT !.todo = @ \ {i}] /\ op.kind # "none" /\ UNCHANGED <<answer, now>>
      /\ op'.kind = op.kind /\ op'.at = op.at
  BY DEF Flush, Backed, CallInv
<1>3. CallInv' /\ Clock' = Clock
  BY <1>2 DEF CallInv, Clock, Backed
<1>4. /\ held \in [Identity -> Nat] /\ now \in Nat /\ op.at \in Nat /\ op.at <= now /\ held[i] \in Nat
      /\ kept \in [Identity -> Nat] /\ named \in [Identity -> Nat]
  BY DEF Backed, Typed, MemoryTyped, OpTyped, CallInv, HistoryTyped
<1>5. CASE held[i] <= op.at /\ ReleaseHeld(i) /\ UNCHANGED <<stores, history>>
  <2>1. held' = [held EXCEPT ![i] = 0]
    BY <1>5 DEF ReleaseHeld
  <2>2. UNCHANGED <<records, marks, markAll, kept, named, marked, lowered, now>>
    BY <1>2, <1>5 DEF stores, history
  <2>3. HistoryTyped' /\ NamedInv' /\ MarkedInv'
    BY <2>2 DEF Backed, HistoryTyped, NamedInv, MarkedInv
  <2>4. KeptInv'
    <3> SUFFICES ASSUME NEW j \in Identity, kept[j] > now PROVE held'[j] = kept[j]
      BY <2>2 DEF KeptInv
    <3>1. held[j] = kept[j]
      BY DEF Backed, KeptInv
    <3>2. j # i
      BY <1>4, <1>5, <3>1
    <3> QED BY <1>4, <2>1, <3>1, <3>2
  <2>5. LatestInv'
    <3> SUFFICES ASSUME NEW j \in Identity
                 PROVE  /\ held'[j] <= Clock + Lifetime /\ named[j] <= Clock + Lifetime
                        /\ held'[j] # 0 => named[j] <= held'[j]
      BY <1>3, <2>2 DEF LatestInv
    <3>1. Clock \in Nat /\ Lifetime \in Nat /\ held'[j] \in {0, held[j]}
      BY <1>4, <2>1, LimitAssumption DEF Clock
    <3> QED BY <3>1 DEF Backed, LatestInv
  <2> QED BY <1>1, <1>3, <2>3, <2>4, <2>5 DEF Backed
<1>6. ASSUME held[i] > op.at, NEW st \in Store, RecordIn(st, i, held[i]) \/ MarkIn(st, i, held[i]),
             ReleaseHeld(i), kept' = [kept EXCEPT ![i] = 0]
      PROVE  Backed'
  <2>1. held' = [held EXCEPT ![i] = 0]
    BY <1>6 DEF ReleaseHeld
  <2>2. named[i] <= held[i]
    BY <1>4, <1>6 DEF Backed, LatestInv
  <2>3. /\ markAll' \in [Store -> Nat] /\ named' \in [Identity -> Nat] /\ marked' \in [Identity -> Nat]
        /\ named' = named \/ named' = [named EXCEPT ![i] = held[i]]
        /\ NamedInv' /\ MarkedInv'
    BY <1>2, <1>4, <1>6, <2>2, RecordBacks, MarkBacks DEF Backed
  <2>4. HistoryTyped' /\ KeptInv'
    BY <1>2, <1>4, <1>6, <2>1, <2>3 DEF Backed, HistoryTyped, KeptInv
  <2>5. LatestInv'
    <3> SUFFICES ASSUME NEW j \in Identity
                 PROVE  /\ held'[j] <= Clock + Lifetime /\ named'[j] <= Clock + Lifetime
                        /\ held'[j] # 0 => named'[j] <= held'[j]
      BY <1>3 DEF LatestInv
    <3>1. /\ held[j] <= Clock + Lifetime /\ named[j] <= Clock + Lifetime
          /\ held[j] # 0 => named[j] <= held[j]
      BY DEF Backed, LatestInv
    <3>2. Clock \in Nat /\ Lifetime \in Nat
      BY <1>4, LimitAssumption DEF Clock
    <3>3. CASE j = i
      <4>1. held'[j] = 0 /\ named'[j] \in {named[j], held[i]}
        BY <1>4, <2>1, <2>3, <3>3
      <4> QED BY <3>1, <3>2, <3>3, <4>1
    <3>4. CASE j # i
      <4>1. held'[j] = held[j] /\ named'[j] = named[j]
        BY <1>4, <2>1, <2>3, <3>4
      <4> QED BY <3>1, <4>1
    <3> QED BY <3>3, <3>4
  <2> QED BY <1>1, <1>3, <2>3, <2>4, <2>5 DEF Backed
<1>7. CASE PersistFails /\ UNCHANGED <<memory, kept>>
  <2>1. UNCHANGED <<records, marks, markAll, kept, named, marked, lowered, held, now>>
    BY <1>2, <1>7 DEF PersistFails, stores, memory
  <2>2. HistoryTyped' /\ NamedInv' /\ MarkedInv' /\ KeptInv' /\ LatestInv'
    BY <1>3, <2>1 DEF Backed, HistoryTyped, NamedInv, MarkedInv, KeptInv, LatestInv
  <2> QED BY <1>1, <1>3, <2>2 DEF Backed
<1> QED BY <1>5, <1>6, <1>7 DEF Flush

LEMMA IdleCall == op' = Idle /\ now \in Nat /\ UNCHANGED now => CallInv' /\ Clock' = now
  BY DEF CallInv, Clock, Idle

\* An answer that writes nothing but the probe.
LEMMA ReadOnlyBacked ==
  ASSUME Backed, op' = Idle, UNCHANGED <<stores, memory, now, history>>
  PROVE  Backed'
<1>1. Typed'
  BY ReadOnlyStep DEF Backed
<1>2. UNCHANGED <<records, marks, markAll, kept, named, marked, lowered, held, now>>
  BY DEF stores, memory, history
<1>3. HistoryTyped' /\ NamedInv' /\ MarkedInv' /\ KeptInv'
  BY <1>2 DEF Backed, HistoryTyped, NamedInv, MarkedInv, KeptInv
<1>4. CallInv' /\ Clock' = now /\ Clock <= now /\ Clock \in Nat /\ now \in Nat
  BY IdleCall DEF Backed, Typed, MemoryTyped, OpTyped, CallInv, Clock
<1>5. LatestInv'
  <2>1. \A j \in Identity : held[j] \in Nat /\ named[j] \in Nat
    BY DEF Backed, Typed, MemoryTyped, HistoryTyped
  <2> QED BY <1>2, <1>4, <2>1, LimitAssumption DEF Backed, LatestInv
<1> QED BY <1>1, <1>3, <1>4, <1>5 DEF Backed

LEMMA AnswerSetBacked ==
  ASSUME Backed, AnswerSet
  PROVE  Backed'
<1> DEFINE i == op.id
           until == op.at + Lifetime
<1>1. Typed'
  BY AnswerSetStep DEF Backed
<1>2. /\ op' = Idle /\ UNCHANGED now /\ op.kind = "SET"
      /\ held \in [Identity -> Nat] /\ now \in Nat /\ op.at \in Nat /\ op.at <= now /\ Clock = op.at
      /\ kept \in [Identity -> Nat] /\ named \in [Identity -> Nat] /\ Lifetime \in Nat
  BY LimitAssumption DEF AnswerSet, Answer, Ready, Backed, Typed, MemoryTyped, OpTyped, CallInv, HistoryTyped, Clock
<1>3. i \in Identity /\ until \in Nat
  BY <1>2 DEF Backed, Typed, OpTyped
<1>4. CallInv' /\ Clock' = now
  BY <1>2, IdleCall
<1>5. \A j \in Identity : /\ held[j] <= until /\ named[j] <= until
                          /\ held[j] # 0 => named[j] <= held[j]
  BY <1>2 DEF Backed, LatestInv
<1>6. ASSUME NEW st \in Store, RecordIn(st, i, until) \/ MarkIn(st, i, until), ReleaseHeld(i),
             kept' = [kept EXCEPT ![i] = 0]
      PROVE  Backed'
  <2>1. held' = [held EXCEPT ![i] = 0]
    BY <1>6 DEF ReleaseHeld
  <2>2. /\ markAll' \in [Store -> Nat] /\ named' \in [Identity -> Nat] /\ marked' \in [Identity -> Nat]
        /\ named' = named \/ named' = [named EXCEPT ![i] = until]
        /\ NamedInv' /\ MarkedInv'
    BY <1>2, <1>3, <1>5, <1>6, RecordBacks, MarkBacks DEF Backed
  <2>3. HistoryTyped' /\ KeptInv'
    BY <1>2, <1>3, <1>6, <2>1, <2>2 DEF Backed, HistoryTyped, KeptInv
  <2>4. LatestInv'
    <3> SUFFICES ASSUME NEW j \in Identity
                 PROVE  /\ held'[j] <= now + Lifetime /\ named'[j] <= now + Lifetime
                        /\ held'[j] # 0 => named'[j] <= held'[j]
      BY <1>4 DEF LatestInv
    <3>1. until \in Nat /\ until <= now + Lifetime /\ held[j] \in Nat /\ named[j] \in Nat
      BY <1>2
    <3> HIDE DEF until
    <3> HIDE DEF i
    <3>2. CASE j = i
      <4>1. held'[j] = 0 /\ named'[j] \in {named[j], until}
        BY <1>2, <1>3, <2>1, <2>2, <3>2
      <4>2. named[j] <= until
        BY <1>5
      <4> QED BY <1>2, <3>1, <4>1, <4>2
    <3>3. CASE j # i
      <4>1. held'[j] = held[j] /\ named'[j] = named[j]
        BY <1>2, <1>3, <2>1, <2>2, <3>3
      <4> QED BY <1>2, <1>5, <3>1, <4>1
    <3> QED BY <3>2, <3>3
  <2> QED BY <1>1, <1>4, <2>2, <2>3, <2>4 DEF Backed
<1>7. CASE PersistFails /\ Hold(i, until) /\ kept' = [kept EXCEPT ![i] = until]
  <2>1. UNCHANGED <<records, marks, markAll, named, marked, lowered, now>> /\ held' = [held EXCEPT ![i] = until]
    BY <1>2, <1>7 DEF PersistFails, stores, Hold
  <2>2. HistoryTyped' /\ NamedInv' /\ MarkedInv' /\ KeptInv'
    BY <1>2, <1>3, <1>7, <2>1 DEF Backed, HistoryTyped, NamedInv, MarkedInv, KeptInv
  <2>3. LatestInv'
    <3> SUFFICES ASSUME NEW j \in Identity
                 PROVE  /\ held'[j] <= now + Lifetime /\ named[j] <= now + Lifetime
                        /\ held'[j] # 0 => named[j] <= held'[j]
      BY <1>4, <2>1 DEF LatestInv
    <3>1. until \in Nat /\ until <= now + Lifetime /\ held[j] \in Nat /\ named[j] \in Nat
      BY <1>2
    <3> HIDE DEF until
    <3>2. CASE j = i
      BY <1>2, <1>3, <1>5, <2>1, <3>1, <3>2
    <3>3. CASE j # i
      BY <1>2, <1>3, <1>5, <2>1, <3>1, <3>3
    <3> QED BY <3>2, <3>3
  <2> QED BY <1>1, <1>4, <2>2, <2>3 DEF Backed
<1> QED BY <1>6, <1>7 DEF AnswerSet

LEMMA AnswerClearBacked ==
  ASSUME Backed, AnswerClear
  PROVE  Backed'
<1> DEFINE i == op.id
<1>1. Typed'
  BY AnswerClearStep DEF Backed
<1>2. /\ op' = Idle /\ UNCHANGED <<marks, markAll, now, lowered>> /\ i \in Identity /\ Clock = op.at
      /\ held \in [Identity -> Nat] /\ now \in Nat /\ op.at \in Nat /\ op.at <= now /\ Lifetime \in Nat
      /\ kept \in [Identity -> Nat] /\ named \in [Identity -> Nat] /\ marked \in [Identity -> Nat]
  BY LimitAssumption DEF AnswerClear, Answer, Ready, Backed, Typed, MemoryTyped, OpTyped, CallInv, HistoryTyped, Clock
<1>3. PICK removed \in SUBSET Store :
        /\ records' = [st \in Store |->
              IF st \in removed THEN [records[st] EXCEPT ![i] = 0] ELSE records[st]]
        /\ \/ held' = [held EXCEPT ![i] = 0] /\ kept' = [kept EXCEPT ![i] = 0] /\ marked' = [marked EXCEPT ![i] = 0]
           \/ UNCHANGED <<held, kept, marked>>
        /\ named' = [named EXCEPT ![i] = 0] \/ (removed = {} /\ named' = named)
  BY DEF AnswerClear, ReleaseHeld, memory
<1>4. CallInv' /\ Clock' = now
  BY <1>2, IdleCall
<1>5. HistoryTyped' /\ KeptInv'
  BY <1>2, <1>3 DEF Backed, HistoryTyped, KeptInv
<1>6. NamedInv'
  <2> SUFFICES ASSUME NEW j \in Identity, named'[j] > now PROVE \E st \in Store : records'[st][j] >= named'[j]
    BY <1>2 DEF NamedInv
  <2>1. named'[j] = named[j] /\ (j # i \/ removed = {})
    BY <1>2, <1>3
  <2>2. \A st \in Store : records'[st][j] = records[st][j]
    BY <1>3, <2>1 DEF Backed, Typed, StoresTyped
  <2> QED BY <2>1, <2>2 DEF Backed, NamedInv
<1>7. MarkedInv'
  <2> SUFFICES ASSUME NEW j \in Identity \ lowered, marked'[j] > now
               PROVE  \E st \in Store : marks[st][providerOf[j]] >= marked'[j] \/ markAll[st] >= marked'[j]
    BY <1>2 DEF MarkedInv
  <2>1. marked'[j] = marked[j]
    BY <1>2, <1>3
  <2> QED BY <2>1 DEF Backed, MarkedInv
<1>8. LatestInv'
  <2> SUFFICES ASSUME NEW j \in Identity
               PROVE  /\ held'[j] <= now + Lifetime /\ named'[j] <= now + Lifetime
                      /\ held'[j] # 0 => named'[j] <= held'[j]
    BY <1>4 DEF LatestInv
  <2>1. held'[j] \in {0, held[j]} /\ named'[j] \in {0, named[j]} /\ held[j] \in Nat /\ named[j] \in Nat
    BY <1>2, <1>3
  <2>2. held[j] <= op.at + Lifetime /\ named[j] <= op.at + Lifetime /\ (held[j] # 0 => named[j] <= held[j])
    BY <1>2 DEF Backed, LatestInv
  <2> QED BY <1>2, <2>1, <2>2
<1> QED BY <1>1, <1>4, <1>5, <1>6, <1>7, <1>8 DEF Backed

\* What only the memory held is lost, and promised no more.
LEMMA RestartBacked ==
  ASSUME Backed, Restart
  PROVE  Backed'
<1>1. Typed'
  BY Step DEF Backed, Next
<1>2. /\ op' = Idle /\ UNCHANGED <<records, marks, markAll, now, named, marked, lowered>>
      /\ held' = [j \in Identity |-> 0] /\ kept' = [j \in Identity |-> 0]
      /\ now \in Nat /\ Lifetime \in Nat /\ op.at \in Nat /\ op.at <= now /\ named \in [Identity -> Nat]
  BY LimitAssumption DEF Restart, stores, Backed, Typed, MemoryTyped, OpTyped, CallInv, HistoryTyped
<1>3. CallInv' /\ Clock' = now /\ Clock <= now /\ Clock \in Nat
  BY <1>2, IdleCall DEF Clock
<1>4. HistoryTyped' /\ KeptInv' /\ NamedInv' /\ MarkedInv'
  BY <1>2 DEF Backed, HistoryTyped, KeptInv, NamedInv, MarkedInv
<1>5. LatestInv'
  BY <1>2, <1>3 DEF Backed, LatestInv
<1> QED BY <1>1, <1>3, <1>4, <1>5 DEF Backed

LEMMA TickBacked ==
  ASSUME Backed, Tick
  PROVE  Backed'
<1>1. Typed'
  BY Step DEF Backed, Next
<1>2. /\ now' = now + 1 /\ UNCHANGED <<records, marks, markAll, held, op, lowered>> /\ answer' = NoAnswer
      /\ kept' = InForce(kept) /\ named' = InForce(named) /\ marked' = InForce(marked)
      /\ now \in Nat /\ Lifetime \in Nat /\ op.at \in Nat /\ op.at <= now /\ held \in [Identity -> Nat]
      /\ kept \in [Identity -> Nat] /\ named \in [Identity -> Nat] /\ marked \in [Identity -> Nat]
  BY LimitAssumption DEF Tick, stores, memory, Backed, Typed, MemoryTyped, OpTyped, CallInv, HistoryTyped
<1>3. ASSUME NEW f \in [Identity -> Nat]
      PROVE  /\ InForce(f) \in [Identity -> Nat]
             /\ \A j \in Identity : InForce(f)[j] \in {0, f[j]} /\ (InForce(f)[j] > now + 1 => InForce(f)[j] = f[j])
  BY <1>2 DEF InForce
<1>4. /\ kept' \in [Identity -> Nat] /\ named' \in [Identity -> Nat] /\ marked' \in [Identity -> Nat]
      /\ \A j \in Identity : /\ kept'[j] > now' => kept'[j] = kept[j]
                             /\ named'[j] \in {0, named[j]} /\ (named'[j] > now' => named'[j] = named[j])
                             /\ marked'[j] > now' => marked'[j] = marked[j]
  BY <1>2, <1>3
<1>5. CallInv' /\ Clock <= Clock' /\ Clock \in Nat /\ Clock' \in Nat
  BY <1>2 DEF Clock, CallInv, Backed
<1>6. ASSUME NEW n \in Nat, n > now' PROVE n > now
  BY <1>2, <1>6
<1>7. HistoryTyped' /\ KeptInv'
  BY <1>2, <1>4, <1>6 DEF Backed, HistoryTyped, KeptInv
<1>8. NamedInv'
  BY <1>2, <1>4, <1>6 DEF Backed, NamedInv
<1>9. MarkedInv'
  BY <1>2, <1>4, <1>6 DEF Backed, MarkedInv
<1>10. LatestInv'
  <2> SUFFICES ASSUME NEW j \in Identity
               PROVE  /\ held[j] <= Clock' + Lifetime /\ named'[j] <= Clock' + Lifetime
                      /\ held[j] # 0 => named'[j] <= held[j]
    BY <1>2 DEF LatestInv
  <2>1. /\ held[j] <= Clock + Lifetime /\ named[j] <= Clock + Lifetime /\ (held[j] # 0 => named[j] <= held[j])
        /\ held[j] \in Nat /\ named[j] \in Nat /\ named'[j] \in {0, named[j]}
    BY <1>2, <1>4 DEF Backed, LatestInv
  <2> HIDE DEF Clock
  <2> QED BY <1>2, <1>5, <2>1
<1> QED BY <1>1, <1>5, <1>7, <1>8, <1>9, <1>10 DEF Backed

LEMMA StepBacked == Backed /\ [Next]_vars => Backed'
<1> SUFFICES ASSUME Backed, [Next]_vars PROVE Backed'
  OBVIOUS
<1>1. ASSUME NEW kind \in {"IS", "LIST", "SET", "CLEAR"}, NEW i \in Identity,
             NEW session \in Reads("session"), NEW local \in Reads("local"),
             Call(kind, i, session, local)
      PROVE  Backed'
  BY <1>1, CallBacked
<1>2. ASSUME NEW i \in Identity, Flush(i) PROVE Backed'
  BY <1>2, FlushBacked
<1>3. CASE AnswerIs
  BY <1>3, ReadOnlyBacked DEF AnswerIs, Answer
<1>4. CASE AnswerList
  BY <1>4, ReadOnlyBacked DEF AnswerList, Answer
<1>5. CASE AnswerSet
  BY <1>5, AnswerSetBacked
<1>6. CASE AnswerClear
  BY <1>6, AnswerClearBacked
<1>7. CASE Restart
  BY <1>7, RestartBacked
<1>8. CASE Tick
  BY <1>8, TickBacked
<1>9. CASE UNCHANGED vars
  <2>1. Typed'
    BY Step DEF Backed
  <2> QED BY <1>9, <2>1 DEF vars, stores, memory, history, Backed, HistoryTyped, CallInv, Clock, LatestInv,
                            KeptInv, NamedInv, MarkedInv
<1> QED BY <1>1, <1>2, <1>3, <1>4, <1>5, <1>6, <1>7, <1>8, <1>9 DEF Next

-----------------------------------------------------------------------------
(* The answers.                                                             *)

Answered == VerdictStands /\ ListIsWhole /\ ClearIsFinal

LEMMA NothingAnswered == answer.value \notin {"clear", "listed", "done"} => Answered
  BY DEF Answered, VerdictStands, ListIsWhole, ClearIsFinal

\* Stores that answered in full and have no marker to show stand for nothing.
LEMMA NothingStands ==
  ASSUME Backed, NEW i \in Identity, ~Uncertain(providerOf[i])
  PROVE  /\ marked[i] <= now \/ i \in lowered
         /\ (\A st \in Store : ~Holds(st, i)) => named[i] <= now
<1>1. \A st \in Store : Complete(st) /\ ~Overflow(st, providerOf[i])
  BY DEF Uncertain
<1>2. /\ op.at \in Nat /\ now \in Nat /\ op.at <= now /\ marked[i] \in Nat /\ named[i] \in Nat
      /\ \A st \in Store : records[st][i] \in Nat /\ marks[st][providerOf[i]] \in Nat /\ markAll[st] \in Nat
  BY IdentityAssumption DEF Backed, Typed, StoresTyped, MemoryTyped, OpTyped, HistoryTyped, CallInv
<1>3. \A st \in Store : marks[st][providerOf[i]] <= op.at /\ markAll[st] <= op.at
  BY <1>1, <1>2 DEF Overflow, Complete
<1>4. marked[i] <= now \/ i \in lowered
  <2> SUFFICES ASSUME marked[i] > now, i \notin lowered PROVE FALSE
    BY <1>2
  <2>1. PICK st \in Store : marks[st][providerOf[i]] >= marked[i] \/ markAll[st] >= marked[i]
    BY DEF Backed, MarkedInv
  <2> QED BY <1>2, <1>3, <2>1
<1>5. ASSUME \A st \in Store : ~Holds(st, i) PROVE named[i] <= now
  <2> SUFFICES ASSUME named[i] > now PROVE FALSE
    BY <1>2
  <2>1. PICK st \in Store : records[st][i] >= named[i]
    BY DEF Backed, NamedInv
  <2>2. records[st][i] <= op.at
    BY <1>1, <1>2, <1>5 DEF Holds, Complete
  <2> QED BY <1>2, <2>1, <2>2
<1> QED BY <1>4, <1>5

LEMMA AnswerIsRight ==
  ASSUME Backed, AnswerIs
  PROVE  Answered'
<1> DEFINE i == op.id
<1>1. /\ i \in Identity /\ op.kind = "IS" /\ UNCHANGED <<records, now, kept, named, marked, lowered, held>>
      /\ answer'.kind = "IS" /\ answer'.id = i /\ answer'.value \in {"quarantined", "unavailable", "clear"}
  BY DEF AnswerIs, Ready, Answer, memory, stores, history, Backed, Typed, OpTyped
<1>2. ASSUME answer'.value = "clear"
      PROVE  held[i] <= op.at /\ (\A st \in Store : ~Holds(st, i)) /\ ~Uncertain(providerOf[i])
  <2>1. ~(held[i] > op.at \/ \E st \in Store : Holds(st, i)) /\ ~Uncertain(providerOf[i])
    BY <1>2 DEF AnswerIs, Answer
  <2> QED BY <1>1, <2>1 DEF Backed, Typed, MemoryTyped, OpTyped
<1>3. ASSUME answer'.value = "clear"
      PROVE  named[i] <= now /\ (i \in lowered \/ ~Refused(i))
  <2>1. named[i] <= now /\ (marked[i] <= now \/ i \in lowered)
    BY <1>1, <1>2, <1>3, NothingStands
  <2>2. kept[i] <= now
    <3> SUFFICES ASSUME kept[i] > now PROVE FALSE
      BY <1>1 DEF Backed, HistoryTyped, Typed, MemoryTyped
    <3>1. held[i] = kept[i]
      BY <1>1 DEF Backed, KeptInv
    <3> QED BY <1>1, <1>2, <1>3, <3>1 DEF Backed, CallInv, Typed, MemoryTyped, OpTyped
  <2>3. kept[i] \in Nat /\ named[i] \in Nat /\ marked[i] \in Nat /\ now \in Nat
    BY <1>1 DEF Backed, HistoryTyped, Typed, MemoryTyped
  <2> QED BY <2>1, <2>2, <2>3 DEF Refused
<1>4. VerdictStands'
  BY <1>1, <1>3 DEF VerdictStands, Refused
<1>5. ListIsWhole' /\ ClearIsFinal'
  BY <1>1 DEF ListIsWhole, ClearIsFinal
<1> QED BY <1>4, <1>5 DEF Answered

LEMMA AnswerListRight ==
  ASSUME Backed, AnswerList
  PROVE  Answered'
<1> DEFINE Found == {j \in Identity : providerOf[j] = providerOf[op.id] /\ \E st \in Store : Holds(st, j)}
<1>0. \/ Answer("unavailable", {})
      \/ Answer("listed", Found) /\ ~Uncertain(providerOf[op.id])
  BY DEF AnswerList
<1> HIDE DEF Found
<1>1. /\ op.id \in Identity /\ UNCHANGED <<now, kept, named, marked, lowered, held>>
      /\ answer'.kind = "LIST" /\ answer'.id = op.id /\ answer'.value \in {"unavailable", "listed"}
  <2>1. op.kind = "LIST" /\ op.id \in Identity /\ UNCHANGED <<now, kept, named, marked, lowered, held>>
    BY DEF AnswerList, Ready, memory, history, Backed, Typed, OpTyped
  <2> QED BY <1>0, <2>1 DEF Answer
<1>2. ASSUME answer'.value = "listed", NEW i \in Identity, providerOf[i] = providerOf[op.id], Refused(i),
             held[i] = 0, i \notin lowered
      PROVE  i \in answer'.ids
  <2>1. /\ ~Uncertain(providerOf[i])
        /\ answer'.ids = Found
    BY <1>0, <1>2 DEF Answer
  <2>2. kept[i] \in Nat /\ named[i] \in Nat /\ marked[i] \in Nat /\ now \in Nat
    BY DEF Backed, HistoryTyped, Typed, MemoryTyped
  <2>3. ~(kept[i] > now)
    BY <1>2, <2>2 DEF Backed, KeptInv
  <2>4. ~(marked[i] > now)
    BY <1>2, <2>1, <2>2, NothingStands
  <2>5. named[i] > now
    BY <1>2, <2>3, <2>4 DEF Refused
  <2>6. \E st \in Store : Holds(st, i)
    BY <2>1, <2>2, <2>5, NothingStands
  <2> QED BY <1>2, <2>1, <2>6 DEF Found
<1>3. ListIsWhole'
  BY <1>1, <1>2 DEF ListIsWhole, Refused
<1>4. VerdictStands' /\ ClearIsFinal'
  BY <1>1 DEF VerdictStands, ClearIsFinal
<1> QED BY <1>3, <1>4 DEF Answered

LEMMA AnswerClearRight ==
  ASSUME Backed, AnswerClear
  PROVE  Answered'
<1> DEFINE i == op.id
<1>1. /\ i \in Identity /\ UNCHANGED <<marks, markAll, now>>
      /\ answer'.kind = "CLEAR" /\ answer'.id = i /\ answer'.value \in {"done", "refused"}
  BY DEF AnswerClear, Ready, Answer, Backed, Typed, OpTyped
<1>2. ASSUME answer'.value = "done"
      PROVE  /\ held'[i] = 0
             /\ \A st \in Store : records'[st][i] <= now /\ marks[st][providerOf[i]] <= now /\ markAll[st] <= now
  <2>1. PICK removed \in SUBSET Store, proven \in BOOLEAN :
          /\ ClearTook(i, proven, removed) /\ held' = [held EXCEPT ![i] = 0]
          /\ records' = [st \in Store |->
                IF st \in removed THEN [records[st] EXCEPT ![i] = 0] ELSE records[st]]
    <3>1. PICK removed \in SUBSET Store, proven \in BOOLEAN :
            /\ records' = [st \in Store |->
                  IF st \in removed THEN [records[st] EXCEPT ![i] = 0] ELSE records[st]]
            /\ \/ ClearTook(i, proven, removed) /\ ReleaseHeld(i)
               \/ Answer("refused", {})
      BY DEF AnswerClear
    <3>2. ~Answer("refused", {})
      BY <1>2 DEF Answer
    <3> QED BY <3>1, <3>2 DEF ReleaseHeld
  <2>2. held'[i] = 0
    BY <1>1, <2>1 DEF Backed, Typed, MemoryTyped
  <2> SUFFICES ASSUME NEW st \in Store
               PROVE  records'[st][i] <= now /\ marks[st][providerOf[i]] <= now /\ markAll[st] <= now
    BY <2>2
  <2>3. /\ op.at \in Nat /\ now \in Nat /\ op.at <= now
        /\ records[st] \in [Identity -> Nat] /\ marks[st][providerOf[i]] \in Nat /\ markAll[st] \in Nat
    BY <1>1, IdentityAssumption DEF Backed, Typed, StoresTyped, MemoryTyped, OpTyped, HistoryTyped, CallInv
  <2>4. Complete(st) /\ (Holds(st, i) => st \in removed) /\ ~Overflow(st, providerOf[i])
    BY <2>1 DEF ClearTook
  <2>5. marks[st][providerOf[i]] <= now /\ markAll[st] <= now
    BY <2>3, <2>4 DEF Overflow, Complete
  <2>6. records'[st][i] <= now
    <3>1. CASE st \in removed
      BY <1>1, <2>1, <2>3, <3>1
    <3>2. CASE st \notin removed
      BY <1>1, <2>1, <2>3, <2>4, <3>2 DEF Holds, Complete
    <3> QED BY <3>1, <3>2
  <2> QED BY <2>5, <2>6
<1>3. ClearIsFinal'
  BY <1>1, <1>2 DEF ClearIsFinal
<1>4. VerdictStands' /\ ListIsWhole'
  BY <1>1 DEF VerdictStands, ListIsWhole
<1> QED BY <1>3, <1>4 DEF Answered

LEMMA StepAnswered == Backed /\ Answered /\ [Next]_vars => Answered'
<1> SUFFICES ASSUME Backed, Answered, [Next]_vars PROVE Answered'
  OBVIOUS
<1>1. answer' = NoAnswer => Answered'
  BY DEF NoAnswer, Answered, VerdictStands, ListIsWhole, ClearIsFinal
<1>2. ASSUME NEW kind \in {"IS", "LIST", "SET", "CLEAR"}, NEW i \in Identity,
             NEW session \in Reads("session"), NEW local \in Reads("local"),
             Call(kind, i, session, local)
      PROVE  answer' = NoAnswer
  BY <1>2 DEF Call
<1>3. ASSUME NEW i \in Identity, Flush(i) PROVE answer' = NoAnswer
  BY <1>3 DEF Flush, Backed, CallInv
<1>4. CASE AnswerIs
  BY <1>4, AnswerIsRight
<1>5. CASE AnswerList
  BY <1>5, AnswerListRight
<1>6. CASE AnswerSet
  <2>1. answer'.kind = "SET" /\ answer'.value \in {"done", "refused"}
    BY <1>6 DEF AnswerSet, Answer, Ready
  <2> QED BY <2>1 DEF Answered, VerdictStands, ListIsWhole, ClearIsFinal
<1>7. CASE AnswerClear
  BY <1>7, AnswerClearRight
<1>8. Restart \/ Tick => answer' = NoAnswer
  BY DEF Restart, Tick
<1>9. CASE UNCHANGED vars
  BY <1>9 DEF vars, stores, memory, history, Answered, VerdictStands, ListIsWhole, ClearIsFinal, Refused
<1> QED BY <1>1, <1>2, <1>3, <1>4, <1>5, <1>6, <1>7, <1>8, <1>9 DEF Next

LEMMA AlwaysAnswered == Spec => []Answered
<1>1. Init => Backed /\ Answered
  <2>1. Init => Answered
    BY DEF Init, NoAnswer, Answered, VerdictStands, ListIsWhole, ClearIsFinal
  <2> QED BY <2>1, InitBacked
<1>2. Backed /\ Answered /\ [Next]_vars => (Backed /\ Answered)'
  BY StepBacked, StepAnswered
<1> QED BY <1>1, <1>2, PTL DEF Spec

\* A conversation whose verdict is in force is never answered "clear", whichever reads and writes
\* fail and whenever the worker is stopped - unless a marker was shortened (markOverflow).
THEOREM VerdictAlwaysStands == Spec => []VerdictStands
<1>1. Answered => VerdictStands
  BY DEF Answered
<1> QED BY <1>1, AlwaysAnswered, PTL

\* A list that is given is whole (quarantinedIdentities).
THEOREM ListAlwaysWhole == Spec => []ListIsWhole
<1>1. Answered => ListIsWhole
  BY DEF Answered
<1> QED BY <1>1, AlwaysAnswered, PTL

\* An acknowledged clear left nothing that refuses the conversation (clearConversationQuarantine).
THEOREM ClearAlwaysFinal == Spec => []ClearIsFinal
<1>1. Answered => ClearIsFinal
  BY DEF Answered
<1> QED BY <1>1, AlwaysAnswered, PTL
=============================================================================
