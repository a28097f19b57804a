-------------------------- MODULE ProvisioningProofs --------------------------
(* Theorems about Provisioning for every value of its constants: the slots of   *)
(* the queue, the answers to whoever asked, nothing done after a cancellation,  *)
(* the provisional markers, and that every step of the queue is a step of       *)
(* OpenPromise or a stutter.                                                    *)
EXTENDS Provisioning, FiniteSetTheorems, SequenceTheorems, TLAPS

Entry == {"none", "queued", "running"}

Steps == {"idle", "begin", "plan", "lookup", "create", "page", "status", "select",
          "generic", "ensure", "command", "reset", "session", "end"}

RunningIds == {r \in Req : entry[r] = "running"}

Pending == {r \in Req : entry[r] # "none"}

Typed ==
    /\ sock \in Nat /\ socks \in Nat
    /\ entry \in [Req -> Entry] /\ queued \in Seq(Req)
    /\ active \in Nat
    /\ from \in [Req -> Nat]
    /\ pc \in [Req -> Steps]
    /\ end \in [Req -> Result \cup {None}]
    /\ kept \in [Req -> Result \cup {None}]
    /\ order \in Seq(Req) /\ Len(order) <= MaxResults

\* The queue, the entries and the operations tell of the same ids.
QueueInv ==
    /\ IsInjective(queued)
    /\ \A r \in Req : entry[r] = "queued" <=> r \in Range(queued)
    /\ \A r \in Req : pc[r] # "idle" <=> entry[r] = "running"
    /\ \A r \in Req : pc[r] = "end" => end[r] \in Result

SlotInv ==
    /\ IsFiniteSet(RunningIds) /\ active = Cardinality(RunningIds)
    /\ active <= MaxConcurrent
    /\ queued # <<>> => active = MaxConcurrent

IInv == Typed /\ QueueInv /\ SlotInv

LEMMA Limits == MaxConcurrent \in Nat /\ MaxResults \in Nat \ {0} /\ None \notin Req
  BY ProvisioningAssumption

----------------------------------------------------------------------------
(* Sequences of distinct ids                                                   *)

LEMMA RangeIn ==
  ASSUME NEW S, NEW q \in Seq(S)
  PROVE  /\ \A r : r \in Range(q) <=> \E i \in 1 .. Len(q) : q[i] = r
         /\ Range(q) \subseteq S
  BY DEF Range

LEMMA RangeOf ==
  ASSUME NEW q \in Seq(Req)
  PROVE  /\ \A r : r \in Range(q) <=> \E i \in 1 .. Len(q) : q[i] = r
         /\ Range(q) \subseteq Req
  BY RangeIn

\* The first n go, the others stay.
LEMMA Split ==
  ASSUME NEW q \in Seq(Req), IsInjective(q), NEW n \in 0 .. Len(q),
         NEW go, go = {q[i] : i \in 1 .. n}, NEW rest, rest = SubSeq(q, n + 1, Len(q))
  PROVE  /\ rest \in Seq(Req) /\ IsInjective(rest)
         /\ Range(rest) = Range(q) \ go /\ go \subseteq Range(q)
         /\ Len(rest) = Len(q) - n
<1>1. rest \in Seq(Req) /\ Len(rest) = Len(q) - n
  BY SubSeqProperties
<1>2. \A i \in 1 .. Len(rest) : n + i \in 1 .. Len(q) /\ rest[i] = q[n + i]
  BY <1>1
<1>3. \A i, j \in 1 .. Len(q) : q[i] = q[j] => i = j
  BY DEF IsInjective
<1>4. IsInjective(rest)
  <2> SUFFICES ASSUME NEW i \in 1 .. Len(rest), NEW j \in 1 .. Len(rest), rest[i] = rest[j]
               PROVE  i = j
    BY <1>1 DEF IsInjective
  <2>1. q[n + i] = q[n + j] /\ n + i \in 1 .. Len(q) /\ n + j \in 1 .. Len(q)
    BY <1>2
  <2>2. n + i = n + j
    BY <2>1, <1>3
  <2> QED BY <2>2, <1>1
<1>5. go \subseteq Range(q)
  BY RangeOf
<1>r. \A r : r \in Range(rest) <=> \E i \in 1 .. Len(rest) : rest[i] = r
  BY <1>1, RangeOf
<1>6. Range(rest) \subseteq Range(q) \ go
  <2> SUFFICES ASSUME NEW i \in 1 .. Len(rest) PROVE rest[i] \in Range(q) \ go
    BY <1>r, Zenon
  <2>1. n + i \in 1 .. Len(q) /\ rest[i] = q[n + i]
    BY <1>2
  <2>2. ASSUME NEW k \in 1 .. n, q[k] = q[n + i] PROVE FALSE
    <3>1. k \in 1 .. Len(q)
      OBVIOUS
    <3>2. k = n + i
      BY <2>1, <2>2, <3>1, <1>3
    <3> QED BY <3>2, <1>1
  <2> QED BY <2>1, <2>2, RangeOf
<1>7. Range(q) \ go \subseteq Range(rest)
  <2> SUFFICES ASSUME NEW k \in 1 .. Len(q), q[k] \notin go PROVE q[k] \in Range(rest)
    BY RangeOf
  <2>1. k > n
    OBVIOUS
  <2>2. k - n \in 1 .. Len(rest) /\ n + (k - n) = k
    BY <1>1, <2>1
  <2>3. rest[k - n] = q[k]
    BY <1>2, <2>2
  <2> QED BY <1>1, <2>2, <2>3, RangeOf
<1> QED BY <1>1, <1>4, <1>5, <1>6, <1>7

\* As many go as there are places.
LEMMA FirstCount ==
  ASSUME NEW q \in Seq(Req), IsInjective(q), NEW n \in 0 .. Len(q),
         NEW go, go = {q[i] : i \in 1 .. n}
  PROVE  IsFiniteSet(go) /\ Cardinality(go) = n
<1> DEFINE f == [i \in 1 .. n |-> q[i]]
<1>1. f \in Bijection(1 .. n, go)
  <2>1. f \in [1 .. n -> go]
    OBVIOUS
  <2>2. \A i, j \in 1 .. n : f[i] = f[j] => i = j
    BY DEF IsInjective
  <2>3. \A x \in go : \E i \in 1 .. n : f[i] = x
    OBVIOUS
  <2> QED BY <2>1, <2>2, <2>3 DEF Bijection, Injection, Surjection, IsInjective
<1>2. IsFiniteSet(1 .. n) /\ Cardinality(1 .. n) = n
  BY FS_Interval
<1> QED BY <1>1, <1>2, FS_Bijection DEF ExistsBijection

\* queued.splice(queued.indexOf(r), 1)
LEMMA Spliced ==
  ASSUME NEW S, NEW q \in Seq(S), IsInjective(q), NEW r \in Range(q),
         NEW rest, rest = RemoveFirst(q, r)
  PROVE  /\ rest \in Seq(S) /\ IsInjective(rest)
         /\ Range(rest) = Range(q) \ {r}
<1>1. PICK i \in 1 .. Len(q) : rest = RemoveAt(q, i) /\ q[i] = r
  <2> DEFINE I == {j \in 1 .. Len(q) : q[j] = r}
  <2>1. PICK k \in 1 .. Len(q) : q[k] = r
    BY RangeIn
  <2>2. \A j \in 1 .. Len(q) : q[j] = r => j = k
    BY <2>1 DEF IsInjective
  <2>3. I = {k}
    BY <2>1, <2>2
  <2>4. Min(I) = k
    BY <2>3 DEF Min
  <2>5. SelectInSeq(q, LAMBDA v : v = r) = k
    BY <2>3, <2>4 DEF SelectInSeq
  <2>6. \E j \in 1 .. Len(q) : q[j] = r
    BY <2>1
  <2>7. rest = RemoveAt(q, k)
    BY <2>5, <2>6 DEF RemoveFirst
  <2> QED BY <2>1, <2>7
<1> DEFINE left == SubSeq(q, 1, i - 1)
           right == SubSeq(q, i + 1, Len(q))
<1>2. /\ left \in Seq(S) /\ Len(left) = i - 1
      /\ \A j \in 1 .. i - 1 : left[j] = q[j]
  OBVIOUS
<1>3. /\ right \in Seq(S) /\ Len(right) = Len(q) - i
      /\ \A j \in 1 .. Len(q) - i : right[j] = q[i + j]
  OBVIOUS
<1>4. rest = left \o right
  BY <1>1 DEF RemoveAt
<1> HIDE DEF left, right
<1>5. /\ rest \in Seq(S) /\ Len(rest) = Len(q) - 1
      /\ \A j \in 1 .. Len(rest) : rest[j] = IF j < i THEN q[j] ELSE q[j + 1]
  <2>1. /\ rest \in Seq(S) /\ Len(rest) = Len(left) + Len(right)
        /\ \A j \in 1 .. Len(left) + Len(right) :
              rest[j] = IF j <= Len(left) THEN left[j] ELSE right[j - Len(left)]
    <3>1. left \in Seq(S) /\ right \in Seq(S)
      BY <1>2, <1>3
    <3> QED BY <3>1, <1>4, ConcatProperties, Zenon
  <2>2. Len(q) \in Nat /\ Len(rest) = Len(q) - 1
    BY <1>2, <1>3, <2>1
  <2>3. ASSUME NEW j \in 1 .. Len(rest), j < i PROVE rest[j] = q[j]
    BY <1>2, <1>3, <2>1, <2>2, <2>3
  <2>4. ASSUME NEW j \in 1 .. Len(rest), ~(j < i) PROVE rest[j] = q[j + 1]
    <3>1. j - (i - 1) \in 1 .. Len(q) - i /\ i + (j - (i - 1)) = j + 1
      BY <2>2, <2>4
    <3> QED BY <1>2, <1>3, <2>1, <2>2, <2>4, <3>1
  <2> QED BY <2>1, <2>2, <2>3, <2>4
<1>6. \A j, k \in 1 .. Len(q) : q[j] = q[k] => j = k
  BY DEF IsInjective
<1>7. IsInjective(rest)
  <2> SUFFICES ASSUME NEW j \in 1 .. Len(rest), NEW k \in 1 .. Len(rest), rest[j] = rest[k]
               PROVE  j = k
    BY <1>5 DEF IsInjective
  <2> QED BY <1>5, <1>6
<1>8. ASSUME NEW j \in 1 .. Len(rest) PROVE rest[j] \in Range(q) \ {r}
  <2>1. CASE j < i
    BY <1>1, <1>5, <1>6, <2>1, RangeIn
  <2>2. CASE ~(j < i)
    <3>1. j + 1 \in 1 .. Len(q) /\ j + 1 # i /\ rest[j] = q[j + 1]
      BY <1>5, <2>2
    <3>2. q[j + 1] # q[i]
      BY <1>6, <3>1
    <3> QED BY <1>1, <3>1, <3>2, RangeIn
  <2> QED BY <2>1, <2>2
<1>9. ASSUME NEW k \in 1 .. Len(q), q[k] # r PROVE \E j \in 1 .. Len(rest) : rest[j] = q[k]
  <2>1. CASE k < i
    BY <2>1, <1>5
  <2>2. CASE k > i
    <3>1. k - 1 \in 1 .. Len(rest) /\ rest[k - 1] = q[k]
      BY <2>2, <1>5
    <3> QED BY <3>1
  <2> QED BY <1>1, <1>9, <2>1, <2>2
<1>10. Range(rest) = Range(q) \ {r}
  <2>1. \A x : x \in Range(rest) <=> \E j \in 1 .. Len(rest) : rest[j] = x
    BY <1>5, RangeIn
  <2>2. \A x : x \in Range(q) <=> \E j \in 1 .. Len(q) : q[j] = x
    BY RangeIn
  <2>3. Range(rest) \subseteq Range(q) \ {r}
    BY <1>8, <2>1
  <2>4. Range(q) \ {r} \subseteq Range(rest)
    BY <1>9, <2>1, <2>2
  <2> QED BY <2>3, <2>4
<1> QED BY <1>5, <1>7, <1>10

----------------------------------------------------------------------------
(* pump                                                                        *)

\* What is known before pump: the entries e, the queue q, and a slots taken.
PumpReady(e, q, a) ==
    /\ e \in [Req -> Entry] /\ q \in Seq(Req) /\ IsInjective(q)
    /\ pc \in [Req -> Steps]
    /\ \A r \in Req : e[r] = "queued" <=> r \in Range(q)
    /\ \A r \in Req : e[r] = "running" => pc[r] # "idle"
    /\ \A r \in Req : e[r] = "queued" => pc[r] = "idle"
    /\ IsFiniteSet({r \in Req : e[r] = "running"})
    /\ a = Cardinality({r \in Req : e[r] = "running"})
    /\ a <= MaxConcurrent

\* Every free slot is taken or nothing is left, and nothing is settled.
LEMMA PumpStep ==
  ASSUME NEW e, NEW q, NEW a, PumpReady(e, q, a), Pump(e, q, a)
  PROVE  /\ entry' \in [Req -> Entry] /\ queued' \in Seq(Req) /\ active' \in Nat
         /\ pc' \in [Req -> Steps]
         /\ IsInjective(queued')
         /\ \A r \in Req : entry'[r] = "queued" <=> r \in Range(queued')
         /\ \A r \in Req : pc'[r] # "idle" <=> entry'[r] = "running"
         /\ \A r \in Req : pc'[r] = "end" => pc[r] = "end" /\ e[r] = "running"
         /\ SlotInv'
         /\ \A r \in Req : entry'[r] = "none" <=> e[r] = "none"
<1> DEFINE n == IF Len(q) < MaxConcurrent - a THEN Len(q) ELSE MaxConcurrent - a
           go == {q[i] : i \in 1 .. n}
           R == {r \in Req : e[r] = "running"}
<1>1. a \in Nat /\ q \in Seq(Req) /\ IsInjective(q) /\ a <= MaxConcurrent
  BY FS_CardinalityType DEF PumpReady
<1>2. n \in 0 .. Len(q) /\ a + n <= MaxConcurrent /\ (n = Len(q) \/ a + n = MaxConcurrent)
  BY <1>1, Limits
<1>3. /\ entry' = [r \in Req |-> IF r \in go THEN "running" ELSE e[r]]
      /\ queued' = SubSeq(q, n + 1, Len(q))
      /\ active' = a + n
      /\ pc' = [r \in Req |-> IF r \in go THEN "begin" ELSE IF e[r] = "none" THEN "idle" ELSE pc[r]]
  BY DEF Pump, Begin
<1> HIDE DEF n
<1>4. /\ queued' \in Seq(Req) /\ IsInjective(queued')
      /\ Range(queued') = Range(q) \ go /\ go \subseteq Range(q)
      /\ Len(queued') = Len(q) - n
  <2> DEFINE rest == SubSeq(q, n + 1, Len(q))
  <2>1. /\ rest \in Seq(Req) /\ IsInjective(rest)
        /\ Range(rest) = Range(q) \ go /\ go \subseteq Range(q)
        /\ Len(rest) = Len(q) - n
    BY <1>1, <1>2, Split, Zenon
  <2> QED BY <1>3, <2>1, Zenon
<1>5. IsFiniteSet(go) /\ Cardinality(go) = n
  BY <1>1, <1>2, FirstCount
<1> HIDE DEF go
<1>6. \A r \in go : r \in Req /\ e[r] = "queued"
  BY <1>1, <1>4, RangeOf DEF PumpReady
<1>7. /\ entry' \in [Req -> Entry] /\ pc' \in [Req -> Steps] /\ active' \in Nat
  BY <1>1, <1>2, <1>3 DEF PumpReady, Entry, Steps
<1>8. \A r \in Req : /\ entry'[r] = "queued" <=> r \in Range(queued')
                     /\ entry'[r] = "none" <=> e[r] = "none"
  BY <1>3, <1>4, <1>6 DEF PumpReady
<1>9. \A r \in Req : /\ pc'[r] # "idle" <=> entry'[r] = "running"
                     /\ pc'[r] = "end" => pc[r] = "end" /\ e[r] = "running"
  BY <1>3, <1>6 DEF PumpReady, Entry
<1>10. SlotInv'
  <2>1. RunningIds' = R \cup go /\ R \cap go = {}
    BY <1>3, <1>6 DEF RunningIds
  <2>2. IsFiniteSet(R) /\ a = Cardinality(R)
    BY DEF PumpReady
  <2>3. IsFiniteSet(R \cup go) /\ Cardinality(R \cup go) = Cardinality(R) + Cardinality(go) - Cardinality(R \cap go)
    BY <2>2, <1>5, FS_Union
  <2>4. Cardinality(R \cap go) = 0
    BY <2>1, FS_EmptySet
  <2>5. Cardinality(R \cup go) = a + n
    BY <2>2, <2>3, <2>4, <1>1, <1>2, <1>5
  <2>6. queued' # <<>> => Len(queued') # 0
    BY <1>4
  <2>7. queued' # <<>> => active' = MaxConcurrent
    BY <2>6, <1>2, <1>3, <1>4
  <2> QED BY <2>1, <2>3, <2>5, <2>7, <1>2, <1>3, Limits DEF SlotInv
<1> QED BY <1>4, <1>7, <1>8, <1>9, <1>10

----------------------------------------------------------------------------
(* The remembered results                                                      *)

\* What remembering x for the ids of s does to the results.
Remembers(s, x) ==
    \E old \in SUBSET Req :
        /\ s # <<>> => s[Len(s)] \notin old
        /\ kept' = [r \in Req |-> IF r \in old THEN None ELSE IF r \in Range(s) THEN x ELSE kept[r]]

LEMMA RememberStep ==
  ASSUME Typed, NEW s \in Seq(Req), NEW x \in Result, Remember(s, x)
  PROVE  /\ kept' \in [Req -> Result \cup {None}]
         /\ order' \in Seq(Req) /\ Len(order') <= MaxResults
         /\ Remembers(s, x)
         /\ s = <<>> => kept' = kept
<1> DEFINE all == order \o s
           m == Len(all)
           keep == IF m > MaxResults THEN SubSeq(all, m - MaxResults + 1, m) ELSE all
           old == Range(all) \ Range(keep)
<1>1. order' = keep
      /\ kept' = [r \in Req |-> IF r \in old THEN None ELSE IF r \in Range(s) THEN x ELSE kept[r]]
  BY DEF Remember
<1>2. /\ all \in Seq(Req) /\ m = Len(order) + Len(s) /\ m \in Nat
      /\ s # <<>> => m > 0 /\ all[m] = s[Len(s)]
  <2>1. order \in Seq(Req) /\ s \in Seq(Req)
    BY DEF Typed
  <2>2. /\ all \in Seq(Req) /\ m = Len(order) + Len(s)
        /\ \A i \in 1 .. Len(order) + Len(s) : all[i] = IF i <= Len(order) THEN order[i] ELSE s[i - Len(order)]
    BY <2>1, ConcatProperties, Zenon
  <2>3. s # <<>> => Len(s) > 0
    BY <2>1
  <2> QED BY <2>1, <2>2, <2>3
<1> HIDE DEF all
<1>3. /\ keep \in Seq(Req) /\ Len(keep) <= MaxResults
      /\ m > 0 => Len(keep) > 0 /\ keep[Len(keep)] = all[m]
  <2>1. CASE m > MaxResults
    <3>1. keep = SubSeq(all, m - MaxResults + 1, m) /\ m - MaxResults + 1 \in 1 .. m
      BY <2>1, <1>2, Limits
    <3> QED BY <3>1, <1>2, Limits
  <2>2. CASE ~(m > MaxResults)
    BY <2>2, <1>2, Limits
  <2> QED BY <2>1, <2>2
<1>4. old \in SUBSET Req
  BY <1>2, RangeOf
<1>5. s # <<>> => s[Len(s)] \notin old
  <2>1. s # <<>> => s[Len(s)] = keep[Len(keep)] /\ Len(keep) \in 1 .. Len(keep)
    BY <1>2, <1>3
  <2> QED BY <2>1, <1>3, RangeOf
<1>6. s = <<>> => kept' = kept
  <2> SUFFICES ASSUME s = <<>> PROVE kept' = kept
    OBVIOUS
  <2>1. m <= MaxResults
    BY <1>2 DEF Typed
  <2>2. old = {} /\ Range(s) = {}
    BY <2>1, <1>2, Limits DEF Range
  <2> QED BY <2>2, <1>1 DEF Typed
<1>7. kept' \in [Req -> Result \cup {None}]
  BY <1>1 DEF Typed
<1> QED BY <1>1, <1>3, <1>4, <1>5, <1>6, <1>7 DEF Remembers
----------------------------------------------------------------------------
(* The queue's own steps                                                       *)

\* Nothing of the queue changes, or of who asked.
Still == UNCHANGED <<sock, socks, entry, queued, active, from>>

LEMMA InitIInv == Init => IInv
<1> SUFFICES ASSUME Init PROVE IInv
  OBVIOUS
<1>1. RunningIds = {} /\ queued = <<>> /\ active = 0
  BY DEF Init, RunningIds
<1>2. SlotInv
  BY <1>1, FS_EmptySet, Limits DEF SlotInv
<1>3. Typed
  BY Limits DEF Init, Typed, Entry, Steps
<1>4. QueueInv
  BY DEF Init, QueueInv, IsInjective, Range
<1> QED BY <1>2, <1>3, <1>4 DEF IInv

\* A new id goes to the end of the queue.
LEMMA OpenReady ==
  ASSUME IInv, NEW r \in Req, Open(r)
  PROVE  PumpReady([entry EXCEPT ![r] = "queued"], Append(queued, r), active)
<1> DEFINE e == [entry EXCEPT ![r] = "queued"]
           q == Append(queued, r)
<1>1. /\ entry[r] = "none" /\ kept[r] = None
      /\ Pump(e, q, active)
      /\ from' = [from EXCEPT ![r] = sock]
      /\ end' = [end EXCEPT ![r] = None]
      /\ UNCHANGED <<sock, socks, kept, order>>
  BY DEF Open
<1>2. /\ q \in Seq(Req) /\ Len(q) = Len(queued) + 1 /\ q[Len(q)] = r
      /\ \A i \in 1 .. Len(queued) : q[i] = queued[i]
  BY DEF IInv, Typed
<1>3. r \notin Range(queued)
  BY <1>1 DEF IInv, QueueInv
<1>4. IsInjective(q)
  <2>1. \A i \in 1 .. Len(queued) : queued[i] # r
    BY <1>3, RangeOf DEF IInv, Typed
  <2>2. \A i, j \in 1 .. Len(queued) : queued[i] = queued[j] => i = j
    BY DEF IInv, Typed, QueueInv, IsInjective
  <2>3. Len(queued) \in Nat
    BY DEF IInv, Typed
  <2> QED BY <1>2, <2>1, <2>2, <2>3 DEF IsInjective
<1>5. \A x : x \in Range(q) <=> x = r \/ x \in Range(queued)
  <2>1. Len(queued) \in Nat /\ queued \in Seq(Req)
    BY DEF IInv, Typed
  <2>2. \A x : x \in Range(queued) <=> \E i \in 1 .. Len(queued) : queued[i] = x
    BY <2>1, RangeOf, Zenon
  <2>3. \A x : x \in Range(q) <=> \E i \in 1 .. Len(q) : q[i] = x
    BY <1>2, RangeOf, Zenon
  <2>4. \A i \in 1 .. Len(q) : i \in 1 .. Len(queued) \/ i = Len(q)
    BY <1>2, <2>1
  <2> QED BY <1>2, <2>1, <2>2, <2>3, <2>4
<1> HIDE DEF q
<1>6. PumpReady(e, q, active)
  <2>1. e \in [Req -> Entry] /\ \A s \in Req : e[s] = IF s = r THEN "queued" ELSE entry[s]
    BY DEF IInv, Typed, Entry
  <2>2. {s \in Req : e[s] = "running"} = RunningIds
    BY <1>1, <2>1 DEF RunningIds
  <2>3. \A s \in Req : e[s] = "queued" <=> s \in Range(q)
    BY <1>5, <2>1 DEF IInv, QueueInv
  <2>4. \A s \in Req : /\ e[s] = "running" => pc[s] # "idle"
                       /\ e[s] = "queued" => pc[s] = "idle"
    BY <1>1, <2>1 DEF IInv, QueueInv
  <2> QED BY <1>2, <1>4, <2>1, <2>2, <2>3, <2>4 DEF PumpReady, IInv, Typed, SlotInv
<1> QED BY <1>6 DEF q

LEMMA OpenStep ==
  ASSUME IInv, NEW r \in Req, Open(r)
  PROVE  /\ IInv' /\ UNCHANGED kept
         /\ entry[r] = "none" /\ kept[r] = None /\ Pending' = Pending \cup {r}
<1> DEFINE e == [entry EXCEPT ![r] = "queued"]
           q == Append(queued, r)
<1>1. /\ entry[r] = "none" /\ kept[r] = None
      /\ Pump(e, q, active)
      /\ from' = [from EXCEPT ![r] = sock]
      /\ end' = [end EXCEPT ![r] = None]
      /\ UNCHANGED <<sock, socks, kept, order>>
  BY DEF Open
<1>6. PumpReady(e, q, active)
  BY OpenReady
<1> HIDE DEF q
<1>7. /\ entry' \in [Req -> Entry] /\ queued' \in Seq(Req) /\ active' \in Nat
      /\ pc' \in [Req -> Steps]
      /\ IsInjective(queued')
      /\ \A s \in Req : entry'[s] = "queued" <=> s \in Range(queued')
      /\ \A s \in Req : pc'[s] # "idle" <=> entry'[s] = "running"
      /\ \A s \in Req : pc'[s] = "end" => pc[s] = "end" /\ e[s] = "running"
      /\ SlotInv'
      /\ \A s \in Req : entry'[s] = "none" <=> e[s] = "none"
  BY <1>1, <1>6, PumpStep
<1>8. \A s \in Req : pc'[s] = "end" => end'[s] \in Result
  BY <1>1, <1>7 DEF IInv, Typed, QueueInv
<1>9. /\ from' \in [Req -> Nat] /\ end' \in [Req -> Result \cup {None}]
  BY <1>1 DEF IInv, Typed
<1>10. Pending' = Pending \cup {r}
  BY <1>1, <1>7 DEF Pending, IInv, Typed
<1> QED BY <1>1, <1>7, <1>8, <1>9, <1>10 DEF IInv, Typed, QueueInv

\* The slot of a returned operation is free.
LEMMA SettleReady ==
  ASSUME IInv, NEW r \in Req, pc[r] = "end"
  PROVE  PumpReady([entry EXCEPT ![r] = "none"], queued, active - 1)
<1> DEFINE e == [entry EXCEPT ![r] = "none"]
<1>2. entry[r] = "running"
  BY DEF IInv, QueueInv
<1>3. e \in [Req -> Entry] /\ \A s \in Req : e[s] = IF s = r THEN "none" ELSE entry[s]
  BY DEF IInv, Typed, Entry
<1>4. /\ IsFiniteSet(RunningIds \ {r}) /\ Cardinality(RunningIds \ {r}) = active - 1
      /\ active \in Nat /\ active <= MaxConcurrent
  BY <1>2, FS_RemoveElement DEF IInv, SlotInv, RunningIds, Typed
<1>5. PumpReady(e, queued, active - 1)
  <2>1. {s \in Req : e[s] = "running"} = RunningIds \ {r}
    BY <1>3 DEF RunningIds
  <2>2. \A s \in Req : e[s] = "queued" <=> s \in Range(queued)
    BY <1>2, <1>3 DEF IInv, QueueInv
  <2>3. \A s \in Req : /\ e[s] = "running" => pc[s] # "idle"
                       /\ e[s] = "queued" => pc[s] = "idle"
    BY <1>3 DEF IInv, QueueInv
  <2>4. active - 1 <= MaxConcurrent
    BY <1>4, Limits
  <2> QED BY <1>3, <1>4, <2>1, <2>2, <2>3, <2>4 DEF PumpReady, IInv, Typed, QueueInv
<1> QED BY <1>5

LEMMA SettleStep ==
  ASSUME IInv, NEW r \in Req, NEW x \in Result, pc[r] = "end",
         Settle(r, x), UNCHANGED <<sock, socks, end>>
  PROVE  /\ IInv' /\ r \in Pending /\ Pending' = Pending \ {r}
         /\ Remembers(<<r>>, x)
<1> DEFINE e == [entry EXCEPT ![r] = "none"]
<1>1. /\ Pump(e, queued, active - 1) /\ Remember(<<r>>, x) /\ UNCHANGED from
  BY DEF Settle
<1>2. entry[r] = "running"
  BY DEF IInv, QueueInv
<1>3. e \in [Req -> Entry] /\ \A s \in Req : e[s] = IF s = r THEN "none" ELSE entry[s]
  BY DEF IInv, Typed, Entry
<1>5. PumpReady(e, queued, active - 1)
  BY SettleReady
<1>6. /\ entry' \in [Req -> Entry] /\ queued' \in Seq(Req) /\ active' \in Nat
      /\ pc' \in [Req -> Steps]
      /\ IsInjective(queued')
      /\ \A s \in Req : entry'[s] = "queued" <=> s \in Range(queued')
      /\ \A s \in Req : pc'[s] # "idle" <=> entry'[s] = "running"
      /\ \A s \in Req : pc'[s] = "end" => pc[s] = "end" /\ e[s] = "running"
      /\ SlotInv'
      /\ \A s \in Req : entry'[s] = "none" <=> e[s] = "none"
  BY <1>1, <1>5, PumpStep
<1>7. /\ kept' \in [Req -> Result \cup {None}]
      /\ order' \in Seq(Req) /\ Len(order') <= MaxResults
      /\ Remembers(<<r>>, x)
  <2>1. <<r>> \in Seq(Req) /\ Typed
    BY DEF IInv
  <2> QED BY <1>1, <2>1, RememberStep
<1>8. \A s \in Req : pc'[s] = "end" => end'[s] \in Result
  BY <1>6 DEF IInv, Typed, QueueInv
<1>9. r \in Pending /\ Pending' = Pending \ {r}
  BY <1>2, <1>3, <1>6 DEF Pending
<1> QED BY <1>1, <1>6, <1>7, <1>8, <1>9 DEF IInv, Typed, QueueInv

\* Ids leave the queue and are settled together; the running ones stay.
LEMMA DropStep ==
  ASSUME IInv, NEW q \in Seq(Req), NEW rest \in Seq(Req),
         IsInjective(rest), Range(rest) = Range(queued) \ Range(q), Range(q) \subseteq Range(queued),
         entry' = [r \in Req |-> IF r \in Range(q) THEN "none" ELSE entry[r]],
         queued' = rest, Remember(q, "cancelled"), sock' \in Nat,
         UNCHANGED <<socks, active, from, pc, end>>
  PROVE  /\ IInv' /\ Range(q) \subseteq Pending /\ Pending' = Pending \ Range(q)
         /\ Remembers(q, "cancelled")
         /\ q = <<>> => kept' = kept
<1>1. \A r \in Range(q) : r \in Req /\ entry[r] = "queued"
  BY RangeOf DEF IInv, QueueInv
<1>2. RunningIds' = RunningIds
  BY <1>1 DEF RunningIds
<1>3. rest # <<>> => queued # <<>>
  <2>1. rest # <<>> => rest[1] \in Range(rest)
    BY RangeOf
  <2>2. queued = <<>> => Range(queued) = {}
    BY DEF Range
  <2> QED BY <2>1, <2>2
<1>4. SlotInv'
  BY <1>2, <1>3 DEF IInv, SlotInv
<1>5. /\ kept' \in [Req -> Result \cup {None}]
      /\ order' \in Seq(Req) /\ Len(order') <= MaxResults
      /\ Remembers(q, "cancelled")
      /\ q = <<>> => kept' = kept
  BY RememberStep DEF IInv, Result
<1>6. QueueInv'
  <2>1. \A r \in Req : entry'[r] = "queued" <=> r \in Range(queued')
    BY <1>1 DEF IInv, QueueInv
  <2>2. \A r \in Req : pc'[r] # "idle" <=> entry'[r] = "running"
    BY <1>1 DEF IInv, QueueInv
  <2> QED BY <2>1, <2>2 DEF IInv, QueueInv
<1>7. entry' \in [Req -> Entry]
  BY DEF IInv, Typed, Entry
<1>8. Range(q) \subseteq Pending /\ Pending' = Pending \ Range(q)
  BY <1>1 DEF Pending
<1> QED BY <1>4, <1>5, <1>6, <1>7, <1>8 DEF IInv, Typed

----------------------------------------------------------------------------
(* One operation: it moves from await to await, and the queue stays            *)

Moves(r) ==
    /\ pc[r] # "idle"
    /\ \/ \E l \in Steps \ {"idle", "end"} : pc' = [pc EXCEPT ![r] = l] /\ UNCHANGED end
       \/ \E x \in Result : pc' = [pc EXCEPT ![r] = "end"] /\ end' = [end EXCEPT ![r] = x]

LEMMA MoveStep ==
  ASSUME IInv, NEW r \in Req, Moves(r), Still, UNCHANGED <<kept, order>>
  PROVE  IInv'
<1>1. /\ pc' \in [Req -> Steps] /\ end' \in [Req -> Result \cup {None}]
      /\ \A s \in Req : /\ pc'[s] # "idle" <=> pc[s] # "idle"
                        /\ pc'[s] = "end" => end'[s] \in Result
  BY ZenonT(30) DEF Moves, IInv, Typed, QueueInv, Steps
<1>2. QueueInv'
  BY <1>1 DEF Still, IInv, QueueInv
<1>3. RunningIds' = RunningIds
  BY DEF Still, RunningIds
<1>4. SlotInv'
  BY <1>3 DEF Still, IInv, SlotInv
<1> QED BY <1>1, <1>2, <1>4 DEF Still, IInv, Typed

\* A step of an operation, and nothing the queue or the results would notice.
Working(r) ==
    \/ BeginNative(r) \/ BusyConversation(r) \/ SessionsRead(r) \/ PreferredTab(r)
    \/ CreateTab(r) \/ CreateFails(r) \/ PageRegistered(r) \/ PageFails(r)
    \/ StatusSent(r) \/ SelectSession(r)
    \/ BeginGeneric(r) \/ GenericChosen(r) \/ GenericEnsured(r)
    \/ GenericReset(r) \/ GenericAnswered(r) \/ GenericSession(r)

LEMMA WorkingMoves ==
  ASSUME NEW r \in Req, Working(r)
  PROVE  /\ Moves(r) /\ Still /\ UNCHANGED <<kept, order, hear>>
         /\ UNCHANGED <<checked, acted>> \/ GenericReset(r) \/ GenericChosen(r)
<1> DEFINE Inner == Steps \ {"idle", "end"}
<1>1. Still /\ UNCHANGED <<kept, order, hear>>
  BY DEF Working, Still, BeginNative, BusyConversation, SessionsRead, PreferredTab, CreateTab,
         CreateFails, PageRegistered, PageFails, StatusSent, SelectSession, BeginGeneric,
         GenericChosen, GenericEnsured, GenericReset, GenericAnswered, GenericSession,
         link, queue, results
<1>a. ASSUME NEW l \in Inner, pc[r] # "idle", Goto(r, l), UNCHANGED end PROVE Moves(r)
  BY <1>a DEF Moves, Goto
<1>b. ASSUME NEW x \in Result, pc[r] # "idle", Finish(r, x) PROVE Moves(r)
  BY <1>b DEF Moves, Finish, Goto
<1>c. /\ {"plan", "lookup", "create", "page", "status", "select", "generic",
       "ensure", "command", "reset", "session"} \subseteq Inner
      /\ "opened" \in Result /\ "refused" \in Result /\ "failed" \in Result
  BY DEF Steps, Result
<1> HIDE DEF Inner
<1>2. CASE BeginNative(r)
  BY <1>2, <1>1, <1>a, <1>b, <1>c DEF BeginNative, Begin, browser, past
<1>3. CASE BusyConversation(r)
  BY <1>3, <1>1, <1>b, <1>c DEF BusyConversation, Begin, browser, past
<1>4. CASE SessionsRead(r)
  <2>1. pc[r] = "plan" /\ \E p : Planned(r, p)
    BY <1>4 DEF SessionsRead
  <2>3. UNCHANGED checked
    BY <1>4 DEF SessionsRead
  <2>2. ASSUME NEW p, Planned(r, p) PROVE Moves(r) /\ UNCHANGED acted
    <3>1. CASE r \in aborted
      BY <2>1, <2>2, <3>1, <1>b, <1>c DEF Planned
    <3>2. CASE r \notin aborted
      BY <2>1, <2>2, <3>2, <1>a, <1>b, <1>c DEF Planned, Acts
    <3> QED BY <3>1, <3>2
  <2> QED BY <2>1, <2>2, <2>3, <1>1
<1>5. CASE PreferredTab(r)
  <2>1. CASE r \in aborted
    BY <1>5, <2>1, <1>1, <1>b, <1>c DEF PreferredTab
  <2>2. CASE r \notin aborted
    BY <1>5, <2>2, <1>1, <1>a, <1>c DEF PreferredTab, Acts
  <2> QED BY <2>1, <2>2
<1>6. CASE CreateTab(r)
  BY <1>6, <1>1, <1>a, <1>c DEF CreateTab, past
<1>7. CASE CreateFails(r)
  BY <1>7, <1>1, <1>b, <1>c DEF CreateFails, browser, past
<1>8. CASE PageRegistered(r)
  BY <1>8, <1>1, <1>a, <1>c DEF PageRegistered, past
<1>9. CASE PageFails(r)
  BY <1>9, <1>1, <1>b, <1>c DEF PageFails, GiveUp, past
<1>10. CASE StatusSent(r)
  BY <1>10, <1>1, <1>a, <1>b, <1>c DEF StatusSent, past
<1>11. CASE SelectSession(r)
  BY <1>11, <1>1, <1>b, <1>c DEF SelectSession, browser, past
<1>12. CASE BeginGeneric(r)
  BY <1>12, <1>1, <1>a, <1>b, <1>c DEF BeginGeneric, Begin, browser, past
<1>13. CASE GenericChosen(r)
  BY <1>13, <1>1, <1>a, <1>b, <1>c DEF GenericChosen
<1>14. CASE GenericAnswered(r)
  BY <1>14, <1>1, <1>a, <1>b, <1>c DEF GenericAnswered, browser, past
<1>15. CASE GenericEnsured(r)
  BY <1>15, <1>1, <1>a, <1>b, <1>c DEF GenericEnsured, browser, past
<1>16. CASE GenericReset(r)
  BY <1>16, <1>1, <1>a, <1>c DEF GenericReset
<1>17. CASE GenericSession(r)
  BY <1>17, <1>1, <1>a, <1>b, <1>c DEF GenericSession, browser, past
<1> QED BY <1>1, <1>2, <1>3, <1>4, <1>5, <1>6, <1>7, <1>8, <1>9, <1>10, <1>11, <1>12, <1>13, <1>14,
           <1>15, <1>16, <1>17
        DEF Working
----------------------------------------------------------------------------
(* The steps that are not an operation's                                       *)

\* cancel: the one id, when it is queued.
LEMMA CancelStep ==
  ASSUME IInv, NEW r \in Req, Cancel(r)
  PROVE  /\ IInv'
         /\ \/ Pending' = Pending /\ kept' = kept
            \/ r \in Pending /\ Pending' = Pending \ {r} /\ Remembers(<<r>>, "cancelled")
<1>1. sock' = sock /\ UNCHANGED <<socks, active, from, pc, end>>
  <2>1. UNCHANGED <<active, from, runs>>
    BY DEF Cancel, CancelIds
  <2> QED BY <2>1 DEF Cancel, link, runs
<1>2. queued \in Seq(Req) /\ sock \in Nat /\ <<>> \in Seq(Req) /\ <<r>> \in Seq(Req)
  BY DEF IInv, Typed
<1>3. Range(<<r>>) = {r} /\ Range(<<>>) = {}
  BY DEF Range
<1>4. CASE entry[r] = "queued"
  <2> DEFINE rest == RemoveFirst(queued, r)
  <2>1. CancelIds({r}, <<r>>, rest)
    BY <1>4 DEF Cancel
  <2>2. r \in Range(queued) /\ IsInjective(queued)
    BY <1>4 DEF IInv, QueueInv
  <2>3. rest \in Seq(Req) /\ IsInjective(rest) /\ Range(rest) = Range(queued) \ {r}
    BY <1>2, <2>2, Spliced, Zenon
  <2>4. /\ entry' = [s \in Req |-> IF s \in Range(<<r>>) THEN "none" ELSE entry[s]]
        /\ queued' = rest /\ Remember(<<r>>, "cancelled")
    BY <2>1 DEF CancelIds
  <2> HIDE DEF rest
  <2>5. /\ Range(rest) = Range(queued) \ Range(<<r>>) /\ Range(<<r>>) \subseteq Range(queued)
        /\ sock' \in Nat
    BY <1>1, <1>2, <1>3, <2>2, <2>3
  <2>6. /\ IInv' /\ Range(<<r>>) \subseteq Pending /\ Pending' = Pending \ Range(<<r>>)
        /\ Remembers(<<r>>, "cancelled")
    BY <1>1, <1>2, <2>3, <2>4, <2>5, DropStep
  <2> QED BY <2>6, <1>3
<1>5. CASE entry[r] # "queued"
  <2>1. CancelIds({r}, <<>>, queued)
    BY <1>5 DEF Cancel
  <2>2. /\ entry' = [s \in Req |-> IF s \in Range(<<>>) THEN "none" ELSE entry[s]]
        /\ queued' = queued /\ Remember(<<>>, "cancelled")
    BY <2>1 DEF CancelIds
  <2>3. /\ Range(queued) = Range(queued) \ Range(<<>>) /\ Range(<<>>) \subseteq Range(queued)
        /\ sock' \in Nat /\ IsInjective(queued)
    BY <1>1, <1>2, <1>3 DEF IInv, QueueInv
  <2>4. IInv' /\ Pending' = Pending \ Range(<<>>) /\ kept' = kept
    BY <1>1, <1>2, <2>2, <2>3, DropStep
  <2> QED BY <2>4, <1>3
<1> QED BY <1>4, <1>5

\* cancelAll, with or without a socket.
LEMMA CancelAllStep ==
  ASSUME IInv, LinkLost \/ PopupCancels
  PROVE  /\ IInv'
         /\ \/ Pending' = Pending /\ kept' = kept
            \/ /\ queued # <<>> /\ Range(queued) \subseteq Pending
               /\ Pending' = Pending \ Range(queued) /\ Remembers(queued, "cancelled")
<1>1. queued \in Seq(Req) /\ sock \in Nat /\ <<>> \in Seq(Req) /\ IsInjective(<<>>) /\ Range(<<>>) = {}
  BY DEF IInv, Typed, IsInjective, Range
<1>2. \A r \in Req : entry[r] = "queued" <=> r \in Range(queued)
  BY DEF IInv, QueueInv
<1>3. /\ entry' = [r \in Req |-> IF r \in Range(queued) THEN "none" ELSE entry[r]]
      /\ queued' = <<>> /\ Remember(queued, "cancelled") /\ sock' \in Nat
      /\ UNCHANGED <<socks, active, from, pc, end>>
  <2>1. CASE LinkLost
    BY <1>1, <1>2, <2>1 DEF LinkLost, runs
  <2>2. CASE PopupCancels
    BY <1>1, <2>2 DEF PopupCancels, CancelIds, runs
  <2> QED BY <2>1, <2>2
<1>4. Range(<<>>) = Range(queued) \ Range(queued) /\ Range(queued) \subseteq Range(queued)
  BY <1>1
<1>5. /\ IInv' /\ Range(queued) \subseteq Pending /\ Pending' = Pending \ Range(queued)
      /\ Remembers(queued, "cancelled")
      /\ queued = <<>> => kept' = kept
  BY <1>1, <1>3, <1>4, DropStep
<1>6. queued = <<>> => Pending' = Pending
  BY <1>1, <1>5
<1> QED BY <1>5, <1>6

LEMMA ReturnStep ==
  ASSUME IInv, NEW r \in Req, Returns(r)
  PROVE  /\ IInv' /\ r \in Pending /\ Pending' = Pending \ {r}
         /\ \E x \in Result : Remembers(<<r>>, x)
<1> DEFINE x == IF r \in aborted THEN "cancelled" ELSE end[r]
<1>1. x \in Result /\ pc[r] = "end"
  BY DEF Returns, IInv, QueueInv, Result
<1>2. Settle(r, x) /\ UNCHANGED <<sock, socks, end>>
  BY DEF Returns, link
<1> HIDE DEF x
<1> QED BY <1>1, <1>2, SettleStep

\* A step that the queue does not notice.
Quiet == (\E r \in Req : Working(r)) \/ PopupDrops \/ LinkOpens \/ (\E t \in Created : TabCloses(t))
         \/ UNCHANGED vars

LEMMA QuietStep ==
  ASSUME IInv, Quiet
  PROVE  IInv' /\ UNCHANGED <<entry, kept>>
<1>1. ASSUME NEW r \in Req, Working(r) PROVE IInv' /\ UNCHANGED <<entry, kept>>
  BY <1>1, WorkingMoves, MoveStep DEF Still
<1>2. ASSUME sock' \in Nat, socks' \in Nat, UNCHANGED <<queue, runs, kept, order>>
      PROVE  IInv' /\ UNCHANGED <<entry, kept>>
  <2>1. UNCHANGED <<entry, queued, active, from, pc, end, kept, order>>
    BY <1>2 DEF queue, runs
  <2>2. RunningIds' = RunningIds
    BY <2>1 DEF RunningIds
  <2> QED BY <1>2, <2>1, <2>2 DEF IInv, Typed, QueueInv, SlotInv
<1>3. CASE PopupDrops \/ LinkOpens
  <2>1. sock' \in Nat /\ socks' \in Nat
    BY <1>3 DEF PopupDrops, LinkOpens, IInv, Typed
  <2> QED BY <1>2, <1>3, <2>1 DEF PopupDrops, LinkOpens
<1>4. ASSUME NEW t \in Created, TabCloses(t) PROVE IInv' /\ UNCHANGED <<entry, kept>>
  BY <1>2, <1>4 DEF TabCloses, link, results, IInv, Typed
<1>5. CASE UNCHANGED vars
  BY <1>2, <1>5 DEF vars, link, results, IInv, Typed
<1> QED BY <1>1, <1>3, <1>4, <1>5 DEF Quiet

LEMMA NextSplit ==
  ASSUME [Next]_vars
  PROVE  \/ \E r \in Req : Open(r) \/ Cancel(r) \/ Returns(r)
         \/ LinkLost \/ PopupCancels \/ Quiet
  BY DEF Next, Works, Working, Quiet

LEMMA IInvStep == IInv /\ [Next]_vars => IInv'
  BY NextSplit, OpenStep, CancelStep, ReturnStep, CancelAllStep, QuietStep

LEMMA IInvAlways == Spec => []IInv
  BY InitIInv, IInvStep, PTL DEF Spec

(* Slots are neither lost nor exceeded, whatever the limit, the ids and the     *)
(* order of cancellations and connections: pump and the finally of an operation *)
(* (provisioning.ts).                                                           *)
THEOREM SlotsAlwaysKept == Spec => []SlotsAreKept
<1>1. ASSUME IInv PROVE SlotsAreKept
  <2>1. RunningIds = {r \in Req : pc[r] # "idle"}
    BY <1>1 DEF RunningIds, IInv, QueueInv
  <2>2. {r \in Req : entry[r] = "queued"} = Range(queued)
    BY <1>1, RangeOf DEF IInv, Typed, QueueInv
  <2> QED BY <1>1, <2>1, <2>2 DEF SlotsAreKept, IInv, SlotInv
<1> QED BY <1>1, IInvAlways, PTL

----------------------------------------------------------------------------
(* Who asked hears                                                             *)

Heard == hear \subseteq Req /\ AskersAreAnswered

\* Whoever is still waiting was not told, and who was settled was told.
LEMMA ToldStep ==
  ASSUME Heard, NEW S \in SUBSET Req, Tell(S), Pending' = Pending \ S, UNCHANGED <<from, sock>>
  PROVE  Heard'
<1>1. hear' = hear \ {r \in S : from[r] = sock}
  BY DEF Tell
<1>2. \A r \in hear' : r \in Pending /\ r \notin S /\ from[r] = sock
  BY <1>1 DEF Heard, AskersAreAnswered, Pending
<1> QED BY <1>1, <1>2 DEF Heard, AskersAreAnswered, Pending

LEMMA HeardStep == IInv /\ Heard /\ [Next]_vars => Heard'
<1> SUFFICES ASSUME IInv, Heard, [Next]_vars PROVE Heard'
  OBVIOUS
<1>1. ASSUME NEW r \in Req, Open(r) PROVE Heard'
  <2>1. Pending' = Pending \cup {r}
    BY <1>1, OpenStep
  <2>2. /\ hear' = hear \cup {r} /\ sock' = sock
        /\ from' = [from EXCEPT ![r] = sock] /\ from \in [Req -> Nat]
    BY <1>1 DEF Open, IInv, Typed
  <2> QED BY <2>1, <2>2 DEF Heard, AskersAreAnswered, Pending
<1>2. ASSUME NEW r \in Req, Cancel(r) PROVE Heard'
  <2>1. UNCHANGED <<from, sock>>
    BY <1>2 DEF Cancel, CancelIds, link
  <2>2. PICK q \in {<<>>, <<r>>} :
          /\ entry' = [s \in Req |-> IF s \in Range(q) THEN "none" ELSE entry[s]]
          /\ Tell(Range(q))
    <3>1. CASE entry[r] = "queued"
      BY <1>2, <3>1 DEF Cancel, CancelIds
    <3>2. CASE entry[r] # "queued"
      BY <1>2, <3>2 DEF Cancel, CancelIds
    <3> QED BY <3>1, <3>2
  <2>3. Range(q) \in SUBSET Req
    BY <2>2 DEF Range
  <2>4. Pending' = Pending \ Range(q)
    BY <2>2 DEF Pending
  <2> QED BY <2>1, <2>2, <2>3, <2>4, ToldStep
<1>3. ASSUME NEW r \in Req, Returns(r) PROVE Heard'
  <2>1. Pending' = Pending \ {r}
    BY <1>3, ReturnStep
  <2>2. Tell({r}) /\ UNCHANGED <<from, sock>>
    BY <1>3 DEF Returns, Settle, link
  <2> QED BY <2>1, <2>2, ToldStep
<1>4. CASE PopupCancels
  <2>1. /\ entry' = [r \in Req |-> IF r \in Range(queued) THEN "none" ELSE entry[r]]
        /\ Tell(Range(queued)) /\ UNCHANGED <<from, sock>>
    BY <1>4 DEF PopupCancels, CancelIds
  <2>2. Range(queued) \in SUBSET Req
    BY RangeOf DEF IInv, Typed
  <2>3. Pending' = Pending \ Range(queued)
    BY <2>1 DEF Pending
  <2> QED BY <2>1, <2>2, <2>3, ToldStep
<1>5. CASE LinkLost \/ PopupDrops \/ LinkOpens
  BY <1>5 DEF LinkLost, PopupDrops, LinkOpens, Heard, AskersAreAnswered
<1>6. ASSUME UNCHANGED <<hear, entry, from, sock>> PROVE Heard'
  BY <1>6 DEF Heard, AskersAreAnswered
<1>7. ASSUME NEW r \in Req, Working(r) PROVE Heard'
  BY <1>6, <1>7, WorkingMoves DEF Still
<1>8. ASSUME NEW t \in Created, TabCloses(t) PROVE Heard'
  BY <1>6, <1>8 DEF TabCloses, results, link, queue
<1>9. CASE UNCHANGED vars
  BY <1>6, <1>9 DEF vars, results, link, queue
<1> QED BY <1>1, <1>2, <1>3, <1>4, <1>5, <1>7, <1>8, <1>9, NextSplit DEF Quiet

(* An open request accepted on the current connection has been answered on it   *)
(* or is pending, and its result will be sent on this connection                *)
(* (sendProvisioningResult and the connection it remembers, index.ts 846-925).  *)
THEOREM AskersAlwaysAnswered == Spec => []AskersAreAnswered
<1>1. Init => Heard
  BY DEF Init, Heard, AskersAreAnswered
<1>2. Heard => AskersAreAnswered
  BY DEF Heard
<1> QED BY <1>1, <1>2, IInvAlways, HeardStep, PTL DEF Spec

----------------------------------------------------------------------------
(* Nothing is done for a cancelled operation                                   *)

\* Whoever waits for the page's script or for the control has read a quiet signal.
CheckInv ==
    /\ acted \subseteq checked
    /\ \A r \in Req : pc[r] \in {"ensure", "command"} => r \in checked

\* Whatever starts, starts anew.
LEMMA PumpedCheck ==
  ASSUME IInv, NEW e, NEW q, NEW a, Pump(e, q, a), NEW r \in Req, pc'[r] \in {"ensure", "command"}
  PROVE  pc'[r] = pc[r]
<1> DEFINE n == IF Len(q) < MaxConcurrent - a THEN Len(q) ELSE MaxConcurrent - a
           go == {q[i] : i \in 1..n}
<1>1. pc' = [s \in Req |-> IF s \in go THEN "begin" ELSE IF e[s] = "none" THEN "idle" ELSE pc[s]]
  BY DEF Pump, Begin
<1> QED BY <1>1

LEMMA WorkingCheck ==
  ASSUME IInv, CheckInv, NEW r \in Req, Working(r)
  PROVE  CheckInv'
<1>1. \A s \in Req : s # r => pc'[s] = pc[s]
  BY WorkingMoves DEF Moves, IInv, Typed
<1>2. pc \in [Req -> Steps]
  BY DEF IInv, Typed
<1>3. CASE GenericChosen(r)
  <2>1. acted' = acted /\ checked \subseteq checked' /\ (pc'[r] \in {"ensure", "command"} => r \in checked')
    BY <1>2, <1>3 DEF GenericChosen, Finish, Goto
  <2> QED BY <2>1, <1>1 DEF CheckInv
<1>4. CASE GenericReset(r)
  <2>1. r \in checked /\ acted' \subseteq acted \cup {r} /\ checked' = checked /\ pc'[r] = "reset"
    BY <1>2, <1>4 DEF GenericReset, Acts, Goto, CheckInv
  <2> QED BY <2>1, <1>1 DEF CheckInv
<1>5. CASE GenericEnsured(r)
  <2>1. r \in checked /\ UNCHANGED <<acted, checked>>
    BY <1>5 DEF GenericEnsured, CheckInv, browser, past
  <2> QED BY <2>1, <1>1 DEF CheckInv
<1>6. CASE ~GenericChosen(r) /\ ~GenericReset(r) /\ ~GenericEnsured(r)
  <2>1. UNCHANGED <<acted, checked>>
    BY <1>6, WorkingMoves
  <2>2. pc'[r] \notin {"ensure", "command"}
    BY <1>2, <1>6 DEF Working, BeginNative, BusyConversation, SessionsRead, Planned, PreferredTab,
         CreateTab, CreateFails, PageRegistered, PageFails, GiveUp, StatusSent, SelectSession,
         BeginGeneric, GenericAnswered, GenericSession, Finish, Goto
  <2> QED BY <2>1, <2>2, <1>1 DEF CheckInv
<1> QED BY <1>3, <1>4, <1>5, <1>6

LEMMA CheckStep == IInv /\ CheckInv /\ [Next]_vars => CheckInv'
<1> SUFFICES ASSUME IInv, CheckInv, [Next]_vars PROVE CheckInv'
  OBVIOUS
<1>1. ASSUME NEW r \in Req, Open(r) PROVE CheckInv'
  <2>1. /\ Pump([entry EXCEPT ![r] = "queued"], Append(queued, r), active)
        /\ checked' = checked \ {r} /\ acted' = acted \ {r} /\ pc[r] = "idle"
    BY <1>1 DEF Open, IInv, QueueInv
  <2>2. \A s \in Req : pc'[s] \in {"ensure", "command"} => pc'[s] = pc[s]
    BY <2>1, PumpedCheck
  <2> QED BY <2>1, <2>2 DEF CheckInv
<1>2. ASSUME NEW r \in Req, Returns(r) PROVE CheckInv'
  <2>1. Pump([entry EXCEPT ![r] = "none"], queued, active - 1) /\ UNCHANGED <<acted, checked>>
    BY <1>2 DEF Returns, Settle, browser, past
  <2>2. \A s \in Req : pc'[s] \in {"ensure", "command"} => pc'[s] = pc[s]
    BY <2>1, PumpedCheck
  <2> QED BY <2>1, <2>2 DEF CheckInv
<1>3. ASSUME UNCHANGED <<pc, acted, checked>> PROVE CheckInv'
  BY <1>3 DEF CheckInv
<1>4. ASSUME NEW r \in Req, Cancel(r) PROVE CheckInv'
  BY <1>3, <1>4 DEF Cancel, CancelIds, runs, browser, past
<1>5. CASE LinkLost \/ PopupCancels
  BY <1>3, <1>5 DEF LinkLost, PopupCancels, CancelIds, runs, browser, past
<1>6. CASE PopupDrops \/ LinkOpens
  BY <1>3, <1>6 DEF PopupDrops, LinkOpens, runs, browser, past
<1>7. ASSUME NEW t \in Created, TabCloses(t) PROVE CheckInv'
  BY <1>3, <1>7 DEF TabCloses, runs, past
<1>8. CASE UNCHANGED vars
  BY <1>3, <1>8 DEF vars, runs, browser, past
<1> QED BY <1>1, <1>2, <1>4, <1>5, <1>6, <1>7, <1>8, WorkingCheck, NextSplit DEF Quiet

(* An operation that was cancelled while it awaited opens no tab, navigates     *)
(* none and presses nothing: every place that touches a tab has looked at the   *)
(* signal after the await before it (index.ts:746), except the new conversation *)
(* of a fresh generic open, whose signal was quiet when index.ts:679 read it.   *)
THEOREM NothingDoneAfterCancel == Spec => []NothingAfterCancel
<1>1. Init => CheckInv
  BY DEF Init, CheckInv
<1>2. CheckInv => NothingAfterCancel
  BY DEF CheckInv, NothingAfterCancel
<1> QED BY <1>1, <1>2, IInvAlways, CheckStep, PTL DEF Spec

----------------------------------------------------------------------------
(* The queue implements OpenPromise                                            *)

LEMMA SettledMaps ==
  ASSUME Typed, NEW r \in Req, r \in Pending, Pending' = Pending \ {r},
         NEW x \in Result, Remembers(<<r>>, x)
  PROVE  Promise!Settled(r)
<1>1. PICK old \in SUBSET Req :
        /\ r \notin old
        /\ kept' = [s \in Req |-> IF s \in old THEN None ELSE IF s = r THEN x ELSE kept[s]]
  BY DEF Remembers, Range
<1>2. old \in SUBSET (Req \ {r})
  BY <1>1
<1>3. kept' = [s \in Req |-> IF s = r THEN x ELSE IF s \in old THEN None ELSE kept[s]]
  BY <1>1
<1> QED BY <1>2, <1>3 DEF Promise!Settled, Pending

LEMMA TogetherMaps ==
  ASSUME Typed, queued # <<>>, Range(queued) \subseteq Pending, Pending' = Pending \ Range(queued),
         Remembers(queued, "cancelled")
  PROVE  Promise!SettledTogether
<1> DEFINE S == Range(queued)
           x == [r \in S |-> "cancelled"]
<1>1. PICK old \in SUBSET Req :
        /\ queued[Len(queued)] \notin old
        /\ kept' = [r \in Req |-> IF r \in old THEN None ELSE IF r \in S THEN "cancelled" ELSE kept[r]]
  BY DEF Remembers
<1>2. queued[Len(queued)] \in S
  BY RangeOf DEF Typed
<1>3. S \ old # {} /\ S \in SUBSET Pending
  BY <1>1, <1>2
<1>4. x \in [S -> Result]
  BY DEF Result
<1>5. kept' = [r \in Req |-> IF r \in old THEN None ELSE IF r \in S THEN x[r] ELSE kept[r]]
  BY <1>1
<1> HIDE DEF S, x
<1> QED BY <1>3, <1>4, <1>5 DEF Promise!SettledTogether, Pending, S

LEMMA PromiseStep == IInv /\ [Next]_vars => [Promise!Next]_(Promise!vars)
<1> SUFFICES ASSUME IInv, [Next]_vars PROVE Promise!Next \/ UNCHANGED <<Pending, kept>>
  BY DEF Promise!vars, Pending
<1>1. ASSUME NEW r \in Req, Open(r) PROVE Promise!Next
  <2>1. Promise!Ask(r)
    BY <1>1, OpenStep DEF Promise!Ask, Pending
  <2> QED BY <2>1 DEF Promise!Next
<1>2. ASSUME NEW r \in Req, Cancel(r) PROVE Promise!Next \/ UNCHANGED <<Pending, kept>>
  <2>1. "cancelled" \in Result
    BY DEF Result
  <2> QED BY <1>2, <2>1, CancelStep, SettledMaps DEF IInv, Promise!Next
<1>3. ASSUME NEW r \in Req, Returns(r) PROVE Promise!Next
  BY <1>3, ReturnStep, SettledMaps DEF IInv, Promise!Next
<1>4. ASSUME LinkLost \/ PopupCancels PROVE Promise!Next \/ UNCHANGED <<Pending, kept>>
  BY <1>4, CancelAllStep, TogetherMaps DEF IInv, Promise!Next
<1>5. ASSUME Quiet PROVE UNCHANGED <<Pending, kept>>
  BY <1>5, QuietStep DEF Pending
<1> QED BY <1>1, <1>2, <1>3, <1>4, <1>5, NextSplit

(* Every behaviour of the queue, with its cancellations and lost connections,   *)
(* is one the controller was promised: no id is settled that was not pending,   *)
(* and one that is settled has a result to be sent again (the safety part of    *)
(* KeepsThePromise).                                                            *)
THEOREM ImplementsThePromise == Spec => Promise!Init /\ [][Promise!Next]_(Promise!vars)
<1>1. Init => Promise!Init
  BY DEF Init, Promise!Init
<1> QED BY <1>1, IInvAlways, PromiseStep, PTL DEF Spec

----------------------------------------------------------------------------
(* Markers and the tabs they are of                                            *)

Plans == {"none", "reuse", "refuse", "navigate"}

Sites == [conv : Conv \cup {None}, state : {"absent", "loading", "ready", "notReady"}]

TabTyped ==
    /\ want \in [Req -> Wish] /\ plan \in [Req -> Plans]
    /\ markers \in Seq(Created) /\ made \in [Req -> Created \cup {None}]
    /\ tabs \in [Tab -> Sites]

\* An operation has no tab before it creates one.
Unmade ==
    \A r \in Req : entry[r] = "queued" \/ pc[r] \in {"begin", "plan", "lookup", "create"} => made[r] = None

\* A Map has one marker of a tab.
MarkedOpen(q, ts) == IsInjective(q) /\ \A t \in Range(q) : ts[t].state # "absent"

\* Only the tab of a new conversation is marked.
MarkedNew(q, p, m) == \A r \in Req : p[r] # "none" => m[r] \notin Range(q)

MarkInv == TabTyped /\ Unmade /\ MarkedOpen(markers, tabs) /\ MarkedNew(markers, plan, made)

LEMMA UnmarkedIs ==
  ASSUME markers \in Seq(Created), IsInjective(markers), NEW t
  PROVE  /\ Unmarked(t) \in Seq(Created) /\ IsInjective(Unmarked(t))
         /\ Range(Unmarked(t)) = Range(markers) \ {t}
<1>1. CASE t \in Range(markers)
  BY <1>1, Spliced DEF Unmarked
<1>2. CASE t \notin Range(markers)
  <2>1. ~ \E i \in 1 .. Len(markers) : markers[i] = t
    BY <1>2, RangeIn
  <2>2. Unmarked(t) = markers
    BY <2>1 DEF Unmarked, RemoveFirst
  <2> QED BY <1>2, <2>2
<1> QED BY <1>1, <1>2

\* The tab of r is new, and has no marker yet.
LEMMA MarkedIs ==
  ASSUME markers \in Seq(Created), IsInjective(markers), NEW r, NEW t \in Created, t \notin Range(markers)
  PROVE  /\ Marked(r, t) \in Seq(Created) /\ IsInjective(Marked(r, t))
         /\ Range(Marked(r, t)) \subseteq Range(markers) \cup {t}
         /\ plan[r] # "none" => Marked(r, t) = markers
<1>1. CASE plan[r] # "none"
  BY <1>1 DEF Marked
<1>2. CASE plan[r] = "none"
  <2> DEFINE room == IF Len(markers) < MaxMarkers THEN markers ELSE Tail(markers)
  <2>1. room \in Seq(Created) /\ IsInjective(room) /\ Range(room) \subseteq Range(markers)
    <3>1. CASE Len(markers) < MaxMarkers
      BY <3>1
    <3>2. CASE ~(Len(markers) < MaxMarkers)
      <4>1. markers # <<>> /\ Len(markers) \in Nat \ {0}
        BY <3>2, ProvisioningAssumption
      <4>2. /\ Tail(markers) \in Seq(Created) /\ Len(Tail(markers)) = Len(markers) - 1
            /\ \A i \in 1 .. Len(Tail(markers)) : Tail(markers)[i] = markers[i + 1] /\ i + 1 \in 1 .. Len(markers)
        BY <4>1
      <4>3. IsInjective(Tail(markers))
        <5>1. \A i, j \in 1 .. Len(markers) : markers[i] = markers[j] => i = j
          BY DEF IsInjective
        <5>2. ASSUME NEW i \in 1 .. Len(Tail(markers)), NEW j \in 1 .. Len(Tail(markers)),
                     Tail(markers)[i] = Tail(markers)[j]
              PROVE  i = j
          <6>1. i + 1 = j + 1
            BY <4>2, <5>1, <5>2
          <6> QED BY <4>1, <4>2, <6>1
        <5> QED BY <4>2, <5>2 DEF IsInjective
      <4>4. Range(Tail(markers)) \subseteq Range(markers)
        <5>1. \A x : x \in Range(Tail(markers)) <=> \E i \in 1 .. Len(Tail(markers)) : Tail(markers)[i] = x
          BY <4>2, RangeIn, Zenon
        <5>2. \A x : x \in Range(markers) <=> \E i \in 1 .. Len(markers) : markers[i] = x
          BY RangeIn, Zenon
        <5> QED BY <4>2, <5>1, <5>2
      <4> QED BY <3>2, <4>2, <4>3, <4>4
    <3> QED BY <3>1, <3>2
  <2>2. Marked(r, t) = Append(room, t)
    BY <1>2 DEF Marked
  <2> HIDE DEF room
  <2>3. /\ Append(room, t) \in Seq(Created) /\ Len(Append(room, t)) = Len(room) + 1 /\ Len(room) \in Nat
        /\ Append(room, t)[Len(room) + 1] = t
        /\ \A i \in 1 .. Len(room) : Append(room, t)[i] = room[i]
    BY <2>1
  <2> DEFINE all == Append(room, t)
  <2> HIDE DEF all
  <2>4. /\ all \in Seq(Created) /\ Len(all) = Len(room) + 1 /\ Len(room) \in Nat
        /\ all[Len(room) + 1] = t /\ \A i \in 1 .. Len(room) : all[i] = room[i]
        /\ \A i \in 1 .. Len(all) : i = Len(room) + 1 \/ i \in 1 .. Len(room)
    BY <2>3 DEF all
  <2>5. \A i \in 1 .. Len(room) : room[i] \in Range(markers) /\ room[i] # t
    BY <2>1, RangeIn
  <2>6. \A i, j \in 1 .. Len(room) : room[i] = room[j] => i = j
    BY <2>1 DEF IsInjective
  <2>7. IsInjective(all)
    BY <2>4, <2>5, <2>6 DEF IsInjective
  <2>8. Range(all) \subseteq Range(markers) \cup {t}
    BY <2>4, <2>5, RangeIn
  <2> QED BY <1>2, <2>2, <2>4, <2>7, <2>8 DEF all
<1> QED BY <1>1, <1>2

\* No tab closes, and markers may go.
LEMMA MarkKept ==
  ASSUME MarkInv, UNCHANGED <<plan, made>>, Unmade',
         markers' \in Seq(Created), IsInjective(markers'), Range(markers') \subseteq Range(markers),
         TabTyped', \A t \in Range(markers') : tabs'[t].state # "absent"
  PROVE  MarkInv'
<1>1. MarkedOpen(markers, tabs)' /\ MarkedNew(markers, plan, made)'
  BY DEF MarkInv, MarkedOpen, MarkedNew
<1> QED BY <1>1 DEF MarkInv

LEMMA WantKept == [Next]_vars => UNCHANGED want
<1> SUFFICES ASSUME [Next]_vars PROVE UNCHANGED want
  OBVIOUS
<1>1. ASSUME NEW r \in Req, Open(r) \/ Cancel(r) \/ Returns(r) PROVE UNCHANGED want
  BY <1>1 DEF Open, Cancel, Returns, link
<1>2. CASE LinkLost \/ PopupCancels \/ PopupDrops \/ LinkOpens
  BY <1>2 DEF LinkLost, PopupCancels, PopupDrops, LinkOpens
<1>3. ASSUME NEW r \in Req, Working(r) PROVE UNCHANGED want
  BY <1>3 DEF Working, BeginNative, BusyConversation, SessionsRead, PreferredTab, CreateTab,
       CreateFails, PageRegistered, PageFails, StatusSent, SelectSession, BeginGeneric,
       GenericChosen, GenericEnsured, GenericReset, GenericAnswered, GenericSession, link
<1>4. ASSUME NEW t \in Created, TabCloses(t) PROVE UNCHANGED want
  BY <1>4 DEF TabCloses, link
<1>5. CASE UNCHANGED vars
  BY <1>5 DEF vars, link
<1> QED BY <1>1, <1>2, <1>3, <1>4, <1>5, NextSplit DEF Quiet

\* An operation that goes on to a step before chrome.tabs.create still has no tab.
LEMMA UnmadeMoves ==
  ASSUME IInv, Unmade, NEW r \in Req, pc[r] # "idle", UNCHANGED entry,
         NEW l, pc' = [pc EXCEPT ![r] = l],
         \A s \in Req : s # r => made'[s] = made[s],
         l \in {"begin", "plan", "lookup", "create"} => made'[r] = None
  PROVE  Unmade'
<1>1. entry[r] # "queued" /\ pc \in [Req -> Steps]
  BY DEF IInv, QueueInv, Typed
<1> QED BY <1>1 DEF Unmade

\* Operations that only move on: their tab, its plan and the markers stay.
LEMMA IdleMark ==
  ASSUME IInv, MarkInv, NEW r \in Req, want' = want,
         \/ BeginNative(r) \/ BusyConversation(r) \/ SelectSession(r)
         \/ CreateFails(r) \/ BeginGeneric(r) \/ GenericChosen(r) \/ GenericEnsured(r)
         \/ GenericReset(r) \/ GenericAnswered(r) \/ GenericSession(r)
  PROVE  MarkInv'
<1>1. UNCHANGED <<plan, made, markers, tabs, entry>> /\ pc[r] # "idle"
  BY DEF BeginNative, BusyConversation, SelectSession, CreateFails, BeginGeneric, GenericChosen,
         GenericEnsured, GenericReset, GenericAnswered, GenericSession, browser, queue, Begin
<1>2. \E l : pc' = [pc EXCEPT ![r] = l] /\ (l \in {"begin", "plan", "lookup", "create"} => pc[r] = "begin")
  BY DEF BeginNative, BusyConversation, SelectSession, CreateFails, BeginGeneric, GenericChosen,
         GenericEnsured, GenericReset, GenericAnswered, GenericSession, Finish, Goto, Begin
<1>3. Unmade'
  <2>1. pc[r] = "begin" => made[r] = None
    BY DEF MarkInv, Unmade
  <2> QED BY <1>1, <1>2, <2>1, UnmadeMoves DEF MarkInv
<1>4. TabTyped' /\ MarkedOpen(markers, tabs)' /\ MarkedNew(markers, plan, made)'
  BY <1>1 DEF MarkInv, TabTyped, MarkedOpen, MarkedNew
<1> QED BY <1>3, <1>4 DEF MarkInv

LEMMA PlannedMark ==
  ASSUME IInv, MarkInv, NEW r \in Req, want' = want, SessionsRead(r)
  PROVE  MarkInv'
<1>1. /\ pc[r] = "plan" /\ UNCHANGED <<made, markers, tabs, entry>>
  BY DEF SessionsRead, queue
<1>2. PICK front \in Tab : \E p \in ReopenPlan(r, front) : Planned(r, p)
  BY DEF SessionsRead
<1>p. PICK p \in ReopenPlan(r, front) : Planned(r, p)
  BY <1>2
<1>3. p[1] \in Plans
  BY <1>p DEF ReopenPlan, Plans
<1>4. plan' = [plan EXCEPT ![r] = p[1]] /\ \E l : pc' = [pc EXCEPT ![r] = l]
  BY <1>p DEF Planned, Finish, Goto
<1>5. made[r] = None
  BY <1>1 DEF MarkInv, Unmade
<1>6. Unmade'
  BY <1>1, <1>4, <1>5, UnmadeMoves DEF MarkInv
<1>7. TabTyped' /\ MarkedOpen(markers, tabs)'
  BY <1>1, <1>3, <1>4 DEF MarkInv, TabTyped, MarkedOpen
<1>8. MarkedNew(markers, plan, made)'
  <2>1. None \notin Range(markers)
    <3>1. Range(markers) \subseteq Created
      BY RangeIn DEF MarkInv, TabTyped
    <3> QED BY <3>1, ProvisioningAssumption DEF Tab
  <2>2. \A s \in Req : s # r => plan'[s] = plan[s]
    BY <1>4 DEF MarkInv, TabTyped
  <2> QED BY <1>1, <1>5, <2>1, <2>2 DEF MarkInv, MarkedNew
<1> QED BY <1>6, <1>7, <1>8 DEF MarkInv

LEMMA CreatedMark ==
  ASSUME IInv, MarkInv, NEW r \in Req, want' = want, CreateTab(r)
  PROVE  MarkInv'
<1>1. PICK t \in FreeTab :
        /\ tabs' = [tabs EXCEPT ![t] = [conv |-> IF plan[r] = "navigate" THEN Identity(r) ELSE Start, state |-> "loading"]]
        /\ made' = [made EXCEPT ![r] = t] /\ markers' = Marked(r, t)
  BY DEF CreateTab
<1>2. /\ pc[r] = "create" /\ pc' = [pc EXCEPT ![r] = "page"] /\ UNCHANGED <<plan, entry>>
  BY DEF CreateTab, Goto, queue
<1>3. /\ t \in Created /\ tabs[t].state = "absent" /\ \A q \in Req : made[q] # t
  BY DEF FreeTab
<1>4. t \notin Range(markers) /\ markers \in Seq(Created) /\ IsInjective(markers)
  BY <1>3 DEF MarkInv, MarkedOpen, TabTyped
<1>5. /\ markers' \in Seq(Created) /\ IsInjective(markers')
      /\ Range(markers') \subseteq Range(markers) \cup {t}
      /\ plan[r] # "none" => markers' = markers
  BY <1>1, <1>3, <1>4, MarkedIs
<1>6. tabs' \in [Tab -> Sites] /\ tabs'[t].state = "loading" /\ \A u \in Tab : u # t => tabs'[u] = tabs[u]
  <2>1. Identity(r) \in Conv \cup {None} /\ Start \in Conv
    BY ProvisioningAssumption DEF MarkInv, TabTyped, Wish, Identity
  <2>2. [conv |-> IF plan[r] = "navigate" THEN Identity(r) ELSE Start, state |-> "loading"] \in Sites
    BY <2>1 DEF Sites
  <2>3. tabs \in [Tab -> Sites] /\ t \in Tab
    BY <1>3 DEF MarkInv, TabTyped, Tab
  <2> QED BY <1>1, <2>2, <2>3
<1>7. TabTyped'
  BY <1>1, <1>2, <1>3, <1>5, <1>6 DEF MarkInv, TabTyped
<1>8. MarkedOpen(markers, tabs)'
  <2>1. Range(markers) \subseteq Tab
    BY RangeIn, <1>4 DEF Tab
  <2> QED BY <1>5, <1>6, <2>1 DEF MarkInv, MarkedOpen
<1>9. MarkedNew(markers, plan, made)'
  <2>1. made' \in [Req -> Created \cup {None}] /\ \A q \in Req : q # r => made'[q] = made[q] /\ made[q] # t
    BY <1>1, <1>3 DEF MarkInv, TabTyped
  <2>2. made'[r] = t
    BY <1>1 DEF MarkInv, TabTyped
  <2> QED BY <1>2, <1>4, <1>5, <2>1, <2>2 DEF MarkInv, MarkedNew
<1>10. Unmade'
  <2>1. \A q \in Req : q # r => made'[q] = made[q]
    BY <1>1 DEF MarkInv, TabTyped
  <2> QED BY <1>2, <2>1, UnmadeMoves DEF MarkInv
<1> QED BY <1>7, <1>8, <1>9, <1>10 DEF MarkInv

\* The person's tab is navigated, and a page registers: both tabs stay open.
LEMMA LoadedMark ==
  ASSUME IInv, MarkInv, NEW r \in Req, want' = want, PreferredTab(r) \/ PageRegistered(r)
  PROVE  MarkInv'
<1>1. /\ UNCHANGED <<plan, made, markers, entry>> /\ pc[r] # "idle"
      /\ \E l : pc' = [pc EXCEPT ![r] = l] /\ (l \in {"begin", "plan", "lookup", "create"} => pc[r] = "lookup")
  BY DEF PreferredTab, PageRegistered, Finish, Goto, queue
<1>2. /\ tabs' \in [Tab -> Sites]
      /\ \A t \in Tab : tabs[t].state # "absent" => tabs'[t].state # "absent"
  <2>1. tabs \in [Tab -> Sites] /\ Start \in Conv
    BY ProvisioningAssumption DEF MarkInv, TabTyped
  <2>2. CASE PreferredTab(r)
    <3>1. tabs' = tabs \/ tabs' = [tabs EXCEPT ![Own] = [conv |-> Start, state |-> "loading"]]
      BY <2>2 DEF PreferredTab
    <3> QED BY <2>1, <3>1 DEF Sites
  <2>3. CASE PageRegistered(r)
    <3>1. PICK s \in {"ready", "notReady"}, c \in {tabs[goal[r]].conv, Start} :
            tabs' = [tabs EXCEPT ![goal[r]] = [conv |-> c, state |-> s]]
      BY <2>3 DEF PageRegistered
    <3>2. goal[r] \in Tab => c \in Conv \cup {None}
      BY <2>1 DEF Sites
    <3>3. goal[r] \in Tab => [conv |-> c, state |-> s] \in Sites
      BY <3>2 DEF Sites
    <3> QED BY <2>1, <3>1, <3>3
  <2> QED BY <2>2, <2>3
<1>3. Unmade'
  <2>1. pc[r] = "lookup" => made[r] = None
    BY DEF MarkInv, Unmade
  <2> QED BY <1>1, <2>1, UnmadeMoves DEF MarkInv
<1>4. TabTyped'
  BY <1>1, <1>2 DEF MarkInv, TabTyped
<1>5. Range(markers) \subseteq Tab
  BY RangeIn DEF MarkInv, TabTyped, Tab
<1>6. MarkedOpen(markers, tabs)' /\ MarkedNew(markers, plan, made)'
  BY <1>1, <1>2, <1>5 DEF MarkInv, MarkedOpen, MarkedNew
<1> QED BY <1>3, <1>4, <1>6 DEF MarkInv

\* The tab of r closes, and has no marker any more.
LEMMA ClosedMark ==
  ASSUME MarkInv, Unmade', want' = want, UNCHANGED <<plan, made>>, NEW t,
         \/ markers' = Unmarked(t)
         \/ markers' = markers /\ t \notin Range(markers)
         \/ markers' = markers /\ tabs' = tabs,
         tabs' = tabs \/ tabs' = [tabs EXCEPT ![t] = [conv |-> None, state |-> "absent"]]
  PROVE  MarkInv'
<1>1. markers \in Seq(Created) /\ IsInjective(markers) /\ tabs \in [Tab -> Sites]
  BY DEF MarkInv, TabTyped, MarkedOpen
<1>2. /\ Unmarked(t) \in Seq(Created) /\ IsInjective(Unmarked(t))
      /\ Range(Unmarked(t)) = Range(markers) \ {t}
  BY <1>1, UnmarkedIs
<1>3. /\ markers' \in Seq(Created) /\ IsInjective(markers') /\ Range(markers') \subseteq Range(markers)
      /\ t \notin Range(markers') \/ tabs' = tabs
  BY <1>1, <1>2
<1>4. tabs' \in [Tab -> Sites] /\ \A u \in Tab : u # t => tabs'[u] = tabs[u]
  BY <1>1 DEF Sites
<1>5. TabTyped'
  BY <1>3, <1>4 DEF MarkInv, TabTyped
<1>6. Range(markers) \subseteq Tab
  BY RangeIn, <1>1 DEF Tab
<1>7. \A u \in Range(markers') : tabs'[u].state # "absent"
  BY <1>3, <1>4, <1>6 DEF MarkInv, MarkedOpen
<1> QED BY <1>3, <1>5, <1>7, MarkKept

LEMMA EndedMark ==
  ASSUME IInv, MarkInv, NEW r \in Req, want' = want, PageFails(r) \/ StatusSent(r)
  PROVE  MarkInv'
<1>1. /\ UNCHANGED <<plan, made, entry>> /\ pc[r] # "idle"
      /\ \E l : pc' = [pc EXCEPT ![r] = l] /\ l \notin {"begin", "plan", "lookup", "create"}
  BY DEF PageFails, GiveUp, StatusSent, Finish, Goto, queue
<1>2. Unmade'
  BY <1>1, UnmadeMoves DEF MarkInv
<1>3. CASE PageFails(r)
  <2>1. /\ markers' = IF made[r] = None THEN markers ELSE Unmarked(made[r])
        /\ tabs' = IF made[r] # None /\ r \in aborted
                   THEN [tabs EXCEPT ![made[r]] = [conv |-> None, state |-> "absent"]] ELSE tabs
    BY <1>3 DEF PageFails, GiveUp
  <2> QED BY <1>1, <1>2, <2>1, ClosedMark
<1>4. CASE StatusSent(r)
  <2>1. /\ markers' = markers \/ markers' = Unmarked(made[r])
        /\ \/ tabs' = tabs
           \/ /\ plan[r] = "navigate"
              /\ tabs' = [tabs EXCEPT ![made[r]] = [conv |-> None, state |-> "absent"]]
    BY <1>4 DEF StatusSent
  <2>2. plan[r] = "navigate" => made[r] \notin Range(markers)
    BY DEF MarkInv, MarkedNew
  <2> QED BY <1>1, <1>2, <2>1, <2>2, ClosedMark
<1> QED BY <1>3, <1>4

\* pump begins only what was queued.
LEMMA PumpBegins ==
  ASSUME NEW e, NEW q, NEW a, PumpReady(e, q, a), Pump(e, q, a)
  PROVE  \A r \in Req : /\ entry'[r] = "queued" => e[r] = "queued"
                        /\ pc'[r] = pc[r] \/ pc'[r] = "idle" \/ (pc'[r] = "begin" /\ e[r] = "queued")
                        /\ e[r] = "none" => pc'[r] = "idle"
<1> DEFINE n == IF Len(q) < MaxConcurrent - a THEN Len(q) ELSE MaxConcurrent - a
           go == {q[i] : i \in 1 .. n}
<1>1. /\ entry' = [r \in Req |-> IF r \in go THEN "running" ELSE e[r]]
      /\ pc' = [r \in Req |-> IF r \in go THEN "begin" ELSE IF e[r] = "none" THEN "idle" ELSE pc[r]]
  BY DEF Pump, Begin
<1>2. n \in 0 .. Len(q) /\ q \in Seq(Req)
  BY FS_CardinalityType, Limits DEF PumpReady
<1>3. \A r \in go : e[r] = "queued"
  <2>1. go \subseteq Range(q)
    <3>1. \A i \in 1 .. n : i \in 1 .. Len(q)
      BY <1>2
    <3> QED BY <1>2, <3>1, RangeOf
  <2>2. Range(q) \subseteq Req
    BY <1>2, RangeOf
  <2> QED BY <2>1, <2>2 DEF PumpReady
<1> HIDE DEF go, n
<1> QED BY <1>1, <1>3

\* Operations begin without a tab, and one that is asked for again forgets the tab it had.
LEMMA PumpMark ==
  ASSUME IInv, MarkInv, want' = want, UNCHANGED <<tabs, markers>>, NEW e, NEW q, NEW a, PumpReady(e, q, a), Pump(e, q, a),
         NEW r \in Req,
         \A s \in Req : s # r => e[s] = entry[s] /\ plan'[s] = plan[s] /\ made'[s] = made[s],
         \/ e[r] = "none" /\ UNCHANGED <<plan, made>>
         \/ /\ plan' = [plan EXCEPT ![r] = "none"] /\ made' = [made EXCEPT ![r] = None]
            /\ pc[r] = "idle"
  PROVE  MarkInv'
<1>1. \A s \in Req : /\ entry'[s] = "queued" => e[s] = "queued"
                     /\ pc'[s] = pc[s] \/ pc'[s] = "idle" \/ (pc'[s] = "begin" /\ e[s] = "queued")
                     /\ e[s] = "none" => pc'[s] = "idle"
  BY PumpBegins
<1>2. UNCHANGED <<markers, tabs>>
  BY DEF browser
<1>3. e[r] # "none" => made'[r] = None /\ plan'[r] = "none"
  BY DEF MarkInv, TabTyped
<1>4. Unmade'
  <2> SUFFICES ASSUME NEW s \in Req,
                      entry'[s] = "queued" \/ pc'[s] \in {"begin", "plan", "lookup", "create"}
               PROVE  made'[s] = None
    BY DEF Unmade
  <2>1. CASE s # r
    BY <1>1, <2>1 DEF MarkInv, Unmade
  <2>2. CASE s = r /\ e[r] # "none"
    BY <1>3, <2>2
  <2>3. CASE s = r /\ e[r] = "none"
    <3>1. pc'[r] = "idle"
      BY <1>1, <2>3
    <3> QED BY <1>1, <2>3, <3>1
  <2> QED BY <2>1, <2>2, <2>3
<1>5. TabTyped'
  BY <1>2 DEF MarkInv, TabTyped, Plans
<1>6. None \notin Range(markers)
  <2>1. Range(markers) \subseteq Created
    BY RangeIn DEF MarkInv, TabTyped
  <2> QED BY <2>1, ProvisioningAssumption DEF Tab
<1>7. MarkedOpen(markers, tabs)' /\ MarkedNew(markers, plan, made)'
  <2>1. \A s \in Req : plan'[s] # "none" => made'[s] = None \/ (plan'[s] = plan[s] /\ made'[s] = made[s])
    BY DEF MarkInv, TabTyped
  <2> QED BY <1>2, <1>6, <2>1 DEF MarkInv, MarkedOpen, MarkedNew
<1> QED BY <1>4, <1>5, <1>7 DEF MarkInv

LEMMA OpenMark ==
  ASSUME IInv, MarkInv, NEW r \in Req, want' = want, Open(r)
  PROVE  MarkInv'
<1> DEFINE e == [entry EXCEPT ![r] = "queued"]
           q == Append(queued, r)
<1>1. PumpReady(e, q, active)
  BY OpenReady
<1>2. /\ Pump(e, q, active) /\ UNCHANGED <<tabs, markers>>
      /\ plan' = [plan EXCEPT ![r] = "none"] /\ made' = [made EXCEPT ![r] = None]
      /\ entry[r] = "none"
  BY DEF Open
<1>3. pc[r] = "idle"
  BY <1>2 DEF IInv, QueueInv
<1>4. \A s \in Req : s # r => e[s] = entry[s] /\ plan'[s] = plan[s] /\ made'[s] = made[s]
  BY <1>2 DEF IInv, Typed, MarkInv, TabTyped
<1> HIDE DEF e, q
<1> QED BY <1>1, <1>2, <1>3, <1>4, PumpMark

LEMMA ReturnMark ==
  ASSUME IInv, MarkInv, NEW r \in Req, want' = want, Returns(r)
  PROVE  MarkInv'
<1> DEFINE e == [entry EXCEPT ![r] = "none"]
<1>1. pc[r] = "end" /\ PumpReady(e, queued, active - 1)
  BY SettleReady DEF Returns
<1>2. Pump(e, queued, active - 1) /\ UNCHANGED <<tabs, markers, plan, made>>
  BY DEF Returns, Settle, browser
<1>3. e[r] = "none" /\ \A s \in Req : s # r => e[s] = entry[s]
  BY DEF IInv, Typed
<1> HIDE DEF e
<1> QED BY <1>1, <1>2, <1>3, PumpMark

\* Cancellations, connections, and the person closing a tab.
LEMMA OtherMark ==
  ASSUME IInv, MarkInv, want' = want,
         \/ \E r \in Req : Cancel(r)
         \/ LinkLost \/ PopupCancels \/ PopupDrops \/ LinkOpens
         \/ \E t \in Created : TabCloses(t)
         \/ UNCHANGED vars
  PROVE  MarkInv'
<1>1. UNCHANGED <<plan, made, pc>>
  BY DEF Cancel, CancelIds, LinkLost, PopupCancels, PopupDrops, LinkOpens, TabCloses, vars, runs
<1>2. \A r \in Req : entry'[r] = "queued" => entry[r] = "queued"
  BY DEF Cancel, CancelIds, LinkLost, PopupCancels, PopupDrops, LinkOpens, TabCloses, vars, queue
<1>3. Unmade'
  BY <1>1, <1>2 DEF MarkInv, Unmade
<1>4. ASSUME UNCHANGED tabs, markers' \in {markers, <<>>} PROVE MarkInv'
  <2>1. /\ markers' \in Seq(Created) /\ IsInjective(markers') /\ Range(markers') \subseteq Range(markers)
    <3>1. <<>> \in Seq(Created) /\ IsInjective(<<>>) /\ Range(<<>>) = {}
      BY DEF IsInjective, Range
    <3> QED BY <1>4, <3>1 DEF MarkInv, MarkedOpen, TabTyped
  <2>2. TabTyped'
    BY <1>1, <1>4, <2>1 DEF MarkInv, TabTyped
  <2>3. \A t \in Range(markers') : tabs'[t].state # "absent"
    BY <1>4, <2>1 DEF MarkInv, MarkedOpen
  <2> QED BY <1>1, <1>3, <2>1, <2>2, <2>3, MarkKept
<1>5. CASE \/ \E r \in Req : Cancel(r)
           \/ LinkLost \/ PopupCancels \/ PopupDrops \/ LinkOpens \/ UNCHANGED vars
  BY <1>4, <1>5 DEF Cancel, LinkLost, PopupCancels, PopupDrops, LinkOpens, vars, browser
<1>6. ASSUME NEW t \in Created, TabCloses(t) PROVE MarkInv'
  BY <1>1, <1>3, <1>6, ClosedMark DEF TabCloses
<1> QED BY <1>5, <1>6

LEMMA MarkStep == IInv /\ MarkInv /\ [Next]_vars => MarkInv'
<1> SUFFICES ASSUME IInv, MarkInv, [Next]_vars PROVE MarkInv'
  OBVIOUS
<1>1. want' = want
  BY WantKept
<1>2. ASSUME NEW r \in Req, Working(r) PROVE MarkInv'
  BY <1>1, <1>2, IdleMark, PlannedMark, CreatedMark, LoadedMark, EndedMark DEF Working
<1>3. ASSUME NEW r \in Req, Open(r) \/ Cancel(r) \/ Returns(r) PROVE MarkInv'
  BY <1>1, <1>3, OpenMark, ReturnMark, OtherMark
<1>4. CASE LinkLost \/ PopupCancels \/ PopupDrops \/ LinkOpens \/ (\E t \in Created : TabCloses(t)) \/ UNCHANGED vars
  BY <1>1, <1>4, OtherMark
<1> QED BY <1>2, <1>3, <1>4, NextSplit DEF Quiet

LEMMA InitMark == Init => MarkInv
<1> SUFFICES ASSUME Init PROVE MarkInv
  OBVIOUS
<1>1. /\ markers = <<>> /\ want \in Wants /\ plan = [r \in Req |-> "none"] /\ made = [r \in Req |-> None]
      /\ tabs = [t \in Tab |-> IF t = Own THEN [conv |-> Start, state |-> "ready"]
                               ELSE [conv |-> None, state |-> "absent"]]
  BY DEF Init
<1>2. tabs \in [Tab -> Sites]
  <2>1. [conv |-> Start, state |-> "ready"] \in Sites /\ [conv |-> None, state |-> "absent"] \in Sites
    BY ProvisioningAssumption DEF Sites
  <2> QED BY <1>1, <2>1
<1>3. TabTyped
  <2>1. want \in [Req -> Wish] /\ markers \in Seq(Created)
    BY <1>1, ProvisioningAssumption
  <2> QED BY <1>1, <1>2, <2>1 DEF TabTyped, Plans
<1>4. IsInjective(markers) /\ Range(markers) = {}
  BY <1>1 DEF IsInjective, Range
<1> QED BY <1>1, <1>3, <1>4 DEF MarkInv, Unmade, MarkedOpen, MarkedNew

(* Every provisional marker is of a tab that is open, one of each tab, however  *)
(* the operation that opened the tab ends: refused, failed, cancelled, or its   *)
(* tab closed by the person (closeCreatedTab, the catch of                      *)
(* provisionProviderConversation, the onRemoved listener).                      *)
THEOREM MarkersAlwaysOpen == Spec => []MarkersAreOpenTabs
<1>1. ASSUME MarkInv PROVE MarkersAreOpenTabs
  <2>1. \A i \in DOMAIN markers : markers[i] \in Range(markers)
    BY <1>1 DEF Range
  <2> QED BY <1>1, <2>1 DEF MarkInv, MarkedOpen, MarkersAreOpenTabs, IsOpen
<1>2. Init => IInv /\ MarkInv
  BY InitIInv, InitMark
<1>3. IInv /\ MarkInv /\ [Next]_vars => IInv' /\ MarkInv'
  BY IInvStep, MarkStep
<1> QED BY <1>1, <1>2, <1>3, PTL DEF Spec
=============================================================================
