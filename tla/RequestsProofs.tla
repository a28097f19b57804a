--------------------------- MODULE RequestsProofs ---------------------------
(* Theorems about Requests, for every set of requests, Stops, ids and       *)
(* sessions and every bound.                                                *)
EXTENDS Requests, SequenceTheorems, TLAPS

-----------------------------------------------------------------------------
(* Types. *)

\* A Stop that was sent to a page knows which request it is for.
StopHasTarget == \A x \in Stop : stop[x].pc = "asked" => stop[x].target \in Send

Typed == TypeOK /\ StopHasTarget

LEMMA ConstantTypes ==
    /\ \A s \in Send : idOf[s] \in Id /\ sessionOf[s] \in Session /\ s # None
    /\ \A x \in Stop : x # None
    /\ None \notin Id
    /\ 0 \in 0..MaxConns /\ 0 \in 0..MaxPopups
  BY SendAssumption, BoundAssumption

LEMMA InitTyped == Init => Typed
<1> SUFFICES ASSUME Init PROVE Typed
  OBVIOUS
<1>1. conn \in 0..MaxConns /\ conns \in 0..MaxConns /\ popups \in 0..MaxPopups
  BY ConstantTypes DEF Init
<1>0. popup \in BOOLEAN
  BY DEF Init
<1>2. queue \in Seq(Send \cup Stop) /\ serving \in Send \cup Stop \cup {None}
  BY DEF Init
<1>3. bySession \in [Session -> Id \cup {None}] /\ pc \in [Send -> HandlerPC]
  BY DEF Init, HandlerPC
<1>4. stop \in [Stop -> [pc : StopPC, id : Id \cup {None}, matches : BOOLEAN,
                         target : Send \cup {None}, answer : Answer]]
  BY DEF Init, StopPC, Answer
<1>5. report \in [Send -> [pc : Report, found : BOOLEAN]]
  BY DEF Init, Report
<1>6. /\ page \in [Send -> PageState] /\ reply \in [Send -> Reply]
      /\ recall \in [Send -> {"none", "wire", "popup"}]
  BY DEF Init, PageState, Reply
<1>7. connOf \in [Send -> 0..MaxConns]
  BY ConstantTypes DEF Init
<1>8. frames \in [Send -> Seq([kind : Kind, conn : 1..MaxConns])]
  BY DEF Init
<1>9. StopHasTarget
  BY DEF Init, StopHasTarget
<1> QED BY <1>0, <1>1, <1>2, <1>3, <1>4, <1>5, <1>6, <1>7, <1>8, <1>9 DEF Init, Typed, TypeOK, LinkTypeOK, OrderingTypeOK, RegistryTypeOK, HandlerTypeOK,
     ContentTypeOK, FramesTypeOK

LEMMA HasBoolean == \A id : Has(id) \in BOOLEAN
  BY DEF Has

LEMMA HolderTyped ==
  ASSUME Typed, NEW id, Has(id)
  PROVE  Target(id) \in active /\ Target(id) \in Send
  BY DEF Typed, TypeOK, RegistryTypeOK, Has, Holder, Target

\* What the helpers on the registries and the frames do to the types of their variables.
FramesTyped == frames \in [Send -> Seq([kind : Kind, conn : 1..MaxConns])]

LEMMA RemoveTyped ==
  ASSUME TypeOK, NEW S, Remove(S)
  PROVE  RegistryTypeOK'
  BY DEF TypeOK, RegistryTypeOK, Remove

LEMMA TellTyped ==
  ASSUME TypeOK, NEW S, NEW kind \in Kind, Tell(S, kind)
  PROVE  FramesTyped'
<1> DEFINE Frame == [kind : Kind, conn : 1..MaxConns]
<1>1. conn # 0 => conn \in 1..MaxConns
  BY BoundAssumption DEF TypeOK, LinkTypeOK
<1>2. conn # 0 => [kind |-> kind, conn |-> conn] \in Frame
  BY <1>1
<1>3. \A s \in Send : frames[s] \in Seq(Frame)
  BY DEF TypeOK, FramesTypeOK
<1>4. ASSUME conn # 0, NEW s \in Send
      PROVE  Append(frames[s], [kind |-> kind, conn |-> conn]) \in Seq(Frame)
  <2> DEFINE f == [kind |-> kind, conn |-> conn]
  <2>1. f \in Frame /\ frames[s] \in Seq(Frame)
    BY <1>2, <1>3, <1>4
  <2> HIDE DEF f, Frame
  <2>2. Append(frames[s], f) \in Seq(Frame)
    BY <2>1, AppendProperties
  <2> QED BY <2>2 DEF f
<1>5. QED
  BY <1>3, <1>4 DEF Tell, FramesTyped, TypeOK, FramesTypeOK

LEMMA AcknowledgeTyped ==
  ASSUME TypeOK, NEW s, AcknowledgeInterrupted(s)
  PROVE  RegistryTypeOK' /\ FramesTyped' /\ held' \subseteq Send
<1>1. RegistryTypeOK'
  BY RemoveTyped DEF AcknowledgeInterrupted
<1>2. FramesTyped'
  <2>1. "interrupted" \in Kind
    BY DEF Kind
  <2>2. UNCHANGED frames => FramesTyped'
    BY DEF TypeOK, FramesTypeOK, FramesTyped
  <2> QED BY <2>1, <2>2, TellTyped DEF AcknowledgeInterrupted
<1>3. held' \subseteq Send
  BY DEF TypeOK, OrderingTypeOK, AcknowledgeInterrupted
<1> QED BY <1>1, <1>2, <1>3

LEMMA SendFailedTyped ==
  ASSUME TypeOK, NEW s, SendFailed(s)
  PROVE  RegistryTypeOK' /\ FramesTyped' /\ held' \subseteq Send
<1>1. CASE idOf[s] \in pendingInterrupts
  BY <1>1, AcknowledgeTyped DEF SendFailed
<1>2. CASE idOf[s] \notin pendingInterrupts
  <2>1. "error" \in Kind
    BY DEF Kind
  <2>2. UNCHANGED frames => FramesTyped'
    BY DEF TypeOK, FramesTypeOK, FramesTyped
  <2>3. FramesTyped'
    BY <1>2, <2>1, <2>2, TellTyped DEF SendFailed
  <2>4. RegistryTypeOK'
    BY <1>2, RemoveTyped DEF SendFailed
  <2> QED BY <1>2, <2>3, <2>4 DEF SendFailed, TypeOK, OrderingTypeOK
<1> QED BY <1>1, <1>2

LEMMA FailTyped ==
  ASSUME TypeOK, NEW s, NEW pending, FailGenericTurn(s, pending)
  PROVE  RegistryTypeOK' /\ FramesTyped'
<1>1. "error" \in Kind
  BY DEF Kind
<1>2. UNCHANGED <<registry, frames>> => RegistryTypeOK' /\ FramesTyped'
  BY DEF TypeOK, RegistryTypeOK, FramesTypeOK, FramesTyped, registry
<1> QED BY <1>1, <1>2, RemoveTyped, TellTyped DEF FailGenericTurn

-----------------------------------------------------------------------------
(* One step per action, and under it one per part of the type invariant that *)
(* the action can disturb.                                                   *)

LEMMA StepTyped == Typed /\ [Next]_vars => Typed'
<1> SUFFICES ASSUME Typed, [Next]_vars PROVE Typed'
  OBVIOUS
<1>1. ASSUME NEW s \in Send, SendArrives(s) PROVE Typed'
  <2>1. LinkTypeOK'
    BY <1>1, ConstantTypes, AppendProperties
    DEF Typed, TypeOK, LinkTypeOK, SendArrives, registry, doc, content
  <2>2. OrderingTypeOK'
    BY <1>1, ConstantTypes
    DEF Typed, TypeOK, OrderingTypeOK, LinkTypeOK, SendArrives, registry, doc, content
  <2>3. HandlerTypeOK'
    BY <1>1, ConstantTypes
    DEF Typed, TypeOK, HandlerTypeOK, LinkTypeOK, SendArrives, registry, doc, content,
       HandlerPC
  <2>4. FramesTypeOK'
    BY <1>1, ConstantTypes
    DEF Typed, TypeOK, FramesTypeOK, LinkTypeOK, SendArrives, registry, doc, content,
       FramesTyped, Kind
  <2> QED
    BY <1>1, <2>1, <2>2, <2>3, <2>4
    DEF Typed, TypeOK, RegistryTypeOK, ContentTypeOK, StopHasTarget, SendArrives, registry,
       doc, content
<1>2. ASSUME NEW x \in Stop, NEW id \in Id, NEW matches \in BOOLEAN, StopArrives(x, id, matches)
      PROVE  Typed'
  <2>1. LinkTypeOK'
    BY <1>2, ConstantTypes, AppendProperties
    DEF Typed, TypeOK, LinkTypeOK, StopArrives, registry, doc, content
  <2>2. OrderingTypeOK'
    BY <1>2, ConstantTypes
    DEF Typed, TypeOK, OrderingTypeOK, StopArrives, registry, doc, content
  <2>3. HandlerTypeOK'
    BY <1>2, ConstantTypes, HolderTyped
    DEF Typed, TypeOK, HandlerTypeOK, StopArrives, registry, doc, content, StopPC, Answer
  <2>4. StopHasTarget'
    BY <1>2, ConstantTypes, HolderTyped
    DEF Typed, TypeOK, StopHasTarget, HandlerTypeOK, StopArrives, registry, doc, content
  <2> QED
    BY <1>2, <2>1, <2>2, <2>3, <2>4
    DEF Typed, TypeOK, RegistryTypeOK, ContentTypeOK, FramesTypeOK, StopArrives, registry,
       doc, content
<1>3. ASSUME NEW s \in Send, SendBegin(s) PROVE Typed'
  <2>1. LinkTypeOK'
    BY <1>3, ConstantTypes, HeadTailProperties
    DEF Typed, TypeOK, LinkTypeOK, SendBegin, Refuse, AtHead, Release, registry, doc, content
  <2>2. OrderingTypeOK'
    BY <1>3, ConstantTypes
    DEF Typed, TypeOK, OrderingTypeOK, SendBegin, Refuse, AtHead, Release, registry, doc,
       content
  <2>3. RegistryTypeOK'
    BY <1>3, ConstantTypes
    DEF Typed, TypeOK, RegistryTypeOK, SendBegin, Refuse, AtHead, Release, registry, doc,
       content
  <2>4. HandlerTypeOK'
    BY <1>3, ConstantTypes
    DEF Typed, TypeOK, HandlerTypeOK, SendBegin, Refuse, AtHead, Release, registry, doc,
       content, HandlerPC
  <2>5. FramesTypeOK'
    BY <1>3, ConstantTypes, TellTyped
    DEF Typed, TypeOK, FramesTypeOK, SendBegin, Refuse, AtHead, Release, registry, doc,
       content, FramesTyped, Kind
  <2> QED
    BY <1>3, <2>1, <2>2, <2>3, <2>4, <2>5
    DEF Typed, TypeOK, ContentTypeOK, StopHasTarget, SendBegin, Refuse, AtHead, Release,
       registry, doc, content
<1>4. ASSUME NEW s \in Send, NEW ok \in BOOLEAN, SendVerified(s, ok) PROVE Typed'
  <2>1. LinkTypeOK'
    BY <1>4, ConstantTypes
    DEF Typed, TypeOK, LinkTypeOK, SendVerified, Release, registry, doc, content
  <2>2. OrderingTypeOK'
    BY <1>4, ConstantTypes, SendFailedTyped, AcknowledgeTyped
    DEF Typed, TypeOK, OrderingTypeOK, SendVerified, Release, registry, doc, content
  <2>3. RegistryTypeOK'
    BY <1>4, ConstantTypes, SendFailedTyped, AcknowledgeTyped
    DEF Typed, TypeOK, RegistryTypeOK, SendVerified, Release, registry, doc, content
  <2>4. HandlerTypeOK'
    BY <1>4, ConstantTypes
    DEF Typed, TypeOK, HandlerTypeOK, SendVerified, Release, registry, doc, content, HandlerPC
  <2>5. FramesTypeOK'
    BY <1>4, ConstantTypes, SendFailedTyped, AcknowledgeTyped
    DEF Typed, TypeOK, FramesTypeOK, SendVerified, Release, registry, doc, content,
       FramesTyped, Kind
  <2> QED
    BY <1>4, <2>1, <2>2, <2>3, <2>4, <2>5
    DEF Typed, TypeOK, ContentTypeOK, StopHasTarget, SendVerified, Release, registry, doc,
       content
<1>5. ASSUME NEW s \in Send, NativeReturns(s) PROVE Typed'
  <2>1. LinkTypeOK'
    BY <1>5, ConstantTypes
    DEF Typed, TypeOK, LinkTypeOK, NativeReturns, Release, registry, doc
  <2>2. OrderingTypeOK'
    BY <1>5, ConstantTypes, SendFailedTyped
    DEF Typed, TypeOK, OrderingTypeOK, NativeReturns, Release, registry, doc
  <2>3. RegistryTypeOK'
    BY <1>5, ConstantTypes, SendFailedTyped
    DEF Typed, TypeOK, RegistryTypeOK, NativeReturns, Release, registry, doc
  <2>4. HandlerTypeOK'
    BY <1>5, ConstantTypes
    DEF Typed, TypeOK, HandlerTypeOK, NativeReturns, Release, registry, doc, HandlerPC
  <2>5. ContentTypeOK'
    BY <1>5, ConstantTypes
    DEF Typed, TypeOK, ContentTypeOK, NativeReturns, Release, registry, doc, Reply
  <2>6. FramesTypeOK'
    BY <1>5, ConstantTypes, SendFailedTyped
    DEF Typed, TypeOK, FramesTypeOK, NativeReturns, Release, registry, doc, FramesTyped, Kind
  <2> QED
    BY <1>5, <2>1, <2>2, <2>3, <2>4, <2>5, <2>6
    DEF Typed, TypeOK, StopHasTarget, NativeReturns, Release, registry, doc
<1>6. ASSUME NEW s \in Send, NEW ok \in BOOLEAN, GenericStatus(s, ok) PROVE Typed'
  <2>1. OrderingTypeOK'
    BY <1>6, ConstantTypes, FailTyped, AcknowledgeTyped
    DEF Typed, TypeOK, OrderingTypeOK, GenericStatus, link, registry, doc, content
  <2>2. RegistryTypeOK'
    BY <1>6, ConstantTypes, FailTyped, AcknowledgeTyped
    DEF Typed, TypeOK, RegistryTypeOK, GenericStatus, link, registry, doc, content
  <2>3. HandlerTypeOK'
    BY <1>6, ConstantTypes
    DEF Typed, TypeOK, HandlerTypeOK, GenericStatus, link, registry, doc, content, HandlerPC
  <2>4. FramesTypeOK'
    BY <1>6, ConstantTypes, FailTyped, AcknowledgeTyped
    DEF Typed, TypeOK, FramesTypeOK, GenericStatus, link, registry, doc, content, FramesTyped,
       Kind
  <2> QED
    BY <1>6, <2>1, <2>2, <2>3, <2>4
    DEF Typed, TypeOK, LinkTypeOK, ContentTypeOK, StopHasTarget, GenericStatus, link,
       registry, doc, content
<1>7. ASSUME NEW s \in Send, GenericReturns(s) PROVE Typed'
  <2>1. OrderingTypeOK'
    BY <1>7, ConstantTypes
    DEF Typed, TypeOK, OrderingTypeOK, GenericReturns, link, registry, doc
  <2>2. RegistryTypeOK'
    BY <1>7, ConstantTypes, FailTyped
    DEF Typed, TypeOK, RegistryTypeOK, GenericReturns, link, registry, doc
  <2>3. HandlerTypeOK'
    BY <1>7, ConstantTypes
    DEF Typed, TypeOK, HandlerTypeOK, GenericReturns, link, registry, doc, HandlerPC
  <2>4. ContentTypeOK'
    BY <1>7, ConstantTypes
    DEF Typed, TypeOK, ContentTypeOK, GenericReturns, link, registry, doc, Reply
  <2>5. FramesTypeOK'
    BY <1>7, ConstantTypes, FailTyped
    DEF Typed, TypeOK, FramesTypeOK, GenericReturns, link, registry, doc, FramesTyped, Kind
  <2> QED
    BY <1>7, <2>1, <2>2, <2>3, <2>4, <2>5
    DEF Typed, TypeOK, LinkTypeOK, StopHasTarget, GenericReturns, link, registry, doc
<1>8. ASSUME NEW s \in Send, NEW ok \in BOOLEAN, FinalizeReturns(s, ok) PROVE Typed'
  <2>1. RegistryTypeOK'
    BY <1>8, ConstantTypes, FailTyped, RemoveTyped
    DEF Typed, TypeOK, RegistryTypeOK, FinalizeReturns, link, ordering, doc, content
  <2>2. HandlerTypeOK'
    BY <1>8, ConstantTypes
    DEF Typed, TypeOK, HandlerTypeOK, FinalizeReturns, link, ordering, doc, content, HandlerPC
  <2>3. FramesTypeOK'
    BY <1>8, ConstantTypes, FailTyped, TellTyped
    DEF Typed, TypeOK, FramesTypeOK, FinalizeReturns, link, ordering, doc, content,
       FramesTyped, Kind
  <2> QED
    BY <1>8, <2>1, <2>2, <2>3
    DEF Typed, TypeOK, LinkTypeOK, OrderingTypeOK, ContentTypeOK, StopHasTarget,
       FinalizeReturns, link, ordering, doc, content
<1>9. ASSUME NEW x \in Stop, StopBegin(x) PROVE Typed'
  <2>1. LinkTypeOK'
    BY <1>9, ConstantTypes, HeadTailProperties DEF Typed, TypeOK, LinkTypeOK, StopBegin, AtHead
  <2>2. OrderingTypeOK'
    BY <1>9 DEF Typed, TypeOK, OrderingTypeOK, StopBegin
  <2>3. HandlerTypeOK' /\ StopHasTarget'
    <3>1. CASE stop' = [stop EXCEPT ![x].pc = "done"]
      <4>1. HandlerTypeOK'
        BY <1>9, <3>1, SMTT(30) DEF StopBegin, Typed, TypeOK, HandlerTypeOK, StopPC
      <4>2. StopHasTarget'
        BY <3>1 DEF Typed, TypeOK, HandlerTypeOK, StopHasTarget
      <4> QED BY <4>1, <4>2
    <3>2. CASE /\ Has(stop[x].id)
               /\ stop' = [stop EXCEPT ![x].pc = "asked", ![x].target = Target(stop[x].id)]
      <4>1. Target(stop[x].id) \in Send
        BY <3>2, HolderTyped
      <4>2. HandlerTypeOK'
        BY <1>9, <3>2, <4>1 DEF StopBegin, Typed, TypeOK, HandlerTypeOK, StopPC
      <4>3. StopHasTarget'
        BY <3>2, <4>1 DEF Typed, TypeOK, HandlerTypeOK, StopHasTarget
      <4> QED BY <4>2, <4>3
    <3> QED BY <1>9, <3>1, <3>2 DEF StopBegin
  <2> QED
    BY <1>9, <2>1, <2>2, <2>3
    DEF Typed, TypeOK, RegistryTypeOK, ContentTypeOK, FramesTypeOK, StopBegin, AtHead,
       registry, doc, content
<1>10. ASSUME NEW x \in Stop, StopSucceeds(x) PROVE Typed'
  <2>1. LinkTypeOK'
    BY <1>10, ConstantTypes
    DEF Typed, TypeOK, LinkTypeOK, StopSucceeds, Release, doc, content
  <2>2. OrderingTypeOK'
    BY <1>10, ConstantTypes, AcknowledgeTyped
    DEF Typed, TypeOK, OrderingTypeOK, StopSucceeds, Release, doc, content
  <2>3. RegistryTypeOK'
    BY <1>10, ConstantTypes, AcknowledgeTyped
    DEF Typed, TypeOK, RegistryTypeOK, StopSucceeds, Release, doc, content
  <2>4. HandlerTypeOK'
    BY <1>10, ConstantTypes, SMTT(30)
    DEF Typed, TypeOK, HandlerTypeOK, StopSucceeds, Release, doc, content, StopPC, Answer
  <2>5. FramesTypeOK'
    BY <1>10, ConstantTypes, AcknowledgeTyped
    DEF Typed, TypeOK, FramesTypeOK, StopSucceeds, Release, doc, content, FramesTyped, Kind
  <2>6. StopHasTarget'
    BY <1>10, ConstantTypes
    DEF Typed, TypeOK, StopHasTarget, HandlerTypeOK, StopSucceeds, Release, doc, content
  <2> QED
    BY <1>10, <2>1, <2>2, <2>3, <2>4, <2>5, <2>6
    DEF Typed, TypeOK, ContentTypeOK, StopSucceeds, Release, doc, content
<1>11. ASSUME NEW x \in Stop, StopFails(x) PROVE Typed'
  <2>1. LinkTypeOK'
    BY <1>11, ConstantTypes
    DEF Typed, TypeOK, LinkTypeOK, StopFails, Release, registry, doc
  <2>2. OrderingTypeOK'
    BY <1>11, ConstantTypes
    DEF Typed, TypeOK, OrderingTypeOK, StopFails, Release, registry, doc
  <2>3. RegistryTypeOK'
    BY <1>11, ConstantTypes, FailTyped
    DEF Typed, TypeOK, RegistryTypeOK, StopFails, Release, registry, doc
  <2>4. HandlerTypeOK'
    BY <1>11, ConstantTypes, SMTT(30)
    DEF Typed, TypeOK, HandlerTypeOK, StopFails, Release, registry, doc, HandlerPC, StopPC,
       Answer
  <2>5. ContentTypeOK'
    BY <1>11, ConstantTypes
    DEF Typed, TypeOK, ContentTypeOK, StopFails, Release, registry, doc, Reply
  <2>6. FramesTypeOK'
    BY <1>11, ConstantTypes, FailTyped
    DEF Typed, TypeOK, FramesTypeOK, StopFails, Release, registry, doc, FramesTyped, Kind
  <2>7. StopHasTarget'
    <3>1. \E p \in {"done", "settling"} : stop' = [stop EXCEPT ![x].pc = p]
      BY <1>11 DEF StopFails
    <3> QED BY <3>1 DEF Typed, TypeOK, HandlerTypeOK, StopHasTarget
  <2> QED
    BY <1>11, <2>1, <2>2, <2>3, <2>4, <2>5, <2>6, <2>7
    DEF Typed, TypeOK, StopFails, Release, registry, doc
<1>12. ASSUME NEW x \in Stop, StopSettled(x) PROVE Typed'
  <2>1. LinkTypeOK'
    BY <1>12, ConstantTypes
    DEF Typed, TypeOK, LinkTypeOK, StopSettled, Release, ordering, registry, doc, content
  <2>2. HandlerTypeOK'
    BY <1>12, ConstantTypes
    DEF Typed, TypeOK, HandlerTypeOK, StopSettled, Release, ordering, registry, doc, content,
       StopPC, Answer
  <2>3. StopHasTarget'
    BY <1>12, ConstantTypes
    DEF Typed, TypeOK, StopHasTarget, HandlerTypeOK, StopSettled, Release, ordering, registry,
       doc, content
  <2> QED
    BY <1>12, <2>1, <2>2, <2>3
    DEF Typed, TypeOK, OrderingTypeOK, RegistryTypeOK, ContentTypeOK, FramesTypeOK,
       StopSettled, Release, ordering, registry, doc, content
<1>13. ASSUME NEW s \in Send, PageAccepts(s) PROVE Typed'
  <2>1. ContentTypeOK'
    BY <1>13, ConstantTypes
    DEF Typed, TypeOK, ContentTypeOK, PageAccepts, link, ordering, registry, doc, PageState
  <2> QED
    BY <1>13, <2>1
    DEF Typed, TypeOK, LinkTypeOK, OrderingTypeOK, RegistryTypeOK, HandlerTypeOK,
       FramesTypeOK, StopHasTarget, PageAccepts, link, ordering, registry, doc
<1>14. ASSUME NEW s \in Send, PageRefuses(s) PROVE Typed'
  <2>1. ContentTypeOK'
    BY <1>14, ConstantTypes
    DEF Typed, TypeOK, ContentTypeOK, PageRefuses, Refusal, link, ordering, registry, doc,
       PageState, Reply
  <2> QED
    BY <1>14, <2>1
    DEF Typed, TypeOK, LinkTypeOK, OrderingTypeOK, RegistryTypeOK, HandlerTypeOK,
       FramesTypeOK, StopHasTarget, PageRefuses, Refusal, link, ordering, registry, doc
<1>15. ASSUME NEW s \in Send, PromptUndeliverable(s) PROVE Typed'
  <2>1. ContentTypeOK'
    BY <1>15, ConstantTypes
    DEF Typed, TypeOK, ContentTypeOK, PromptUndeliverable, link, ordering, registry, doc,
       PageState, Reply
  <2> QED
    BY <1>15, <2>1
    DEF Typed, TypeOK, LinkTypeOK, OrderingTypeOK, RegistryTypeOK, HandlerTypeOK,
       FramesTypeOK, StopHasTarget, PromptUndeliverable, link, ordering, registry, doc
<1>16. ASSUME NEW s \in Send, PageClicks(s) PROVE Typed'
  <2>1. HandlerTypeOK'
    BY <1>16, ConstantTypes
    DEF Typed, TypeOK, HandlerTypeOK, RegistryTypeOK, PageClicks, link, ordering, registry,
       doc
  <2>2. ContentTypeOK'
    BY <1>16, ConstantTypes
    DEF Typed, TypeOK, ContentTypeOK, RegistryTypeOK, PageClicks, link, ordering, registry,
       doc, PageState
  <2> QED
    BY <1>16, <2>1, <2>2
    DEF Typed, TypeOK, LinkTypeOK, OrderingTypeOK, RegistryTypeOK, FramesTypeOK,
       StopHasTarget, PageClicks, link, ordering, registry, doc
<1>17. ASSUME NEW s \in Send, PageAnswersSubmit(s) PROVE Typed'
  <2>1. ContentTypeOK'
    BY <1>17, ConstantTypes
    DEF Typed, TypeOK, ContentTypeOK, PageAnswersSubmit, link, ordering, registry, doc,
       PageState, Reply
  <2> QED
    BY <1>17, <2>1
    DEF Typed, TypeOK, LinkTypeOK, OrderingTypeOK, RegistryTypeOK, HandlerTypeOK,
       FramesTypeOK, StopHasTarget, PageAnswersSubmit, link, ordering, registry, doc
<1>18. ASSUME NEW s \in Send, ProviderFinishes(s) PROVE Typed'
  <2>1. ContentTypeOK'
    BY <1>18, ConstantTypes
    DEF Typed, TypeOK, ContentTypeOK, ProviderFinishes, link, ordering, registry, doc
  <2> QED
    BY <1>18, <2>1
    DEF Typed, TypeOK, LinkTypeOK, OrderingTypeOK, RegistryTypeOK, HandlerTypeOK,
       FramesTypeOK, StopHasTarget, ProviderFinishes, link, ordering, registry, doc
<1>19. ASSUME NEW s \in Send, MonitorSettles(s) PROVE Typed'
  <2>1. ContentTypeOK'
    BY <1>19, ConstantTypes
    DEF Typed, TypeOK, ContentTypeOK, MonitorSettles, link, ordering, registry, doc, PageState
  <2> QED
    BY <1>19, <2>1
    DEF Typed, TypeOK, LinkTypeOK, OrderingTypeOK, RegistryTypeOK, HandlerTypeOK,
       FramesTypeOK, StopHasTarget, MonitorSettles, link, ordering, registry, doc
<1>20. ASSUME NEW s \in Send, PageCaptures(s) PROVE Typed'
  <2>1. HandlerTypeOK'
    BY <1>20, ConstantTypes, HasBoolean
    DEF Typed, TypeOK, HandlerTypeOK, PageCaptures, Reports, link, ordering, registry, doc,
       Report
  <2>2. ContentTypeOK'
    BY <1>20, ConstantTypes
    DEF Typed, TypeOK, ContentTypeOK, PageCaptures, Reports, link, ordering, registry, doc,
       PageState, Reply
  <2> QED
    BY <1>20, <2>1, <2>2
    DEF Typed, TypeOK, LinkTypeOK, OrderingTypeOK, RegistryTypeOK, FramesTypeOK,
       StopHasTarget, PageCaptures, Reports, link, ordering, registry, doc
<1>21. ASSUME NEW s \in Send, PageCaptureFails(s) PROVE Typed'
  <2>1. HandlerTypeOK'
    BY <1>21, ConstantTypes, HasBoolean
    DEF Typed, TypeOK, HandlerTypeOK, PageCaptureFails, Reports, link, ordering, registry,
       doc, Report
  <2>2. ContentTypeOK'
    BY <1>21, ConstantTypes
    DEF Typed, TypeOK, ContentTypeOK, PageCaptureFails, Reports, link, ordering, registry,
       doc, PageState, Reply
  <2> QED
    BY <1>21, <2>1, <2>2
    DEF Typed, TypeOK, LinkTypeOK, OrderingTypeOK, RegistryTypeOK, FramesTypeOK,
       StopHasTarget, PageCaptureFails, Reports, link, ordering, registry, doc
<1>22. ASSUME NEW x \in Stop, PageStops(x) PROVE Typed'
  <2>1. HandlerTypeOK'
    BY <1>22, ConstantTypes
    DEF Typed, TypeOK, HandlerTypeOK, StopHasTarget, PageStops, PagePrevents,
       PageConfirmsStop, PageCannotStop, Mark, link, ordering, registry, doc, StopPC, Answer
  <2>2. ContentTypeOK'
    BY <1>22, ConstantTypes
    DEF Typed, TypeOK, ContentTypeOK, StopHasTarget, PageStops, PagePrevents,
       PageConfirmsStop, PageCannotStop, Mark, link, ordering, registry, doc, PageState, Reply
  <2>3. StopHasTarget'
    <3>1. \E a \in Answer : stop' = [stop EXCEPT ![x].answer = a]
      BY <1>22 DEF PageStops, Answer
    <3> QED BY <3>1 DEF Typed, TypeOK, HandlerTypeOK, StopHasTarget
  <2> QED
    BY <1>22, <2>1, <2>2, <2>3
    DEF Typed, TypeOK, LinkTypeOK, OrderingTypeOK, RegistryTypeOK, FramesTypeOK, PageStops,
       PagePrevents, PageConfirmsStop, PageCannotStop, Mark, link, ordering, registry, doc
<1>23. ASSUME NEW s \in Send, PageRecalled(s) PROVE Typed'
  <2>1. ContentTypeOK'
    BY <1>23, ConstantTypes
    DEF Typed, TypeOK, ContentTypeOK, PageRecalled, PagePrevents, PageConfirmsStop,
       PageCannotStop, Mark, link, ordering, registry, doc, PageState, Reply
  <2> QED
    BY <1>23, <2>1
    DEF Typed, TypeOK, LinkTypeOK, OrderingTypeOK, RegistryTypeOK, HandlerTypeOK,
       FramesTypeOK, StopHasTarget, PageRecalled, PagePrevents, PageConfirmsStop,
       PageCannotStop, Mark, link, ordering, registry, doc
<1>24. ASSUME NEW s \in Send, ReportBound(s) PROVE Typed'
  <2>1. RegistryTypeOK'
    BY <1>24, ConstantTypes, RemoveTyped
    DEF Typed, TypeOK, RegistryTypeOK, ReportBound, Acknowledged, Reports, link, ordering,
       registry, doc
  <2>2. HandlerTypeOK'
    BY <1>24, ConstantTypes, HasBoolean
    DEF Typed, TypeOK, HandlerTypeOK, ReportBound, Acknowledged, Reports, link, ordering,
       registry, doc, Report
  <2>3. ContentTypeOK'
    BY <1>24, ConstantTypes
    DEF Typed, TypeOK, ContentTypeOK, ReportBound, Acknowledged, Reports, link, ordering,
       registry, doc, PageState
  <2>4. FramesTypeOK'
    BY <1>24, ConstantTypes, TellTyped
    DEF Typed, TypeOK, FramesTypeOK, ReportBound, Acknowledged, Reports, link, ordering,
       registry, doc, FramesTyped, Kind
  <2> QED
    BY <1>24, <2>1, <2>2, <2>3, <2>4
    DEF Typed, TypeOK, LinkTypeOK, OrderingTypeOK, StopHasTarget, ReportBound, Acknowledged,
       Reports, link, ordering, registry, doc
<1>25. ASSUME NEW s \in Send, ReportSaved(s) PROVE Typed'
  <2>1. RegistryTypeOK'
    BY <1>25, ConstantTypes, RemoveTyped
    DEF Typed, TypeOK, RegistryTypeOK, ReportSaved, Acknowledged, link, ordering, doc
  <2>2. HandlerTypeOK'
    BY <1>25, ConstantTypes
    DEF Typed, TypeOK, HandlerTypeOK, ReportSaved, Acknowledged, link, ordering, doc, Report
  <2>3. ContentTypeOK'
    BY <1>25, ConstantTypes
    DEF Typed, TypeOK, ContentTypeOK, ReportSaved, Acknowledged, link, ordering, doc,
       PageState
  <2>4. FramesTypeOK'
    BY <1>25, ConstantTypes, TellTyped
    DEF Typed, TypeOK, FramesTypeOK, ReportSaved, Acknowledged, link, ordering, doc,
       FramesTyped, Kind
  <2> QED
    BY <1>25, <2>1, <2>2, <2>3, <2>4
    DEF Typed, TypeOK, LinkTypeOK, OrderingTypeOK, StopHasTarget, ReportSaved, Acknowledged,
       link, ordering, doc
<1>26. ASSUME Connects PROVE Typed'
  <2>1. LinkTypeOK'
    BY <1>26, ConstantTypes, BoundAssumption
    DEF Typed, TypeOK, LinkTypeOK, Connects, ordering, registry, doc, content
  <2> QED
    BY <1>26, <2>1
    DEF Typed, TypeOK, OrderingTypeOK, RegistryTypeOK, HandlerTypeOK, ContentTypeOK,
       FramesTypeOK, StopHasTarget, Connects, ordering, registry, doc, content
<1>27. ASSUME SocketCloses PROVE Typed'
  <2>1. LinkTypeOK'
    BY <1>27, ConstantTypes
    DEF Typed, TypeOK, LinkTypeOK, SocketCloses, Disconnected, StopActiveRequests, doc,
       content
  <2>2. OrderingTypeOK'
    BY <1>27, ConstantTypes
    DEF Typed, TypeOK, OrderingTypeOK, SocketCloses, Disconnected, StopActiveRequests, doc,
       content
  <2>3. RegistryTypeOK'
    BY <1>27, ConstantTypes, RemoveTyped
    DEF Typed, TypeOK, RegistryTypeOK, SocketCloses, Disconnected, StopActiveRequests, doc,
       content
  <2>4. ContentTypeOK'
    BY <1>27, ConstantTypes
    DEF Typed, TypeOK, ContentTypeOK, SocketCloses, Disconnected, StopActiveRequests, doc,
       content
  <2> QED
    BY <1>27, <2>1, <2>2, <2>3, <2>4
    DEF Typed, TypeOK, HandlerTypeOK, FramesTypeOK, StopHasTarget, SocketCloses, Disconnected,
       StopActiveRequests, doc, content
<1>28. ASSUME PopupDisconnects PROVE Typed'
  <2>1. RegistryTypeOK'
    BY <1>28, ConstantTypes, RemoveTyped
    DEF Typed, TypeOK, RegistryTypeOK, PopupDisconnects, StopActiveRequests, link, ordering,
       doc, content
  <2>2. HandlerTypeOK'
    BY <1>28, ConstantTypes, BoundAssumption
    DEF Typed, TypeOK, HandlerTypeOK, PopupDisconnects, StopActiveRequests, link, ordering,
       doc, content
  <2>3. ContentTypeOK'
    BY <1>28, ConstantTypes
    DEF Typed, TypeOK, ContentTypeOK, PopupDisconnects, StopActiveRequests, link, ordering,
       doc, content
  <2> QED
    BY <1>28, <2>1, <2>2, <2>3
    DEF Typed, TypeOK, LinkTypeOK, OrderingTypeOK, FramesTypeOK, StopHasTarget,
       PopupDisconnects, StopActiveRequests, link, ordering, doc, content
<1>29. ASSUME PopupDropsSocket PROVE Typed'
  <2>1. LinkTypeOK'
    BY <1>29, ConstantTypes
    DEF Typed, TypeOK, LinkTypeOK, PopupDropsSocket, Disconnected, ordering, registry, doc,
       content
  <2>2. HandlerTypeOK'
    BY <1>29, ConstantTypes
    DEF Typed, TypeOK, HandlerTypeOK, PopupDropsSocket, Disconnected, ordering, registry, doc,
       content
  <2> QED
    BY <1>29, <2>1, <2>2
    DEF Typed, TypeOK, OrderingTypeOK, RegistryTypeOK, ContentTypeOK, FramesTypeOK,
       StopHasTarget, PopupDropsSocket, Disconnected, ordering, registry, doc, content
<1>30. ASSUME NEW c \in Session, DocumentReplaced(c) PROVE Typed'
  <2>1. ContentTypeOK'
    BY <1>30, ConstantTypes
    DEF Typed, TypeOK, ContentTypeOK, DocumentReplaced, link, ordering, registry, PageState,
       Reply
  <2> QED
    BY <1>30, <2>1
    DEF Typed, TypeOK, LinkTypeOK, OrderingTypeOK, RegistryTypeOK, HandlerTypeOK,
       FramesTypeOK, StopHasTarget, DocumentReplaced, link, ordering, registry
<1>31. ASSUME NEW c \in Session, TabChanged(c) PROVE Typed'
  <2>1. RegistryTypeOK'
    BY <1>31, ConstantTypes, RemoveTyped
    DEF Typed, TypeOK, RegistryTypeOK, TabChanged, link, ordering, content
  <2>2. ContentTypeOK'
    BY <1>31, ConstantTypes
    DEF Typed, TypeOK, ContentTypeOK, TabChanged, link, ordering, content
  <2>3. FramesTypeOK'
    BY <1>31, ConstantTypes, TellTyped
    DEF Typed, TypeOK, FramesTypeOK, TabChanged, link, ordering, content, FramesTyped, Kind
  <2> QED
    BY <1>31, <2>1, <2>2, <2>3
    DEF Typed, TypeOK, LinkTypeOK, OrderingTypeOK, HandlerTypeOK, StopHasTarget, TabChanged,
       link, ordering, content
<1>32. ASSUME UNCHANGED vars PROVE Typed'
  BY <1>32 DEF Typed, TypeOK, LinkTypeOK, OrderingTypeOK, RegistryTypeOK, HandlerTypeOK,
     ContentTypeOK, FramesTypeOK, StopHasTarget, vars, link, ordering, registry, doc, content
<1> QED
  BY <1>1, <1>2, <1>3, <1>4, <1>5, <1>6, <1>7, <1>8, <1>9, <1>10, <1>11, <1>12, <1>13, <1>14,
     <1>15, <1>16, <1>17, <1>18, <1>19, <1>20, <1>21, <1>22, <1>23, <1>24, <1>25, <1>26,
     <1>27, <1>28, <1>29, <1>30, <1>31, <1>32
  DEF Next, Handler, StopHandler, Page, Environment

\* Every variable keeps its type, whatever the worker, the pages, the controller and the browser
\* do, for any number of requests, Stops, connections and clicks.
THEOREM TypeCorrect == Spec => []TypeOK
<1>1. Typed => TypeOK
  BY DEF Typed
<1> QED
  BY InitTyped, StepTyped, <1>1, PTL DEF Spec

-----------------------------------------------------------------------------
(* The registries change in two ways only: turns are removed from both, or a *)
(* turn is entered in both when neither its id nor its session is taken.     *)

Registers(s) ==
    /\ ~Busy(s)
    /\ active' = active \cup {s}
    /\ bySession' = [bySession EXCEPT ![sessionOf[s]] = idOf[s]]

RegistryChange ==
    \/ UNCHANGED registry
    \/ \E S \in SUBSET active : Remove(S)
    \/ \E s \in Send : SendBegin(s) /\ Registers(s)

LEMMA HolderSubset == \A id : Holder(id) \in SUBSET active
  BY DEF Holder

LEMMA FailChanges ==
  ASSUME NEW s, NEW pending, FailGenericTurn(s, pending)
  PROVE  RegistryChange
  BY HolderSubset DEF FailGenericTurn, RegistryChange

LEMMA AcknowledgeChanges ==
  ASSUME NEW s, AcknowledgeInterrupted(s)
  PROVE  RegistryChange
  BY HolderSubset DEF AcknowledgeInterrupted, RegistryChange

LEMMA SendFailedChanges ==
  ASSUME NEW s, SendFailed(s)
  PROVE  RegistryChange
  BY HolderSubset, AcknowledgeChanges DEF SendFailed, RegistryChange

LEMMA StepChanges == [Next]_vars => RegistryChange
<1> SUFFICES ASSUME [Next]_vars PROVE RegistryChange
  OBVIOUS
<1>1. ASSUME NEW s \in Send, SendArrives(s) PROVE RegistryChange
  BY <1>1 DEF SendArrives, RegistryChange
<1>2. ASSUME NEW x \in Stop, NEW id \in Id, NEW matches \in BOOLEAN, StopArrives(x, id, matches)
      PROVE  RegistryChange
  BY <1>2 DEF StopArrives, RegistryChange
<1>3. ASSUME NEW s \in Send, SendBegin(s) PROVE RegistryChange
  <2>1. CASE Busy(s) /\ Refuse(s)
    BY <2>1 DEF Refuse, RegistryChange
  <2>2. CASE ~Busy(s)
    BY <1>3, <2>2 DEF SendBegin, RegistryChange, Registers, registry
  <2> QED BY <1>3, <2>1, <2>2 DEF SendBegin
<1>4. ASSUME NEW s \in Send, NEW ok \in BOOLEAN, SendVerified(s, ok) PROVE RegistryChange
  BY <1>4, SendFailedChanges, AcknowledgeChanges DEF SendVerified, RegistryChange
<1>5. ASSUME NEW s \in Send, NativeReturns(s) PROVE RegistryChange
  BY <1>5, SendFailedChanges DEF NativeReturns, RegistryChange
<1>6. ASSUME NEW s \in Send, NEW ok \in BOOLEAN, GenericStatus(s, ok) PROVE RegistryChange
  BY <1>6, FailChanges, AcknowledgeChanges DEF GenericStatus, RegistryChange
<1>7. ASSUME NEW s \in Send, GenericReturns(s) PROVE RegistryChange
  BY <1>7, FailChanges DEF GenericReturns, RegistryChange
<1>8. ASSUME NEW s \in Send, NEW ok \in BOOLEAN, FinalizeReturns(s, ok) PROVE RegistryChange
  BY <1>8, FailChanges, HolderSubset DEF FinalizeReturns, RegistryChange
<1>9. ASSUME NEW x \in Stop, StopHandler(x) PROVE RegistryChange
  <2>1. CASE StopBegin(x)
    BY <2>1 DEF StopBegin, RegistryChange
  <2>2. CASE StopSucceeds(x)
    BY <2>2, AcknowledgeChanges DEF StopSucceeds
  <2>3. CASE StopFails(x)
    BY <2>3, FailChanges DEF StopFails, RegistryChange
  <2>4. CASE StopSettled(x)
    BY <2>4 DEF StopSettled, RegistryChange
  <2> QED BY <1>9, <2>1, <2>2, <2>3, <2>4 DEF StopHandler
<1>10. ASSUME NEW s \in Send, Page(s) PROVE RegistryChange
  BY <1>10 DEF Page, PageAccepts, PageRefuses, PromptUndeliverable, PageClicks, PageAnswersSubmit,
     ProviderFinishes, MonitorSettles, PageCaptures, PageCaptureFails, PageRecalled, RegistryChange
<1>11. ASSUME NEW x \in Stop, PageStops(x) PROVE RegistryChange
  BY <1>11 DEF PageStops, RegistryChange
<1>12. ASSUME NEW s \in Send, ReportBound(s) PROVE RegistryChange
  BY <1>12, HolderSubset DEF ReportBound, RegistryChange
<1>13. ASSUME NEW s \in Send, ReportSaved(s) PROVE RegistryChange
  BY <1>13, HolderSubset DEF ReportSaved, RegistryChange
<1>14. ASSUME NEW c \in Session, TabChanged(c) PROVE RegistryChange
  BY <1>14 DEF TabChanged, RegistryChange
<1>15. ASSUME SocketCloses \/ PopupDisconnects PROVE RegistryChange
  BY <1>15 DEF SocketCloses, PopupDisconnects, StopActiveRequests, RegistryChange
<1>16. ASSUME Connects \/ PopupDropsSocket \/ (\E c \in Session : DocumentReplaced(c)) \/ UNCHANGED vars
       PROVE  RegistryChange
  BY <1>16 DEF Connects, PopupDropsSocket, DocumentReplaced, vars, RegistryChange
<1> QED
  BY <1>1, <1>2, <1>3, <1>4, <1>5, <1>6, <1>7, <1>8, <1>9, <1>10, <1>11, <1>12, <1>13, <1>14,
     <1>15, <1>16
  DEF Next, Handler, Environment

LEMMA RegistriesStep == Typed /\ RegistriesAgree /\ [Next]_vars => RegistriesAgree'
<1> SUFFICES ASSUME Typed, RegistriesAgree, [Next]_vars PROVE RegistriesAgree'
  OBVIOUS
<1>1. CASE UNCHANGED registry
  BY <1>1 DEF RegistriesAgree, registry
<1>2. ASSUME NEW S \in SUBSET active, Remove(S) PROVE RegistriesAgree'
  BY <1>2, ConstantTypes DEF Typed, TypeOK, RegistryTypeOK, RegistriesAgree, Remove
<1>3. ASSUME NEW s \in Send, Registers(s) PROVE RegistriesAgree'
  BY <1>3, ConstantTypes
  DEF Typed, TypeOK, RegistryTypeOK, RegistriesAgree, Registers, Busy, Has, Holder
<1> QED BY <1>1, <1>2, <1>3, StepChanges DEF RegistryChange

\* activeRequests and activeRequestBySession never disagree, whatever order the handlers, Stops,
\* reports and disconnects remove turns in: a session is taken exactly by the one turn registered
\* for it, even when the controller sends several requests under one id or to one session.
THEOREM RegistriesAlwaysAgree == Spec => []RegistriesAgree
<1>1. Init => RegistriesAgree
  BY DEF Init, RegistriesAgree
<1> QED
  BY <1>1, InitTyped, StepTyped, RegistriesStep, PTL DEF Spec

-----------------------------------------------------------------------------
(* One terminal frame for a generic turn.  The controller names every request *)
(* differently: without that, the checks of activeRequests.has(requestId) can  *)
(* find somebody else's turn.                                                 *)

IdsDistinct == \A s, t \in Send : idOf[s] = idOf[t] => s = t

Waiting == {"unsent", "queued"}

\* A frame is in the queue once, and only until its handler begins.
QueueInv ==
    /\ \A i \in 1..Len(queue) : queue[i] \in Send => pc[queue[i]] = "queued"
    /\ \A i, j \in 1..Len(queue) : queue[i] \in Send /\ queue[i] = queue[j] => i = j

\* A kept answer belongs to a handler that returned under a pending Stop.
HeldInv == \A s \in held : pc[s] = "held"

\* A registered turn's handler has begun.
StartedInv == \A s \in active : pc[s] \notin Waiting

\* Only ChatGPT and Claude pages report through content.response and content.error.
ReportsInv == \A s \in Send : report[s].pc # "none" => ~IsGeneric(s)

\* A generic turn that is waiting or registered has been told nothing.
AnswerInv ==
    \A s \in Send : IsGeneric(s) =>
        /\ Len(frames[s]) <= 1
        /\ pc[s] \in Waiting \/ s \in active => frames[s] = <<>>

HandlerInv == Typed /\ QueueInv /\ HeldInv /\ StartedInv /\ ReportsInv

OnceInv == HandlerInv /\ AnswerInv

LEMMA InitOnce == Init => OnceInv
<1> SUFFICES ASSUME Init PROVE OnceInv
  OBVIOUS
<1>1. QueueInv /\ HeldInv /\ StartedInv /\ ReportsInv
  BY DEF Init, QueueInv, HeldInv, StartedInv, ReportsInv
<1>2. AnswerInv
  BY DEF Init, AnswerInv
<1> QED BY <1>1, <1>2, InitTyped DEF OnceInv, HandlerInv

\* The handler that begins was waiting, and no other place in the queue holds it.
LEMMA HeadWaiting ==
  ASSUME HandlerInv, NEW s \in Send, AtHead(s)
  PROVE  pc[s] = "queued" /\ \A i \in 1..Len(Tail(queue)) : Tail(queue)[i] # s
<1>1. queue \in Seq(Send \cup Stop) /\ queue # <<>>
  BY DEF HandlerInv, Typed, TypeOK, LinkTypeOK, AtHead
<1>2. Len(queue) \in Nat /\ Len(queue) >= 1 /\ Head(queue) = queue[1]
  BY <1>1
<1>3. \A i \in 1..Len(Tail(queue)) : Tail(queue)[i] = queue[i + 1] /\ i + 1 \in 1..Len(queue) /\ i + 1 # 1
  BY <1>1, <1>2, HeadTailProperties
<1>4. queue[1] = s /\ 1 \in 1..Len(queue)
  BY <1>2 DEF AtHead
<1> QED BY <1>3, <1>4 DEF HandlerInv, QueueInv

\* Handlers move on: one that has begun is never waiting again, and one that has not only
\* arrives or begins.
PcChange ==
    /\ pc' \in [Send -> HandlerPC]
    /\ \A s \in Send : pc[s] \notin Waiting => pc'[s] \notin Waiting
    /\ \/ \A s \in Send : pc[s] \in Waiting => pc'[s] = pc[s]
       \/ \E s \in Send : SendArrives(s) \/ SendBegin(s)

LEMMA PcStep ==
  ASSUME HandlerInv, [Next]_vars
  PROVE  PcChange
<1>0. Typed'
  BY StepTyped DEF HandlerInv
<1>1. pc \in [Send -> HandlerPC] /\ pc' \in [Send -> HandlerPC] /\ held \subseteq Send
  BY <1>0 DEF HandlerInv, Typed, TypeOK, HandlerTypeOK, OrderingTypeOK
<1>2. CASE UNCHANGED pc
  BY <1>1, <1>2 DEF PcChange
<1>3. ASSUME NEW s \in Send, SendArrives(s) PROVE PcChange
  <2>1. \A t \in Send : pc[t] \notin Waiting => pc'[t] \notin Waiting
    BY <1>1, <1>3 DEF SendArrives, Waiting
  <2> QED BY <1>1, <1>3, <2>1 DEF PcChange
<1>4. ASSUME NEW s \in Send, SendBegin(s) PROVE PcChange
  <2>1. \A t \in Send : pc[t] \notin Waiting => pc'[t] \notin Waiting
    BY <1>1, <1>4 DEF SendBegin, Refuse, Waiting
  <2> QED BY <1>1, <1>4, <2>1 DEF PcChange
<1>5. ASSUME NEW s \in Send, pc[s] \notin Waiting,
             NEW p \in HandlerPC \ Waiting, pc' = [pc EXCEPT ![s] = p]
      PROVE  PcChange
  BY <1>1, <1>5 DEF PcChange
<1>6. ASSUME NEW s \in Send, NEW ok \in BOOLEAN, SendVerified(s, ok) PROVE PcChange
  <2>1. \E p \in {"done", "submit", "status"} : pc' = [pc EXCEPT ![s] = p]
    BY <1>6 DEF SendVerified
  <2> QED BY <1>5, <1>6, <2>1 DEF SendVerified, Waiting, HandlerPC
<1>7. ASSUME NEW s \in Send, NativeReturns(s) PROVE PcChange
  BY <1>5, <1>7 DEF NativeReturns, Waiting, HandlerPC
<1>8. ASSUME NEW s \in Send, NEW ok \in BOOLEAN, GenericStatus(s, ok) PROVE PcChange
  BY <1>5, <1>8 DEF GenericStatus, Waiting, HandlerPC
<1>9. ASSUME NEW s \in Send, GenericReturns(s) PROVE PcChange
  BY <1>5, <1>9 DEF GenericReturns, Waiting, HandlerPC
<1>10. ASSUME NEW s \in Send, NEW ok \in BOOLEAN, FinalizeReturns(s, ok) PROVE PcChange
  BY <1>5, <1>10 DEF FinalizeReturns, Waiting, HandlerPC
<1>11. ASSUME NEW x \in Stop, StopFails(x) PROVE PcChange
  <2>1. CASE UNCHANGED pc
    BY <1>2, <2>1
  <2>2. CASE \E s \in Completion(stop[x].id), p \in {"done", "finalize"} : pc' = [pc EXCEPT ![s] = p]
    <3>1. PICK s \in Completion(stop[x].id), p \in {"done", "finalize"} : pc' = [pc EXCEPT ![s] = p]
      BY <2>2
    <3>2. s \in Send /\ pc[s] = "held"
      BY <1>1 DEF Completion, HandlerInv, HeldInv
    <3> QED BY <1>5, <3>1, <3>2 DEF Waiting, HandlerPC
  <2> QED BY <1>11, <2>1, <2>2 DEF StopFails
<1>12. ASSUME NEW x \in Stop, StopBegin(x) \/ StopSucceeds(x) \/ StopSettled(x) \/ PageStops(x)
       PROVE  PcChange
  BY <1>2, <1>12 DEF StopBegin, StopSucceeds, StopSettled, PageStops
<1>13. ASSUME NEW s \in Send, Page(s) \/ ReportBound(s) \/ ReportSaved(s) PROVE PcChange
  BY <1>2, <1>13 DEF Page, PageAccepts, PageRefuses, PromptUndeliverable, PageClicks,
     PageAnswersSubmit, ProviderFinishes, MonitorSettles, PageCaptures, PageCaptureFails,
     PageRecalled, ReportBound, ReportSaved
<1>14. ASSUME NEW x \in Stop, NEW id \in Id, NEW matches \in BOOLEAN, StopArrives(x, id, matches)
       PROVE  PcChange
  BY <1>2, <1>14 DEF StopArrives
<1>15. ASSUME NEW c \in Session, TabChanged(c) \/ DocumentReplaced(c) PROVE PcChange
  BY <1>2, <1>15 DEF TabChanged, DocumentReplaced
<1>16. ASSUME Connects \/ SocketCloses \/ PopupDisconnects \/ PopupDropsSocket \/ UNCHANGED vars
       PROVE  PcChange
  BY <1>2, <1>16 DEF Connects, SocketCloses, PopupDisconnects, PopupDropsSocket, vars
<1> QED
  BY <1>3, <1>4, <1>6, <1>7, <1>8, <1>9, <1>10, <1>11, <1>12, <1>13, <1>14, <1>15, <1>16
  DEF Next, Handler, StopHandler, Environment

LEMMA QueueStep ==
  ASSUME HandlerInv, [Next]_vars
  PROVE  QueueInv'
<1>0. /\ queue \in Seq(Send \cup Stop) /\ Send \cap Stop = {}
      /\ Len(queue) \in Nat /\ QueueInv /\ pc \in [Send -> HandlerPC]
  BY SendAssumption DEF HandlerInv, Typed, TypeOK, LinkTypeOK, HandlerTypeOK
<1>1. \A i \in 1..Len(queue) : queue[i] \in Send \cup Stop
  BY <1>0
<1>2. ASSUME NEW s \in Send, SendArrives(s) PROVE QueueInv'
  <2>1. /\ Len(queue') = Len(queue) + 1 /\ queue'[Len(queue) + 1] = s
        /\ \A i \in 1..Len(queue) : queue'[i] = queue[i]
    BY <1>0, <1>2, AppendProperties DEF SendArrives
  <2>2. pc[s] = "unsent" /\ pc' = [pc EXCEPT ![s] = "queued"]
    BY <1>2 DEF SendArrives
  <2>3. \A i \in 1..Len(queue) : queue[i] # s
    BY <1>0, <2>2 DEF QueueInv
  <2> QED BY <1>0, <2>1, <2>2, <2>3 DEF QueueInv
<1>3. ASSUME NEW s \in Send, SendBegin(s) PROVE QueueInv'
  <2>1. queue' = Tail(queue) /\ queue # <<>> /\ AtHead(s)
    BY <1>3 DEF SendBegin, AtHead
  <2>2. /\ Len(queue') = Len(queue) - 1
        /\ \A i \in 1..Len(queue') : queue'[i] = queue[i + 1] /\ i + 1 \in 1..Len(queue)
    BY <1>0, <2>1, HeadTailProperties
  <2>3. \A i \in 1..Len(queue') : queue'[i] # s
    BY <2>1, HeadWaiting
  <2>4. \A t \in Send : t # s => pc'[t] = pc[t]
    BY <1>0, <1>3 DEF SendBegin, Refuse
  <2>5. Len(queue') \in Nat
    BY <1>0, <2>1
  <2>6. \A i \in 1..Len(queue') : queue'[i] \in Send => pc'[queue'[i]] = "queued"
    BY <1>0, <2>2, <2>3, <2>4 DEF QueueInv
  <2>7. ASSUME NEW i \in 1..Len(queue'), NEW j \in 1..Len(queue'), queue'[i] \in Send, queue'[i] = queue'[j]
        PROVE  i = j
    <3>1. i + 1 \in 1..Len(queue) /\ j + 1 \in 1..Len(queue) /\ queue[i + 1] \in Send /\ queue[i + 1] = queue[j + 1]
      BY <2>2, <2>7
    <3>2. i + 1 = j + 1
      BY <1>0, <3>1 DEF QueueInv
    <3> QED BY <2>5, <3>2
  <2> QED BY <2>6, <2>7 DEF QueueInv
<1>4. PcChange
  BY PcStep
<1>5. CASE \A s \in Send : pc[s] \in Waiting => pc'[s] = pc[s]
  <2>1. \A s \in Send : pc[s] = "queued" => pc'[s] = "queued"
    BY <1>5 DEF Waiting
  <2>2. CASE UNCHANGED queue
    BY <1>0, <2>1, <2>2 DEF QueueInv
  <2>3. CASE queue' = <<>>
    BY <2>3 DEF QueueInv
  <2>4. ASSUME NEW x \in Stop, queue' = Append(queue, x) PROVE QueueInv'
    <3>1. /\ Len(queue') = Len(queue) + 1 /\ queue'[Len(queue) + 1] = x
          /\ \A i \in 1..Len(queue) : queue'[i] = queue[i]
      BY <1>0, <2>4, AppendProperties
    <3> QED BY <1>0, <2>1, <3>1 DEF QueueInv
  <2>5. CASE queue # <<>> /\ queue' = Tail(queue)
    <3>1. /\ Len(queue') = Len(queue) - 1 /\ Len(queue') \in Nat
          /\ \A i \in 1..Len(queue') : queue'[i] = queue[i + 1] /\ i + 1 \in 1..Len(queue)
      BY <1>0, <2>5, HeadTailProperties
    <3> QED BY <1>0, <2>1, <3>1, SMTT(30) DEF QueueInv
  <2>6. \/ UNCHANGED queue \/ queue' = <<>>
        \/ \E x \in Stop : queue' = Append(queue, x)
        \/ queue # <<>> /\ queue' = Tail(queue)
        \/ \E s \in Send : SendArrives(s)
    <3>1. ASSUME NEW s \in Send, Handler(s) \/ Page(s)
          PROVE  UNCHANGED queue \/ (queue # <<>> /\ queue' = Tail(queue))
      BY <3>1
      DEF Handler, SendBegin, AtHead, SendVerified, NativeReturns, GenericStatus, GenericReturns,
         FinalizeReturns, ReportBound, ReportSaved, Page, PageAccepts, PageRefuses,
         PromptUndeliverable, PageClicks, PageAnswersSubmit, ProviderFinishes, MonitorSettles,
         PageCaptures, PageCaptureFails, PageRecalled, link
    <3>2. ASSUME NEW x \in Stop, StopHandler(x) \/ PageStops(x)
          PROVE  UNCHANGED queue \/ (queue # <<>> /\ queue' = Tail(queue))
      BY <3>2 DEF StopHandler, StopBegin, AtHead, StopSucceeds, StopFails, StopSettled, PageStops, link
    <3>3. ASSUME NEW x \in Stop, NEW id \in Id, NEW matches \in BOOLEAN, StopArrives(x, id, matches)
          PROVE  UNCHANGED queue \/ queue' = Append(queue, x)
      BY <3>3 DEF StopArrives
    <3>4. ASSUME \/ \E c \in Session : TabChanged(c) \/ DocumentReplaced(c)
                 \/ Connects \/ SocketCloses \/ PopupDisconnects \/ PopupDropsSocket \/ UNCHANGED vars
          PROVE  UNCHANGED queue \/ queue' = <<>>
      BY <3>4 DEF TabChanged, DocumentReplaced, Connects, SocketCloses, PopupDisconnects,
         PopupDropsSocket, Disconnected, vars, link
    <3> QED BY <3>1, <3>2, <3>3, <3>4 DEF Next, Environment
  <2> QED BY <1>2, <2>2, <2>3, <2>4, <2>5, <2>6
<1> QED BY <1>2, <1>3, <1>4, <1>5 DEF PcChange

LEMMA StartedStep ==
  ASSUME HandlerInv, [Next]_vars
  PROVE  StartedInv'
<1>1. PcChange /\ RegistryChange /\ StartedInv /\ active \subseteq Send /\ pc \in [Send -> HandlerPC]
  BY PcStep, StepChanges DEF HandlerInv, Typed, TypeOK, RegistryTypeOK, HandlerTypeOK
<1>2. CASE active' \subseteq active
  BY <1>1, <1>2 DEF PcChange, StartedInv
<1>3. ASSUME NEW s \in Send, SendBegin(s), Registers(s) PROVE StartedInv'
  <2>1. pc'[s] \notin Waiting
    BY <1>1, <1>3 DEF SendBegin, Refuse, Waiting
  <2>2. active' = active \cup {s}
    BY <1>3 DEF Registers
  <2> QED BY <1>1, <2>1, <2>2 DEF PcChange, StartedInv
<1> QED BY <1>1, <1>2, <1>3 DEF RegistryChange, Remove, registry

LEMMA ReportsStep ==
  ASSUME HandlerInv, [Next]_vars
  PROVE  ReportsInv'
<1>1. report \in [Send -> [pc : Report, found : BOOLEAN]] /\ ReportsInv
  BY DEF HandlerInv, Typed, TypeOK, HandlerTypeOK
<1>2. CASE UNCHANGED report
  BY <1>1, <1>2 DEF ReportsInv, IsGeneric
<1>3. ASSUME NEW s \in Send, ~IsGeneric(s), \A t \in Send \ {s} : report'[t] = report[t]
      PROVE  ReportsInv'
  BY <1>1, <1>3 DEF ReportsInv, IsGeneric
<1>4. ASSUME NEW s \in Send, PageCaptures(s) \/ PageCaptureFails(s) PROVE ReportsInv'
  BY <1>1, <1>2, <1>3, <1>4 DEF PageCaptures, PageCaptureFails, Reports
<1>5. ASSUME NEW s \in Send, ReportBound(s) \/ ReportSaved(s) PROVE ReportsInv'
  BY <1>1, <1>3, <1>5 DEF ReportBound, ReportSaved, Acknowledged, Reports, ReportsInv
<1>6. ASSUME NEW s \in Send, Handler(s) \/ Page(s) PROVE ReportsInv'
  BY <1>2, <1>4, <1>5, <1>6 DEF Handler, SendBegin, SendVerified, NativeReturns, GenericStatus,
     GenericReturns, FinalizeReturns, Page, PageAccepts, PageRefuses, PromptUndeliverable,
     PageClicks, PageAnswersSubmit, ProviderFinishes, MonitorSettles, PageRecalled
<1>7. ASSUME NEW x \in Stop, StopHandler(x) \/ PageStops(x) PROVE ReportsInv'
  BY <1>2, <1>7 DEF StopHandler, StopBegin, StopSucceeds, StopFails, StopSettled, PageStops
<1>8. ASSUME Environment \/ (\E c \in Session : TabChanged(c)) \/ PopupDropsSocket \/ UNCHANGED vars
      PROVE  ReportsInv'
  BY <1>2, <1>8 DEF Environment, SendArrives, StopArrives, DocumentReplaced, Connects, SocketCloses,
     PopupDisconnects, TabChanged, PopupDropsSocket, vars
<1> QED BY <1>6, <1>7, <1>8 DEF Next

LEMMA HeldStep ==
  ASSUME HandlerInv, [Next]_vars
  PROVE  HeldInv'
<1>1. HeldInv /\ held \subseteq Send /\ pc \in [Send -> HandlerPC]
  BY DEF HandlerInv, Typed, TypeOK, OrderingTypeOK, HandlerTypeOK
<1>2. ASSUME held' \subseteq held, UNCHANGED pc PROVE HeldInv'
  BY <1>1, <1>2 DEF HeldInv
<1>3. ASSUME held' \subseteq held, NEW s \in Send, pc[s] # "held",
             \A t \in Send \ {s} : pc'[t] = pc[t]
      PROVE  HeldInv'
  BY <1>1, <1>3 DEF HeldInv
<1>4. ASSUME NEW s, AcknowledgeInterrupted(s) \/ SendFailed(s) PROVE held' \subseteq held
  BY <1>4 DEF AcknowledgeInterrupted, SendFailed
<1>5. ASSUME NEW s \in Send, SendBegin(s) PROVE HeldInv'
  <2>1. pc[s] # "held"
    BY <1>5, HeadWaiting DEF SendBegin
  <2> QED BY <1>1, <1>3, <1>5, <2>1 DEF SendBegin, Refuse
<1>6. ASSUME NEW s \in Send, NEW ok \in BOOLEAN,
             SendVerified(s, ok) \/ GenericStatus(s, ok) \/ FinalizeReturns(s, ok)
      PROVE  HeldInv'
  BY <1>1, <1>3, <1>4, <1>6 DEF SendVerified, GenericStatus, FinalizeReturns, ordering
<1>7. ASSUME NEW s \in Send, NativeReturns(s) PROVE HeldInv'
  BY <1>1, <1>3, <1>4, <1>7 DEF NativeReturns
<1>8. ASSUME NEW s \in Send, GenericReturns(s) PROVE HeldInv'
  <2>1. CASE pc' = [pc EXCEPT ![s] = "held"] /\ held' \subseteq held \cup {s}
    BY <1>1, <2>1 DEF HeldInv
  <2> QED BY <1>1, <1>3, <1>8, <2>1 DEF GenericReturns
<1>9. ASSUME NEW s \in Send, Page(s) \/ ReportBound(s) \/ ReportSaved(s) PROVE HeldInv'
  BY <1>2, <1>9 DEF Page, PageAccepts, PageRefuses, PromptUndeliverable, PageClicks,
     PageAnswersSubmit, ProviderFinishes, MonitorSettles, PageCaptures, PageCaptureFails,
     PageRecalled, ReportBound, ReportSaved, ordering
<1>10. ASSUME NEW x \in Stop, StopFails(x) PROVE HeldInv'
  <2>1. held' = held \ Completion(stop[x].id)
    BY <1>10 DEF StopFails
  <2>2. \A s \in Send : pc'[s] = pc[s] \/ s \in Completion(stop[x].id)
    BY <1>1, <1>10 DEF StopFails
  <2> QED BY <1>1, <2>1, <2>2 DEF HeldInv
<1>11. ASSUME NEW x \in Stop, StopBegin(x) \/ StopSucceeds(x) \/ StopSettled(x) \/ PageStops(x)
       PROVE  HeldInv'
  BY <1>2, <1>4, <1>11 DEF StopBegin, StopSucceeds, StopSettled, PageStops, ordering
<1>12. ASSUME NEW s \in Send, SendArrives(s) PROVE HeldInv'
  BY <1>1, <1>3, <1>12 DEF SendArrives
<1>13. ASSUME \/ \E x \in Stop, id \in Id, matches \in BOOLEAN : StopArrives(x, id, matches)
              \/ \E c \in Session : TabChanged(c) \/ DocumentReplaced(c)
              \/ Connects \/ SocketCloses \/ PopupDisconnects \/ PopupDropsSocket \/ UNCHANGED vars
       PROVE  HeldInv'
  BY <1>2, <1>13 DEF StopArrives, TabChanged, DocumentReplaced, Connects, SocketCloses,
     PopupDisconnects, PopupDropsSocket, ordering, vars
<1> QED
  BY <1>5, <1>6, <1>7, <1>8, <1>9, <1>10, <1>11, <1>12, <1>13
  DEF Next, Handler, StopHandler, Environment

\* What a step does to the frames: nothing; an end for registered turns, which leave the
\* registry; a report of a native page; or the interruption of a turn that was still queued.
FramesChange ==
    \/ UNCHANGED frames
    \/ \E S \in SUBSET active, kind \in Kind : Tell(S, kind) /\ active' = active \ S
    \/ \E s \in Send, kind \in Kind : ~IsGeneric(s) /\ Tell({s}, kind)
    \/ \E s \in Send, kind \in Kind :
          pc[s] = "queued" /\ pc'[s] = "done" /\ s \notin active /\ Tell({s}, kind) /\ UNCHANGED active

LEMMA KindNames == {"interrupted", "response", "error"} \subseteq Kind
  BY DEF Kind

\* Under distinct ids the request found under a turn's id is the turn itself.
LEMMA HolderIsOwn ==
  ASSUME IdsDistinct, Typed, NEW s \in Send, Has(idOf[s])
  PROVE  Holder(idOf[s]) = {s} /\ {s} \in SUBSET active
  BY DEF IdsDistinct, Typed, TypeOK, RegistryTypeOK, Has, Holder

LEMMA EndsOwn ==
  ASSUME IdsDistinct, Typed, NEW s \in Send, NEW kind \in Kind, Has(idOf[s]),
         Remove(Holder(idOf[s])), Tell({s}, kind)
  PROVE  FramesChange
  BY HolderIsOwn DEF FramesChange, Remove

LEMMA AcknowledgeFrames ==
  ASSUME IdsDistinct, Typed, NEW s \in Send, AcknowledgeInterrupted(s)
  PROVE  FramesChange
<1>1. CASE UNCHANGED frames
  BY <1>1 DEF FramesChange
<1>2. CASE Has(idOf[s])
  BY <1>2, EndsOwn, KindNames DEF AcknowledgeInterrupted
<1> QED BY <1>1, <1>2 DEF AcknowledgeInterrupted

LEMMA SendFailedFrames ==
  ASSUME IdsDistinct, Typed, NEW s \in Send, SendFailed(s)
  PROVE  FramesChange
<1>1. CASE UNCHANGED frames
  BY <1>1 DEF FramesChange
<1>2. CASE idOf[s] \notin pendingInterrupts /\ Has(idOf[s])
  BY <1>2, EndsOwn, KindNames DEF SendFailed
<1> QED BY <1>1, <1>2, AcknowledgeFrames DEF SendFailed

LEMMA FailFrames ==
  ASSUME IdsDistinct, Typed, NEW s \in Send, NEW pending, FailGenericTurn(s, pending)
  PROVE  FramesChange
<1>1. CASE UNCHANGED frames
  BY <1>1 DEF FramesChange
<1>2. CASE Has(idOf[s]) /\ Remove(Holder(idOf[s])) /\ Tell({s}, "error")
  BY <1>2, EndsOwn, KindNames
<1> QED BY <1>1, <1>2 DEF FailGenericTurn

LEMMA FramesStep ==
  ASSUME IdsDistinct, OnceInv, [Next]_vars
  PROVE  FramesChange
<1>0. Typed /\ ReportsInv
  BY DEF OnceInv, HandlerInv
<1>1. CASE UNCHANGED frames
  BY <1>1 DEF FramesChange
<1>2. ASSUME NEW s \in Send, SendBegin(s) PROVE FramesChange
  <2>1. pc[s] = "queued" /\ pc \in [Send -> HandlerPC]
    BY <1>2, HeadWaiting DEF SendBegin, OnceInv, HandlerInv, Typed, TypeOK, HandlerTypeOK
  <2>2. CASE UNCHANGED frames
    BY <2>2 DEF FramesChange
  <2>3. CASE ~Busy(s) /\ pc' = [pc EXCEPT ![s] = "done"] /\ Tell({s}, "interrupted") /\ UNCHANGED registry
    <3>1. s \notin active
      BY <2>3 DEF Busy, Has, Holder
    <3>2. pc'[s] = "done" /\ UNCHANGED active
      BY <2>1, <2>3 DEF registry
    <3> QED BY <2>1, <2>3, <3>1, <3>2, KindNames DEF FramesChange
  <2> QED BY <1>2, <2>2, <2>3 DEF SendBegin, Refuse
<1>3. ASSUME NEW s \in Send, NEW ok \in BOOLEAN, SendVerified(s, ok) PROVE FramesChange
  BY <1>0, <1>1, <1>3, SendFailedFrames, AcknowledgeFrames DEF SendVerified
<1>4. ASSUME NEW s \in Send, NativeReturns(s) PROVE FramesChange
  BY <1>0, <1>1, <1>4, SendFailedFrames DEF NativeReturns
<1>5. ASSUME NEW s \in Send, NEW ok \in BOOLEAN, GenericStatus(s, ok) PROVE FramesChange
  BY <1>0, <1>1, <1>5, FailFrames, AcknowledgeFrames DEF GenericStatus
<1>6. ASSUME NEW s \in Send, GenericReturns(s) PROVE FramesChange
  BY <1>0, <1>1, <1>6, FailFrames DEF GenericReturns
<1>7. ASSUME NEW s \in Send, NEW ok \in BOOLEAN, FinalizeReturns(s, ok) PROVE FramesChange
  BY <1>0, <1>1, <1>7, FailFrames, EndsOwn, KindNames DEF FinalizeReturns
<1>8. ASSUME NEW s \in Send, ReportBound(s) \/ ReportSaved(s) PROVE FramesChange
  <2>1. ~IsGeneric(s)
    BY <1>0, <1>8 DEF ReportBound, ReportSaved, ReportsInv
  <2>2. UNCHANGED frames \/ Tell({s}, "error") \/ Tell({s}, "response")
    BY <1>8 DEF ReportBound, ReportSaved
  <2> QED BY <2>1, <2>2, KindNames DEF FramesChange
<1>9. ASSUME NEW x \in Stop, StopSucceeds(x) PROVE FramesChange
  <2>1. stop[x].target \in Send
    BY <1>9 DEF OnceInv, HandlerInv, Typed, StopHasTarget, StopSucceeds
  <2> QED BY <1>0, <1>9, <2>1, AcknowledgeFrames DEF StopSucceeds
<1>10. ASSUME NEW x \in Stop, StopFails(x) PROVE FramesChange
  <2>1. \A s \in Completion(stop[x].id) : s \in Send
    BY <1>0 DEF Completion, Typed, TypeOK, OrderingTypeOK
  <2>2. UNCHANGED frames \/ \E s \in Send : \E pending : FailGenericTurn(s, pending)
    BY <1>10, <2>1 DEF StopFails
  <2> QED BY <1>0, <1>1, <2>2, FailFrames
<1>11. ASSUME NEW x \in Stop, StopBegin(x) \/ StopSettled(x) \/ PageStops(x) PROVE FramesChange
  BY <1>1, <1>11 DEF StopBegin, StopSettled, PageStops
<1>12. ASSUME NEW s \in Send, Page(s) PROVE FramesChange
  BY <1>1, <1>12 DEF Page, PageAccepts, PageRefuses, PromptUndeliverable, PageClicks,
     PageAnswersSubmit, ProviderFinishes, MonitorSettles, PageCaptures, PageCaptureFails,
     PageRecalled
<1>13. ASSUME NEW c \in Session, TabChanged(c) PROVE FramesChange
  <2> DEFINE lost == {s \in active : sessionOf[s] = c}
  <2>1. lost \in SUBSET active /\ Tell(lost, "error") /\ active' = active \ lost
    BY <1>13 DEF TabChanged, Remove
  <2> HIDE DEF lost
  <2> QED BY <2>1, KindNames DEF FramesChange
<1>14. ASSUME Environment \/ PopupDropsSocket \/ UNCHANGED vars PROVE FramesChange
  BY <1>1, <1>14 DEF Environment, SendArrives, StopArrives, DocumentReplaced, Connects, SocketCloses,
     PopupDisconnects, PopupDropsSocket, vars
<1> QED
  BY <1>2, <1>3, <1>4, <1>5, <1>6, <1>7, <1>8, <1>9, <1>10, <1>11, <1>12, <1>13, <1>14
  DEF Next, Handler, StopHandler

\* A turn that is not told anything keeps its frames; one that is gets one more.
LEMMA TellLength ==
  ASSUME Typed, NEW S, NEW kind \in Kind, Tell(S, kind), NEW s \in Send
  PROVE  /\ s \notin S => frames'[s] = frames[s]
         /\ Len(frames[s]) \in Nat
         /\ frames[s] = <<>> => Len(frames'[s]) <= 1
<1>1. frames[s] \in Seq([kind : Kind, conn : 1..MaxConns])
  BY DEF Typed, TypeOK, FramesTypeOK
<1>2. frames'[s] = frames[s] \/ (s \in S /\ frames'[s] = Append(frames[s], [kind |-> kind, conn |-> conn]))
  BY DEF Tell
<1>3. \A e : Len(Append(<<>>, e)) = 1
  OBVIOUS
<1> QED BY <1>1, <1>2, <1>3

LEMMA AnswerStep ==
  ASSUME IdsDistinct, OnceInv, [Next]_vars
  PROVE  AnswerInv'
<1> SUFFICES ASSUME NEW s \in Send, IsGeneric(s)
             PROVE  /\ Len(frames'[s]) <= 1
                    /\ pc'[s] \in Waiting \/ s \in active' => frames'[s] = <<>>
  BY DEF AnswerInv, IsGeneric
<1>1. /\ FramesChange /\ PcChange /\ RegistryChange /\ Typed
      /\ pc[s] \in Waiting \/ s \in active => frames[s] = <<>>
      /\ Len(frames[s]) <= 1
      /\ s \in active => pc[s] \notin Waiting
  BY FramesStep, PcStep, StepChanges DEF OnceInv, HandlerInv, AnswerInv, StartedInv
<1>2. s \in active' => s \in active \/ pc[s] \in Waiting
  <2>1. CASE active' \subseteq active
    BY <2>1
  <2>2. ASSUME NEW t \in Send, SendBegin(t), Registers(t)
        PROVE  s \in active' => s \in active \/ pc[s] \in Waiting
    BY <2>2, HeadWaiting DEF OnceInv, SendBegin, Registers, Waiting
  <2> QED BY <1>1, <2>1, <2>2 DEF RegistryChange, Remove, registry
<1>3. pc'[s] \in Waiting => pc[s] \in Waiting
  BY <1>1 DEF PcChange
<1>4. CASE frames'[s] = frames[s]
  BY <1>1, <1>2, <1>3, <1>4
<1>5. ASSUME NEW S \in SUBSET active, NEW kind \in Kind, Tell(S, kind), active' = active \ S, s \in S
      PROVE  /\ Len(frames'[s]) <= 1
             /\ pc'[s] \in Waiting \/ s \in active' => frames'[s] = <<>>
  BY <1>1, <1>3, <1>5, TellLength
<1>6. ASSUME NEW kind \in Kind, Tell({s}, kind), pc[s] = "queued", pc'[s] = "done", s \notin active,
             UNCHANGED active
      PROVE  /\ Len(frames'[s]) <= 1
             /\ pc'[s] \in Waiting \/ s \in active' => frames'[s] = <<>>
  BY <1>1, <1>6, TellLength DEF Waiting
<1>7. \/ frames'[s] = frames[s]
      \/ \E S \in SUBSET active, kind \in Kind : Tell(S, kind) /\ active' = active \ S /\ s \in S
      \/ \E kind \in Kind : /\ Tell({s}, kind) /\ pc[s] = "queued" /\ pc'[s] = "done"
                            /\ s \notin active /\ UNCHANGED active
  BY <1>1, TellLength DEF FramesChange
<1> QED BY <1>4, <1>5, <1>6, <1>7

\* A generic turn is answered once: of its runner, the Stops, a navigation and a disconnect, only
\* the one that finds the turn registered reports its end, and it removes the turn in that step.
\* It needs the controller to name its requests differently.
THEOREM GenericAlwaysAnsweredOnce ==
  ASSUME IdsDistinct
  PROVE  Spec => []GenericAnsweredOnce
<1>1. OnceInv /\ [Next]_vars => OnceInv'
  BY StepTyped, QueueStep, HeldStep, StartedStep, ReportsStep, AnswerStep DEF OnceInv, HandlerInv
<1>2. OnceInv => GenericAnsweredOnce
  BY DEF OnceInv, HandlerInv, AnswerInv, GenericAnsweredOnce
<1> QED
  BY InitOnce, <1>1, <1>2, PTL DEF Spec

-----------------------------------------------------------------------------
(* Nothing after an interrupted frame.  For a generic turn that is the theorem *)
(* above: there is one frame.  A ChatGPT or Claude page reports its end in a   *)
(* message of its own, which may be under way when a Stop succeeds; what       *)
(* excludes it is that the Stop only succeeds on a page that has nothing left  *)
(* to report.                                                                  *)

\* The worker has dispatched the prompt, or ended the turn.
Begun(s) == pc[s] \notin Waiting \cup {"verify", "status"}

\* What a page holds, and what it has reported.
PageOk(s) ==
    /\ page[s] # "none" => Begun(s)
    /\ ~IsGeneric(s) =>
        /\ page[s] \notin {"reporting", "over"} => report[s].pc = "none"
        /\ page[s] = "over" /\ report[s].pc # "none" => sessionOf[s] \in gone
        /\ page[s] = "accepted" => sessionOf[s] \notin gone
        /\ pc[s] = "submit" /\ reply[s] # "submitted" => report[s].pc = "none"

PageInv == \A s \in Send : PageOk(s)

\* The page has reported nothing and will never submit, capture or report.
Quiet(s) ==
    /\ report[s].pc = "none"
    /\ \/ page[s] = "over"
       \/ page[s] \in {"none", "accepted"} /\ Mark(s) \in cancelled
       \/ page[s] = "none" /\ sessionOf[s] \in gone

\* A Stop is in the queue once, and only until its handler begins.
StopQueueInv ==
    /\ \A i \in 1..Len(queue) : queue[i] \in Stop => stop[queue[i]].pc = "queued"
    /\ \A i, j \in 1..Len(queue) : queue[i] \in Stop /\ queue[i] = queue[j] => i = j

\* A page that said it prevented or confirmed a Stop is quiet from then on.
Settles(x) == stop[x].pc = "asked" /\ stop[x].answer \in {"confirmed", "prevented"}

StopOk(x) ==
    /\ stop[x].pc = "queued" => stop[x].answer = "none"
    /\ Settles(x) => IsGeneric(stop[x].target) \/ Quiet(stop[x].target)

StopInv == \A x \in Stop : StopOk(x)

\* A frame about the turn may still be sent.
MayEnd(s) ==
    \/ s \in active \/ pc[s] \in Waiting
    \/ report[s].pc = "saving" \/ (report[s].pc # "none" /\ report[s].found)

\* A turn that was told it was interrupted is told nothing else.
LastWord(s) ==
    \A i \in 1..Len(frames[s]) : frames[s][i].kind = "interrupted" => i = Len(frames[s])

ToldInv == \A s \in Send : ~IsGeneric(s) => LastWord(s) /\ (Told(s, "interrupted") => ~MayEnd(s))

FinalInv == OnceInv /\ PageInv /\ StopQueueInv /\ StopInv /\ ToldInv

LEMMA InitFinal == Init => FinalInv
<1> SUFFICES ASSUME Init PROVE FinalInv
  OBVIOUS
<1>1. PageInv /\ StopQueueInv /\ StopInv
  BY DEF Init, PageInv, PageOk, Begun, Waiting, StopQueueInv, StopInv, StopOk, Settles
<1>2. \A s \in Send : Len(frames[s]) = 0
  BY DEF Init
<1>3. ToldInv
  BY <1>2 DEF ToldInv, LastWord, Told
<1> QED BY <1>1, <1>3, InitOnce DEF FinalInv

\* A step that leaves a turn's page and report alone.
LEMMA PageKept ==
  ASSUME PageInv, NEW s \in Send, page'[s] = page[s], report'[s] = report[s], UNCHANGED gone,
         Begun(s) => Begun(s)', pc'[s] = "submit" => pc[s] = "submit" /\ reply'[s] = reply[s]
  PROVE  PageOk(s)'
  BY DEF PageInv, PageOk, IsGeneric

\* No step makes a page report twice, forget a report, or submit before it was asked.
LEMMA PageStep ==
  ASSUME HandlerInv, PageInv, [Next]_vars
  PROVE  PageInv'
<1>0. /\ Typed /\ pc \in [Send -> HandlerPC] /\ page \in [Send -> PageState]
      /\ report \in [Send -> [pc : Report, found : BOOLEAN]] /\ reply \in [Send -> Reply]
  BY DEF HandlerInv, Typed, TypeOK, HandlerTypeOK, ContentTypeOK
<1>1. ASSUME UNCHANGED <<page, report, gone>>,
             \A s \in Send : Begun(s) => Begun(s)',
             \A s \in Send : pc'[s] = "submit" => pc[s] = "submit" /\ reply'[s] = reply[s]
      PROVE  PageInv'
  BY <1>1, PageKept DEF PageInv
<1>2. ASSUME UNCHANGED <<pc, gone>>, NEW s \in Send, PageOk(s)',
             \A t \in Send \ {s} : page'[t] = page[t] /\ report'[t] = report[t] /\ reply'[t] = reply[t]
      PROVE  PageInv'
  <2>1. \A t \in Send \ {s} : PageOk(t)'
    BY <1>2, PageKept DEF Begun
  <2> QED BY <1>2, <2>1 DEF PageInv
<1>3. ASSUME NEW s \in Send, NEW p, pc' = [pc EXCEPT ![s] = p],
             p \notin {"submit", "verify", "status"} \cup Waiting \/ (p # "submit" /\ ~Begun(s)),
             UNCHANGED <<page, report, gone>>, \A t \in Send \ {s} : reply'[t] = reply[t]
      PROVE  PageInv'
  BY <1>0, <1>1, <1>3 DEF Begun
<1>4. ASSUME NEW s \in Send, SendArrives(s) PROVE PageInv'
  BY <1>3, <1>4 DEF SendArrives, content, doc, Begun, Waiting
<1>5. ASSUME NEW s \in Send, SendBegin(s) PROVE PageInv'
  <2>1. pc[s] = "queued"
    BY <1>5, HeadWaiting DEF SendBegin
  <2>2. \E p \in {"done", "verify"} : pc' = [pc EXCEPT ![s] = p]
    BY <1>5 DEF SendBegin, Refuse
  <2> QED BY <1>3, <1>5, <2>1, <2>2 DEF SendBegin, content, doc, Begun, Waiting
<1>6. ASSUME NEW s \in Send, NEW ok \in BOOLEAN, SendVerified(s, ok) PROVE PageInv'
  <2>1. pc[s] = "verify" /\ UNCHANGED <<page, report, gone, reply>>
    BY <1>6 DEF SendVerified, content, doc
  <2>2. \E p \in {"done", "submit", "status"} : pc' = [pc EXCEPT ![s] = p]
    BY <1>6 DEF SendVerified
  <2>3. page[s] = "none"
    BY <2>1 DEF PageInv, PageOk, Begun
  <2>4. PageOk(s)'
    BY <2>1, <2>3 DEF PageInv, PageOk, IsGeneric
  <2>5. \A t \in Send \ {s} : PageOk(t)'
    BY <1>0, <2>1, <2>2, PageKept DEF Begun
  <2> QED BY <2>4, <2>5 DEF PageInv
<1>7. ASSUME NEW s \in Send, NativeReturns(s) PROVE PageInv'
  BY <1>0, <1>3, <1>7 DEF NativeReturns, doc, Waiting
<1>8. ASSUME NEW s \in Send, NEW ok \in BOOLEAN, GenericStatus(s, ok) PROVE PageInv'
  BY <1>3, <1>8 DEF GenericStatus, content, doc, Waiting
<1>9. ASSUME NEW s \in Send, GenericReturns(s) PROVE PageInv'
  <2>1. \E p \in {"held", "finalize", "done"} : pc' = [pc EXCEPT ![s] = p]
    BY <1>9 DEF GenericReturns
  <2> QED BY <1>0, <1>3, <1>9, <2>1 DEF GenericReturns, doc, Waiting
<1>10. ASSUME NEW s \in Send, NEW ok \in BOOLEAN, FinalizeReturns(s, ok) PROVE PageInv'
  BY <1>3, <1>10 DEF FinalizeReturns, content, doc, Waiting
<1>11. ASSUME NEW x \in Stop, StopFails(x) PROVE PageInv'
  <2>1. \A s \in Completion(stop[x].id) : s \in Send /\ pc[s] = "held"
    BY DEF Completion, HandlerInv, HeldInv, Typed, TypeOK, OrderingTypeOK
  <2>2. \A s \in Send : pc'[s] = pc[s] \/ pc'[s] \in {"finalize", "done"}
    BY <1>0, <1>11 DEF StopFails
  <2>3. \A s \in Send : pc[s] = "submit" => reply'[s] = reply[s]
    BY <1>11, <2>1 DEF StopFails
  <2> QED BY <1>1, <1>11, <2>2, <2>3 DEF StopFails, doc, Begun, Waiting
<1>12. ASSUME NEW x \in Stop, StopBegin(x) \/ StopSucceeds(x) \/ StopSettled(x) PROVE PageInv'
  BY <1>1, <1>12 DEF StopBegin, StopSucceeds, StopSettled, content, doc, Begun
<1>13. ASSUME NEW x \in Stop, NEW id \in Id, NEW matches \in BOOLEAN, StopArrives(x, id, matches)
       PROVE  PageInv'
  BY <1>1, <1>13 DEF StopArrives, content, doc, Begun
<1>14. ASSUME NEW s \in Send, Page(s) PROVE PageInv'
  <2>1. CASE PageAccepts(s) \/ PageRefuses(s) \/ PromptUndeliverable(s)
    BY <1>0, <1>2, <2>1
    DEF PageAccepts, PageRefuses, PromptUndeliverable, Dispatched, doc, PageInv, PageOk, Begun,
        Waiting, IsGeneric
  <2>2. CASE PageClicks(s) \/ PageAnswersSubmit(s) \/ MonitorSettles(s)
    BY <1>0, <1>2, <2>2
    DEF PageClicks, PageAnswersSubmit, MonitorSettles, doc, PageInv, PageOk, Begun, IsGeneric
  <2>3. CASE ProviderFinishes(s)
    BY <1>1, <2>3 DEF ProviderFinishes, doc, Begun
  <2>4. CASE PageCaptures(s) \/ PageCaptureFails(s)
    BY <1>0, <1>2, <2>4
    DEF PageCaptures, PageCaptureFails, Reports, doc, PageInv, PageOk, Begun, IsGeneric
  <2>5. CASE PageRecalled(s)
    BY <1>0, <1>2, <2>5
    DEF PageRecalled, PagePrevents, PageConfirmsStop, PageCannotStop, doc, PageInv, PageOk, Begun,
        IsGeneric
  <2> QED BY <1>14, <2>1, <2>2, <2>3, <2>4, <2>5 DEF Page
<1>15. ASSUME NEW x \in Stop, PageStops(x) PROVE PageInv'
  <2>1. stop[x].target \in Send
    BY <1>15 DEF HandlerInv, Typed, StopHasTarget, PageStops
  <2> QED
    BY <1>0, <1>2, <1>15, <2>1
    DEF PageStops, PagePrevents, PageConfirmsStop, PageCannotStop, doc, PageInv, PageOk, Begun,
        IsGeneric
<1>16. ASSUME NEW s \in Send, ReportBound(s) \/ ReportSaved(s) PROVE PageInv'
  <2>1. ~IsGeneric(s) /\ report[s].pc # "none"
    BY <1>16 DEF ReportBound, ReportSaved, HandlerInv, ReportsInv
  <2> QED
    BY <1>0, <1>2, <1>16, <2>1
    DEF ReportBound, ReportSaved, Acknowledged, Reports, doc, PageInv, PageOk, Begun, IsGeneric
<1>17. ASSUME NEW c \in Session, DocumentReplaced(c) PROVE PageInv'
  <2> SUFFICES ASSUME NEW s \in Send PROVE PageOk(s)'
    BY DEF PageInv
  <2>1. /\ UNCHANGED <<pc, report>> /\ gone' = gone \cup {c}
        /\ page'[s] = IF sessionOf[s] = c /\ page[s] # "none" THEN "over" ELSE page[s]
        /\ reply'[s] = IF sessionOf[s] = c /\ pc[s] \in {"submit", "send"} /\ reply[s] = "none"
                       THEN "rejected" ELSE reply[s]
    BY <1>17 DEF DocumentReplaced
  <2> QED BY <1>0, <2>1 DEF PageInv, PageOk, Begun, IsGeneric
<1>18. ASSUME \/ \E c \in Session : TabChanged(c)
              \/ Connects \/ SocketCloses \/ PopupDisconnects \/ PopupDropsSocket \/ UNCHANGED vars
       PROVE  PageInv'
  BY <1>1, <1>18 DEF TabChanged, Connects, SocketCloses, PopupDisconnects, PopupDropsSocket, content,
     doc, Begun, vars
<1> QED
  BY <1>4, <1>5, <1>6, <1>7, <1>8, <1>9, <1>10, <1>11, <1>12, <1>13, <1>14, <1>15, <1>16, <1>17, <1>18
  DEF Next, Handler, StopHandler, Environment

\* A quiet page stays quiet: its cancellation mark is its own, since no other request has its id.
LEMMA QuietStep ==
  ASSUME IdsDistinct, OnceInv, [Next]_vars, NEW s \in Send, ~IsGeneric(s), Quiet(s)
  PROVE  Quiet(s)'
<1>0. /\ page \in [Send -> PageState] /\ report \in [Send -> [pc : Report, found : BOOLEAN]]
      /\ cancelled \subseteq Session \X Id
      /\ \A t \in Send \ {s} : Mark(t) # Mark(s)
  BY DEF OnceInv, HandlerInv, Typed, TypeOK, HandlerTypeOK, ContentTypeOK, IdsDistinct, Mark
<1>1. ASSUME UNCHANGED <<page, report, gone, cancelled>> PROVE Quiet(s)'
  BY <1>1 DEF Quiet, Mark
<1>2. ASSUME UNCHANGED gone, page'[s] = page[s], report'[s] = report[s], NEW t \in Send \ {s},
             cancelled \ {Mark(t)} \subseteq cancelled'
      PROVE  Quiet(s)'
  BY <1>0, <1>2 DEF Quiet, Mark
<1>3. ASSUME UNCHANGED gone, report'[s] = report[s], page'[s] = "over"
      PROVE  Quiet(s)'
  BY <1>3 DEF Quiet
<1>4. ASSUME UNCHANGED gone, UNCHANGED report, page'[s] = page[s], cancelled \subseteq cancelled'
      PROVE  Quiet(s)'
  BY <1>4 DEF Quiet, Mark
<1>5. ASSUME NEW t \in Send, PagePrevents(t) \/ PageConfirmsStop(t) \/ PageCannotStop(t),
             UNCHANGED <<gone, report>>
      PROVE  Quiet(s)'
  <2>1. cancelled \subseteq cancelled' /\ (page'[s] = page[s] \/ page'[s] = "over")
    BY <1>0, <1>5 DEF PagePrevents, PageConfirmsStop, PageCannotStop
  <2> QED BY <1>3, <1>4, <1>5, <2>1
<1>6. ASSUME NEW t \in Send, Page(t) PROVE Quiet(s)'
  <2>1. CASE PageRecalled(t)
    BY <1>5, <2>1 DEF PageRecalled, doc
  <2>2. CASE ProviderFinishes(t)
    BY <1>1, <2>2 DEF ProviderFinishes, doc
  <2>3. ASSUME t # s, PageAccepts(t) \/ PageRefuses(t) \/ PromptUndeliverable(t) \/ PageClicks(t)
                      \/ PageAnswersSubmit(t) \/ MonitorSettles(t)
        PROVE  Quiet(s)'
    BY <1>0, <1>2, <2>3
    DEF PageAccepts, PageRefuses, PromptUndeliverable, PageClicks, PageAnswersSubmit, MonitorSettles, doc
  <2>4. ASSUME t # s, PageCaptures(t) \/ PageCaptureFails(t)
        PROVE  Quiet(s)'
    BY <1>0, <1>2, <2>4 DEF PageCaptures, PageCaptureFails, Reports, doc
  <2>5. CASE t = s /\ (PageRefuses(t) \/ PromptUndeliverable(t))
    BY <1>0, <1>3, <2>5 DEF PageRefuses, PromptUndeliverable, doc
  <2>6. CASE t = s /\ (PageAccepts(t) \/ PageClicks(t) \/ PageAnswersSubmit(t) \/ MonitorSettles(t)
                       \/ PageCaptures(t) \/ PageCaptureFails(t))
    BY <2>6 DEF Quiet, PageAccepts, Dispatched, PageClicks, PageAnswersSubmit, MonitorSettles,
       PageCaptures, PageCaptureFails
  <2> QED BY <1>6, <2>1, <2>2, <2>3, <2>4, <2>5, <2>6 DEF Page
<1>7. ASSUME NEW x \in Stop, PageStops(x) PROVE Quiet(s)'
  <2>1. stop[x].target \in Send
    BY <1>7 DEF OnceInv, HandlerInv, Typed, StopHasTarget, PageStops
  <2> QED BY <1>5, <1>7, <2>1 DEF PageStops, doc
<1>8. ASSUME NEW t \in Send, ReportBound(t) \/ ReportSaved(t) PROVE Quiet(s)'
  <2>1. t # s
    BY <1>8 DEF Quiet, ReportBound, ReportSaved
  <2> QED BY <1>0, <1>2, <1>8, <2>1
          DEF ReportBound, ReportSaved, Acknowledged, Reports, doc
<1>9. ASSUME NEW c \in Session, DocumentReplaced(c) PROVE Quiet(s)'
  <2>1. /\ UNCHANGED report /\ gone' = gone \cup {c} /\ cancelled' = {m \in cancelled : m[1] # c}
        /\ page'[s] = IF sessionOf[s] = c /\ page[s] # "none" THEN "over" ELSE page[s]
    BY <1>9 DEF DocumentReplaced
  <2>2. Mark(s)[1] = sessionOf[s]
    BY DEF Mark
  <2> QED BY <1>0, <2>1, <2>2 DEF Quiet, Mark
<1>10. ASSUME NEW t \in Send, Handler(t), ~ReportBound(t), ~ReportSaved(t) PROVE Quiet(s)'
  BY <1>1, <1>10 DEF Handler, SendBegin, SendVerified, NativeReturns, GenericStatus, GenericReturns,
     FinalizeReturns, content, doc
<1>11. ASSUME NEW x \in Stop, StopHandler(x) PROVE Quiet(s)'
  BY <1>1, <1>11 DEF StopHandler, StopBegin, StopSucceeds, StopFails, StopSettled, content, doc
<1>12. ASSUME \/ \E t \in Send : SendArrives(t)
              \/ \E x \in Stop, id \in Id, matches \in BOOLEAN : StopArrives(x, id, matches)
              \/ \E c \in Session : TabChanged(c)
              \/ Connects \/ SocketCloses \/ PopupDisconnects \/ PopupDropsSocket \/ UNCHANGED vars
       PROVE  Quiet(s)'
  BY <1>1, <1>12 DEF SendArrives, StopArrives, TabChanged, Connects, SocketCloses, PopupDisconnects,
     PopupDropsSocket, content, doc, vars
<1> QED
  BY <1>6, <1>7, <1>8, <1>9, <1>10, <1>11, <1>12 DEF Next, Environment

\* The page that answers a Stop with prevented or confirmed is quiet.
LEMMA AnswerQuiets ==
  ASSUME OnceInv, PageInv, NEW s \in Send, ~IsGeneric(s), PagePrevents(s) \/ PageConfirmsStop(s),
         UNCHANGED <<report, doc>>
  PROVE  Quiet(s)'
<1>1. page \in [Send -> PageState]
  BY DEF OnceInv, HandlerInv, Typed, TypeOK, ContentTypeOK
<1>2. CASE PagePrevents(s)
  BY <1>1, <1>2 DEF PagePrevents, PageInv, PageOk, Quiet, Mark, doc
<1>3. CASE PageConfirmsStop(s)
  BY <1>1, <1>3 DEF PageConfirmsStop, PageInv, PageOk, Quiet, doc
<1> QED BY <1>2, <1>3

\* The Stop that begins was queued, and no other place in the queue holds it.
LEMMA StopHeadQueued ==
  ASSUME HandlerInv, StopQueueInv, NEW x \in Stop, AtHead(x)
  PROVE  stop[x].pc = "queued" /\ \A i \in 1..Len(Tail(queue)) : Tail(queue)[i] # x
<1>1. queue \in Seq(Send \cup Stop) /\ queue # <<>>
  BY DEF HandlerInv, Typed, TypeOK, LinkTypeOK, AtHead
<1>2. Len(queue) \in Nat /\ Len(queue) >= 1 /\ Head(queue) = queue[1]
  BY <1>1
<1>3. \A i \in 1..Len(Tail(queue)) : Tail(queue)[i] = queue[i + 1] /\ i + 1 \in 1..Len(queue) /\ i + 1 # 1
  BY <1>1, <1>2, HeadTailProperties
<1>4. queue[1] = x /\ 1 \in 1..Len(queue)
  BY <1>2 DEF AtHead
<1> QED BY <1>3, <1>4 DEF StopQueueInv

LEMMA StopQueueStep ==
  ASSUME HandlerInv, StopQueueInv, [Next]_vars
  PROVE  StopQueueInv'
<1>0. /\ queue \in Seq(Send \cup Stop) /\ Send \cap Stop = {} /\ Len(queue) \in Nat
      /\ stop \in [Stop -> [pc : StopPC, id : Id \cup {None}, matches : BOOLEAN,
                           target : Send \cup {None}, answer : Answer]]
  BY SendAssumption DEF HandlerInv, Typed, TypeOK, LinkTypeOK, HandlerTypeOK
<1>1. ASSUME \A x \in Stop : stop[x].pc = "queued" => stop'[x].pc = "queued",
             UNCHANGED queue \/ queue' = <<>>
      PROVE  StopQueueInv'
  BY <1>1 DEF StopQueueInv
<1>2. ASSUME NEW s \in Send, queue' = Append(queue, s), UNCHANGED stop PROVE StopQueueInv'
  <2>1. /\ Len(queue') = Len(queue) + 1 /\ queue'[Len(queue) + 1] = s /\ s \notin Stop
        /\ \A i \in 1..Len(queue) : queue'[i] = queue[i]
    BY <1>0, <1>2, AppendProperties
  <2> QED BY <1>0, <1>2, <2>1 DEF StopQueueInv
<1>3. ASSUME NEW x \in Stop, queue' = Append(queue, x), stop[x].pc = "unused", stop'[x].pc = "queued",
             \A y \in Stop \ {x} : stop'[y] = stop[y]
      PROVE  StopQueueInv'
  <2>1. /\ Len(queue') = Len(queue) + 1 /\ queue'[Len(queue) + 1] = x
        /\ \A i \in 1..Len(queue) : queue'[i] = queue[i]
    BY <1>0, <1>3, AppendProperties
  <2>2. \A i \in 1..Len(queue) : queue[i] # x
    BY <1>0, <1>3 DEF StopQueueInv
  <2> QED BY <1>0, <1>3, <2>1, <2>2 DEF StopQueueInv
<1>4. ASSUME queue # <<>>, queue' = Tail(queue), NEW h \in Send \cup Stop,
             \A i \in 1..Len(queue') : queue'[i] = h => h \in Send,
             \A y \in Stop \ {h} : stop'[y] = stop[y]
      PROVE  StopQueueInv'
  <2>1. /\ Len(queue') = Len(queue) - 1 /\ Len(queue') \in Nat
        /\ \A i \in 1..Len(queue') : queue'[i] = queue[i + 1] /\ i + 1 \in 1..Len(queue)
    BY <1>0, <1>4, HeadTailProperties
  <2>2. \A i \in 1..Len(queue') : queue'[i] \in Stop => stop'[queue'[i]].pc = "queued"
    BY <1>0, <1>4, <2>1 DEF StopQueueInv
  <2>3. ASSUME NEW i \in 1..Len(queue'), NEW j \in 1..Len(queue'), queue'[i] \in Stop, queue'[i] = queue'[j]
        PROVE  i = j
    <3>1. i + 1 \in 1..Len(queue) /\ j + 1 \in 1..Len(queue) /\ queue[i + 1] \in Stop /\ queue[i + 1] = queue[j + 1]
      BY <2>1, <2>3
    <3>2. i + 1 = j + 1
      BY <1>0, <3>1 DEF StopQueueInv
    <3> QED BY <2>1, <3>2
  <2> QED BY <2>2, <2>3 DEF StopQueueInv
<1>5. ASSUME NEW s \in Send, SendArrives(s) PROVE StopQueueInv'
  BY <1>2, <1>5 DEF SendArrives
<1>6. ASSUME NEW s \in Send, SendBegin(s) PROVE StopQueueInv'
  BY <1>0, <1>4, <1>6 DEF SendBegin, AtHead
<1>7. ASSUME NEW x \in Stop, NEW id \in Id, NEW matches \in BOOLEAN, StopArrives(x, id, matches)
      PROVE  StopQueueInv'
  <2>1. stop[x].pc = "unused" /\ \A y \in Stop \ {x} : stop'[y] = stop[y]
    BY <1>0, <1>7 DEF StopArrives
  <2>2. UNCHANGED queue \/ (queue' = Append(queue, x) /\ stop'[x].pc = "queued")
    BY <1>0, <1>7 DEF StopArrives
  <2> QED BY <1>1, <1>3, <2>1, <2>2
<1>8. ASSUME NEW x \in Stop, StopBegin(x) PROVE StopQueueInv'
  <2>1. queue # <<>> /\ queue' = Tail(queue) /\ AtHead(x) /\ \A y \in Stop \ {x} : stop'[y] = stop[y]
    BY <1>0, <1>8 DEF StopBegin, AtHead
  <2>2. \A i \in 1..Len(queue') : queue'[i] # x
    BY <2>1, StopHeadQueued
  <2> QED BY <1>4, <2>1, <2>2
<1>9. ASSUME NEW x \in Stop, StopSucceeds(x) \/ StopFails(x) \/ StopSettled(x) \/ PageStops(x)
      PROVE  StopQueueInv'
  <2>1. stop[x].pc # "queued" /\ UNCHANGED queue
    BY <1>9 DEF StopSucceeds, StopFails, StopSettled, PageStops, link
  <2>2. \A y \in Stop \ {x} : stop'[y] = stop[y]
    BY <1>0, <1>9 DEF StopSucceeds, StopFails, StopSettled, PageStops
  <2> QED BY <1>1, <2>1, <2>2
<1>10. ASSUME NEW s \in Send, Handler(s) \/ Page(s), ~SendBegin(s) PROVE StopQueueInv'
  BY <1>1, <1>10 DEF Handler, SendVerified, NativeReturns, GenericStatus, GenericReturns,
     FinalizeReturns, ReportBound, ReportSaved, Page, PageAccepts, PageRefuses, PromptUndeliverable,
     PageClicks, PageAnswersSubmit, ProviderFinishes, MonitorSettles, PageCaptures,
     PageCaptureFails, PageRecalled, link
<1>11. ASSUME \/ \E c \in Session : TabChanged(c) \/ DocumentReplaced(c)
              \/ Connects \/ SocketCloses \/ PopupDisconnects \/ PopupDropsSocket \/ UNCHANGED vars
       PROVE  StopQueueInv'
  BY <1>1, <1>11 DEF TabChanged, DocumentReplaced, Connects, SocketCloses, PopupDisconnects,
     PopupDropsSocket, Disconnected, link, vars
<1> QED
  BY <1>5, <1>6, <1>7, <1>8, <1>9, <1>10, <1>11 DEF Next, StopHandler, Environment

\* A Stop that keeps its answer and its target is settled by as quiet a page as before.
LEMMA StopKept ==
  ASSUME IdsDistinct, OnceInv, StopInv, [Next]_vars, NEW x \in Stop,
         stop'[x] = stop[x] \/ (stop'[x].pc # "queued" /\ ~Settles(x)')
  PROVE  StopOk(x)'
<1>1. CASE stop'[x].pc # "queued" /\ ~Settles(x)'
  BY <1>1 DEF StopOk
<1>2. CASE stop'[x] = stop[x]
  <2>1. StopOk(x)
    BY DEF StopInv
  <2>2. CASE ~Settles(x)
    BY <1>2, <2>1, <2>2 DEF StopOk, Settles
  <2>3. ASSUME NEW s \in Send, s = stop[x].target, IsGeneric(s) \/ Quiet(s) PROVE StopOk(x)'
    <3>1. IsGeneric(s) \/ Quiet(s)'
      BY <2>3, QuietStep
    <3>2. s = stop'[x].target
      BY <1>2, <2>3
    <3>3. (IsGeneric(stop[x].target) \/ Quiet(stop[x].target))'
      BY <3>1, <3>2 DEF Quiet, Mark, IsGeneric
    <3> QED BY <1>2, <2>1, <3>3 DEF StopOk, Settles
  <2>4. Settles(x) => stop[x].target \in Send
    BY DEF Settles, OnceInv, HandlerInv, Typed, StopHasTarget
  <2> QED BY <2>1, <2>2, <2>3, <2>4 DEF StopOk
<1> QED BY <1>1, <1>2

LEMMA StopStep ==
  ASSUME IdsDistinct, OnceInv, PageInv, StopQueueInv, StopInv, [Next]_vars
  PROVE  StopInv'
<1>0. /\ stop \in [Stop -> [pc : StopPC, id : Id \cup {None}, matches : BOOLEAN,
                           target : Send \cup {None}, answer : Answer]]
      /\ \A x \in Stop : stop[x].pc = "asked" => stop[x].target \in Send
  BY DEF OnceInv, HandlerInv, Typed, TypeOK, HandlerTypeOK, StopHasTarget
<1>2. ASSUME NEW x \in Stop, \A y \in Stop \ {x} : stop'[y] = stop[y], StopOk(x)'
      PROVE  StopInv'
  BY <1>2, StopKept DEF StopInv
<1>3. CASE UNCHANGED stop
  BY <1>3, StopKept DEF StopInv
<1>4. ASSUME NEW x \in Stop, NEW id \in Id, NEW matches \in BOOLEAN, StopArrives(x, id, matches)
      PROVE  StopInv'
  <2>1. stop'[x].answer = "none" /\ \A y \in Stop \ {x} : stop'[y] = stop[y]
    BY <1>0, <1>4 DEF StopArrives
  <2> QED BY <1>2, <2>1 DEF StopOk, Settles
<1>5. ASSUME NEW x \in Stop, StopBegin(x) PROVE StopInv'
  <2>1. \A y \in Stop \ {x} : stop'[y] = stop[y]
    BY <1>0, <1>5 DEF StopBegin
  <2>2. CASE stop' = [stop EXCEPT ![x].pc = "done"]
    BY <1>0, <1>2, <2>1, <2>2 DEF StopOk, Settles
  <2>3. CASE stop' = [stop EXCEPT ![x].pc = "asked", ![x].target = Target(stop[x].id)]
    <3>1. stop'[x].answer = stop[x].answer /\ stop'[x].pc = "asked"
      BY <1>0, <2>3
    <3>2. stop[x].answer = "none"
      BY <1>5, StopHeadQueued DEF OnceInv, StopBegin, StopInv, StopOk
    <3> QED BY <1>2, <2>1, <3>1, <3>2 DEF StopOk, Settles
  <2> QED BY <1>5, <2>2, <2>3 DEF StopBegin
<1>6. ASSUME NEW x \in Stop, StopSucceeds(x) \/ StopFails(x) \/ StopSettled(x) PROVE StopInv'
  <2>1. stop'[x].pc \in {"done", "settling"} /\ \A y \in Stop \ {x} : stop'[y] = stop[y]
    BY <1>0, <1>6 DEF StopSucceeds, StopFails, StopSettled
  <2> QED BY <1>2, <2>1 DEF StopOk, Settles
<1>7. ASSUME NEW x \in Stop, PageStops(x) PROVE StopInv'
  <2>1. PICK s \in Send : s = stop[x].target
    BY <1>0, <1>7 DEF PageStops
  <2>2. /\ UNCHANGED <<report, doc>> /\ stop[x].pc = "asked"
        /\ \E a \in {"prevented", "confirmed", "refused"} :
             /\ stop' = [stop EXCEPT ![x].answer = a]
             /\ a # "refused" => PagePrevents(s) \/ PageConfirmsStop(s)
    BY <1>7, <2>1 DEF PageStops
  <2>3. stop'[x].target = s /\ stop'[x].pc = "asked" /\ \A y \in Stop \ {x} : stop'[y] = stop[y]
    BY <1>0, <2>1, <2>2
  <2>4. Settles(x)' => PagePrevents(s) \/ PageConfirmsStop(s)
    BY <1>0, <2>2 DEF Settles
  <2>5. Settles(x)' => IsGeneric(s) \/ Quiet(s)'
    BY <2>2, <2>4, AnswerQuiets
  <2>6. StopOk(x)'
    BY <2>3, <2>5 DEF StopOk, Quiet, Mark, IsGeneric
  <2> QED BY <1>2, <2>3, <2>6
<1>8. ASSUME NEW s \in Send, Handler(s) \/ Page(s) PROVE StopInv'
  BY <1>3, <1>8 DEF Handler, SendBegin, SendVerified, NativeReturns, GenericStatus, GenericReturns,
     FinalizeReturns, ReportBound, ReportSaved, Page, PageAccepts, PageRefuses, PromptUndeliverable,
     PageClicks, PageAnswersSubmit, ProviderFinishes, MonitorSettles, PageCaptures,
     PageCaptureFails, PageRecalled
<1>9. ASSUME \/ \E s \in Send : SendArrives(s)
             \/ \E c \in Session : TabChanged(c) \/ DocumentReplaced(c)
             \/ Connects \/ SocketCloses \/ PopupDisconnects \/ PopupDropsSocket \/ UNCHANGED vars
      PROVE  StopInv'
  BY <1>3, <1>9 DEF SendArrives, TabChanged, DocumentReplaced, Connects, SocketCloses,
     PopupDisconnects, PopupDropsSocket, vars
<1> QED
  BY <1>4, <1>5, <1>6, <1>7, <1>8, <1>9 DEF Next, StopHandler, Environment

\* What a turn that nothing can end any more is: it stays so.
LEMMA MayEndStep ==
  ASSUME IdsDistinct, OnceInv, [Next]_vars, NEW s \in Send, ~MayEnd(s)
  PROVE  ~MayEnd(s)'
<1>0. /\ Typed /\ PcChange /\ RegistryChange /\ s \notin active /\ pc[s] \notin Waiting
      /\ report \in [Send -> [pc : Report, found : BOOLEAN]]
      /\ report[s].pc # "saving" /\ (report[s].pc = "none" \/ ~report[s].found)
  BY PcStep, StepChanges DEF MayEnd, OnceInv, HandlerInv, Typed, TypeOK, HandlerTypeOK
<1>1. pc'[s] \notin Waiting
  BY <1>0 DEF PcChange
<1>2. s \notin active'
  <2>1. CASE active' \subseteq active
    BY <1>0, <2>1
  <2>2. ASSUME NEW t \in Send, SendBegin(t), Registers(t) PROVE s \notin active'
    <3>1. t # s
      BY <1>0, <2>2, HeadWaiting DEF OnceInv, SendBegin, Waiting
    <3> QED BY <1>0, <2>2, <3>1 DEF Registers
  <2> QED BY <1>0, <2>1, <2>2 DEF RegistryChange, Remove, registry
<1>3. ASSUME \/ report'[s] = report[s] \/ report'[s].pc = "none"
             \/ report'[s].pc # "saving" /\ ~report'[s].found
      PROVE  ~MayEnd(s)'
  BY <1>0, <1>1, <1>2, <1>3 DEF MayEnd
<1>4. ~Has(idOf[s])
  BY <1>0, HolderIsOwn
<1>5. ASSUME NEW t \in Send, PageCaptures(t) \/ PageCaptureFails(t) PROVE ~MayEnd(s)'
  BY <1>0, <1>3, <1>4, <1>5 DEF PageCaptures, PageCaptureFails, Reports
<1>6. ASSUME NEW t \in Send, ReportBound(t) \/ ReportSaved(t) PROVE ~MayEnd(s)'
  BY <1>0, <1>3, <1>4, <1>6 DEF ReportBound, ReportSaved, Acknowledged, Reports
<1>7. CASE UNCHANGED report
  BY <1>3, <1>7
<1>8. ASSUME NEW t \in Send, Handler(t) \/ Page(t) PROVE ~MayEnd(s)'
  BY <1>5, <1>6, <1>7, <1>8 DEF Handler, SendBegin, SendVerified, NativeReturns, GenericStatus,
     GenericReturns, FinalizeReturns, Page, PageAccepts, PageRefuses, PromptUndeliverable,
     PageClicks, PageAnswersSubmit, ProviderFinishes, MonitorSettles, PageRecalled
<1>9. ASSUME NEW x \in Stop, StopHandler(x) \/ PageStops(x) PROVE ~MayEnd(s)'
  BY <1>7, <1>9 DEF StopHandler, StopBegin, StopSucceeds, StopFails, StopSettled, PageStops
<1>10. ASSUME Environment \/ (\E c \in Session : TabChanged(c)) \/ PopupDropsSocket \/ UNCHANGED vars
       PROVE  ~MayEnd(s)'
  BY <1>7, <1>10 DEF Environment, SendArrives, StopArrives, DocumentReplaced, Connects, SocketCloses,
     PopupDisconnects, TabChanged, PopupDropsSocket, vars
<1> QED BY <1>8, <1>9, <1>10 DEF Next

\* What a step does to the frames of a turn: nothing, or one more, about a turn that could still
\* end; and when it says interrupted, one after which nothing can.
Ends(s, kind) == MayEnd(s) /\ frames'[s] = Append(frames[s], [kind |-> kind, conn |-> conn])

LastFrame(s) ==
    \/ frames'[s] = frames[s]
    \/ \E kind \in Kind : Ends(s, kind) /\ (kind = "interrupted" => ~MayEnd(s)')

LEMMA TellOne ==
  ASSUME Typed, NEW s \in Send, NEW t \in Send, NEW kind, Tell({t}, kind)
  PROVE  \/ frames'[s] = frames[s]
         \/ t = s /\ frames'[s] = Append(frames[s], [kind |-> kind, conn |-> conn])
  BY DEF Tell

\* A registered turn that fails.
LEMMA ErrorLast ==
  ASSUME Typed, NEW s \in Send, NEW t \in Send, NEW kind \in Kind \ {"interrupted"},
         Tell({t}, kind) /\ MayEnd(t)
  PROVE  LastFrame(s)
  BY TellOne DEF LastFrame, Ends

LEMMA FailLast ==
  ASSUME IdsDistinct, Typed, NEW s \in Send, NEW t \in Send, NEW pending, FailGenericTurn(t, pending)
  PROVE  LastFrame(s)
<1>1. CASE UNCHANGED frames
  BY <1>1 DEF LastFrame
<1>2. CASE Has(idOf[t]) /\ Tell({t}, "error")
  BY <1>2, HolderIsOwn, ErrorLast DEF MayEnd, Kind
<1> QED BY <1>1, <1>2 DEF FailGenericTurn

\* An interruption of a registered turn whose page has nothing to report.
LEMMA AcknowledgeLast ==
  ASSUME IdsDistinct, Typed, NEW s \in Send, NEW t \in Send, AcknowledgeInterrupted(t),
         t = s /\ s \in active => UNCHANGED report /\ report[s].pc = "none" /\ pc'[s] \notin Waiting
  PROVE  LastFrame(s)
<1>1. CASE UNCHANGED frames
  BY <1>1 DEF LastFrame
<1>2. CASE Has(idOf[t]) /\ Tell({t}, "interrupted")
  <2>1. t \in active /\ t \notin active'
    BY <1>2, HolderIsOwn DEF AcknowledgeInterrupted, Remove
  <2>2. CASE t = s /\ frames'[s] = Append(frames[s], [kind |-> "interrupted", conn |-> conn])
    BY <2>1, <2>2 DEF LastFrame, Ends, MayEnd, Kind
  <2> QED BY <1>2, <2>2, TellOne DEF LastFrame
<1> QED BY <1>1, <1>2 DEF AcknowledgeInterrupted

LEMMA SendFailedLast ==
  ASSUME IdsDistinct, Typed, NEW s \in Send, NEW t \in Send, SendFailed(t),
         t = s /\ s \in active => UNCHANGED report /\ report[s].pc = "none" /\ pc'[s] \notin Waiting
  PROVE  LastFrame(s)
<1>1. CASE UNCHANGED frames
  BY <1>1 DEF LastFrame
<1>2. CASE Has(idOf[t]) /\ Tell({t}, "error")
  BY <1>2, HolderIsOwn, ErrorLast DEF MayEnd, Kind
<1> QED BY <1>1, <1>2, AcknowledgeLast DEF SendFailed

LEMMA LastFrameStep ==
  ASSUME IdsDistinct, OnceInv, PageInv, StopInv, [Next]_vars, NEW s \in Send, ~IsGeneric(s)
  PROVE  LastFrame(s)
<1>0. /\ Typed /\ ReportsInv /\ StartedInv /\ PageOk(s) /\ pc \in [Send -> HandlerPC]
      /\ active \subseteq Send
  BY DEF OnceInv, HandlerInv, PageInv, Typed, TypeOK, HandlerTypeOK, RegistryTypeOK
<1>1. CASE UNCHANGED frames
  BY <1>1 DEF LastFrame
<1>2. ~Begun(s) => report[s].pc = "none"
  BY <1>0 DEF PageOk
<1>3. ASSUME NEW t \in Send, SendBegin(t) PROVE LastFrame(s)
  <2>1. pc[t] = "queued"
    BY <1>3, HeadWaiting DEF OnceInv, SendBegin
  <2>2. CASE ~Busy(t) /\ pc' = [pc EXCEPT ![t] = "done"] /\ Tell({t}, "interrupted") /\ UNCHANGED registry
    <3>1. t \notin active' /\ UNCHANGED report /\ pc'[t] \notin Waiting
      BY <1>0, <1>3, <2>2 DEF SendBegin, Busy, Has, Holder, registry, Waiting
    <3>2. CASE t = s
      <4>1. report[s].pc = "none"
        BY <1>2, <2>1, <3>2 DEF Begun, Waiting
      <4>2. MayEnd(s) /\ ~MayEnd(s)'
        BY <2>1, <3>1, <3>2, <4>1 DEF MayEnd, Waiting
      <4> QED BY <1>0, <2>2, <3>2, <4>2, TellOne DEF LastFrame, Ends, Kind
    <3> QED BY <1>0, <2>2, <3>2, TellOne DEF LastFrame
  <2> QED BY <1>1, <1>3, <2>2 DEF SendBegin, Refuse
<1>4. ASSUME NEW t \in Send, NEW ok \in BOOLEAN, SendVerified(t, ok) PROVE LastFrame(s)
  <2>1. pc[t] = "verify" /\ UNCHANGED report /\ pc'[t] \notin Waiting
    BY <1>0, <1>4 DEF SendVerified, Waiting
  <2>2. t = s => report[s].pc = "none"
    BY <1>2, <2>1 DEF Begun
  <2> QED BY <1>0, <1>1, <1>4, <2>1, <2>2, SendFailedLast, AcknowledgeLast DEF SendVerified
<1>5. ASSUME NEW t \in Send, NativeReturns(t) PROVE LastFrame(s)
  <2>1. pc[t] = "submit" /\ UNCHANGED report /\ pc'[t] \notin Waiting
    BY <1>0, <1>5 DEF NativeReturns, Waiting
  <2>2. CASE reply[t] # "submitted" /\ SendFailed(t)
    <3>1. t = s => report[s].pc = "none"
      BY <1>0, <2>1, <2>2 DEF PageOk
    <3> QED BY <1>0, <2>1, <2>2, <3>1, SendFailedLast
  <2> QED BY <1>1, <1>5, <2>2 DEF NativeReturns
<1>6. ASSUME NEW t \in Send, NEW ok \in BOOLEAN, GenericStatus(t, ok) PROVE LastFrame(s)
  <2>1. pc[t] = "status" /\ UNCHANGED report /\ pc'[t] \notin Waiting
    BY <1>0, <1>6 DEF GenericStatus, Waiting
  <2>2. t = s => report[s].pc = "none"
    BY <1>2, <2>1 DEF Begun
  <2> QED BY <1>0, <1>1, <1>6, <2>1, <2>2, FailLast, AcknowledgeLast DEF GenericStatus
<1>7. ASSUME NEW t \in Send, GenericReturns(t) PROVE LastFrame(s)
  BY <1>0, <1>1, <1>7, FailLast DEF GenericReturns
<1>8. ASSUME NEW t \in Send, NEW ok \in BOOLEAN, FinalizeReturns(t, ok) PROVE LastFrame(s)
  <2>1. CASE Has(idOf[t]) /\ Tell({t}, "response")
    BY <1>0, <2>1, HolderIsOwn, ErrorLast DEF MayEnd, Kind
  <2> QED BY <1>0, <1>8, <2>1, FailLast DEF FinalizeReturns
<1>9. ASSUME NEW t \in Send, ReportBound(t) \/ ReportSaved(t) PROVE LastFrame(s)
  <2>1. UNCHANGED frames \/ (MayEnd(t) /\ (Tell({t}, "error") \/ Tell({t}, "response")))
    BY <1>9 DEF ReportBound, ReportSaved, MayEnd
  <2> QED BY <1>0, <1>1, <2>1, ErrorLast DEF Kind
<1>10. ASSUME NEW x \in Stop, StopSucceeds(x) PROVE LastFrame(s)
  <2>1. PICK t \in Send : t = stop[x].target
    BY <1>10 DEF OnceInv, HandlerInv, Typed, StopHasTarget, StopSucceeds
  <2>2. t = s => Quiet(s)
    BY <1>10, <2>1 DEF StopSucceeds, StopTook, StopInv, StopOk, Settles
  <2>3. AcknowledgeInterrupted(t) /\ UNCHANGED <<report, pc>>
    BY <1>10, <2>1 DEF StopSucceeds
  <2> QED BY <1>0, <2>2, <2>3, AcknowledgeLast DEF Quiet, StartedInv
<1>11. ASSUME NEW x \in Stop, StopFails(x) PROVE LastFrame(s)
  <2>1. \A t \in Completion(stop[x].id) : t \in Send
    BY <1>0 DEF Completion, Typed, TypeOK, OrderingTypeOK
  <2>2. UNCHANGED frames \/ \E t \in Send : \E pending : FailGenericTurn(t, pending)
    BY <1>11, <2>1 DEF StopFails
  <2> QED BY <1>0, <1>1, <2>2, FailLast
<1>12. ASSUME NEW x \in Stop, StopBegin(x) \/ StopSettled(x) \/ PageStops(x) PROVE LastFrame(s)
  BY <1>1, <1>12 DEF StopBegin, StopSettled, PageStops
<1>13. ASSUME NEW t \in Send, Page(t) PROVE LastFrame(s)
  BY <1>1, <1>13 DEF Page, PageAccepts, PageRefuses, PromptUndeliverable, PageClicks,
     PageAnswersSubmit, ProviderFinishes, MonitorSettles, PageCaptures, PageCaptureFails,
     PageRecalled
<1>14. ASSUME NEW c \in Session, TabChanged(c) PROVE LastFrame(s)
  <2>1. Tell({t \in active : sessionOf[t] = c}, "error")
    BY <1>14 DEF TabChanged
  <2>2. frames'[s] = frames[s] \/ (s \in active /\ frames'[s] = Append(frames[s], [kind |-> "error", conn |-> conn]))
    BY <1>0, <2>1 DEF Tell
  <2> QED BY <2>2 DEF LastFrame, Ends, MayEnd, Kind
<1>15. ASSUME Environment \/ PopupDropsSocket \/ UNCHANGED vars PROVE LastFrame(s)
  BY <1>1, <1>15 DEF Environment, SendArrives, StopArrives, DocumentReplaced, Connects, SocketCloses,
     PopupDisconnects, PopupDropsSocket, vars
<1> QED
  BY <1>3, <1>4, <1>5, <1>6, <1>7, <1>8, <1>9, <1>10, <1>11, <1>12, <1>13, <1>14, <1>15
  DEF Next, Handler, StopHandler

LEMMA ToldStep ==
  ASSUME IdsDistinct, OnceInv, PageInv, StopInv, ToldInv, [Next]_vars
  PROVE  ToldInv'
<1> SUFFICES ASSUME NEW s \in Send, ~IsGeneric(s)
             PROVE  LastWord(s)' /\ (Told(s, "interrupted")' => ~MayEnd(s)')
  BY DEF ToldInv, IsGeneric
<1>1. /\ LastFrame(s) /\ LastWord(s) /\ (Told(s, "interrupted") => ~MayEnd(s))
      /\ frames[s] \in Seq([kind : Kind, conn : 1..MaxConns])
  BY LastFrameStep DEF ToldInv, OnceInv, HandlerInv, Typed, TypeOK, FramesTypeOK
<1>2. CASE frames'[s] = frames[s]
  <2>1. LastWord(s)' /\ (Told(s, "interrupted")' => Told(s, "interrupted"))
    BY <1>1, <1>2 DEF LastWord, Told
  <2> QED BY <1>1, <2>1, MayEndStep
<1>3. ASSUME NEW kind \in Kind, Ends(s, kind), kind = "interrupted" => ~MayEnd(s)'
      PROVE  LastWord(s)' /\ (Told(s, "interrupted")' => ~MayEnd(s)')
  <2> DEFINE e == [kind |-> kind, conn |-> conn]
  <2>1. /\ Len(frames[s]) \in Nat /\ Len(frames'[s]) = Len(frames[s]) + 1
        /\ \A i \in 1..Len(frames[s]) : frames'[s][i] = frames[s][i]
        /\ frames'[s][Len(frames[s]) + 1].kind = kind
    <3>1. frames'[s] = Append(frames[s], e) /\ e.kind = kind
      BY <1>3 DEF Ends
    <3> HIDE DEF e
    <3> QED BY <1>1, <3>1
  <2>2. \A i \in 1..Len(frames[s]) : frames[s][i].kind # "interrupted"
    BY <1>1, <1>3 DEF Ends, Told
  <2>3. \A i \in 1..Len(frames'[s]) : frames'[s][i].kind = "interrupted" =>
            i = Len(frames'[s]) /\ kind = "interrupted"
    BY <2>1, <2>2
  <2> QED BY <1>3, <2>3 DEF LastWord, Told
<1> QED BY <1>1, <1>2, <1>3 DEF LastFrame

\* Nothing is sent about a turn after its controller was told that it was interrupted: neither
\* the answer a ChatGPT or Claude page was reporting when the Stop came, nor the error of a
\* navigation, nor the end of a handler that was still waiting.  It needs the controller to name
\* its requests differently: under a shared id one turn's handler interrupts the other.
THEOREM NothingEverAfterStop ==
  ASSUME IdsDistinct
  PROVE  Spec => []NothingAfterStop
<1>1. OnceInv /\ [Next]_vars => OnceInv'
  BY StepTyped, QueueStep, HeldStep, StartedStep, ReportsStep, AnswerStep DEF OnceInv, HandlerInv
<1>2. FinalInv /\ [Next]_vars => FinalInv'
  BY <1>1, PageStep, StopQueueStep, StopStep, ToldStep DEF OnceInv, FinalInv
<1>3. FinalInv => NothingAfterStop
  <2> SUFFICES ASSUME FinalInv, NEW s \in Send PROVE LastWord(s)
    BY DEF NothingAfterStop, LastWord
  <2>1. CASE IsGeneric(s)
    <3>1. Len(frames[s]) \in Nat /\ Len(frames[s]) <= 1
      BY <2>1 DEF FinalInv, OnceInv, HandlerInv, AnswerInv, Typed, TypeOK, FramesTypeOK
    <3> QED BY <3>1 DEF LastWord
  <2> QED BY <2>1 DEF FinalInv, ToldInv
<1> QED
  BY InitFinal, <1>2, <1>3, PTL DEF Spec


-----------------------------------------------------------------------------
(* What a Stop promises about the provider: a prompt whose controller was told *)
(* that it was interrupted is not submitted afterwards, and no answer to a     *)
(* generic one is being generated.                                             *)

\* The turn's handler will not dispatch the prompt any more.
Past(s) == pc[s] \in {"held", "finalize", "done"}

\* The page will not click Send for the turn: it has, it is over, or its cancellation is
\* remembered; or the prompt was never dispatched and its document or its handler is gone.
NoClick(s) ==
    \/ page[s] \notin {"none", "accepted"}
    \/ Mark(s) \in cancelled
    \/ page[s] = "none" /\ (sessionOf[s] \in gone \/ Past(s))

\* Only a page that clicked Send generates, and the worker knows of a registered generic turn
\* that its prompt was submitted.
ClickOk(s) ==
    /\ page[s] # "none" => Begun(s)
    /\ page[s] = "accepted" => reply[s] = "none" /\ sessionOf[s] \notin gone
    /\ s \in running => page[s] \notin {"none", "accepted"}
    /\ pc[s] = "submit" => ~IsGeneric(s)
    /\ IsGeneric(s) /\ s \in running \cap active => s \in committed

ClickInv == \A s \in Send : ClickOk(s)

\* A page that confirmed a Stop is over and its provider idle; one that prevented will not click.
Granted(x) ==
    Settles(x) =>
        /\ NoClick(stop[x].target)
        /\ stop[x].answer = "confirmed" => page[stop[x].target] = "over" /\ stop[x].target \notin running

GrantedInv == \A x \in Stop : Granted(x)

\* What a turn whose controller was told it was interrupted is.
Stopped(s) == NoClick(s) /\ (IsGeneric(s) => s \notin running)

StoppedInv == \A s \in Send : Told(s, "interrupted") => Stopped(s)

RealInv == FinalInv /\ ClickInv /\ GrantedInv /\ StoppedInv

LEMMA InitReal == Init => RealInv
<1> SUFFICES ASSUME Init PROVE RealInv
  OBVIOUS
<1>1. ClickInv /\ GrantedInv
  BY DEF Init, ClickInv, ClickOk, GrantedInv, Granted, Settles
<1>2. \A s \in Send : Len(frames[s]) = 0
  BY DEF Init
<1>3. StoppedInv
  BY <1>2 DEF StoppedInv, Told
<1> QED BY <1>1, <1>3, InitFinal DEF RealInv

\* What a turn needs to know of a step to stay as it is.
LEMMA ClickKept ==
  ASSUME ClickInv, NEW s \in Send, page'[s] = page[s], UNCHANGED gone,
         reply'[s] = reply[s], s \in running' => s \in running,
         Begun(s) => Begun(s)', pc'[s] = "submit" => pc[s] = "submit",
         s \in active' => s \in active, committed \subseteq committed'
  PROVE  ClickOk(s)'
  BY DEF ClickInv, ClickOk, IsGeneric

LEMMA ClickStep ==
  ASSUME OnceInv, PageInv, ClickInv, [Next]_vars
  PROVE  ClickInv'
<1>0. /\ pc \in [Send -> HandlerPC] /\ page \in [Send -> PageState] /\ reply \in [Send -> Reply]
      /\ RegistryChange /\ active \subseteq Send
  BY StepChanges DEF OnceInv, HandlerInv, Typed, TypeOK, HandlerTypeOK, ContentTypeOK, RegistryTypeOK
<1>1. ASSUME NEW t \in Send, SendBegin(t) PROVE ClickInv'
  <2>1. pc[t] = "queued" /\ UNCHANGED <<page, reply, running, gone, committed>>
    BY <1>1, HeadWaiting DEF OnceInv, SendBegin, content, doc
  <2>2. /\ \A s \in Send \ {t} : pc'[s] = pc[s] /\ (s \in active' => s \in active)
        /\ pc'[t] \in {"done", "verify"}
    BY <1>0, <1>1 DEF SendBegin, Refuse, registry
  <2>3. page[t] = "none"
    BY <2>1 DEF ClickInv, ClickOk, Begun, Waiting
  <2>4. ClickOk(t)'
    BY <2>1, <2>2, <2>3 DEF ClickInv, ClickOk
  <2>5. \A s \in Send \ {t} : ClickOk(s)'
    BY <2>1, <2>2, ClickKept DEF Begun
  <2> QED BY <2>4, <2>5 DEF ClickInv
<1>2. ASSUME ~\E t \in Send : SendBegin(t) PROVE active' \subseteq active
  BY <1>0, <1>2 DEF RegistryChange, Remove, registry
<1>3. ASSUME active' \subseteq active, committed \subseteq committed',
             UNCHANGED <<page, reply, gone>>, running' \subseteq running,
             \A s \in Send : (Begun(s) => Begun(s)') /\ (pc'[s] = "submit" => pc[s] = "submit")
      PROVE  ClickInv'
  BY <1>3, ClickKept DEF ClickInv
<1>4. ASSUME active' \subseteq active, committed \subseteq committed', UNCHANGED <<pc, gone>>,
             NEW t \in Send, ClickOk(t)',
             \A s \in Send \ {t} : /\ page'[s] = page[s] /\ reply'[s] = reply[s]
                                   /\ s \in running' => s \in running
      PROVE  ClickInv'
  <2>1. \A s \in Send \ {t} : ClickOk(s)'
    BY <1>4, ClickKept DEF Begun
  <2> QED BY <1>4, <2>1 DEF ClickInv
<1>5. ASSUME NEW t \in Send, SendArrives(t) PROVE ClickInv'
  BY <1>0, <1>3, <1>5 DEF SendArrives, content, doc, registry, Begun, Waiting
<1>6. ASSUME NEW t \in Send, NEW ok \in BOOLEAN, SendVerified(t, ok), active' \subseteq active
      PROVE  ClickInv'
  <2>1. pc[t] = "verify" /\ UNCHANGED <<page, reply, running, gone, committed>>
    BY <1>6 DEF SendVerified, content, doc
  <2>2. /\ \A s \in Send \ {t} : pc'[s] = pc[s]
        /\ pc'[t] = "submit" => ~IsGeneric(t)
    BY <1>0, <1>6 DEF SendVerified
  <2>3. page[t] = "none"
    BY <2>1 DEF ClickInv, ClickOk, Begun
  <2>4. ClickOk(t)'
    BY <2>1, <2>2, <2>3 DEF ClickInv, ClickOk, IsGeneric
  <2>5. \A s \in Send \ {t} : ClickOk(s)'
    BY <1>6, <2>1, <2>2, ClickKept DEF Begun
  <2> QED BY <2>4, <2>5 DEF ClickInv
<1>7. ASSUME active' \subseteq active, NEW t \in Send, NEW p \in {"done", "send", "held", "finalize"},
             pc' = [pc EXCEPT ![t] = p], committed \subseteq committed', UNCHANGED <<page, running, gone>>,
             \A s \in Send : reply'[s] = reply[s] \/ reply'[s] = "none"
      PROVE  ClickInv'
  <2> SUFFICES ASSUME NEW s \in Send PROVE ClickOk(s)'
    BY DEF ClickInv
  <2>1. (Begun(s) => Begun(s)') /\ (pc'[s] = "submit" => pc[s] = "submit")
    BY <1>0, <1>7 DEF Begun, Waiting
  <2> QED BY <1>7, <2>1 DEF ClickInv, ClickOk, IsGeneric
<1>8. ASSUME NEW t \in Send, NativeReturns(t) \/ GenericReturns(t), active' \subseteq active
      PROVE  ClickInv'
  <2>1. \A s \in Send : reply'[s] = reply[s] \/ reply'[s] = "none"
    BY <1>0, <1>8 DEF NativeReturns, GenericReturns
  <2>2. /\ UNCHANGED <<page, running, gone>> /\ committed \subseteq committed'
        /\ \E p \in {"done", "send", "held", "finalize"} : pc' = [pc EXCEPT ![t] = p]
    BY <1>8 DEF NativeReturns, GenericReturns, doc
  <2> QED BY <1>7, <1>8, <2>1, <2>2
<1>9. ASSUME NEW t \in Send, NEW ok \in BOOLEAN, GenericStatus(t, ok) \/ FinalizeReturns(t, ok),
             active' \subseteq active
      PROVE  ClickInv'
  <2>1. /\ UNCHANGED <<page, reply, running, gone, committed>>
        /\ \E p \in {"done", "send", "held", "finalize"} : pc' = [pc EXCEPT ![t] = p]
    BY <1>9 DEF GenericStatus, FinalizeReturns, content, doc
  <2> QED BY <1>7, <1>9, <2>1
<1>10. ASSUME NEW x \in Stop, StopFails(x), active' \subseteq active PROVE ClickInv'
  <2>1. /\ \A s \in Send : reply'[s] = reply[s] \/ reply'[s] = "none"
        /\ UNCHANGED <<page, running, gone, committed>>
    BY <1>10 DEF StopFails, doc
  <2>2. \A s \in Send : pc'[s] = pc[s] \/ pc'[s] \in {"done", "finalize"}
    BY <1>0, <1>10 DEF StopFails
  <2> SUFFICES ASSUME NEW s \in Send PROVE ClickOk(s)'
    BY DEF ClickInv
  <2>3. (Begun(s) => Begun(s)') /\ (pc'[s] = "submit" => pc[s] = "submit")
    BY <2>2 DEF Begun, Waiting
  <2> QED BY <1>10, <2>1, <2>3 DEF ClickInv, ClickOk, IsGeneric
<1>11. ASSUME NEW x \in Stop, StopBegin(x) \/ StopSucceeds(x) \/ StopSettled(x), active' \subseteq active
       PROVE  ClickInv'
  BY <1>3, <1>11 DEF StopBegin, StopSucceeds, StopSettled, content, doc, Begun
<1>12. ASSUME NEW t \in Send, Page(t), active' \subseteq active PROVE ClickInv'
  <2>1. CASE PageAccepts(t) \/ PageRefuses(t) \/ PromptUndeliverable(t)
    BY <1>0, <1>4, <1>12, <2>1
    DEF PageAccepts, PageRefuses, PromptUndeliverable, Dispatched, doc, ClickInv, ClickOk, Begun,
        Waiting, IsGeneric
  <2>2. CASE PageClicks(t)
    <3>1. ClickOk(t)'
      BY <1>0, <1>12, <2>2 DEF PageClicks, ClickInv, ClickOk, Begun, IsGeneric
    <3>2. /\ UNCHANGED <<pc, gone, reply>> /\ committed \subseteq committed'
          /\ \A s \in Send \ {t} : page'[s] = page[s] /\ (s \in running' => s \in running)
      BY <1>0, <2>2 DEF PageClicks, doc
    <3> QED BY <1>4, <1>12, <3>1, <3>2
  <2>3. CASE PageAnswersSubmit(t) \/ MonitorSettles(t)
    BY <1>0, <1>4, <1>12, <2>3
    DEF PageAnswersSubmit, MonitorSettles, doc, ClickInv, ClickOk, Begun, IsGeneric
  <2>4. CASE ProviderFinishes(t)
    BY <1>3, <1>12, <2>4 DEF ProviderFinishes, doc, Begun
  <2>5. CASE PageCaptures(t) \/ PageCaptureFails(t)
    <3>1. /\ page[t] = "generating" /\ page'[t] \in {"reporting", "over"} /\ running' \subseteq running
          /\ UNCHANGED <<pc, gone, committed>>
          /\ \A s \in Send \ {t} : page'[s] = page[s] /\ reply'[s] = reply[s]
      BY <1>0, <2>5 DEF PageCaptures, PageCaptureFails, Reports, doc
    <3>2. ClickOk(t)'
      BY <1>12, <3>1 DEF ClickInv, ClickOk, Begun, IsGeneric
    <3> QED BY <1>4, <1>12, <3>1, <3>2
  <2>6. CASE PageRecalled(t)
    BY <1>0, <1>4, <1>12, <2>6
    DEF PageRecalled, PagePrevents, PageConfirmsStop, PageCannotStop, doc, ClickInv, ClickOk, Begun,
        IsGeneric
  <2> QED BY <1>12, <2>1, <2>2, <2>3, <2>4, <2>5, <2>6 DEF Page
<1>13. ASSUME NEW x \in Stop, PageStops(x), active' \subseteq active PROVE ClickInv'
  <2>1. stop[x].target \in Send
    BY <1>13 DEF OnceInv, HandlerInv, Typed, StopHasTarget, PageStops
  <2> QED
    BY <1>0, <1>4, <1>13, <2>1
    DEF PageStops, PagePrevents, PageConfirmsStop, PageCannotStop, doc, ClickInv, ClickOk, Begun,
        IsGeneric
<1>14. ASSUME NEW t \in Send, ReportBound(t) \/ ReportSaved(t), active' \subseteq active PROVE ClickInv'
  <2>1. /\ page'[t] = page[t] \/ page'[t] \in {"reporting", "over"}
        /\ \A s \in Send \ {t} : page'[s] = page[s]
        /\ UNCHANGED <<pc, gone, reply, running, committed>>
    BY <1>0, <1>14 DEF ReportBound, ReportSaved, Acknowledged, Reports, doc
  <2>2. page'[t] # "none" => Begun(t)
    <3>1. page[t] # "none"
      <4>1. report[t].pc # "none" /\ ~IsGeneric(t)
        BY <1>14 DEF ReportBound, ReportSaved, OnceInv, HandlerInv, ReportsInv
      <4> QED BY <4>1 DEF PageInv, PageOk
    <3> QED BY <3>1 DEF ClickInv, ClickOk
  <2>3. ClickOk(t)'
    BY <1>14, <2>1, <2>2 DEF ClickInv, ClickOk, Begun, IsGeneric
  <2> QED BY <1>4, <1>14, <2>1, <2>3
<1>15. ASSUME NEW c \in Session, DocumentReplaced(c), active' \subseteq active PROVE ClickInv'
  <2> SUFFICES ASSUME NEW s \in Send PROVE ClickOk(s)'
    BY DEF ClickInv
  <2>1. /\ UNCHANGED <<pc, running, committed>> /\ gone' = gone \cup {c}
        /\ page'[s] = IF sessionOf[s] = c /\ page[s] # "none" THEN "over" ELSE page[s]
        /\ reply'[s] = IF sessionOf[s] = c /\ pc[s] \in {"submit", "send"} /\ reply[s] = "none"
                       THEN "rejected" ELSE reply[s]
    BY <1>15 DEF DocumentReplaced
  <2> QED BY <1>0, <1>15, <2>1 DEF ClickInv, ClickOk, Begun, IsGeneric
<1>16. ASSUME \/ \E x \in Stop, id \in Id, matches \in BOOLEAN : StopArrives(x, id, matches)
              \/ \E c \in Session : TabChanged(c)
              \/ Connects \/ SocketCloses \/ PopupDisconnects \/ PopupDropsSocket \/ UNCHANGED vars,
              active' \subseteq active
       PROVE  ClickInv'
  BY <1>3, <1>16 DEF StopArrives, TabChanged, Connects, SocketCloses, PopupDisconnects,
     PopupDropsSocket, content, doc, Begun, vars
<1> QED
  BY <1>1, <1>2, <1>5, <1>6, <1>8, <1>9, <1>10, <1>11, <1>12, <1>13, <1>14, <1>15, <1>16
  DEF Next, Handler, StopHandler, Environment

\* A page that will not click Send for a turn never will: the mark is lifted only when its own
\* turn is refused, since no other request has its id.
LEMMA NoClickStep ==
  ASSUME IdsDistinct, OnceInv, PageInv, ClickInv, [Next]_vars, NEW s \in Send, NoClick(s)
  PROVE  NoClick(s)' /\ (s \in running' => s \in running) /\ (page[s] = "over" => page'[s] = "over")
<1> DEFINE Still == NoClick(s)' /\ (s \in running' => s \in running) /\ (page[s] = "over" => page'[s] = "over")
<1>0. /\ pc \in [Send -> HandlerPC] /\ page \in [Send -> PageState] /\ cancelled \subseteq Session \X Id
      /\ report \in [Send -> [pc : Report, found : BOOLEAN]]
      /\ \A t \in Send \ {s} : Mark(t) # Mark(s)
      /\ ClickOk(s) /\ PageOk(s)
  BY DEF OnceInv, HandlerInv, Typed, TypeOK, HandlerTypeOK, ContentTypeOK, IdsDistinct, Mark, PageInv, ClickInv
<1>1. ASSUME UNCHANGED <<page, gone, cancelled, running>>, Past(s) => Past(s)' PROVE Still
  BY <1>1 DEF NoClick, Mark
<1>2. ASSUME UNCHANGED <<pc, gone>>, NEW t \in Send \ {s}, page'[s] = page[s],
             cancelled \ {Mark(t)} \subseteq cancelled', s \in running' => s \in running
      PROVE  Still
  BY <1>0, <1>2 DEF NoClick, Mark, Past
<1>3. ASSUME page'[s] \notin {"none", "accepted"}, page[s] = "over" => page'[s] = "over",
             s \in running' => s \in running
      PROVE  Still
  BY <1>3 DEF NoClick
<1>4. ASSUME NEW t \in Send, PagePrevents(t) \/ PageConfirmsStop(t) \/ PageCannotStop(t),
             UNCHANGED <<pc, gone>>
      PROVE  Still
  <2>1. /\ cancelled \subseteq cancelled' /\ running' \subseteq running
        /\ page'[s] = page[s] \/ page'[s] = "over"
    BY <1>0, <1>4 DEF PagePrevents, PageConfirmsStop, PageCannotStop
  <2>2. CASE page'[s] = page[s]
    BY <1>4, <2>1, <2>2 DEF NoClick, Mark, Past
  <2> QED BY <1>3, <2>1, <2>2
<1>5. ASSUME NEW t \in Send, Page(t) PROVE Still
  <2>1. CASE PageRecalled(t)
    BY <1>4, <2>1 DEF PageRecalled, doc
  <2>2. CASE ProviderFinishes(t)
    BY <2>2 DEF ProviderFinishes, doc, NoClick, Mark, Past
  <2>3. ASSUME t # s, PageAccepts(t) \/ PageRefuses(t) \/ PromptUndeliverable(t) \/ PageClicks(t)
                      \/ PageAnswersSubmit(t) \/ MonitorSettles(t)
        PROVE  Still
    BY <1>0, <1>2, <2>3
    DEF PageAccepts, PageRefuses, PromptUndeliverable, PageClicks, PageAnswersSubmit, MonitorSettles, doc
  <2>4. ASSUME t # s, PageCaptures(t) \/ PageCaptureFails(t)
        PROVE  Still
    BY <1>0, <1>2, <2>4 DEF PageCaptures, PageCaptureFails, Reports, doc
  <2>5. CASE t = s /\ (PageRefuses(t) \/ PromptUndeliverable(t) \/ PageAnswersSubmit(t)
                       \/ MonitorSettles(t) \/ PageCaptures(t) \/ PageCaptureFails(t))
    BY <1>0, <1>3, <2>5 DEF PageRefuses, PromptUndeliverable, PageAnswersSubmit, MonitorSettles,
       PageCaptures, PageCaptureFails, Reports
  <2>6. CASE t = s /\ (PageAccepts(t) \/ PageClicks(t))
    <3>1. pc[s] \in {"submit", "send"} /\ page[s] = "none" => ~Past(s)
      BY DEF Past
    <3> QED BY <1>0, <2>6, <3>1 DEF NoClick, PageAccepts, Dispatched, PageClicks, ClickOk
  <2> QED BY <1>5, <2>1, <2>2, <2>3, <2>4, <2>5, <2>6 DEF Page
<1>6. ASSUME NEW x \in Stop, PageStops(x) PROVE Still
  <2>1. stop[x].target \in Send
    BY <1>6 DEF OnceInv, HandlerInv, Typed, StopHasTarget, PageStops
  <2> QED BY <1>4, <1>6, <2>1 DEF PageStops, doc
<1>7. ASSUME NEW t \in Send, ReportBound(t) \/ ReportSaved(t) PROVE Still
  <2>0. report[t].pc # "none" /\ ~IsGeneric(t) /\ UNCHANGED <<pc, gone, cancelled, running>>
    BY <1>7 DEF ReportBound, ReportSaved, OnceInv, HandlerInv, ReportsInv, doc
  <2>1. CASE t # s
    BY <1>0, <1>2, <1>7, <2>0, <2>1 DEF ReportBound, ReportSaved, Acknowledged, Reports
  <2>2. CASE t = s
    BY <1>0, <1>3, <1>7, <2>0, <2>2 DEF ReportBound, ReportSaved, Acknowledged, Reports, PageOk
  <2> QED BY <2>1, <2>2
<1>8. ASSUME NEW c \in Session, DocumentReplaced(c) PROVE Still
  <2>1. /\ UNCHANGED <<pc, running>> /\ gone' = gone \cup {c} /\ cancelled' = {m \in cancelled : m[1] # c}
        /\ page'[s] = IF sessionOf[s] = c /\ page[s] # "none" THEN "over" ELSE page[s]
    BY <1>8 DEF DocumentReplaced
  <2>2. Mark(s)[1] = sessionOf[s]
    BY DEF Mark
  <2> QED BY <1>0, <2>1, <2>2 DEF NoClick, Mark, Past
<1>9. ASSUME NEW t \in Send, Handler(t), ~ReportBound(t), ~ReportSaved(t) PROVE Still
  <2>1. Past(s) => Past(s)'
    <3>1. CASE SendBegin(t)
      <4>1. pc[t] = "queued"
        BY <3>1, HeadWaiting DEF OnceInv, SendBegin
      <4> QED BY <1>0, <3>1, <4>1 DEF SendBegin, Refuse, Past
    <3>2. CASE \E ok \in BOOLEAN : SendVerified(t, ok) \/ GenericStatus(t, ok) \/ FinalizeReturns(t, ok)
      BY <1>0, <3>2 DEF SendVerified, GenericStatus, FinalizeReturns, Past
    <3>3. CASE NativeReturns(t) \/ GenericReturns(t)
      BY <1>0, <3>3 DEF NativeReturns, GenericReturns, Past
    <3> QED BY <1>9, <3>1, <3>2, <3>3 DEF Handler
  <2> QED BY <1>1, <1>9, <2>1 DEF Handler, SendBegin, SendVerified, NativeReturns, GenericStatus,
          GenericReturns, FinalizeReturns, content, doc
<1>10. ASSUME NEW x \in Stop, StopHandler(x) PROVE Still
  <2>1. Past(s) => Past(s)'
    BY <1>0, <1>10 DEF StopHandler, StopBegin, StopSucceeds, StopFails, StopSettled, Past
  <2> QED BY <1>1, <1>10, <2>1 DEF StopHandler, StopBegin, StopSucceeds, StopFails, StopSettled,
          content, doc
<1>11. ASSUME NEW t \in Send, SendArrives(t) PROVE Still
  BY <1>0, <1>1, <1>11 DEF SendArrives, content, doc, Past
<1>12. ASSUME \/ \E x \in Stop, id \in Id, matches \in BOOLEAN : StopArrives(x, id, matches)
              \/ \E c \in Session : TabChanged(c)
              \/ Connects \/ SocketCloses \/ PopupDisconnects \/ PopupDropsSocket \/ UNCHANGED vars
       PROVE  Still
  BY <1>1, <1>12, ZenonT(30) DEF StopArrives, TabChanged, Connects, SocketCloses, PopupDisconnects,
     PopupDropsSocket, content, doc, vars, Past
<1> QED
  BY <1>5, <1>6, <1>7, <1>8, <1>9, <1>10, <1>11, <1>12 DEF Next, Environment

\* A Stop that keeps its answer and its target keeps what the answer granted.
LEMMA GrantedKept ==
  ASSUME IdsDistinct, OnceInv, PageInv, ClickInv, GrantedInv, [Next]_vars, NEW x \in Stop,
         stop'[x] = stop[x] \/ ~Settles(x)'
  PROVE  Granted(x)'
<1>1. CASE ~Settles(x)'
  BY <1>1 DEF Granted
<1>2. CASE stop'[x] = stop[x] /\ Settles(x)
  <2>1. PICK s \in Send : s = stop[x].target /\ s = stop'[x].target
    BY <1>2 DEF Settles, OnceInv, HandlerInv, Typed, StopHasTarget
  <2>2. NoClick(s) /\ (stop[x].answer = "confirmed" => page[s] = "over" /\ s \notin running)
    BY <1>2, <2>1 DEF GrantedInv, Granted
  <2>3. NoClick(s)' /\ (stop[x].answer = "confirmed" => page'[s] = "over" /\ s \notin running')
    BY <2>2, NoClickStep
  <2> QED BY <1>2, <2>1, <2>3 DEF Granted, NoClick, Mark, Past
<1>3. stop'[x] = stop[x] => (Settles(x)' => Settles(x))
  BY DEF Settles
<1> QED BY <1>1, <1>2, <1>3

LEMMA GrantedStep ==
  ASSUME IdsDistinct, FinalInv, ClickInv, GrantedInv, [Next]_vars
  PROVE  GrantedInv'
<1>0. /\ stop \in [Stop -> [pc : StopPC, id : Id \cup {None}, matches : BOOLEAN,
                           target : Send \cup {None}, answer : Answer]]
      /\ page \in [Send -> PageState]
      /\ \A x \in Stop : stop[x].pc = "asked" => stop[x].target \in Send
      /\ OnceInv /\ PageInv /\ StopQueueInv /\ StopInv
  BY DEF FinalInv, OnceInv, HandlerInv, Typed, TypeOK, HandlerTypeOK, ContentTypeOK, StopHasTarget
<1>2. ASSUME NEW x \in Stop, \A y \in Stop \ {x} : stop'[y] = stop[y], Granted(x)'
      PROVE  GrantedInv'
  BY <1>0, <1>2, GrantedKept DEF GrantedInv
<1>3. CASE UNCHANGED stop
  BY <1>0, <1>3, GrantedKept DEF GrantedInv
<1>4. ASSUME NEW x \in Stop, NEW id \in Id, NEW matches \in BOOLEAN, StopArrives(x, id, matches)
      PROVE  GrantedInv'
  <2>1. stop'[x].answer = "none" /\ \A y \in Stop \ {x} : stop'[y] = stop[y]
    BY <1>0, <1>4 DEF StopArrives
  <2> QED BY <1>2, <2>1 DEF Granted, Settles
<1>5. ASSUME NEW x \in Stop, StopBegin(x) PROVE GrantedInv'
  <2>1. /\ stop'[x].answer = stop[x].answer /\ stop[x].answer = "none"
        /\ \A y \in Stop \ {x} : stop'[y] = stop[y]
    BY <1>0, <1>5, StopHeadQueued DEF OnceInv, StopBegin, StopInv, StopOk
  <2> QED BY <1>2, <2>1 DEF Granted, Settles
<1>6. ASSUME NEW x \in Stop, StopSucceeds(x) \/ StopFails(x) \/ StopSettled(x) PROVE GrantedInv'
  <2>1. stop'[x].pc \in {"done", "settling"} /\ \A y \in Stop \ {x} : stop'[y] = stop[y]
    BY <1>0, <1>6 DEF StopSucceeds, StopFails, StopSettled
  <2> QED BY <1>2, <2>1 DEF Granted, Settles
<1>7. ASSUME NEW x \in Stop, PageStops(x) PROVE GrantedInv'
  <2>1. PICK s \in Send : s = stop[x].target
    BY <1>0, <1>7 DEF PageStops
  <2>2. /\ UNCHANGED doc
        /\ \E a \in {"prevented", "confirmed", "refused"} :
             /\ stop' = [stop EXCEPT ![x].answer = a]
             /\ a = "prevented" => PagePrevents(s)
             /\ a = "confirmed" => PageConfirmsStop(s)
    BY <1>7, <2>1 DEF PageStops
  <2>3. stop'[x].target = s /\ \A y \in Stop \ {x} : stop'[y] = stop[y]
    BY <1>0, <2>1, <2>2
  <2>4. PagePrevents(s) => NoClick(s)'
    <3>1. page[s] = "accepted" => sessionOf[s] \notin gone
      BY DEF ClickInv, ClickOk
    <3> QED BY <1>0, <2>2, <3>1 DEF PagePrevents, NoClick, Mark, doc
  <2>5. PageConfirmsStop(s) => NoClick(s)' /\ page'[s] = "over" /\ s \notin running'
    BY <1>0 DEF PageConfirmsStop, NoClick
  <2>6. stop'[x].answer = "prevented" => PagePrevents(s)
    BY <1>0, <2>2
  <2>7. stop'[x].answer = "confirmed" => PageConfirmsStop(s)
    BY <1>0, <2>2
  <2>8. Granted(x)'
    BY <2>3, <2>4, <2>5, <2>6, <2>7 DEF Granted, Settles, NoClick, Mark, Past
  <2> QED BY <1>2, <2>3, <2>8
<1>8. ASSUME NEW s \in Send, Handler(s) \/ Page(s) PROVE GrantedInv'
  BY <1>3, <1>8 DEF Handler, SendBegin, SendVerified, NativeReturns, GenericStatus, GenericReturns,
     FinalizeReturns, ReportBound, ReportSaved, Page, PageAccepts, PageRefuses, PromptUndeliverable,
     PageClicks, PageAnswersSubmit, ProviderFinishes, MonitorSettles, PageCaptures,
     PageCaptureFails, PageRecalled
<1>9. ASSUME \/ \E s \in Send : SendArrives(s)
             \/ \E c \in Session : TabChanged(c) \/ DocumentReplaced(c)
             \/ Connects \/ SocketCloses \/ PopupDisconnects \/ PopupDropsSocket \/ UNCHANGED vars
      PROVE  GrantedInv'
  BY <1>3, <1>9 DEF SendArrives, TabChanged, DocumentReplaced, Connects, SocketCloses,
     PopupDisconnects, PopupDropsSocket, vars
<1> QED
  BY <1>4, <1>5, <1>6, <1>7, <1>8, <1>9 DEF Next, StopHandler, Environment

\* How a turn comes to be reported as interrupted: its handler ends before the page took the
\* prompt up or after the page was through with it, or a Stop was granted.
Interrupts(s) ==
    \/ /\ pc[s] \in {"queued", "verify", "status", "submit"} /\ pc'[s] = "done"
       /\ pc[s] = "submit" => reply[s] # "none"
       /\ UNCHANGED <<page, cancelled, running, gone>>
    \/ \E x \in Stop :
          /\ Settles(x) /\ StopTook(x) /\ stop[x].target = s /\ s \in active
          /\ UNCHANGED <<pc, page, cancelled, running, gone>>

\* A frame of another kind, or about another turn, interrupts nothing.
LEMMA TellKept ==
  ASSUME Typed, NEW S, NEW kind, Tell(S, kind), NEW s \in Send,
         s \notin S \/ kind # "interrupted", Told(s, "interrupted")'
  PROVE  Told(s, "interrupted")
<1>1. frames[s] \in Seq([kind : Kind, conn : 1..MaxConns])
  BY DEF Typed, TypeOK, FramesTypeOK
<1>2. CASE frames'[s] = frames[s]
  BY <1>2 DEF Told
<1>3. CASE s \in S /\ frames'[s] = Append(frames[s], [kind |-> kind, conn |-> conn])
  <2> DEFINE e == [kind |-> kind, conn |-> conn]
  <2>1. frames'[s] = Append(frames[s], e) /\ e.kind = kind
    BY <1>3
  <2> HIDE DEF e
  <2>2. /\ Len(frames[s]) \in Nat /\ Len(frames'[s]) = Len(frames[s]) + 1
        /\ \A i \in 1..Len(frames[s]) : frames'[s][i] = frames[s][i]
        /\ frames'[s][Len(frames[s]) + 1].kind = kind
    BY <1>1, <2>1
  <2> QED BY <1>3, <2>2 DEF Told
<1> QED BY <1>2, <1>3 DEF Tell

LEMMA FailTellsNot ==
  ASSUME Typed, NEW s \in Send, NEW t, NEW pending, FailGenericTurn(t, pending), Told(s, "interrupted")'
  PROVE  Told(s, "interrupted")
<1>1. CASE UNCHANGED frames
  BY <1>1 DEF Told
<1> QED BY <1>1, TellKept DEF FailGenericTurn

\* Only an acknowledgement of its own turn interrupts it.
LEMMA AcknowledgeTells ==
  ASSUME IdsDistinct, Typed, NEW s \in Send, NEW t \in Send, AcknowledgeInterrupted(t) \/ SendFailed(t),
         Told(s, "interrupted")'
  PROVE  Told(s, "interrupted") \/ (t = s /\ s \in active)
<1>1. CASE UNCHANGED frames
  BY <1>1 DEF Told
<1>2. CASE Tell({t}, "error")
  BY <1>2, TellKept
<1>3. CASE Has(idOf[t]) /\ Tell({t}, "interrupted")
  BY <1>3, TellKept, HolderIsOwn
<1> QED BY <1>1, <1>2, <1>3 DEF AcknowledgeInterrupted, SendFailed

LEMMA InterruptStep ==
  ASSUME IdsDistinct, OnceInv, [Next]_vars, NEW s \in Send, Told(s, "interrupted")'
  PROVE  Told(s, "interrupted") \/ Interrupts(s)
<1> DEFINE Goal == Told(s, "interrupted") \/ Interrupts(s)
<1>0. Typed /\ pc \in [Send -> HandlerPC]
  BY DEF OnceInv, HandlerInv, Typed, TypeOK, HandlerTypeOK
<1>1. CASE UNCHANGED frames
  BY <1>1 DEF Told
<1>2. ASSUME NEW t \in Send, NEW kind, Tell({t}, kind), kind # "interrupted" PROVE Goal
  BY <1>0, <1>2, TellKept
<1>3. ASSUME NEW t \in Send, SendBegin(t) PROVE Goal
  <2>1. pc[t] = "queued"
    BY <1>3, HeadWaiting DEF OnceInv, SendBegin
  <2>2. CASE pc' = [pc EXCEPT ![t] = "done"] /\ Tell({t}, "interrupted")
    <3>1. CASE t = s
      BY <1>0, <1>3, <2>1, <2>2, <3>1 DEF Interrupts, SendBegin, content, doc
    <3> QED BY <1>0, <2>2, <3>1, TellKept
  <2> QED BY <1>1, <1>3, <2>2 DEF SendBegin, Refuse
<1>4. ASSUME NEW t \in Send, NEW ok \in BOOLEAN, SendVerified(t, ok) \/ GenericStatus(t, ok) PROVE Goal
  <2>1. pc[t] \in {"verify", "status"} /\ UNCHANGED <<page, cancelled, running, gone>>
    BY <1>4 DEF SendVerified, GenericStatus, content, doc
  <2>2. CASE pc' = [pc EXCEPT ![t] = "done"] /\ (AcknowledgeInterrupted(t) \/ SendFailed(t))
    BY <1>0, <2>1, <2>2, AcknowledgeTells DEF Interrupts
  <2>3. CASE \E pending : FailGenericTurn(t, pending)
    BY <1>0, <2>3, FailTellsNot
  <2> QED BY <1>1, <1>4, <2>2, <2>3 DEF SendVerified, GenericStatus
<1>5. ASSUME NEW t \in Send, NativeReturns(t) PROVE Goal
  <2>1. pc[t] = "submit" /\ reply[t] # "none" /\ UNCHANGED <<page, cancelled, running, gone>>
    BY <1>5 DEF NativeReturns, doc
  <2>2. CASE pc' = [pc EXCEPT ![t] = "done"] /\ SendFailed(t)
    BY <1>0, <2>1, <2>2, AcknowledgeTells DEF Interrupts
  <2> QED BY <1>1, <1>5, <2>2 DEF NativeReturns
<1>6. ASSUME NEW t \in Send, GenericReturns(t) PROVE Goal
  BY <1>0, <1>1, <1>6, FailTellsNot DEF GenericReturns
<1>7. ASSUME NEW t \in Send, NEW ok \in BOOLEAN, FinalizeReturns(t, ok) PROVE Goal
  BY <1>0, <1>2, <1>7, FailTellsNot DEF FinalizeReturns
<1>8. ASSUME NEW t \in Send, ReportBound(t) \/ ReportSaved(t) PROVE Goal
  <2>1. UNCHANGED frames \/ Tell({t}, "error") \/ Tell({t}, "response")
    BY <1>8 DEF ReportBound, ReportSaved
  <2> QED BY <1>1, <1>2, <2>1
<1>9. ASSUME NEW x \in Stop, StopSucceeds(x) PROVE Goal
  <2>1. PICK t \in Send : t = stop[x].target
    BY <1>9 DEF OnceInv, HandlerInv, Typed, StopHasTarget, StopSucceeds
  <2>2. /\ AcknowledgeInterrupted(t) /\ Settles(x) /\ StopTook(x)
        /\ UNCHANGED <<pc, page, cancelled, running, gone>>
    BY <1>9, <2>1 DEF StopSucceeds, StopTook, Settles, content, doc
  <2> QED BY <1>0, <2>1, <2>2, AcknowledgeTells DEF Interrupts
<1>10. ASSUME NEW x \in Stop, StopFails(x) PROVE Goal
  <2>1. UNCHANGED frames \/ \E t : \E pending : FailGenericTurn(t, pending)
    BY <1>10 DEF StopFails
  <2> QED BY <1>0, <1>1, <2>1, FailTellsNot
<1>11. ASSUME NEW x \in Stop, StopBegin(x) \/ StopSettled(x) \/ PageStops(x) PROVE Goal
  BY <1>1, <1>11 DEF StopBegin, StopSettled, PageStops
<1>12. ASSUME NEW t \in Send, Page(t) PROVE Goal
  BY <1>1, <1>12 DEF Page, PageAccepts, PageRefuses, PromptUndeliverable, PageClicks,
     PageAnswersSubmit, ProviderFinishes, MonitorSettles, PageCaptures, PageCaptureFails,
     PageRecalled
<1>13. ASSUME NEW c \in Session, TabChanged(c) PROVE Goal
  <2>1. \E S : Tell(S, "error")
    BY <1>13 DEF TabChanged
  <2> QED BY <1>0, <2>1, TellKept
<1>14. ASSUME Environment \/ PopupDropsSocket \/ UNCHANGED vars PROVE Goal
  BY <1>1, <1>14 DEF Environment, SendArrives, StopArrives, DocumentReplaced, Connects, SocketCloses,
     PopupDisconnects, PopupDropsSocket, vars
<1> QED
  BY <1>3, <1>4, <1>5, <1>6, <1>7, <1>8, <1>9, <1>10, <1>11, <1>12, <1>13, <1>14
  DEF Next, Handler, StopHandler

LEMMA InterruptStops ==
  ASSUME FinalInv, ClickInv, GrantedInv, NEW s \in Send, Interrupts(s)
  PROVE  Stopped(s)'
<1>0. ClickOk(s) /\ OnceInv
  BY DEF ClickInv, FinalInv
<1>1. CASE /\ pc[s] \in {"queued", "verify", "status"} /\ pc'[s] = "done"
           /\ UNCHANGED <<page, cancelled, running, gone>>
  <2>1. page[s] = "none" /\ s \notin running
    BY <1>0, <1>1 DEF ClickOk, Begun, Waiting
  <2> QED BY <1>1, <2>1 DEF Stopped, NoClick, Past
<1>2. CASE /\ pc[s] = "submit" /\ reply[s] # "none" /\ pc'[s] = "done"
           /\ UNCHANGED <<page, cancelled, running, gone>>
  BY <1>0, <1>2 DEF ClickOk, Stopped, NoClick, Past, IsGeneric
<1>3. ASSUME NEW x \in Stop, Settles(x), StopTook(x), stop[x].target = s, s \in active,
             UNCHANGED <<pc, page, cancelled, running, gone>>
      PROVE  Stopped(s)'
  <2>1. NoClick(s)'
    BY <1>3 DEF GrantedInv, Granted, NoClick, Mark, Past
  <2>2. CASE stop[x].answer = "confirmed"
    BY <1>3, <2>1, <2>2 DEF GrantedInv, Granted, Stopped
  <2>3. CASE stop[x].answer # "confirmed"
    <3>1. IsGeneric(s) => s \notin committed
      BY <1>3, <2>3 DEF StopTook
    <3> QED BY <1>0, <1>3, <2>1, <3>1 DEF ClickOk, Stopped, IsGeneric
  <2> QED BY <2>2, <2>3
<1> QED BY <1>1, <1>2, <1>3 DEF Interrupts

LEMMA StoppedStep ==
  ASSUME IdsDistinct, FinalInv, ClickInv, GrantedInv, StoppedInv, [Next]_vars
  PROVE  StoppedInv'
<1> SUFFICES ASSUME NEW s \in Send, Told(s, "interrupted")' PROVE Stopped(s)'
  BY DEF StoppedInv
<1>1. OnceInv /\ PageInv
  BY DEF FinalInv
<1>2. CASE Told(s, "interrupted")
  <2>1. Stopped(s)
    BY <1>2 DEF StoppedInv
  <2> QED BY <1>1, <2>1, NoClickStep DEF Stopped, IsGeneric
<1>3. CASE Interrupts(s)
  BY <1>3, InterruptStops
<1> QED BY <1>1, <1>2, <1>3, InterruptStep

LEMMA RealStep == ASSUME IdsDistinct PROVE RealInv /\ [Next]_vars => RealInv'
<1> SUFFICES ASSUME RealInv, [Next]_vars PROVE RealInv'
  OBVIOUS
<1>1. OnceInv /\ PageInv /\ StopQueueInv /\ StopInv /\ ToldInv /\ FinalInv
  BY DEF RealInv, FinalInv
<1>2. OnceInv'
  BY <1>1, StepTyped, QueueStep, HeldStep, StartedStep, ReportsStep, AnswerStep DEF OnceInv, HandlerInv
<1>3. FinalInv'
  BY <1>1, <1>2, PageStep, StopQueueStep, StopStep, ToldStep DEF OnceInv, FinalInv
<1> QED BY <1>1, <1>3, ClickStep, GrantedStep, StoppedStep DEF RealInv

\* When the controller of a generic turn is told it was interrupted, the provider is not working
\* on it, and never will be: the Stop was granted by a page that stopped the provider, or before
\* the prompt was submitted, and nothing submits it afterwards.
THEOREM GenericStopsAreReal ==
  ASSUME IdsDistinct
  PROVE  Spec => []GenericStopIsReal
<1>1. RealInv => GenericStopIsReal
  BY DEF RealInv, StoppedInv, Stopped, GenericStopIsReal
<1> QED
  BY InitReal, RealStep, <1>1, PTL DEF Spec

\* No page clicks Send for a prompt whose controller was told that it was interrupted, on any kind
\* of site and although the worker may still dispatch it: the page remembers the cancellation of
\* a request until that request itself is refused.
THEOREM StoppedNeverSubmitted ==
  ASSUME IdsDistinct
  PROVE  Spec => StoppedNeverSubmits
<1>1. RealInv /\ [Next]_vars => [\A s \in clicked' \ clicked : ~Told(s, "interrupted")]_vars
  <2> SUFFICES ASSUME RealInv, Next, NEW s \in clicked' \ clicked PROVE ~Told(s, "interrupted")
    OBVIOUS
  <2>1. \A t \in Send : (Handler(t) \/ Page(t)) /\ ~PageClicks(t) => UNCHANGED clicked
    BY DEF Handler, SendBegin, SendVerified, NativeReturns, GenericStatus, GenericReturns,
       FinalizeReturns, ReportBound, ReportSaved, Page, PageAccepts, PageRefuses,
       PromptUndeliverable, PageAnswersSubmit, ProviderFinishes, MonitorSettles, PageCaptures,
       PageCaptureFails, PageRecalled, content
  <2>2. \A x \in Stop : StopHandler(x) \/ PageStops(x) => UNCHANGED clicked
    BY DEF StopHandler, StopBegin, StopSucceeds, StopFails, StopSettled, PageStops, content
  <2>3. Environment \/ (\E c \in Session : TabChanged(c)) \/ PopupDropsSocket => UNCHANGED clicked
    BY DEF Environment, SendArrives, StopArrives, DocumentReplaced, Connects, SocketCloses,
       PopupDisconnects, TabChanged, PopupDropsSocket, content
  <2>4. PICK t \in Send : PageClicks(t)
    BY <2>1, <2>2, <2>3 DEF Next
  <2>5. s = t /\ s \in Send
    BY <2>4 DEF PageClicks
  <2>6. ~NoClick(s)
    BY <2>4, <2>5 DEF PageClicks, NoClick
  <2> QED BY <2>5, <2>6 DEF RealInv, StoppedInv, Stopped
<1> QED
  BY InitReal, RealStep, <1>1, PTL DEF Spec, StoppedNeverSubmits
-----------------------------------------------------------------------------
(* Every registered turn is owned.  Nothing here asks that the ids be         *)
(* distinct.                                                                  *)

\* A Stop for the turn has arrived: it is in the queue or being handled, or it was tried.
Asked(s) == \E x \in Stop : stop[x].id = idOf[s] /\ stop[x].pc # "unused"

\* A pending flag was set by a Stop, and a Stop asks the page of a turn of its own id.
PendingInv ==
    \A id \in pendingInterrupts : \E x \in Stop : stop[x].id = id /\ stop[x].pc # "unused"

AskInv ==
    \A x \in Stop : stop[x].pc = "asked" =>
        stop[x].target \in Send /\ idOf[stop[x].target] = stop[x].id

\* A send arrived on the current connection or on an earlier one.
LinkInv ==
    /\ conn \in {0, conns}
    /\ \A s \in Send : connOf[s] <= conns /\ (pc[s] # "unsent" => connOf[s] > 0)

\* The worker hears of every replaced document but a generic one on its own origin, and has
\* no turn left for a binding it deleted, save the ones it has still to verify.
DocInv ==
    /\ \A c \in gone : c \in Generic \/ c \in changed
    /\ \A s \in active : pc[s] # "verify" => sessionOf[s] \notin dropped

\* Only the pages of turns that were registered, and are no more, are told to stop.
RecallInv == \A s \in Send : recall[s] # "none" => s \notin active /\ pc[s] \notin Waiting

\* A report about a turn that is still registered found it when it came in.
FoundInv == \A s \in active : report[s].pc # "none" => report[s].found

\* Nothing answers a prompt that has not been dispatched, and each kind of session has its
\* own handler.
ReplyInv == \A s \in Send : ~Begun(s) => reply[s] = "none"

KindInv ==
    \A s \in Send : IF IsGeneric(s) THEN pc[s] # "submit"
                    ELSE pc[s] \notin {"status", "send", "held", "finalize"}

\* The page of a native turn is at work on it or has reported its end ...
Working(s) == page[s] \in {"generating", "reporting"} \/ report[s].pc # "none"

\* ... or need not be: a Stop, the tab event or the end of the connection takes over.
Excused(s) == Asked(s) \/ sessionOf[s] \in gone \/ connOf[s] # conn

\* A generic turn has its runner or a Stop; a native one whose prompt was submitted its page.
StageInv ==
    \A s \in active :
        IF IsGeneric(s)
        THEN pc[s] \in {"verify", "status", "send", "finalize"} \/ Asked(s)
        ELSE pc[s] = "done" \/ (pc[s] = "submit" /\ reply[s] = "submitted") => Working(s) \/ Excused(s)

GroundInv == HandlerInv /\ PageInv /\ PendingInv /\ AskInv /\ LinkInv

OwnInv == GroundInv /\ DocInv /\ RecallInv /\ FoundInv /\ ReplyInv /\ KindInv /\ StageInv

LEMMA InitOwn == Init => OwnInv
<1> SUFFICES ASSUME Init PROVE OwnInv
  OBVIOUS
<1>1. HandlerInv /\ PageInv
  BY InitFinal DEF FinalInv, OnceInv
<1>2. PendingInv /\ AskInv /\ LinkInv
  BY DEF Init, PendingInv, AskInv, LinkInv
<1>3. DocInv /\ RecallInv /\ FoundInv /\ ReplyInv /\ KindInv /\ StageInv
  BY DEF Init, DocInv, RecallInv, FoundInv, ReplyInv, KindInv, StageInv
<1> QED BY <1>1, <1>2, <1>3 DEF OwnInv, GroundInv

\* A Stop that arrived stays one, and keeps the id it came for.
LEMMA StopLasts ==
  ASSUME HandlerInv, [Next]_vars, NEW x \in Stop, stop[x].pc # "unused"
  PROVE  stop'[x].pc # "unused" /\ stop'[x].id = stop[x].id
<1>0. stop \in [Stop -> [pc : StopPC, id : Id \cup {None}, matches : BOOLEAN,
                         target : Send \cup {None}, answer : Answer]]
  BY DEF HandlerInv, Typed, TypeOK, HandlerTypeOK
<1>1. CASE UNCHANGED stop
  BY <1>1
<1>2. ASSUME NEW y \in Stop, StopHandler(y) \/ PageStops(y)
      PROVE  stop'[x].pc # "unused" /\ stop'[x].id = stop[x].id
  BY <1>0, <1>2 DEF StopHandler, StopBegin, StopSucceeds, StopFails, StopSettled, PageStops
<1>3. ASSUME NEW y \in Stop, NEW id \in Id, NEW matches \in BOOLEAN, StopArrives(y, id, matches)
      PROVE  stop'[x] = stop[x]
  BY <1>0, <1>3 DEF StopArrives
<1>4. ASSUME NEW s \in Send, Handler(s) \/ Page(s) PROVE UNCHANGED stop
  BY <1>4 DEF Handler, SendBegin, SendVerified, NativeReturns, GenericStatus, GenericReturns,
     FinalizeReturns, ReportBound, ReportSaved, Page, PageAccepts, PageRefuses, PromptUndeliverable,
     PageClicks, PageAnswersSubmit, ProviderFinishes, MonitorSettles, PageCaptures,
     PageCaptureFails, PageRecalled
<1>5. ASSUME \/ \E s \in Send : SendArrives(s)
             \/ \E c \in Session : TabChanged(c) \/ DocumentReplaced(c)
             \/ Connects \/ SocketCloses \/ PopupDisconnects \/ PopupDropsSocket \/ UNCHANGED vars
      PROVE  UNCHANGED stop
  BY <1>5 DEF SendArrives, TabChanged, DocumentReplaced, Connects, SocketCloses, PopupDisconnects,
     PopupDropsSocket, vars
<1> QED BY <1>1, <1>2, <1>3, <1>4, <1>5 DEF Next, Environment

LEMMA AskedLasts ==
  ASSUME HandlerInv, [Next]_vars, NEW s \in Send, Asked(s)
  PROVE  Asked(s)'
  BY StopLasts DEF Asked

LEMMA PendingStep ==
  ASSUME HandlerInv, PendingInv, [Next]_vars
  PROVE  PendingInv'
<1>1. CASE pendingInterrupts' \subseteq pendingInterrupts
  BY <1>1, StopLasts DEF PendingInv
<1>2. ASSUME NEW y \in Stop, NEW id \in Id, NEW matches \in BOOLEAN, StopArrives(y, id, matches)
      PROVE  PendingInv'
  <2>1. pendingInterrupts' \subseteq pendingInterrupts \cup {id}
    BY <1>2 DEF StopArrives
  <2>2. stop'[y].id = id /\ stop'[y].pc # "unused"
    BY <1>2 DEF StopArrives, HandlerInv, Typed, TypeOK, HandlerTypeOK
  <2> QED BY <2>1, <2>2, StopLasts DEF PendingInv
<1>3. ASSUME NEW x \in Stop, StopHandler(x) \/ PageStops(x)
      PROVE  pendingInterrupts' \subseteq pendingInterrupts
  BY <1>3 DEF StopHandler, StopBegin, StopSucceeds, StopFails, StopSettled, PageStops, ordering
<1>4. ASSUME NEW s \in Send, Handler(s) \/ Page(s) PROVE UNCHANGED pendingInterrupts
  BY <1>4 DEF Handler, SendBegin, SendVerified, NativeReturns, GenericStatus, GenericReturns,
     FinalizeReturns, ReportBound, ReportSaved, Page, PageAccepts, PageRefuses, PromptUndeliverable,
     PageClicks, PageAnswersSubmit, ProviderFinishes, MonitorSettles, PageCaptures,
     PageCaptureFails, PageRecalled, ordering
<1>5. ASSUME \/ \E s \in Send : SendArrives(s)
             \/ \E c \in Session : TabChanged(c) \/ DocumentReplaced(c)
             \/ Connects \/ SocketCloses \/ PopupDisconnects \/ PopupDropsSocket \/ UNCHANGED vars
      PROVE  pendingInterrupts' \subseteq pendingInterrupts
  BY <1>5 DEF SendArrives, TabChanged, DocumentReplaced, Connects, SocketCloses, PopupDisconnects,
     PopupDropsSocket, ordering, vars
<1> QED BY <1>1, <1>2, <1>3, <1>4, <1>5 DEF Next, Environment

\* The request found under an id has that id.
LEMMA TargetOwn ==
  ASSUME Typed, NEW id, Has(id)
  PROVE  Target(id) \in Send /\ idOf[Target(id)] = id
  BY DEF Typed, TypeOK, RegistryTypeOK, Has, Holder, Target

LEMMA AskStep ==
  ASSUME HandlerInv, AskInv, [Next]_vars
  PROVE  AskInv'
<1>0. /\ stop \in [Stop -> [pc : StopPC, id : Id \cup {None}, matches : BOOLEAN,
                           target : Send \cup {None}, answer : Answer]]
      /\ Typed
  BY DEF HandlerInv, Typed, TypeOK, HandlerTypeOK
<1>1. CASE UNCHANGED stop
  BY <1>1 DEF AskInv
<1>2. ASSUME NEW x \in Stop, \A y \in Stop \ {x} : stop'[y] = stop[y],
             stop'[x].pc = "asked" => stop'[x].target \in Send /\ idOf[stop'[x].target] = stop'[x].id
      PROVE  AskInv'
  BY <1>2 DEF AskInv
<1>3. ASSUME NEW x \in Stop, NEW id \in Id, NEW matches \in BOOLEAN, StopArrives(x, id, matches)
      PROVE  AskInv'
  <2>1. /\ \A y \in Stop \ {x} : stop'[y] = stop[y]
        /\ stop'[x].id = id /\ (stop'[x].pc = "asked" => Has(id) /\ stop'[x].target = Target(id))
    BY <1>0, <1>3 DEF StopArrives
  <2> QED BY <1>0, <1>2, <2>1, TargetOwn
<1>4. ASSUME NEW x \in Stop, StopBegin(x) PROVE AskInv'
  <2>1. /\ \A y \in Stop \ {x} : stop'[y] = stop[y]
        /\ stop'[x].id = stop[x].id
        /\ stop'[x].pc = "asked" => Has(stop[x].id) /\ stop'[x].target = Target(stop[x].id)
    BY <1>0, <1>4 DEF StopBegin
  <2> QED BY <1>0, <1>2, <2>1, TargetOwn
<1>5. ASSUME NEW x \in Stop, StopSucceeds(x) \/ StopFails(x) \/ StopSettled(x) PROVE AskInv'
  <2>1. \A y \in Stop \ {x} : stop'[y] = stop[y]
    BY <1>0, <1>5 DEF StopSucceeds, StopFails, StopSettled
  <2>2. stop'[x].pc \in {"done", "settling"}
    BY <1>0, <1>5 DEF StopSucceeds, StopFails, StopSettled
  <2> QED BY <1>2, <2>1, <2>2
<1>6. ASSUME NEW x \in Stop, PageStops(x) PROVE AskInv'
  <2>1. \E a : stop' = [stop EXCEPT ![x].answer = a]
    BY <1>6 DEF PageStops
  <2>2. /\ \A y \in Stop \ {x} : stop'[y] = stop[y]
        /\ stop'[x].pc = stop[x].pc /\ stop'[x].target = stop[x].target /\ stop'[x].id = stop[x].id
    BY <1>0, <2>1
  <2> QED BY <1>2, <2>2 DEF AskInv
<1>7. ASSUME NEW s \in Send, Handler(s) \/ Page(s) PROVE UNCHANGED stop
  BY <1>7 DEF Handler, SendBegin, SendVerified, NativeReturns, GenericStatus, GenericReturns,
     FinalizeReturns, ReportBound, ReportSaved, Page, PageAccepts, PageRefuses, PromptUndeliverable,
     PageClicks, PageAnswersSubmit, ProviderFinishes, MonitorSettles, PageCaptures,
     PageCaptureFails, PageRecalled
<1>8. ASSUME \/ \E s \in Send : SendArrives(s)
             \/ \E c \in Session : TabChanged(c) \/ DocumentReplaced(c)
             \/ Connects \/ SocketCloses \/ PopupDisconnects \/ PopupDropsSocket \/ UNCHANGED vars
      PROVE  UNCHANGED stop
  BY <1>8 DEF SendArrives, TabChanged, DocumentReplaced, Connects, SocketCloses, PopupDisconnects,
     PopupDropsSocket, vars
<1> QED BY <1>1, <1>3, <1>4, <1>5, <1>6, <1>7, <1>8 DEF Next, StopHandler, Environment

LEMMA LinkStep ==
  ASSUME HandlerInv, LinkInv, [Next]_vars
  PROVE  LinkInv'
<1>0. /\ conn \in 0..MaxConns /\ conns \in 0..MaxConns /\ connOf \in [Send -> 0..MaxConns]
      /\ 0..MaxConns \subseteq Nat /\ pc \in [Send -> HandlerPC]
  BY BoundAssumption DEF HandlerInv, Typed, TypeOK, LinkTypeOK, FramesTypeOK, HandlerTypeOK
<1> PcChange
  BY PcStep
<1>1. ASSUME UNCHANGED <<conns, connOf>>, conn' \in {conn, 0},
             \A s \in Send : pc[s] = "unsent" => pc'[s] = "unsent"
      PROVE  LinkInv'
  BY <1>0, <1>1 DEF LinkInv
<1>2. ASSUME NEW s \in Send, SendArrives(s) PROVE LinkInv'
  BY <1>0, <1>2 DEF SendArrives, LinkInv
<1>3. CASE Connects
  BY <1>0, <1>3 DEF Connects, LinkInv
<1>4. ASSUME NEW s \in Send, SendBegin(s) PROVE LinkInv'
  <2>1. pc[s] = "queued"
    BY <1>4, HeadWaiting DEF SendBegin
  <2>2. \A t \in Send \ {s} : pc'[t] = pc[t]
    BY <1>0, <1>4 DEF SendBegin, Refuse
  <2> QED BY <1>1, <1>4, <2>1, <2>2 DEF SendBegin
<1>5. CASE \A s \in Send : pc[s] \in Waiting => pc'[s] = pc[s]
  <2>1. \A s \in Send : pc[s] = "unsent" => pc'[s] = "unsent"
    BY <1>5 DEF Waiting
  <2>2. ASSUME NEW s \in Send, Handler(s) \/ Page(s) PROVE UNCHANGED <<conn, conns, connOf>>
    BY <2>2 DEF Handler, SendBegin, SendVerified, NativeReturns, GenericStatus, GenericReturns,
       FinalizeReturns, ReportBound, ReportSaved, Page, PageAccepts, PageRefuses,
       PromptUndeliverable, PageClicks, PageAnswersSubmit, ProviderFinishes, MonitorSettles,
       PageCaptures, PageCaptureFails, PageRecalled, link
  <2>3. ASSUME NEW x \in Stop, StopHandler(x) \/ PageStops(x) PROVE UNCHANGED <<conn, conns, connOf>>
    BY <2>3 DEF StopHandler, StopBegin, StopSucceeds, StopFails, StopSettled, PageStops, link
  <2>4. ASSUME \/ \E x \in Stop, id \in Id, matches \in BOOLEAN : StopArrives(x, id, matches)
               \/ \E c \in Session : TabChanged(c) \/ DocumentReplaced(c)
               \/ SocketCloses \/ PopupDisconnects \/ PopupDropsSocket \/ UNCHANGED vars
        PROVE  UNCHANGED <<conns, connOf>> /\ conn' \in {conn, 0}
    BY <2>4 DEF StopArrives, TabChanged, DocumentReplaced, SocketCloses, PopupDisconnects,
       PopupDropsSocket, Disconnected, link, vars
  <2> QED BY <1>1, <1>2, <1>3, <2>1, <2>2, <2>3, <2>4 DEF Next, Environment
<1> QED BY <1>0, <1>2, <1>4, <1>5 DEF PcChange

\* What moves a handler on.
LEMMA Moves ==
  ASSUME HandlerInv, [Next]_vars, NEW s \in Send
  PROVE  \/ pc'[s] = pc[s]
         \/ SendArrives(s) \/ SendBegin(s) \/ NativeReturns(s) \/ GenericReturns(s)
         \/ \E ok \in BOOLEAN : SendVerified(s, ok) \/ GenericStatus(s, ok) \/ FinalizeReturns(s, ok)
         \/ pc[s] = "held" /\ pc'[s] \in {"finalize", "done"}
            /\ \E x \in Stop : stop[x].id = idOf[s] /\ stop[x].pc = "asked"
<1>0. pc \in [Send -> HandlerPC]
  BY DEF HandlerInv, Typed, TypeOK, HandlerTypeOK
<1>1. ASSUME NEW t \in Send, Handler(t), ~ReportBound(t), ~ReportSaved(t), t # s PROVE pc'[s] = pc[s]
  BY <1>0, <1>1 DEF Handler, SendBegin, Refuse, SendVerified, NativeReturns, GenericStatus,
     GenericReturns, FinalizeReturns
<1>2. ASSUME NEW t \in Send, Page(t) \/ ReportBound(t) \/ ReportSaved(t) PROVE pc'[s] = pc[s]
  BY <1>2 DEF ReportBound, ReportSaved, Page, PageAccepts, PageRefuses, PromptUndeliverable,
     PageClicks, PageAnswersSubmit, ProviderFinishes, MonitorSettles, PageCaptures,
     PageCaptureFails, PageRecalled
<1>3. ASSUME NEW t \in Send, SendArrives(t), t # s PROVE pc'[s] = pc[s]
  BY <1>0, <1>3 DEF SendArrives
<1>4. ASSUME NEW x \in Stop, StopFails(x), pc'[s] # pc[s]
      PROVE  /\ pc[s] = "held" /\ pc'[s] \in {"finalize", "done"}
             /\ stop[x].id = idOf[s] /\ stop[x].pc = "asked"
  <2>1. s \in Completion(stop[x].id) /\ pc'[s] \in {"finalize", "done"} /\ stop[x].pc = "asked"
    BY <1>0, <1>4 DEF StopFails
  <2> QED BY <2>1 DEF Completion, HandlerInv, HeldInv
<1>5. ASSUME NEW x \in Stop, StopBegin(x) \/ StopSucceeds(x) \/ StopSettled(x) \/ PageStops(x)
      PROVE  pc'[s] = pc[s]
  BY <1>5 DEF StopBegin, StopSucceeds, StopSettled, PageStops
<1>6. ASSUME \/ \E x \in Stop, id \in Id, matches \in BOOLEAN : StopArrives(x, id, matches)
             \/ \E c \in Session : TabChanged(c) \/ DocumentReplaced(c)
             \/ Connects \/ SocketCloses \/ PopupDisconnects \/ PopupDropsSocket \/ UNCHANGED vars
      PROVE  pc'[s] = pc[s]
  BY <1>6 DEF StopArrives, TabChanged, DocumentReplaced, Connects, SocketCloses, PopupDisconnects,
     PopupDropsSocket, vars
<1> QED BY <1>1, <1>2, <1>3, <1>4, <1>5, <1>6 DEF Next, Handler, StopHandler, Environment

\* A turn is registered when its handler begins, and only then.
LEMMA Comes ==
  ASSUME HandlerInv, [Next]_vars, NEW s \in Send, s \in active', s \notin active
  PROVE  SendBegin(s) /\ pc[s] = "queued" /\ pc'[s] = "verify"
<1>1. PICK t \in Send : SendBegin(t) /\ Registers(t)
  BY StepChanges DEF RegistryChange, Remove, registry
<1>2. t = s
  BY <1>1 DEF Registers
<1>3. pc'[s] = "verify"
  BY <1>1, <1>2 DEF SendBegin, Refuse, registry, HandlerInv, Typed, TypeOK, HandlerTypeOK
<1> QED BY <1>1, <1>2, <1>3, HeadWaiting DEF SendBegin

LEMMA KindStep ==
  ASSUME HandlerInv, KindInv, [Next]_vars
  PROVE  KindInv'
<1> SUFFICES ASSUME NEW s \in Send
             PROVE  IF IsGeneric(s) THEN pc'[s] # "submit"
                    ELSE pc'[s] \notin {"status", "send", "held", "finalize"}
  BY DEF KindInv, IsGeneric
<1>0. pc \in [Send -> HandlerPC]
  BY DEF HandlerInv, Typed, TypeOK, HandlerTypeOK
<1>1. CASE SendArrives(s) \/ SendBegin(s) \/ NativeReturns(s)
  BY <1>0, <1>1 DEF SendArrives, SendBegin, Refuse, NativeReturns
<1>2. ASSUME NEW ok \in BOOLEAN, SendVerified(s, ok)
      PROVE  pc'[s] \in {"done", IF IsGeneric(s) THEN "status" ELSE "submit"}
  BY <1>0, <1>2 DEF SendVerified
<1>3. ASSUME NEW ok \in BOOLEAN, GenericStatus(s, ok) \/ GenericReturns(s) \/ FinalizeReturns(s, ok)
      PROVE  pc[s] \in {"status", "send", "finalize"} /\ pc'[s] # "submit"
  BY <1>0, <1>3 DEF GenericStatus, GenericReturns, FinalizeReturns
<1> QED BY <1>1, <1>2, <1>3, Moves DEF KindInv

LEMMA DocStep ==
  ASSUME HandlerInv, DocInv, [Next]_vars
  PROVE  DocInv'
<1>0. pc \in [Send -> HandlerPC] /\ active \subseteq Send
  BY DEF HandlerInv, Typed, TypeOK, HandlerTypeOK, RegistryTypeOK
<1>1. active' \subseteq Send
  BY StepTyped DEF HandlerInv, Typed, TypeOK, RegistryTypeOK
<1>2. ASSUME NEW c \in Session, DocumentReplaced(c)
      PROVE  /\ \A d \in gone' : d \in Generic \/ d \in changed'
             /\ UNCHANGED dropped
  BY <1>2 DEF DocumentReplaced, DocInv
<1>3. ASSUME NEW c \in Session, TabChanged(c)
      PROVE  UNCHANGED <<gone, changed>> /\ \A s \in active' : sessionOf[s] \notin dropped' \ dropped
  BY <1>3 DEF TabChanged, Remove
<1>4. ASSUME NEW s \in Send, Handler(s) \/ Page(s) \/ SendArrives(s) PROVE UNCHANGED doc
  BY <1>4 DEF Handler, SendBegin, SendVerified, NativeReturns, GenericStatus, GenericReturns,
     FinalizeReturns, ReportBound, ReportSaved, Page, PageAccepts, PageRefuses, PromptUndeliverable,
     PageClicks, PageAnswersSubmit, ProviderFinishes, MonitorSettles, PageCaptures,
     PageCaptureFails, PageRecalled, SendArrives
<1>5. ASSUME NEW x \in Stop, StopHandler(x) \/ PageStops(x) PROVE UNCHANGED doc
  BY <1>5 DEF StopHandler, StopBegin, StopSucceeds, StopFails, StopSettled, PageStops
<1>6. ASSUME \/ \E x \in Stop, id \in Id, matches \in BOOLEAN : StopArrives(x, id, matches)
             \/ Connects \/ SocketCloses \/ PopupDisconnects \/ PopupDropsSocket \/ UNCHANGED vars
      PROVE  UNCHANGED doc
  BY <1>6 DEF StopArrives, Connects, SocketCloses, PopupDisconnects, PopupDropsSocket, vars
<1>7. /\ \A d \in gone' : d \in Generic \/ d \in changed'
      /\ \A s \in active' : sessionOf[s] \notin dropped' \ dropped
  BY <1>2, <1>3, <1>4, <1>5, <1>6 DEF Next, Environment, DocInv, doc
<1>8. ASSUME NEW s \in active', pc'[s] # "verify" PROVE sessionOf[s] \notin dropped
  <2>1. s \in active
    BY <1>1, <1>8, Comes
  <2>2. CASE pc[s] # "verify"
    BY <2>1, <2>2 DEF DocInv
  <2>3. CASE pc[s] = "verify"
    <3>1. PICK ok \in BOOLEAN : SendVerified(s, ok)
      BY <1>0, <1>1, <1>8, <2>3, Moves, HeadWaiting
      DEF SendArrives, NativeReturns, GenericReturns, GenericStatus, FinalizeReturns, SendBegin
    <3>2. SendFailed(s) => s \notin active'
      BY <2>1 DEF SendFailed, AcknowledgeInterrupted, Remove, Holder
    <3> QED BY <1>8, <3>1, <3>2 DEF SendVerified
  <2> QED BY <2>2, <2>3
<1> QED BY <1>7, <1>8 DEF DocInv

LEMMA RecallStep ==
  ASSUME HandlerInv, RecallInv, [Next]_vars
  PROVE  RecallInv'
<1> SUFFICES ASSUME NEW s \in Send, recall'[s] # "none" PROVE s \notin active' /\ pc'[s] \notin Waiting
  BY DEF RecallInv
<1>0. PcChange /\ StartedInv /\ recall \in [Send -> {"none", "wire", "popup"}]
  BY PcStep DEF HandlerInv, Typed, TypeOK, ContentTypeOK
<1>1. CASE recall[s] # "none"
  <2>1. s \notin active /\ pc[s] \notin Waiting
    BY <1>1 DEF RecallInv
  <2> QED BY <1>0, <2>1, Comes DEF PcChange, Waiting
<1>2. CASE recall[s] = "none"
  <2>1. ASSUME SocketCloses \/ PopupDisconnects PROVE s \in active /\ active' = {} /\ UNCHANGED pc
    BY <1>2, <2>1 DEF SocketCloses, PopupDisconnects, StopActiveRequests, Remove
  <2>2. ASSUME NEW t \in Send, Handler(t) \/ Page(t) PROVE recall'[s] = "none"
    BY <1>0, <1>2, <2>2
    DEF Handler, SendBegin, SendVerified, NativeReturns, GenericStatus, GenericReturns,
       FinalizeReturns, ReportBound, ReportSaved, Page, PageAccepts, PageRefuses,
       PromptUndeliverable, PageClicks, PageAnswersSubmit, ProviderFinishes, MonitorSettles,
       PageCaptures, PageCaptureFails, PageRecalled
  <2>3. ASSUME NEW x \in Stop, StopHandler(x) \/ PageStops(x) PROVE UNCHANGED recall
    BY <2>3 DEF StopHandler, StopBegin, StopSucceeds, StopFails, StopSettled, PageStops
  <2>4. ASSUME \/ \E x \in Stop, id \in Id, matches \in BOOLEAN : StopArrives(x, id, matches)
               \/ \E t \in Send : SendArrives(t)
               \/ \E c \in Session : TabChanged(c) \/ DocumentReplaced(c)
               \/ Connects \/ PopupDropsSocket \/ UNCHANGED vars
        PROVE  UNCHANGED recall
    BY <2>4 DEF StopArrives, SendArrives, TabChanged, DocumentReplaced, Connects, PopupDropsSocket, vars
  <2>5. SocketCloses \/ PopupDisconnects
    BY <1>2, <2>2, <2>3, <2>4 DEF Next, Environment
  <2> QED BY <1>0, <2>1, <2>5 DEF StartedInv
<1> QED BY <1>1, <1>2

\* A report that is new found what the registry held; a report goes on with what it found.
LEMMA ReportKept ==
  ASSUME HandlerInv, [Next]_vars, NEW s \in Send
  PROVE  \/ report'[s].pc = "none"
         \/ report'[s].found = Has(idOf[s])
         \/ report[s].pc # "none" /\ report'[s].found = report[s].found
<1>0. report \in [Send -> [pc : Report, found : BOOLEAN]]
  BY DEF HandlerInv, Typed, TypeOK, HandlerTypeOK
<1>1. CASE report'[s] = report[s]
  BY <1>0, <1>1
<1>2. ASSUME NEW t \in Send, PageCaptures(t) \/ PageCaptureFails(t)
      PROVE  report'[s] = report[s] \/ report'[s].found = Has(idOf[s])
  BY <1>0, <1>2 DEF PageCaptures, PageCaptureFails, Reports
<1>3. ASSUME NEW t \in Send, ReportBound(t) \/ ReportSaved(t), t # s PROVE report'[s] = report[s]
  BY <1>0, <1>3 DEF ReportBound, ReportSaved, Acknowledged, Reports
<1>4. CASE ReportBound(s) \/ ReportSaved(s)
  BY <1>0, <1>4 DEF ReportBound, ReportSaved, Acknowledged, Reports
<1>5. ASSUME NEW t \in Send, Handler(t) \/ Page(t), ~ReportBound(t), ~ReportSaved(t), ~PageCaptures(t), ~PageCaptureFails(t)
      PROVE  UNCHANGED report
  BY <1>5 DEF Handler, SendBegin, SendVerified, NativeReturns, GenericStatus, GenericReturns,
     FinalizeReturns, Page, PageAccepts, PageRefuses, PromptUndeliverable, PageClicks,
     PageAnswersSubmit, ProviderFinishes, MonitorSettles, PageRecalled
<1>6. ASSUME NEW x \in Stop, StopHandler(x) \/ PageStops(x) PROVE UNCHANGED report
  BY <1>6 DEF StopHandler, StopBegin, StopSucceeds, StopFails, StopSettled, PageStops
<1>7. ASSUME Environment \/ (\E c \in Session : TabChanged(c)) \/ PopupDropsSocket \/ UNCHANGED vars
      PROVE  UNCHANGED report
  BY <1>7 DEF Environment, SendArrives, StopArrives, DocumentReplaced, Connects, SocketCloses,
     PopupDisconnects, TabChanged, PopupDropsSocket, vars
<1> QED BY <1>1, <1>2, <1>3, <1>4, <1>5, <1>6, <1>7 DEF Next

LEMMA FoundStep ==
  ASSUME HandlerInv, PageInv, FoundInv, [Next]_vars
  PROVE  FoundInv'
<1> SUFFICES ASSUME NEW s \in active', report'[s].pc # "none" PROVE report'[s].found
  BY DEF FoundInv
<1>0. s \in Send
  BY StepTyped DEF HandlerInv, Typed, TypeOK, RegistryTypeOK
<1>1. CASE s \in active
  <2>1. Has(idOf[s])
    BY <1>1 DEF Has, Holder
  <2> QED BY <1>0, <1>1, <2>1, ReportKept DEF FoundInv
<1>2. CASE s \notin active
  <2>1. SendBegin(s) /\ pc[s] = "queued"
    BY <1>0, <1>2, Comes
  <2>2. page[s] = "none"
    BY <1>0, <2>1 DEF PageInv, PageOk, Begun, Waiting
  <2>3. report[s].pc = "none"
    BY <1>0, <2>2 DEF PageInv, PageOk, HandlerInv, ReportsInv
  <2> QED BY <2>1, <2>3 DEF SendBegin
<1> QED BY <1>1, <1>2

LEMMA BegunLasts ==
  ASSUME HandlerInv, [Next]_vars, NEW s \in Send, Begun(s)
  PROVE  Begun(s)'
<1>0. pc \in [Send -> HandlerPC]
  BY DEF HandlerInv, Typed, TypeOK, HandlerTypeOK
<1>1. pc[s] \notin {"unsent", "queued", "verify", "status"}
  BY DEF Begun, Waiting
<1>2. ~SendArrives(s) /\ ~SendBegin(s) /\ \A ok \in BOOLEAN : ~SendVerified(s, ok) /\ ~GenericStatus(s, ok)
  BY <1>1, HeadWaiting DEF SendArrives, SendBegin, SendVerified, GenericStatus
<1>3. \A ok \in BOOLEAN : NativeReturns(s) \/ GenericReturns(s) \/ FinalizeReturns(s, ok)
         => pc'[s] \in {"held", "finalize", "done"}
  BY <1>0 DEF NativeReturns, GenericReturns, FinalizeReturns
<1> QED BY <1>1, <1>2, <1>3, Moves DEF Begun, Waiting

\* Only the page a prompt was dispatched to answers it.
LEMMA ReplyChange ==
  ASSUME HandlerInv, PageInv, [Next]_vars, NEW s \in Send
  PROVE  /\ reply'[s] \in {reply[s], "none"} \/ Begun(s)
         /\ reply'[s] = "submitted" => reply[s] = "submitted" \/ PageAnswersSubmit(s)
<1> DEFINE Goal == /\ reply'[s] \in {reply[s], "none"} \/ Begun(s)
                   /\ reply'[s] = "submitted" => reply[s] = "submitted" \/ PageAnswersSubmit(s)
<1>0. reply \in [Send -> Reply] /\ PageOk(s)
  BY DEF HandlerInv, Typed, TypeOK, ContentTypeOK, PageInv
<1>1. CASE reply'[s] \in {reply[s], "none"}
  BY <1>1
<1>2. ASSUME Begun(s), reply'[s] # "submitted" PROVE Goal
  BY <1>2
<1>3. ASSUME NEW t \in Send, Page(t) PROVE Goal
  <2>1. CASE t # s
    BY <1>0, <1>1, <1>3, <2>1 DEF Page, PageAccepts, PageRefuses, PromptUndeliverable, PageClicks,
       PageAnswersSubmit, ProviderFinishes, MonitorSettles, PageCaptures, PageCaptureFails,
       PageRecalled, PagePrevents, PageConfirmsStop, PageCannotStop
  <2>2. CASE PageRefuses(s) \/ PromptUndeliverable(s)
    BY <1>0, <1>2, <2>2
    DEF PageRefuses, PromptUndeliverable, Refusal, Dispatched, PageOk, Begun, Waiting
  <2>3. CASE PageCaptures(s) \/ PageCaptureFails(s) \/ PageRecalled(s)
    BY <1>0, <1>1, <1>2, <2>3 DEF PageCaptures, PageCaptureFails, PageRecalled, PagePrevents,
       PageConfirmsStop, PageCannotStop, PageOk
  <2>4. CASE PageAnswersSubmit(s)
    BY <1>0, <2>4 DEF PageAnswersSubmit, PageOk
  <2>5. CASE PageAccepts(s) \/ PageClicks(s) \/ ProviderFinishes(s) \/ MonitorSettles(s)
    BY <1>1, <2>5 DEF PageAccepts, PageClicks, ProviderFinishes, MonitorSettles
  <2> QED BY <1>3, <2>1, <2>2, <2>3, <2>4, <2>5 DEF Page
<1>4. ASSUME NEW x \in Stop, PageStops(x) PROVE Goal
  <2>1. PICK t \in Send : t = stop[x].target
    BY <1>4 DEF PageStops, HandlerInv, Typed, StopHasTarget
  <2>2. CASE t # s
    BY <1>0, <1>1, <1>4, <2>1, <2>2 DEF PageStops, PagePrevents, PageConfirmsStop, PageCannotStop
  <2>3. CASE t = s
    BY <1>0, <1>1, <1>2, <1>4, <2>1, <2>3
    DEF PageStops, PagePrevents, PageConfirmsStop, PageCannotStop, PageOk
  <2> QED BY <2>2, <2>3
<1>5. ASSUME NEW c \in Session, DocumentReplaced(c) PROVE Goal
  <2>1. reply'[s] = reply[s] \/ (pc[s] \in {"submit", "send"} /\ reply'[s] = "rejected")
    BY <1>5 DEF DocumentReplaced
  <2> QED BY <1>1, <1>2, <2>1 DEF Begun, Waiting
<1>6. ASSUME NEW t \in Send, Handler(t) PROVE reply'[s] \in {reply[s], "none"}
  BY <1>0, <1>6 DEF Handler, SendBegin, SendVerified, NativeReturns, GenericStatus, GenericReturns,
     FinalizeReturns, ReportBound, ReportSaved, content
<1>7. ASSUME NEW x \in Stop, StopHandler(x) PROVE reply'[s] \in {reply[s], "none"}
  BY <1>0, <1>7 DEF StopHandler, StopBegin, StopSucceeds, StopFails, StopSettled, content
<1>8. ASSUME \/ \E x \in Stop, id \in Id, matches \in BOOLEAN : StopArrives(x, id, matches)
             \/ \E t \in Send : SendArrives(t)
             \/ \E c \in Session : TabChanged(c)
             \/ Connects \/ SocketCloses \/ PopupDisconnects \/ PopupDropsSocket \/ UNCHANGED vars
      PROVE  UNCHANGED reply
  BY <1>8 DEF StopArrives, SendArrives, TabChanged, Connects, SocketCloses, PopupDisconnects,
     PopupDropsSocket, content, vars
<1> QED BY <1>1, <1>3, <1>4, <1>5, <1>6, <1>7, <1>8 DEF Next, Environment

LEMMA ReplyStep ==
  ASSUME HandlerInv, PageInv, ReplyInv, [Next]_vars
  PROVE  ReplyInv'
  BY BegunLasts, ReplyChange DEF ReplyInv

\* What excuses a turn's page lasts: Stops stay, documents stay gone, and the connection a turn
\* arrived on does not come back.
LEMMA ExcusedLasts ==
  ASSUME GroundInv, [Next]_vars, NEW s \in active, Excused(s)
  PROVE  Excused(s)'
<1>0. s \in Send /\ pc[s] \notin Waiting /\ HandlerInv /\ LinkInv
  BY DEF GroundInv, HandlerInv, Typed, TypeOK, RegistryTypeOK, StartedInv
<1>1. CASE Asked(s)
  BY <1>0, <1>1, AskedLasts DEF Excused
<1>2. CASE sessionOf[s] \in gone
  <2>1. ASSUME NEW t \in Send, Handler(t) \/ Page(t) PROVE UNCHANGED gone
    BY <2>1 DEF Handler, SendBegin, SendVerified, NativeReturns, GenericStatus, GenericReturns,
       FinalizeReturns, ReportBound, ReportSaved, Page, PageAccepts, PageRefuses,
       PromptUndeliverable, PageClicks, PageAnswersSubmit, ProviderFinishes, MonitorSettles,
       PageCaptures, PageCaptureFails, PageRecalled, doc
  <2>2. ASSUME NEW x \in Stop, StopHandler(x) \/ PageStops(x) PROVE UNCHANGED gone
    BY <2>2 DEF StopHandler, StopBegin, StopSucceeds, StopFails, StopSettled, PageStops, doc
  <2>3. ASSUME Environment \/ (\E c \in Session : TabChanged(c)) \/ PopupDropsSocket \/ UNCHANGED vars
        PROVE  gone \subseteq gone'
    BY <2>3 DEF Environment, SendArrives, StopArrives, DocumentReplaced, Connects, SocketCloses,
       PopupDisconnects, TabChanged, PopupDropsSocket, vars, doc
  <2> QED BY <1>2, <2>1, <2>2, <2>3 DEF Next, Excused
<1>3. CASE connOf[s] # conn
  <2>0. /\ connOf[s] <= conns /\ connOf[s] > 0 /\ conns \in Nat /\ connOf[s] \in Nat
        /\ connOf \in [Send -> 0..MaxConns]
    BY <1>0, BoundAssumption DEF LinkInv, Waiting, HandlerInv, Typed, TypeOK, LinkTypeOK, FramesTypeOK
  <2>1. ASSUME NEW t \in Send, Handler(t) \/ Page(t) PROVE UNCHANGED <<conn, connOf>>
    BY <2>1 DEF Handler, SendBegin, SendVerified, NativeReturns, GenericStatus, GenericReturns,
       FinalizeReturns, ReportBound, ReportSaved, Page, PageAccepts, PageRefuses,
       PromptUndeliverable, PageClicks, PageAnswersSubmit, ProviderFinishes, MonitorSettles,
       PageCaptures, PageCaptureFails, PageRecalled, link
  <2>2. ASSUME NEW x \in Stop, StopHandler(x) \/ PageStops(x) PROVE UNCHANGED <<conn, connOf>>
    BY <2>2 DEF StopHandler, StopBegin, StopSucceeds, StopFails, StopSettled, PageStops, link
  <2>3. ASSUME NEW t \in Send, SendArrives(t) PROVE conn' = conn /\ connOf'[s] = connOf[s]
    BY <1>0, <2>0, <2>3 DEF SendArrives, Waiting
  <2>4. ASSUME \/ \E x \in Stop, id \in Id, matches \in BOOLEAN : StopArrives(x, id, matches)
               \/ \E c \in Session : TabChanged(c) \/ DocumentReplaced(c)
               \/ Connects \/ SocketCloses \/ PopupDisconnects \/ PopupDropsSocket \/ UNCHANGED vars
        PROVE  connOf' = connOf /\ conn' \in {conn, 0, conns + 1}
    BY <2>4 DEF StopArrives, TabChanged, DocumentReplaced, Connects, SocketCloses, PopupDisconnects,
       PopupDropsSocket, Disconnected, link, vars
  <2>5. connOf'[s] = connOf[s] /\ conn' \in {conn, 0, conns + 1}
    BY <2>1, <2>2, <2>3, <2>4 DEF Next, Environment
  <2> QED BY <1>3, <2>0, <2>5 DEF Excused
<1> QED BY <1>1, <1>2, <1>3 DEF Excused

\* A turn that is removed under its id is not registered afterwards.
LEMMA RemovedGone ==
  ASSUME NEW s, Remove(Holder(idOf[s])) PROVE s \notin active'
  BY DEF Remove, Holder

LEMMA EndGone ==
  ASSUME NEW s \in active, NEW pending,
         SendFailed(s) \/ AcknowledgeInterrupted(s) \/ (idOf[s] \notin pending /\ FailGenericTurn(s, pending))
  PROVE  s \notin active'
<1>1. Has(idOf[s])
  BY DEF Has, Holder
<1> QED BY <1>1, RemovedGone DEF SendFailed, AcknowledgeInterrupted, FailGenericTurn

\* A page at work on a submitted prompt goes on, reports, or is excused.
LEMMA WorkLasts ==
  ASSUME OwnInv, [Next]_vars, NEW s \in active, s \in active', ~IsGeneric(s), Working(s),
         pc[s] = "done" \/ (pc[s] = "submit" /\ reply[s] = "submitted")
  PROVE  Working(s)' \/ Excused(s)'
<1> DEFINE Goal == Working(s)' \/ Excused(s)'
<1>0. /\ s \in Send /\ HandlerInv /\ PageInv /\ GroundInv /\ LinkInv /\ AskInv /\ PageOk(s)
      /\ page \in [Send -> PageState] /\ report \in [Send -> [pc : Report, found : BOOLEAN]]
  BY DEF OwnInv, GroundInv, PageInv, HandlerInv, Typed, TypeOK, RegistryTypeOK, HandlerTypeOK, ContentTypeOK
<1>1. CASE page'[s] = page[s] /\ report'[s] = report[s]
  BY <1>1 DEF Working
<1>2. CASE Excused(s)
  BY <1>0, <1>2, ExcusedLasts
<1>3. CASE page'[s] \in {"generating", "reporting"}
  BY <1>3 DEF Working
<1>4. page[s] \in {"generating", "reporting"} \/ Excused(s)
  BY <1>0 DEF Working, PageOk, Excused
<1>5. ASSUME NEW t \in Send, Page(t), page[s] \in {"generating", "reporting"} PROVE Goal
  <2>1. CASE t # s
    BY <1>0, <1>1, <1>5, <2>1 DEF Page, PageAccepts, PageRefuses, PromptUndeliverable, PageClicks,
       PageAnswersSubmit, ProviderFinishes, MonitorSettles, PageCaptures, PageCaptureFails, Reports,
       PageRecalled, PagePrevents, PageConfirmsStop, PageCannotStop
  <2>2. CASE t = s
    <3>1. ~PageRecalled(s)
      BY <1>0 DEF PageRecalled, OwnInv, RecallInv
    <3>2. ~PageAccepts(s) /\ ~PageRefuses(s) /\ ~PromptUndeliverable(s) /\ ~MonitorSettles(s) /\ ~PageAnswersSubmit(s)
      BY <1>5
      DEF PageAccepts, PageRefuses, PromptUndeliverable, Dispatched, MonitorSettles, PageAnswersSubmit
    <3>3. PageClicks(s) \/ PageCaptures(s) \/ PageCaptureFails(s) => page'[s] \in {"generating", "reporting"}
      BY <1>0 DEF PageClicks, PageCaptures, PageCaptureFails, Reports
    <3>4. ProviderFinishes(s) => page'[s] = page[s]
      BY DEF ProviderFinishes
    <3> QED BY <1>3, <1>5, <2>2, <3>1, <3>2, <3>3, <3>4 DEF Page
  <2> QED BY <2>1, <2>2
<1>6. ASSUME NEW x \in Stop, PageStops(x) PROVE Goal
  <2>1. PICK t \in Send : t = stop[x].target /\ idOf[t] = stop[x].id /\ stop[x].pc = "asked"
    BY <1>0, <1>6 DEF PageStops, AskInv
  <2>2. CASE t # s
    BY <1>0, <1>1, <1>6, <2>1, <2>2 DEF PageStops, PagePrevents, PageConfirmsStop, PageCannotStop
  <2>3. CASE t = s
    BY <1>2, <2>1, <2>3 DEF Excused, Asked
  <2> QED BY <2>2, <2>3
<1>7. ASSUME NEW t \in Send, ReportBound(t) \/ ReportSaved(t) PROVE Goal
  <2>1. CASE t # s
    BY <1>0, <1>1, <1>7, <2>1 DEF ReportBound, ReportSaved, Acknowledged, Reports
  <2>2. CASE ReportSaved(s)
    BY <2>2, RemovedGone DEF ReportSaved
  <2>3. CASE ReportBound(s)
    <3>1. report[s].found
      BY <2>3 DEF ReportBound, OwnInv, FoundInv
    <3>2. conn = 0 => Excused(s)
      BY <1>0 DEF Excused, LinkInv, HandlerInv, StartedInv, Waiting
    <3>3. CASE sessionOf[s] \notin gone /\ conn # 0
      BY <1>0, <2>3, <3>1, <3>3, RemovedGone DEF ReportBound, Working
    <3> QED BY <1>2, <3>2, <3>3 DEF Excused
  <2> QED BY <1>7, <2>1, <2>2, <2>3
<1>8. ASSUME NEW c \in Session, DocumentReplaced(c) PROVE Goal
  <2>1. CASE sessionOf[s] = c
    BY <1>8, <2>1 DEF DocumentReplaced, Excused
  <2>2. CASE sessionOf[s] # c
    BY <1>0, <1>1, <1>8, <2>2 DEF DocumentReplaced
  <2> QED BY <2>1, <2>2
<1>9. ASSUME NEW t \in Send, Handler(t), ~ReportBound(t), ~ReportSaved(t)
      PROVE  UNCHANGED <<page, report>>
  BY <1>9 DEF Handler, SendBegin, SendVerified, NativeReturns, GenericStatus, GenericReturns,
     FinalizeReturns, content
<1>10. ASSUME NEW x \in Stop, StopHandler(x) PROVE UNCHANGED <<page, report>>
  BY <1>10 DEF StopHandler, StopBegin, StopSucceeds, StopFails, StopSettled, content
<1>11. ASSUME \/ \E x \in Stop, id \in Id, matches \in BOOLEAN : StopArrives(x, id, matches)
              \/ \E t \in Send : SendArrives(t)
              \/ \E c \in Session : TabChanged(c)
              \/ Connects \/ SocketCloses \/ PopupDisconnects \/ PopupDropsSocket \/ UNCHANGED vars
       PROVE  UNCHANGED <<page, report>>
  BY <1>11 DEF StopArrives, SendArrives, TabChanged, Connects, SocketCloses, PopupDisconnects,
     PopupDropsSocket, content, vars
<1> QED
  BY <1>1, <1>2, <1>4, <1>5, <1>6, <1>7, <1>8, <1>9, <1>10, <1>11 DEF Next, Environment

\* A handler that ends and leaves its turn registered leaves it to a Stop, or to the page.
LEMMA GenericStage ==
  ASSUME OwnInv, [Next]_vars, NEW s \in active, s \in active', IsGeneric(s)
  PROVE  pc'[s] \in {"verify", "status", "send", "finalize"} \/ Asked(s)'
<1>0. /\ s \in Send /\ HandlerInv /\ pc[s] \notin Waiting /\ pc[s] # "submit" /\ Has(idOf[s])
      /\ pc \in [Send -> HandlerPC]
  BY DEF OwnInv, GroundInv, HandlerInv, Typed, TypeOK, RegistryTypeOK, HandlerTypeOK, StartedInv,
     KindInv, Has, Holder
<1>1. Asked(s) => Asked(s)'
  BY <1>0, AskedLasts
<1>2. idOf[s] \in pendingInterrupts => Asked(s)'
  <2>1. idOf[s] \in pendingInterrupts => Asked(s)
    BY DEF OwnInv, GroundInv, PendingInv, Asked
  <2> QED BY <1>1, <2>1
<1>3. \A pending : /\ ~SendFailed(s) /\ ~AcknowledgeInterrupted(s)
                   /\ FailGenericTurn(s, pending) => idOf[s] \in pending
  BY EndGone
<1>4. CASE pc'[s] = pc[s]
  BY <1>1, <1>4 DEF OwnInv, StageInv
<1>5. ~SendArrives(s) /\ ~SendBegin(s) /\ ~NativeReturns(s)
  BY <1>0, HeadWaiting DEF SendArrives, SendBegin, NativeReturns, Waiting
<1>6. ASSUME NEW ok \in BOOLEAN, SendVerified(s, ok) PROVE pc'[s] = "status"
  BY <1>0, <1>3, <1>6 DEF SendVerified
<1>7. ASSUME NEW ok \in BOOLEAN, GenericStatus(s, ok)
      PROVE  pc'[s] = "send" \/ idOf[s] \in pendingInterrupts
  BY <1>0, <1>3, <1>7 DEF GenericStatus
<1>8. GenericReturns(s) => pc'[s] = "finalize" \/ idOf[s] \in pendingInterrupts
  BY <1>0, <1>3 DEF GenericReturns
<1>9. ASSUME NEW ok \in BOOLEAN, FinalizeReturns(s, ok) PROVE idOf[s] \in pendingInterrupts
  BY <1>0, <1>3, <1>9, RemovedGone DEF FinalizeReturns
<1>10. (\E x \in Stop : stop[x].id = idOf[s] /\ stop[x].pc = "asked") => Asked(s)'
  BY <1>1 DEF Asked
<1> QED BY <1>0, <1>2, <1>4, <1>5, <1>6, <1>7, <1>8, <1>9, <1>10, Moves

LEMMA NativeStage ==
  ASSUME OwnInv, [Next]_vars, NEW s \in active, s \in active', ~IsGeneric(s),
         pc'[s] = "done" \/ (pc'[s] = "submit" /\ reply'[s] = "submitted")
  PROVE  Working(s)' \/ Excused(s)'
<1>0. /\ s \in Send /\ HandlerInv /\ PageInv /\ GroundInv /\ pc[s] \notin Waiting /\ Has(idOf[s])
      /\ pc[s] \notin {"status", "send", "held", "finalize"}
      /\ pc \in [Send -> HandlerPC] /\ page \in [Send -> PageState] /\ reply \in [Send -> Reply]
  BY DEF OwnInv, GroundInv, HandlerInv, Typed, TypeOK, RegistryTypeOK, HandlerTypeOK, ContentTypeOK,
     StartedInv, KindInv, Has, Holder
<1>1. CASE pc[s] = "done" \/ (pc[s] = "submit" /\ reply[s] = "submitted")
  <2>1. Working(s) \/ Excused(s)
    BY <1>1 DEF OwnInv, StageInv
  <2> QED BY <1>0, <1>1, <2>1, WorkLasts, ExcusedLasts
<1>2. CASE PageAnswersSubmit(s) /\ reply'[s] = "submitted"
  <2>1. page'[s] = "generating"
    BY <1>0, <1>2 DEF PageAnswersSubmit
  <2> QED BY <2>1 DEF Working
<1>3. ASSUME NEW ok \in BOOLEAN, SendVerified(s, ok) PROVE FALSE
  <2>1. pc[s] = "verify" /\ UNCHANGED reply
    BY <1>3 DEF SendVerified, content
  <2>2. reply'[s] = "none"
    BY <1>0, <2>1 DEF OwnInv, ReplyInv, Begun
  <2>3. pc'[s] = "submit"
    BY <1>0, <1>3, EndGone DEF SendVerified
  <2> QED BY <2>2, <2>3
<1>4. CASE pc[s] = "submit" /\ NativeReturns(s)
  <2>1. reply[s] = "submitted"
    BY <1>0, <1>4, EndGone DEF NativeReturns
  <2> QED BY <1>1, <1>4, <2>1
<1>5. pc[s] \in {"verify", "submit", "done"}
  BY <1>0 DEF HandlerPC, Waiting
<1>6. ~SendArrives(s) /\ ~SendBegin(s) /\ ~GenericReturns(s)
      /\ \A ok \in BOOLEAN : ~GenericStatus(s, ok) /\ ~FinalizeReturns(s, ok)
  BY <1>0, HeadWaiting
  DEF SendArrives, SendBegin, GenericReturns, GenericStatus, FinalizeReturns, Waiting
<1>7. CASE pc'[s] = pc[s]
  BY <1>0, <1>1, <1>2, <1>5, <1>7, ReplyChange
<1> QED BY <1>0, <1>3, <1>4, <1>5, <1>6, <1>7, Moves DEF NativeReturns

LEMMA StageStep ==
  ASSUME OwnInv, [Next]_vars
  PROVE  StageInv'
<1> SUFFICES ASSUME NEW s \in active'
             PROVE  IF IsGeneric(s)
                    THEN pc'[s] \in {"verify", "status", "send", "finalize"} \/ Asked(s)'
                    ELSE pc'[s] = "done" \/ (pc'[s] = "submit" /\ reply'[s] = "submitted")
                         => Working(s)' \/ Excused(s)'
  BY DEF StageInv, IsGeneric
<1>1. s \in Send /\ HandlerInv
  BY StepTyped DEF OwnInv, GroundInv, HandlerInv, Typed, TypeOK, RegistryTypeOK
<1>2. CASE s \notin active
  BY <1>1, <1>2, Comes
<1>3. CASE s \in active
  BY <1>3, GenericStage, NativeStage
<1> QED BY <1>2, <1>3

LEMMA OwnStep == OwnInv /\ [Next]_vars => OwnInv'
<1> SUFFICES ASSUME OwnInv, [Next]_vars PROVE OwnInv'
  OBVIOUS
<1>1. HandlerInv /\ PageInv /\ PendingInv /\ AskInv /\ LinkInv
  BY DEF OwnInv, GroundInv
<1>2. HandlerInv'
  BY <1>1, StepTyped, QueueStep, HeldStep, StartedStep, ReportsStep DEF HandlerInv
<1>3. GroundInv'
  BY <1>1, <1>2, PageStep, PendingStep, AskStep, LinkStep DEF GroundInv
<1>4. DocInv' /\ RecallInv' /\ FoundInv' /\ ReplyInv' /\ KindInv'
  BY <1>1, DocStep, RecallStep, FoundStep, ReplyStep, KindStep DEF OwnInv
<1> QED BY <1>3, <1>4, StageStep DEF OwnInv

LEMMA OwnOwned == OwnInv => TurnIsOwned
<1> SUFFICES ASSUME OwnInv, NEW s \in active PROVE Owned(s) \/ StopTried(s) \/ connOf[s] # conn
  BY DEF TurnIsOwned
<1>0. /\ s \in Send /\ pc[s] \in HandlerPC \ Waiting
      /\ stop \in [Stop -> [pc : StopPC, id : Id \cup {None}, matches : BOOLEAN,
                            target : Send \cup {None}, answer : Answer]]
  BY DEF OwnInv, GroundInv, HandlerInv, Typed, TypeOK, RegistryTypeOK, HandlerTypeOK, StartedInv
<1>1. Asked(s) => Stopping(s) \/ StopTried(s)
  BY <1>0 DEF Asked, Stopping, StopTried, StopPC
<1>2. CASE IsGeneric(s)
  BY <1>1, <1>2 DEF OwnInv, StageInv, Owned
<1>3. CASE ~IsGeneric(s)
  <2>1. pc[s] \in {"verify", "submit", "done"}
    BY <1>0, <1>3 DEF OwnInv, KindInv, HandlerPC, Waiting
  <2>2. CASE pc[s] = "done"
    <3>1. Working(s) \/ Excused(s)
      BY <1>3, <2>2 DEF OwnInv, StageInv
    <3>2. sessionOf[s] \in gone => sessionOf[s] \in changed \ dropped
      BY <1>3, <2>2 DEF OwnInv, DocInv, IsGeneric
    <3> QED BY <1>1, <1>3, <3>1, <3>2 DEF Working, Excused, Owned
  <2> QED BY <2>1, <2>2 DEF Owned
<1> QED BY <1>2, <1>3

\* Nobody forgets a turn: as long as its connection lasts and no Stop has been tried on it, its
\* handler, its page, a report, a Stop or the tab event of its document is still there to end it,
\* whatever order they run in and even when several requests carry one id.
THEOREM TurnsAlwaysOwned == Spec => []TurnIsOwned
  BY InitOwn, OwnStep, OwnOwned, PTL DEF Spec
=============================================================================
