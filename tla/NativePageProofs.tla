-------------------------- MODULE NativePageProofs --------------------------
(* For any number of prompts, Stops, conversations and events: the script of a  *)
(* page takes nothing a person typed or attached; the page's one turn is never  *)
(* left to nobody, unless a second Stop struck the teardown the first one owed; *)
(* a turn reported as stopped was not sent, has ended or is quarantined; and no *)
(* prompt is put on top of an unfinished answer whose place the page knows.     *)
EXTENDS NativePage, TLAPS

Early == {"idle", "sent", "asked"}
Unsent == Early \cup {"accepted", "clear", "staged", "typed"}

SendType == [at : SendAt, conv : Chat \cup {None}, used : BOOLEAN, to : Chat \cup {None},
             staged : BOOLEAN, typed : BOOLEAN, saw : BOOLEAN]

\* A request under way is in a conversation, and so is what a Stop or the background names.
PlacesInv ==
    /\ \A r \in Request : send[r].at # "idle" => send[r].conv \in Chat
    /\ \A x \in Halt : stop[x].at = "confirming" => stop[x].id \in Request /\ stop[x].conv \in Chat
    /\ \A r \in holds : named[r] \in Chat

\* A prompt stands nowhere before its click.
UnsentInv == \A r \in Request : send[r].at \in Unsent => stands[r] = None

\* Only a Stop that is being confirmed runs interruptAndConfirm, and whatever the lease holds is
\* being interrupted by somebody.
LeaseInv ==
    /\ \A x \in Halt : conf[x] # "none" => stop[x].at = "confirming"
    /\ \A r \in holding : Confirming(r)

\* The active request has passed the verdict.
ActiveInv == active # None => send[active].at \notin Early

Typed == TypeOK /\ PlacesInv

Inv == Typed /\ UnsentInv /\ LeaseInv /\ ActiveInv /\ PageIsFreed

LEMMA ConstantTypes ==
    /\ Request \subseteq Nat /\ Halt \subseteq Nat /\ Request \cap Halt = {}
    /\ None \notin Request /\ None \notin Chat /\ Start \in Chat
BY NativeAssumption DEF Request, Halt

LEMMA InitInv == Init => Inv
<1> SUFFICES ASSUME Init PROVE Inv
  OBVIOUS
<1>1. SiteTypeOK
  <2>1. stands \in [Request -> Chat \cup {None}]
    BY DEF Init
  <2>2. gen \in [Chat -> [by : Request \cup {Person}, shown : BOOLEAN] \cup {None}]
    BY DEF Init
  <2>3. route \in Chat /\ done \subseteq Request /\ text \in Request \cup {Person, Mixed, None}
    BY NativeAssumption DEF Init
  <2>4. files \subseteq Request \cup {Person} /\ blocked \in BOOLEAN
    BY DEF Init
  <2>5. events \in 0..MaxEvents
    BY NativeAssumption DEF Init
  <2> QED
    BY <2>1, <2>2, <2>3, <2>4, <2>5 DEF SiteTypeOK
<1>2. ScriptTypeOK /\ WorkerTypeOK
  BY DEF Init, ScriptTypeOK, WorkerTypeOK
<1>3. JobsTypeOK
  BY DEF Init, JobsTypeOK, NoSend, NoStop, SendAt, StopAt
<1>4. PlacesInv /\ UnsentInv
  BY DEF Init, PlacesInv, UnsentInv, NoSend, NoStop
<1>5. LeaseInv /\ ActiveInv /\ PageIsFreed
  BY DEF Init, LeaseInv, ActiveInv, PageIsFreed, Job
<1> QED
  BY <1>1, <1>2, <1>3, <1>4, <1>5 DEF Inv, Typed, TypeOK

----------------------------------------------------------------------------
(* What a step may do to the requests and the Stops                           *)

Others(r) == \A q \in Request \ {r} : send'[q] = send[q]

\* A turn's step moves its own request, which is in a conversation, and never back.
Advances(r) ==
    /\ send' \in [Request -> SendType] /\ Others(r)
    /\ send'[r].conv \in Chat /\ send[r].at # "idle" /\ send'[r].at # "idle"
    /\ send'[r].at \in Early => send[r].at \in Early
    /\ send'[r].at \in Unsent => send[r].at \in Unsent

LEMMA TurnAdvances ==
    ASSUME Typed, NEW r \in Request, Turn(r)
    PROVE  Advances(r) /\ UNCHANGED stop
<1> USE DEF Typed, TypeOK, JobsTypeOK, PlacesInv, SendType, SendAt, Advances, Others, Early, Unsent
<1>1. ASSUME Arrive(r) PROVE Advances(r) /\ UNCHANGED stop
  BY <1>1 DEF Arrive, Foremost, Goes, Refuse
<1>2. ASSUME Admit(r) PROVE Advances(r) /\ UNCHANGED stop
  BY <1>2 DEF Admit, Foremost, Goes
<1>3. ASSUME RefuseVerdict(r) PROVE Advances(r) /\ UNCHANGED stop
  BY <1>3 DEF RefuseVerdict, Foremost, Goes, Refuse
<1>4. ASSUME Inspect(r) PROVE Advances(r) /\ UNCHANGED stop
  BY <1>4 DEF Inspect, Goes
<1>5. ASSUME Stage(r) PROVE Advances(r) /\ UNCHANGED stop
  <2>1. /\ send[r].at # "idle" /\ UNCHANGED stop
        /\ send' = [send EXCEPT ![r].at = "staged", ![r].staged = TRUE]
        /\ "staged" \in Unsent => send[r].at \in Unsent
    BY <1>5 DEF Stage
  <2>2. send[r] \in SendType /\ send[r].conv \in Chat
    BY <2>1
  <2>3. send'[r] = [send[r] EXCEPT !.at = "staged", !.staged = TRUE]
    BY <2>1
  <2>4. send'[r] \in SendType /\ send'[r].conv \in Chat /\ send'[r].at = "staged"
    BY <2>2, <2>3
  <2>5. Others(r)
    BY <2>1
  <2>6. send' \in [Request -> SendType]
    BY <2>1, <2>4, <2>5
  <2> QED
    BY <2>1, <2>4, <2>5, <2>6
<1>6. ASSUME Type(r) PROVE Advances(r) /\ UNCHANGED stop
  <2>1. /\ send[r].at # "idle" /\ UNCHANGED stop
        /\ send' = [send EXCEPT ![r].at = "typed", ![r].typed = TRUE]
        /\ "typed" \in Unsent => send[r].at \in Unsent
    BY <1>6 DEF Type
  <2>2. send[r] \in SendType /\ send[r].conv \in Chat
    BY <2>1
  <2>3. send'[r] = [send[r] EXCEPT !.at = "typed", !.typed = TRUE]
    BY <2>1
  <2>4. send'[r] \in SendType /\ send'[r].conv \in Chat /\ send'[r].at = "typed"
    BY <2>2, <2>3
  <2>5. Others(r)
    BY <2>1
  <2>6. send' \in [Request -> SendType]
    BY <2>1, <2>4, <2>5
  <2> QED
    BY <2>1, <2>4, <2>5, <2>6
<1>7. ASSUME Submit(r) PROVE Advances(r) /\ UNCHANGED stop
  BY <1>7 DEF Submit, Goes
<1>8. ASSUME FailBefore(r) PROVE Advances(r) /\ UNCHANGED stop
  BY <1>8 DEF FailBefore, Goes, Leave
<1>9. ASSUME CleanupEnds(r) PROVE Advances(r) /\ UNCHANGED stop
  BY <1>9 DEF CleanupEnds, Goes, Leave
<1>10. ASSUME AskTransition(r) PROVE Advances(r) /\ UNCHANGED stop
  BY <1>10, ConstantTypes DEF AskTransition, SiteTypeOK
<1>11. ASSUME TransitionAdmitted(r) PROVE Advances(r) /\ UNCHANGED stop
  BY <1>11, ConstantTypes DEF TransitionAdmitted
<1>12. ASSUME PromptSeen(r) PROVE Advances(r) /\ UNCHANGED stop
  BY <1>12 DEF PromptSeen, Goes
<1>13. ASSUME See(r) PROVE Advances(r) /\ UNCHANGED stop
  BY <1>13, ZenonT(30) DEF See
<1>14. ASSUME SubmitFaults(r) PROVE Advances(r) /\ UNCHANGED stop
  <2>1. /\ send[r].at # "idle" /\ UNCHANGED stop
        /\ send' = [send EXCEPT ![r].at = "unverified", ![r].to = None]
        /\ "unverified" \in Unsent => send[r].at \in Unsent
    BY <1>14 DEF SubmitFaults
  <2>2. send[r] \in SendType /\ send[r].conv \in Chat
    BY <2>1
  <2>3. send'[r] = [send[r] EXCEPT !.at = "unverified", !.to = None]
    BY <2>1
  <2>4. send'[r] \in SendType /\ send'[r].conv \in Chat /\ send'[r].at = "unverified"
    BY <2>2, <2>3
  <2>5. Others(r)
    BY <2>1
  <2>6. send' \in [Request -> SendType]
    BY <2>1, <2>4, <2>5
  <2> QED
    BY <2>1, <2>4, <2>5, <2>6
<1>15. ASSUME SubmitStopped(r) PROVE Advances(r) /\ UNCHANGED stop
  BY <1>15 DEF SubmitStopped, Goes, Refuse
<1>16. ASSUME SubmitUnknown(r) PROVE Advances(r) /\ UNCHANGED stop
  <2>1. /\ send[r].at # "idle" /\ UNCHANGED stop
        /\ send' = [send EXCEPT ![r].at = "monitor", ![r].saw = FALSE]
        /\ "monitor" \in Unsent => send[r].at \in Unsent
    BY <1>16 DEF SubmitUnknown
  <2>2. send[r] \in SendType /\ send[r].conv \in Chat
    BY <2>1
  <2>3. send'[r] = [send[r] EXCEPT !.at = "monitor", !.saw = FALSE]
    BY <2>1
  <2>4. send'[r] \in SendType /\ send'[r].conv \in Chat /\ send'[r].at = "monitor"
    BY <2>2, <2>3
  <2>5. Others(r)
    BY <2>1
  <2>6. send' \in [Request -> SendType]
    BY <2>1, <2>4, <2>5
  <2> QED
    BY <2>1, <2>4, <2>5, <2>6
<1>17. ASSUME CaptureCancelled(r) PROVE Advances(r) /\ UNCHANGED stop
  <2>1. /\ send[r].at # "idle" /\ UNCHANGED stop
        /\ send' = [send EXCEPT ![r].at = "ended", ![r].to = None]
        /\ "ended" \in Unsent => send[r].at \in Unsent
    BY <1>17 DEF CaptureCancelled
  <2>2. send[r] \in SendType /\ send[r].conv \in Chat
    BY <2>1
  <2>3. send'[r] = [send[r] EXCEPT !.at = "ended", !.to = None]
    BY <2>1
  <2>4. send'[r] \in SendType /\ send'[r].conv \in Chat /\ send'[r].at = "ended"
    BY <2>2, <2>3
  <2>5. Others(r)
    BY <2>1
  <2>6. send' \in [Request -> SendType]
    BY <2>1, <2>4, <2>5
  <2> QED
    BY <2>1, <2>4, <2>5, <2>6
<1>18. ASSUME CaptureComplete(r) PROVE Advances(r) /\ UNCHANGED stop
  BY <1>18 DEF CaptureComplete, Goes
<1>19. ASSUME CaptureFaults(r) PROVE Advances(r) /\ UNCHANGED stop
  <2>1. /\ send[r].at # "idle" /\ UNCHANGED stop
        /\ send' = [send EXCEPT ![r].at = "failing", ![r].to = None]
        /\ "failing" \in Unsent => send[r].at \in Unsent
    BY <1>19 DEF CaptureFaults
  <2>2. send[r] \in SendType /\ send[r].conv \in Chat
    BY <2>1
  <2>3. send'[r] = [send[r] EXCEPT !.at = "failing", !.to = None]
    BY <2>1
  <2>4. send'[r] \in SendType /\ send'[r].conv \in Chat /\ send'[r].at = "failing"
    BY <2>2, <2>3
  <2>5. Others(r)
    BY <2>1
  <2>6. send' \in [Request -> SendType]
    BY <2>1, <2>4, <2>5
  <2> QED
    BY <2>1, <2>4, <2>5, <2>6
<1>20. ASSUME CaptureGivesUp(r) PROVE Advances(r) /\ UNCHANGED stop
  BY <1>20 DEF CaptureGivesUp, Goes
<1>21. ASSUME AnswerTaken(r) PROVE Advances(r) /\ UNCHANGED stop
  BY <1>21 DEF AnswerTaken, Goes, Leave
<1>22. ASSUME AnswerRefused(r) PROVE Advances(r) /\ UNCHANGED stop
  BY <1>22 DEF AnswerRefused, Goes, Leave
<1>23. ASSUME FailureReported(r) PROVE Advances(r) /\ UNCHANGED stop
  BY <1>23 DEF FailureReported, Goes, Leave
<1>24. ASSUME MonitorSettles(r) PROVE Advances(r) /\ UNCHANGED stop
  BY <1>24, SMTT(30) DEF MonitorSettles, Goes
<1> QED
  BY <1>1, <1>2, <1>3, <1>4, <1>5, <1>6, <1>7, <1>8, <1>9, <1>10, <1>11, <1>12, <1>13, <1>14,
     <1>15, <1>16, <1>17, <1>18, <1>19, <1>20, <1>21, <1>22, <1>23, <1>24 DEF Turn

LEMMA SiteTyped == ASSUME Typed, [Next]_vars PROVE SiteTypeOK'
<1> USE NativeAssumption, ConstantTypes DEF Typed, TypeOK, SiteTypeOK, site, composer, Given
<1>1. ASSUME NEW c \in Chat, Move(c) PROVE SiteTypeOK'
  BY <1>1 DEF Move, Relocate, Event
<1>2. ASSUME NEW c \in Chat, Rename(c) PROVE SiteTypeOK'
  BY <1>2 DEF Rename, Relocate
<1>3. ASSUME NEW c \in Chat, ShowStop(c) PROVE SiteTypeOK'
  BY <1>3 DEF ShowStop
<1>4. ASSUME NEW c \in Chat, EndGeneration(c) PROVE SiteTypeOK'
  BY <1>4 DEF EndGeneration
<1>5. ASSUME PersonPrompts PROVE SiteTypeOK'
  BY <1>5 DEF PersonPrompts, Event
<1>6. ASSUME PersonDrafts PROVE SiteTypeOK'
  BY <1>6 DEF PersonDrafts, Event
<1>7. ASSUME PersonAttaches PROVE SiteTypeOK'
  <2>1. files' = files \cup {Person} /\ UNCHANGED <<route, gen, stands, done, text, blocked>>
    BY <1>7 DEF PersonAttaches
  <2>2. events' \in 0..MaxEvents
    BY <1>7 DEF PersonAttaches, Event
  <2>3. files' \subseteq Request \cup {Person}
    BY <2>1
  <2> QED
    BY <2>1, <2>2, <2>3
<1>8. ASSUME NEW r \in Request, Stage(r) PROVE SiteTypeOK'
  BY <1>8 DEF Stage
<1>9. ASSUME NEW r \in Request, Type(r) PROVE SiteTypeOK'
  BY <1>9 DEF Type
<1>10. ASSUME NEW r \in Request, Submit(r) PROVE SiteTypeOK'
  BY <1>10 DEF Submit, MaySubmit, Bound
<1>11. ASSUME NEW r \in Request, FailBefore(r) PROVE SiteTypeOK'
  BY <1>11 DEF FailBefore
<1>12. ASSUME NEW r \in Request, CleanupEnds(r) PROVE SiteTypeOK'
  BY <1>12 DEF CleanupEnds
<1>13. ASSUME UNCHANGED <<site, composer, events>> PROVE SiteTypeOK'
  BY <1>13
<1>14. ASSUME NEW r \in Request,
          Register(r) \/ AdmitTransition(r)
      PROVE UNCHANGED <<site, composer, events>>
  BY <1>14 DEF Register, AdmitTransition
<1>15. ASSUME NEW x \in Halt, NEW recall \in BOOLEAN,
          StopArrives(x, recall)
      PROVE UNCHANGED <<site, composer, events>>
  BY <1>15 DEF StopArrives
<1>16. ASSUME NEW x \in Halt,
          StopConfirmed(x) \/ StopUnconfirmed(x)
      PROVE UNCHANGED <<site, composer, events>>
  BY <1>16 DEF StopConfirmed, StopUnconfirmed
<1>17. ASSUME NEW k \in Job,
          Clicks(k)
      PROVE UNCHANGED <<site, composer, events>>
  BY <1>17 DEF Clicks
<1>18. ASSUME NEW r \in Request,
          Arrive(r) \/ Admit(r) \/ RefuseVerdict(r) \/ Inspect(r) \/ AskTransition(r)
          \/ TransitionAdmitted(r) \/ PromptSeen(r) \/ See(r) \/ SubmitFaults(r) \/ SubmitStopped(r)
          \/ SubmitUnknown(r) \/ CaptureCancelled(r) \/ CaptureComplete(r) \/ CaptureFaults(r)
          \/ CaptureGivesUp(r) \/ AnswerTaken(r) \/ AnswerRefused(r) \/ FailureReported(r)
          \/ MonitorSettles(r)
      PROVE UNCHANGED <<site, composer, events>>
  BY <1>18 DEF Arrive, Admit, RefuseVerdict, Inspect, AskTransition, TransitionAdmitted,
     PromptSeen, See, SubmitFaults, SubmitStopped, SubmitUnknown, CaptureCancelled,
     CaptureComplete, CaptureFaults, CaptureGivesUp, AnswerTaken, AnswerRefused,
     FailureReported, MonitorSettles
<1>19. UNCHANGED vars => UNCHANGED <<site, composer, events>>
  BY DEF vars
<1> QED
  BY <1>1, <1>2, <1>3, <1>4, <1>5, <1>6, <1>7, <1>8, <1>9, <1>10, <1>11, <1>12, <1>13, <1>14,
     <1>15, <1>16, <1>17, <1>18, <1>19 DEF Next, Site, Background, Turn, Interrupt

LEMMA ScriptTyped == ASSUME Typed, [Next]_vars PROVE ScriptTypeOK'
<1> USE ConstantTypes DEF Typed, TypeOK, PlacesInv, ScriptTypeOK, Job
<1>1. ASSUME NEW r \in Request, Arrive(r) PROVE ScriptTypeOK'
  BY <1>1 DEF Arrive, lease
<1>2. ASSUME NEW r \in Request, Admit(r) PROVE ScriptTypeOK'
  BY <1>2 DEF Admit, lease
<1>3. ASSUME NEW r \in Request, FailBefore(r) PROVE ScriptTypeOK'
  BY <1>3 DEF FailBefore, Leave, Teardown, Refuse, script, lease, worker
<1>4. ASSUME NEW r \in Request, CleanupEnds(r) PROVE ScriptTypeOK'
  BY <1>4 DEF CleanupEnds, Leave, Teardown, Refuse, script, lease, worker
<1>5. ASSUME NEW r \in Request, SubmitFaults(r) PROVE ScriptTypeOK'
  BY <1>5 DEF SubmitFaults, Hold
<1>6. ASSUME NEW r \in Request, SubmitStopped(r) PROVE ScriptTypeOK'
  BY <1>6 DEF SubmitStopped
<1>7. ASSUME NEW r \in Request, SubmitUnknown(r) PROVE ScriptTypeOK'
  BY <1>7 DEF SubmitUnknown, Release
<1>8. ASSUME NEW r \in Request, CaptureCancelled(r) PROVE ScriptTypeOK'
  BY <1>8 DEF CaptureCancelled, Leave, Teardown, Refuse, script, lease, worker
<1>9. ASSUME NEW r \in Request, CaptureComplete(r) PROVE ScriptTypeOK'
  BY <1>9 DEF CaptureComplete, script, lease
<1>10. ASSUME NEW r \in Request, CaptureFaults(r) PROVE ScriptTypeOK'
  BY <1>10 DEF CaptureFaults, Hold
<1>11. ASSUME NEW r \in Request, CaptureGivesUp(r) PROVE ScriptTypeOK'
  BY <1>11 DEF CaptureGivesUp, Release
<1>12. ASSUME NEW r \in Request, AnswerTaken(r) PROVE ScriptTypeOK'
  BY <1>12 DEF AnswerTaken, Leave, Teardown, Refuse, script, lease, worker
<1>13. ASSUME NEW r \in Request, AnswerRefused(r) PROVE ScriptTypeOK'
  BY <1>13 DEF AnswerRefused, Leave, Teardown, Refuse, script, lease, worker
<1>14. ASSUME NEW r \in Request, FailureReported(r) PROVE ScriptTypeOK'
  BY <1>14 DEF FailureReported, Leave, Teardown, Refuse, script, lease, worker
<1>15. ASSUME NEW r \in Request, MonitorSettles(r) PROVE ScriptTypeOK'
  BY <1>15 DEF MonitorSettles, Leave, Teardown, Refuse, script, lease, worker
<1>16. ASSUME NEW x \in Halt, NEW recall \in BOOLEAN, StopArrives(x, recall) PROVE ScriptTypeOK'
  <2>1. PICK r \in holds : StopArrives(x, recall)!(r)
    BY <1>16 DEF StopArrives
  <2>2. r \in Request /\ x \in Job /\ UNCHANGED <<active, held>>
    BY <2>1 DEF WorkerTypeOK
  <2>3. Hold(x, r) \/ UNCHANGED <<lease, conf, forgot>>
    BY <2>1
  <2>4. Hold(x, r) \/ cancelled' = cancelled \/ cancelled' = cancelled \cup {r}
    BY <2>1
  <2> QED
    BY <2>2, <2>3, <2>4 DEF Hold, lease
<1>17. ASSUME NEW x \in Halt, StopConfirmed(x) PROVE ScriptTypeOK'
  BY <1>17 DEF StopConfirmed, Release
<1>18. ASSUME NEW x \in Halt, StopUnconfirmed(x) PROVE ScriptTypeOK'
  BY <1>18 DEF StopUnconfirmed, Release
<1>19. ASSUME NEW k \in Job, Clicks(k) PROVE ScriptTypeOK'
  BY <1>19 DEF Clicks, script, lease
<1>20. ASSUME UNCHANGED <<script, lease, held, conf>> PROVE ScriptTypeOK'
  BY <1>20 DEF script, lease
<1>21. ASSUME NEW c \in Chat,
          Move(c) \/ Rename(c) \/ ShowStop(c) \/ EndGeneration(c)
      PROVE  UNCHANGED <<script, lease, held, conf>>
  BY <1>21 DEF Move, Rename, ShowStop, EndGeneration
<1>22. ASSUME PersonPrompts \/ PersonDrafts \/ PersonAttaches
      PROVE  UNCHANGED <<script, lease, held, conf>>
  BY <1>22 DEF PersonPrompts, PersonDrafts, PersonAttaches
<1>23. ASSUME NEW r \in Request,
          Register(r) \/ AdmitTransition(r) \/ RefuseVerdict(r) \/ Inspect(r) \/ Stage(r)
          \/ Type(r) \/ Submit(r) \/ AskTransition(r) \/ TransitionAdmitted(r) \/ PromptSeen(r)
          \/ See(r)
      PROVE  UNCHANGED <<script, lease, held, conf>>
    BY <1>23 DEF Register, AdmitTransition, RefuseVerdict, Inspect, Stage, Type, Submit,
     AskTransition, TransitionAdmitted, PromptSeen, See
<1>24. UNCHANGED vars => UNCHANGED <<script, lease, held, conf>>
  BY DEF vars
<1> QED
    BY <1>1, <1>2, <1>3, <1>4, <1>5, <1>6, <1>7, <1>8, <1>9, <1>10, <1>11, <1>12, <1>13, <1>14,
     <1>15, <1>16, <1>17, <1>18, <1>19, <1>20, <1>21, <1>22, <1>23, <1>24 DEF Next, Site, Background,
     Turn, Interrupt

\* What the steps that are not a turn's do to the requests and the Stops.
LEMMA RegisterSends == ASSUME Typed, NEW r \in Request, Register(r)
                       PROVE  /\ send' \in [Request -> SendType] /\ Others(r) /\ UNCHANGED stop
                              /\ send[r].at = "idle" /\ send'[r].at = "sent" /\ send'[r].conv \in Chat
<1>1. /\ send' = [send EXCEPT ![r].at = "sent", ![r].conv = route] /\ UNCHANGED stop
      /\ send[r].at = "idle" /\ route \in Chat
  BY DEF Register, Typed, TypeOK, SiteTypeOK
<1>2. send \in [Request -> SendType]
  BY DEF Typed, TypeOK, JobsTypeOK, SendType
<1>3. send'[r] = [send[r] EXCEPT !.at = "sent", !.conv = route]
  BY <1>1, <1>2
<1>4. send'[r] \in SendType /\ send'[r].at = "sent" /\ send'[r].conv = route
  BY <1>1, <1>2, <1>3 DEF SendType, SendAt
<1>5. Others(r)
  BY <1>1, <1>2 DEF Others
<1> QED
  BY <1>1, <1>2, <1>4, <1>5

\* The request a Stop is for, and where the Stop stands afterwards.
LEMMA StopTakes ==
    ASSUME Typed, NEW x \in Halt, NEW recall \in BOOLEAN, StopArrives(x, recall)
    PROVE  \E r \in holds :
             /\ r \in Request /\ named[r] \in Chat /\ stop[x].at = "idle"
             /\ stop'[x].id = r /\ stop'[x].conv = named[r]
             /\ \A y \in Halt \ {x} : stop'[y] = stop[y]
             /\ stop' \in [Halt -> [at : StopAt, id : Request \cup {None},
                                    conv : Chat \cup {None}]]
             /\ \/ stop'[x].at = "confirming" /\ Hold(x, r)
                \/ stop'[x].at = "over" /\ UNCHANGED <<lease, conf, forgot>>
             /\ UNCHANGED <<active, send, named, stands, strayed, misled>>
             /\ holds' \subseteq holds /\ told' \subseteq told \cup {r}
<1>1. PICK r \in holds : StopArrives(x, recall)!(r)
  BY DEF StopArrives
<1>2. r \in Request /\ named[r] \in Chat
  BY DEF Typed, TypeOK, WorkerTypeOK, PlacesInv
<1>3. \E at \in {"confirming", "over"} :
        /\ stop' = [stop EXCEPT ![x] = [at |-> at, id |-> r, conv |-> named[r]]]
        /\ IF at = "confirming" THEN Hold(x, r) ELSE UNCHANGED <<lease, conf, forgot>>
  BY <1>1
<1>4. /\ stop[x].at = "idle" /\ UNCHANGED <<active, send, named, stands, strayed, misled>>
      /\ holds' \subseteq holds /\ told' \subseteq told \cup {r}
  BY <1>1 DEF site
<1>5. stop \in [Halt -> [at : StopAt, id : Request \cup {None}, conv : Chat \cup {None}]]
  BY DEF Typed, TypeOK, JobsTypeOK
<1>6. {"confirming", "over"} \subseteq StopAt
  BY DEF StopAt
<1> QED
  BY <1>2, <1>3, <1>4, <1>5, <1>6

LEMMA StopGoesOver ==
    ASSUME Typed, NEW x \in Halt, StopConfirmed(x) \/ StopUnconfirmed(x)
    PROVE  /\ stop[x].at = "confirming" /\ stop'[x].at \in {"over", "late"}
           /\ stop'[x].id = stop[x].id /\ stop'[x].conv = stop[x].conv
           /\ \A y \in Halt \ {x} : stop'[y] = stop[y]
           /\ stop' \in [Halt -> [at : StopAt, id : Request \cup {None},
                                  conv : Chat \cup {None}]]
<1>1. \E at \in {"over", "late"} : stop' = [stop EXCEPT ![x].at = at] /\ stop[x].at = "confirming"
  BY DEF StopConfirmed, StopUnconfirmed
<1> QED
  BY <1>1 DEF Typed, TypeOK, JobsTypeOK, StopAt

LEMMA JobsTyped == ASSUME Typed, [Next]_vars PROVE JobsTypeOK'
<1> USE DEF Typed, TypeOK, JobsTypeOK, SendType
<1>1. ASSUME NEW r \in Request, Turn(r) PROVE JobsTypeOK'
  BY <1>1, TurnAdvances DEF Advances
<1>2. ASSUME NEW r \in Request, Register(r) PROVE JobsTypeOK'
  BY <1>2, RegisterSends
<1>3. ASSUME NEW x \in Halt, NEW recall \in BOOLEAN, StopArrives(x, recall) PROVE JobsTypeOK'
  BY <1>3, StopTakes
<1>4. ASSUME NEW x \in Halt, Interrupt(x) PROVE JobsTypeOK'
  <2>1. UNCHANGED send
    BY <1>4 DEF Interrupt, StopConfirmed, StopUnconfirmed
  <2> QED
    BY <1>4, <2>1, StopGoesOver DEF Interrupt
<1>5. ASSUME UNCHANGED <<send, stop>> PROVE JobsTypeOK'
  BY <1>5
<1>6. Site => UNCHANGED <<send, stop>>
  BY DEF Site, Move, Rename, ShowStop, EndGeneration, PersonPrompts, PersonDrafts, PersonAttaches
<1>7. ASSUME NEW r \in Request, AdmitTransition(r) PROVE UNCHANGED <<send, stop>>
  BY <1>7 DEF AdmitTransition
<1>8. ASSUME NEW k \in Job, Clicks(k) PROVE UNCHANGED <<send, stop>>
  BY <1>8 DEF Clicks
<1>9. UNCHANGED vars => UNCHANGED <<send, stop>>
  BY DEF vars
<1> QED
  BY <1>1, <1>2, <1>3, <1>4, <1>5, <1>6, <1>7, <1>8, <1>9 DEF Next, Background

LEMMA WorkerTyped == ASSUME Typed, [Next]_vars PROVE WorkerTypeOK'
<1> USE ConstantTypes DEF Typed, TypeOK, PlacesInv, WorkerTypeOK
<1>1. ASSUME NEW r \in Request, Register(r) PROVE WorkerTypeOK'
  BY <1>1 DEF Register, book, SiteTypeOK
<1>2. ASSUME NEW r \in Request, AdmitTransition(r) PROVE WorkerTypeOK'
  BY <1>2 DEF AdmitTransition, book, SiteTypeOK
<1>3. ASSUME NEW r \in Request, Arrive(r) PROVE WorkerTypeOK'
  BY <1>3 DEF Arrive, Refuse, worker, book
<1>4. ASSUME NEW r \in Request, RefuseVerdict(r) PROVE WorkerTypeOK'
  BY <1>4 DEF RefuseVerdict, Refuse, worker, book
<1>5. ASSUME NEW r \in Request, FailBefore(r) PROVE WorkerTypeOK'
  BY <1>5 DEF FailBefore, Leave, worker, book
<1>6. ASSUME NEW r \in Request, CleanupEnds(r) PROVE WorkerTypeOK'
  BY <1>6 DEF CleanupEnds, Leave, worker, book
<1>7. ASSUME NEW r \in Request, TransitionAdmitted(r) PROVE WorkerTypeOK'
  BY <1>7 DEF TransitionAdmitted, worker
<1>8. ASSUME NEW r \in Request, SubmitFaults(r) PROVE WorkerTypeOK'
  BY <1>8 DEF SubmitFaults, Hold, worker
<1>9. ASSUME NEW r \in Request, SubmitStopped(r) PROVE WorkerTypeOK'
  BY <1>9 DEF SubmitStopped, Refuse, book
<1>10. ASSUME NEW r \in Request, SubmitUnknown(r) PROVE WorkerTypeOK'
  BY <1>10 DEF SubmitUnknown, book
<1>11. ASSUME NEW r \in Request, See(r) PROVE WorkerTypeOK'
  BY <1>11 DEF See, worker
<1>12. ASSUME NEW r \in Request, CaptureFaults(r) PROVE WorkerTypeOK'
  BY <1>12 DEF CaptureFaults, Hold, worker
<1>13. ASSUME NEW r \in Request, AnswerTaken(r) PROVE WorkerTypeOK'
  BY <1>13 DEF AnswerTaken, Leave, worker, book
<1>14. ASSUME NEW r \in Request, AnswerRefused(r) PROVE WorkerTypeOK'
  BY <1>14 DEF AnswerRefused, Leave, worker, book
<1>15. ASSUME NEW r \in Request, FailureReported(r) PROVE WorkerTypeOK'
  BY <1>15 DEF FailureReported, Leave, worker, book
<1>16. ASSUME NEW r \in Request, MonitorSettles(r) PROVE WorkerTypeOK'
  BY <1>16 DEF MonitorSettles, worker
<1>17. ASSUME NEW x \in Halt, NEW recall \in BOOLEAN, StopArrives(x, recall) PROVE WorkerTypeOK'
  <2>1. PICK r \in holds :
           /\ Hold(x, r) \/ UNCHANGED <<lease, conf, forgot>>
           /\ UNCHANGED <<active, send, named, stands, strayed, misled>>
           /\ holds' \subseteq holds /\ told' \subseteq told \cup {r}
    BY <1>17, StopTakes
  <2> QED
    BY <2>1 DEF Hold
<1>18. ASSUME NEW x \in Halt, StopConfirmed(x) PROVE WorkerTypeOK'
  BY <1>18 DEF StopConfirmed
<1>19. ASSUME UNCHANGED <<worker, book>> PROVE WorkerTypeOK'
  BY <1>19 DEF worker, book
<1>20. ASSUME NEW c \in Chat,
          Move(c) \/ Rename(c) \/ ShowStop(c) \/ EndGeneration(c)
      PROVE  UNCHANGED <<worker, book>>
  BY <1>20 DEF Move, Rename, ShowStop, EndGeneration
<1>21. ASSUME PersonPrompts \/ PersonDrafts \/ PersonAttaches
      PROVE  UNCHANGED <<worker, book>>
  BY <1>21 DEF PersonPrompts, PersonDrafts, PersonAttaches
<1>22. ASSUME NEW x \in Halt,
          StopUnconfirmed(x)
      PROVE  UNCHANGED <<worker, book>>
  BY <1>22 DEF StopUnconfirmed
<1>23. ASSUME NEW k \in Job,
          Clicks(k)
      PROVE  UNCHANGED <<worker, book>>
  BY <1>23 DEF Clicks
<1>24. ASSUME NEW r \in Request,
          Admit(r) \/ Inspect(r) \/ Stage(r) \/ Type(r) \/ Submit(r) \/ AskTransition(r)
          \/ PromptSeen(r) \/ CaptureCancelled(r) \/ CaptureComplete(r) \/ CaptureGivesUp(r)
      PROVE  UNCHANGED <<worker, book>>
    BY <1>24 DEF Admit, Inspect, Stage, Type, Submit, AskTransition, PromptSeen, CaptureCancelled,
     CaptureComplete, CaptureGivesUp
<1>25. UNCHANGED vars => UNCHANGED <<worker, book>>
  BY DEF vars
<1> QED
    BY <1>1, <1>2, <1>3, <1>4, <1>5, <1>6, <1>7, <1>8, <1>9, <1>10, <1>11, <1>12, <1>13, <1>14,
     <1>15, <1>16, <1>17, <1>18, <1>19, <1>20, <1>21, <1>22, <1>23, <1>24, <1>25 DEF Next, Site,
     Background, Turn, Interrupt

\* Where the worker has its requests.
LEMMA HoldsHaveNames == ASSUME Typed, [Next]_vars PROVE \A r \in holds' : named'[r] \in Chat
<1> USE DEF Typed, TypeOK, PlacesInv, WorkerTypeOK
<1>1. ASSUME NEW r \in Request, Register(r) PROVE \A q \in holds' : named'[q] \in Chat
  BY <1>1 DEF Register, SiteTypeOK
<1>2. ASSUME NEW r \in Request, AdmitTransition(r) PROVE \A q \in holds' : named'[q] \in Chat
  BY <1>2 DEF AdmitTransition, SiteTypeOK
<1>3. ASSUME NEW x \in Halt, NEW recall \in BOOLEAN, StopArrives(x, recall)
      PROVE  \A q \in holds' : named'[q] \in Chat
  BY <1>3, StopTakes
<1>4. ASSUME NEW x \in Halt, StopConfirmed(x) PROVE \A q \in holds' : named'[q] \in Chat
  BY <1>4 DEF StopConfirmed, worker
<1>5. ASSUME NEW r \in Request, Arrive(r) PROVE \A q \in holds' : named'[q] \in Chat
  BY <1>5 DEF Arrive, Refuse, worker
<1>6. ASSUME NEW r \in Request, RefuseVerdict(r) PROVE \A q \in holds' : named'[q] \in Chat
  BY <1>6 DEF RefuseVerdict, Refuse, worker
<1>7. ASSUME NEW r \in Request, FailBefore(r) PROVE \A q \in holds' : named'[q] \in Chat
  BY <1>7 DEF FailBefore, Leave, worker
<1>8. ASSUME NEW r \in Request, CleanupEnds(r) PROVE \A q \in holds' : named'[q] \in Chat
  BY <1>8 DEF CleanupEnds, Leave, worker
<1>9. ASSUME NEW r \in Request, SubmitStopped(r) PROVE \A q \in holds' : named'[q] \in Chat
  BY <1>9 DEF SubmitStopped, Refuse, worker
<1>10. ASSUME NEW r \in Request, SubmitUnknown(r) PROVE \A q \in holds' : named'[q] \in Chat
  BY <1>10 DEF SubmitUnknown, worker
<1>11. ASSUME NEW r \in Request, AnswerTaken(r) PROVE \A q \in holds' : named'[q] \in Chat
  BY <1>11 DEF AnswerTaken, Leave, worker
<1>12. ASSUME NEW r \in Request, AnswerRefused(r) PROVE \A q \in holds' : named'[q] \in Chat
  BY <1>12 DEF AnswerRefused, Leave, worker
<1>13. ASSUME NEW r \in Request, FailureReported(r) PROVE \A q \in holds' : named'[q] \in Chat
  BY <1>13 DEF FailureReported, Leave, worker
<1>14. ASSUME UNCHANGED worker PROVE \A q \in holds' : named'[q] \in Chat
  BY <1>14 DEF worker
<1>15. ASSUME NEW c \in Chat,
          Move(c) \/ Rename(c) \/ ShowStop(c) \/ EndGeneration(c)
      PROVE  UNCHANGED worker
  BY <1>15 DEF Move, Rename, ShowStop, EndGeneration
<1>16. ASSUME PersonPrompts \/ PersonDrafts \/ PersonAttaches
      PROVE  UNCHANGED worker
  BY <1>16 DEF PersonPrompts, PersonDrafts, PersonAttaches
<1>17. ASSUME NEW x \in Halt,
          StopUnconfirmed(x)
      PROVE  UNCHANGED worker
  BY <1>17 DEF StopUnconfirmed
<1>18. ASSUME NEW k \in Job,
          Clicks(k)
      PROVE  UNCHANGED worker
  BY <1>18 DEF Clicks
<1>19. ASSUME NEW r \in Request,
          Admit(r) \/ Inspect(r) \/ Stage(r) \/ Type(r) \/ Submit(r) \/ AskTransition(r)
          \/ TransitionAdmitted(r) \/ PromptSeen(r) \/ See(r) \/ SubmitFaults(r)
          \/ CaptureCancelled(r) \/ CaptureComplete(r) \/ CaptureFaults(r) \/ CaptureGivesUp(r)
          \/ MonitorSettles(r)
      PROVE  UNCHANGED worker
    BY <1>19 DEF Admit, Inspect, Stage, Type, Submit, AskTransition, TransitionAdmitted,
     PromptSeen, See, SubmitFaults, CaptureCancelled, CaptureComplete, CaptureFaults, CaptureGivesUp,
     MonitorSettles
<1>20. UNCHANGED vars => UNCHANGED worker
  BY DEF vars
<1> QED
    BY <1>1, <1>2, <1>3, <1>4, <1>5, <1>6, <1>7, <1>8, <1>9, <1>10, <1>11, <1>12, <1>13, <1>14,
     <1>15, <1>16, <1>17, <1>18, <1>19, <1>20 DEF Next, Site, Background, Turn, Interrupt

LEMMA StopsHaveTargets == ASSUME Typed, [Next]_vars
                          PROVE  \A x \in Halt : stop'[x].at = "confirming" => stop'[x].id \in Request /\ stop'[x].conv \in Chat
<1> DEFINE Goal == \A x \in Halt : stop'[x].at = "confirming" => stop'[x].id \in Request /\ stop'[x].conv \in Chat
<1> USE DEF Typed, PlacesInv
<1>1. ASSUME NEW r \in Request, Turn(r) PROVE UNCHANGED stop
  BY <1>1, TurnAdvances
<1>2. ASSUME NEW r \in Request, Register(r) \/ AdmitTransition(r) PROVE UNCHANGED stop
  BY <1>2 DEF Register, AdmitTransition
<1>3. ASSUME NEW x \in Halt, NEW recall \in BOOLEAN, StopArrives(x, recall) PROVE Goal
  BY <1>3, StopTakes
<1>4. ASSUME NEW x \in Halt, Interrupt(x) PROVE Goal
  BY <1>4, StopGoesOver DEF Interrupt
<1>5. Site => UNCHANGED stop
  BY DEF Site, Move, Rename, ShowStop, EndGeneration, PersonPrompts, PersonDrafts, PersonAttaches
<1>6. ASSUME NEW k \in Job, Clicks(k) PROVE UNCHANGED stop
  BY <1>6 DEF Clicks
<1>7. UNCHANGED vars => UNCHANGED stop
  BY DEF vars
<1>8. UNCHANGED stop => Goal
  OBVIOUS
<1> QED
  BY <1>1, <1>2, <1>3, <1>4, <1>5, <1>6, <1>7, <1>8 DEF Next, Background

LEMMA RequestsHavePlaces == ASSUME Typed, [Next]_vars
                            PROVE  \A r \in Request : send'[r].at # "idle" => send'[r].conv \in Chat
<1> DEFINE Goal == \A r \in Request : send'[r].at # "idle" => send'[r].conv \in Chat
<1> USE DEF Typed, PlacesInv
<1>1. ASSUME NEW r \in Request, Turn(r) PROVE Goal
  BY <1>1, TurnAdvances DEF Advances, Others
<1>2. ASSUME NEW r \in Request, Register(r) PROVE Goal
  BY <1>2, RegisterSends DEF Others
<1>3. ASSUME NEW r \in Request, AdmitTransition(r) PROVE UNCHANGED send
  BY <1>3 DEF AdmitTransition
<1>4. ASSUME NEW x \in Halt, NEW recall \in BOOLEAN, Interrupt(x) \/ StopArrives(x, recall)
      PROVE  UNCHANGED send
  BY <1>4 DEF Interrupt, StopArrives, StopConfirmed, StopUnconfirmed
<1>5. Site => UNCHANGED send
  BY DEF Site, Move, Rename, ShowStop, EndGeneration, PersonPrompts, PersonDrafts, PersonAttaches
<1>6. ASSUME NEW k \in Job, Clicks(k) PROVE UNCHANGED send
  BY <1>6 DEF Clicks
<1>7. UNCHANGED vars => UNCHANGED send
  BY DEF vars
<1>8. UNCHANGED send => Goal
  OBVIOUS
<1> QED
  BY <1>1, <1>2, <1>3, <1>4, <1>5, <1>6, <1>7, <1>8 DEF Next, Background

LEMMA StepTyped == ASSUME Typed, [Next]_vars PROVE Typed'
<1>1. TypeOK'
  BY SiteTyped, ScriptTyped, JobsTyped, WorkerTyped DEF TypeOK
<1>2. PlacesInv'
  BY RequestsHavePlaces, StopsHaveTargets, HoldsHaveNames DEF PlacesInv
<1> QED
  BY <1>1, <1>2 DEF Typed

----------------------------------------------------------------------------
(* A prompt stands nowhere before its click                                   *)

LEMMA NeverBack == ASSUME Typed, [Next]_vars
                   PROVE  \A q \in Request : send'[q].at \in Unsent => send[q].at \in Unsent
<1> DEFINE Goal == \A q \in Request : send'[q].at \in Unsent => send[q].at \in Unsent
<1>1. ASSUME NEW r \in Request, Turn(r) PROVE Goal
  BY <1>1, TurnAdvances DEF Advances, Others
<1>2. ASSUME NEW r \in Request, Register(r) PROVE Goal
  BY <1>2, RegisterSends DEF Others, Unsent, Early
<1>3. ASSUME NEW r \in Request, AdmitTransition(r) PROVE UNCHANGED send
  BY <1>3 DEF AdmitTransition
<1>4. ASSUME NEW x \in Halt, NEW recall \in BOOLEAN, Interrupt(x) \/ StopArrives(x, recall)
      PROVE  UNCHANGED send
  BY <1>4 DEF Interrupt, StopArrives, StopConfirmed, StopUnconfirmed
<1>5. Site => UNCHANGED send
  BY DEF Site, Move, Rename, ShowStop, EndGeneration, PersonPrompts, PersonDrafts, PersonAttaches
<1>6. ASSUME NEW k \in Job, Clicks(k) PROVE UNCHANGED send
  BY <1>6 DEF Clicks
<1>7. UNCHANGED vars => UNCHANGED send
  BY DEF vars
<1>8. UNCHANGED send => Goal
  OBVIOUS
<1> QED
  BY <1>1, <1>2, <1>3, <1>4, <1>5, <1>6, <1>7, <1>8 DEF Next, Background

LEMMA OnlySubmitPlaces == ASSUME Typed, [Next]_vars
                          PROVE  \A q \in Request : stands[q] = None => stands'[q] = None \/ Submit(q)
<1> USE ConstantTypes DEF Typed, TypeOK, SiteTypeOK, site
<1>1. ASSUME NEW c \in Chat, Move(c)
      PROVE  \A q \in Request : stands[q] = None => stands'[q] = None \/ Submit(q)
  BY <1>1 DEF Move, Relocate
<1>2. ASSUME NEW c \in Chat, Rename(c)
      PROVE  \A q \in Request : stands[q] = None => stands'[q] = None \/ Submit(q)
  BY <1>2 DEF Rename, Relocate
<1>3. ASSUME NEW r \in Request, Submit(r)
      PROVE  \A q \in Request : stands[q] = None => stands'[q] = None \/ Submit(q)
  BY <1>3 DEF Submit
<1>4. ASSUME UNCHANGED stands
      PROVE  \A q \in Request : stands[q] = None => stands'[q] = None \/ Submit(q)
  BY <1>4
<1>5. ASSUME NEW c \in Chat,
          ShowStop(c) \/ EndGeneration(c)
      PROVE  UNCHANGED stands
  BY <1>5 DEF ShowStop, EndGeneration
<1>6. ASSUME PersonPrompts \/ PersonDrafts \/ PersonAttaches
      PROVE  UNCHANGED stands
  BY <1>6 DEF PersonPrompts, PersonDrafts, PersonAttaches
<1>7. ASSUME NEW r \in Request,
          Register(r) \/ AdmitTransition(r) \/ Arrive(r) \/ Admit(r) \/ RefuseVerdict(r)
          \/ Inspect(r) \/ Stage(r) \/ Type(r) \/ FailBefore(r) \/ CleanupEnds(r)
          \/ AskTransition(r) \/ TransitionAdmitted(r) \/ PromptSeen(r) \/ See(r)
          \/ SubmitFaults(r) \/ SubmitStopped(r) \/ SubmitUnknown(r) \/ CaptureCancelled(r)
          \/ CaptureComplete(r) \/ CaptureFaults(r) \/ CaptureGivesUp(r) \/ AnswerTaken(r)
          \/ AnswerRefused(r) \/ FailureReported(r) \/ MonitorSettles(r)
      PROVE  UNCHANGED stands
    BY <1>7 DEF Register, AdmitTransition, Arrive, Admit, RefuseVerdict, Inspect, Stage, Type,
     FailBefore, CleanupEnds, AskTransition, TransitionAdmitted, PromptSeen, See, SubmitFaults,
     SubmitStopped, SubmitUnknown, CaptureCancelled, CaptureComplete, CaptureFaults, CaptureGivesUp,
     AnswerTaken, AnswerRefused, FailureReported, MonitorSettles
<1>8. ASSUME NEW x \in Halt, NEW recall \in BOOLEAN,
          StopArrives(x, recall)
      PROVE  UNCHANGED stands
  BY <1>8 DEF StopArrives
<1>9. ASSUME NEW x \in Halt,
          StopConfirmed(x) \/ StopUnconfirmed(x)
      PROVE  UNCHANGED stands
  BY <1>9 DEF StopConfirmed, StopUnconfirmed
<1>10. ASSUME NEW k \in Job,
          Clicks(k)
      PROVE  UNCHANGED stands
  BY <1>10 DEF Clicks
<1>11. UNCHANGED vars => UNCHANGED stands
  BY DEF vars
<1> QED
    BY <1>1, <1>2, <1>3, <1>4, <1>5, <1>6, <1>7, <1>8, <1>9, <1>10, <1>11 DEF Next, Site,
     Background, Turn, Interrupt

LEMMA UnsentStep == ASSUME Typed, UnsentInv, [Next]_vars PROVE UnsentInv'
<1> SUFFICES ASSUME NEW q \in Request, send'[q].at \in Unsent PROVE stands'[q] = None
  BY DEF UnsentInv
<1>1. stands[q] = None
  BY NeverBack DEF UnsentInv
<1>2. ~Submit(q)
  <2>1. SUFFICES ASSUME Submit(q) PROVE FALSE
    OBVIOUS
  <2>2. send'[q].at = "clicked"
    BY <2>1 DEF Submit, Goes, Typed, TypeOK, JobsTypeOK
  <2> QED
    BY <2>2 DEF Unsent, Early
<1> QED
  BY <1>1, <1>2, OnlySubmitPlaces

----------------------------------------------------------------------------
(* The lease                                                                  *)

Freed == Typed /\ LeaseInv /\ ActiveInv /\ PageIsFreed

\* The active turn's job goes on.
ActiveGoesOn == active # None => /\ send'[active].at \notin Early
                                 /\ send'[active].at = "ended" => send[active].at = "ended"

\* All interrupts but those of K stay where they are and with the turn they are about.
OthersGoOn(K) == \A j \in Job \ K : /\ conf'[j] = "none" <=> conf[j] = "none"
                                    /\ conf[j] # "none" => Interrupts(j)' = Interrupts(j)
                                    /\ conf[j] # "none" /\ j \in Halt => stop'[j].at = "confirming"

LEMMA QuietFrees ==
    ASSUME Freed, ActiveGoesOn, OthersGoOn({}), UNCHANGED <<active, lease, forgot>>
    PROVE  LeaseInv' /\ ActiveInv' /\ PageIsFreed'
<1> USE DEF Freed, lease
<1>1. \A r : Confirming(r) => Confirming(r)'
  BY DEF Confirming, OthersGoOn
<1>2. LeaseInv'
  BY <1>1 DEF LeaseInv, OthersGoOn, Job
<1>3. ActiveInv'
  BY DEF ActiveInv, ActiveGoesOn
<1>4. PageIsFreed'
  BY <1>1 DEF PageIsFreed, ActiveGoesOn
<1> QED
  BY <1>2, <1>3, <1>4

LEMMA TeardownFrees ==
    ASSUME Freed, NEW r \in Request, Teardown(r), Others(r), send'[r].at \notin Early,
           OthersGoOn({}), UNCHANGED forgot
    PROVE  LeaseInv' /\ ActiveInv' /\ PageIsFreed'
<1> USE DEF Freed
<1>1. \A q : Confirming(q) => Confirming(q)'
  BY DEF Confirming, OthersGoOn
<1>2. LeaseInv'
  <2>1. holding' = holding
    BY DEF Teardown, lease
  <2> QED
    BY <1>1, <2>1 DEF LeaseInv, OthersGoOn, Job
<1>3. active \in Request \cup {None}
  BY DEF Typed, TypeOK, ScriptTypeOK
<1>4. active' \in {active, None} /\ (active = r /\ r \notin holding => active' = None)
  BY DEF Teardown, script
<1>5. ActiveInv'
  BY <1>3, <1>4 DEF ActiveInv, Others
<1>6. owed \subseteq owed' /\ (r \in holding => r \in owed')
  BY DEF Teardown, lease
<1>7. PageIsFreed'
  <2> SUFFICES ASSUME active' # None
               PROVE  send'[active].at # "ended" \/ (active \in owed' /\ Confirming(active)') \/ active \in forgot
    BY <1>4 DEF PageIsFreed
  <2>1. CASE active = r
    BY <1>1, <1>4, <1>6, <2>1 DEF LeaseInv
  <2>2. CASE active # r
    <3>1. active' = active /\ active \in Request \ {r}
      BY <1>3, <1>4, <2>2
    <3>2. send'[active] = send[active]
      BY <3>1 DEF Others
    <3>3. send[active].at # "ended" \/ (active \in owed /\ Confirming(active)) \/ active \in forgot
      BY <3>1, ConstantTypes DEF PageIsFreed
    <3> QED
      BY <1>1, <1>6, <3>1, <3>2, <3>3
  <2> QED
    BY <2>1, <2>2
<1> QED
  BY <1>2, <1>5, <1>7

\* A new interrupt takes the lease; a teardown it strikes is remembered.
LEMMA HoldFrees ==
    ASSUME Freed, NEW k \in Job, NEW r \in Request, Hold(k, r), Interrupts(k)' = r,
           conf[k] # "none" => Interrupts(k) = r, k \in Halt => stop'[k].at = "confirming",
           OthersGoOn({k}), ActiveGoesOn, UNCHANGED active
    PROVE  LeaseInv' /\ ActiveInv' /\ PageIsFreed'
<1> USE DEF Freed
<1>1. conf'[k] = "seeking"
  BY DEF Hold, Typed, TypeOK, ScriptTypeOK
<1>2. Confirming(r)'
  BY <1>1 DEF Confirming
<1>3. \A q : Confirming(q) => Confirming(q)'
  BY <1>1 DEF Confirming, OthersGoOn
<1>4. LeaseInv'
  <2>1. \A x \in Halt : conf'[x] # "none" => stop'[x].at = "confirming"
    BY DEF LeaseInv, OthersGoOn, Job
  <2>2. \A q \in holding' : Confirming(q)'
    BY <1>2, <1>3 DEF Hold, LeaseInv
  <2> QED
    BY <2>1, <2>2 DEF LeaseInv
<1>5. ActiveInv'
  BY DEF ActiveInv, ActiveGoesOn
<1>6. PageIsFreed'
  BY <1>3 DEF PageIsFreed, ActiveGoesOn, Hold
<1> QED
  BY <1>4, <1>5, <1>6

\* An interrupt lets go and pays what is owed.
LEMMA ReleaseFrees ==
    ASSUME Freed, NEW k \in Job, NEW r \in Request, NEW marks, Release(k, r, marks), Interrupts(k) = r,
           OthersGoOn({k}), ActiveGoesOn, UNCHANGED forgot
    PROVE  LeaseInv' /\ ActiveInv' /\ PageIsFreed'
<1> USE DEF Freed
<1>1. conf'[k] = "none" /\ holding' = holding \ {r} /\ owed' = owed \ {r}
  BY DEF Release, Typed, TypeOK, ScriptTypeOK
<1>2. \A q : Confirming(q) /\ q # r => Confirming(q)'
  BY DEF Confirming, OthersGoOn
<1>3. LeaseInv'
  BY <1>1, <1>2 DEF LeaseInv, OthersGoOn, Job
<1>4. active' \in {active, None} /\ (active' # None => ~(r \in owed /\ active = r))
  BY DEF Release
<1>5. ActiveInv'
  BY <1>4 DEF ActiveInv, ActiveGoesOn
<1>6. PageIsFreed'
  BY <1>1, <1>2, <1>4 DEF PageIsFreed, ActiveGoesOn
<1> QED
  BY <1>3, <1>5, <1>6

\* Interrupts whose Stop and control stay as they are go on.
LEMMA InterruptsGoOn ==
    ASSUME LeaseInv, NEW K, UNCHANGED stop, \A j \in Job \ K : conf'[j] = conf[j]
    PROVE  OthersGoOn(K) /\ \A j : Interrupts(j)' = Interrupts(j)
BY DEF LeaseInv, OthersGoOn, Interrupts

\* The active turn is past the verdict and goes on, unless this step is its last.
LEMMA TurnGoesOn ==
    ASSUME Freed, NEW r \in Request, Turn(r),
           send[r].at \in Early \/ send'[r].at # "ended"
    PROVE  ActiveGoesOn
<1>1. Advances(r)
  BY TurnAdvances DEF Freed
<1>2. active # None => active \in Request /\ send[active].at \notin Early
  BY DEF Freed, ActiveInv, Typed, TypeOK, ScriptTypeOK
<1>3. CASE active = r
  BY <1>1, <1>2, <1>3 DEF Advances, ActiveGoesOn
<1>4. CASE active # r
  BY <1>1, <1>2, <1>4 DEF Advances, Others, ActiveGoesOn
<1> QED
  BY <1>3, <1>4

LEMMA QuietTurn ==
    ASSUME Freed, NEW r \in Request, Turn(r), UNCHANGED <<active, lease, conf, forgot>>,
           send[r].at \in Early \/ send'[r].at # "ended"
    PROVE  LeaseInv' /\ ActiveInv' /\ PageIsFreed'
<1>1. UNCHANGED stop
  BY TurnAdvances DEF Freed
<1>2. OthersGoOn({})
  BY <1>1, InterruptsGoOn DEF Freed
<1> QED
  BY <1>2, TurnGoesOn, QuietFrees

LEMMA LastStepOfTurn ==
    ASSUME Freed, NEW r \in Request, Turn(r), Teardown(r), UNCHANGED <<conf, forgot>>, send[r].at \notin Early
    PROVE  LeaseInv' /\ ActiveInv' /\ PageIsFreed'
<1>1. UNCHANGED stop /\ Others(r) /\ send'[r].at \notin Early
  BY TurnAdvances DEF Freed, Advances
<1>2. OthersGoOn({})
  BY <1>1, InterruptsGoOn DEF Freed
<1> QED
  BY <1>1, <1>2, TeardownFrees

LEMMA HoldingTurn ==
    ASSUME Freed, NEW r \in Request, Turn(r), Hold(r, r), UNCHANGED active, send'[r].at # "ended"
    PROVE  LeaseInv' /\ ActiveInv' /\ PageIsFreed'
<1>1. UNCHANGED stop /\ r \in Job /\ r \notin Halt
  BY TurnAdvances, ConstantTypes DEF Freed, Job
<1>2. \A j \in Job \ {r} : conf'[j] = conf[j]
  BY DEF Hold, Freed, Typed, TypeOK, ScriptTypeOK
<1>3. OthersGoOn({r}) /\ Interrupts(r)' = r /\ Interrupts(r) = r
  BY <1>1, <1>2, InterruptsGoOn DEF Freed, Interrupts
<1>4. ActiveGoesOn
  BY TurnGoesOn
<1> QED
  BY <1>1, <1>3, <1>4, HoldFrees

LEMMA ReleasingTurn ==
    ASSUME Freed, NEW r \in Request, NEW marks, Turn(r), Release(r, r, marks), UNCHANGED forgot, send'[r].at # "ended"
    PROVE  LeaseInv' /\ ActiveInv' /\ PageIsFreed'
<1>1. UNCHANGED stop /\ r \in Job
  BY TurnAdvances DEF Freed, Job
<1>2. \A j \in Job \ {r} : conf'[j] = conf[j]
  BY DEF Release, Freed, Typed, TypeOK, ScriptTypeOK
<1>3. OthersGoOn({r}) /\ Interrupts(r) = r
  BY <1>1, <1>2, InterruptsGoOn DEF Freed, Interrupts
<1>4. ActiveGoesOn
  BY TurnGoesOn
<1> QED
  BY <1>1, <1>3, <1>4, ReleaseFrees

LEMMA TurnFrees ==
    ASSUME Freed, NEW r \in Request, Turn(r)
    PROVE  LeaseInv' /\ ActiveInv' /\ PageIsFreed'
<1>0. send \in [Request -> SendType]
  BY DEF Freed, Typed, TypeOK, JobsTypeOK, SendType
<1> USE DEF Early
<1>1. ASSUME Arrive(r) PROVE LeaseInv' /\ ActiveInv' /\ PageIsFreed'
  <2>1. UNCHANGED <<active, lease, conf, forgot>>
    BY <1>1 DEF Arrive, script, book
  <2>2. send[r].at \in Early \/ send'[r].at # "ended"
    BY <1>0, <1>1 DEF Foremost, Arrive, SendType
  <2> QED
    BY <1>1, <2>1, <2>2, QuietTurn DEF Turn
<1>2. ASSUME RefuseVerdict(r) PROVE LeaseInv' /\ ActiveInv' /\ PageIsFreed'
  <2>1. UNCHANGED <<active, lease, conf, forgot>>
    BY <1>2 DEF RefuseVerdict, script, book
  <2>2. send[r].at \in Early \/ send'[r].at # "ended"
    BY <1>0, <1>2 DEF Foremost, RefuseVerdict, SendType
  <2> QED
    BY <1>2, <2>1, <2>2, QuietTurn DEF Turn
<1>3. ASSUME Inspect(r) PROVE LeaseInv' /\ ActiveInv' /\ PageIsFreed'
  <2>1. UNCHANGED <<active, lease, conf, forgot>>
    BY <1>3 DEF Inspect, script, book
  <2>2. send[r].at \in Early \/ send'[r].at # "ended"
    BY <1>0, <1>3 DEF Goes, Inspect, SendType
  <2> QED
    BY <1>3, <2>1, <2>2, QuietTurn DEF Turn
<1>4. ASSUME Stage(r) PROVE LeaseInv' /\ ActiveInv' /\ PageIsFreed'
  <2>1. UNCHANGED <<active, lease, conf, forgot>>
    BY <1>4 DEF Stage, script, book
  <2>2. send[r].at \in Early \/ send'[r].at # "ended"
    BY <1>0, <1>4 DEF Stage, SendType
  <2> QED
    BY <1>4, <2>1, <2>2, QuietTurn DEF Turn
<1>5. ASSUME Type(r) PROVE LeaseInv' /\ ActiveInv' /\ PageIsFreed'
  <2>1. UNCHANGED <<active, lease, conf, forgot>>
    BY <1>5 DEF Type, script, book
  <2>2. send[r].at \in Early \/ send'[r].at # "ended"
    BY <1>0, <1>5 DEF Type, SendType
  <2> QED
    BY <1>5, <2>1, <2>2, QuietTurn DEF Turn
<1>6. ASSUME Submit(r) PROVE LeaseInv' /\ ActiveInv' /\ PageIsFreed'
  <2>1. UNCHANGED <<active, lease, conf, forgot>>
    BY <1>6 DEF Submit, script, book
  <2>2. send[r].at \in Early \/ send'[r].at # "ended"
    BY <1>0, <1>6 DEF Goes, Submit, SendType
  <2> QED
    BY <1>6, <2>1, <2>2, QuietTurn DEF Turn
<1>7. ASSUME AskTransition(r) PROVE LeaseInv' /\ ActiveInv' /\ PageIsFreed'
  <2>1. UNCHANGED <<active, lease, conf, forgot>>
    BY <1>7 DEF AskTransition, script, book
  <2>2. send[r].at \in Early \/ send'[r].at # "ended"
    BY <1>0, <1>7 DEF AskTransition, SendType
  <2> QED
    BY <1>7, <2>1, <2>2, QuietTurn DEF Turn
<1>8. ASSUME TransitionAdmitted(r) PROVE LeaseInv' /\ ActiveInv' /\ PageIsFreed'
  <2>1. UNCHANGED <<active, lease, conf, forgot>>
    BY <1>8 DEF TransitionAdmitted, script, book
  <2>2. send[r].at \in Early \/ send'[r].at # "ended"
    BY <1>0, <1>8 DEF TransitionAdmitted, SendType
  <2> QED
    BY <1>8, <2>1, <2>2, QuietTurn DEF Turn
<1>9. ASSUME PromptSeen(r) PROVE LeaseInv' /\ ActiveInv' /\ PageIsFreed'
  <2>1. UNCHANGED <<active, lease, conf, forgot>>
    BY <1>9 DEF PromptSeen, script, book
  <2>2. send[r].at \in Early \/ send'[r].at # "ended"
    BY <1>0, <1>9 DEF Goes, PromptSeen, SendType
  <2> QED
    BY <1>9, <2>1, <2>2, QuietTurn DEF Turn
<1>10. ASSUME See(r) PROVE LeaseInv' /\ ActiveInv' /\ PageIsFreed'
  <2>1. UNCHANGED <<active, lease, conf, forgot>>
    BY <1>10 DEF See, script, book
  <2>2. send[r].at \in Early \/ send'[r].at # "ended"
    BY <1>0, <1>10 DEF See, SendType
  <2> QED
    BY <1>10, <2>1, <2>2, QuietTurn DEF Turn
<1>11. ASSUME CaptureComplete(r) PROVE LeaseInv' /\ ActiveInv' /\ PageIsFreed'
  <2>1. UNCHANGED <<active, lease, conf, forgot>>
    BY <1>11 DEF CaptureComplete, script, book
  <2>2. send[r].at \in Early \/ send'[r].at # "ended"
    BY <1>0, <1>11 DEF Goes, CaptureComplete, SendType
  <2> QED
    BY <1>11, <2>1, <2>2, QuietTurn DEF Turn
<1>12. ASSUME CleanupEnds(r) PROVE LeaseInv' /\ ActiveInv' /\ PageIsFreed'
  <2>1. Teardown(r) /\ UNCHANGED <<conf, forgot>> /\ send[r].at \notin Early
    BY <1>12 DEF CleanupEnds, Leave, book
  <2> QED
    BY <1>12, <2>1, LastStepOfTurn DEF Turn
<1>13. ASSUME CaptureCancelled(r) PROVE LeaseInv' /\ ActiveInv' /\ PageIsFreed'
  <2>1. Teardown(r) /\ UNCHANGED <<conf, forgot>> /\ send[r].at \notin Early
    BY <1>13 DEF CaptureCancelled, book
  <2> QED
    BY <1>13, <2>1, LastStepOfTurn DEF Turn
<1>14. ASSUME AnswerTaken(r) PROVE LeaseInv' /\ ActiveInv' /\ PageIsFreed'
  <2>1. Teardown(r) /\ UNCHANGED <<conf, forgot>> /\ send[r].at \notin Early
    BY <1>14 DEF AnswerTaken, Leave, book
  <2> QED
    BY <1>14, <2>1, LastStepOfTurn DEF Turn
<1>15. ASSUME AnswerRefused(r) PROVE LeaseInv' /\ ActiveInv' /\ PageIsFreed'
  <2>1. Teardown(r) /\ UNCHANGED <<conf, forgot>> /\ send[r].at \notin Early
    BY <1>15 DEF AnswerRefused, Leave, book
  <2> QED
    BY <1>15, <2>1, LastStepOfTurn DEF Turn
<1>16. ASSUME FailureReported(r) PROVE LeaseInv' /\ ActiveInv' /\ PageIsFreed'
  <2>1. Teardown(r) /\ UNCHANGED <<conf, forgot>> /\ send[r].at \notin Early
    BY <1>16 DEF FailureReported, Leave, book
  <2> QED
    BY <1>16, <2>1, LastStepOfTurn DEF Turn
<1>17. ASSUME MonitorSettles(r) PROVE LeaseInv' /\ ActiveInv' /\ PageIsFreed'
  <2>1. Teardown(r) /\ UNCHANGED <<conf, forgot>> /\ send[r].at \notin Early
    BY <1>17 DEF MonitorSettles, book
  <2> QED
    BY <1>17, <2>1, LastStepOfTurn DEF Turn
<1>18. ASSUME FailBefore(r) PROVE LeaseInv' /\ ActiveInv' /\ PageIsFreed'
  <2>1. UNCHANGED <<conf, forgot>> /\ send[r].at \notin Early
    BY <1>18 DEF FailBefore, book
  <2>2. CASE Teardown(r)
    BY <1>18, <2>1, <2>2, LastStepOfTurn DEF Turn
  <2>3. CASE Goes(r, "cleaning") /\ UNCHANGED <<script, lease>>
    <3>1. send'[r].at # "ended" /\ UNCHANGED <<active, lease>>
      BY <1>0, <2>3 DEF Goes, SendType, script
    <3> QED
      BY <1>18, <2>1, <3>1, QuietTurn DEF Turn
  <2> QED
    BY <1>18, <2>2, <2>3 DEF FailBefore, Leave
<1>19. ASSUME SubmitFaults(r) PROVE LeaseInv' /\ ActiveInv' /\ PageIsFreed'
  <2>1. Hold(r, r) /\ UNCHANGED active
    BY <1>19 DEF SubmitFaults
  <2>2. send'[r].at # "ended"
    BY <1>0, <1>19 DEF SubmitFaults, SendType
  <2> QED
    BY <1>19, <2>1, <2>2, HoldingTurn DEF Turn
<1>20. ASSUME CaptureFaults(r) PROVE LeaseInv' /\ ActiveInv' /\ PageIsFreed'
  <2>1. Hold(r, r) /\ UNCHANGED active
    BY <1>20 DEF CaptureFaults
  <2>2. send'[r].at # "ended"
    BY <1>0, <1>20 DEF CaptureFaults, SendType
  <2> QED
    BY <1>20, <2>1, <2>2, HoldingTurn DEF Turn
<1>21. ASSUME SubmitUnknown(r) PROVE LeaseInv' /\ ActiveInv' /\ PageIsFreed'
  <2>1. Release(r, r, cancelled \cup {r}) /\ UNCHANGED forgot
    BY <1>21 DEF SubmitUnknown, book
  <2>2. send'[r].at # "ended"
    BY <1>0, <1>21 DEF SubmitUnknown, SendType
  <2> QED
    BY <1>21, <2>1, <2>2, ReleasingTurn DEF Turn
<1>22. ASSUME CaptureGivesUp(r) PROVE LeaseInv' /\ ActiveInv' /\ PageIsFreed'
  <2>1. (Release(r, r, cancelled) \/ Release(r, r, cancelled \ {r})) /\ UNCHANGED forgot
    BY <1>22 DEF CaptureGivesUp, book
  <2>2. send'[r].at # "ended"
    BY <1>0, <1>22 DEF Goes, CaptureGivesUp, SendType
  <2> QED
    BY <1>22, <2>1, <2>2, ReleasingTurn DEF Turn
<1>23. ASSUME Admit(r) PROVE LeaseInv' /\ ActiveInv' /\ PageIsFreed'
  <2>1. active' = r /\ UNCHANGED <<lease, conf, forgot, stop>>
    BY <1>23 DEF Admit, book
  <2>2. send'[r].at = "accepted"
    BY <1>0, <1>23 DEF Admit, Goes, SendType
  <2>3. ActiveInv' /\ PageIsFreed'
    BY <2>1, <2>2 DEF ActiveInv, PageIsFreed
  <2>4. LeaseInv'
    BY <2>1 DEF Freed, LeaseInv, Confirming, Interrupts, lease
  <2> QED
    BY <2>3, <2>4
<1>24. ASSUME SubmitStopped(r) PROVE LeaseInv' /\ ActiveInv' /\ PageIsFreed'
  <2>1. /\ active' = None /\ holding' = holding \ {r} /\ UNCHANGED stop
        /\ conf' = [conf EXCEPT ![r] = "none"]
    BY <1>24 DEF SubmitStopped
  <2>2. ActiveInv' /\ PageIsFreed'
    BY <2>1 DEF ActiveInv, PageIsFreed
  <2>3. \A j \in Job \ {r} : conf'[j] = conf[j]
    BY <2>1 DEF Freed, Typed, TypeOK, ScriptTypeOK
  <2>4. \A q \in holding' : Confirming(q)'
    BY <2>1, <2>3 DEF Freed, LeaseInv, Confirming, Interrupts
  <2>5. \A x \in Halt : conf'[x] # "none" => stop'[x].at = "confirming"
    BY <2>1, <2>3, ConstantTypes DEF Freed, LeaseInv, Job
  <2> QED
    BY <2>2, <2>4, <2>5 DEF LeaseInv
<1> QED
    BY <1>1, <1>2, <1>3, <1>4, <1>5, <1>6, <1>7, <1>8, <1>9, <1>10, <1>11, <1>12, <1>13, <1>14,
     <1>15, <1>16, <1>17, <1>18, <1>19, <1>20, <1>21, <1>22, <1>23, <1>24 DEF Turn

LEMMA StepFrees == ASSUME Freed, [Next]_vars PROVE LeaseInv' /\ ActiveInv' /\ PageIsFreed'
<1>1. ASSUME UNCHANGED <<active, lease, conf, forgot, stop, send>>
      PROVE  LeaseInv' /\ ActiveInv' /\ PageIsFreed'
  <2>1. OthersGoOn({}) /\ ActiveGoesOn
    BY <1>1, InterruptsGoOn DEF Freed, ActiveInv, ActiveGoesOn
  <2> QED
    BY <1>1, <2>1, QuietFrees
<1>2. Site \/ UNCHANGED vars => UNCHANGED <<active, lease, conf, forgot, stop, send>>
  BY DEF Site, Move, Rename, ShowStop, EndGeneration, PersonPrompts, PersonDrafts,
     PersonAttaches, script, book, vars
<1>3. ASSUME NEW r \in Request, AdmitTransition(r)
      PROVE  UNCHANGED <<active, lease, conf, forgot, stop, send>>
  BY <1>3 DEF AdmitTransition, script, book
<1>4. ASSUME NEW r \in Request, Register(r) PROVE LeaseInv' /\ ActiveInv' /\ PageIsFreed'
  <2>1. UNCHANGED <<active, lease, conf, forgot, stop>>
    BY <1>4 DEF Register, script, book
  <2>2. Others(r) /\ send[r].at = "idle"
    BY <1>4, RegisterSends DEF Freed
  <2>3. OthersGoOn({})
    BY <2>1, InterruptsGoOn DEF Freed
  <2>4. active # None => active \in Request /\ send[active].at \notin Early
    BY DEF Freed, ActiveInv, Typed, TypeOK, ScriptTypeOK
  <2>5. ActiveGoesOn
    BY <2>2, <2>4 DEF ActiveGoesOn, Others, Early
  <2> QED
    BY <2>1, <2>3, <2>5, QuietFrees
<1>5. ASSUME NEW k \in Job, Clicks(k) PROVE LeaseInv' /\ ActiveInv' /\ PageIsFreed'
  <2>1. UNCHANGED <<active, lease, forgot, stop, send>>
    BY <1>5 DEF Clicks, script, book
  <2>2. \A j \in Job : conf'[j] = "none" <=> conf[j] = "none"
    BY <1>5 DEF Clicks, Freed, Typed, TypeOK, ScriptTypeOK
  <2>3. OthersGoOn({})
    BY <2>1, <2>2 DEF OthersGoOn, Interrupts, Freed, LeaseInv
  <2>4. ActiveGoesOn
    BY <2>1 DEF ActiveGoesOn, Freed, ActiveInv
  <2> QED
    BY <2>1, <2>3, <2>4, QuietFrees
<1>6. ASSUME NEW x \in Halt, NEW recall \in BOOLEAN, StopArrives(x, recall)
      PROVE  LeaseInv' /\ ActiveInv' /\ PageIsFreed'
  <2>1. PICK r \in holds :
          /\ r \in Request /\ stop[x].at = "idle" /\ stop'[x].id = r
          /\ \A y \in Halt \ {x} : stop'[y] = stop[y]
          /\ \/ stop'[x].at = "confirming" /\ Hold(x, r)
             \/ stop'[x].at = "over" /\ UNCHANGED <<lease, conf, forgot>>
          /\ UNCHANGED <<active, send>>
    BY <1>6, StopTakes DEF Freed
  <2>2. x \in Job /\ x \notin Request /\ conf[x] = "none"
    BY <2>1, ConstantTypes DEF Job, Freed, LeaseInv
  <2>3. \A j \in Job \ {x} : Interrupts(j)' = Interrupts(j)
    BY <2>1 DEF Interrupts, Job
  <2>4. ActiveGoesOn
    BY <2>1 DEF ActiveGoesOn, Freed, ActiveInv
  <2>5. CASE stop'[x].at = "confirming" /\ Hold(x, r)
    <3>1. \A j \in Job \ {x} : conf'[j] = conf[j]
      BY <2>5 DEF Hold, Freed, Typed, TypeOK, ScriptTypeOK
    <3>2. OthersGoOn({x})
      BY <2>1, <2>3, <3>1 DEF OthersGoOn, Freed, LeaseInv
    <3>3. Interrupts(x)' = r
      BY <2>1, <2>2 DEF Interrupts
    <3> QED
      BY <2>1, <2>2, <2>4, <2>5, <3>2, <3>3, HoldFrees
  <2>6. CASE UNCHANGED <<lease, conf, forgot>>
    <3>1. OthersGoOn({})
      BY <2>1, <2>2, <2>3, <2>6 DEF OthersGoOn, Freed, LeaseInv
    <3> QED
      BY <2>1, <2>4, <2>6, <3>1, QuietFrees
  <2> QED
    BY <2>1, <2>5, <2>6
<1>7. ASSUME NEW x \in Halt, Interrupt(x) PROVE LeaseInv' /\ ActiveInv' /\ PageIsFreed'
  <2> DEFINE r == stop[x].id
  <2>1. /\ stop[x].at = "confirming"
        /\ \A y \in Halt \ {x} : stop'[y] = stop[y]
    BY <1>7, StopGoesOver DEF Interrupt, Freed
  <2>2. r \in Request /\ x \in Job /\ x \notin Request
    BY <2>1, ConstantTypes DEF Job, Freed, Typed, PlacesInv
  <2>3. PICK marks : Release(x, r, marks)
    BY <1>7 DEF Interrupt, StopConfirmed, StopUnconfirmed
  <2>4. UNCHANGED <<forgot, send>>
    BY <1>7 DEF Interrupt, StopConfirmed, StopUnconfirmed, book
  <2>5. ActiveGoesOn
    BY <2>4 DEF ActiveGoesOn, Freed, ActiveInv
  <2>6. \A j \in Job \ {x} : conf'[j] = conf[j]
    BY <2>3 DEF Release, Freed, Typed, TypeOK, ScriptTypeOK
  <2>7. OthersGoOn({x})
    BY <2>1, <2>6 DEF OthersGoOn, Interrupts, Job, Freed, LeaseInv
  <2>8. Interrupts(x) = r
    BY <2>2 DEF Interrupts
  <2> QED
    BY <2>2, <2>3, <2>4, <2>5, <2>7, <2>8, ReleaseFrees
<1> QED
  BY <1>1, <1>2, <1>3, <1>4, <1>5, <1>6, <1>7, TurnFrees DEF Next, Background

LEMMA StepInv == ASSUME Inv, [Next]_vars PROVE Inv'
BY StepTyped, UnsentStep, StepFrees DEF Inv, Freed

----------------------------------------------------------------------------
(* What the person wrote                                                      *)

KeepsDraft == events' = events =>
    /\ text \in {Person, Mixed} => text' = text
    /\ Person \in files => Person \in files' \/ \E r \in Request \ Attached : Submits(r)

LEMMA StepKeepsDraft == ASSUME Inv, [Next]_vars PROVE KeepsDraft
<1> USE NativeAssumption, ConstantTypes DEF KeepsDraft, composer, Inv, Typed, TypeOK, SiteTypeOK
<1>1. ASSUME NEW c \in Chat, Move(c) PROVE KeepsDraft
  BY <1>1 DEF Move, Event
<1>2. ASSUME PersonPrompts PROVE KeepsDraft
  BY <1>2 DEF PersonPrompts, Event
<1>3. ASSUME PersonDrafts PROVE KeepsDraft
  BY <1>3 DEF PersonDrafts, Event
<1>4. ASSUME PersonAttaches PROVE KeepsDraft
  BY <1>4 DEF PersonAttaches, Event
<1>5. ASSUME NEW r \in Request, Stage(r) PROVE KeepsDraft
  BY <1>5 DEF Stage
<1>6. ASSUME NEW r \in Request, Type(r) PROVE KeepsDraft
  BY <1>6 DEF Type
<1>7. ASSUME NEW r \in Request, FailBefore(r) PROVE KeepsDraft
  BY <1>7 DEF FailBefore
<1>8. ASSUME NEW r \in Request, CleanupEnds(r) PROVE KeepsDraft
  BY <1>8 DEF CleanupEnds
<1>9. ASSUME NEW r \in Request, Submit(r) PROVE KeepsDraft
  <2>1. text' = text \/ text \notin {Person, Mixed}
    BY <1>9 DEF Submit
  <2>2. CASE r \in Attached
    BY <1>9, <2>1, <2>2 DEF Submit, FilesAreOwn
  <2>3. CASE r \notin Attached
    <3>1. stands[r] = None
      BY <1>9 DEF Submit, UnsentInv, Unsent
    <3>2. stands'[r] = route
      BY <1>9 DEF Submit
    <3> QED
      BY <2>1, <2>3, <3>1, <3>2 DEF Submits
  <2> QED
    BY <2>2, <2>3
<1>10. ASSUME UNCHANGED <<text, files>> PROVE KeepsDraft
  BY <1>10
<1>11. ASSUME NEW c \in Chat,
          Rename(c) \/ ShowStop(c) \/ EndGeneration(c)
      PROVE  UNCHANGED <<text, files>>
  BY <1>11 DEF Rename, ShowStop, EndGeneration
<1>12. ASSUME NEW r \in Request,
          Register(r) \/ AdmitTransition(r) \/ Arrive(r) \/ Admit(r) \/ RefuseVerdict(r)
          \/ Inspect(r) \/ AskTransition(r) \/ TransitionAdmitted(r) \/ PromptSeen(r) \/ See(r)
          \/ SubmitFaults(r) \/ SubmitStopped(r) \/ SubmitUnknown(r) \/ CaptureCancelled(r)
          \/ CaptureComplete(r) \/ CaptureFaults(r) \/ CaptureGivesUp(r) \/ AnswerTaken(r)
          \/ AnswerRefused(r) \/ FailureReported(r) \/ MonitorSettles(r)
      PROVE  UNCHANGED <<text, files>>
    BY <1>12 DEF Register, AdmitTransition, Arrive, Admit, RefuseVerdict, Inspect, AskTransition,
     TransitionAdmitted, PromptSeen, See, SubmitFaults, SubmitStopped, SubmitUnknown,
     CaptureCancelled, CaptureComplete, CaptureFaults, CaptureGivesUp, AnswerTaken, AnswerRefused,
     FailureReported, MonitorSettles
<1>13. ASSUME NEW x \in Halt, NEW recall \in BOOLEAN,
          StopArrives(x, recall)
      PROVE  UNCHANGED <<text, files>>
  BY <1>13 DEF StopArrives
<1>14. ASSUME NEW x \in Halt,
          StopConfirmed(x) \/ StopUnconfirmed(x)
      PROVE  UNCHANGED <<text, files>>
  BY <1>14 DEF StopConfirmed, StopUnconfirmed
<1>15. ASSUME NEW k \in Job,
          Clicks(k)
      PROVE  UNCHANGED <<text, files>>
  BY <1>15 DEF Clicks
<1>16. UNCHANGED vars => UNCHANGED <<text, files>>
  BY DEF vars
<1> QED
    BY <1>1, <1>2, <1>3, <1>4, <1>5, <1>6, <1>7, <1>8, <1>9, <1>10, <1>11, <1>12, <1>13, <1>14,
     <1>15, <1>16 DEF Next, Site, Background, Turn, Interrupt

----------------------------------------------------------------------------
LEMMA Invariance == Spec => []Inv
<1>1. Init => Inv
  BY InitInv
<1>2. Inv /\ [Next]_vars => Inv'
  BY StepInv
<1> QED
  BY <1>1, <1>2, PTL DEF Spec

\* The page's variables keep their types.
THEOREM TypeCorrect == Spec => []TypeOK
<1>1. Inv => TypeOK
  BY DEF Inv, Typed
<1> QED
  BY <1>1, Invariance, PTL

\* The page's one turn is never left to nobody, however many Stops share the lease, unless one
\* of them struck the teardown that was owed (createRequestTeardown, createInterruptLease).
THEOREM TurnAlwaysFreed == Spec => []PageIsFreed
<1>1. Inv => PageIsFreed
  BY DEF Inv
<1> QED
  BY <1>1, Invariance, PTL

\* The script never takes what a person typed or attached, but for a file attached after a
\* prompt without attachments has found none.
THEOREM DraftAlwaysKept == Spec => DraftIsKept
<1>1. Inv /\ [Next]_vars => [KeepsDraft]_vars
  BY StepKeepsDraft
<1>2. [KeepsDraft]_vars => [events' = events =>
        /\ text \in {Person, Mixed} => text' = text
        /\ Person \in files => Person \in files'
                               \/ \E r \in Request \ Attached : Submits(r)]_vars
  BY DEF KeepsDraft
<1> QED
  BY <1>1, <1>2, Invariance, PTL DEF Spec, DraftIsKept

----------------------------------------------------------------------------
(* What a page knows of its turns.  StopIsReal and NoSecondPrompt are about a  *)
(* turn the page has forgotten, so they rest on all that happened before it    *)
(* forgot: where prompts and answers are (Places), which step each job is at   *)
(* (Order), that the active turn's answer goes on where the page has the turn  *)
(* (Own), what a cancellation, a failure and a report to the background say of *)
(* an answer (Marks), and what holds once the turn is not active (Apart).      *)

\* The steps of a job whose prompt was sent.
Submitted == {"clicked", "capturing", "answering", "unverified", "failing", "erring", "monitor"}

\* What generates is a prompt's answer where the prompt is, and has not ended; nobody prompts by
\* hand on the page for a new conversation.
GenInv ==
    /\ \A c \in Chat : gen[c] # None /\ gen[c].by \in Request =>
                           stands[gen[c].by] = c /\ gen[c].by \notin done
    /\ gen[Start] # None => gen[Start].by # Person
    /\ \A r \in done : Committed(r)

\* An address is known to nobody before it is given out.
AddressInv ==
    /\ route \in Fresh => route \in Given
    /\ \A r \in Request : {send[r].conv, send[r].to} \cap Fresh \subseteq Given

\* A transition under way is the only one, of a prompt submitted on the start page.
TransInv ==
    \A r \in Request : send[r].to # None =>
        /\ send[r].to # Start /\ send[r].conv = Start /\ ~send[r].used
        /\ send[r].at \in {"clicked", "capturing"}
\* Only a submitted prompt changed its address, and never for the start page; a turn is astray
\* only by such a change.
UsedInv == \A r \in Request : send[r].used => Committed(r) /\ send[r].conv # Start
StrayInv == \A r \in strayed : send[r].used

\* The conversation r is in, and the start page it came from.
Had(r, c) == c = send[r].conv \/ (send[r].used /\ c = Start)

\* A Stop names the conversation of its turn, or the start page the turn has left meanwhile.
StopNameInv == \A x \in Halt : stop[x].at = "confirming" => Had(stop[x].id, stop[x].conv)

Places == GenInv /\ AddressInv /\ TransInv /\ UsedInv /\ StrayInv /\ StopNameInv

\* A turn reported as stopped was submitted, has ended or cannot be submitted any more.
DoomInv ==
    /\ \A r \in told \cup holds : send[r].at # "idle"
    /\ \A r \in told : Committed(r) \/ send[r].at = "ended" \/ r \in cancelled

\* The background sends one prompt after the other; two are before the verdict at once only when
\* it was told that the first one is stopped ...
OrderInv ==
    \A p, q \in Request : p < q /\ send[q].at # "idle" =>
        /\ send[p].at # "idle"
        /\ send[p].at \in {"sent", "asked"} => p \in told

\* ... and one that waits for it beside an active turn finds that turn cancelled.
AskedInv ==
    active # None /\ (\E p \in Request : send[p].at = "asked") =>
        active \in cancelled /\ ~Committed(active)

\* What is interrupted was submitted; a teardown is owed by a job that ended.
ConfInv ==
    /\ \A k \in Job : conf[k] # "none" =>
           /\ Interrupts(k) \in Request /\ Committed(Interrupts(k))
           /\ k \in Request => send[k].at \in {"unverified", "failing"}
    /\ \A x \in Halt : stop[x].at = "confirming" => Committed(stop[x].id)
    /\ \A r \in holding : Committed(r)
    /\ \A r \in owed : send[r].at = "ended"

\* A submitted prompt is the active one until its job ends.
WorkInv ==
    /\ \A r \in Request : send[r].at \in Submitted => Committed(r) /\ active = r
    /\ \A r \in Request : Committed(r) => send[r].at \in Submitted \cup {"ended"}
\* The background no longer waits for a turn that is only monitored.
MonInv == \A r \in Request : send[r].at = "monitor" => r \notin holds

Order == DoomInv /\ OrderInv /\ AskedInv /\ ConfInv /\ WorkInv /\ MonInv

\* The active turn is where the page has it, or in the address the start page has got.
PlaceInv ==
    \A r \in Request \ strayed : Committed(r) /\ active = r =>
        \/ stands[r] = send[r].conv
        \/ send[r].conv = Start /\ stands[r] \in Fresh

\* Nobody stands on the start page any more once the active turn has left it.
HomeInv ==
    active # None /\ Committed(active) /\ send[active].conv = Start =>
        \A p \in Request : stands[p] = Start => stands[active] = Start

\* The address the start page has got is no other turn's conversation.
FarInv ==
    active # None /\ Committed(active) /\ send[active].conv = Start /\ stands[active] # Start =>
        \A p \in Request \ {active} : Committed(p) => send[p].conv # stands[active]

\* An interrupt that watches the page has seen the turn's own Stop control.
WatchInv ==
    \A k \in Job : conf[k] = "watching" /\ active = Interrupts(k) /\ active \in Request \ strayed =>
        /\ ~Starting(active)
        /\ route = Start /\ send[active].conv = Start => stands[active] = Start

\* What the active turn began goes on where the turn is, until it ends.
AliveInv ==
    \A r \in Request \ done : Committed(r) /\ active = r =>
        gen[stands[r]] # None /\ gen[stands[r]].by = r

Own == PlaceInv /\ HomeInv /\ FarInv /\ WatchInv /\ AliveInv

\* The answer ended, or the page followed somebody else's.
Ended(r) == r \in done \cup strayed

\* A mark nobody holds is of a turn that ended.
MarkInv ==
    \A r \in cancelled \ holding :
        send[r].at \in {"clicked", "capturing", "answering", "unverified", "failing"} => Ended(r)
\* What is delivered as an answer has ended; what is reported as failed or watched by the monitor
\* is in a quarantined conversation.
AnswerInv == \A r \in Request : send[r].at = "answering" => r \in done
ErrInv == \A r \in Request : send[r].at \in {"erring", "monitor"} => send[r].conv \in held \/ Ended(r)

\* A monitor that saw a Stop control on the turn's own page saw the turn's.
SawInv ==
    \A r \in Request \ misled :
        send[r].at = "monitor" /\ send[r].saw /\ stands[r] = send[r].conv => ~Starting(r)
\* The active turn is reported as stopped only when its answer has ended.
ToldInv == \A r \in told : Committed(r) /\ active = r => Ended(r)

Marks == MarkInv /\ AnswerInv /\ ErrInv /\ SawInv /\ ToldInv

\* A turn the background still counts on is not among those the page has lost sight of.
Unsure(r) == r \notin told \cup holds /\ (r \in misled \/ stands[r] # send[r].conv)

\* What excuses a conversation that is not quarantined.
Sure(r) == r \in done \/ Belated(r) \/ Followed(send[r].conv) \/ Unsure(r)

\* The conversation of a turn the page has forgotten is quarantined ...
HoldInv == \A r \in Request : Committed(r) /\ active # r => send[r].conv \in held \/ Sure(r)

\* ... or it is not the one the active turn is in or comes from.
ExclInv ==
    active # None =>
        \A r \in Request \ {active} : Committed(r) /\ Had(active, send[r].conv) => Sure(r)

Apart == HoldInv /\ ExclInv

\* With Inv, an inductive invariant of the page that implies StopIsReal and NoSecondPrompt.
PageInv == Places /\ Order /\ Own /\ Marks /\ Apart

----------------------------------------------------------------------------
(* Frames: what most steps leave alone                                        *)

\* No prompt moves, no turn changes its conversation, the background forgets but registers nothing.
Calm ==
    /\ UNCHANGED <<route, gen, stands, done, strayed>>
    /\ \A q \in Request : send'[q].conv = send[q].conv /\ send'[q].used = send[q].used
    /\ told \subseteq told' /\ told' \subseteq told \cup holds
    /\ holds' \subseteq holds /\ misled \subseteq misled'
    /\ \A x \in Halt : stop[x].at = "late" => stop'[x] = stop[x]

LEMMA CalmSure == ASSUME Calm, WorkerTypeOK, NEW r \in Request, Sure(r) PROVE Sure(r)'
<1>1. r \in done => r \in done'
  BY DEF Calm
<1>2. Belated(r) => Belated(r)'
  BY DEF Calm, Belated
<1>3. Followed(send[r].conv) => Followed(send[r].conv)'
  <2>1. send'[r].conv = send[r].conv /\ strayed' = strayed
    BY DEF Calm
  <2>2. ASSUME NEW q \in strayed, send[q].conv = send[r].conv, q \in Request
        PROVE  send'[q].conv = send'[r].conv /\ q \in strayed'
    BY <2>2 DEF Calm
  <2> QED
    BY <2>1, <2>2 DEF Followed, WorkerTypeOK
<1>4. Unsure(r) => Unsure(r)'
  BY DEF Calm, Unsure
<1> QED
  BY <1>1, <1>2, <1>3, <1>4 DEF Sure

LEMMA CalmSite ==
    ASSUME Calm, WorkerTypeOK, GenInv, UsedInv, StrayInv
    PROVE  GenInv' /\ UsedInv' /\ StrayInv'
BY DEF Calm, WorkerTypeOK, GenInv, UsedInv, StrayInv, Committed

\* A transition may end, and none begins.
LEMMA CalmAddress ==
    ASSUME Calm, AddressInv, \A q \in Request : send'[q].to \in {send[q].to, None}, None \notin Chat
    PROVE  AddressInv'
BY NativeAssumption DEF Calm, AddressInv, Given

LEMMA CalmTrans ==
    ASSUME Calm, TransInv, NEW r \in Request, Others(r), send'[r].to \in {send[r].to, None},
           send'[r].to # None => send'[r].at \in {"clicked", "capturing"}
    PROVE  TransInv'
BY DEF Calm, TransInv, Others

\* No Stop begins to be confirmed.
LEMMA CalmStops ==
    ASSUME Calm, StopNameInv,
           \A x \in Halt : stop'[x].at = "confirming" =>
               stop[x].at = "confirming" /\ stop[x].id \in Request
               /\ stop'[x].id = stop[x].id /\ stop'[x].conv = stop[x].conv
    PROVE  StopNameInv'
BY DEF Calm, StopNameInv, Had

\* No interrupt begins to watch.
Watchers == \A k \in Job : conf'[k] = "watching" => conf[k] = "watching" /\ Interrupts(k)' = Interrupts(k)

LEMMA CalmHome ==
    ASSUME Calm, Own, active \in Request \cup {None}, active' \in {active, None}, None \notin Request
    PROVE  PlaceInv' /\ HomeInv' /\ FarInv' /\ AliveInv'
<1> USE DEF Calm, Own, Committed
<1>1. PlaceInv'
  BY DEF PlaceInv
<1>2. HomeInv'
  BY DEF HomeInv
<1>3. FarInv'
  BY DEF FarInv
<1>4. AliveInv'
  BY DEF AliveInv
<1> QED
  BY <1>1, <1>2, <1>3, <1>4

LEMMA CalmOwn ==
    ASSUME Calm, Own, Watchers, active \in Request \cup {None}, active' \in {active, None}, None \notin Request
    PROVE  Own'
<1>1. \A r : Starting(r)' <=> Starting(r)
  BY DEF Calm, Starting
<1>2. WatchInv'
  BY <1>1 DEF Calm, Own, WatchInv, Watchers
<1> QED
  BY <1>2, CalmHome DEF Own

\* What is let out of the quarantine is the active turn's, and a turn that leaves the page is
\* accounted for.
LEMMA CalmApart ==
    ASSUME Calm, WorkerTypeOK, Apart, active \in Request \cup {None}, active' \in {active, None},
           \A c \in held \ held' : active # None /\ Had(active, c),
           \A p \in Request : active = p /\ active' # p /\ Committed(p) => send[p].conv \in held' \/ Sure(p)'
    PROVE  Apart'
<1>1. \A r \in Request : Committed(r)' <=> Committed(r)
  BY DEF Calm, Committed
<1>2. \A r \in Request : Sure(r) => Sure(r)'
  BY CalmSure
<1>3. \A r \in Request : send'[r].conv = send[r].conv
  BY DEF Calm
<1>4. HoldInv'
  <2> SUFFICES ASSUME NEW r \in Request, Committed(r)', active' # r
               PROVE  send'[r].conv \in held' \/ Sure(r)'
    BY DEF HoldInv
  <2>0. Committed(r) /\ send'[r].conv = send[r].conv
    BY <1>1, <1>3
  <2>1. CASE active = r
    BY <2>0, <2>1
  <2>2. CASE active # r /\ send[r].conv \in held'
    BY <2>0, <2>2
  <2>3. CASE active # r /\ send[r].conv \notin held /\ send[r].conv \notin held'
    BY <1>2, <2>0, <2>3 DEF Apart, HoldInv
  <2>4. CASE active # r /\ send[r].conv \in held \ held'
    BY <1>2, <2>0, <2>4 DEF Apart, ExclInv
  <2> QED
    BY <2>1, <2>2, <2>3, <2>4
<1>5. ExclInv'
  <2>1. \A p \in Request : \A c : Had(p, c)' <=> Had(p, c)
    BY DEF Calm, Had
  <2>2. CASE active' = None
    BY <2>2 DEF ExclInv
  <2>3. CASE active' = active /\ active \in Request
    BY <1>1, <1>2, <1>3, <2>1, <2>3 DEF ExclInv, Apart
  <2> QED
    BY <2>2, <2>3
<1> QED
  BY <1>4, <1>5 DEF Apart

----------------------------------------------------------------------------
(* A request's record after a step                                            *)

\* The job of r goes to step w, its conversation stays, and a transition under way may end.
Moved(r, w) ==
    /\ Others(r) /\ send'[r].at = w
    /\ send'[r].conv = send[r].conv /\ send'[r].used = send[r].used
    /\ send'[r].to \in {send[r].to, None}

LEMMA GoesMoved ==
    ASSUME Typed, NEW r \in Request, NEW w, Goes(r, w)
    PROVE  Moved(r, w) /\ send'[r].to = send[r].to
<1>1. send \in [Request -> SendType] /\ send' = [send EXCEPT ![r].at = w]
  BY DEF Typed, TypeOK, JobsTypeOK, SendType, Goes
<1>2. send'[r] = [send[r] EXCEPT !.at = w] /\ send[r] \in SendType /\ Others(r)
  BY <1>1 DEF Others
<1> QED
  BY <1>2 DEF Moved, SendType

LEMMA DropMoved ==
    ASSUME Typed, NEW r \in Request, NEW w, send' = [send EXCEPT ![r].at = w, ![r].to = None]
    PROVE  Moved(r, w) /\ send'[r].to = None
<1>1. send \in [Request -> SendType]
  BY DEF Typed, TypeOK, JobsTypeOK, SendType
<1>2. send'[r] = [send[r] EXCEPT !.at = w, !.to = None] /\ send[r] \in SendType /\ Others(r)
  BY <1>1 DEF Others
<1> QED
  BY <1>2, ZenonT(30) DEF Moved, SendType

LEMMA WriteMoved ==
    ASSUME Typed, NEW r \in Request, Stage(r) \/ Type(r)
    PROVE  \E w \in {"staged", "typed"} : Moved(r, w) /\ send'[r].to = send[r].to
<1>1. send \in [Request -> SendType]
  BY DEF Typed, TypeOK, JobsTypeOK, SendType
<1>2. CASE Stage(r)
  <2>1. /\ send'[r] = [send[r] EXCEPT !.at = "staged", !.staged = TRUE]
        /\ send[r] \in SendType /\ Others(r)
    BY <1>1, <1>2 DEF Others, Stage
  <2> QED
    BY <2>1 DEF Moved, SendType
<1>3. CASE Type(r)
  <2>1. /\ send'[r] = [send[r] EXCEPT !.at = "typed", !.typed = TRUE]
        /\ send[r] \in SendType /\ Others(r)
    BY <1>1, <1>3 DEF Others, Type
  <2> QED
    BY <2>1 DEF Moved, SendType
<1> QED
  BY <1>2, <1>3

LEMMA MovedPlaces ==
    ASSUME NEW r \in Request, NEW w, Moved(r, w)
    PROVE  \A q \in Request : send'[q].conv = send[q].conv /\ send'[q].used = send[q].used
                              /\ send'[q].to \in {send[q].to, None}
BY DEF Moved, Others

----------------------------------------------------------------------------
(* Before the click                                                           *)

\* A step of a prompt that is not submitted.
Passes(r, w) ==
    /\ Calm /\ Moved(r, w) /\ stands[r] = None /\ send'[r].to = send[r].to
    /\ send[r].at \in {"sent", "asked", "accepted", "clear", "staged", "typed", "cleaning"}
    /\ w \in {"asked", "clear", "staged", "typed", "cleaning", "ended"}
    /\ UNCHANGED <<lease, conf, stop, held, told, misled>>
    /\ w # "ended" => UNCHANGED <<active, cancelled>>
    /\ w = "asked" => send[r].at = "sent" /\ active = None
    /\ cancelled' \in {cancelled, cancelled \ {r}} /\ active' \in {active, None}
    /\ active' # active => active = r
    /\ cancelled' # cancelled => active' # r

LEMMA PassesPlaces == ASSUME Inv, PageInv, NEW r \in Request, NEW w, Passes(r, w) PROVE Places'
<1> USE ConstantTypes DEF Inv, Typed, TypeOK, PageInv, Places, Passes
<1>1. GenInv' /\ UsedInv' /\ StrayInv'
  BY CalmSite
<1>2. AddressInv'
  BY CalmAddress, MovedPlaces
<1>3. TransInv'
  <2>1. send'[r].to # None => FALSE
    BY DEF TransInv
  <2> QED
    BY <2>1, CalmTrans DEF Moved
<1>4. StopNameInv'
  BY CalmStops DEF PlacesInv
<1> QED
  BY <1>1, <1>2, <1>3, <1>4

LEMMA PassesOrder == ASSUME Inv, PageInv, NEW r \in Request, NEW w, Passes(r, w) PROVE Order'
<1> USE ConstantTypes DEF Inv, Typed, TypeOK, PageInv, Order, Passes, Moved, Others
<1>1. \A q : Committed(q)' <=> Committed(q)
  BY DEF Calm, Committed
<1>2. ~Committed(r)
  BY DEF Committed
<1>3. DoomInv'
  BY <1>1, <1>2 DEF DoomInv, Calm, WorkerTypeOK
<1>4. OrderInv'
  BY DEF OrderInv
<1>5. AskedInv'
  BY <1>1, <1>2 DEF AskedInv
<1>6. ConfInv'
  <2>1. \A k \in Job : Interrupts(k)' = Interrupts(k)
    BY DEF Interrupts
  <2>2. r \in Job /\ Interrupts(r) = r
    BY DEF Interrupts, Job
  <2>3. \A k \in Job : conf[k] # "none" => k # r
    BY <1>2, <2>2 DEF ConfInv
  <2>4. \A q \in holding' : Committed(q)'
    BY <1>1 DEF ConfInv, lease
  <2>5. \A q \in owed' : send'[q].at = "ended"
    BY DEF ConfInv, lease, ScriptTypeOK
  <2>6. \A x \in Halt : stop'[x].at = "confirming" => Committed(stop[x].id)'
    BY <1>1 DEF ConfInv
  <2> QED
    BY <1>1, <2>1, <2>3, <2>4, <2>5, <2>6 DEF ConfInv
<1>7. WorkInv'
  BY <1>1, <1>2 DEF WorkInv, Submitted
<1>8. MonInv'
  BY DEF MonInv, Calm
<1> QED
  BY <1>3, <1>4, <1>5, <1>6, <1>7, <1>8

LEMMA PassesMarks == ASSUME Inv, PageInv, NEW r \in Request, NEW w, Passes(r, w) PROVE Marks'
<1> USE ConstantTypes DEF Inv, Typed, TypeOK, PageInv, Marks, Passes, Moved, Others
<1>1. /\ \A q : Committed(q)' <=> Committed(q)
      /\ \A q : Ended(q)' <=> Ended(q)
      /\ \A q : Starting(q)' <=> Starting(q)
  BY DEF Calm, Committed, Ended, Starting
<1>2. MarkInv'
  BY <1>1 DEF MarkInv, lease, ScriptTypeOK
<1>3. AnswerInv' /\ ErrInv'
  BY <1>1 DEF AnswerInv, ErrInv, Calm
<1>4. SawInv'
  BY <1>1 DEF SawInv, Calm
<1>5. ToldInv'
  BY <1>1 DEF ToldInv, WorkerTypeOK, Committed
<1> QED
  BY <1>2, <1>3, <1>4, <1>5

LEMMA PassesKnown == ASSUME Inv, PageInv, NEW r \in Request, NEW w, Passes(r, w) PROVE PageInv'
<1> USE ConstantTypes DEF Inv, Typed, TypeOK, PageInv, Passes, ScriptTypeOK
<1>1. Watchers
  BY DEF Watchers, Interrupts
<1>2. Own'
  BY <1>1, CalmOwn
<1>3. Apart'
  <2>1. \A p \in Request : active = p /\ active' # p => ~Committed(p)
    BY DEF Committed
  <2> QED
    BY <2>1, CalmApart
<1> QED
  BY <1>2, <1>3, PassesPlaces, PassesOrder, PassesMarks

\* What a step of a turn leaves alone, whatever it does to its own request.
LEMMA CalmWhen ==
    ASSUME \A q \in Request : send'[q].conv = send[q].conv /\ send'[q].used = send[q].used,
           UNCHANGED <<route, gen, stands, done, stop, told, strayed>>,
           holds' \subseteq holds, misled \subseteq misled'
    PROVE  Calm
BY DEF Calm

LEMMA EarlyPasses ==
    ASSUME Inv, PageInv, NEW r \in Request,
           Arrive(r) \/ RefuseVerdict(r) \/ Inspect(r) \/ Stage(r) \/ Type(r) \/ FailBefore(r) \/ CleanupEnds(r)
    PROVE  \E w : Passes(r, w)
<1>1. /\ UNCHANGED <<route, gen, stands, done, stop, told, strayed, misled, conf, held>>
      /\ holds' \subseteq holds
  BY DEF Arrive, RefuseVerdict, Inspect, Stage, Type, FailBefore, CleanupEnds, Refuse, Leave,
         site, book, worker
<1>2. send[r].at \in {"sent", "asked", "accepted", "clear", "staged", "typed", "cleaning"}
  BY DEF Arrive, RefuseVerdict, Inspect, Stage, Type, FailBefore, CleanupEnds, Foremost
<1>3. stands[r] = None
  BY <1>2 DEF PageInv, Order, WorkInv, Submitted, Committed
<1>4. \A w : Moved(r, w) => Calm
  BY <1>1, MovedPlaces, CalmWhen
<1>5. Typed /\ r \notin holding
  BY <1>3 DEF Inv, PageInv, Order, ConfInv, Committed
<1>6. ASSUME Teardown(r)
      PROVE  /\ UNCHANGED lease /\ cancelled' = cancelled \ {r}
             /\ active' = IF active = r THEN None ELSE active
  BY <1>5, <1>6 DEF Teardown
<1>7. active \in Request \cup {None} /\ None \notin Request
  BY ConstantTypes DEF Inv, Typed, TypeOK, ScriptTypeOK
<1>8. CASE Arrive(r)
  <2>1. send[r].at = "sent" /\ active # r /\ UNCHANGED <<active, lease>>
    BY <1>7, <1>8 DEF Arrive, Foremost, Inv, ActiveInv, Early
  <2>2. \/ Goes(r, "asked") /\ active = None /\ UNCHANGED cancelled
        \/ Goes(r, "ended") /\ cancelled' \in {cancelled, cancelled \ {r}}
    BY <1>8 DEF Arrive, Refuse
  <2>3. CASE Goes(r, "asked") /\ active = None /\ UNCHANGED cancelled
    BY <1>1, <1>2, <1>3, <1>4, <1>5, <2>1, <2>3, GoesMoved DEF Passes
  <2>4. CASE Goes(r, "ended") /\ cancelled' \in {cancelled, cancelled \ {r}}
    BY <1>1, <1>2, <1>3, <1>4, <1>5, <2>1, <2>4, GoesMoved DEF Passes
  <2> QED
    BY <2>2, <2>3, <2>4
<1>9. CASE RefuseVerdict(r)
  <2>1. Goes(r, "ended") /\ UNCHANGED <<script, lease>>
    BY <1>9 DEF RefuseVerdict, Refuse
  <2> QED
    BY <1>1, <1>2, <1>3, <1>4, <1>5, <2>1, GoesMoved DEF Passes, script
<1>10. CASE Inspect(r)
  <2>1. Goes(r, "clear") /\ UNCHANGED <<script, lease>>
    BY <1>10 DEF Inspect
  <2> QED
    BY <1>1, <1>2, <1>3, <1>4, <1>5, <2>1, GoesMoved DEF Passes, script
<1>11. CASE Stage(r) \/ Type(r)
  <2>1. UNCHANGED <<script, lease>>
    BY <1>11 DEF Stage, Type
  <2> QED
    BY <1>1, <1>2, <1>3, <1>4, <1>5, <1>11, <2>1, WriteMoved DEF Passes, script
<1>12. CASE FailBefore(r) \/ CleanupEnds(r)
  <2>1. \/ Goes(r, "cleaning") /\ UNCHANGED <<script, lease>>
        \/ Goes(r, "ended") /\ Teardown(r)
    BY <1>12 DEF FailBefore, CleanupEnds, Leave
  <2>2. CASE Goes(r, "cleaning") /\ UNCHANGED <<script, lease>>
    BY <1>1, <1>2, <1>3, <1>4, <1>5, <2>2, GoesMoved DEF Passes, script
  <2>3. CASE Goes(r, "ended") /\ Teardown(r)
    BY <1>1, <1>2, <1>3, <1>4, <1>5, <1>6, <1>7, <2>3, GoesMoved DEF Passes
  <2> QED
    BY <2>1, <2>2, <2>3
<1> QED
  BY <1>8, <1>9, <1>10, <1>11, <1>12

----------------------------------------------------------------------------
(* A turn's job ends                                                          *)

\* The last step of a submitted prompt; a turn that leaves the page is accounted for.
Leaves(r) ==
    /\ Calm /\ Moved(r, "ended") /\ Teardown(r) /\ UNCHANGED <<conf, stop, told>>
    /\ send[r].at \in {"capturing", "answering", "erring", "monitor"}
    /\ send[r].at = "capturing" => send'[r].to = None
    /\ held' \in {held, held \ {send[r].conv}}
    /\ r \in holding \/ send[r].conv \in held' \/ Sure(r)'

LEMMA LeavesPlaces == ASSUME Inv, PageInv, NEW r \in Request, Leaves(r) PROVE Places'
<1> USE ConstantTypes DEF Inv, Typed, TypeOK, PageInv, Places, Leaves
<1>1. GenInv' /\ UsedInv' /\ StrayInv'
  BY CalmSite
<1>2. AddressInv'
  BY CalmAddress, MovedPlaces
<1>3. TransInv'
  <2>1. send'[r].to # None => FALSE
    BY DEF TransInv, Moved
  <2> QED
    BY <2>1, CalmTrans DEF Moved
<1>4. StopNameInv'
  BY CalmStops DEF PlacesInv
<1> QED
  BY <1>1, <1>2, <1>3, <1>4

\* What createRequestTeardown leaves.
LEMMA TeardownLeaves ==
    ASSUME Inv, NEW r \in Request, Teardown(r)
    PROVE  /\ holding' = holding /\ owed \subseteq owed' /\ owed' \subseteq owed \cup {r}
           /\ active' \in {active, None} /\ (active' # active => active = r)
           /\ cancelled' \subseteq cancelled /\ cancelled \ {r} \subseteq cancelled'
           /\ r \in holding => UNCHANGED <<active, cancelled>>
           /\ r \notin holding => active' # r
BY ConstantTypes DEF Teardown, lease, script, Inv, Typed, TypeOK, ScriptTypeOK

LEMMA LeavesOrder == ASSUME Inv, PageInv, NEW r \in Request, Leaves(r) PROVE Order'
<1> USE ConstantTypes, TeardownLeaves DEF Inv, Typed, TypeOK, PageInv, Order, Leaves, Moved, Others
<1>1. \A q : Committed(q)' <=> Committed(q)
  BY DEF Calm, Committed
<1>2. Committed(r) /\ active = r
  BY DEF WorkInv, Submitted
<1>3. DoomInv'
  BY <1>1, <1>2 DEF DoomInv, Calm, WorkerTypeOK
<1>4. OrderInv'
  BY DEF OrderInv
<1>5. AskedInv'
  BY <1>1, <1>2 DEF AskedInv
<1>6. ConfInv'
  <2>1. \A k \in Job : Interrupts(k)' = Interrupts(k)
    BY DEF Interrupts
  <2>2. \A k \in Job : conf[k] # "none" => k # r
    BY DEF ConfInv
  <2>3. \A q \in holding' : Committed(q)'
    BY <1>1 DEF ConfInv
  <2>4. owed' \subseteq owed \cup {r} /\ owed \subseteq Request
    BY DEF ScriptTypeOK
  <2>5. \A q \in owed' : send'[q].at = "ended"
    BY <2>4 DEF ConfInv
  <2>6. \A x \in Halt : stop'[x].at = "confirming" => Committed(stop[x].id)'
    BY <1>1 DEF ConfInv
  <2> QED
    BY <1>1, <2>1, <2>2, <2>3, <2>5, <2>6 DEF ConfInv
<1>7. WorkInv'
  BY <1>1, <1>2 DEF WorkInv, Submitted
<1>8. MonInv'
  BY DEF MonInv, Calm
<1> QED
  BY <1>3, <1>4, <1>5, <1>6, <1>7, <1>8

LEMMA LeavesMarks == ASSUME Inv, PageInv, NEW r \in Request, Leaves(r) PROVE Marks'
<1> USE ConstantTypes, TeardownLeaves DEF Inv, Typed, TypeOK, PageInv, Marks, Leaves, Moved, Others
<1>1. /\ \A q : Committed(q)' <=> Committed(q)
      /\ \A q : Ended(q)' <=> Ended(q)
      /\ \A q : Starting(q)' <=> Starting(q)
  BY DEF Calm, Committed, Ended, Starting
<1>2. MarkInv'
  BY <1>1 DEF MarkInv, ScriptTypeOK
<1>3. AnswerInv'
  BY <1>1 DEF AnswerInv, Calm
<1>4. ErrInv'
  <2>1. \A q \in Request \ {r} : send[q].at \notin {"erring", "monitor"}
    BY DEF Order, WorkInv, Submitted
  <2> QED
    BY <2>1 DEF ErrInv
<1>5. SawInv'
  BY <1>1 DEF SawInv, Calm
<1>6. ToldInv'
  BY <1>1 DEF ToldInv, WorkerTypeOK, Committed
<1> QED
  BY <1>2, <1>3, <1>4, <1>5, <1>6

LEMMA LeavesKnown == ASSUME Inv, PageInv, NEW r \in Request, Leaves(r) PROVE PageInv'
<1> USE ConstantTypes, TeardownLeaves DEF Inv, Typed, TypeOK, PageInv, Leaves, ScriptTypeOK
<1>1. Watchers
  BY DEF Watchers, Interrupts
<1>2. Own'
  BY <1>1, CalmOwn
<1>3. Apart'
  <2>1. active = r
    BY DEF Order, WorkInv, Submitted
  <2>2. \A p \in Request : active = p /\ active' # p /\ Committed(p) => send[p].conv \in held' \/ Sure(p)'
    BY <2>1
  <2>3. \A c \in held \ held' : active # None /\ Had(active, c)
    BY <2>1 DEF Had
  <2> QED
    BY <2>2, <2>3, CalmApart
<1> QED
  BY <1>2, <1>3, LeavesPlaces, LeavesOrder, LeavesMarks

\* What generates is something.
LEMMA StartingGenerates ==
    ASSUME Inv, PageInv, NEW r \in Request, NEW c \in Chat, gen[c] = [by |-> r, shown |-> FALSE]
    PROVE  gen[c] # None /\ gen[c].by = r /\ ~gen[c].shown /\ stands[r] = c
<1>1. gen[c] \in [by : Request \cup {Person}, shown : BOOLEAN] /\ gen[c].by = r /\ ~gen[c].shown
  OBVIOUS
<1>2. gen[c] # None
  BY <1>1, NativeAssumption
<1> QED
  BY <1>1, <1>2 DEF PageInv, Places, GenInv

LEMMA AliveStarting ==
    ASSUME Inv, PageInv, NEW r \in Request, Committed(r), active = r, r \notin done, stands[r] = route, ~Generating
    PROVE  Starting(r)
<1>1. gen[route] # None /\ gen[route].by = r /\ ~gen[route].shown
  BY DEF PageInv, Own, AliveInv, Generating
<1>2. route \in Chat /\ gen[route] \in [by : Request \cup {Person}, shown : BOOLEAN]
  BY <1>1 DEF Inv, Typed, TypeOK, SiteTypeOK
<1>3. gen[route] = [by |-> r, shown |-> FALSE]
  BY <1>1, <1>2
<1> QED
  BY <1>2, <1>3 DEF Starting

\* A Stop control that was watched and is gone on the turn's own page: the turn ended.
LEMMA ConfirmedEnded ==
    ASSUME Inv, PageInv, NEW k \in Job, NEW r \in Request, Confirmed(k, r), Interrupts(k) = r
    PROVE  Ended(r) /\ active = r
<1>1. /\ conf[k] = "watching" /\ active = r /\ route = send[r].conv /\ ~Generating
      /\ Committed(r)
  BY DEF Confirmed, StillBound, Bound, PageInv, Order, ConfInv
<1> SUFFICES ASSUME r \notin done, r \notin strayed PROVE FALSE
  BY <1>1 DEF Ended
<1>2. ~Starting(r) /\ (route = Start => stands[r] = Start)
  BY <1>1 DEF PageInv, Own, WatchInv
<1>3. stands[r] = route
  BY <1>1, <1>2, NativeAssumption DEF PageInv, Own, PlaceInv
<1> QED
  BY <1>1, <1>2, <1>3, AliveStarting

LEMMA EndedSure ==
    ASSUME NEW r \in Request, Ended(r)
    PROVE  Sure(r)
BY DEF Ended, Sure, Followed

LEMMA LastLeaves ==
    ASSUME Inv, PageInv, NEW r \in Request,
           CaptureCancelled(r) \/ AnswerTaken(r) \/ AnswerRefused(r) \/ FailureReported(r) \/ MonitorSettles(r)
    PROVE  Leaves(r)
<1>1. /\ UNCHANGED <<route, gen, stands, done, stop, told, strayed, conf>>
      /\ holds' \subseteq holds /\ misled \subseteq misled' /\ Teardown(r)
  BY DEF CaptureCancelled, AnswerTaken, AnswerRefused, FailureReported, MonitorSettles, Leave, site, book, worker
<1>2. send[r].at \in {"capturing", "answering", "erring", "monitor"}
  BY DEF CaptureCancelled, AnswerTaken, AnswerRefused, FailureReported, MonitorSettles
<1>3. Moved(r, "ended") /\ (send[r].at = "capturing" => send'[r].to = None)
  <2>1. CASE CaptureCancelled(r)
    BY <2>1, DropMoved DEF CaptureCancelled, Inv
  <2>2. CASE AnswerTaken(r) \/ AnswerRefused(r) \/ FailureReported(r) \/ MonitorSettles(r)
    <3>1. Goes(r, "ended") /\ send[r].at # "capturing"
      BY <2>2 DEF AnswerTaken, AnswerRefused, FailureReported, MonitorSettles, Leave
    <3> QED
      BY <3>1, GoesMoved DEF Inv
  <2> QED
    BY <2>1, <2>2
<1>4. Calm
  BY <1>1, <1>3, MovedPlaces, CalmWhen
<1>5. Committed(r) /\ active = r
  BY <1>2 DEF PageInv, Order, WorkInv, Submitted
<1>6. Ended(r) => Sure(r)'
  BY <1>4, EndedSure, CalmSure DEF Inv, Typed, TypeOK
<1>7. /\ held' \in {held, held \ {send[r].conv}}
      /\ r \in holding \/ send[r].conv \in held' \/ Sure(r)'
  <2>1. CASE CaptureCancelled(r)
    BY <1>6, <2>1 DEF CaptureCancelled, PageInv, Marks, MarkInv
  <2>2. CASE AnswerTaken(r) \/ AnswerRefused(r)
    BY <1>6, <2>2 DEF AnswerTaken, AnswerRefused, PageInv, Marks, AnswerInv, Ended
  <2>3. CASE FailureReported(r)
    BY <1>6, <2>3 DEF FailureReported, PageInv, Marks, ErrInv
  <2>4. CASE MonitorSettles(r)
    <3>1. /\ send[r].at = "monitor" /\ ~Generating /\ (send[r].saw \/ ~Starting(r))
          /\ held' = IF send[r].saw THEN held \ {send[r].conv} ELSE held
          /\ misled' = IF Bound(r) THEN misled ELSE misled \cup {r}
      BY <2>4 DEF MonitorSettles
    <3>2. send[r].conv \in held \/ Ended(r)
      BY <3>1 DEF PageInv, Marks, ErrInv
    <3>3. ASSUME send[r].saw, ~Ended(r) PROVE r \in misled' \/ stands[r] # send[r].conv
      <4> SUFFICES ASSUME r \notin misled', stands[r] = send[r].conv PROVE FALSE
        OBVIOUS
      <4>1. r \notin misled /\ route = send[r].conv
        BY <3>1 DEF Bound
      <4>2. ~Starting(r)
        BY <3>1, <3>3, <4>1 DEF PageInv, Marks, SawInv
      <4> QED
        BY <1>5, <3>1, <3>3, <4>1, <4>2, AliveStarting DEF Ended
    <3>4. ASSUME send[r].saw, ~Ended(r) PROVE Sure(r)'
      <4>1. r \notin holds /\ r \notin told
        BY <1>5, <3>1, <3>4 DEF PageInv, Order, MonInv, Marks, ToldInv
      <4>2. r \notin holds' /\ r \notin told' /\ stands' = stands /\ send'[r].conv = send[r].conv
        BY <1>1, <1>3, <4>1 DEF Moved
      <4>3. r \in misled' \/ stands'[r] # send'[r].conv
        BY <3>3, <3>4, <4>2
      <4> QED
        BY <4>2, <4>3 DEF Sure, Unsure
    <3> QED
      BY <1>6, <3>1, <3>2, <3>4
  <2> QED
    BY <2>1, <2>2, <2>3, <2>4
<1> QED
  BY <1>1, <1>2, <1>3, <1>4, <1>7 DEF Leaves

----------------------------------------------------------------------------
(* A submitted prompt                                                         *)

\* A step of a submitted prompt after which it is still the active one.
Works(r, w) ==
    /\ Calm /\ Moved(r, w) /\ UNCHANGED <<active, owed, stop, told>>
    /\ send[r].at \in Submitted /\ w \in Submitted
    /\ send'[r].to # None => w \in {"clicked", "capturing"}
    /\ holding' \in {holding, holding \cup {r}, holding \ {r}}
    /\ cancelled' \subseteq Request /\ cancelled' \ {r} = cancelled \ {r}
    /\ \A k \in Job \ {r} : conf'[k] = conf[k]
    /\ conf'[r] # "watching" /\ (conf'[r] # "none" => w \in {"unverified", "failing"})
    /\ \A c \in held \ held' : c = send[r].conv
    /\ r \in cancelled' \ holding' => w \in {"erring", "monitor"}
    /\ w = "answering" => r \in done
    /\ w \in {"erring", "monitor"} => send[r].conv \in held'
    /\ w = "monitor" => r \notin holds' /\ ~send'[r].saw

LEMMA WorksPlaces == ASSUME Inv, PageInv, NEW r \in Request, NEW w, Works(r, w) PROVE Places'
<1> USE ConstantTypes DEF Inv, Typed, TypeOK, PageInv, Places, Works
<1>1. GenInv' /\ UsedInv' /\ StrayInv'
  BY CalmSite
<1>2. AddressInv'
  BY CalmAddress, MovedPlaces
<1>3. TransInv'
  BY CalmTrans DEF Moved
<1>4. StopNameInv'
  BY CalmStops DEF PlacesInv
<1> QED
  BY <1>1, <1>2, <1>3, <1>4

LEMMA WorksOrder == ASSUME Inv, PageInv, NEW r \in Request, NEW w, Works(r, w) PROVE Order'
<1> USE ConstantTypes DEF Inv, Typed, TypeOK, PageInv, Order, Works, Moved, Others
<1>1. \A q : Committed(q)' <=> Committed(q)
  BY DEF Calm, Committed
<1>2. Committed(r) /\ active = r
  BY DEF WorkInv
<1>3. DoomInv'
  BY <1>1, <1>2 DEF DoomInv, Calm, WorkerTypeOK, Submitted
<1>4. OrderInv'
  BY DEF OrderInv, Submitted
<1>5. AskedInv'
  BY <1>1, <1>2 DEF AskedInv, Submitted
<1>6. ConfInv'
  <2>1. \A k \in Job : Interrupts(k)' = Interrupts(k)
    BY DEF Interrupts
  <2>2. r \in Job /\ Interrupts(r) = r
    BY DEF Interrupts, Job
  <2>3. ASSUME NEW k \in Job, conf'[k] # "none"
        PROVE  /\ Interrupts(k) \in Request /\ Committed(Interrupts(k))
               /\ k \in Request => send'[k].at \in {"unverified", "failing"}
    <3>1. CASE k = r
      BY <1>2, <2>2, <2>3, <3>1
    <3>2. CASE k # r
      BY <2>3, <3>2 DEF ConfInv
    <3> QED
      BY <3>1, <3>2
  <2>4. \A q \in holding' : Committed(q)'
    BY <1>1, <1>2 DEF ConfInv
  <2>5. \A q \in owed' : send'[q].at = "ended"
    <3>1. \A q \in owed : q # r /\ q \in Request
      BY DEF ConfInv, Submitted, ScriptTypeOK
    <3> QED
      BY <3>1 DEF ConfInv
  <2>6. \A x \in Halt : stop'[x].at = "confirming" => Committed(stop[x].id)'
    BY <1>1 DEF ConfInv
  <2> QED
    BY <1>1, <2>1, <2>3, <2>4, <2>5, <2>6 DEF ConfInv
<1>7. WorkInv'
  BY <1>1, <1>2 DEF WorkInv
<1>8. MonInv'
  BY DEF MonInv, Calm
<1> QED
  BY <1>3, <1>4, <1>5, <1>6, <1>7, <1>8

LEMMA WorksMarks == ASSUME Inv, PageInv, NEW r \in Request, NEW w, Works(r, w) PROVE Marks'
<1> USE ConstantTypes DEF Inv, Typed, TypeOK, PageInv, Marks, Works, Moved, Others
<1>1. /\ \A q : Committed(q)' <=> Committed(q)
      /\ \A q : Ended(q)' <=> Ended(q)
      /\ \A q : Starting(q)' <=> Starting(q)
  BY DEF Calm, Committed, Ended, Starting
<1>2. MarkInv'
  BY <1>1 DEF MarkInv, ScriptTypeOK
<1>3. AnswerInv'
  BY <1>1 DEF AnswerInv, Calm
<1>4. ErrInv'
  <2>1. \A q \in Request \ {r} : send[q].at \notin {"erring", "monitor"}
    BY DEF Order, WorkInv, Submitted
  <2> QED
    BY <2>1 DEF ErrInv
<1>5. SawInv'
  BY <1>1 DEF SawInv, Calm
<1>6. ToldInv'
  BY <1>1 DEF ToldInv, WorkerTypeOK
<1> QED
  BY <1>2, <1>3, <1>4, <1>5, <1>6

LEMMA WorksKnown == ASSUME Inv, PageInv, NEW r \in Request, NEW w, Works(r, w) PROVE PageInv'
<1> USE ConstantTypes DEF Inv, Typed, TypeOK, PageInv, Works, ScriptTypeOK
<1>1. Watchers
  <2>1. \A k \in Job : Interrupts(k)' = Interrupts(k)
    BY DEF Interrupts
  <2> QED
    BY <2>1 DEF Watchers
<1>2. Own'
  BY <1>1, CalmOwn
<1>3. Apart'
  <2>1. active = r
    BY DEF Order, WorkInv
  <2>2. \A c \in held \ held' : active # None /\ Had(active, c)
    BY <2>1 DEF Had
  <2> QED
    BY <2>1, <2>2, CalmApart
<1> QED
  BY <1>2, <1>3, WorksPlaces, WorksOrder, WorksMarks

LEMMA NextWorks ==
    ASSUME Inv, PageInv, NEW r \in Request, PromptSeen(r) \/ CaptureComplete(r)
    PROVE  \E w : Works(r, w)
<1>1. /\ UNCHANGED <<route, gen, stands, done, stop, told, strayed, misled, holds, conf, active, cancelled>>
      /\ UNCHANGED lease /\ r \notin cancelled /\ send[r].at \in {"clicked", "capturing"}
      /\ stands[r] = route
  BY DEF PromptSeen, CaptureComplete, site, book, worker, script
<1>2. r \in Job /\ conf[r] = "none"
  BY <1>1 DEF PageInv, Order, ConfInv, Job
<1>3. cancelled \subseteq Request
  BY DEF Inv, Typed, TypeOK, ScriptTypeOK
<1>4. CASE PromptSeen(r)
  <2>1. Moved(r, "capturing") /\ UNCHANGED held
    BY <1>4, GoesMoved DEF PromptSeen, Inv
  <2>2. Calm
    BY <1>1, <2>1, MovedPlaces, CalmWhen
  <2> QED
    BY <1>1, <1>2, <1>3, <2>1, <2>2 DEF Works, Submitted, lease
<1>5. CASE CaptureComplete(r)
  <2>1. /\ Moved(r, "answering") /\ send'[r].to = None /\ held' = held \ {send[r].conv}
        /\ ~Generating /\ ~Starting(r)
    BY <1>5, GoesMoved DEF CaptureComplete, Inv, BinderReturns
  <2>2. Calm
    BY <1>1, <2>1, MovedPlaces, CalmWhen
  <2>3. r \in done
    <3>1. Committed(r) /\ active = r
      BY <1>1 DEF PageInv, Order, WorkInv, Submitted
    <3> QED
      BY <1>1, <2>1, <3>1, AliveStarting
  <2>4. \A c \in held \ held' : c = send[r].conv
    BY <2>1
  <2> QED
    BY <1>1, <1>2, <1>3, <2>1, <2>2, <2>3, <2>4 DEF Works, Submitted, lease
<1> QED
  BY <1>4, <1>5

LEMMA FaultWorks ==
    ASSUME Inv, PageInv, NEW r \in Request, SubmitFaults(r) \/ CaptureFaults(r)
    PROVE  \E w : Works(r, w)
<1>1. /\ UNCHANGED <<route, gen, stands, done, stop, told, strayed, misled, holds, active, held>>
      /\ Hold(r, r) /\ send[r].at \in {"clicked", "capturing", "answering"}
  BY DEF SubmitFaults, CaptureFaults, site, book, worker
<1>2. PICK w \in {"unverified", "failing"} : send' = [send EXCEPT ![r].at = w, ![r].to = None]
  BY DEF SubmitFaults, CaptureFaults
<1>3. Moved(r, w) /\ send'[r].to = None
  BY <1>2, DropMoved DEF Inv
<1>4. Calm
  BY <1>1, <1>3, MovedPlaces, CalmWhen
<1>5. Typed /\ r \in Job
  BY DEF Inv, Job
<1>6. /\ holding' = holding \cup {r} /\ cancelled' = cancelled \cup {r} /\ owed' = owed \ {r}
      /\ \A k \in Job \ {r} : conf'[k] = conf[k]
      /\ conf'[r] = "seeking"
  BY <1>1, <1>5 DEF Hold, Typed, TypeOK, ScriptTypeOK
<1>7. r \notin owed /\ cancelled \subseteq Request
  BY <1>1, <1>5 DEF PageInv, Order, ConfInv, Typed, TypeOK, ScriptTypeOK
<1> QED
  BY <1>1, <1>2, <1>3, <1>4, <1>6, <1>7 DEF Works, Submitted

LEMMA ReleaseWorks ==
    ASSUME Inv, PageInv, NEW r \in Request, SubmitUnknown(r) \/ CaptureGivesUp(r)
    PROVE  \E w : Works(r, w)
<1>1. /\ UNCHANGED <<route, gen, stands, done, stop, told, strayed, misled>>
      /\ holds' \subseteq holds /\ held' = held \cup {send[r].conv}
      /\ send[r].at \in {"unverified", "failing"}
  BY DEF SubmitUnknown, CaptureGivesUp, site, book, worker
<1>2. PICK marks \in {cancelled, cancelled \cup {r}, cancelled \ {r}} : Release(r, r, marks)
  BY DEF SubmitUnknown, CaptureGivesUp
<1>3. Typed /\ r \in Job
  BY DEF Inv, Job
<1>4. r \notin owed /\ cancelled \subseteq Request
  BY <1>1, <1>3 DEF PageInv, Order, ConfInv, Typed, TypeOK, ScriptTypeOK
<1>5. /\ holding' = holding \ {r} /\ owed' = owed \ {r} /\ cancelled' = marks /\ active' = active
      /\ \A k \in Job \ {r} : conf'[k] = conf[k]
      /\ conf'[r] = "none"
  BY <1>2, <1>3, <1>4 DEF Release, Typed, TypeOK, ScriptTypeOK
<1>6. \E w \in {"monitor", "erring"} :
         /\ Moved(r, w) /\ send'[r].to = send[r].to
         /\ w = "monitor" => r \notin holds' /\ ~send'[r].saw
  <2>1. CASE SubmitUnknown(r)
    <3>1. send \in [Request -> SendType] /\ r \notin holds'
      BY <1>3, <2>1 DEF Typed, TypeOK, JobsTypeOK, SendType, SubmitUnknown
    <3>2. /\ send'[r] = [send[r] EXCEPT !.at = "monitor", !.saw = FALSE]
          /\ send[r] \in SendType /\ Others(r)
      BY <2>1, <3>1 DEF SubmitUnknown, Others
    <3> QED
      BY <3>1, <3>2 DEF Moved, SendType
  <2>2. CASE CaptureGivesUp(r)
    BY <1>3, <2>2, GoesMoved DEF CaptureGivesUp
  <2> QED
    BY <2>1, <2>2
<1>7. PICK w \in {"monitor", "erring"} :
         /\ Moved(r, w) /\ send'[r].to = send[r].to
         /\ w = "monitor" => r \notin holds' /\ ~send'[r].saw
  BY <1>6
<1>8. Calm
  BY <1>1, <1>7, MovedPlaces, CalmWhen
<1>9. send'[r].to = None
  BY <1>1, <1>7 DEF PageInv, Places, TransInv
<1>10. /\ cancelled' \subseteq Request /\ cancelled' \ {r} = cancelled \ {r}
       /\ owed' = owed
  BY <1>2, <1>4, <1>5
<1> QED
  BY <1>1, <1>5, <1>7, <1>8, <1>9, <1>10 DEF Works, Submitted

\* The prompt was stopped: the turn ends without a teardown.
LEMMA StoppedKnown == ASSUME Inv, PageInv, NEW r \in Request, SubmitStopped(r) PROVE PageInv'
<1> USE ConstantTypes DEF PageInv
<1>1. /\ UNCHANGED <<route, gen, stands, done, stop, told, strayed, misled>>
      /\ holds' \subseteq holds /\ held' = held \ {send[r].conv}
      /\ send[r].at = "unverified" /\ Confirmed(r, r)
      /\ holding' = holding \ {r} /\ owed' = owed \ {r} /\ cancelled' = cancelled \ {r} /\ active' = None
      /\ conf' = [conf EXCEPT ![r] = "none"]
  BY DEF SubmitStopped, Refuse, site, book
<1>2. Moved(r, "ended") /\ send'[r].to = send[r].to
  BY GoesMoved DEF SubmitStopped, Refuse, Inv
<1>3. Calm
  BY <1>1, <1>2, MovedPlaces, CalmWhen
<1>4. Typed /\ r \in Job /\ Interrupts(r) = r /\ cancelled \subseteq Request
  BY DEF Inv, Job, Interrupts, Typed, TypeOK, ScriptTypeOK
<1>5. Ended(r) /\ active = r /\ Committed(r)
  BY <1>1, <1>4, ConfirmedEnded DEF Order, WorkInv, Submitted
<1>6. conf'[r] = "none" /\ \A k \in Job \ {r} : conf'[k] = conf[k]
  BY <1>1, <1>4 DEF Typed, TypeOK, ScriptTypeOK
<1>7. \A k \in Job : Interrupts(k)' = Interrupts(k)
  BY <1>1 DEF Interrupts
<1>8. \A q : Committed(q)' <=> Committed(q)
  BY <1>3 DEF Calm, Committed
<1> USE DEF Typed, TypeOK
<1>9. Places'
  <2>1. GenInv' /\ UsedInv' /\ StrayInv'
    BY <1>3, <1>4, CalmSite DEF Places
  <2>2. AddressInv'
    BY <1>2, <1>3, CalmAddress, MovedPlaces DEF Places
  <2>3. TransInv'
    <3>1. send'[r].to = None
      BY <1>1, <1>2 DEF Places, TransInv
    <3> QED
      BY <1>2, <1>3, <3>1, CalmTrans DEF Moved, Places
  <2>4. StopNameInv'
    BY <1>1, <1>3, <1>4, CalmStops DEF PlacesInv, Places
  <2> QED
    BY <2>1, <2>2, <2>3, <2>4 DEF Places
<1>10. Order'
  <2> USE DEF Order, Moved, Others
  <2>1. DoomInv'
    BY <1>1, <1>2, <1>3, <1>4, <1>5, <1>8 DEF DoomInv, Calm, WorkerTypeOK
  <2>2. OrderInv'
    BY <1>1, <1>2 DEF OrderInv
  <2>3. AskedInv'
    BY <1>1 DEF AskedInv
  <2>4. ConfInv'
    <3>1. \A q \in owed' : send'[q].at = "ended"
      BY <1>1, <1>2, <1>4 DEF ConfInv, ScriptTypeOK
    <3>2. \A q \in holding' : Committed(q)'
      BY <1>1, <1>8 DEF ConfInv
    <3>3. ASSUME NEW k \in Job, conf'[k] # "none"
          PROVE  /\ Interrupts(k) \in Request /\ Committed(Interrupts(k))
                 /\ k \in Request => send'[k].at \in {"unverified", "failing"}
      BY <1>2, <1>6, <3>3 DEF ConfInv
    <3>4. \A x \in Halt : stop'[x].at = "confirming" => Committed(stop[x].id)'
      BY <1>1, <1>8 DEF ConfInv
    <3> QED
      BY <1>7, <1>8, <3>1, <3>2, <3>3, <3>4 DEF ConfInv
  <2>5. WorkInv'
    BY <1>1, <1>2, <1>5, <1>8 DEF WorkInv, Submitted
  <2>6. MonInv'
    BY <1>2, <1>3 DEF MonInv, Calm
  <2> QED
    BY <2>1, <2>2, <2>3, <2>4, <2>5, <2>6
<1>11. Marks'
  <2> USE DEF Marks, Moved, Others
  <2>1. /\ \A q : Ended(q)' <=> Ended(q)
        /\ \A q : Starting(q)' <=> Starting(q)
    BY <1>1 DEF Ended, Starting
  <2>2. MarkInv'
    BY <1>1, <1>2, <1>4, <2>1 DEF MarkInv
  <2>3. AnswerInv'
    BY <1>1, <1>2 DEF AnswerInv
  <2>4. ErrInv'
    <3>1. \A q \in Request \ {r} : send[q].at \notin {"erring", "monitor"}
      BY <1>5 DEF Order, WorkInv, Submitted
    <3> QED
      BY <1>2, <3>1 DEF ErrInv
  <2>5. SawInv'
    BY <1>1, <1>2, <2>1 DEF SawInv
  <2>6. ToldInv'
    BY <1>1, <1>4 DEF ToldInv, WorkerTypeOK
  <2> QED
    BY <2>2, <2>3, <2>4, <2>5, <2>6
<1>12. Own'
  <2>1. Watchers
    BY <1>6, <1>7 DEF Watchers
  <2> QED
    BY <1>1, <1>3, <1>5, <2>1, CalmOwn
<1>13. Apart'
  <2>1. Sure(r)'
    BY <1>3, <1>4, <1>5, EndedSure, CalmSure
  <2>2. \A c \in held \ held' : active # None /\ Had(active, c)
    BY <1>1, <1>5 DEF Had
  <2> QED
    BY <1>1, <1>3, <1>4, <1>5, <2>1, <2>2, CalmApart
<1> QED
  BY <1>9, <1>10, <1>11, <1>12, <1>13

----------------------------------------------------------------------------
(* Steps that move no job                                                     *)

\* Every job stays where it is; an answer may end, and a turn may go astray.
Still ==
    /\ UNCHANGED <<stop, cancelled, active, lease, told, holds, held>>
    /\ \A q \in Request : /\ send'[q].at = send[q].at /\ (Committed(q)' <=> Committed(q))
                          /\ send[q].at \in {"erring", "monitor"} => send'[q].conv = send[q].conv
    /\ \A k \in Job : conf'[k] # "none" => conf[k] # "none"
    /\ done \subseteq done' /\ strayed \subseteq strayed'

LEMMA StillOrder == ASSUME Inv, Order, Still PROVE Order'
<1> USE DEF Order, Still
<1>1. Typed
  BY DEF Inv
<1>2. DoomInv'
  BY <1>1 DEF DoomInv, Typed, TypeOK, WorkerTypeOK
<1>3. OrderInv'
  BY DEF OrderInv
<1>4. AskedInv'
  BY <1>1 DEF AskedInv, Typed, TypeOK, ScriptTypeOK
<1>5. ConfInv'
  <2>1. \A k \in Job : Interrupts(k)' = Interrupts(k)
    BY DEF Interrupts
  <2>2. \A q \in holding' : Committed(q)'
    BY <1>1 DEF ConfInv, lease, Typed, TypeOK, ScriptTypeOK
  <2>3. \A q \in owed' : send'[q].at = "ended"
    BY <1>1 DEF ConfInv, lease, Typed, TypeOK, ScriptTypeOK
  <2>4. \A x \in Halt : stop'[x].at = "confirming" => Committed(stop[x].id)'
    BY <1>1 DEF ConfInv, Typed, PlacesInv
  <2> QED
    BY <1>1, <2>1, <2>2, <2>3, <2>4 DEF ConfInv
<1>6. WorkInv' /\ MonInv'
  BY DEF WorkInv, MonInv
<1> QED
  BY <1>2, <1>3, <1>4, <1>5, <1>6

LEMMA StillMarks ==
    ASSUME Inv, Marks, Still
    PROVE  MarkInv' /\ AnswerInv' /\ ErrInv' /\ ToldInv'
<1> USE DEF Marks, Still, Ended
<1>1. Typed
  BY DEF Inv
<1>2. MarkInv'
  BY <1>1 DEF MarkInv, lease, Typed, TypeOK, ScriptTypeOK
<1>3. AnswerInv' /\ ErrInv'
  BY DEF AnswerInv, ErrInv
<1>4. ToldInv'
  BY <1>1 DEF ToldInv, Typed, TypeOK, WorkerTypeOK
<1> QED
  BY <1>2, <1>3, <1>4

\* What a step that moves no job and no prompt leaves to be shown.
LEMMA StillCalm ==
    ASSUME Inv, PageInv, Still, Calm
    PROVE  /\ GenInv' /\ UsedInv' /\ StrayInv' /\ StopNameInv'
           /\ Order' /\ MarkInv' /\ AnswerInv' /\ ErrInv' /\ ToldInv'
           /\ PlaceInv' /\ HomeInv' /\ FarInv' /\ AliveInv' /\ (Watchers => Own')
           /\ Apart'
<1> USE ConstantTypes DEF Inv, Typed, TypeOK, PageInv, ScriptTypeOK
<1>1. GenInv' /\ UsedInv' /\ StrayInv'
  BY CalmSite DEF Places
<1>2. StopNameInv'
  BY CalmStops DEF Places, Still, PlacesInv
<1>3. active' = active /\ held' = held
  BY DEF Still
<1>4. Apart'
  BY <1>3, CalmApart
<1> QED
  BY <1>1, <1>2, <1>3, <1>4, StillOrder, StillMarks, CalmHome, CalmOwn

LEMMA SeeKnown == ASSUME Inv, PageInv, NEW r \in Request, See(r) PROVE PageInv'
<1> USE ConstantTypes
<1>1. send \in [Request -> SendType] /\ misled' \subseteq misled \cup {r}
  BY DEF Inv, Typed, TypeOK, JobsTypeOK, SendType, See
<1>2. /\ \A q \in Request \ {r} : send'[q] = send[q]
      /\ send'[r] = [send[r] EXCEPT !.saw = TRUE]
  BY <1>1 DEF See
<1>3. \A q \in Request : /\ send'[q].at = send[q].at /\ send'[q].conv = send[q].conv
                         /\ send'[q].used = send[q].used /\ send'[q].to = send[q].to
                         /\ q # r => send'[q].saw = send[q].saw
  BY <1>1, <1>2 DEF SendType
<1>4. UNCHANGED <<site, script, lease, held, stop, conf, worker, told, strayed>>
  BY DEF See
<1>5. misled \subseteq misled'
  BY DEF See
<1>6. Calm
  BY <1>3, <1>4, <1>5, CalmWhen DEF site, worker
<1>7. Still
  BY <1>3, <1>4 DEF Still, site, script, worker, Committed
<1>8. Watchers
  BY <1>4 DEF Watchers, Interrupts
<1>9. AddressInv' /\ TransInv'
  <2>1. AddressInv'
    BY <1>3, <1>6, CalmAddress DEF PageInv, Places
  <2>2. TransInv'
    BY <1>3 DEF PageInv, Places, TransInv
  <2> QED
    BY <2>1, <2>2
<1>10. SawInv'
  <2> SUFFICES ASSUME NEW q \in Request \ misled', send'[q].at = "monitor", send'[q].saw,
                      stands'[q] = send'[q].conv, Starting(q)'
               PROVE  FALSE
    BY DEF SawInv
  <2>1. /\ q \notin misled /\ send[q].at = "monitor" /\ stands[q] = send[q].conv /\ Starting(q)
    BY <1>3, <1>4, <1>5 DEF site, Starting
  <2>2. CASE q # r
    BY <1>3, <2>1, <2>2 DEF PageInv, Marks, SawInv
  <2>3. CASE q = r
    <3>1. Bound(r) /\ Generating
      BY <2>1, <2>3 DEF See
    <3>2. PICK c \in Chat : gen[c] = [by |-> r, shown |-> FALSE]
      BY <2>1, <2>3 DEF Starting
    <3>3. gen[c] # None /\ ~gen[c].shown /\ stands[r] = c
      BY <3>2, StartingGenerates
    <3> QED
      BY <2>1, <2>3, <3>1, <3>3 DEF Bound, Generating
  <2> QED
    BY <2>2, <2>3
<1> QED
  BY <1>6, <1>7, <1>8, <1>9, <1>10, StillCalm DEF PageInv, Places, Marks

LEMMA AskKnown == ASSUME Inv, PageInv, NEW r \in Request, AskTransition(r) PROVE PageInv'
<1> USE ConstantTypes
<1>1. send \in [Request -> SendType] /\ route \in Chat
  BY DEF Inv, Typed, TypeOK, JobsTypeOK, SendType, SiteTypeOK
<1>2. /\ \A q \in Request \ {r} : send'[q] = send[q]
      /\ send'[r] = [send[r] EXCEPT !.to = route]
  BY <1>1 DEF AskTransition
<1>3. \A q \in Request : /\ send'[q].at = send[q].at /\ send'[q].conv = send[q].conv
                         /\ send'[q].used = send[q].used /\ send'[q].saw = send[q].saw
                         /\ send'[q].to = IF q = r THEN route ELSE send[q].to
  BY <1>1, <1>2 DEF SendType
<1>4. UNCHANGED <<site, script, lease, held, stop, conf, worker, told, strayed, misled>>
  BY DEF AskTransition, book
<1>5. Calm
  BY <1>3, <1>4, CalmWhen DEF site, worker
<1>6. Still
  BY <1>3, <1>4 DEF Still, site, script, worker, Committed
<1>7. Watchers
  BY <1>4 DEF Watchers, Interrupts
<1>8. AddressInv'
  BY <1>3, <1>4 DEF PageInv, Places, AddressInv, Given, site
<1>9. TransInv'
  BY <1>3 DEF PageInv, Places, TransInv, AskTransition, MayTransit
<1>10. SawInv'
  BY <1>3, <1>4 DEF PageInv, Marks, SawInv, Starting, site
<1> QED
  BY <1>5, <1>6, <1>7, <1>8, <1>9, <1>10, StillCalm DEF PageInv, Places, Marks

LEMMA ClicksKnown == ASSUME Inv, PageInv, NEW k \in Job, Clicks(k) PROVE PageInv'
<1> USE ConstantTypes
<1>1. UNCHANGED <<site, script, lease, held, send, stop, worker, told, strayed, misled>>
  BY DEF Clicks, book
<1>2. Calm
  BY <1>1, CalmWhen DEF site, worker
<1>3. /\ \A j \in Job \ {k} : conf'[j] = conf[j]
      /\ conf[k] = "seeking" /\ conf'[k] = "watching"
  BY DEF Clicks, Inv, Typed, TypeOK, ScriptTypeOK
<1>4. Still
  BY <1>1, <1>3 DEF Still, site, script, worker, Committed
<1>5. AddressInv' /\ TransInv' /\ SawInv'
  BY <1>1 DEF PageInv, Places, Marks, AddressInv, TransInv, SawInv, Given, Starting, site
<1>6. WatchInv'
  <2> DEFINE Seen == /\ ~Starting(active)
                     /\ route = Start /\ send[active].conv = Start => stands[active] = Start
  <2>1. ASSUME NEW r \in Request \ strayed, Interrupts(k) = r, active = r PROVE Seen
    <3>1. route = send[r].conv /\ gen[route] # None /\ gen[route].shown
      BY <2>1 DEF Clicks, StillBound, Bound, Generating
    <3>2. Committed(r)
      BY <1>3, <2>1 DEF PageInv, Order, ConfInv
    <3>3. route = Start => stands[r] = Start
      <4> SUFFICES ASSUME route = Start PROVE stands[r] = Start
        OBVIOUS
      <4>1. gen[Start].by \in Request
        BY <3>1 DEF Inv, Typed, TypeOK, SiteTypeOK, PageInv, Places, GenInv
      <4>2. stands[gen[Start].by] = Start
        BY <3>1, <4>1 DEF PageInv, Places, GenInv
      <4> QED
        BY <2>1, <3>1, <3>2, <4>1, <4>2 DEF PageInv, Own, HomeInv
    <3>4. stands[r] = route
      BY <2>1, <3>1, <3>2, <3>3, NativeAssumption DEF PageInv, Own, PlaceInv
    <3>5. ~Starting(r)
      <4> SUFFICES ASSUME NEW c \in Chat, gen[c] = [by |-> r, shown |-> FALSE] PROVE FALSE
        BY DEF Starting
      <4>1. ~gen[c].shown /\ stands[r] = c
        BY StartingGenerates
      <4> QED
        BY <3>1, <3>4, <4>1
    <3> QED
      BY <2>1, <3>3, <3>5
  <2>2. \A j \in Job : Interrupts(j)' = Interrupts(j)
    BY <1>1 DEF Interrupts
  <2>3. ASSUME NEW j \in Job, conf'[j] = "watching", active = Interrupts(j), active \in Request \ strayed
        PROVE  Seen
    <3>1. CASE j = k
      BY <2>1, <2>3, <3>1
    <3>2. CASE j # k
      BY <1>3, <2>3, <3>2 DEF PageInv, Own, WatchInv
    <3> QED
      BY <3>1, <3>2
  <2>4. UNCHANGED <<route, gen, stands, active, strayed, send>>
    BY <1>1 DEF site, script
  <2>5. Starting(active)' <=> Starting(active)
    BY <2>4 DEF Starting
  <2> QED
    BY <2>2, <2>3, <2>4, <2>5 DEF WatchInv
<1> QED
  BY <1>2, <1>4, <1>5, <1>6, StillCalm DEF PageInv, Places, Marks, Own

\* The page takes another conversation for the turn's own.
LEMMA AdmittedKnown == ASSUME Inv, PageInv, NEW r \in Request, TransitionAdmitted(r) PROVE PageInv'
<1> USE ConstantTypes
<1> DEFINE c == send[r].to
<1>0. Typed /\ send \in [Request -> SendType] /\ strayed \subseteq Request
  BY DEF Inv, Typed, TypeOK, JobsTypeOK, SendType, WorkerTypeOK
<1>1. /\ c # None /\ c # Start /\ send[r].conv = Start /\ ~send[r].used
      /\ send[r].at \in {"clicked", "capturing"}
  BY DEF TransitionAdmitted, PageInv, Places, TransInv
<1>2. Committed(r) /\ active = r
  BY <1>1 DEF PageInv, Order, WorkInv, Submitted
<1>3. /\ \A q \in Request \ {r} : send'[q] = send[q]
      /\ send'[r] = [send[r] EXCEPT !.conv = c, !.used = TRUE, !.to = None]
  BY <1>0 DEF TransitionAdmitted
<1>4. /\ send'[r].at = send[r].at /\ send'[r].conv = c /\ send'[r].used /\ send'[r].to = None
  BY <1>0, <1>3 DEF SendType
<1> HIDE DEF c
<1>5. /\ UNCHANGED <<route, gen, stands, done, script, lease, held, stop, conf, holds, told, misled>>
      /\ strayed' = IF stands[r] # c THEN strayed \cup {r} ELSE strayed
  BY DEF TransitionAdmitted, site, worker, c
<1>6. \A q \in Request : Committed(q)' <=> Committed(q)
  BY <1>5 DEF Committed
<1>7. Still
  BY <1>1, <1>3, <1>4, <1>5, <1>6 DEF Still, script
<1>8. Places'
  <2> USE DEF PageInv, Places
  <2>1. GenInv'
    BY <1>5 DEF GenInv, Committed
  <2>2. AddressInv'
    <3>1. c \in Fresh => c \in Given
      BY DEF AddressInv, c
    <3>2. Given' = Given /\ None \notin Fresh
      BY <1>5, NativeAssumption DEF Given
    <3> QED
      BY <1>3, <1>4, <1>5, <3>1, <3>2, ZenonT(30) DEF AddressInv
  <2>0. \A q \in Request : q # r => send'[q] = send[q]
    BY <1>3
  <2>3. TransInv'
    BY <1>4, <2>0 DEF TransInv
  <2>4. UsedInv'
    BY <1>1, <1>2, <1>3, <1>4, <1>6 DEF UsedInv
  <2>5. StrayInv'
    BY <1>0, <1>3, <1>4, <1>5 DEF StrayInv
  <2>6. StopNameInv'
    <3>1. \A q \in Request : \A d : Had(q, d) => Had(q, d)'
      BY <1>1, <1>4, <2>0 DEF Had
    <3> QED
      BY <1>0, <1>5, <3>1 DEF StopNameInv, Typed, PlacesInv
  <2> QED
    BY <2>1, <2>2, <2>3, <2>4, <2>5, <2>6
<1>9. \A q : Starting(q)' <=> Starting(q)
  BY <1>5 DEF Starting
<1>10. Marks'
  <2>1. SawInv'
    BY <1>1, <1>3, <1>4, <1>5, <1>9 DEF PageInv, Marks, SawInv
  <2> QED
    BY <1>7, <2>1, StillMarks DEF PageInv, Marks
<1>11. Own'
  <2> USE DEF PageInv, Own
  <2>1. active' = active
    BY <1>5 DEF script
  <2>2. PlaceInv'
    BY <1>2, <1>4, <1>5, <2>1 DEF PlaceInv
  <2>3. HomeInv' /\ FarInv'
    BY <1>1, <1>2, <1>4, <2>1 DEF HomeInv, FarInv
  <2>4. WatchInv'
    <3>1. \A k \in Job : Interrupts(k)' = Interrupts(k)
      BY <1>5 DEF Interrupts
    <3>2. \A k \in Job : conf[k] = "watching" /\ r = Interrupts(k) /\ r \notin strayed => ~Starting(r)
      BY <1>2 DEF WatchInv
    <3>3. Starting(active)' <=> Starting(r)
      BY <1>2, <1>5, <2>1 DEF Starting
    <3> QED
      BY <1>1, <1>2, <1>4, <1>5, <2>1, <3>1, <3>2, <3>3 DEF WatchInv
  <2>5. AliveInv'
    BY <1>5, <1>6, <2>1 DEF AliveInv
  <2> QED
    BY <2>2, <2>3, <2>4, <2>5
<1>12. Apart'
  <2>1. active' = active
    BY <1>5 DEF script
  <2>2. \A d : Followed(d) => Followed(d)'
    BY <1>0, <1>1, <1>3, <1>5 DEF Followed, PageInv, Places, StrayInv
  <2>3. \A q \in Request \ {r} : Sure(q) => Sure(q)'
    <3> SUFFICES ASSUME NEW q \in Request \ {r}, Sure(q) PROVE Sure(q)'
      OBVIOUS
    <3>1. send'[q] = send[q]
      BY <1>3
    <3>2. Belated(q) => Belated(q)'
      BY <1>5 DEF Belated
    <3>3. Unsure(q) => Unsure(q)'
      BY <1>5, <3>1 DEF Unsure
    <3> QED
      BY <1>5, <2>2, <3>1, <3>2, <3>3 DEF Sure
  <2>4. HoldInv'
    BY <1>2, <1>3, <1>5, <1>6, <2>1, <2>3 DEF PageInv, Apart, HoldInv
  <2>5. ExclInv'
    <3> SUFFICES ASSUME NEW q \in Request \ {r}, Committed(q), send[q].conv \in {c, Start} PROVE Sure(q)'
      BY <1>2, <1>3, <1>4, <1>6, <2>1 DEF ExclInv, Had
    <3>1. CASE send[q].conv = Start
      BY <1>1, <1>2, <2>3, <3>1 DEF PageInv, Apart, ExclInv, Had
    <3>2. CASE send[q].conv = c /\ stands[r] = c
      BY <1>1, <1>2, <3>2 DEF PageInv, Own, FarInv
    <3>3. CASE send[q].conv = c /\ stands[r] # c
      <4>1. r \in strayed' /\ send'[r].conv = send'[q].conv
        BY <1>3, <1>4, <1>5, <3>3
      <4> QED
        BY <4>1 DEF Sure, Followed
    <3> QED
      BY <3>1, <3>2, <3>3
  <2> QED
    BY <2>4, <2>5 DEF Apart
<1> QED
  BY <1>7, <1>8, <1>10, <1>11, <1>12, StillOrder DEF PageInv

----------------------------------------------------------------------------
(* A prompt enters the page                                                   *)

LEMMA AdmitKnown == ASSUME Inv, PageInv, NEW r \in Request, Admit(r) PROVE PageInv'
<1> USE ConstantTypes DEF PageInv
<1>0. Typed
  BY DEF Inv
<1>1. /\ UNCHANGED <<route, gen, stands, done, stop, told, strayed, misled, holds, cancelled, held, conf>>
      /\ UNCHANGED lease /\ send[r].at = "asked" /\ send[r].conv \notin held /\ active' = r
  BY DEF Admit, Foremost, site, worker, book
<1>2. Moved(r, "accepted") /\ send'[r].to = send[r].to
  BY <1>0, GoesMoved DEF Admit
<1>3. ~Committed(r) /\ stands[r] = None
  BY <1>1 DEF Inv, UnsentInv, Unsent, Early, Committed
<1>4. active # None => ~Committed(active)
  BY <1>1 DEF Order, AskedInv
<1>5. Calm
  BY <1>1, <1>2, MovedPlaces, CalmWhen
<1>6. \A q : Committed(q)' <=> Committed(q)
  BY <1>1 DEF Committed
<1>7. Places'
  <2> USE <1>0 DEF Places, Typed, TypeOK
  <2>1. GenInv' /\ UsedInv' /\ StrayInv'
    BY <1>5, CalmSite
  <2>2. AddressInv'
    BY <1>2, <1>5, CalmAddress, MovedPlaces
  <2>3. TransInv'
    <3>1. send'[r].to = None
      BY <1>1, <1>2 DEF TransInv
    <3> QED
      BY <1>2, <1>5, <3>1, CalmTrans DEF Moved
  <2>4. StopNameInv'
    BY <1>1, <1>5, CalmStops DEF PlacesInv
  <2> QED
    BY <2>1, <2>2, <2>3, <2>4
<1>8. Order'
  <2> USE DEF Order, Moved, Others
  <2>1. DoomInv'
    BY <1>0, <1>1, <1>2, <1>6 DEF DoomInv, Typed, TypeOK, WorkerTypeOK
  <2>2. OrderInv'
    BY <1>1, <1>2 DEF OrderInv
  <2>3. AskedInv'
    <3> SUFFICES ASSUME NEW p \in Request, send'[p].at = "asked" PROVE r \in cancelled
      BY <1>1, <1>3, <1>6 DEF AskedInv
    <3>1. p # r /\ send[p].at = "asked"
      BY <1>2
    <3>2. \A q \in 1..(r - 1) : send[q].at # "asked"
      BY DEF Admit, Foremost
    <3>3. r < p
      BY <3>1, <3>2, NativeAssumption DEF Request
    <3>4. r \in told
      BY <1>1, <3>1, <3>3 DEF OrderInv
    <3> QED
      BY <1>1, <1>3, <3>4 DEF DoomInv
  <2>4. ConfInv'
    <3>1. \A k \in Job : Interrupts(k)' = Interrupts(k)
      BY <1>1 DEF Interrupts
    <3>2. \A k \in Job : conf[k] # "none" => k # r
      BY <1>1 DEF ConfInv
    <3>3. \A q \in holding' : Committed(q)'
      BY <1>1, <1>6 DEF ConfInv, lease
    <3>4. \A q \in owed' : send'[q].at = "ended"
      BY <1>0, <1>1, <1>2 DEF ConfInv, lease, Typed, TypeOK, ScriptTypeOK
    <3>5. \A x \in Halt : stop'[x].at = "confirming" => Committed(stop[x].id)'
      BY <1>1, <1>6 DEF ConfInv
    <3> QED
      BY <1>1, <1>2, <1>6, <3>1, <3>2, <3>3, <3>4, <3>5 DEF ConfInv
  <2>5. WorkInv'
    <3>1. \A q \in Request : send[q].at \notin Submitted
      BY <1>4, ConstantTypes DEF WorkInv
    <3> QED
      BY <1>2, <1>3, <1>6, <3>1 DEF WorkInv, Submitted
  <2>6. MonInv'
    BY <1>1, <1>2 DEF MonInv
  <2> QED
    BY <2>1, <2>2, <2>3, <2>4, <2>5, <2>6
<1>9. Marks'
  <2> USE <1>0 DEF Marks, Moved, Others, Typed, TypeOK
  <2>1. /\ \A q : Ended(q)' <=> Ended(q)
        /\ \A q : Starting(q)' <=> Starting(q)
    BY <1>1 DEF Ended, Starting
  <2>2. MarkInv'
    BY <1>1, <1>2, <2>1 DEF MarkInv, lease, ScriptTypeOK
  <2>3. AnswerInv' /\ ErrInv'
    BY <1>1, <1>2, <2>1 DEF AnswerInv, ErrInv
  <2>4. SawInv'
    BY <1>1, <1>2, <2>1 DEF SawInv
  <2>5. ToldInv'
    BY <1>1, <1>3, <1>6 DEF ToldInv, WorkerTypeOK
  <2> QED
    BY <2>2, <2>3, <2>4, <2>5
<1>10. Own'
  <2>1. ~Committed(r)'
    BY <1>3, <1>6
  <2>2. PlaceInv' /\ AliveInv'
    BY <1>1, <1>3, <1>6 DEF PlaceInv, AliveInv
  <2>3. HomeInv' /\ FarInv'
    BY <1>1, <1>3 DEF HomeInv, FarInv, Committed
  <2>4. WatchInv'
    <3>1. \A k \in Job : Interrupts(k)' = Interrupts(k)
      BY <1>1 DEF Interrupts
    <3>2. \A k \in Job : conf[k] # "none" => Interrupts(k) # r
      BY <1>3 DEF Order, ConfInv
    <3> QED
      BY <1>1, <3>1, <3>2 DEF WatchInv
  <2> QED
    BY <2>2, <2>3, <2>4 DEF Own
<1>11. Apart'
  <2>1. \A q \in Request : Sure(q) => Sure(q)'
    BY <1>0, <1>5, CalmSure DEF Typed, TypeOK
  <2>2. \A q \in Request : Committed(q) => send[q].conv \in held \/ Sure(q)
    BY <1>4, ConstantTypes DEF Apart, HoldInv
  <2>3. \A q \in Request : send'[q].conv = send[q].conv /\ send'[q].used = send[q].used
    BY <1>5 DEF Calm
  <2>4. HoldInv'
    BY <1>1, <1>6, <2>1, <2>2, <2>3 DEF HoldInv
  <2>5. ~send'[r].used
    BY <1>3, <2>3 DEF Places, UsedInv
  <2>6. ExclInv'
    <3> SUFFICES ASSUME NEW q \in Request, Committed(q), send'[q].conv = send'[r].conv PROVE Sure(q)'
      BY <1>1, <1>6, <2>5 DEF ExclInv, Had
    <3> QED
      BY <1>1, <2>1, <2>2, <2>3
  <2> QED
    BY <2>4, <2>6 DEF Apart
<1> QED
  BY <1>7, <1>8, <1>9, <1>10, <1>11

LEMMA RegisterKnown == ASSUME Inv, PageInv, NEW r \in Request, Register(r) PROVE PageInv'
<1> USE ConstantTypes DEF PageInv
<1>0. Typed /\ send \in [Request -> SendType] /\ strayed \subseteq Request /\ holding \subseteq Request
      /\ owed \subseteq Request /\ cancelled \subseteq Request /\ told \subseteq Request
      /\ active \in Request \cup {None}
  BY DEF Inv, Typed, TypeOK, JobsTypeOK, SendType, WorkerTypeOK, ScriptTypeOK
<1>1. /\ UNCHANGED <<route, gen, stands, done, stop, told, strayed, misled, cancelled, active, held, conf>>
      /\ UNCHANGED lease /\ send[r].at = "idle" /\ holds = {} /\ holds' = {r}
      /\ \A q \in 1..(r - 1) : send[q].at # "idle" /\ (send[q].at \in {"sent", "asked"} => q \in told)
  BY DEF Register, site, script, book
<1>2. /\ \A q \in Request \ {r} : send'[q] = send[q]
      /\ send'[r] = [send[r] EXCEPT !.at = "sent", !.conv = route]
  BY <1>0 DEF Register
<1>3. /\ send'[r].at = "sent" /\ send'[r].conv = route /\ send'[r].used = send[r].used
      /\ send'[r].to = send[r].to
  BY <1>0, <1>2 DEF SendType
<1>4. \A q \in Request : q # r => send'[q] = send[q]
  BY <1>2
<1>5. ~Committed(r) /\ stands[r] = None
  BY <1>1 DEF Inv, UnsentInv, Unsent, Early, Committed
<1>6. ~send[r].used /\ send[r].to = None /\ r \notin strayed /\ active # r
  BY <1>0, <1>1, <1>5 DEF Places, UsedInv, TransInv, StrayInv, Inv, ActiveInv, Early
<1>7. \A q : /\ Committed(q)' <=> Committed(q)
             /\ Ended(q)' <=> Ended(q)
             /\ Starting(q)' <=> Starting(q)
  BY <1>1 DEF Committed, Ended, Starting
<1>8. Places'
  <2> USE DEF Places
  <2>1. GenInv'
    BY <1>1, <1>7 DEF GenInv
  <2>2. AddressInv'
    <3>1. Given' = Given
      BY <1>1 DEF Given
    <3> QED
      BY <1>1, <1>3, <1>4, <1>6, <3>1, NativeAssumption DEF AddressInv
  <2>3. TransInv'
    BY <1>3, <1>4, <1>6 DEF TransInv
  <2>4. UsedInv' /\ StrayInv'
    BY <1>0, <1>1, <1>3, <1>4, <1>6, <1>7 DEF UsedInv, StrayInv
  <2>5. StopNameInv'
    <3>1. \A x \in Halt : stop[x].at = "confirming" => stop[x].id # r /\ stop[x].id \in Request
      BY <1>0, <1>5 DEF Order, ConfInv, Typed, PlacesInv
    <3> QED
      BY <1>1, <1>4, <3>1 DEF StopNameInv, Had
  <2> QED
    BY <2>1, <2>2, <2>3, <2>4, <2>5
<1>9. Order'
  <2> USE DEF Order
  <2>1. DoomInv'
    BY <1>0, <1>1, <1>3, <1>4, <1>7 DEF DoomInv
  <2>2. OrderInv'
    <3> SUFFICES ASSUME NEW p \in Request, NEW q \in Request, p < q, send'[q].at # "idle"
                 PROVE  send'[p].at # "idle" /\ (send'[p].at \in {"sent", "asked"} => p \in told)
      BY <1>1 DEF OrderInv
    <3>1. CASE q = r
      <4>1. p \in 1..(r - 1) /\ p # r
        BY <3>1, NativeAssumption DEF Request
      <4> QED
        BY <1>1, <1>4, <4>1
    <3>2. CASE q # r
      <4>1. send[q].at # "idle"
        BY <1>4, <3>2
      <4>2. p # r
        BY <1>1, <4>1 DEF OrderInv
      <4> QED
        BY <1>4, <4>1, <4>2 DEF OrderInv
    <3> QED
      BY <3>1, <3>2
  <2>3. AskedInv'
    BY <1>1, <1>3, <1>4, <1>7 DEF AskedInv
  <2>4. ConfInv'
    <3>1. \A k \in Job : Interrupts(k)' = Interrupts(k)
      BY <1>1 DEF Interrupts
    <3>2. \A k \in Job : conf[k] # "none" => k # r
      BY <1>1 DEF ConfInv
    <3>3. \A q \in holding' : Committed(q)'
      BY <1>1, <1>7 DEF ConfInv, lease
    <3>4. \A q \in owed' : send'[q].at = "ended"
      BY <1>0, <1>1, <1>4 DEF ConfInv, lease
    <3>5. \A x \in Halt : stop'[x].at = "confirming" => Committed(stop[x].id)'
      BY <1>1, <1>7 DEF ConfInv
    <3> QED
      BY <1>1, <1>4, <1>7, <3>1, <3>2, <3>3, <3>4, <3>5 DEF ConfInv
  <2>5. WorkInv'
    BY <1>1, <1>3, <1>4, <1>5, <1>7 DEF WorkInv, Submitted
  <2>6. MonInv'
    BY <1>1, <1>3, <1>4 DEF MonInv
  <2> QED
    BY <2>1, <2>2, <2>3, <2>4, <2>5, <2>6
<1>10. Marks'
  <2> USE DEF Marks
  <2>1. MarkInv'
    BY <1>0, <1>1, <1>3, <1>4, <1>7 DEF MarkInv, lease
  <2>2. AnswerInv' /\ ErrInv'
    BY <1>1, <1>3, <1>4, <1>7 DEF AnswerInv, ErrInv
  <2>3. SawInv'
    BY <1>1, <1>3, <1>4, <1>7 DEF SawInv
  <2>4. ToldInv'
    BY <1>0, <1>1, <1>7 DEF ToldInv
  <2> QED
    BY <2>1, <2>2, <2>3, <2>4
<1>11. Own'
  <2> USE DEF Own
  <2>1. \A q \in Request : q = active => send'[q].conv = send[q].conv
    BY <1>4, <1>6
  <2>2. PlaceInv' /\ AliveInv'
    BY <1>1, <1>7, <2>1 DEF PlaceInv, AliveInv
  <2>3. HomeInv'
    BY <1>0, <1>1, <2>1 DEF HomeInv, Committed
  <2>4. FarInv'
    BY <1>0, <1>1, <1>4, <1>5, <2>1 DEF FarInv, Committed
  <2>5. WatchInv'
    <3>1. \A k \in Job : Interrupts(k)' = Interrupts(k)
      BY <1>1 DEF Interrupts
    <3>2. Starting(active)' <=> Starting(active)
      BY <1>1 DEF Starting
    <3> QED
      BY <1>1, <2>1, <3>1, <3>2 DEF WatchInv
  <2> QED
    BY <2>2, <2>3, <2>4, <2>5
<1>12. Apart'
  <2> USE DEF Apart
  <2>1. \A q \in Request \ {r} : Sure(q) => Sure(q)'
    <3> SUFFICES ASSUME NEW q \in Request \ {r}, Sure(q) PROVE Sure(q)'
      OBVIOUS
    <3>1. send'[q] = send[q] /\ q \notin holds'
      BY <1>1, <1>4
    <3>2. Belated(q) => Belated(q)'
      BY <1>1 DEF Belated
    <3>3. Unsure(q) => Unsure(q)'
      BY <1>1, <3>1 DEF Unsure
    <3>4. Followed(send[q].conv) => Followed(send[q].conv)'
      BY <1>0, <1>1, <1>4, <1>6, <3>1 DEF Followed
    <3> QED
      BY <1>1, <3>1, <3>2, <3>3, <3>4 DEF Sure
  <2>2. HoldInv'
    BY <1>1, <1>4, <1>5, <1>7, <2>1 DEF HoldInv
  <2>3. ExclInv'
    <3> SUFFICES ASSUME active # None, NEW q \in Request \ {active}, Committed(q), Had(active, send[q].conv)'
                 PROVE  Sure(q)'
      BY <1>1, <1>7 DEF ExclInv
    <3>1. q # r /\ send'[q] = send[q] /\ send'[active] = send[active]
      BY <1>0, <1>4, <1>5, <1>6
    <3>2. Had(active, send[q].conv)
      BY <1>1, <3>1 DEF Had
    <3> QED
      BY <2>1, <3>1, <3>2 DEF ExclInv
  <2> QED
    BY <2>2, <2>3
<1> QED
  BY <1>8, <1>9, <1>10, <1>11, <1>12

LEMMA SubmitKnown == ASSUME Inv, PageInv, NEW r \in Request, Submit(r) PROVE PageInv'
<1> USE ConstantTypes DEF PageInv
<1>0. /\ Typed /\ strayed \subseteq Request /\ holding \subseteq Request /\ owed \subseteq Request
      /\ cancelled \subseteq Request /\ told \subseteq Request /\ holds \subseteq Request /\ route \in Chat
      /\ stands \in [Request -> Chat \cup {None}]
      /\ gen \in [Chat -> [by : Request \cup {Person}, shown : BOOLEAN] \cup {None}]
  BY DEF Inv, Typed, TypeOK, SiteTypeOK, WorkerTypeOK, ScriptTypeOK
<1>1. /\ UNCHANGED <<route, done, stop, told, strayed, misled, holds, cancelled, active, held, conf>>
      /\ UNCHANGED lease /\ send[r].at = "typed" /\ r \notin cancelled /\ active = r /\ route = send[r].conv
  BY DEF Submit, worker, script, book, MaySubmit, Bound
<1>2. Moved(r, "clicked") /\ send'[r].to = send[r].to
  BY <1>0, GoesMoved DEF Submit
<1>3. \A q \in Request : q # r => send'[q] = send[q]
  BY <1>2 DEF Moved, Others
<1>4. /\ send'[r].at = "clicked" /\ send'[r].conv = send[r].conv /\ send'[r].used = send[r].used
      /\ send'[r].to = send[r].to
  BY <1>2 DEF Moved
<1>5. ~Committed(r) /\ stands[r] = None
  BY <1>1 DEF Inv, UnsentInv, Unsent, Early, Committed
<1>6. /\ stands'[r] = route /\ \A q \in Request : q # r => stands'[q] = stands[q]
      /\ gen'[route] = [by |-> r, shown |-> FALSE]
      /\ \A c \in Chat : c # route => gen'[c] = gen[c]
  BY <1>0 DEF Submit
<1>7. Committed(r)' /\ \A q \in Request : q # r => (Committed(q)' <=> Committed(q))
  BY <1>0, <1>6 DEF Committed
<1>8. send[r].to = None /\ ~send[r].used /\ r \notin strayed /\ r \notin done /\ r \notin told
  BY <1>1, <1>5 DEF Places, TransInv, UsedInv, StrayInv, GenInv, Order, DoomInv
<1>9. \A q \in Request : q # r => send[q].at \notin Submitted
  BY <1>1 DEF Order, WorkInv
<1>10. gen'[route] # None /\ gen'[route].by = r /\ ~gen'[route].shown
  <2>1. gen'[route] \in [by : Request \cup {Person}, shown : BOOLEAN]
    BY <1>6
  <2>2. gen'[route].by = r /\ ~gen'[route].shown
    BY <1>6
  <2> QED
    BY <2>1, <2>2, NativeAssumption
<1>11. Places'
  <2> USE DEF Places
  <2>1. GenInv'
    <3>1. r # Person /\ gen'[Start] # None => gen'[Start].by # Person
      BY <1>6, <1>10, NativeAssumption DEF GenInv
    <3>2. ASSUME NEW c \in Chat, gen'[c] # None, gen'[c].by \in Request
          PROVE  stands'[gen'[c].by] = c /\ gen'[c].by \notin done
      <4>1. CASE c = route
        BY <1>6, <1>8, <1>10, <4>1
      <4>2. CASE c # route
        <5>1. gen'[c] = gen[c] /\ stands[gen[c].by] = c /\ gen[c].by \notin done
          BY <1>6, <3>2, <4>2 DEF GenInv
        <5>2. gen[c].by # r
          BY <1>5, <5>1
        <5> QED
          BY <1>6, <3>2, <5>1, <5>2
      <4> QED
        BY <4>1, <4>2
    <3>3. \A q \in done : Committed(q)'
      BY <1>5, <1>6 DEF GenInv, Committed, Inv, Typed, TypeOK, SiteTypeOK
    <3> QED
      BY <1>1, <1>10, <3>1, <3>2, <3>3, NativeAssumption DEF GenInv
  <2>2. AddressInv'
    <3>1. Given \subseteq Given'
      <4> SUFFICES ASSUME NEW q \in Request, stands[q] \in Fresh PROVE stands[q] \in {stands'[p] : p \in Request}
        BY DEF Given
      <4>1. q # r
        BY <1>5, NativeAssumption
      <4> QED
        BY <1>6, <4>1
    <3> QED
      BY <1>1, <1>3, <1>4, <3>1 DEF AddressInv
  <2>3. TransInv'
    BY <1>3, <1>4, <1>8 DEF TransInv
  <2>4. UsedInv' /\ StrayInv'
    BY <1>0, <1>1, <1>3, <1>4, <1>7, <1>8 DEF UsedInv, StrayInv
  <2>5. StopNameInv'
    <3>1. \A q \in Request : \A c : Had(q, c)' <=> Had(q, c)
      BY <1>3, <1>4 DEF Had
    <3> QED
      BY <1>0, <1>1, <3>1 DEF StopNameInv, Typed, PlacesInv
  <2> QED
    BY <2>1, <2>2, <2>3, <2>4, <2>5
<1>12. Order'
  <2> USE DEF Order
  <2>1. DoomInv'
    BY <1>0, <1>1, <1>3, <1>4, <1>7, <1>8 DEF DoomInv
  <2>2. OrderInv'
    BY <1>1, <1>3, <1>4 DEF OrderInv
  <2>3. AskedInv'
    <3>1. \A p \in Request : send'[p].at # "asked"
      BY <1>1, <1>3, <1>4 DEF AskedInv
    <3> QED
      BY <3>1 DEF AskedInv
  <2>4. ConfInv'
    <3>1. \A k \in Job : Interrupts(k)' = Interrupts(k)
      BY <1>1 DEF Interrupts
    <3>2. ASSUME NEW k \in Job, conf[k] # "none"
          PROVE  Interrupts(k) \in Request \ {r} /\ Committed(Interrupts(k)) /\ k # r
      BY <1>1, <1>5, <3>2 DEF ConfInv
    <3>3. \A k \in Job : conf[k] # "none" => stands'[Interrupts(k)] # None
      BY <1>6, <3>2 DEF Committed
    <3>4. \A q \in holding' : Committed(q)'
      BY <1>0, <1>1, <1>7 DEF ConfInv, lease
    <3>5. \A q \in owed' : send'[q].at = "ended"
      BY <1>0, <1>1, <1>3 DEF ConfInv, lease
    <3>6. \A x \in Halt : stop'[x].at = "confirming" => Committed(stop[x].id)'
      BY <1>0, <1>1, <1>5, <1>6 DEF ConfInv, Committed, Typed, PlacesInv
    <3>7. ASSUME NEW k \in Job, conf'[k] # "none"
          PROVE  /\ Interrupts(k)' \in Request /\ stands'[Interrupts(k)'] # None
                 /\ k \in Request => send'[k].at \in {"unverified", "failing"}
      <4>1. conf[k] # "none" /\ Interrupts(k)' = Interrupts(k) /\ k # r
        BY <1>1, <3>1, <3>2, <3>7
      <4>2. k \in Request => send'[k] = send[k]
        BY <1>3, <4>1
      <4> QED
        BY <3>2, <3>3, <4>1, <4>2 DEF ConfInv
    <3>8. \A x \in Halt : stop'[x].at = "confirming" => stands'[stop'[x].id] # None
      BY <1>1, <3>6 DEF Committed
    <3>9. \A k \in Job : conf'[k] # "none" => Committed(Interrupts(k))'
      BY <3>7 DEF Committed
    <3> QED
      BY <3>4, <3>5, <3>7, <3>8, <3>9 DEF ConfInv, Committed
  <2>5. WorkInv'
    BY <1>1, <1>3, <1>4, <1>7 DEF WorkInv, Submitted
  <2>6. MonInv'
    BY <1>1, <1>3, <1>4 DEF MonInv
  <2> QED
    BY <2>1, <2>2, <2>3, <2>4, <2>5, <2>6
<1>13. Marks'
  <2> USE DEF Marks
  <2>1. \A q : Ended(q)' <=> Ended(q)
    BY <1>1 DEF Ended
  <2>2. MarkInv'
    BY <1>0, <1>1, <1>3, <2>1 DEF MarkInv, lease
  <2>3. AnswerInv' /\ ErrInv'
    BY <1>1, <1>3, <1>4, <2>1 DEF AnswerInv, ErrInv
  <2>4. SawInv'
    BY <1>3, <1>4, <1>9 DEF SawInv, Submitted
  <2>5. ToldInv'
    BY <1>0, <1>1, <1>8 DEF ToldInv
  <2> QED
    BY <2>2, <2>3, <2>4, <2>5
<1>14. Own'
  <2> USE DEF Own
  <2>1. PlaceInv'
    BY <1>1, <1>4, <1>6 DEF PlaceInv
  <2>2. HomeInv' /\ FarInv'
    BY <1>1, <1>4, <1>6 DEF HomeInv, FarInv
  <2>3. WatchInv'
    <3>1. \A k \in Job : Interrupts(k)' = Interrupts(k)
      BY <1>1 DEF Interrupts
    <3>2. \A k \in Job : conf[k] # "none" => Interrupts(k) # r
      BY <1>5 DEF Order, ConfInv
    <3> QED
      BY <1>1, <3>1, <3>2 DEF WatchInv
  <2>4. AliveInv'
    BY <1>1, <1>6, <1>10 DEF AliveInv
  <2> QED
    BY <2>1, <2>2, <2>3, <2>4
<1>15. Apart'
  <2> USE DEF Apart
  <2>1. \A q \in Request : send'[q].conv = send[q].conv /\ send'[q].used = send[q].used
    BY <1>3, <1>4
  <2>2. \A c : Followed(c)' <=> Followed(c)
    BY <1>0, <1>1, <2>1 DEF Followed
  <2>3. \A q \in Request \ {r} : Sure(q) => Sure(q)'
    <3> SUFFICES ASSUME NEW q \in Request \ {r}, Sure(q) PROVE Sure(q)'
      OBVIOUS
    <3>1. Belated(q) => Belated(q)'
      BY <1>1 DEF Belated
    <3>2. Unsure(q) => Unsure(q)'
      BY <1>1, <1>6, <2>1 DEF Unsure
    <3> QED
      BY <1>1, <2>1, <2>2, <3>1, <3>2 DEF Sure
  <2>4. HoldInv'
    BY <1>1, <1>7, <2>1, <2>3 DEF HoldInv
  <2>5. ExclInv'
    BY <1>1, <1>7, <2>1, <2>3 DEF ExclInv, Had
  <2> QED
    BY <2>4, <2>5
<1> QED
  BY <1>11, <1>12, <1>13, <1>14, <1>15

----------------------------------------------------------------------------
(* The site and the person, where no prompt moves                             *)

\* Nothing of a turn changes but what generates.
Shines ==
    /\ UNCHANGED <<route, stands, cancelled, active, lease, held, send, stop, conf, holds, told, strayed, misled>>
    /\ done \subseteq done'
    /\ \A r \in Request : Starting(r)' => Starting(r)

LEMMA ShinesKnown == ASSUME Inv, PageInv, Shines, GenInv', AliveInv' PROVE PageInv'
<1> USE ConstantTypes
<1>1. Still
  BY DEF Shines, Still, Committed
<1>2. Order' /\ MarkInv' /\ AnswerInv' /\ ErrInv' /\ ToldInv'
  BY <1>1, StillOrder, StillMarks DEF PageInv
<1>3. Typed /\ WorkerTypeOK /\ active \in Request \cup {None}
  BY DEF Inv, Typed, TypeOK, ScriptTypeOK
<1>4. Places'
  <2>1. AddressInv' /\ TransInv' /\ UsedInv' /\ StrayInv'
    BY DEF Shines, PageInv, Places, AddressInv, TransInv, UsedInv, StrayInv, Given, Committed
  <2>2. StopNameInv'
    BY DEF Shines, PageInv, Places, StopNameInv, Had
  <2> QED
    BY <2>1, <2>2 DEF Places
<1>5. SawInv'
  BY DEF Shines, PageInv, Marks, SawInv
<1>6. PlaceInv' /\ HomeInv' /\ FarInv'
  BY DEF Shines, PageInv, Own, PlaceInv, HomeInv, FarInv, Committed
<1>7. WatchInv'
  <2>1. \A k \in Job : Interrupts(k)' = Interrupts(k)
    BY DEF Shines, Interrupts
  <2>2. active' = active /\ (active \in Request => (Starting(active)' => Starting(active)))
    BY DEF Shines
  <2> QED
    BY <2>1, <2>2 DEF Shines, PageInv, Own, WatchInv
<1>8. Apart'
  <2>1. \A r \in Request : Sure(r) => Sure(r)'
    BY DEF Shines, Sure, Belated, Followed, Unsure
  <2>2. HoldInv'
    BY <2>1 DEF Shines, PageInv, Apart, HoldInv, Committed
  <2>3. \A p \in Request : \A c : Had(p, c)' <=> Had(p, c)
    BY DEF Shines, Had
  <2>4. ExclInv'
    BY <1>3, <2>1, <2>3 DEF Shines, PageInv, Apart, ExclInv, Committed
  <2> QED
    BY <2>2, <2>4 DEF Apart
<1> QED
  BY <1>2, <1>4, <1>5, <1>6, <1>7, <1>8 DEF PageInv, Own, Marks

LEMMA QuietKnown ==
    ASSUME Inv, PageInv,
           UNCHANGED <<route, gen, stands, done, cancelled, active, lease, held, send, stop, conf,
                       holds, told, strayed, misled>>
    PROVE  PageInv'
<1>1. Shines
  BY DEF Shines, Starting
<1>2. GenInv' /\ AliveInv'
  BY DEF PageInv, Places, Own, GenInv, AliveInv, Committed
<1> QED
  BY <1>1, <1>2, ShinesKnown

LEMMA ShowKnown == ASSUME Inv, PageInv, NEW c \in Chat, ShowStop(c) PROVE PageInv'
<1>1. /\ gen \in [Chat -> [by : Request \cup {Person}, shown : BOOLEAN] \cup {None}]
      /\ gen[c] # None /\ gen' = [gen EXCEPT ![c].shown = TRUE]
      /\ UNCHANGED <<route, stands, done, cancelled, active, lease, held, send, stop, conf, holds,
                     told, strayed, misled>>
  BY DEF ShowStop, Inv, Typed, TypeOK, SiteTypeOK, script, worker, book
<1>2. \A d \in Chat : d # c => gen'[d] = gen[d]
  BY <1>1
<1>3. gen[c] \in [by : Request \cup {Person}, shown : BOOLEAN] /\ gen'[c] = [gen[c] EXCEPT !.shown = TRUE]
  BY <1>1
<1>4. gen'[c].by = gen[c].by /\ gen'[c].shown
  BY <1>3
<1>5. gen'[c] # None
  <2>1. gen'[c] \in [by : Request \cup {Person}, shown : BOOLEAN]
    BY <1>3
  <2> QED
    BY <2>1, NativeAssumption
<1>6. GenInv'
  <2>1. \A d \in Chat : (gen'[d] # None <=> gen[d] # None) /\ gen'[d].by = gen[d].by
    BY <1>1, <1>2, <1>4, <1>5
  <2> QED
    BY <1>1, <2>1, NativeAssumption DEF PageInv, Places, GenInv, Committed
<1>7. AliveInv'
  BY <1>1, <1>2, <1>4, <1>5 DEF PageInv, Own, AliveInv, Committed, Inv, Typed, TypeOK, SiteTypeOK
<1>8. \A r \in Request : Starting(r)' => Starting(r)
  <2> SUFFICES ASSUME NEW r \in Request, NEW d \in Chat, gen'[d] = [by |-> r, shown |-> FALSE]
               PROVE  gen[d] = [by |-> r, shown |-> FALSE]
    BY DEF Starting
  <2>1. ~gen'[d].shown
    OBVIOUS
  <2>2. d # c
    BY <1>4, <2>1
  <2> QED
    BY <1>2, <2>2
<1> QED
  BY <1>1, <1>6, <1>7, <1>8, ShinesKnown DEF Shines

LEMMA EndKnown == ASSUME Inv, PageInv, NEW c \in Chat, EndGeneration(c) PROVE PageInv'
<1>1. /\ gen \in [Chat -> [by : Request \cup {Person}, shown : BOOLEAN] \cup {None}]
      /\ stands \in [Request -> Chat \cup {None}] /\ done \subseteq Request
      /\ gen[c] # None /\ gen' = [gen EXCEPT ![c] = None] /\ done' = done \cup ({gen[c].by} \cap Request)
      /\ UNCHANGED <<route, stands, cancelled, active, lease, held, send, stop, conf, holds,
                     told, strayed, misled>>
  BY DEF EndGeneration, Inv, Typed, TypeOK, SiteTypeOK, script, worker, book
<1>2. gen'[c] = None /\ \A d \in Chat : d # c => gen'[d] = gen[d]
  BY <1>1
<1>3. gen[c].by \in Request => stands[gen[c].by] = c
  BY <1>1 DEF PageInv, Places, GenInv
<1>4. GenInv'
  <2>1. ASSUME NEW d \in Chat, gen'[d] # None, gen'[d].by \in Request
        PROVE  stands'[gen'[d].by] = d /\ gen'[d].by \notin done'
    <3>1. d # c /\ gen'[d] = gen[d]
      BY <1>2, <2>1
    <3>2. stands[gen[d].by] = d /\ gen[d].by \notin done
      BY <2>1, <3>1 DEF PageInv, Places, GenInv
    <3> QED
      BY <1>1, <1>3, <2>1, <3>1, <3>2
  <2>2. gen'[Start] # None => gen'[Start].by # Person
    BY <1>2, NativeAssumption DEF PageInv, Places, GenInv
  <2>3. \A r \in done' : Committed(r)'
    BY <1>1, <1>3, NativeAssumption DEF PageInv, Places, GenInv, Committed
  <2> QED
    BY <2>1, <2>2, <2>3 DEF GenInv
<1>5. AliveInv'
  <2> SUFFICES ASSUME NEW r \in Request \ done', Committed(r), active = r
               PROVE  gen'[stands[r]] # None /\ gen'[stands[r]].by = r
    BY <1>1 DEF AliveInv, Committed
  <2>1. gen[stands[r]] # None /\ gen[stands[r]].by = r /\ stands[r] \in Chat
    BY <1>1 DEF PageInv, Own, AliveInv, Committed
  <2>2. stands[r] # c
    BY <1>1, <2>1
  <2> QED
    BY <1>2, <2>1, <2>2
<1>6. \A r \in Request : Starting(r)' => Starting(r)
  <2> SUFFICES ASSUME NEW r \in Request, NEW d \in Chat, gen'[d] = [by |-> r, shown |-> FALSE]
               PROVE  gen[d] = [by |-> r, shown |-> FALSE]
    BY DEF Starting
  <2>1. gen'[d] \in [by : Request \cup {Person}, shown : BOOLEAN]
    OBVIOUS
  <2>2. gen'[d] # None
    BY <2>1, NativeAssumption
  <2> QED
    BY <1>2, <2>2
<1> QED
  BY <1>1, <1>4, <1>5, <1>6, ShinesKnown DEF Shines

LEMMA PromptKnown == ASSUME Inv, PageInv, PersonPrompts PROVE PageInv'
<1>1. /\ gen \in [Chat -> [by : Request \cup {Person}, shown : BOOLEAN] \cup {None}]
      /\ stands \in [Request -> Chat \cup {None}] /\ route \in Chat
      /\ route # Start /\ gen[route] = None /\ gen' = [gen EXCEPT ![route] = [by |-> Person, shown |-> TRUE]]
      /\ UNCHANGED <<route, stands, done, cancelled, active, lease, held, send, stop, conf, holds,
                     told, strayed, misled>>
  BY DEF PersonPrompts, Inv, Typed, TypeOK, SiteTypeOK, script, worker, book
<1>2. gen'[route] = [by |-> Person, shown |-> TRUE] /\ \A d \in Chat : d # route => gen'[d] = gen[d]
  BY <1>1
<1>3. gen'[route].by = Person /\ gen'[route].shown /\ Person \notin Request
  BY <1>2, NativeAssumption
<1>4. GenInv'
  <2>1. ASSUME NEW d \in Chat, gen'[d] # None, gen'[d].by \in Request
        PROVE  stands'[gen'[d].by] = d /\ gen'[d].by \notin done'
    <3>1. d # route /\ gen'[d] = gen[d]
      BY <1>2, <1>3, <2>1
    <3> QED
      BY <1>1, <2>1, <3>1 DEF PageInv, Places, GenInv
  <2>2. gen'[Start] = gen[Start]
    BY <1>1, <1>2, NativeAssumption
  <2>3. gen'[Start] # None => gen'[Start].by # Person
    BY <2>2 DEF PageInv, Places, GenInv
  <2>4. \A r \in done' : Committed(r)'
    BY <1>1 DEF PageInv, Places, GenInv, Committed
  <2> QED
    BY <2>1, <2>3, <2>4 DEF GenInv
<1>5. AliveInv'
  <2> SUFFICES ASSUME NEW r \in Request \ done, Committed(r), active = r
               PROVE  gen'[stands[r]] # None /\ gen'[stands[r]].by = r
    BY <1>1 DEF AliveInv, Committed
  <2>1. gen[stands[r]] # None /\ gen[stands[r]].by = r /\ stands[r] \in Chat
    BY <1>1 DEF PageInv, Own, AliveInv, Committed
  <2> QED
    BY <1>1, <1>2, <2>1
<1>6. \A r \in Request : Starting(r)' => Starting(r)
  <2> SUFFICES ASSUME NEW r \in Request, NEW d \in Chat, gen'[d] = [by |-> r, shown |-> FALSE]
               PROVE  gen[d] = [by |-> r, shown |-> FALSE]
    BY DEF Starting
  <2>1. ~gen'[d].shown
    OBVIOUS
  <2>2. d # route
    BY <1>3, <2>1
  <2> QED
    BY <1>2, <2>2
<1> QED
  BY <1>1, <1>4, <1>5, <1>6, ShinesKnown DEF Shines

\* The background learns the new address of the page.
LEMMA AddressKnown == ASSUME Inv, PageInv, NEW r \in Request, AdmitTransition(r) PROVE PageInv'
BY QuietKnown DEF AdmitTransition, site, script, book

LEMMA DraftKnown == ASSUME Inv, PageInv, PersonDrafts \/ PersonAttaches PROVE PageInv'
BY QuietKnown DEF PersonDrafts, PersonAttaches, site, script, worker, book

LEMMA StutterKnown == ASSUME Inv, PageInv, UNCHANGED vars PROVE PageInv'
BY QuietKnown DEF vars, site, script, worker, book

----------------------------------------------------------------------------
(* The Stops                                                                  *)

LEMMA HaltNone == ASSUME NEW x \in Halt PROVE x \notin Request /\ x \in Job /\ Interrupts(x) = stop[x].id
BY ConstantTypes DEF Job, Interrupts

\* An interrupt that ends lets go of its turn.
EndsStop(x, r) ==
    /\ Calm /\ UNCHANGED <<send, misled>> /\ stop[x].at = "confirming" /\ r = stop[x].id
    /\ stop'[x].at # "confirming" /\ \A y \in Halt : y # x => stop'[y] = stop[y]
    /\ \A y \in Halt : stop'[y].id = stop[y].id /\ stop'[y].conv = stop[y].conv
    /\ conf'[x] = "none" /\ \A k \in Job : k # x => conf'[k] = conf[k]
    /\ holding' = holding \ {r} /\ owed' = owed \ {r}
    /\ cancelled' \subseteq cancelled /\ cancelled \ {r} \subseteq cancelled'
    /\ r \in cancelled' \cup (told' \ told) => Ended(r)
    /\ told' \subseteq told \cup {r}
    /\ active' = active \/ (active' = None /\ active = r /\ r \in owed)
    /\ active' # active => send[r].conv \in held' \/ Sure(r)'
    /\ \A c \in held \ held' : active = r /\ Had(r, c) /\ Ended(r)

LEMMA EndsStopKnown ==
    ASSUME Inv, PageInv, NEW x \in Halt, NEW r \in Request, EndsStop(x, r)
    PROVE  PageInv'
<1> USE ConstantTypes
<1>0. /\ Typed /\ WorkerTypeOK /\ told \subseteq Request /\ holds \subseteq Request
      /\ cancelled \subseteq Request /\ holding \subseteq Request /\ owed \subseteq Request
      /\ active \in Request \cup {None} /\ None \notin Request
  BY DEF Inv, Typed, TypeOK, WorkerTypeOK, ScriptTypeOK
<1>1. Committed(r) /\ (r \in owed => send[r].at = "ended")
  BY DEF EndsStop, PageInv, Order, ConfInv
<1>2. /\ \A q : Committed(q)' <=> Committed(q)
      /\ \A q : Ended(q)' <=> Ended(q)
      /\ \A q : Starting(q)' <=> Starting(q)
  BY DEF EndsStop, Calm, Committed, Ended, Starting
<1>3. \A k \in Job : Interrupts(k)' = Interrupts(k)
  BY DEF EndsStop, Interrupts, Job
<1>4. Watchers
  BY <1>3 DEF Watchers, EndsStop
<1>5. active' \in {active, None} /\ Calm
  BY DEF EndsStop
<1>6. Places'
  <2>1. GenInv' /\ UsedInv' /\ StrayInv'
    BY <1>0, <1>5, CalmSite DEF PageInv, Places
  <2>2. AddressInv'
    BY <1>5, CalmAddress DEF EndsStop, PageInv, Places
  <2>3. TransInv'
    BY DEF EndsStop, PageInv, Places, TransInv
  <2>4. StopNameInv'
    <3>1. \A y \in Halt : stop'[y].at = "confirming" =>
              stop[y].at = "confirming" /\ stop[y].id \in Request
              /\ stop'[y].id = stop[y].id /\ stop'[y].conv = stop[y].conv
      BY <1>0 DEF EndsStop, Typed, PlacesInv
    <3> QED
      BY <1>5, <3>1, CalmStops DEF PageInv, Places
  <2> QED
    BY <2>1, <2>2, <2>3, <2>4 DEF Places
<1>7. Order'
  <2> USE DEF PageInv, Order
  <2>1. DoomInv'
    <3>1. told' \cup holds' \subseteq told \cup holds /\ told' \subseteq told \cup {r}
      BY DEF EndsStop, Calm
    <3>2. \A q \in told' : q # r => (Committed(q) \/ send[q].at = "ended" \/ q \in cancelled')
      BY <1>0, <3>1 DEF EndsStop, DoomInv
    <3> QED
      BY <1>1, <1>2, <3>1, <3>2 DEF EndsStop, DoomInv
  <2>2. OrderInv'
    BY DEF EndsStop, Calm, OrderInv
  <2>3. AskedInv'
    BY <1>0, <1>1, <1>2 DEF EndsStop, AskedInv
  <2>4. ConfInv'
    <3>1. ASSUME NEW k \in Job, conf'[k] # "none"
          PROVE  /\ Interrupts(k)' \in Request /\ Committed(Interrupts(k))
                 /\ k \in Request => send'[k].at \in {"unverified", "failing"}
      BY <1>3, <3>1 DEF EndsStop, ConfInv
    <3>2. \A q \in holding' : Committed(q)'
      BY <1>2 DEF EndsStop, ConfInv
    <3>3. \A q \in owed' : send'[q].at = "ended"
      BY DEF EndsStop, ConfInv
    <3>4. \A y \in Halt : stop'[y].at = "confirming" => Committed(stop[y].id)'
      BY <1>2 DEF EndsStop, ConfInv
    <3>5. \A y \in Halt : stop'[y].id = stop[y].id
      BY DEF EndsStop
    <3> QED
      BY <1>2, <1>3, <3>1, <3>2, <3>3, <3>4, <3>5 DEF ConfInv
  <2>5. WorkInv'
    <3>1. \A q \in Request : send[q].at \in Submitted => active' = q
      BY <1>1 DEF EndsStop, WorkInv, Submitted
    <3> QED
      BY <1>2, <3>1 DEF EndsStop, WorkInv
  <2>6. MonInv'
    BY DEF EndsStop, Calm, MonInv
  <2> QED
    BY <2>1, <2>2, <2>3, <2>4, <2>5, <2>6
<1>8. Marks'
  <2> USE DEF PageInv, Marks
  <2>1. MarkInv'
    <3>1. \A q \in cancelled' \ holding' : q \in cancelled \ holding \/ Ended(q)
      BY DEF EndsStop
    <3> QED
      BY <1>2, <3>1 DEF EndsStop, MarkInv
  <2>2. AnswerInv'
    BY DEF EndsStop, Calm, AnswerInv
  <2>3. ErrInv'
    <3>1. \A q \in Request : send[q].at \in {"erring", "monitor"} => active = q
      BY DEF Order, WorkInv, Submitted
    <3> QED
      BY <1>2, <3>1 DEF EndsStop, ErrInv
  <2>4. SawInv'
    BY <1>2 DEF EndsStop, Calm, SawInv
  <2>5. ToldInv'
    BY <1>0, <1>2 DEF EndsStop, ToldInv
  <2> QED
    BY <2>1, <2>2, <2>3, <2>4, <2>5
<1>9. Own'
  BY <1>0, <1>4, <1>5, CalmOwn DEF PageInv
<1>10. Apart'
  <2>1. \A c \in held \ held' : active # None /\ Had(active, c)
    BY <1>0 DEF EndsStop
  <2>2. \A p \in Request : active = p /\ active' # p /\ Committed(p) => send[p].conv \in held' \/ Sure(p)'
    BY <1>0 DEF EndsStop
  <2> QED
    BY <1>0, <1>5, <2>1, <2>2, CalmApart DEF PageInv
<1> QED
  BY <1>6, <1>7, <1>8, <1>9, <1>10 DEF PageInv

\* What the end of an interrupt writes.
LEMMA StopOver ==
    ASSUME Inv, NEW x \in Halt, NEW at, stop' = [stop EXCEPT ![x].at = at]
    PROVE  /\ stop'[x].at = at /\ \A y \in Halt : y # x => stop'[y] = stop[y]
           /\ \A y \in Halt : stop'[y].id = stop[y].id /\ stop'[y].conv = stop[y].conv
<1> DEFINE T == [at : StopAt, id : Request \cup {None}, conv : Chat \cup {None}]
<1>1. stop \in [Halt -> T]
  BY DEF Inv, Typed, TypeOK, JobsTypeOK
<1>2. stop'[x] = [stop[x] EXCEPT !.at = at] /\ stop[x] \in T /\ \A y \in Halt : y # x => stop'[y] = stop[y]
  BY <1>1
<1>3. stop'[x].at = at /\ stop'[x].id = stop[x].id /\ stop'[x].conv = stop[x].conv
  BY <1>2
<1> QED
  BY <1>2, <1>3

LEMMA ConfirmedKnown == ASSUME Inv, PageInv, NEW x \in Halt, StopConfirmed(x) PROVE PageInv'
<1>0. PICK r \in Request : r = stop[x].id
  BY DEF StopConfirmed, Inv, Typed, PlacesInv
<1>1. /\ r \in Request /\ stop[x].at = "confirming" /\ Interrupts(x) = r /\ x \in Job
      /\ Had(r, stop[x].conv)
  BY <1>0, HaltNone DEF StopConfirmed, Inv, Typed, PlacesInv, PageInv, Places, StopNameInv
<1>2. Ended(r) /\ active = r
  BY <1>0, <1>1, ConfirmedEnded DEF StopConfirmed
<1>3. /\ stop'[x].at = "over" /\ \A y \in Halt : y # x => stop'[y] = stop[y]
      /\ \A y \in Halt : stop'[y].id = stop[y].id /\ stop'[y].conv = stop[y].conv
  BY StopOver DEF StopConfirmed
<1>4. /\ UNCHANGED <<route, gen, stands, done, send, strayed, misled>>
      /\ told' = told \cup (holds \cap {r}) /\ holds' = holds \ {r}
      /\ held' = held \ {stop[x].conv}
      /\ holding' = holding \ {r} /\ owed' = owed \ {r}
      /\ cancelled' = IF r \in owed THEN cancelled \ {r} ELSE cancelled
      /\ active' = IF r \in owed /\ active = r THEN None ELSE active
      /\ conf' = [conf EXCEPT ![x] = "none"]
  BY <1>0 DEF StopConfirmed, Release, site
<1>5. Calm
  BY <1>1, <1>3, <1>4 DEF Calm
<1>6. Sure(r)'
  BY <1>1, <1>2, <1>5, EndedSure, CalmSure DEF Inv, Typed, TypeOK
<1>7. conf'[x] = "none" /\ \A k \in Job : k # x => conf'[k] = conf[k]
  BY <1>1, <1>4 DEF Inv, Typed, TypeOK, ScriptTypeOK
<1>8. \A c \in held \ held' : active = r /\ Had(r, c) /\ Ended(r)
  BY <1>1, <1>2, <1>4
<1>9. EndsStop(x, r)
  BY <1>0, <1>1, <1>2, <1>3, <1>4, <1>5, <1>6, <1>7, <1>8 DEF EndsStop
<1> QED
  BY <1>1, <1>9, EndsStopKnown

LEMMA UnconfirmedKnown == ASSUME Inv, PageInv, NEW x \in Halt, StopUnconfirmed(x) PROVE PageInv'
<1>0. PICK r \in Request : r = stop[x].id
  BY DEF StopUnconfirmed, Inv, Typed, PlacesInv
<1>1. /\ r \in Request /\ stop[x].at = "confirming" /\ Interrupts(x) = r /\ x \in Job
  BY <1>0, HaltNone DEF StopUnconfirmed, Inv, Typed, PlacesInv
<1>2. PICK at \in {"over", "late"} : /\ stop' = [stop EXCEPT ![x].at = at]
                                     /\ stop[x].conv = send[r].conv \/ at = "late"
  BY <1>0 DEF StopUnconfirmed
<1>3. /\ stop'[x].at = at /\ \A y \in Halt : y # x => stop'[y] = stop[y]
      /\ \A y \in Halt : stop'[y].id = stop[y].id /\ stop'[y].conv = stop[y].conv
  BY <1>2, StopOver
<1>4. /\ UNCHANGED <<route, gen, stands, done, send, strayed, misled, told, holds>>
      /\ held' = held \cup {stop[x].conv}
      /\ holding' = holding \ {r} /\ owed' = owed \ {r}
      /\ cancelled' = cancelled \ {r}
      /\ active' = IF r \in owed /\ active = r THEN None ELSE active
      /\ conf' = [conf EXCEPT ![x] = "none"]
  BY <1>0 DEF StopUnconfirmed, Release, site, worker, book
<1>5. Calm
  BY <1>1, <1>3, <1>4 DEF Calm
<1>6. send[r].conv \in held' \/ Sure(r)'
  <2>1. CASE at = "late"
    <3>1. Belated(r)'
      BY <1>0, <1>3, <2>1 DEF Belated
    <3> QED
      BY <3>1 DEF Sure
  <2>2. CASE stop[x].conv = send[r].conv
    BY <1>4, <2>2
  <2> QED
    BY <1>2, <2>1, <2>2
<1>7. conf'[x] = "none" /\ \A k \in Job : k # x => conf'[k] = conf[k]
  BY <1>1, <1>4 DEF Inv, Typed, TypeOK, ScriptTypeOK
<1>8. held \ held' = {}
  BY <1>4
<1>9. EndsStop(x, r)
  BY <1>0, <1>1, <1>2, <1>3, <1>4, <1>5, <1>6, <1>7, <1>8 DEF EndsStop
<1> QED
  BY <1>1, <1>9, EndsStopKnown

\* A Stop finds the turn and interrupts it, or it has nothing to interrupt.
LEMMA ArrivesKnown ==
    ASSUME Inv, PageInv, NEW x \in Halt, NEW recall \in BOOLEAN, StopArrives(x, recall)
    PROVE  PageInv'
<1> USE ConstantTypes
<1> DEFINE T == [at : StopAt, id : Request \cup {None}, conv : Chat \cup {None}]
<1>0. /\ Typed /\ WorkerTypeOK /\ told \subseteq Request /\ holds \subseteq Request
      /\ cancelled \subseteq Request /\ holding \subseteq Request /\ owed \subseteq Request
      /\ active \in Request \cup {None} /\ None \notin Request /\ stop \in [Halt -> T]
      /\ x \in Job /\ conf \in [Job -> {"none", "seeking", "watching"}]
  BY DEF Inv, Typed, TypeOK, WorkerTypeOK, ScriptTypeOK, JobsTypeOK, Job
<1>1. /\ UNCHANGED <<route, gen, stands, done, active, held, send, strayed, misled>>
      /\ stop[x].at = "idle"
  BY DEF StopArrives, site, composer
<1>2. PICK r \in holds :
          \/ /\ named[r] = route /\ active = r /\ send[r].conv = route /\ Committed(r)
             /\ stop' = [stop EXCEPT ![x] = [at |-> "confirming", id |-> r, conv |-> named[r]]]
             /\ Hold(x, r) /\ told' = told /\ holds' \subseteq holds
          \/ /\ stop' = [stop EXCEPT ![x] = [at |-> "over", id |-> r, conv |-> named[r]]]
             /\ UNCHANGED lease /\ UNCHANGED conf /\ holds' \subseteq holds
             /\ \/ cancelled' = cancelled /\ told' = told
                \/ /\ active = None \/ ~Committed(r)
                   /\ cancelled' = cancelled \cup {r} /\ told' \in {told, told \cup {r}}
  <2>1. PICK r \in holds :
          LET names    == named[r] = route /\ (active = None \/ (active = r /\ send[r].conv = route))
              unsent   == names /\ (active = None \/ ~Committed(r))
              at       == IF names /\ ~unsent THEN "confirming" ELSE "over"
          IN  /\ stop' = [stop EXCEPT ![x] = [at |-> at, id |-> r, conv |-> named[r]]]
              /\ IF at = "confirming" THEN Hold(x, r)
                 ELSE /\ cancelled' = IF unsent THEN cancelled \cup {r} ELSE cancelled
                      /\ UNCHANGED <<lease, conf, forgot>>
              /\ holds' = IF recall \/ unsent THEN holds \ {r} ELSE holds
              /\ told' = IF unsent /\ ~recall THEN told \cup {r} ELSE told
    BY DEF StopArrives
  <2> DEFINE names  == named[r] = route /\ (active = None \/ (active = r /\ send[r].conv = route))
             unsent == names /\ (active = None \/ ~Committed(r))
  <2>2. CASE names /\ ~unsent
    BY <2>1, <2>2
  <2>3. CASE ~names \/ unsent
    <3>1. CASE unsent
      BY <2>1, <3>1
    <3>2. CASE ~names
      BY <2>1, <3>2
    <3> QED
      BY <2>3, <3>1, <3>2
  <2> QED
    BY <2>2, <2>3
<1>3. /\ \A y \in Halt : y # x => stop'[y] = stop[y]
      /\ stop'[x].id = r /\ stop'[x].at \in {"over", "confirming"}
      /\ stop'[x].at = "confirming" =>
             /\ active = r /\ send[r].conv = stop'[x].conv /\ Committed(r) /\ Hold(x, r) /\ told' = told
      /\ stop'[x].at = "over" => UNCHANGED <<lease, conf>>
  <2>1. ASSUME NEW at, NEW c, stop' = [stop EXCEPT ![x] = [at |-> at, id |-> r, conv |-> c]]
        PROVE  /\ \A y \in Halt : y # x => stop'[y] = stop[y]
               /\ stop'[x].at = at /\ stop'[x].id = r /\ stop'[x].conv = c
    <3>1. stop'[x] = [at |-> at, id |-> r, conv |-> c] /\ \A y \in Halt : y # x => stop'[y] = stop[y]
      BY <1>0, <2>1
    <3> QED
      BY <3>1
  <2> QED
    BY <1>2, <2>1
<1>4. /\ cancelled \subseteq cancelled' /\ told \subseteq told' /\ told' \subseteq told \cup {r}
      /\ cancelled' \subseteq Request /\ holds' \subseteq holds /\ r \in Request
      /\ r \in told' \ told => (active = None \/ ~Committed(r)) /\ r \in cancelled'
  BY <1>0, <1>2 DEF Hold
<1>5. /\ holding \subseteq holding' /\ owed' \subseteq owed
      /\ \A q \in holding' : q \in holding \/ Committed(q)
      /\ \A q \in cancelled' \ holding' : q \in cancelled \ holding \/ (q = r /\ (active = None \/ ~Committed(r)))
  <2>1. \/ Hold(x, r) /\ Committed(r)
        \/ /\ UNCHANGED lease
           /\ \/ cancelled' = cancelled
              \/ (active = None \/ ~Committed(r)) /\ cancelled' = cancelled \cup {r}
    BY <1>2
  <2>2. CASE Hold(x, r) /\ Committed(r)
    BY <2>2 DEF Hold
  <2>3. CASE UNCHANGED lease /\ cancelled' = cancelled
    BY <2>3 DEF lease
  <2>4. CASE UNCHANGED lease /\ (active = None \/ ~Committed(r)) /\ cancelled' = cancelled \cup {r}
    BY <2>4 DEF lease
  <2> QED
    BY <2>1, <2>2, <2>3, <2>4
<1>6. conf[x] = "none" /\ conf'[x] # "watching" /\ \A k \in Job : k # x => conf'[k] = conf[k]
  <2>1. conf[x] = "none"
    BY <1>1 DEF Inv, LeaseInv
  <2> QED
    BY <1>0, <1>3, <2>1 DEF Hold
<1>7. Calm
  BY <1>1, <1>3, <1>4 DEF Calm
<1>8. \A q : (Committed(q)' <=> Committed(q)) /\ (Ended(q)' <=> Ended(q)) /\ (Starting(q)' <=> Starting(q))
  BY <1>1 DEF Committed, Ended, Starting
<1>9. \A k \in Job : k # x => Interrupts(k)' = Interrupts(k)
  BY <1>3 DEF Interrupts, Job
<1>10. Watchers
  BY <1>6, <1>9 DEF Watchers
<1>11. Places'
  <2>1. GenInv' /\ UsedInv' /\ StrayInv'
    BY <1>0, <1>7, CalmSite DEF PageInv, Places
  <2>2. AddressInv'
    BY <1>1, <1>7, CalmAddress DEF PageInv, Places
  <2>3. TransInv'
    BY <1>1 DEF PageInv, Places, TransInv
  <2>4. StopNameInv'
    <3>3. ASSUME NEW y \in Halt, stop'[y].at = "confirming"
          PROVE  \/ stop'[y].conv = send[stop'[y].id].conv
                 \/ send[stop'[y].id].used /\ stop'[y].conv = Start
      <4>1. CASE y = x
        BY <1>3, <3>3, <4>1
      <4>2. CASE y # x
        BY <1>3, <3>3, <4>2 DEF PageInv, Places, StopNameInv, Had
      <4> QED
        BY <4>1, <4>2
    <3> QED
      BY <1>1, <3>3 DEF StopNameInv, Had
  <2> QED
    BY <2>1, <2>2, <2>3, <2>4 DEF Places
<1>12. Order'
  <2> USE DEF PageInv, Order
  <2>1. DoomInv'
    <3>1. told' \cup holds' \subseteq told \cup holds
      BY <1>2, <1>4
    <3>2. \A q \in told' : Committed(q) \/ send[q].at = "ended" \/ q \in cancelled'
      BY <1>4 DEF DoomInv
    <3> QED
      BY <1>1, <1>8, <3>1, <3>2 DEF DoomInv
  <2>2. OrderInv'
    BY <1>1, <1>4 DEF OrderInv
  <2>3. AskedInv'
    <3>1. active' = active /\ \A q \in Request : send'[q].at = send[q].at
      BY <1>1
    <3>2. \A q \in Request : active = q => (Committed(q)' <=> Committed(q))
      BY <1>8
    <3>3. ASSUME active # None, NEW p \in Request, send[p].at = "asked"
          PROVE  active \in cancelled' /\ stands[active] = None
      BY <1>4, <3>3 DEF AskedInv, Committed
    <3> QED
      BY <1>1, <3>1, <3>3 DEF AskedInv, Committed
  <2>4. ConfInv'
    <3>1. ASSUME NEW k \in Job, conf'[k] # "none"
          PROVE  /\ Interrupts(k)' \in Request /\ stands[Interrupts(k)'] # None
                 /\ k \in Request => send'[k].at \in {"unverified", "failing"}
      <4>1. CASE k = x
        <5>1. stop'[x].at = "confirming"
          BY <1>3, <1>6, <3>1, <4>1
        <5>2. k \notin Request
          BY <4>1, HaltNone
        <5>3. Interrupts(k)' = r
          BY <1>3, <4>1, <5>2 DEF Interrupts
        <5>4. stands[r] # None
          BY <1>3, <5>1 DEF Committed
        <5> QED
          BY <1>4, <5>2, <5>3, <5>4
      <4>2. CASE k # x
        <5>1. conf[k] # "none" /\ Interrupts(k)' = Interrupts(k)
          BY <1>6, <1>9, <3>1, <4>2
        <5>2. /\ Interrupts(k) \in Request /\ stands[Interrupts(k)] # None
              /\ k \in Request => send[k].at \in {"unverified", "failing"}
          BY <5>1 DEF ConfInv, Committed
        <5> QED
          BY <1>1, <5>1, <5>2
      <4> QED
        BY <4>1, <4>2
    <3>2. \A q \in holding' : Committed(q)'
      BY <1>5, <1>8 DEF ConfInv
    <3>3. \A q \in owed' : send'[q].at = "ended"
      BY <1>1, <1>5 DEF ConfInv
    <3>4. ASSUME NEW y \in Halt, stop'[y].at = "confirming" PROVE stands[stop'[y].id] # None
      <4>1. CASE y = x
        BY <1>3, <3>4, <4>1 DEF Committed
      <4>2. CASE y # x
        BY <1>3, <3>4, <4>2 DEF ConfInv, Committed
      <4> QED
        BY <4>1, <4>2
    <3>5. \A k \in Job : conf'[k] # "none" => Committed(Interrupts(k))'
      BY <1>1, <3>1 DEF Committed
    <3>6. \A y \in Halt : stop'[y].at = "confirming" => stands'[stop'[y].id] # None
      BY <1>1, <3>4
    <3> QED
      BY <3>1, <3>2, <3>3, <3>5, <3>6 DEF ConfInv, Committed
  <2>5. WorkInv'
    BY <1>1, <1>8 DEF WorkInv
  <2>6. MonInv'
    BY <1>1, <1>4 DEF MonInv
  <2> QED
    BY <2>1, <2>2, <2>3, <2>4, <2>5, <2>6
<1>13. Marks'
  <2> USE DEF PageInv, Marks
  <2>1. MarkInv'
    <3>1. send[r].at \in Submitted => Committed(r) /\ active = r
      BY <1>4 DEF Order, WorkInv
    <3> QED
      BY <1>0, <1>1, <1>4, <1>5, <1>8, <3>1 DEF MarkInv, Submitted
  <2>2. AnswerInv' /\ ErrInv' /\ SawInv'
    BY <1>1, <1>8 DEF AnswerInv, ErrInv, SawInv
  <2>3. ToldInv'
    BY <1>0, <1>1, <1>4, <1>8 DEF ToldInv
  <2> QED
    BY <2>1, <2>2, <2>3
<1>14. Own'
  BY <1>0, <1>1, <1>7, <1>10, CalmOwn DEF PageInv
<1>15. Apart'
  BY <1>0, <1>1, <1>7, CalmApart DEF PageInv
<1> QED
  BY <1>11, <1>12, <1>13, <1>14, <1>15 DEF PageInv

----------------------------------------------------------------------------
(* The page goes elsewhere                                                    *)

\* What the page's new address means to the turns: it has been given out, and nobody who watches
\* is shown the start page as his own again.
Elsewhere ==
    /\ UNCHANGED <<done, cancelled, active, lease, held, send, stop, conf, holds, told, strayed, misled>>
    /\ route' \in Fresh => route' \in Given'
    /\ \A k \in Job : conf[k] = "watching" /\ active = Interrupts(k) /\ active \in Request =>
           ~(route' = Start /\ send[active].conv = Start)

LEMMA ElsewhereStill ==
    ASSUME Inv, PageInv, Elsewhere, \A q \in Request : Committed(q)' <=> Committed(q)
    PROVE  Order' /\ MarkInv' /\ AnswerInv' /\ ErrInv' /\ ToldInv' /\ TransInv' /\ UsedInv' /\ StrayInv' /\ StopNameInv'
<1>1. Still
  BY DEF Elsewhere, Still
<1>2. TransInv' /\ UsedInv' /\ StrayInv' /\ StopNameInv'
  <2>1. TransInv' /\ UsedInv' /\ StrayInv'
    BY DEF Elsewhere, PageInv, Places, TransInv, UsedInv, StrayInv
  <2>2. StopNameInv'
    BY DEF Elsewhere, PageInv, Places, StopNameInv, Had
  <2> QED
    BY <2>1, <2>2
<1> QED
  BY <1>1, <1>2, StillOrder, StillMarks DEF PageInv

\* Nobody watches an own generation, and a step that begins none keeps it so.
LEMMA ElsewhereWatch ==
    ASSUME Inv, PageInv, Elsewhere, \A q \in Request : Starting(q)' => Starting(q)
    PROVE  WatchInv'
<1>1. \A k \in Job : Interrupts(k)' = Interrupts(k)
  BY DEF Elsewhere, Interrupts
<1>2. active' = active /\ (active \in Request => (Starting(active)' => Starting(active)))
  BY DEF Elsewhere
<1> QED
  BY <1>1, <1>2 DEF Elsewhere, PageInv, Own, WatchInv

LEMMA ElsewhereApart ==
    ASSUME Inv, PageInv, Elsewhere,
           \A q \in Request : /\ Committed(q)' <=> Committed(q)
                              /\ stands[q] # send[q].conv => stands'[q] # send[q].conv
    PROVE  Apart'
<1>1. \A q \in Request : Sure(q) => Sure(q)'
  <2> SUFFICES ASSUME NEW q \in Request, Sure(q) PROVE Sure(q)'
    OBVIOUS
  <2>1. Belated(q) => Belated(q)'
    BY DEF Elsewhere, Belated
  <2>2. Followed(send[q].conv) => Followed(send[q].conv)'
    BY DEF Elsewhere, Followed
  <2>3. Unsure(q) => Unsure(q)'
    BY DEF Elsewhere, Unsure
  <2> QED
    BY <2>1, <2>2, <2>3 DEF Elsewhere, Sure
<1>2. HoldInv'
  BY <1>1 DEF Elsewhere, PageInv, Apart, HoldInv
<1>3. \A p \in Request : \A c : Had(p, c)' <=> Had(p, c)
  BY DEF Elsewhere, Had
<1>4. active \in Request \cup {None}
  BY DEF Inv, Typed, TypeOK, ScriptTypeOK
<1>5. ExclInv'
  BY <1>1, <1>3, <1>4 DEF Elsewhere, PageInv, Apart, ExclInv
<1> QED
  BY <1>2, <1>5 DEF Apart

\* The conversation begun on the start page gets an address nobody knows.
LEMMA RelocateKnown ==
    ASSUME Inv, PageInv, NEW d \in Chat, Relocate(d), Elsewhere
    PROVE  PageInv'
<1> USE ConstantTypes
<1>0. /\ stands \in [Request -> Chat \cup {None}] /\ done \subseteq Request
      /\ gen \in [Chat -> [by : Request \cup {Person}, shown : BOOLEAN] \cup {None}]
      /\ active \in Request \cup {None}
  BY DEF Inv, Typed, TypeOK, SiteTypeOK, ScriptTypeOK
<1>1. /\ d \in Fresh /\ d \notin Given /\ d # Start /\ d # None
      /\ \A q \in Request : stands'[q] = IF stands[q] = Start THEN d ELSE stands[q]
  BY NativeAssumption DEF Relocate
<1>2. /\ gen'[d] = gen[Start] /\ gen'[Start] = None
      /\ \A c \in Chat \ {d, Start} : gen'[c] = gen[c]
  BY <1>0, <1>1 DEF Relocate
<1>3. \A q \in Request : /\ stands[q] # d /\ send[q].conv # d
                         /\ stands'[q] # Start
  BY <1>1 DEF Given, PageInv, Places, AddressInv
<1>4. UNCHANGED <<done, active, held, send, strayed, misled>>
  BY DEF Elsewhere
<1>5. \A q \in Request : /\ Committed(q)' <=> Committed(q)
                         /\ stands[q] # send[q].conv => stands'[q] # send[q].conv
  BY <1>1, <1>3 DEF Committed
<1>6. GenInv'
  <2>1. ASSUME NEW c \in Chat, gen'[c] # None, gen'[c].by \in Request
        PROVE  stands'[gen'[c].by] = c /\ gen'[c].by \notin done
    <3>1. CASE c = d
      <4>1. gen'[c] = gen[Start] /\ stands[gen[Start].by] = Start /\ gen[Start].by \notin done
        BY <1>2, <2>1, <3>1 DEF PageInv, Places, GenInv
      <4> QED
        BY <1>1, <2>1, <3>1, <4>1
    <3>2. CASE c # d
      <4>1. gen'[c] = gen[c] /\ c # Start
        BY <1>2, <2>1, <3>2
      <4>2. stands[gen[c].by] = c /\ gen[c].by \notin done
        BY <2>1, <4>1 DEF PageInv, Places, GenInv
      <4> QED
        BY <1>1, <2>1, <4>1, <4>2
    <3> QED
      BY <3>1, <3>2
  <2>2. \A q \in done' : Committed(q)'
    BY <1>0, <1>4, <1>5 DEF PageInv, Places, GenInv
  <2> QED
    BY <1>2, <1>4, <2>1, <2>2 DEF GenInv
<1>7. AddressInv'
  <2>1. Given \subseteq Given'
    <3> SUFFICES ASSUME NEW q \in Request, stands[q] \in Fresh PROVE stands[q] \in {stands'[p] : p \in Request}
      BY DEF Given
    <3>1. stands'[q] = stands[q]
      BY <1>1, NativeAssumption
    <3> QED
      BY <3>1
  <2> QED
    BY <1>4, <2>1 DEF Elsewhere, PageInv, Places, AddressInv
<1>8. PlaceInv' /\ HomeInv' /\ FarInv'
  <2>1. PlaceInv'
    BY <1>1, <1>4, <1>5 DEF PageInv, Own, PlaceInv
  <2>2. HomeInv'
    BY <1>3, <1>4 DEF HomeInv
  <2>3. FarInv'
    BY <1>0, <1>1, <1>3, <1>4, <1>5 DEF PageInv, Own, FarInv
  <2> QED
    BY <2>1, <2>2, <2>3
<1>9. AliveInv'
  <2> SUFFICES ASSUME NEW r \in Request \ done, Committed(r), active = r
               PROVE  gen'[stands'[r]] # None /\ gen'[stands'[r]].by = r
    BY <1>4, <1>5 DEF AliveInv
  <2>1. gen[stands[r]] # None /\ gen[stands[r]].by = r /\ stands[r] \in Chat
    BY <1>0 DEF PageInv, Own, AliveInv, Committed
  <2> QED
    BY <1>1, <1>2, <1>3, <2>1
<1>10. \A q \in Request : Starting(q)' => Starting(q)
  <2> SUFFICES ASSUME NEW q \in Request, NEW c \in Chat, gen'[c] = [by |-> q, shown |-> FALSE]
               PROVE  \E e \in Chat : gen[e] = [by |-> q, shown |-> FALSE]
    BY DEF Starting
  <2>1. gen'[c] \in [by : Request \cup {Person}, shown : BOOLEAN]
    OBVIOUS
  <2>2. c # Start
    BY <1>2, <2>1, NativeAssumption
  <2>3. gen'[c] = gen[IF c = d THEN Start ELSE c]
    BY <1>2, <2>2
  <2> QED
    BY <2>3
<1>11. SawInv'
  BY <1>1, <1>3, <1>4, <1>10 DEF PageInv, Marks, SawInv
<1> QED
  BY <1>5, <1>6, <1>7, <1>8, <1>9, <1>10, <1>11, ElsewhereStill, ElsewhereWatch, ElsewhereApart
     DEF PageInv, Places, Own, Marks

LEMMA RenameKnown == ASSUME Inv, PageInv, NEW c \in Chat, Rename(c) PROVE PageInv'
<1>1. Relocate(c) /\ route' = c
  BY DEF Rename
<1>2. route' \in Given'
  <2>1. PICK r \in Request : stands[r] = Start
    BY <1>1 DEF Relocate
  <2>2. stands'[r] = c /\ c \in Fresh
    BY <1>1, <2>1 DEF Relocate
  <2> QED
    BY <1>1, <2>2 DEF Given
<1>3. route' # Start
  BY <1>1, NativeAssumption DEF Relocate
<1>4. Elsewhere
  BY <1>2, <1>3 DEF Elsewhere, Rename, script, worker, book
<1> QED
  BY <1>1, <1>4, RelocateKnown

LEMMA MoveKnown == ASSUME Inv, PageInv, NEW c \in Chat, Move(c) PROVE PageInv'
<1> USE ConstantTypes
<1>1. /\ UNCHANGED <<done, cancelled, active, lease, held, send, stop, conf, holds, told, strayed, misled>>
      /\ route' = c /\ c # route /\ c \in (Chat \ Fresh) \cup Given
      /\ \A k \in Job : conf[k] # "none" => StillBound(Interrupts(k))
      /\ \/ \E d \in Fresh : Relocate(d)
         \/ UNCHANGED <<gen, stands>>
  BY DEF Move, script, worker, book
<1>2. ASSUME NEW k \in Job, conf[k] = "watching", active = Interrupts(k)
      PROVE  ~(route' = Start /\ send[active].conv = Start)
  BY <1>1, <1>2 DEF StillBound, Bound
<1>3. Given \subseteq Given' => Elsewhere
  BY <1>1, <1>2 DEF Elsewhere
<1>4. CASE UNCHANGED <<gen, stands>>
  <2>1. /\ \A q : Committed(q)' <=> Committed(q)
        /\ \A q : Starting(q)' <=> Starting(q)
        /\ Given' = Given
    BY <1>4 DEF Committed, Starting, Given
  <2>2. Elsewhere
    BY <1>3, <2>1
  <2>3. GenInv' /\ AddressInv'
    <3>1. GenInv'
      BY <1>1, <1>4, <2>1 DEF PageInv, Places, GenInv
    <3>2. AddressInv'
      BY <1>1, <2>1, <2>2 DEF Elsewhere, PageInv, Places, AddressInv
    <3> QED
      BY <3>1, <3>2
  <2>4. PlaceInv' /\ HomeInv' /\ FarInv' /\ AliveInv' /\ SawInv'
    <3>1. PlaceInv' /\ HomeInv' /\ FarInv'
      BY <1>1, <1>4 DEF PageInv, Own, PlaceInv, HomeInv, FarInv, Committed
    <3>2. AliveInv' /\ SawInv'
      BY <1>1, <1>4, <2>1 DEF PageInv, Own, AliveInv, Marks, SawInv
    <3> QED
      BY <3>1, <3>2
  <2> QED
    BY <1>1, <1>4, <2>1, <2>2, <2>3, <2>4, ElsewhereStill, ElsewhereWatch, ElsewhereApart
       DEF PageInv, Places, Own, Marks
<1>5. CASE \E d \in Fresh : Relocate(d)
  <2>1. PICK d \in Fresh : Relocate(d)
    BY <1>5
  <2>2. Given \subseteq Given'
    <3> SUFFICES ASSUME NEW q \in Request, stands[q] \in Fresh PROVE stands[q] \in {stands'[p] : p \in Request}
      BY DEF Given
    <3>1. stands'[q] = stands[q]
      BY <2>1, NativeAssumption DEF Relocate
    <3> QED
      BY <3>1
  <2>3. d \in Chat
    BY NativeAssumption
  <2> QED
    BY <1>3, <2>1, <2>2, <2>3, RelocateKnown
<1> QED
  BY <1>1, <1>4, <1>5

----------------------------------------------------------------------------
(* The whole page                                                             *)

LEMMA InitPage == Init => PageInv
<1> SUFFICES ASSUME Init PROVE PageInv
  OBVIOUS
<1> USE ConstantTypes DEF Init, Committed, NoSend, NoStop
<1>1. Places
  <2>1. GenInv /\ TransInv /\ UsedInv /\ StrayInv /\ StopNameInv
    BY DEF GenInv, TransInv, UsedInv, StrayInv, StopNameInv
  <2>2. AddressInv
    BY NativeAssumption DEF AddressInv
  <2> QED
    BY <2>1, <2>2 DEF Places
<1>2. Order
  <2>1. DoomInv /\ AskedInv /\ WorkInv /\ MonInv
    BY DEF DoomInv, AskedInv, WorkInv, MonInv, Submitted
  <2>2. OrderInv /\ ConfInv
    BY DEF OrderInv, ConfInv, Job
  <2> QED
    BY <2>1, <2>2 DEF Order
<1>3. Own
  BY DEF Own, PlaceInv, HomeInv, FarInv, WatchInv, AliveInv
<1>4. Marks
  BY DEF Marks, MarkInv, AnswerInv, ErrInv, SawInv, ToldInv
<1>5. Apart
  BY DEF Apart, HoldInv, ExclInv
<1> QED
  BY <1>1, <1>2, <1>3, <1>4, <1>5 DEF PageInv

LEMMA TurnKnown == ASSUME Inv, PageInv, NEW r \in Request, Turn(r) PROVE PageInv'
<1>1. CASE \E w : Passes(r, w)
  BY <1>1, PassesKnown
<1>2. CASE Leaves(r)
  BY <1>2, LeavesKnown
<1>3. CASE \E w : Works(r, w)
  BY <1>3, WorksKnown
<1> QED
  BY <1>1, <1>2, <1>3, EarlyPasses, LastLeaves, NextWorks, FaultWorks, ReleaseWorks, StoppedKnown,
     SeeKnown, AskKnown, AdmittedKnown, AdmitKnown, SubmitKnown DEF Turn

LEMMA PageStep == ASSUME Inv, PageInv, [Next]_vars PROVE PageInv'
<1>1. CASE Site
  BY <1>1, MoveKnown, RenameKnown, ShowKnown, EndKnown, PromptKnown, DraftKnown DEF Site
<1>2. CASE Background
  BY <1>2, RegisterKnown, AddressKnown, ArrivesKnown DEF Background
<1>3. ASSUME NEW r \in Request, Turn(r) PROVE PageInv'
  BY <1>3, TurnKnown
<1>4. ASSUME NEW x \in Halt, Interrupt(x) PROVE PageInv'
  BY <1>4, ConfirmedKnown, UnconfirmedKnown DEF Interrupt
<1>5. ASSUME NEW k \in Job, Clicks(k) PROVE PageInv'
  BY <1>5, ClicksKnown
<1> QED
  BY <1>1, <1>2, <1>3, <1>4, <1>5, StutterKnown DEF Next

LEMMA PageInvariance == Spec => [](Inv /\ PageInv)
<1>1. Init => Inv /\ PageInv
  BY InitInv, InitPage
<1>2. Inv /\ PageInv /\ [Next]_vars => (Inv /\ PageInv)'
  BY StepInv, PageStep
<1> QED
  BY <1>1, <1>2, PTL DEF Spec

\* A turn the background was told is stopped was never sent, or its answer ended, or the
\* conversation the page has it in is quarantined, unless a Stop under the turn's old address or
\* somebody the page followed there let it out (createInterruptHandler, confirmStopped).
THEOREM StopsAreReal == Spec => []StopIsReal
<1>1. Inv /\ PageInv => StopIsReal
  <2> SUFFICES ASSUME Inv, PageInv, NEW r \in told, Committed(r),
                      r \notin done, send[r].conv \notin held
               PROVE  Belated(r) \/ Followed(send[r].conv)
    BY DEF StopIsReal, Committed
  <2>1. r \in Request
    BY DEF Inv, Typed, TypeOK, WorkerTypeOK
  <2>2. CASE active = r
    BY <2>1, <2>2 DEF PageInv, Marks, ToldInv, Ended, Followed
  <2>3. CASE active # r
    BY <2>1, <2>3 DEF PageInv, Apart, HoldInv, Sure, Unsure
  <2> QED
    BY <2>2, <2>3
<1> QED
  BY <1>1, PageInvariance, PTL

\* A prompt is never put on top of another prompt's unfinished answer the page knows the place
\* of (preSubmitRefusal, the verdict and isBusyState between them).
THEOREM NeverASecondPrompt == Spec => NoSecondPrompt
<1> DEFINE A == \A r \in Request : Submits(r) => gen[route] = None \/ gen[route].by \notin Placed
<1>1. Inv /\ PageInv /\ [Next]_vars => A
  <2> SUFFICES ASSUME Inv, PageInv, [Next]_vars, NEW r \in Request, Submits(r),
                      gen[route] # None, gen[route].by \in Placed
               PROVE  FALSE
    OBVIOUS
  <2> USE DEF PageInv
  <2>1. Submit(r)
    BY OnlySubmitPlaces DEF Submits, Inv
  <2>2. active = r /\ route = send[r].conv /\ ~Committed(r) /\ route \in Chat
    BY <2>1 DEF Submit, MaySubmit, Bound, Submits, Committed, Inv, Typed, TypeOK, SiteTypeOK
  <2>3. PICK p \in Placed : p = gen[route].by
    OBVIOUS
  <2>4. p \in Request \ misled /\ stands[p] = send[p].conv /\ ~Belated(p) /\ ~Followed(send[p].conv)
    BY <2>3 DEF Placed
  <2>5. stands[p] = route /\ p \notin done
    BY <2>2, <2>3, <2>4 DEF Places, GenInv
  <2>6. Committed(p) /\ p # r
    BY <2>2, <2>5, ConstantTypes DEF Committed
  <2>7. Sure(p)
    BY <2>2, <2>4, <2>5, <2>6, ConstantTypes DEF Apart, ExclInv, Had
  <2> QED
    BY <2>4, <2>5, <2>7 DEF Sure, Unsure
<1> QED
  BY <1>1, PageInvariance, PTL DEF Spec, NoSecondPrompt
=============================================================================
