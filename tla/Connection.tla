----------------------------- MODULE Connection -----------------------------
(***************************************************************************)
(* The worker's WebSocket to the controller (src/src/background/index.ts,  *)
(* reconnect.ts): pairing and authentication, the reconnect schedule with  *)
(* its timer and its alarm, the keepalive, the popup's three buttons, and  *)
(* what survives when the worker is stopped.                               *)
(*                                                                         *)
(* An action is the code between two awaits.  Sockets come from a small    *)
(* set: one is used again once nothing refers to it.  A pairing code and   *)
(* a connection token are told apart by the endpoint that issued them.     *)
(***************************************************************************)
EXTENDS Naturals, Sequences

CONSTANTS
    Sock,          \* WebSocket objects
    Endpoint,      \* loopback addresses
    MaxAttempt,    \* maximumStoredReconnectAttempt
    MaybeLong,     \* from this attempt on the delay may reach reconnectAlarmThresholdMs
    MaxWrites,     \* snapshots waiting in storageWrites
    MaxPopups,     \* clicks on Pair, Reconnect and Disconnect
    MaxFailures,   \* writes chrome.storage refuses
    MaxStops,      \* times the browser stops the worker
    None

PopupCall == [op   : {"pair", "reconnect", "disconnect"},
           step : {"saving", "saved", "stopping", "releasing"}]

ASSUME ConnectionAssumption ==
    /\ None \notin Sock \cup Endpoint \cup PopupCall
    /\ "popup" \notin Sock \cup {None}
    /\ {MaxAttempt, MaybeLong, MaxWrites, MaxPopups, MaxFailures, MaxStops} \subseteq Nat

VARIABLES
    up,          \* the worker: "down", "loading", "ready", "failed" (initialize rejected)
    sock,        \* the socket the worker regards as current
    ready,       \* readyState of every WebSocket
    to,          \* the endpoint it was opened to
    peer,        \* what the worker presented on it, then what the controller answered
    busy,        \* the awaiting handler of its bridge.paired or bridge.connected
    greets,      \* handlers of bridge.connected waiting for providerStatusQueue
    connected, connecting, pairing, attempt,
    timer,       \* reconnectTimer
    alarm,       \* the alarm the browser holds
    rang,        \* an alarm event waiting for initialize
    mem,         \* stored
    disk,        \* what chrome.storage.local holds
    writes,      \* storageWrites: snapshots, each with whoever awaits it
    ka,          \* the socket keepAliveTimer was started for
    nonce,       \* the socket pendingKeepAliveNonce was sent on
    late,        \* the socket keepAliveDeadlineTimer watches
    popup,       \* the popup call under way
    work,        \* the socket that asked for the operations still outstanding
    popups, failures, stops,
    refused,     \* the last click ended in an error
    unwatched      \* the current handshake ended in an error

link   == <<sock, ready, to, peer, busy, greets>>
flags  == <<connected, connecting, pairing, attempt>>
wakeup == <<timer, alarm, rang>>
store  == <<mem, disk, writes>>
alive  == <<ka, nonce, late>>
seen   == <<popups, failures, stops, refused, unwatched>>
vars   == <<up, link, flags, wakeup, store, alive, popup, work, seen>>

Running == up \in {"ready", "failed"}

Empty == [endpoint |-> None, token |-> None, at |-> FALSE, attempt |-> 0]

Min(a, b) == IF a < b THEN a ELSE b

\* Nothing of this WebSocket is left that the code could still look at.
Unused(k) ==
    /\ ready[k] = "closed" /\ k # sock
    /\ busy[k] = "idle"
    /\ k \notin {ka, nonce, late, work}

-----------------------------------------------------------------------------
(* Storage: a snapshot of `stored` is cloned when it is saved and written  *)
(* in order.                                                               *)

Enqueue(q, m, by) == Append(q, [snap |-> m, by |-> by])

Room == Len(writes) < MaxWrites

NoSchedule(m) == [m EXCEPT !.at = FALSE, !.attempt = 0]

-----------------------------------------------------------------------------
(* Connecting. *)

(* connect(), called with `stored` m, socket s, connecting c, pending      *)
(* writes q and ready states r; the callers clear the wakeups.             *)
Connect(m, s, c, q, r) ==
    IF m.endpoint = None \/ c \/ (s # None /\ r[s] = "open")
    THEN mem' = m /\ writes' = q /\ sock' = s /\ connecting' = c /\ ready' = r /\ UNCHANGED <<to, peer>>
    ELSE LET now == [m EXCEPT !.at = FALSE, !.attempt = IF m.at THEN attempt ELSE @] IN
         /\ mem' = now
         /\ writes' = IF m.at THEN Enqueue(q, now, None) ELSE q
         /\ \E k \in {j \in Sock : Unused(j)} :
              /\ sock' = k /\ connecting' = TRUE
              /\ ready' = [r EXCEPT ![k] = "connecting"]
              /\ to' = [to EXCEPT ![k] = m.endpoint]
              /\ peer' = [peer EXCEPT ![k] = None]

ClearWakeup == timer' = FALSE /\ alarm' = FALSE

\* mutant: the nonce is left pending
ForgetDeadline == late' = None /\ UNCHANGED nonce

ForgetPing == late' = None /\ nonce' = None

ClearKeepAlive == ka' = None /\ ForgetPing

\* mutant: the schedule is not saved
ScheduleUnsaved(m) ==
    IF m.endpoint = None \/ m.token = None \/ timer \/ m.at
    THEN mem' = m /\ UNCHANGED <<attempt, timer, alarm, writes>>
    ELSE LET next == Min(MaxAttempt, attempt + 1) IN
         /\ attempt' = next
         /\ mem' = [m EXCEPT !.at = TRUE, !.attempt = next]
         /\ timer' = TRUE /\ UNCHANGED <<writes, alarm>>

\* scheduleReconnect, with scheduleReconnectAt.  The alarm may not be created: it is only a second wakeup.
ScheduleReconnect(m) ==
    IF m.endpoint = None \/ m.token = None \/ timer \/ m.at
    THEN mem' = m /\ UNCHANGED <<attempt, timer, alarm, writes>>
    ELSE LET next == Min(MaxAttempt, attempt + 1)
             sched == [m EXCEPT !.at = TRUE, !.attempt = next] IN
         /\ attempt' = next
         /\ mem' = sched /\ writes' = Enqueue(writes, sched, None)
         /\ timer' = TRUE
         /\ alarm' \in IF attempt >= MaybeLong THEN BOOLEAN ELSE {FALSE}

\* mutant: the fired wakeup is forgotten without a new attempt
RunOnlyClears ==
    /\ Room /\ ClearWakeup
    /\ LET m == [mem EXCEPT !.at = FALSE] IN mem' = m /\ writes' = Enqueue(writes, m, None)
    /\ UNCHANGED <<sock, ready, to, peer, connecting>>

RunScheduledReconnect ==
    /\ Room /\ ClearWakeup
    /\ LET m == [mem EXCEPT !.at = FALSE, !.attempt = attempt] IN
       Connect(m, sock, connecting, Enqueue(writes, m, None), ready)

TimerFires ==
    /\ timer /\ RunScheduledReconnect
    /\ UNCHANGED <<up, busy, greets, connected, pairing, attempt, rang, disk, alive, popup, work, seen>>

\* The browser rings; a stopped worker is started by it.
AlarmRings ==
    /\ alarm
    /\ alarm' = FALSE /\ rang' = TRUE
    /\ up' = IF up = "down" THEN "loading" ELSE up
    /\ UNCHANGED <<link, flags, timer, store, alive, popup, work, seen>>

\* The alarm listener, once initialize has settled.
AlarmHandled ==
    /\ rang /\ Running /\ rang' = FALSE
    /\ IF mem.endpoint # None /\ mem.token # None /\ mem.at
       THEN RunScheduledReconnect
       ELSE ClearWakeup /\ UNCHANGED <<sock, ready, to, peer, connecting, mem, writes>>
    /\ UNCHANGED <<up, busy, greets, connected, pairing, attempt, disk, alive, popup, work, seen>>

-----------------------------------------------------------------------------
(* The socket. *)

\* Listeners of a socket that is no longer current do nothing.
SocketOpens(k) ==
    /\ ready[k] = "connecting"
    /\ IF k # sock
       THEN ready' = [ready EXCEPT ![k] = "open"] /\ UNCHANGED peer
       ELSE /\ peer' = [peer EXCEPT ![k] =
                  IF pairing # None THEN <<"pair", pairing>>
                  ELSE IF mem.token # None THEN <<"authenticate", mem.token>>
                  ELSE None]
            /\ ready' = [ready EXCEPT ![k] =
                  IF pairing = None /\ mem.token = None THEN "closing" ELSE "open"]
    /\ UNCHANGED <<up, sock, to, busy, greets, flags, wakeup, store, alive, popup, work, seen>>

\* The controller or the network starts to close an open socket.
SocketClosing(k) ==
    /\ ready[k] = "open"
    /\ ready' = [ready EXCEPT ![k] = "closing"]
    /\ UNCHANGED <<up, sock, to, peer, busy, greets, flags, wakeup, store, alive, popup, work, seen>>

\* mutant: a close before the handshake schedules nothing
CloseOfUnconnected ==
    /\ sock' = None /\ connected' = FALSE /\ connecting' = FALSE /\ work' = None
    /\ ClearKeepAlive
    /\ IF connected THEN ScheduleReconnect(mem) ELSE UNCHANGED <<attempt, timer, alarm, mem, writes>>

\* The close listener of the current socket; stopActiveRequests and the rest end what it asked for.
CurrentCloses ==
    /\ sock' = None /\ connected' = FALSE /\ connecting' = FALSE /\ work' = None
    /\ ClearKeepAlive
    /\ ScheduleReconnect(mem)

SocketCloses(k) ==
    /\ ready[k] \in {"connecting", "closing"}
    /\ ready' = [ready EXCEPT ![k] = "closed"]
    /\ IF k = sock
       THEN Room /\ CurrentCloses
       ELSE UNCHANGED <<sock, connected, connecting, alive, work, attempt, timer, alarm, mem, writes>>
    /\ UNCHANGED <<up, to, peer, busy, greets, pairing, rang, disk, popup, seen>>

-----------------------------------------------------------------------------
(* The handshake: frames of the current socket, one handler at a time. *)

Hears(k) == k = sock /\ ready[k] = "open" /\ busy[k] = "idle" /\ peer[k] # None

\* bridge.paired, up to its save.
Paired(k) ==
    /\ Hears(k) /\ peer[k][1] = "pair" /\ Room
    /\ peer' = [peer EXCEPT ![k] = <<"paired", peer[k][2]>>]
    /\ busy' = [busy EXCEPT ![k] = "paired"]
    /\ pairing' = None
    /\ LET m == [mem EXCEPT !.token = to[k]] IN mem' = m /\ writes' = Enqueue(writes, m, k)
    /\ UNCHANGED <<up, sock, ready, to, greets, connected, connecting, attempt, wakeup, disk, alive, popup, work, seen>>

\* bridge.connected, up to its save.
Greeted(k) ==
    /\ connected' = TRUE /\ connecting' = FALSE /\ attempt' = 0
    /\ ClearWakeup
    /\ mem' = NoSchedule(mem) /\ writes' = Enqueue(writes, NoSchedule(mem), k)

Connected(k) ==
    /\ Hears(k) /\ peer[k][1] \in {"paired", "authenticate"} /\ Room
    /\ peer' = [peer EXCEPT ![k] = <<"greeted", peer[k][2]>>]
    /\ busy' = [busy EXCEPT ![k] = "connected"]
    /\ Greeted(k)
    /\ unwatched' = FALSE
    /\ UNCHANGED <<up, sock, ready, to, greets, pairing, rang, disk, alive, popup, work, popups, failures, stops, refused>>

\* An error frame before the handshake is over.
Refused(k) ==
    /\ Hears(k) /\ peer[k][1] \in {"pair", "authenticate"}
    /\ connecting' = FALSE
    /\ ready' = IF connected THEN ready ELSE [ready EXCEPT ![k] = "closing"]
    /\ peer' = [peer EXCEPT ![k] = None]
    /\ UNCHANGED <<up, sock, to, busy, greets, connected, pairing, attempt, wakeup, store, alive, popup, work, seen>>

\* mutant: the interval that runs is not replaced
KeepAliveOnlyOnce(k) == ka' = (IF ka = None THEN k ELSE ka) /\ ForgetPing

\* clearKeepAliveTimer and the new interval, after sendProviderStatus.
StartKeepAlive(k) == ka' = k /\ ForgetPing

StatusPublished(k) ==
    /\ greets # <<>> /\ Head(greets) = k
    /\ greets' = Tail(greets)
    /\ busy' = [busy EXCEPT ![k] = "idle"]
    /\ StartKeepAlive(k)
    /\ UNCHANGED <<up, sock, ready, to, peer, flags, wakeup, store, popup, work, seen>>

\* publishProviderStatus throws: the socket it would use is not open, or the tabs could not be
\* queried, the selection not saved or the status is too long.  The handler ends without a keepalive.
StatusFails(k) ==
    /\ greets # <<>> /\ Head(greets) = k
    /\ \/ connected /\ (sock = None \/ ready[sock] # "open") /\ UNCHANGED <<failures, unwatched>>
       \/ /\ failures < MaxFailures /\ failures' = failures + 1
          /\ unwatched' = (unwatched \/ k = sock)
    /\ greets' = Tail(greets)
    /\ busy' = [busy EXCEPT ![k] = "idle"]
    /\ UNCHANGED <<up, sock, ready, to, peer, flags, wakeup, store, alive, popup, work, popups, stops, refused>>

\* Anything the controller asks for over the current connection.
WorkBegins ==
    /\ connected /\ sock # None /\ ready[sock] = "open" /\ peer[sock] # None
    /\ peer[sock][1] = "greeted" /\ work = None
    /\ work' = sock
    /\ UNCHANGED <<up, link, flags, wakeup, store, alive, popup, seen>>

-----------------------------------------------------------------------------
(* Keepalive: a ping every interval, its answer before the deadline. *)

Ping ==
    /\ ka # None /\ ka = sock /\ ready[ka] = "open" /\ Running
    /\ IF nonce # None
       THEN ready' = [ready EXCEPT ![ka] = "closing"] /\ UNCHANGED <<nonce, late>>
       ELSE nonce' = ka /\ late' = ka /\ UNCHANGED ready
    /\ UNCHANGED <<up, sock, to, peer, busy, greets, flags, wakeup, store, ka, popup, work, seen>>

Pong ==
    /\ nonce # None /\ nonce = sock /\ ready[nonce] = "open"
    /\ nonce' = None /\ late' = None
    /\ UNCHANGED <<up, link, flags, wakeup, store, ka, popup, work, seen>>

Deadline ==
    /\ late # None
    /\ late' = None
    /\ ready' = IF late = sock /\ nonce = late /\ ready[late] = "open"
                THEN [ready EXCEPT ![late] = "closing"] ELSE ready
    /\ UNCHANGED <<up, sock, to, peer, busy, greets, flags, wakeup, store, ka, nonce, popup, work, seen>>

-----------------------------------------------------------------------------
(* chrome.storage, and whoever awaits a write. *)

\* A written snapshot: its awaiting handler goes on.
WriteDone ==
    /\ writes # <<>>
    /\ LET w == Head(writes) IN
       /\ disk' = w.snap
       /\ writes' = Tail(writes)
       /\ IF w.by \in Sock
          THEN /\ busy' = [busy EXCEPT ![w.by] = IF @ = "connected" THEN "status" ELSE "idle"]
               /\ greets' = IF busy[w.by] = "connected" THEN Append(greets, w.by) ELSE greets
          ELSE UNCHANGED <<busy, greets>>
       /\ popup' = IF w.by = "popup" THEN [popup EXCEPT !.step = "saved"] ELSE popup
    /\ UNCHANGED <<up, sock, ready, to, peer, flags, wakeup, mem, alive, work, seen>>

\* A refused write: the queue goes on, whoever awaits it ends with an error.
WriteRefused ==
    /\ writes # <<>> /\ failures < MaxFailures
    /\ failures' = failures + 1
    /\ LET w == Head(writes) IN
       /\ writes' = Tail(writes)
       /\ busy' = IF w.by \in Sock THEN [busy EXCEPT ![w.by] = "idle"] ELSE busy
       /\ unwatched' = IF w.by \in Sock /\ busy[w.by] = "connected" THEN TRUE ELSE unwatched
       /\ popup' = IF w.by = "popup" THEN None ELSE popup
       /\ refused' = IF w.by = "popup" THEN TRUE ELSE refused
    /\ UNCHANGED <<up, sock, ready, to, peer, greets, flags, wakeup, mem, disk, alive, work, popups, stops>>

-----------------------------------------------------------------------------
(* The popup; popupQueue runs one call at a time. *)

Click == Running /\ popup = None /\ popups < MaxPopups /\ Room

Clicked(op, step) ==
    /\ popups' = popups + 1 /\ refused' = FALSE
    /\ popup' = [op |-> op, step |-> step]
    /\ UNCHANGED <<failures, stops, unwatched>>

\* pairingIsCurrent
PairingIsCurrent(e) ==
    /\ mem.endpoint = e
    /\ (connecting /\ pairing = e) \/ (connected /\ mem.token # None)

PopupPair(e) ==
    /\ Click /\ ~PairingIsCurrent(e)
    /\ Clicked("pair", "saving")
    /\ LET m == [Empty EXCEPT !.endpoint = e] IN mem' = m /\ writes' = Enqueue(writes, m, "popup")
    /\ pairing' = e /\ attempt' = 0
    /\ ClearWakeup
    /\ UNCHANGED <<up, link, connected, connecting, rang, disk, alive, work>>

PopupReconnect ==
    /\ Click /\ Clicked("reconnect", "saving")
    /\ mem' = NoSchedule(mem) /\ writes' = Enqueue(writes, NoSchedule(mem), "popup")
    /\ attempt' = 0
    /\ ClearWakeup
    /\ UNCHANGED <<up, link, connected, connecting, pairing, rang, disk, alive, work>>

\* provisioningQueue.cancelAll, and the first await of stopActiveRequests.
PopupDisconnect ==
    /\ Click /\ Clicked("disconnect", "stopping")
    /\ work' = None
    /\ UNCHANGED <<up, link, flags, wakeup, store, alive>>

PopupSaved ==
    /\ popup # None /\ popup.step = "saved"
    /\ IF popup.op = "pair"
       THEN /\ popup' = [popup EXCEPT !.step = "stopping"] /\ work' = None
            /\ UNCHANGED <<sock, ready, to, peer, connecting, mem, writes, timer, alarm>>
       ELSE /\ popup' = None
            /\ UNCHANGED work
            /\ IF popup.op = "reconnect"
               THEN /\ Connect(mem, sock, connecting, writes, ready)
                    /\ IF sock' # sock THEN ClearWakeup ELSE UNCHANGED <<timer, alarm>>
               ELSE UNCHANGED <<sock, ready, to, peer, connecting, mem, writes, timer, alarm>>
    /\ UNCHANGED <<up, busy, greets, connected, pairing, attempt, rang, disk, alive, seen>>

\* The pages have answered: the socket is dropped before its close event can arrive.
Dropped == IF sock # None /\ ready[sock] \in {"connecting", "open"}
           THEN [ready EXCEPT ![sock] = "closing"] ELSE ready

PairConnects == Connect(mem, None, FALSE, writes, Dropped)

PopupStopped ==
    /\ popup # None /\ popup.step = "stopping"
    /\ connected' = FALSE
    /\ ClearWakeup /\ ClearKeepAlive
    /\ IF popup.op = "pair"
       THEN PairConnects /\ popup' = None
       ELSE /\ sock' = None /\ ready' = Dropped /\ connecting' = FALSE
            /\ mem' = NoSchedule(mem)
            /\ popup' = [popup EXCEPT !.step = "releasing"]
            /\ UNCHANGED <<to, peer, writes>>
    /\ UNCHANGED <<up, busy, greets, pairing, attempt, rang, disk, work, seen>>

\* popup.disconnect once the tab's favicon is released.
PopupReleased ==
    /\ popup # None /\ popup.step = "releasing" /\ Room
    /\ popup' = [popup EXCEPT !.step = "saving"]
    /\ mem' = Empty /\ writes' = Enqueue(writes, Empty, "popup")
    /\ pairing' = None
    /\ UNCHANGED <<up, link, connected, connecting, attempt, wakeup, disk, alive, work, seen>>

-----------------------------------------------------------------------------
(* The worker stops and starts. *)

\* Everything but the alarm and the storage area is lost.
Evict ==
    /\ up # "down" /\ stops < MaxStops
    /\ up' = "down" /\ stops' = stops + 1
    /\ sock' = None /\ ready' = [k \in Sock |-> "closed"] /\ peer' = [k \in Sock |-> None]
    /\ busy' = [k \in Sock |-> "idle"] /\ greets' = <<>>
    /\ connected' = FALSE /\ connecting' = FALSE /\ pairing' = None /\ attempt' = 0
    /\ timer' = FALSE /\ rang' = FALSE
    /\ mem' = Empty /\ writes' = <<>>
    /\ ClearKeepAlive
    /\ popup' = None /\ work' = None /\ refused' = FALSE /\ unwatched' = FALSE
    /\ UNCHANGED <<to, alarm, disk, popups, failures>>

\* Any event but the alarm: the browser starts, the popup opens, a tab changes.
Wakes ==
    /\ up = "down" /\ up' = "loading"
    /\ UNCHANGED <<link, flags, wakeup, store, alive, popup, work, seen>>

\* The end of initialize: a reconnect time still ahead is waited for, a past one is forgotten.
Initialized ==
    /\ up = "loading" /\ up' = "ready"
    /\ attempt' = disk.attempt
    /\ \/ /\ disk.endpoint # None /\ disk.token # None /\ disk.at
          /\ timer' = TRUE /\ mem' = disk
          /\ alarm' \in IF disk.attempt > MaybeLong THEN BOOLEAN ELSE {FALSE}
          /\ UNCHANGED <<sock, ready, to, peer, connecting, writes>>
       \/ /\ LET m == [disk EXCEPT !.at = FALSE] IN
             Connect(m, None, FALSE, IF disk.at THEN Enqueue(<<>>, m, None) ELSE <<>>, ready)
          /\ IF disk.endpoint = None THEN UNCHANGED <<timer, alarm>> ELSE ClearWakeup
    /\ UNCHANGED <<busy, greets, connected, pairing, rang, disk, alive, popup, work, seen>>

\* initialize rejects, before or after `stored` was read.
InitializeFails ==
    /\ up = "loading" /\ failures < MaxFailures
    /\ up' = "failed" /\ failures' = failures + 1
    /\ mem' \in {Empty, disk}
    /\ attempt' \in {0, mem'.attempt}
    /\ ClearWakeup
    /\ UNCHANGED <<link, connected, connecting, pairing, rang, disk, writes, alive, popup, work, popups, stops, refused, unwatched>>

-----------------------------------------------------------------------------
Init ==
    /\ up = "loading"
    /\ sock = None /\ ready = [k \in Sock |-> "closed"] /\ to = [k \in Sock |-> None]
    /\ peer = [k \in Sock |-> None] /\ busy = [k \in Sock |-> "idle"] /\ greets = <<>>
    /\ connected = FALSE /\ connecting = FALSE /\ pairing = None /\ attempt = 0
    /\ timer = FALSE /\ alarm = FALSE /\ rang = FALSE
    /\ mem = Empty
    /\ disk \in {Empty} \cup [endpoint : Endpoint, token : Endpoint, at : BOOLEAN, attempt : {0, MaybeLong}]
    /\ disk.endpoint = disk.token
    /\ writes = <<>>
    /\ ka = None /\ nonce = None /\ late = None
    /\ popup = None /\ work = None
    /\ popups = 0 /\ failures = 0 /\ stops = 0 /\ refused = FALSE /\ unwatched = FALSE

PopupSteps == PopupSaved \/ PopupStopped \/ PopupReleased
Frames(k) == Paired(k) \/ Connected(k) \/ Refused(k)

Next ==
    \/ TimerFires \/ AlarmRings \/ AlarmHandled
    \/ \E k \in Sock : SocketOpens(k) \/ SocketClosing(k) \/ SocketCloses(k)
    \/ \E k \in Sock : Frames(k) \/ StatusPublished(k) \/ StatusFails(k)
    \/ WorkBegins
    \/ Ping \/ Pong \/ Deadline
    \/ WriteDone \/ WriteRefused
    \/ \E e \in Endpoint : PopupPair(e)
    \/ PopupReconnect \/ PopupDisconnect \/ PopupSteps
    \/ Evict \/ Wakes \/ Initialized \/ InitializeFails

Spec == Init /\ [][Next]_vars

(* The browser runs timers and alarms, storage answers, a socket that      *)
(* closes ends, and the worker's own continuations run.                    *)
Fairness ==
    /\ WF_vars(TimerFires) /\ WF_vars(AlarmRings) /\ WF_vars(AlarmHandled)
    /\ WF_vars(Initialized) /\ WF_vars(WriteDone) /\ WF_vars(PopupSteps)
    /\ \A k \in Sock : WF_vars(SocketCloses(k) /\ ready[k] = "closing") /\ WF_vars(StatusPublished(k))

FairSpec == Spec /\ Fairness

-----------------------------------------------------------------------------
(* The bridge has an address and a token to go back to. *)
Paired_(m) == m.endpoint # None /\ m.token # None

(* A worker that has somewhere to connect to, no socket and no click under *)
(* way has a timer running, unless a click ended in an error the person    *)
(* was shown; and the timer runs exactly while a reconnect time is stored. *)
(* The close listener, connect, runScheduledReconnect and the popup's      *)
(* handlers all give up and take over the schedule at different awaits     *)
(* (index.ts 1084-1120, 1945-2055, 2471-2597).                             *)
NeverStuck ==
    up = "ready" =>
        /\ timer <=> mem.at
        /\ Paired_(mem) /\ sock = None /\ popup = None /\ ~refused => timer

(* A connection whose handshake is over is watched by a keepalive of its   *)
(* own, whatever handlers of earlier connections resume after it; only a   *)
(* handshake whose save or whose status failed leaves it without, for the  *)
(* handler ends before it starts one (`unwatched`; 1514-1565).             *)
Watched ==
    sock # None =>
        (ready[sock] = "open" /\ connected /\ busy[sock] = "idle" /\ ~unwatched
         /\ peer[sock] # None /\ peer[sock][1] = "greeted" => ka = sock)

(* The keepalive of a connection never waits for the answer to a ping sent *)
(* on an earlier one, which would close a healthy socket (1524-1565).      *)
NonceIsOwn == ka # None /\ ka = sock /\ nonce # None => nonce = sock

(* Once the snapshots are written, storage holds what the worker would act *)
(* on, so that a stopped worker comes back to the same endpoint, token and *)
(* schedule (saveStored, createSnapshotWriteQueue).                        *)
DiskCatchesUp ==
    failures = 0 /\ up = "ready" /\ writes = <<>> /\ popup = None => disk = mem

(* A scheduled reconnect leads to a new socket, also when the worker is    *)
(* stopped meanwhile and only the alarm is left, unless the pairing is     *)
(* removed or initialize fails (README: "long retry delays use Chrome      *)
(* alarms so service-worker suspension does not stop recovery").           *)
TriesAgain ==
    (timer \/ alarm \/ rang) ~>
        (\/ sock # None \/ refused \/ up = "failed"
         \/ up = "down" /\ ~alarm
         \/ ~Paired_(mem) /\ Running)

(* Operations asked for over a connection end with it: "disconnect: cancel *)
(* outstanding operations" (docs/PROTOCOL.md:39).  Reconnect clicked while *)
(* the socket is CLOSING replaces it without that.                         *)
WorkEndsWithItsSocket == work # None => work = sock \/ popup # None

(* "A four-digit code is one-use ... a second click must not discard the   *)
(* first socket and replay its code" (index.ts:2488): a click on Pair      *)
(* presents its code on one socket.  A socket that was opening when the    *)
(* code was entered presents it too, and is then dropped by the handler.   *)
CodeIsPresentedOnce ==
    popups <= 1 =>
        \A j, k \in Sock :
            /\ peer[j] # None /\ peer[j][1] = "pair"
            /\ peer[k] # None /\ peer[k][1] = "pair"
            => j = k
=============================================================================
