--------------------------- MODULE ConnectionProofs ---------------------------
(* Theorems about Connection for every value of its constants: a worker that    *)
(* has somewhere to connect to is never left without a wakeup, storage catches  *)
(* up with what the worker acts on, a greeted socket has a keepalive of its own, *)
(* and a keepalive waits for its own pings.                                     *)
EXTENDS Connection, TLAPS

Snapshot == [endpoint : Endpoint \cup {None}, token : Endpoint \cup {None},
             at : BOOLEAN, attempt : Nat]

By == Sock \cup {None, "popup"}

Write == [snap : Snapshot, by : By]

ReadyState == {"connecting", "open", "closing", "closed"}

Typed ==
    /\ up \in {"down", "loading", "ready", "failed"}
    /\ mem \in Snapshot /\ disk \in Snapshot /\ writes \in Seq(Write)
    /\ attempt \in Nat /\ failures \in Nat
    /\ sock \in Sock \cup {None}
    /\ ready \in [Sock -> ReadyState] /\ to \in [Sock -> Endpoint \cup {None}]
    /\ timer \in BOOLEAN /\ connecting \in BOOLEAN
    /\ popup \in PopupCall \cup {None}

Step(s) == popup # None /\ popup.step = s

\* Nothing runs in a worker that is stopped, or has not read its storage.
OffInv ==
    up \in {"down", "loading"} =>
        /\ sock = None /\ ~connecting /\ popup = None
        /\ ~timer /\ ~mem.at /\ writes = <<>>

Addressed(r, t) == \A k \in Sock : r[k] # "closed" => t[k] # None

SockInv == (connecting => sock # None) /\ Addressed(ready, to)

\* popup.disconnect has dropped the socket and its schedule, then everything.
DroppedInv ==
    /\ Step("releasing") => sock = None /\ ~timer /\ ~mem.at
    /\ popup # None /\ popup.op = "disconnect" /\ popup.step \in {"saving", "saved"} =>
         sock = None /\ ~timer /\ mem.endpoint = None

ScheduleInv ==
    up = "ready" =>
        /\ timer <=> mem.at
        /\ mem.at => Paired_(mem)
        /\ Paired_(mem) /\ sock = None /\ popup = None /\ ~refused => timer
        /\ DroppedInv

\* At most one write is the popup's, and the popup waits for it.
OnePopup(q, p) ==
    \A i \in 1 .. Len(q) : q[i].by = "popup" =>
        /\ p # None /\ p.step = "saving"
        /\ \A j \in 1 .. Len(q) : q[j].by = "popup" => i = j

\* What storage holds in the end.
Settles(q, d, m) == IF q = <<>> THEN d = m ELSE q[Len(q)].snap = m

DiskInv == failures = 0 /\ up = "ready" /\ ~Step("releasing") => Settles(writes, disk, mem)

IInv == Typed /\ OffInv /\ SockInv /\ ScheduleInv /\ OnePopup(writes, popup) /\ DiskInv /\ NonceIsOwn

LEMMA Constants ==
    /\ None \notin Sock /\ None \notin Endpoint /\ None \notin PopupCall
    /\ "popup" \notin Sock /\ "popup" # None
    /\ MaxAttempt \in Nat /\ MaybeLong \in Nat
  BY ConnectionAssumption

----------------------------------------------------------------------------
(* The write queue                                                             *)

LEMMA Appended ==
  ASSUME NEW q \in Seq(Write), NEW m \in Snapshot, NEW by \in By, NEW p, NEW d
  PROVE  /\ Enqueue(q, m, by) \in Seq(Write)
         /\ Settles(Enqueue(q, m, by), d, m)
         /\ by # "popup" /\ OnePopup(q, p) => OnePopup(Enqueue(q, m, by), p)
         /\ OnePopup(q, None) /\ p # None /\ p.step = "saving" => OnePopup(Enqueue(q, m, by), p)
<1> DEFINE w == [snap |-> m, by |-> by]
           all == Append(q, w)
<1>1. w \in Write /\ w.by = by /\ w.snap = m
  BY DEF Write
<1>2. /\ all \in Seq(Write) /\ Len(all) = Len(q) + 1 /\ all[Len(all)] = w
      /\ \A i \in 1 .. Len(q) : all[i] = q[i]
      /\ Len(q) \in Nat /\ all # <<>>
  BY <1>1
<1>3. all = Enqueue(q, m, by)
  BY DEF Enqueue
<1> HIDE DEF all, w
<1>4. ASSUME by # "popup", OnePopup(q, p) PROVE OnePopup(all, p)
  <2>1. \A i \in 1 .. Len(all) : all[i].by = "popup" => i \in 1 .. Len(q)
    BY <1>1, <1>2, <1>4
  <2> QED BY <1>2, <1>4, <2>1 DEF OnePopup
<1>5. ASSUME OnePopup(q, None), p # None, p.step = "saving" PROVE OnePopup(all, p)
  <2>1. \A i \in 1 .. Len(all) : all[i].by = "popup" => i = Len(all)
    BY <1>2, <1>5 DEF OnePopup
  <2> QED BY <1>5, <2>1 DEF OnePopup
<1> QED BY <1>1, <1>2, <1>3, <1>4, <1>5 DEF Settles

LEMMA Tailed ==
  ASSUME NEW q \in Seq(Write), q # <<>>, NEW p, NEW d, NEW m
  PROVE  /\ Head(q) \in Write /\ Tail(q) \in Seq(Write)
         /\ Settles(q, d, m) => Settles(Tail(q), Head(q).snap, m)
         /\ OnePopup(q, p) => OnePopup(Tail(q), p)
         /\ OnePopup(q, p) /\ Head(q).by = "popup" =>
              p # None /\ p.step = "saving" /\ \A r : OnePopup(Tail(q), r)
<1>1. /\ Head(q) \in Write /\ Tail(q) \in Seq(Write) /\ Head(q) = q[1]
      /\ Len(Tail(q)) = Len(q) - 1 /\ Len(q) \in Nat \ {0}
      /\ \A i \in 1 .. Len(Tail(q)) : Tail(q)[i] = q[i + 1] /\ i + 1 \in 1 .. Len(q)
  OBVIOUS
<1>2. Settles(q, d, m) => Settles(Tail(q), Head(q).snap, m)
  <2>1. CASE Tail(q) = <<>>
    <3>1. \A t : t = <<>> => Len(t) = 0
      OBVIOUS
    <3>2. Len(q) - 1 = 0 /\ Len(q) \in Nat
      BY <1>1, <2>1, <3>1
    <3>3. Len(q) = 1
      BY <3>2
    <3> QED BY <1>1, <2>1, <3>3 DEF Settles
  <2>2. CASE Tail(q) # <<>>
    <3>1. Len(Tail(q)) \in 1 .. Len(Tail(q))
      BY <1>1, <2>2
    <3>2. Tail(q)[Len(Tail(q))] = q[Len(q)]
      BY <1>1, <3>1
    <3> QED BY <2>2, <3>2 DEF Settles
  <2> QED BY <2>1, <2>2
<1>3. OnePopup(q, p) => OnePopup(Tail(q), p)
  BY <1>1 DEF OnePopup
<1>4. ASSUME OnePopup(q, p), Head(q).by = "popup" PROVE p # None /\ p.step = "saving" /\ \A r : OnePopup(Tail(q), r)
  <2>1. 1 \in 1 .. Len(q) /\ q[1].by = "popup"
    BY <1>1, <1>4
  <2>2. \A i \in 1 .. Len(Tail(q)) : Tail(q)[i].by # "popup"
    BY <1>1, <1>4, <2>1 DEF OnePopup
  <2> QED BY <1>4, <2>1, <2>2 DEF OnePopup
<1> QED BY <1>1, <1>2, <1>3, <1>4

----------------------------------------------------------------------------
(* connect                                                                     *)

LEMMA ConnectStep ==
  ASSUME Typed, NEW m \in Snapshot, NEW s \in {sock, None}, NEW c \in BOOLEAN,
         NEW q \in Seq(Write), NEW r \in [Sock -> ReadyState],
         c => s # None, Addressed(r, to), Connect(m, s, c, q, r)
  PROVE  /\ mem' \in Snapshot /\ writes' \in Seq(Write) /\ sock' \in Sock \cup {None}
         /\ connecting' \in BOOLEAN /\ ready' \in [Sock -> ReadyState]
         /\ to' \in [Sock -> Endpoint \cup {None}]
         /\ (connecting' => sock' # None) /\ Addressed(ready', to')
         /\ mem'.endpoint = m.endpoint /\ mem'.token = m.token
         /\ mem'.at => m.at
         /\ \A p : OnePopup(q, p) => OnePopup(writes', p)
         /\ \A d : Settles(q, d, m) => Settles(writes', d, mem')
         /\ s = None /\ m.endpoint # None => sock' # None
         /\ \/ sock' = s /\ mem' = m /\ writes' = q
            \/ sock' \in Sock /\ sock' \notin {sock, ka, nonce, late} /\ ~mem'.at
<1>1. CASE m.endpoint = None \/ c \/ (s # None /\ r[s] = "open")
  <2>1. mem' = m /\ writes' = q /\ sock' = s /\ connecting' = c /\ ready' = r /\ to' = to
    BY <1>1 DEF Connect
  <2>2. s = None => m.endpoint = None
    BY <1>1
  <2> QED BY <2>1, <2>2 DEF Typed
<1>2. CASE ~(m.endpoint = None \/ c \/ (s # None /\ r[s] = "open"))
  <2> DEFINE now == [m EXCEPT !.at = FALSE, !.attempt = IF m.at THEN attempt ELSE @]
  <2>1. PICK k \in Sock :
          /\ Unused(k) /\ sock' = k /\ connecting' = TRUE
          /\ mem' = now /\ writes' = IF m.at THEN Enqueue(q, now, None) ELSE q
          /\ ready' = [r EXCEPT ![k] = "connecting"]
          /\ to' = [to EXCEPT ![k] = m.endpoint]
    BY <1>2 DEF Connect
  <2>2. now \in Snapshot /\ ~now.at /\ now.endpoint = m.endpoint /\ now.token = m.token
    BY DEF Snapshot, Typed
  <2>3. ~m.at => now = m
    BY DEF Snapshot
  <2>4. m.endpoint \in Endpoint
    BY <1>2 DEF Snapshot
  <2>5. ready' \in [Sock -> ReadyState] /\ to' \in [Sock -> Endpoint \cup {None}]
    BY <2>1, <2>4 DEF Typed, ReadyState
  <2>6. Addressed(ready', to')
    BY <2>1, <2>4, Constants DEF Addressed, Typed
  <2>7. None \in By /\ None # "popup"
    BY Constants DEF By
  <2> HIDE DEF now
  <2>8. /\ writes' \in Seq(Write)
        /\ \A p : OnePopup(q, p) => OnePopup(writes', p)
        /\ \A d : Settles(q, d, m) => Settles(writes', d, mem')
    <3>1. CASE m.at
      BY <2>1, <2>2, <2>7, <3>1, Appended
    <3>2. CASE ~m.at
      BY <2>1, <2>3, <3>2
    <3> QED BY <3>1, <3>2
  <2>9. k # None /\ k \notin {sock, ka, nonce, late}
    BY <2>1, Constants DEF Unused
  <2> QED BY <2>1, <2>2, <2>5, <2>6, <2>8, <2>9
<1> QED BY <1>1, <1>2

----------------------------------------------------------------------------
(* Sockets, frames and the keepalive                                           *)

\* Neither the schedule nor the storage notices.
LEMMA PlainStep ==
  ASSUME IInv, UNCHANGED <<sock, to, timer, mem, disk, writes, attempt, popup, refused>>,
         failures' = failures \/ failures' = failures + 1,
         up' = up \/ (up = "down" /\ up' = "loading"),
         ready' \in [Sock -> ReadyState], Addressed(ready', to),
         (connecting' = connecting \/ connecting' = FALSE), NonceIsOwn'
  PROVE  IInv'
<1>1. Typed' /\ SockInv'
  <2>1. up' \in {"down", "loading", "ready", "failed"} /\ connecting' \in BOOLEAN
    BY DEF IInv, Typed
  <2>2. (connecting' => sock' # None) /\ Addressed(ready', to')
    BY DEF IInv, SockInv
  <2>3. failures' \in Nat
    BY DEF IInv, Typed
  <2> QED BY <2>1, <2>2, <2>3 DEF IInv, Typed, SockInv
<1>2. OffInv'
  BY DEF IInv, OffInv
<1>3. ScheduleInv'
  BY DEF IInv, ScheduleInv, DroppedInv, Step
<1>4. DiskInv' /\ OnePopup(writes, popup)'
  <2>1. failures' = 0 => failures = 0
    BY DEF IInv, Typed
  <2> QED BY <2>1 DEF IInv, DiskInv, Step
<1> QED BY <1>1, <1>2, <1>3, <1>4 DEF IInv

LEMMA SocketStep ==
  ASSUME IInv, NEW k \in Sock, SocketOpens(k) \/ SocketClosing(k) \/ (SocketCloses(k) /\ k # sock) \/ Refused(k)
  PROVE  IInv'
<1>1. UNCHANGED <<up, sock, to, timer, mem, disk, writes, attempt, failures, popup, refused, ka, nonce>>
  BY DEF SocketOpens, SocketClosing, SocketCloses, Refused, flags, wakeup, store, alive, seen
<1>2. ready' = ready \/ \E x \in ReadyState : ready[k] # "closed" /\ ready' = [ready EXCEPT ![k] = x]
  BY DEF SocketOpens, SocketClosing, SocketCloses, Refused, Hears, ReadyState
<1>3. ready' \in [Sock -> ReadyState] /\ Addressed(ready', to)
  BY <1>2 DEF IInv, Typed, SockInv, Addressed
<1>4. (connecting' = connecting \/ connecting' = FALSE)
  BY DEF SocketOpens, SocketClosing, SocketCloses, Refused, flags
<1>5. NonceIsOwn'
  BY <1>1 DEF IInv, NonceIsOwn
<1> QED BY <1>1, <1>3, <1>4, <1>5, PlainStep

LEMMA KeepAliveStep ==
  ASSUME IInv, Ping \/ Pong \/ Deadline \/ WorkBegins \/ AlarmRings \/ Wakes
               \/ \E k \in Sock : StatusPublished(k) \/ StatusFails(k)
  PROVE  IInv'
<1>1. /\ UNCHANGED <<sock, to, timer, mem, disk, writes, attempt, popup, refused, connecting>>
      /\ failures' = failures \/ failures' = failures + 1
      /\ up' = up \/ (up = "down" /\ up' = "loading")
  BY DEF Ping, Pong, Deadline, WorkBegins, AlarmRings, Wakes, StatusPublished, StatusFails,
         link, flags, wakeup, store, seen
<1>2. ready' \in [Sock -> ReadyState] /\ Addressed(ready', to)
  <2>1. ready' = ready \/ \E k \in Sock : ready[k] = "open" /\ ready' = [ready EXCEPT ![k] = "closing"]
    BY DEF Ping, Pong, Deadline, WorkBegins, AlarmRings, Wakes, StatusPublished, StatusFails,
           link, IInv, Typed
  <2> QED BY <2>1 DEF IInv, Typed, SockInv, Addressed, ReadyState
<1>3. NonceIsOwn'
  BY <1>1 DEF Ping, Pong, Deadline, WorkBegins, AlarmRings, Wakes, StatusPublished, StatusFails,
              StartKeepAlive, ForgetPing, alive, IInv, NonceIsOwn
<1> QED BY <1>1, <1>2, <1>3, PlainStep

\* The close of the current socket schedules a reconnect if there is anywhere to go.
LEMMA CloseStep ==
  ASSUME IInv, sock \in Sock, SocketCloses(sock)
  PROVE  IInv'
<1>1. /\ ready' = [ready EXCEPT ![sock] = "closed"] /\ to' = to
      /\ sock' = None /\ connecting' = FALSE /\ nonce' = None
      /\ ScheduleReconnect(mem)
      /\ UNCHANGED <<up, disk, popup, failures, refused>>
  BY DEF SocketCloses, CurrentCloses, ClearKeepAlive, ForgetPing, seen
<1>2. /\ mem \in Snapshot /\ writes \in Seq(Write) /\ attempt \in Nat /\ timer \in BOOLEAN
      /\ up \notin {"down", "loading"}
  BY Constants DEF IInv, Typed, OffInv
<1> DEFINE n == Min(MaxAttempt, attempt + 1)
           sched == [mem EXCEPT !.at = TRUE, !.attempt = n]
<1>n. n \in Nat /\ sched \in Snapshot /\ sched.at /\ sched.endpoint = mem.endpoint /\ sched.token = mem.token
  <2>1. n \in Nat
    BY <1>2, Constants DEF Min
  <2> HIDE DEF n
  <2> QED BY <1>2, <2>1 DEF Snapshot
<1>3. \/ /\ ~Paired_(mem) \/ timer \/ mem.at
         /\ UNCHANGED <<mem, attempt, timer, writes>>
      \/ /\ Paired_(mem) /\ ~timer /\ ~mem.at
         /\ attempt' = n /\ mem' = sched
         /\ writes' = Enqueue(writes, sched, None) /\ timer' = TRUE
  <2>1. CASE mem.endpoint = None \/ mem.token = None \/ timer \/ mem.at
    BY <1>1, <2>1 DEF ScheduleReconnect, Paired_
  <2>2. CASE ~(mem.endpoint = None \/ mem.token = None \/ timer \/ mem.at)
    BY <1>1, <2>2 DEF ScheduleReconnect, Paired_
  <2> QED BY <2>1, <2>2
<1> HIDE DEF n, sched
<1>4. /\ mem' \in Snapshot /\ mem'.endpoint = mem.endpoint /\ mem'.token = mem.token
      /\ attempt' \in Nat /\ timer' \in BOOLEAN
      /\ up = "ready" => (timer' <=> mem'.at) /\ (mem'.at => Paired_(mem')) /\ (Paired_(mem') => timer')
  <2>1. CASE UNCHANGED <<mem, attempt, timer, writes>> /\ (~Paired_(mem) \/ timer \/ mem.at)
    <3>1. up = "ready" => (timer <=> mem.at) /\ (mem.at => Paired_(mem))
      BY DEF IInv, ScheduleInv
    <3>2. timer' = timer /\ mem' = mem /\ attempt' = attempt
      BY <2>1
    <3> QED BY <1>2, <2>1, <3>1, <3>2
  <2>2. CASE Paired_(mem) /\ attempt' = n /\ mem' = sched /\ timer' = TRUE
    <3>1. Paired_(mem')
      BY <2>2, <1>n DEF Paired_
    <3> QED BY <1>n, <2>2, <3>1
  <2> QED BY <1>3, <2>1, <2>2
<1>5. /\ writes' \in Seq(Write)
      /\ OnePopup(writes', popup)
      /\ \A d : Settles(writes, d, mem) => Settles(writes', d, mem')
  <2>1. None \in By /\ None # "popup"
    BY Constants DEF By
  <2> QED BY <1>2, <1>3, <1>n, <2>1, Appended DEF IInv
<1>6. Typed' /\ SockInv'
  BY <1>1, <1>4, <1>5, Constants DEF IInv, Typed, SockInv, Addressed, ReadyState
<1>7. ScheduleInv'
  BY <1>1, <1>2, <1>4, Constants DEF IInv, ScheduleInv, DroppedInv, Step
<1>8. OffInv' /\ DiskInv' /\ NonceIsOwn'
  BY <1>1, <1>2, <1>5 DEF IInv, OffInv, DiskInv, NonceIsOwn, Step
<1> QED BY <1>1, <1>5, <1>6, <1>7, <1>8 DEF IInv

\* bridge.paired and bridge.connected
LEMMA FrameStep ==
  ASSUME IInv, NEW k \in Sock, Paired(k) \/ Connected(k)
  PROVE  IInv'
<1>1. /\ sock = k /\ ready[k] = "open" /\ writes' = Enqueue(writes, mem', k)
      /\ UNCHANGED <<up, sock, ready, to, disk, popup, failures, refused, ka, nonce>>
  BY DEF Paired, Connected, Hears, Greeted, alive, seen
<1>2. /\ mem \in Snapshot /\ to[k] \in Endpoint /\ k \in By /\ k # "popup"
      /\ up \notin {"down", "loading"}
  BY <1>1, Constants DEF IInv, Typed, SockInv, Addressed, By, OffInv
<1>3. /\ mem' \in Snapshot /\ attempt' \in Nat /\ timer' \in BOOLEAN
      /\ (connecting' = connecting \/ connecting' = FALSE)
      /\ up = "ready" => (timer' <=> mem'.at) /\ (mem'.at => Paired_(mem'))
  <2>1. CASE Paired(k)
    <3>1. mem' = [mem EXCEPT !.token = to[k]] /\ UNCHANGED <<attempt, timer, connecting>>
      BY <2>1 DEF Paired, wakeup
    <3> QED BY <1>2, <3>1, Constants DEF IInv, Typed, ScheduleInv, Snapshot, Paired_
  <2>2. CASE Connected(k)
    <3>1. mem' = NoSchedule(mem) /\ attempt' = 0 /\ timer' = FALSE /\ connecting' = FALSE
      BY <2>2 DEF Connected, Greeted, ClearWakeup
    <3> QED BY <1>2, <3>1 DEF Snapshot, NoSchedule
  <2> QED BY <2>1, <2>2
<1>4. writes' \in Seq(Write) /\ OnePopup(writes', popup) /\ \A d : Settles(writes', d, mem')
  BY <1>1, <1>2, <1>3, Appended DEF IInv, Typed
<1>5. Typed' /\ SockInv'
  <2>1. connecting' \in BOOLEAN /\ (connecting' => connecting)
    <3>1. connecting \in BOOLEAN
      BY DEF IInv, Typed
    <3>2. CASE connecting' = connecting
      BY <3>1, <3>2
    <3>3. CASE connecting' = FALSE
      BY <3>3
    <3> QED BY <1>3, <3>2, <3>3
  <2> QED BY <1>1, <1>3, <1>4, <2>1 DEF IInv, Typed, SockInv
<1>6. ScheduleInv'
  BY <1>1, <1>2, <1>3, Constants DEF IInv, ScheduleInv, DroppedInv, Step
<1>7. OffInv' /\ DiskInv' /\ NonceIsOwn'
  BY <1>1, <1>2, <1>4 DEF IInv, OffInv, DiskInv, NonceIsOwn
<1> QED BY <1>1, <1>4, <1>5, <1>6, <1>7 DEF IInv

----------------------------------------------------------------------------
(* The scheduled reconnect                                                     *)

LEMMA RunStep ==
  ASSUME IInv, RunScheduledReconnect, up \notin {"down", "loading"}, timer \/ mem.at,
         UNCHANGED <<up, attempt, disk, popup, failures, refused, ka, nonce>>
  PROVE  IInv'
<1> DEFINE m == [mem EXCEPT !.at = FALSE, !.attempt = attempt]
           q == Enqueue(writes, m, None)
<1>1. Connect(m, sock, connecting, q, ready) /\ timer' = FALSE
  BY DEF RunScheduledReconnect, ClearWakeup
<1>2. m \in Snapshot /\ ~m.at
  BY DEF IInv, Typed, Snapshot
<1> HIDE DEF m
<1>3. q \in Seq(Write) /\ OnePopup(q, popup) /\ \A d : Settles(q, d, m)
  <2>1. None \in By /\ None # "popup"
    BY Constants DEF By
  <2> QED BY <1>2, <2>1, Appended DEF IInv, Typed
<1> HIDE DEF q
<1>4. /\ mem' \in Snapshot /\ writes' \in Seq(Write) /\ sock' \in Sock \cup {None}
      /\ connecting' \in BOOLEAN /\ ready' \in [Sock -> ReadyState]
      /\ to' \in [Sock -> Endpoint \cup {None}]
      /\ (connecting' => sock' # None) /\ Addressed(ready', to')
      /\ ~mem'.at /\ mem'.endpoint = m.endpoint
      /\ OnePopup(writes', popup)
      /\ \A d : Settles(writes', d, mem')
      /\ sock = None /\ m.endpoint # None => sock' # None
      /\ sock' = sock \/ (sock' \in Sock /\ sock' # ka)
  BY <1>1, <1>2, <1>3, ConnectStep DEF IInv, Typed, SockInv
<1>5. Typed' /\ SockInv'
  BY <1>1, <1>4 DEF IInv, Typed, SockInv
<1>6. ASSUME up = "ready"
      PROVE  /\ ~Step("releasing")
             /\ ~(popup # None /\ popup.op = "disconnect" /\ popup.step \in {"saving", "saved"})
  BY <1>6 DEF IInv, ScheduleInv, DroppedInv, Paired_
<1>7. ScheduleInv'
  <2>1. up = "ready" => DroppedInv'
    BY <1>6 DEF DroppedInv, Step
  <2>2. Paired_(mem') => sock' # None
    BY <1>4, Constants DEF Paired_
  <2> QED BY <1>1, <1>4, <2>1, <2>2 DEF ScheduleInv
<1>8. OffInv' /\ DiskInv' /\ NonceIsOwn'
  BY <1>4 DEF IInv, OffInv, DiskInv, NonceIsOwn
<1> QED BY <1>4, <1>5, <1>7, <1>8 DEF IInv

LEMMA WakeupStep ==
  ASSUME IInv, TimerFires \/ AlarmHandled
  PROVE  IInv'
<1>1. CASE TimerFires
  <2>1. timer /\ up \notin {"down", "loading"}
    BY <1>1 DEF TimerFires, IInv, OffInv
  <2>2. RunScheduledReconnect /\ UNCHANGED <<up, attempt, disk, popup, failures, refused, ka, nonce>>
    BY <1>1 DEF TimerFires, alive, seen
  <2> QED BY <2>1, <2>2, RunStep
<1>2. CASE AlarmHandled /\ mem.endpoint # None /\ mem.token # None /\ mem.at
  <2>1. mem.at /\ up \notin {"down", "loading"}
    BY <1>2 DEF AlarmHandled, Running
  <2>2. RunScheduledReconnect /\ UNCHANGED <<up, attempt, disk, popup, failures, refused, ka, nonce>>
    BY <1>2 DEF AlarmHandled, alive, seen
  <2> QED BY <2>1, <2>2, RunStep
<1>3. CASE AlarmHandled /\ ~(mem.endpoint # None /\ mem.token # None /\ mem.at)
  <2>1. /\ timer' = FALSE /\ up \in {"ready", "failed"}
        /\ UNCHANGED <<up, sock, ready, to, connecting, mem, writes, attempt, disk, popup, failures, refused, ka, nonce>>
    BY <1>3 DEF AlarmHandled, Running, ClearWakeup, alive, seen
  <2>2. up = "ready" => timer = FALSE
    BY <1>3 DEF IInv, Typed, ScheduleInv, Paired_
  <2>3. Typed' /\ SockInv' /\ OffInv'
    BY <2>1 DEF IInv, Typed, SockInv, OffInv
  <2>4. ScheduleInv'
    BY <2>1, <2>2 DEF IInv, ScheduleInv, DroppedInv, Step
  <2>5. DiskInv' /\ NonceIsOwn' /\ OnePopup(writes, popup)'
    BY <2>1 DEF IInv, DiskInv, NonceIsOwn, Step
  <2> QED BY <2>3, <2>4, <2>5 DEF IInv
<1> QED BY <1>1, <1>2, <1>3

----------------------------------------------------------------------------
(* Storage                                                                     *)

LEMMA WriteStep ==
  ASSUME IInv, WriteDone \/ WriteRefused
  PROVE  IInv'
<1> DEFINE w == Head(writes)
<1>1. /\ writes # <<>> /\ writes' = Tail(writes)
      /\ UNCHANGED <<up, sock, ready, to, connecting, timer, mem, attempt, ka, nonce>>
  BY DEF WriteDone, WriteRefused, flags, wakeup, alive
<1>2. \/ /\ disk' = w.snap /\ UNCHANGED <<failures, refused>>
         /\ popup' = IF w.by = "popup" THEN [popup EXCEPT !.step = "saved"] ELSE popup
      \/ /\ disk' = disk /\ failures' = failures + 1
         /\ popup' = IF w.by = "popup" THEN None ELSE popup
         /\ refused' = IF w.by = "popup" THEN TRUE ELSE refused
  BY DEF WriteDone, WriteRefused, seen
<1>3. /\ w \in Write /\ Tail(writes) \in Seq(Write)
      /\ Settles(writes, disk, mem) => Settles(Tail(writes), w.snap, mem)
      /\ OnePopup(Tail(writes), popup)
      /\ w.by = "popup" => popup # None /\ popup.step = "saving" /\ \A p : OnePopup(Tail(writes), p)
  BY <1>1, Tailed DEF IInv, Typed
<1> HIDE DEF w
<1>4. up \notin {"down", "loading"}
  BY <1>1 DEF IInv, OffInv
<1>5. popup' \in PopupCall \cup {None} /\ disk' \in Snapshot /\ failures' \in Nat
      /\ (failures' = 0 => failures = 0 /\ disk' = w.snap)
  <2>1. popup \in PopupCall \cup {None} /\ disk \in Snapshot /\ failures \in Nat
    BY DEF IInv, Typed
  <2>2. w.snap \in Snapshot
    BY <1>3 DEF Write
  <2>3. popup # None => [popup EXCEPT !.step = "saved"] \in PopupCall
    BY <2>1 DEF PopupCall
  <2>4. popup' \in PopupCall \cup {None}
    BY <1>2, <1>3, <2>1, <2>3
  <2>5. failures + 1 \in Nat /\ failures + 1 # 0
    BY <2>1
  <2>6. disk' \in Snapshot /\ failures' \in Nat /\ (failures' = 0 => failures = 0 /\ disk' = w.snap)
    BY <1>2, <2>1, <2>2, <2>5
  <2> QED BY <2>4, <2>6
<1>6. Typed' /\ SockInv' /\ OffInv' /\ NonceIsOwn'
  BY <1>1, <1>3, <1>4, <1>5 DEF IInv, Typed, SockInv, OffInv, NonceIsOwn
<1>7. CASE w.by # "popup"
  <2>1. popup' = popup /\ refused' = refused
    BY <1>2, <1>7
  <2>2. ScheduleInv'
    BY <1>1, <2>1 DEF IInv, ScheduleInv, DroppedInv, Step
  <2>3. DiskInv' /\ OnePopup(writes, popup)'
    BY <1>1, <1>3, <1>5, <2>1 DEF IInv, DiskInv, Step
  <2> QED BY <1>6, <2>2, <2>3 DEF IInv
<1>8. CASE w.by = "popup"
  <2>1. /\ popup \in PopupCall /\ popup.step = "saving"
        /\ OnePopup(writes, popup)'
    BY <1>1, <1>3, <1>8 DEF IInv, Typed
  <2>2. \/ popup' \in PopupCall /\ popup'.op = popup.op /\ popup'.step = "saved" /\ refused' = refused
        \/ popup' = None /\ refused' = TRUE
    BY <1>2, <1>8, <2>1 DEF PopupCall
  <2>3. ScheduleInv'
    BY <1>1, <2>1, <2>2, Constants DEF IInv, ScheduleInv, DroppedInv, Step
  <2>4. DiskInv'
    BY <1>1, <1>3, <1>5, <2>1 DEF IInv, DiskInv, Step
  <2> QED BY <1>6, <2>1, <2>3, <2>4 DEF IInv
<1> QED BY <1>7, <1>8

----------------------------------------------------------------------------
(* The popup                                                                   *)

\* A click is saved: its snapshot is the last of the queue.
LEMMA ClickSaves ==
  ASSUME IInv, popup' \in PopupCall, popup'.step = "saving", OnePopup(writes, None),
         mem' \in Snapshot, writes' = Enqueue(writes, mem', "popup")
  PROVE  /\ writes' \in Seq(Write) /\ OnePopup(writes', popup') /\ DiskInv'
<1>1. popup' # None /\ "popup" \in By
  BY Constants DEF By
<1>2. /\ writes' \in Seq(Write) /\ OnePopup(writes', popup')
      /\ \A d : Settles(writes', d, mem')
  BY <1>1, Appended DEF IInv, Typed
<1> QED BY <1>2 DEF DiskInv

\* No write is the popup's while nobody waits for one.
LEMMA NoneSaving ==
  ASSUME IInv, ~Step("saving")
  PROVE  \A p : OnePopup(writes, p)
  BY DEF IInv, OnePopup, Step

LEMMA ClickStep ==
  ASSUME IInv, PopupReconnect \/ \E e \in Endpoint : PopupPair(e)
  PROVE  IInv'
<1>1. /\ up \in {"ready", "failed"} /\ popup = None
      /\ popup' \in {[op |-> "pair", step |-> "saving"], [op |-> "reconnect", step |-> "saving"]}
      /\ mem' = NoSchedule(mem) \/ \E e \in Endpoint : mem' = [Empty EXCEPT !.endpoint = e]
      /\ writes' = Enqueue(writes, mem', "popup")
      /\ attempt' = 0 /\ timer' = FALSE
      /\ UNCHANGED <<up, sock, ready, to, connecting, disk, failures, ka, nonce>>
  BY DEF PopupReconnect, PopupPair, Click, Clicked, Running, ClearWakeup, link, alive
<1>2. popup' \in PopupCall /\ popup'.step = "saving" /\ popup'.op # "disconnect"
  BY <1>1 DEF PopupCall
<1>3. mem' \in Snapshot /\ ~mem'.at
  <2>1. \A e \in Endpoint : [Empty EXCEPT !.endpoint = e] \in Snapshot /\ ~[Empty EXCEPT !.endpoint = e].at
    BY DEF Empty, Snapshot
  <2>2. NoSchedule(mem) \in Snapshot /\ ~NoSchedule(mem).at
    BY DEF NoSchedule, Snapshot, IInv, Typed
  <2> QED BY <1>1, <2>1, <2>2
<1>4. OnePopup(writes, None)
  BY <1>1, NoneSaving DEF Step
<1>5. writes' \in Seq(Write) /\ OnePopup(writes', popup') /\ DiskInv'
  BY <1>1, <1>2, <1>3, <1>4, ClickSaves
<1>6. Typed' /\ SockInv' /\ OffInv' /\ NonceIsOwn'
  BY <1>1, <1>2, <1>3, <1>5 DEF IInv, Typed, SockInv, OffInv, NonceIsOwn
<1>7. ScheduleInv'
  BY <1>1, <1>2, <1>3, Constants DEF IInv, ScheduleInv, DroppedInv, Step
<1> QED BY <1>5, <1>6, <1>7 DEF IInv

\* popup.disconnect begins, and popup.pair has saved: the pages are asked to stop.
LEMMA StoppingStep ==
  ASSUME IInv, PopupDisconnect \/ (PopupSaved /\ popup.op = "pair")
  PROVE  IInv'
<1>1. /\ popup' \in PopupCall /\ popup'.step = "stopping"
      /\ ~Step("saving") /\ ~Step("releasing")
      /\ up \in {"ready", "failed"}
      /\ UNCHANGED <<up, sock, ready, to, connecting, timer, mem, disk, writes, attempt, failures, ka, nonce>>
  <2>1. CASE PopupDisconnect
    BY <2>1 DEF PopupDisconnect, Click, Clicked, Running, PopupCall, Step, link, flags, wakeup, store, alive
  <2>2. CASE PopupSaved /\ popup.op = "pair"
    <3>1. popup \in PopupCall /\ popup.step = "saved" /\ popup' = [popup EXCEPT !.step = "stopping"]
      BY <2>2 DEF PopupSaved, IInv, Typed
    <3>2. up \in {"ready", "failed"}
      BY <2>2 DEF PopupSaved, IInv, Typed, OffInv
    <3> QED BY <2>2, <3>1, <3>2 DEF PopupSaved, PopupCall, Step, alive, seen
  <2> QED BY <2>1, <2>2
<1>2. \A p : OnePopup(writes, p)
  BY <1>1, NoneSaving
<1>3. Typed' /\ SockInv' /\ OffInv' /\ NonceIsOwn' /\ OnePopup(writes, popup)'
  BY <1>1, <1>2 DEF IInv, Typed, SockInv, OffInv, NonceIsOwn
<1>4. ScheduleInv' /\ DiskInv'
  BY <1>1, Constants DEF IInv, ScheduleInv, DroppedInv, DiskInv, Step
<1> QED BY <1>3, <1>4 DEF IInv

\* popup.reconnect and popup.disconnect have saved: the call is over.
LEMMA SavedStep ==
  ASSUME IInv, PopupSaved, popup.op # "pair"
  PROVE  IInv'
<1>1. /\ popup \in PopupCall /\ popup.step = "saved" /\ popup' = None
      /\ ~Step("saving") /\ ~Step("releasing") /\ up \in {"ready", "failed"}
      /\ UNCHANGED <<up, attempt, disk, failures, refused, ka, nonce>>
  BY DEF PopupSaved, IInv, Typed, OffInv, Step, alive, seen
<1>2. \A p : OnePopup(writes, p)
  BY <1>1, NoneSaving
<1>3. CASE popup.op = "reconnect"
  <2>1. /\ Connect(mem, sock, connecting, writes, ready)
        /\ timer' = IF sock' # sock THEN FALSE ELSE timer
    BY <1>3 DEF PopupSaved, ClearWakeup
  <2>2. /\ mem' \in Snapshot /\ writes' \in Seq(Write) /\ sock' \in Sock \cup {None}
        /\ connecting' \in BOOLEAN /\ ready' \in [Sock -> ReadyState]
        /\ to' \in [Sock -> Endpoint \cup {None}]
        /\ (connecting' => sock' # None) /\ Addressed(ready', to')
        /\ mem'.endpoint = mem.endpoint
        /\ OnePopup(writes', None)
        /\ \A d : Settles(writes, d, mem) => Settles(writes', d, mem')
        /\ sock = None /\ mem.endpoint # None => sock' # None
        /\ \/ sock' = sock /\ mem' = mem
           \/ sock' \in Sock /\ sock' \notin {sock, ka} /\ ~mem'.at
    BY <1>2, <2>1, ConnectStep DEF IInv, Typed, SockInv
  <2>3. timer' \in BOOLEAN /\ (up = "ready" => (timer' <=> mem'.at) /\ (mem'.at => Paired_(mem')))
    <3>1. timer \in BOOLEAN /\ (up = "ready" => (timer <=> mem.at) /\ (mem.at => Paired_(mem)))
      BY DEF IInv, Typed, ScheduleInv
    <3>2. CASE sock' = sock /\ mem' = mem
      BY <2>1, <3>1, <3>2
    <3>3. CASE sock' # sock /\ ~mem'.at
      BY <2>1, <2>2, <3>3
    <3> QED BY <2>2, <3>2, <3>3
  <2>4. Typed' /\ SockInv' /\ OffInv'
    BY <1>1, <2>2, <2>3 DEF IInv, Typed, SockInv, OffInv
  <2>5. ScheduleInv'
    <3>1. Paired_(mem') /\ sock' = None => FALSE
      BY <2>2, Constants DEF Paired_
    <3> QED BY <1>1, <2>3, <3>1 DEF ScheduleInv, DroppedInv, Step
  <2>6. DiskInv' /\ NonceIsOwn' /\ OnePopup(writes, popup)'
    BY <1>1, <2>2, Constants DEF IInv, DiskInv, NonceIsOwn
  <2> QED BY <2>4, <2>5, <2>6 DEF IInv
<1>4. CASE popup.op = "disconnect"
  <2>1. UNCHANGED <<sock, ready, to, connecting, mem, writes, timer>>
    BY <1>4 DEF PopupSaved
  <2>2. up = "ready" => mem.endpoint = None
    BY <1>1, <1>4, Constants DEF IInv, ScheduleInv, DroppedInv
  <2>3. Typed' /\ SockInv' /\ OffInv' /\ NonceIsOwn' /\ OnePopup(writes, popup)'
    BY <1>1, <1>2, <2>1 DEF IInv, Typed, SockInv, OffInv, NonceIsOwn
  <2>4. ScheduleInv' /\ DiskInv'
    BY <1>1, <2>1, <2>2 DEF IInv, ScheduleInv, DroppedInv, DiskInv, Paired_, Step
  <2> QED BY <2>3, <2>4 DEF IInv
<1> QED BY <1>1, <1>3, <1>4 DEF PopupCall

\* The socket is dropped, and popup.pair opens another.
LEMMA StoppedStep ==
  ASSUME IInv, PopupStopped
  PROVE  IInv'
<1>1. /\ popup \in PopupCall /\ popup.step = "stopping" /\ popup # None
      /\ ~Step("saving") /\ ~Step("releasing") /\ up \in {"ready", "failed"}
      /\ timer' = FALSE /\ nonce' = None
      /\ UNCHANGED <<up, attempt, disk, failures, refused>>
  BY Constants DEF PopupStopped, ClearWakeup, ClearKeepAlive, ForgetPing, IInv, Typed, OffInv, Step, seen
<1>2. \A p : OnePopup(writes, p)
  BY <1>1, NoneSaving
<1>3. Dropped \in [Sock -> ReadyState] /\ Addressed(Dropped, to)
  BY DEF Dropped, IInv, Typed, SockInv, Addressed, ReadyState
<1>4. CASE popup.op = "pair"
  <2>1. Connect(mem, None, FALSE, writes, Dropped) /\ popup' = None
    BY <1>4 DEF PopupStopped, PairConnects
  <2>2. /\ mem' \in Snapshot /\ writes' \in Seq(Write) /\ sock' \in Sock \cup {None}
        /\ connecting' \in BOOLEAN /\ ready' \in [Sock -> ReadyState]
        /\ to' \in [Sock -> Endpoint \cup {None}]
        /\ (connecting' => sock' # None) /\ Addressed(ready', to')
        /\ mem'.endpoint = mem.endpoint
        /\ OnePopup(writes', None)
        /\ \A d : Settles(writes, d, mem) => Settles(writes', d, mem')
        /\ mem.endpoint # None => sock' # None
        /\ \/ sock' = None /\ mem' = mem
           \/ sock' \in Sock /\ ~mem'.at
    <3>1. FALSE \in BOOLEAN /\ None \in {sock, None}
      OBVIOUS
    <3> QED BY <1>2, <1>3, <2>1, <3>1, ConnectStep DEF IInv, Typed
  <2>3. up = "ready" => ~mem'.at
    BY <2>2, Constants DEF IInv, ScheduleInv, Paired_
  <2>4. Typed' /\ SockInv' /\ OffInv'
    BY <1>1, <2>1, <2>2 DEF IInv, Typed, SockInv, OffInv
  <2>5. ScheduleInv'
    <3>1. Paired_(mem') /\ sock' = None => FALSE
      BY <2>2 DEF Paired_
    <3> QED BY <1>1, <2>1, <2>3, <3>1 DEF ScheduleInv, DroppedInv, Step
  <2>6. DiskInv' /\ NonceIsOwn' /\ OnePopup(writes, popup)'
    BY <1>1, <2>1, <2>2 DEF IInv, DiskInv, NonceIsOwn
  <2> QED BY <2>4, <2>5, <2>6 DEF IInv
<1>5. CASE popup.op # "pair"
  <2>1. /\ sock' = None /\ ready' = Dropped /\ connecting' = FALSE
        /\ mem' = NoSchedule(mem)
        /\ popup' = [popup EXCEPT !.step = "releasing"]
        /\ UNCHANGED <<to, writes>>
    BY <1>5 DEF PopupStopped
  <2>2. mem' \in Snapshot /\ ~mem'.at
    BY <2>1 DEF IInv, Typed, Snapshot, NoSchedule
  <2>3. popup' \in PopupCall /\ popup'.step = "releasing" /\ popup' # None
    BY <1>1, <2>1, Constants DEF PopupCall
  <2>4. Typed' /\ SockInv' /\ OffInv' /\ NonceIsOwn' /\ OnePopup(writes, popup)'
    BY <1>1, <1>2, <1>3, <2>1, <2>2, <2>3 DEF IInv, Typed, SockInv, OffInv, NonceIsOwn
  <2>5. ScheduleInv' /\ DiskInv'
    BY <1>1, <2>1, <2>2, <2>3 DEF ScheduleInv, DroppedInv, DiskInv, Step
  <2> QED BY <2>4, <2>5 DEF IInv
<1> QED BY <1>4, <1>5

LEMMA ReleasedStep ==
  ASSUME IInv, PopupReleased
  PROVE  IInv'
<1>1. /\ popup \in PopupCall /\ popup.step = "releasing" /\ popup # None
      /\ ~Step("saving") /\ up \in {"ready", "failed"}
      /\ popup' = [popup EXCEPT !.step = "saving"]
      /\ mem' = Empty /\ writes' = Enqueue(writes, mem', "popup")
      /\ UNCHANGED <<up, sock, ready, to, connecting, timer, attempt, disk, failures, refused, ka, nonce>>
  BY DEF PopupReleased, IInv, Typed, OffInv, Step, link, wakeup, alive, seen
<1>2. popup' \in PopupCall /\ popup'.step = "saving" /\ popup' # None
  BY <1>1, Constants DEF PopupCall
<1>3. mem' \in Snapshot /\ ~mem'.at /\ mem'.endpoint = None
  BY <1>1 DEF Empty, Snapshot
<1>4. writes' \in Seq(Write) /\ OnePopup(writes', popup') /\ DiskInv'
  BY <1>1, <1>2, <1>3, NoneSaving, ClickSaves
<1>5. up = "ready" => sock = None /\ ~timer
  BY <1>1 DEF IInv, ScheduleInv, DroppedInv, Step
<1>6. Typed' /\ SockInv' /\ OffInv' /\ NonceIsOwn'
  BY <1>1, <1>2, <1>3, <1>4 DEF IInv, Typed, SockInv, OffInv, NonceIsOwn
<1>7. ScheduleInv'
  BY <1>1, <1>2, <1>3, <1>5 DEF ScheduleInv, DroppedInv, Paired_, Step
<1> QED BY <1>4, <1>6, <1>7 DEF IInv

----------------------------------------------------------------------------
(* The worker stops and starts                                                 *)

LEMMA EvictStep ==
  ASSUME IInv, Evict
  PROVE  IInv'
<1>1. /\ up' = "down" /\ sock' = None /\ ready' = [k \in Sock |-> "closed"]
      /\ connecting' = FALSE /\ attempt' = 0 /\ timer' = FALSE
      /\ mem' = Empty /\ writes' = <<>> /\ nonce' = None /\ popup' = None
      /\ UNCHANGED <<to, disk, failures>>
  BY DEF Evict, ClearKeepAlive, ForgetPing
<1>2. mem' \in Snapshot /\ ~mem'.at
  BY <1>1 DEF Empty, Snapshot
<1>3. Typed' /\ SockInv' /\ OffInv'
  <2>1. /\ ready' \in [Sock -> ReadyState] /\ Addressed(ready', to')
        /\ writes' \in Seq(Write) /\ timer' \in BOOLEAN /\ connecting' \in BOOLEAN
    <3>1. ready' \in [Sock -> ReadyState] /\ \A k \in Sock : ready'[k] = "closed"
      BY <1>1 DEF ReadyState
    <3>2. writes' \in Seq(Write)
      BY <1>1
    <3> QED BY <1>1, <3>1, <3>2, Zenon DEF Addressed
  <2>2. Typed'
    BY <1>1, <1>2, <2>1 DEF IInv, Typed
  <2> QED BY <1>1, <1>2, <2>1, <2>2 DEF SockInv, OffInv
<1>4. ScheduleInv' /\ DiskInv' /\ NonceIsOwn' /\ OnePopup(writes, popup)'
  BY <1>1 DEF ScheduleInv, DiskInv, NonceIsOwn, OnePopup
<1> QED BY <1>3, <1>4 DEF IInv

LEMMA InitializedStep ==
  ASSUME IInv, Initialized
  PROVE  IInv'
<1>1. /\ up = "loading" /\ up' = "ready" /\ attempt' = disk.attempt
      /\ sock = None /\ ~connecting /\ popup = None /\ ~timer /\ ~mem.at /\ writes = <<>>
      /\ UNCHANGED <<disk, popup, failures, refused, ka, nonce>>
  BY DEF Initialized, IInv, OffInv, alive, seen
<1>2. /\ disk \in Snapshot /\ attempt' \in Nat /\ <<>> \in Seq(Write)
      /\ \A p : OnePopup(<<>>, p)
  BY <1>1 DEF IInv, Typed, Snapshot, OnePopup
<1>3. CASE disk.endpoint # None /\ disk.token # None /\ disk.at /\ timer' = TRUE /\ mem' = disk
           /\ UNCHANGED <<sock, ready, to, connecting, writes>>
  <2>1. Typed' /\ SockInv' /\ OffInv' /\ NonceIsOwn'
    BY <1>1, <1>2, <1>3 DEF IInv, Typed, SockInv, OffInv, NonceIsOwn
  <2>2. ScheduleInv' /\ DiskInv' /\ OnePopup(writes, popup)'
    BY <1>1, <1>2, <1>3 DEF ScheduleInv, DroppedInv, DiskInv, Paired_, Settles, Step
  <2> QED BY <2>1, <2>2 DEF IInv
<1>4. ASSUME NEW m, NEW q, m = [disk EXCEPT !.at = FALSE],
             q = IF disk.at THEN Enqueue(<<>>, m, None) ELSE <<>>,
             Connect(m, None, FALSE, q, ready),
             disk.endpoint = None => timer' = timer, disk.endpoint # None => timer' = FALSE
      PROVE  IInv'
  <2>1. m \in Snapshot /\ ~m.at /\ (~disk.at => m = disk) /\ m.endpoint = disk.endpoint
    BY <1>2, <1>4 DEF Snapshot
  <2>2. q \in Seq(Write) /\ OnePopup(q, None) /\ Settles(q, disk, m)
    <3>1. CASE disk.at
      <4>1. None \in By /\ None # "popup"
        BY Constants DEF By
      <4> QED BY <1>2, <1>4, <2>1, <3>1, <4>1, Appended
    <3>2. CASE ~disk.at
      BY <1>2, <1>4, <2>1, <3>2 DEF Settles
    <3> QED BY <3>1, <3>2
  <2>3. /\ mem' \in Snapshot /\ writes' \in Seq(Write) /\ sock' \in Sock \cup {None}
        /\ connecting' \in BOOLEAN /\ ready' \in [Sock -> ReadyState]
        /\ to' \in [Sock -> Endpoint \cup {None}]
        /\ (connecting' => sock' # None) /\ Addressed(ready', to')
        /\ mem'.endpoint = m.endpoint /\ ~mem'.at
        /\ OnePopup(writes', None)
        /\ Settles(writes', disk, mem')
        /\ m.endpoint # None => sock' # None
        /\ \/ sock' = None
           \/ sock' \in Sock /\ sock' \notin {ka}
    <3>1. FALSE \in BOOLEAN /\ None \in {sock, None}
      OBVIOUS
    <3>2. ready \in [Sock -> ReadyState] /\ Addressed(ready, to) /\ Typed
      BY DEF IInv, Typed, SockInv
    <3> QED BY <1>4, <2>1, <2>2, <3>1, <3>2, ConnectStep
  <2>4. timer' = FALSE
    BY <1>1, <1>4 DEF IInv, Typed
  <2>5. Typed' /\ SockInv' /\ OffInv'
    BY <1>1, <1>2, <2>3, <2>4 DEF IInv, Typed, SockInv, OffInv
  <2>6. ScheduleInv'
    <3>1. Paired_(mem') /\ sock' = None => FALSE
      BY <2>3 DEF Paired_
    <3> QED BY <1>1, <2>3, <2>4, <3>1 DEF ScheduleInv, DroppedInv, Step
  <2>7. DiskInv' /\ NonceIsOwn' /\ OnePopup(writes, popup)'
    BY <1>1, <2>3, Constants DEF DiskInv, NonceIsOwn
  <2> QED BY <2>5, <2>6, <2>7 DEF IInv
<1> QED BY <1>3, <1>4 DEF Initialized, ClearWakeup

LEMMA FailsStep ==
  ASSUME IInv, InitializeFails
  PROVE  IInv'
<1>1. /\ up = "loading" /\ up' = "failed" /\ failures' = failures + 1
      /\ mem' \in {Empty, disk} /\ attempt' \in {0, mem'.attempt} /\ timer' = FALSE
      /\ UNCHANGED <<sock, ready, to, connecting, disk, writes, ka, nonce, popup>>
  BY DEF InitializeFails, ClearWakeup, link, alive
<1>2. mem' \in Snapshot /\ attempt' \in Nat
  <2>1. Empty \in Snapshot /\ disk \in Snapshot
    BY DEF IInv, Typed, Empty, Snapshot
  <2>2. mem' \in Snapshot
    BY <1>1, <2>1
  <2>3. mem'.attempt \in Nat
    BY <2>2 DEF Snapshot
  <2> QED BY <1>1, <2>2, <2>3
<1>3. Typed' /\ SockInv' /\ OffInv'
  <2>1. up' = "failed" /\ timer' \in BOOLEAN /\ failures' \in Nat
    <3>1. failures \in Nat /\ failures' = failures + 1
      BY <1>1 DEF IInv, Typed
    <3>2. up' = "failed" /\ timer' \in BOOLEAN
      BY <1>1, Zenon
    <3> QED BY <3>1, <3>2
  <2>2. Typed'
    BY <1>1, <1>2, <2>1 DEF IInv, Typed
  <2> QED BY <1>1, <2>1, <2>2 DEF IInv, SockInv, OffInv
<1>4. ScheduleInv' /\ DiskInv' /\ NonceIsOwn' /\ OnePopup(writes, popup)'
  BY <1>1 DEF IInv, ScheduleInv, DiskInv, NonceIsOwn
<1> QED BY <1>3, <1>4 DEF IInv

----------------------------------------------------------------------------
LEMMA InitIInv == Init => IInv
<1> SUFFICES ASSUME Init PROVE IInv
  OBVIOUS
<1>1. disk \in Snapshot /\ mem \in Snapshot /\ ~mem.at
  <2>1. Empty \in Snapshot /\ ~Empty.at
    BY DEF Snapshot, Empty
  <2>2. [endpoint : Endpoint, token : Endpoint, at : BOOLEAN, attempt : {0, MaybeLong}] \subseteq Snapshot
    BY Constants DEF Snapshot
  <2> QED BY <2>1, <2>2 DEF Init
<1>2. Typed /\ SockInv /\ OffInv
  <2>1. ready \in [Sock -> ReadyState] /\ to \in [Sock -> Endpoint \cup {None}] /\ Addressed(ready, to)
    BY DEF Init, Addressed, ReadyState
  <2>2. /\ up = "loading" /\ sock = None /\ popup = None /\ writes = <<>>
        /\ connecting = FALSE /\ timer = FALSE /\ attempt = 0 /\ failures = 0
    BY DEF Init
  <2>3. timer \in BOOLEAN /\ connecting \in BOOLEAN
    BY <2>2
  <2>4. Typed
    BY <1>1, <2>1, <2>2, <2>3 DEF Typed
  <2> QED BY <1>1, <2>1, <2>2, <2>4 DEF SockInv, OffInv
<1>3. ScheduleInv /\ DiskInv /\ NonceIsOwn /\ OnePopup(writes, popup)
  BY DEF Init, ScheduleInv, DiskInv, NonceIsOwn, OnePopup
<1> QED BY <1>2, <1>3 DEF IInv

LEMMA IInvStep == IInv /\ [Next]_vars => IInv'
<1> SUFFICES ASSUME IInv, [Next]_vars PROVE IInv'
  OBVIOUS
<1>1. CASE TimerFires \/ AlarmHandled
  BY <1>1, WakeupStep
<1>2. ASSUME NEW k \in Sock, SocketOpens(k) \/ SocketClosing(k) \/ SocketCloses(k) \/ Refused(k) PROVE IInv'
  BY <1>2, SocketStep, CloseStep
<1>3. ASSUME NEW k \in Sock, Paired(k) \/ Connected(k) PROVE IInv'
  BY <1>3, FrameStep
<1>4. CASE Ping \/ Pong \/ Deadline \/ WorkBegins \/ AlarmRings \/ Wakes
           \/ \E k \in Sock : StatusPublished(k) \/ StatusFails(k)
  BY <1>4, KeepAliveStep
<1>5. CASE WriteDone \/ WriteRefused
  BY <1>5, WriteStep
<1>6. CASE PopupReconnect \/ \E e \in Endpoint : PopupPair(e)
  BY <1>6, ClickStep
<1>7. CASE PopupDisconnect \/ PopupSaved
  BY <1>7, StoppingStep, SavedStep
<1>8. CASE PopupStopped \/ PopupReleased
  BY <1>8, StoppedStep, ReleasedStep
<1>9. CASE Evict \/ Initialized \/ InitializeFails
  BY <1>9, EvictStep, InitializedStep, FailsStep
<1>10. CASE UNCHANGED vars
  <2>1. /\ UNCHANGED <<up, sock, to, ready, timer, connecting, ka, nonce, refused>>
        /\ UNCHANGED <<mem, disk, writes, attempt, failures, popup>>
    BY <1>10 DEF vars, link, flags, wakeup, store, alive, seen
  <2>2. ready' \in [Sock -> ReadyState] /\ Addressed(ready', to) /\ NonceIsOwn'
    BY <2>1 DEF IInv, Typed, SockInv, NonceIsOwn
  <2> QED BY <2>1, <2>2, PlainStep
<1> QED BY <1>1, <1>2, <1>3, <1>4, <1>5, <1>6, <1>7, <1>8, <1>9, <1>10 DEF Next, Frames, PopupSteps

LEMMA IInvAlways == Spec => []IInv
  BY InitIInv, IInvStep, PTL DEF Spec

(* A worker with an address and a token, no socket and no click under way has   *)
(* its reconnect timer running, and the timer runs exactly while a reconnect    *)
(* time is stored, through refused writes, stopped workers and clicks at any    *)
(* await (index.ts 1084-1120, 1945-2055, 2471-2597).                            *)
THEOREM NeverLeftStuck == Spec => []NeverStuck
<1>1. IInv => NeverStuck
  BY DEF IInv, ScheduleInv, NeverStuck
<1> QED BY <1>1, IInvAlways, PTL

(* While no write was refused, storage holds what the worker acts on once its   *)
(* snapshots are written (saveStored, createSnapshotWriteQueue).                *)
THEOREM DiskAlwaysCatchesUp == Spec => []DiskCatchesUp
<1>1. IInv => DiskCatchesUp
  BY DEF IInv, DiskInv, DiskCatchesUp, Settles, Step
<1> QED BY <1>1, IInvAlways, PTL

(* The keepalive of the current socket waits for the answer to a ping of its    *)
(* own, so that an answer owed to an earlier one does not close it (1524-1565). *)
THEOREM NonceAlwaysOwn == Spec => []NonceIsOwn
<1>1. IInv => NonceIsOwn
  BY DEF IInv
<1> QED BY <1>1, IInvAlways, PTL

----------------------------------------------------------------------------
(* The keepalive of a connection: its handshake is the last one under way      *)

Peer == {None} \cup ({"pair", "authenticate", "paired", "greeted"} \X (Endpoint \cup {None}))

WatchTyped ==
    /\ busy \in [Sock -> {"idle", "paired", "connected", "status"}]
    /\ peer \in [Sock -> Peer] /\ greets \in Seq(Sock)
    /\ pairing \in Endpoint \cup {None}

\* A handler that waits for storage waits for one snapshot, and is waited for by none other.
OneWrite(q, b) ==
    \A i \in 1 .. Len(q) : q[i].by \in Sock =>
        /\ b[q[i].by] \in {"paired", "connected"}
        /\ \A j \in 1 .. Len(q) : q[j].by = q[i].by => i = j

OneGreet(g, b) ==
    \A i \in 1 .. Len(g) :
        /\ b[g[i]] = "status"
        /\ \A j \in 1 .. Len(g) : g[j] = g[i] => i = j

Quiet(q) == \A i \in 1 .. Len(q) : q[i].by \notin Sock

LastWrite(q, k) == \A i, j \in 1 .. Len(q) : q[i].by = k /\ q[j].by \in Sock => j <= i

LastGreet(g, k) == \A i \in 1 .. Len(g) : g[i] = k => i = Len(g)

\* The controller has greeted this socket.
Over(k) == ready[k] = "open" /\ connected /\ peer[k] # None /\ peer[k][1] = "greeted"

\* Every handler of an earlier connection resumes before the one of this connection.
OverInv ==
    sock # None /\ Over(sock) =>
        /\ busy[sock] # "paired"
        /\ busy[sock] = "connected" => LastWrite(writes, sock)
        /\ busy[sock] = "status" => Quiet(writes) /\ LastGreet(greets, sock)
        /\ busy[sock] = "idle" /\ ~unwatched => Quiet(writes) /\ greets = <<>> /\ ka = sock

WatchInv == WatchTyped /\ OneWrite(writes, busy) /\ OneGreet(greets, busy) /\ OverInv

\* r is q and writes no handler waits for.
Grown(q, r) ==
    /\ Len(q) <= Len(r)
    /\ \A i \in 1 .. Len(r) : IF i <= Len(q) THEN r[i] = q[i] ELSE r[i].by \notin Sock

LEMMA GrownSelf ==
  ASSUME NEW q \in Seq(Write)
  PROVE  Grown(q, q)
  BY DEF Grown

LEMMA GrownBy ==
  ASSUME NEW q \in Seq(Write), NEW r, Grown(q, r), r \in Seq(Write),
         NEW m \in Snapshot, NEW by \in {None, "popup"}
  PROVE  Grown(q, Enqueue(r, m, by)) /\ Enqueue(r, m, by) \in Seq(Write)
<1> DEFINE w == [snap |-> m, by |-> by]
<1>1. w \in Write /\ w.by \notin Sock
  BY Constants DEF Write, By
<1> HIDE DEF w
<1>2. Append(r, w) \in Seq(Write) /\ Grown(q, Append(r, w))
  BY <1>1 DEF Grown
<1> QED BY <1>2 DEF Enqueue, w

LEMMA GrownFrom ==
  ASSUME NEW q \in Seq(Write), NEW r \in Seq(Write), Grown(q, r), NEW b
  PROVE  /\ OneWrite(q, b) => OneWrite(r, b)
         /\ Quiet(q) => Quiet(r)
         /\ \A k \in Sock : LastWrite(q, k) => LastWrite(r, k)
<1>1. /\ Len(q) \in Nat /\ Len(r) \in Nat
      /\ \A i \in 1 .. Len(r) : r[i].by \in Sock => i \in 1 .. Len(q) /\ r[i] = q[i]
  BY DEF Grown
<1>2. OneWrite(q, b) => OneWrite(r, b)
  BY <1>1 DEF OneWrite
<1>3. Quiet(q) => Quiet(r)
  BY <1>1 DEF Quiet
<1>4. \A k \in Sock : LastWrite(q, k) => LastWrite(r, k)
  BY <1>1 DEF LastWrite
<1> QED BY <1>2, <1>3, <1>4

\* connect opens an unused socket, on which nothing was said, or changes neither socket nor peer.
LEMMA ConnectGrows ==
  ASSUME IInv, WatchInv, NEW m \in Snapshot, NEW s, NEW c, NEW q \in Seq(Write), NEW p \in Seq(Write),
         NEW r, Connect(m, s, c, q, r), Grown(p, q)
  PROVE  /\ Grown(p, writes') /\ writes' \in Seq(Write) /\ peer' \in [Sock -> Peer]
         /\ \/ sock' = s /\ peer' = peer /\ ready' = r
            \/ sock' \in Sock /\ peer'[sock'] = None
<1>1. CASE m.endpoint = None \/ c \/ (s # None /\ r[s] = "open")
  BY <1>1 DEF Connect, WatchInv, WatchTyped
<1>2. CASE ~(m.endpoint = None \/ c \/ (s # None /\ r[s] = "open"))
  <2> DEFINE now == [m EXCEPT !.at = FALSE, !.attempt = IF m.at THEN attempt ELSE @]
  <2>1. PICK k \in Sock :
          /\ sock' = k /\ writes' = IF m.at THEN Enqueue(q, now, None) ELSE q
          /\ peer' = [peer EXCEPT ![k] = None]
    BY <1>2 DEF Connect
  <2>2. now \in Snapshot
    BY DEF Snapshot, IInv, Typed
  <2> HIDE DEF now
  <2>3. Grown(p, writes') /\ writes' \in Seq(Write)
    BY <2>1, <2>2, GrownBy
  <2>4. peer' \in [Sock -> Peer] /\ peer'[k] = None
    BY <2>1 DEF WatchInv, WatchTyped, Peer
  <2> QED BY <2>1, <2>3, <2>4
<1> QED BY <1>1, <1>2

\* A step that ends no wait, starts none and greets nobody.
LEMMA WatchKept ==
  ASSUME IInv, WatchInv, UNCHANGED <<busy, greets>>, pairing' \in Endpoint \cup {None},
         peer' \in [Sock -> Peer], Grown(writes, writes'), writes' \in Seq(Write),
         sock' # None /\ Over(sock)' =>
             sock' = sock /\ sock \in Sock /\ Over(sock) /\ ka' = ka /\ (unwatched => unwatched')
  PROVE  WatchInv'
<1>1. writes \in Seq(Write)
  BY DEF IInv, Typed
<1>2. WatchTyped' /\ OneGreet(greets, busy)'
  BY DEF WatchInv, WatchTyped
<1>3. /\ OneWrite(writes, busy) => OneWrite(writes', busy)
      /\ Quiet(writes) => Quiet(writes')
      /\ \A k \in Sock : LastWrite(writes, k) => LastWrite(writes', k)
  BY <1>1, GrownFrom
<1>4. OneWrite(writes, busy)'
  BY <1>3 DEF WatchInv
<1>5. OverInv'
  <2> SUFFICES ASSUME sock' # None, Over(sock)' PROVE OverInv'
    BY DEF OverInv
  <2>1. sock' = sock /\ sock \in Sock /\ sock # None /\ Over(sock) /\ ka' = ka /\ (unwatched => unwatched')
    OBVIOUS
  <2> QED BY <1>3, <2>1 DEF WatchInv, OverInv
<1> QED BY <1>2, <1>4, <1>5 DEF WatchInv

LEMMA RunWatched ==
  ASSUME IInv, WatchInv, RunScheduledReconnect, UNCHANGED <<busy, greets, pairing, connected, ka, unwatched>>
  PROVE  WatchInv'
<1> DEFINE m == [mem EXCEPT !.at = FALSE, !.attempt = attempt]
<1>1. Connect(m, sock, connecting, Enqueue(writes, m, None), ready)
  BY DEF RunScheduledReconnect
<1>2. m \in Snapshot /\ writes \in Seq(Write) /\ sock \in Sock \cup {None}
  BY DEF IInv, Typed, Snapshot
<1> HIDE DEF m
<1>3. Grown(writes, Enqueue(writes, m, None)) /\ Enqueue(writes, m, None) \in Seq(Write)
  BY <1>2, GrownSelf, GrownBy
<1>4. /\ Grown(writes, writes') /\ writes' \in Seq(Write) /\ peer' \in [Sock -> Peer]
      /\ \/ sock' = sock /\ peer' = peer /\ ready' = ready
         \/ sock' \in Sock /\ peer'[sock'] = None
  BY <1>1, <1>2, <1>3, ConnectGrows
<1>5. pairing' \in Endpoint \cup {None}
  BY DEF WatchInv, WatchTyped
<1>6. sock' # None /\ Over(sock)' =>
        sock' = sock /\ sock \in Sock /\ Over(sock) /\ ka' = ka /\ (unwatched => unwatched')
  BY <1>2, <1>4 DEF Over
<1> QED BY <1>4, <1>5, <1>6, WatchKept

LEMMA WakeupWatched ==
  ASSUME IInv, WatchInv, TimerFires \/ AlarmHandled
  PROVE  WatchInv'
<1>1. UNCHANGED <<busy, greets, pairing, connected, ka, unwatched>>
  BY DEF TimerFires, AlarmHandled, alive, seen
<1>2. CASE RunScheduledReconnect
  BY <1>1, <1>2, RunWatched
<1>3. CASE UNCHANGED <<sock, ready, peer, writes>>
  <2>1. Grown(writes, writes') /\ writes' \in Seq(Write) /\ sock \in Sock \cup {None}
    BY <1>3, GrownSelf DEF IInv, Typed
  <2>2. pairing' \in Endpoint \cup {None} /\ peer' \in [Sock -> Peer]
    BY <1>1, <1>3 DEF WatchInv, WatchTyped
  <2>3. Over(sock)' => Over(sock)
    BY <1>1, <1>3 DEF Over
  <2> QED BY <1>1, <1>3, <2>1, <2>2, <2>3, WatchKept
<1> QED BY <1>2, <1>3 DEF TimerFires, AlarmHandled

\* Nothing is written; the current socket is as it was, gone, closing, or not greeted.
LEMMA StillWatched ==
  ASSUME IInv, WatchInv, UNCHANGED <<busy, greets, pairing, writes, unwatched>>, peer' \in [Sock -> Peer],
         \/ sock' = None
         \/ sock' = sock /\ sock \in Sock /\ ~Over(sock)'
         \/ sock' = sock /\ ka' = ka /\ connected' = connected /\ peer' = peer
            /\ (sock \in Sock /\ ready'[sock] = "open" => ready[sock] = "open")
  PROVE  WatchInv'
<1>1. Grown(writes, writes') /\ writes' \in Seq(Write) /\ sock \in Sock \cup {None}
  BY GrownSelf DEF IInv, Typed
<1>2. pairing' \in Endpoint \cup {None}
  BY DEF WatchInv, WatchTyped
<1>3. sock' # None /\ Over(sock)' =>
        sock' = sock /\ sock \in Sock /\ Over(sock) /\ ka' = ka /\ (unwatched => unwatched')
  BY <1>1 DEF Over
<1> QED BY <1>1, <1>2, <1>3, WatchKept

LEMMA SocketWatched ==
  ASSUME IInv, WatchInv, NEW k \in Sock,
         SocketOpens(k) \/ SocketClosing(k) \/ (SocketCloses(k) /\ k # sock) \/ Refused(k)
  PROVE  WatchInv'
<1>1. UNCHANGED <<sock, busy, greets, connected, pairing, writes, ka, unwatched>>
  BY DEF SocketOpens, SocketClosing, SocketCloses, Refused, flags, store, alive, seen
<1>2. CASE SocketOpens(k) /\ k = sock
  <2>1. peer' = [peer EXCEPT ![k] = peer'[k]]
        /\ peer'[k] \in {<<"pair", pairing>>, <<"authenticate", mem.token>>, None}
    BY <1>2 DEF SocketOpens, WatchInv, WatchTyped
  <2>2. peer'[k] \in Peer
    <3>1. pairing \in Endpoint \cup {None} /\ mem.token \in Endpoint \cup {None}
      BY DEF WatchInv, WatchTyped, IInv, Typed, Snapshot
    <3> QED BY <2>1, <3>1 DEF Peer
  <2>3. peer' \in [Sock -> Peer]
    BY <2>1, <2>2 DEF WatchInv, WatchTyped
  <2>4. ~Over(sock)'
    BY <1>1, <1>2, <2>1 DEF Over
  <2> QED BY <1>1, <1>2, <2>3, <2>4, StillWatched
<1>3. CASE Refused(k)
  <2>1. k = sock /\ peer' = [peer EXCEPT ![k] = None]
    BY <1>3 DEF Refused, Hears
  <2>2. peer' \in [Sock -> Peer] /\ peer'[k] = None
    BY <2>1 DEF WatchInv, WatchTyped, Peer
  <2>3. ~Over(sock)'
    BY <1>1, <2>1, <2>2 DEF Over
  <2> QED BY <1>1, <2>1, <2>2, <2>3, StillWatched
<1>4. CASE SocketClosing(k) \/ (SocketCloses(k) /\ k # sock) \/ (SocketOpens(k) /\ k # sock)
  <2>1. /\ peer' = peer
        /\ \E x : ready' = [ready EXCEPT ![k] = x] /\ (x # "open" \/ k # sock)
    BY <1>4 DEF SocketClosing, SocketCloses, SocketOpens
  <2>2. sock \in Sock => (ready'[sock] = "open" => ready[sock] = "open")
    BY <2>1 DEF IInv, Typed
  <2>3. peer' \in [Sock -> Peer]
    BY <2>1 DEF WatchInv, WatchTyped
  <2> QED BY <1>1, <2>1, <2>2, <2>3, StillWatched
<1> QED BY <1>2, <1>3, <1>4

LEMMA KeepAliveWatched ==
  ASSUME IInv, WatchInv, Ping \/ Pong \/ Deadline \/ WorkBegins \/ AlarmRings \/ Wakes
                         \/ PopupDisconnect \/ InitializeFails \/ UNCHANGED vars
  PROVE  WatchInv'
<1>1. UNCHANGED <<sock, busy, greets, connected, pairing, peer, writes, ka, unwatched>>
  BY DEF Ping, Pong, Deadline, WorkBegins, AlarmRings, Wakes, PopupDisconnect, Clicked, InitializeFails,
         vars, link, flags, store, alive, seen
<1>2. ready' = ready \/ \E k \in Sock : ready' = [ready EXCEPT ![k] = "closing"]
  BY DEF Ping, Pong, Deadline, WorkBegins, AlarmRings, Wakes, PopupDisconnect, InitializeFails, vars, link,
         IInv, Typed
<1>3. sock \in Sock => (ready'[sock] = "open" => ready[sock] = "open")
  BY <1>2 DEF IInv, Typed
<1>4. peer' \in [Sock -> Peer]
  BY <1>1 DEF WatchInv, WatchTyped
<1> QED BY <1>1, <1>3, <1>4, StillWatched

LEMMA CloseWatched ==
  ASSUME IInv, WatchInv, sock \in Sock, SocketCloses(sock)
  PROVE  WatchInv'
<1>1. /\ sock' = None /\ ScheduleReconnect(mem)
      /\ UNCHANGED <<busy, greets, pairing, peer, unwatched>>
  BY DEF SocketCloses, CurrentCloses, seen
<1>2. Grown(writes, writes') /\ writes' \in Seq(Write)
  <2> DEFINE n == Min(MaxAttempt, attempt + 1)
             sched == [mem EXCEPT !.at = TRUE, !.attempt = n]
  <2>1. writes \in Seq(Write) /\ mem \in Snapshot /\ attempt \in Nat
    BY DEF IInv, Typed
  <2>2. n \in Nat
    BY <2>1, Constants DEF Min
  <2>3. writes' = writes \/ writes' = Enqueue(writes, sched, None)
    BY <1>1 DEF ScheduleReconnect
  <2> HIDE DEF n
  <2>4. sched \in Snapshot
    BY <2>1, <2>2 DEF Snapshot
  <2> HIDE DEF sched
  <2> QED BY <2>1, <2>3, <2>4, GrownSelf, GrownBy
<1>3. pairing' \in Endpoint \cup {None} /\ peer' \in [Sock -> Peer]
  BY <1>1 DEF WatchInv, WatchTyped
<1> QED BY <1>1, <1>2, <1>3, WatchKept

\* A click is saved after everything already waiting.
LEMMA ClickWatched ==
  ASSUME IInv, WatchInv, PopupReconnect \/ PopupReleased \/ \E e \in Endpoint : PopupPair(e)
  PROVE  WatchInv'
<1>1. /\ UNCHANGED <<sock, ready, peer, busy, greets, connected, ka, unwatched>>
      /\ mem' = NoSchedule(mem) \/ mem' = Empty \/ \E e \in Endpoint : mem' = [Empty EXCEPT !.endpoint = e]
      /\ writes' = Enqueue(writes, mem', "popup")
      /\ pairing' \in Endpoint \cup {pairing, None}
  BY DEF PopupReconnect, PopupReleased, PopupPair, Click, Clicked, link, alive, seen
<1>2. mem' \in Snapshot
  <2>1. \A e \in Endpoint : [Empty EXCEPT !.endpoint = e] \in Snapshot
    BY DEF Empty, Snapshot
  <2>2. NoSchedule(mem) \in Snapshot /\ Empty \in Snapshot
    BY DEF NoSchedule, Empty, Snapshot, IInv, Typed
  <2> QED BY <1>1, <2>1, <2>2
<1>3. Grown(writes, writes') /\ writes' \in Seq(Write) /\ sock \in Sock \cup {None}
  BY <1>1, <1>2, GrownSelf, GrownBy DEF IInv, Typed
<1>4. pairing' \in Endpoint \cup {None} /\ peer' \in [Sock -> Peer]
  BY <1>1 DEF WatchInv, WatchTyped
<1>5. Over(sock)' => Over(sock)
  BY <1>1 DEF Over
<1> QED BY <1>1, <1>3, <1>4, <1>5, WatchKept

LEMMA SavedWatched ==
  ASSUME IInv, WatchInv, PopupSaved \/ PopupStopped \/ Initialized
  PROVE  WatchInv'
<1>1. UNCHANGED <<busy, greets, pairing, unwatched>>
  BY DEF PopupSaved, PopupStopped, Initialized, seen
<1>2. writes \in Seq(Write) /\ mem \in Snapshot /\ sock \in Sock \cup {None} /\ disk \in Snapshot
      /\ pairing' \in Endpoint \cup {None} /\ peer \in [Sock -> Peer] /\ Grown(writes, writes)
  BY <1>1, GrownSelf DEF IInv, Typed, WatchInv, WatchTyped
<1>3. ASSUME UNCHANGED <<sock, ready, peer, writes, connected, ka>> PROVE WatchInv'
  BY <1>1, <1>2, <1>3, StillWatched
<1>4. ASSUME UNCHANGED <<peer, writes>>, sock' = None PROVE WatchInv'
  BY <1>1, <1>2, <1>4, StillWatched
<1>5. ASSUME NEW m \in Snapshot, NEW s \in {None, sock}, NEW c, NEW q \in Seq(Write), NEW r,
             Grown(writes, q), Connect(m, s, c, q, r),
             s = sock /\ s # None => ka' = ka /\ connected' = connected /\ r = ready
      PROVE  WatchInv'
  <2>1. /\ Grown(writes, writes') /\ writes' \in Seq(Write) /\ peer' \in [Sock -> Peer]
        /\ \/ sock' = s /\ peer' = peer /\ ready' = r
           \/ sock' \in Sock /\ peer'[sock'] = None
    BY <1>2, <1>5, ConnectGrows
  <2>2. sock' # None /\ Over(sock)' =>
          sock' = sock /\ sock \in Sock /\ Over(sock) /\ ka' = ka /\ (unwatched => unwatched')
    BY <1>1, <1>2, <1>5, <2>1 DEF Over
  <2> QED BY <1>1, <1>2, <2>1, <2>2, WatchKept
<1>6. CASE PopupSaved
  <2>1. connected' = connected /\ ka' = ka
    BY <1>6 DEF PopupSaved, alive
  <2>2. \/ UNCHANGED <<sock, ready, peer, writes>>
        \/ Connect(mem, sock, connecting, writes, ready)
    BY <1>6 DEF PopupSaved
  <2> QED BY <1>2, <1>3, <1>5, <2>1, <2>2
<1>7. CASE PopupStopped
  <2>1. \/ Connect(mem, None, FALSE, writes, Dropped)
        \/ sock' = None /\ UNCHANGED <<peer, writes>>
    BY <1>7 DEF PopupStopped, PairConnects
  <2> QED BY <1>2, <1>4, <1>5, <2>1
<1>8. CASE Initialized
  <2>1. sock = None /\ writes = <<>>
    BY <1>8 DEF Initialized, IInv, OffInv
  <2>2. UNCHANGED <<connected, ka>>
    BY <1>8 DEF Initialized, alive
  <2>3. \/ UNCHANGED <<sock, ready, peer, writes>>
        \/ LET m == [disk EXCEPT !.at = FALSE] IN
           Connect(m, None, FALSE, IF disk.at THEN Enqueue(writes, m, None) ELSE writes, ready)
    BY <1>8, <2>1 DEF Initialized
  <2>4. CASE UNCHANGED <<sock, ready, peer, writes>>
    BY <1>3, <2>2, <2>4
  <2>5. ASSUME NEW m, m = [disk EXCEPT !.at = FALSE], NEW q, q = IF disk.at THEN Enqueue(writes, m, None) ELSE writes,
               Connect(m, None, FALSE, q, ready)
        PROVE  WatchInv'
    <3>1. m \in Snapshot
      BY <1>2, <2>5 DEF Snapshot
    <3>2. q \in Seq(Write) /\ Grown(writes, q)
      BY <1>2, <2>5, <3>1, GrownBy
    <3> QED BY <1>5, <2>1, <2>5, <3>1, <3>2
  <2> QED BY <2>3, <2>4, <2>5
<1> QED BY <1>6, <1>7, <1>8

\* bridge.paired and bridge.connected: the frame's handler waits behind everything already written.
LEMMA FrameWatched ==
  ASSUME IInv, WatchInv, NEW k \in Sock, Paired(k) \/ Connected(k)
  PROVE  WatchInv'
<1>1. /\ sock = k /\ sock' = k /\ busy[k] = "idle" /\ UNCHANGED greets
      /\ writes' = Enqueue(writes, mem', k)
      /\ busy' = [busy EXCEPT ![k] = busy'[k]] /\ busy'[k] \in {"paired", "connected"}
      /\ peer' = [peer EXCEPT ![k] = peer'[k]] /\ pairing' \in {pairing, None}
      /\ peer[k] # None
  BY DEF Paired, Connected, Hears, Greeted, WatchInv, WatchTyped
<1>2. /\ \/ busy'[k] = "paired" /\ peer'[k] = <<"paired", peer[k][2]>>
         \/ busy'[k] = "connected" /\ peer'[k] = <<"greeted", peer[k][2]>>
  BY DEF Paired, Connected, Hears, WatchInv, WatchTyped
<1>3. peer' \in [Sock -> Peer]
  <2>1. peer[k] \in {"pair", "authenticate", "paired", "greeted"} \X (Endpoint \cup {None})
    BY <1>1 DEF WatchInv, WatchTyped, Peer
  <2>2. peer'[k] \in Peer
    BY <1>2, <2>1 DEF Peer
  <2> QED BY <1>1, <2>2 DEF WatchInv, WatchTyped
<1>4. WatchTyped'
  BY <1>1, <1>3 DEF WatchInv, WatchTyped
<1>5. OneGreet(greets, busy)'
  BY <1>1 DEF WatchInv, WatchTyped, OneGreet
<1> DEFINE w == [snap |-> mem', by |-> k]
<1>6. writes \in Seq(Write) /\ w.by = k
  BY DEF IInv, Typed
<1>7. /\ Len(writes') = Len(writes) + 1 /\ writes'[Len(writes')] = w /\ Len(writes) \in Nat
      /\ \A i \in 1 .. Len(writes) : writes'[i] = writes[i]
  BY <1>1, <1>6 DEF Enqueue
<1> HIDE DEF w
<1>8. \A i \in 1 .. Len(writes) : writes[i].by # k
  BY <1>1 DEF WatchInv, OneWrite
<1>9. OneWrite(writes, busy)'
  <2>1. \A i \in 1 .. Len(writes') : i = Len(writes') \/ (i \in 1 .. Len(writes) /\ writes'[i] = writes[i])
    BY <1>7
  <2>2. busy \in [Sock -> {"idle", "paired", "connected", "status"}]
    BY DEF WatchInv, WatchTyped
  <2>3. \A j \in Sock : j # k => busy'[j] = busy[j]
    BY <1>1, <2>2
  <2> QED BY <1>1, <1>6, <1>7, <1>8, <2>1, <2>3 DEF WatchInv, OneWrite
<1>10. LastWrite(writes', k)
  BY <1>6, <1>7, <1>8 DEF LastWrite
<1>11. OverInv'
  BY <1>1, <1>2, <1>10 DEF OverInv, Over
<1> QED BY <1>4, <1>5, <1>9, <1>11 DEF WatchInv

\* What is left of a queue after its head.
LEMMA WriteTaken ==
  ASSUME NEW q \in Seq(Write), q # <<>>, NEW b \in [Sock -> {"idle", "paired", "connected", "status"}],
         OneWrite(q, b), NEW x \in {"idle", "status"},
         NEW c, c = IF Head(q).by \in Sock THEN [b EXCEPT ![Head(q).by] = x] ELSE b
  PROVE  /\ OneWrite(Tail(q), c)
         /\ Quiet(q) => Quiet(Tail(q)) /\ Head(q).by \notin Sock
         /\ \A k \in Sock : LastWrite(q, k) => LastWrite(Tail(q), k)
         /\ Head(q).by \in Sock =>
              /\ b[Head(q).by] \in {"paired", "connected"}
              /\ LastWrite(q, Head(q).by) => Quiet(Tail(q))
<1>1. /\ Head(q) = q[1] /\ Len(q) \in Nat \ {0} /\ Len(Tail(q)) = Len(q) - 1 /\ 1 \in 1 .. Len(q)
      /\ \A i \in 1 .. Len(Tail(q)) : Tail(q)[i] = q[i + 1] /\ i + 1 \in 1 .. Len(q) /\ i + 1 # 1
  OBVIOUS
<1>2. \A i \in 1 .. Len(Tail(q)) : Tail(q)[i].by \in Sock =>
        Tail(q)[i].by # Head(q).by /\ c[Tail(q)[i].by] = b[Tail(q)[i].by]
  BY <1>1 DEF OneWrite
<1>3. OneWrite(Tail(q), c)
  <2> SUFFICES ASSUME NEW i \in 1 .. Len(Tail(q)), Tail(q)[i].by \in Sock
               PROVE  /\ c[Tail(q)[i].by] \in {"paired", "connected"}
                      /\ \A j \in 1 .. Len(Tail(q)) : Tail(q)[j].by = Tail(q)[i].by => i = j
    BY DEF OneWrite
  <2>1. b[Tail(q)[i].by] \in {"paired", "connected"}
    BY <1>1 DEF OneWrite
  <2>2. ASSUME NEW j \in 1 .. Len(Tail(q)), Tail(q)[j].by = Tail(q)[i].by PROVE i = j
    <3>1. i + 1 = j + 1
      BY <1>1, <2>2 DEF OneWrite
    <3> QED BY <1>1, <3>1
  <2> QED BY <1>2, <2>1, <2>2
<1>4. Quiet(q) => Quiet(Tail(q)) /\ Head(q).by \notin Sock
  BY <1>1 DEF Quiet
<1>5. ASSUME NEW k \in Sock, LastWrite(q, k) PROVE LastWrite(Tail(q), k)
  <2> SUFFICES ASSUME NEW i \in 1 .. Len(Tail(q)), NEW j \in 1 .. Len(Tail(q)),
                      Tail(q)[i].by = k, Tail(q)[j].by \in Sock
               PROVE  j <= i
    BY DEF LastWrite
  <2>1. j + 1 <= i + 1
    BY <1>1, <1>5 DEF LastWrite
  <2> QED BY <1>1, <2>1
<1>6. ASSUME Head(q).by \in Sock, LastWrite(q, Head(q).by) PROVE Quiet(Tail(q))
  <2> SUFFICES ASSUME NEW i \in 1 .. Len(Tail(q)), Tail(q)[i].by \in Sock PROVE FALSE
    BY DEF Quiet
  <2>1. i + 1 <= 1
    BY <1>1, <1>6 DEF LastWrite
  <2> QED BY <1>1, <2>1
<1>7. Head(q).by \in Sock => b[Head(q).by] \in {"paired", "connected"}
  BY <1>1 DEF OneWrite
<1> QED BY <1>3, <1>4, <1>5, <1>6, <1>7

\* A written or refused snapshot: the handler of bridge.connected goes on to the status, last of all.
LEMMA WriteWatched ==
  ASSUME IInv, WatchInv, WriteDone \/ WriteRefused
  PROVE  WatchInv'
<1> DEFINE k == Head(writes).by
<1>1. /\ writes # <<>> /\ writes' = Tail(writes) /\ writes \in Seq(Write)
      /\ UNCHANGED <<sock, ready, peer, connected, pairing, ka>>
  BY DEF WriteDone, WriteRefused, flags, alive, IInv, Typed
<1>2. PICK x \in {"idle", "status"} :
        /\ busy' = IF k \in Sock THEN [busy EXCEPT ![k] = x] ELSE busy
        /\ \/ x = "status" /\ k \in Sock /\ busy[k] = "connected" /\ greets' = Append(greets, k)
           \/ x = "idle" /\ greets' = greets
        /\ x = "idle" /\ k \in Sock /\ busy[k] = "connected" => unwatched'
        /\ unwatched' \/ (unwatched' = unwatched)
  <2>1. CASE WriteDone /\ k \in Sock /\ busy[k] = "connected"
    BY <2>1 DEF WriteDone, seen
  <2>2. CASE WriteDone /\ ~(k \in Sock /\ busy[k] = "connected")
    BY <2>2 DEF WriteDone, seen
  <2>3. CASE WriteRefused
    BY <2>3 DEF WriteRefused
  <2> QED BY <2>1, <2>2, <2>3
<1>3. /\ busy \in [Sock -> {"idle", "paired", "connected", "status"}] /\ greets \in Seq(Sock)
      /\ sock \in Sock \cup {None} /\ OneWrite(writes, busy) /\ OneGreet(greets, busy)
  BY DEF WatchInv, WatchTyped, IInv, Typed
<1>4. /\ OneWrite(writes', busy')
      /\ Quiet(writes) => Quiet(writes') /\ k \notin Sock
      /\ \A j \in Sock : LastWrite(writes, j) => LastWrite(writes', j)
      /\ k \in Sock => busy[k] \in {"paired", "connected"} /\ (LastWrite(writes, k) => Quiet(writes'))
  <2>1. writes \in Seq(Write) /\ writes # <<>>
    BY <1>1
  <2> QED BY <1>1, <1>2, <1>3, <2>1, WriteTaken
<1> HIDE DEF k
<1>5. \A j \in Sock : j # k => busy'[j] = busy[j]
  BY <1>2, <1>3
<1>6. k \in Sock => busy'[k] = x /\ \A i \in 1 .. Len(greets) : greets[i] # k
  BY <1>2, <1>3, <1>4 DEF OneGreet
<1>7. WatchTyped'
  <2>1. busy' \in [Sock -> {"idle", "paired", "connected", "status"}]
    BY <1>2, <1>3
  <2>2. greets' \in Seq(Sock)
    BY <1>2, <1>3
  <2> QED BY <1>1, <2>1, <2>2 DEF WatchInv, WatchTyped
<1>8. OneGreet(greets, busy)'
  <2>1. CASE greets' = greets
    BY <1>3, <1>5, <1>6, <2>1 DEF OneGreet
  <2>2. CASE x = "status" /\ k \in Sock /\ greets' = Append(greets, k)
    <3>1. /\ Len(greets') = Len(greets) + 1 /\ greets'[Len(greets')] = k /\ Len(greets) \in Nat
          /\ \A i \in 1 .. Len(greets) : greets'[i] = greets[i] /\ greets[i] \in Sock
      BY <1>3, <2>2
    <3>2. \A i \in 1 .. Len(greets') : i = Len(greets') \/ i \in 1 .. Len(greets)
      BY <3>1
    <3> QED BY <1>3, <1>5, <1>6, <2>2, <3>1, <3>2 DEF OneGreet
  <2> QED BY <1>2, <2>1, <2>2
<1>9. OverInv'
  <2> SUFFICES ASSUME sock # None, Over(sock)
               PROVE  /\ busy'[sock] # "paired"
                      /\ busy'[sock] = "connected" => LastWrite(writes', sock)
                      /\ busy'[sock] = "status" => Quiet(writes') /\ LastGreet(greets', sock)
                      /\ busy'[sock] = "idle" /\ ~unwatched' => Quiet(writes') /\ greets' = <<>> /\ ka = sock
    BY <1>1 DEF OverInv, Over
  <2>1. /\ busy[sock] # "paired" /\ sock \in Sock
        /\ busy[sock] = "connected" => LastWrite(writes, sock)
        /\ busy[sock] = "status" => Quiet(writes) /\ LastGreet(greets, sock)
        /\ busy[sock] = "idle" /\ ~unwatched => Quiet(writes) /\ greets = <<>> /\ ka = sock
    BY <1>3 DEF WatchInv, OverInv
  <2>2. CASE k = sock
    <3>1. busy[sock] = "connected" /\ Quiet(writes')
      BY <1>4, <2>1, <2>2
    <3>2. CASE x = "idle"
      BY <1>2, <1>6, <2>1, <2>2, <3>1, <3>2
    <3>3. CASE x = "status"
      <4>1. greets' = Append(greets, k) /\ LastGreet(greets', k)
        BY <1>2, <1>3, <1>6, <2>1, <2>2, <3>3 DEF LastGreet
      <4> QED BY <1>6, <2>1, <2>2, <3>1, <3>3, <4>1
    <3> QED BY <3>2, <3>3
  <2>3. CASE k # sock
    <3>1. busy'[sock] = busy[sock]
      BY <1>5, <2>1, <2>3
    <3>2. busy[sock] = "status" \/ (busy[sock] = "idle" /\ ~unwatched') => k \notin Sock /\ greets' = greets
      <4>1. ~unwatched' => ~unwatched
        BY <1>2
      <4> QED BY <1>2, <1>4, <2>1, <4>1
    <3>3. ~unwatched' => ~unwatched
      BY <1>2
    <3> QED BY <1>4, <2>1, <3>1, <3>2, <3>3
  <2> QED BY <2>2, <2>3
<1> QED BY <1>4, <1>7, <1>8, <1>9 DEF WatchInv

\* The provider status is published, or could not be: the keepalive is the last handler's.
LEMMA StatusWatched ==
  ASSUME IInv, WatchInv, NEW k \in Sock, StatusPublished(k) \/ StatusFails(k)
  PROVE  WatchInv'
<1>1. /\ greets # <<>> /\ Head(greets) = k /\ greets' = Tail(greets)
      /\ busy' = [busy EXCEPT ![k] = "idle"]
      /\ UNCHANGED <<sock, ready, peer, connected, pairing, writes>>
  BY DEF StatusPublished, StatusFails, flags, store, seen
<1>2. /\ busy \in [Sock -> {"idle", "paired", "connected", "status"}] /\ greets \in Seq(Sock)
      /\ sock \in Sock \cup {None} /\ OneWrite(writes, busy) /\ OneGreet(greets, busy)
  BY DEF WatchInv, WatchTyped, IInv, Typed
<1>3. /\ greets[1] = k /\ Len(greets) \in Nat \ {0} /\ Len(greets') = Len(greets) - 1 /\ greets' \in Seq(Sock)
      /\ \A i \in 1 .. Len(greets') : greets'[i] = greets[i + 1] /\ i + 1 \in 1 .. Len(greets) /\ i + 1 # 1
  BY <1>1, <1>2
<1>4. busy[k] = "status" /\ \A i \in 1 .. Len(greets') : greets'[i] # k
  BY <1>3 DEF WatchInv, OneGreet
<1>5. WatchTyped'
  BY <1>1, <1>2, <1>3 DEF WatchInv, WatchTyped
<1>6. OneGreet(greets, busy)'
  <2> SUFFICES ASSUME NEW i \in 1 .. Len(greets')
               PROVE  /\ busy'[greets'[i]] = "status"
                      /\ \A j \in 1 .. Len(greets') : greets'[j] = greets'[i] => i = j
    BY DEF OneGreet
  <2>1. greets'[i] \in Sock /\ greets'[i] # k /\ busy[greets'[i]] = "status"
    BY <1>2, <1>3, <1>4 DEF OneGreet
  <2>2. ASSUME NEW j \in 1 .. Len(greets'), greets'[j] = greets'[i] PROVE i = j
    <3>1. i + 1 = j + 1
      BY <1>2, <1>3, <2>2 DEF OneGreet
    <3> QED BY <1>3, <3>1
  <2> QED BY <1>1, <1>2, <2>1, <2>2
<1>7. OneWrite(writes, busy)'
  BY <1>1, <1>2, <1>4 DEF OneWrite
<1>8. ~unwatched' => ~unwatched
  BY DEF StatusPublished, StatusFails, seen
<1>9. OverInv'
  <2> SUFFICES ASSUME sock # None, Over(sock)
               PROVE  /\ busy'[sock] # "paired"
                      /\ busy'[sock] = "connected" => LastWrite(writes, sock)
                      /\ busy'[sock] = "status" => Quiet(writes) /\ LastGreet(greets', sock)
                      /\ busy'[sock] = "idle" /\ ~unwatched' => Quiet(writes) /\ greets' = <<>> /\ ka' = sock
    BY <1>1 DEF OverInv, Over
  <2>1. /\ busy[sock] # "paired" /\ sock \in Sock
        /\ busy[sock] = "connected" => LastWrite(writes, sock)
        /\ busy[sock] = "status" => Quiet(writes) /\ LastGreet(greets, sock)
        /\ busy[sock] = "idle" /\ ~unwatched => Quiet(writes) /\ greets = <<>> /\ ka = sock
    BY <1>2 DEF WatchInv, OverInv
  <2>2. CASE k = sock
    <3>1. Quiet(writes) /\ Len(greets) = 1
      BY <1>3, <1>4, <2>1, <2>2 DEF LastGreet
    <3>2. greets' = <<>>
      <4>1. Len(greets') = 0
        BY <1>3, <3>1
      <4> QED BY <1>3, <4>1
    <3>3. ~unwatched' => StatusPublished(k)
      BY <2>2 DEF StatusFails, Over
    <3>4. ~unwatched' => ka' = k
      BY <3>3 DEF StatusPublished, StartKeepAlive
    <3> QED BY <1>1, <1>2, <2>2, <3>1, <3>2, <3>4
  <2>3. CASE k # sock
    <3>1. busy'[sock] = busy[sock]
      BY <1>1, <1>2, <2>1, <2>3
    <3>2. LastGreet(greets, sock) => LastGreet(greets', sock)
      BY <1>3 DEF LastGreet
    <3>3. ~(busy[sock] = "idle" /\ ~unwatched)
      BY <1>1, <2>1
    <3>4. ~(busy'[sock] = "idle" /\ ~unwatched')
      BY <1>8, <3>1, <3>3
    <3>5. busy'[sock] = "connected" => LastWrite(writes, sock)
      BY <1>1, <2>1, <3>1
    <3>6. busy'[sock] = "status" => Quiet(writes) /\ LastGreet(greets', sock)
      BY <1>1, <2>1, <3>1, <3>2
    <3>7. busy'[sock] # "paired"
      BY <2>1, <3>1
    <3> QED BY <3>4, <3>5, <3>6, <3>7
  <2> QED BY <2>2, <2>3
<1> QED BY <1>5, <1>6, <1>7, <1>9 DEF WatchInv

LEMMA EvictWatched ==
  ASSUME IInv, WatchInv, Evict
  PROVE  WatchInv'
<1>1. /\ busy' = [k \in Sock |-> "idle"] /\ peer' = [k \in Sock |-> None] /\ greets' = <<>>
      /\ writes' = <<>> /\ pairing' = None /\ sock' = None
  BY DEF Evict
<1>2. WatchTyped'
  <2>1. busy' \in [Sock -> {"idle", "paired", "connected", "status"}] /\ peer' \in [Sock -> Peer]
    BY <1>1 DEF Peer
  <2>2. greets' \in Seq(Sock) /\ pairing' \in Endpoint \cup {None}
    BY <1>1
  <2> QED BY <2>1, <2>2 DEF WatchTyped
<1>3. OneWrite(writes, busy)' /\ OneGreet(greets, busy)' /\ OverInv'
  BY <1>1 DEF OneWrite, OneGreet, OverInv
<1> QED BY <1>2, <1>3 DEF WatchInv

LEMMA InitWatched == Init => WatchInv
<1> SUFFICES ASSUME Init PROVE WatchInv
  OBVIOUS
<1>1. /\ busy = [k \in Sock |-> "idle"] /\ peer = [k \in Sock |-> None] /\ greets = <<>>
      /\ writes = <<>> /\ pairing = None /\ sock = None
  BY DEF Init
<1>2. WatchTyped
  <2>1. busy \in [Sock -> {"idle", "paired", "connected", "status"}] /\ peer \in [Sock -> Peer]
    BY <1>1 DEF Peer
  <2>2. greets \in Seq(Sock) /\ pairing \in Endpoint \cup {None}
    BY <1>1
  <2> QED BY <2>1, <2>2 DEF WatchTyped
<1>3. OneWrite(writes, busy) /\ OneGreet(greets, busy) /\ OverInv
  BY <1>1 DEF OneWrite, OneGreet, OverInv
<1> QED BY <1>2, <1>3 DEF WatchInv

LEMMA WatchStep == IInv /\ WatchInv /\ [Next]_vars => WatchInv'
<1> SUFFICES ASSUME IInv, WatchInv, [Next]_vars PROVE WatchInv'
  OBVIOUS
<1>1. CASE TimerFires \/ AlarmHandled
  BY <1>1, WakeupWatched
<1>2. ASSUME NEW k \in Sock, SocketOpens(k) \/ SocketClosing(k) \/ SocketCloses(k) \/ Refused(k) PROVE WatchInv'
  BY <1>2, SocketWatched, CloseWatched
<1>3. ASSUME NEW k \in Sock, Paired(k) \/ Connected(k) PROVE WatchInv'
  BY <1>3, FrameWatched
<1>4. ASSUME NEW k \in Sock, StatusPublished(k) \/ StatusFails(k) PROVE WatchInv'
  BY <1>4, StatusWatched
<1>5. CASE Ping \/ Pong \/ Deadline \/ WorkBegins \/ AlarmRings \/ Wakes
           \/ PopupDisconnect \/ InitializeFails \/ UNCHANGED vars
  BY <1>5, KeepAliveWatched
<1>6. CASE WriteDone \/ WriteRefused
  BY <1>6, WriteWatched
<1>7. CASE PopupReconnect \/ PopupReleased \/ \E e \in Endpoint : PopupPair(e)
  BY <1>7, ClickWatched
<1>8. CASE PopupSaved \/ PopupStopped \/ Initialized
  BY <1>8, SavedWatched
<1>9. CASE Evict
  BY <1>9, EvictWatched
<1> QED BY <1>1, <1>2, <1>3, <1>4, <1>5, <1>6, <1>7, <1>8, <1>9 DEF Next, Frames, PopupSteps

(* A greeted connection is watched by a keepalive of its own: the handlers of   *)
(* bridge.connected resume in the order in which their sockets became current,  *)
(* so none of an earlier connection starts the interval after this one          *)
(* (index.ts 1514-1565, saveStored, providerStatusQueue).                       *)
THEOREM AlwaysWatched == Spec => []Watched
<1>1. WatchInv => Watched
  BY DEF WatchInv, OverInv, Over, Watched
<1>2. Init => IInv /\ WatchInv
  BY InitIInv, InitWatched
<1>3. IInv /\ WatchInv /\ [Next]_vars => IInv' /\ WatchInv'
  BY IInvStep, WatchStep
<1> QED BY <1>1, <1>2, <1>3, PTL DEF Spec
=============================================================================
