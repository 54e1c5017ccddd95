-------------------------- MODULE NtripStreamProofs --------------------------
(***************************************************************************)
(* Theorems about the NTRIP stream process, for every set of sockets,       *)
(* references and options and every delay.                                  *)
(***************************************************************************)
EXTENDS NtripStreamProperties, FiniteSetTheorems, TLAPS

Msgs == SocketMessages \cup TimerMessages

-----------------------------------------------------------------------------
(* The protocol machine and the delays are well typed.                      *)

Machines == {"nil", "handshake", "streaming", "closed"}

\* The machine stays in its phases.
LEMMA MachineType ==
    ASSUME NEW m \in Machines, NEW evs
    PROVE  MachineAfter(m, evs) \in Machines
BY DEF MachineAfter, Machines

\* The events a chunk gives are events.
LEMMA PushType ==
    ASSUME NEW m, NEW evs \in PushEvents(m)
    PROVE  evs \in Seq(Events)
<1>1. <<>> \in Seq(Events)
  OBVIOUS
<1>2. \A e \in Events : <<e>> \in Seq(Events)
  OBVIOUS
<1>3. \A e, f \in Events : <<e, f>> \in Seq(Events)
  OBVIOUS
<1>4. evs \in { <<>>, <<"connected">>, <<"connected", "payload">>,
                <<"connected", "stream_corrupted">>,
                <<"sourcetable">>, <<"rejected">>, <<"payload">>,
                <<"payload", "stream_corrupted">>, <<"stream_ended">> }
  BY DEF PushEvents
<1>5. /\ "connected" \in Events /\ "payload" \in Events /\ "rejected" \in Events
      /\ "sourcetable" \in Events /\ "stream_corrupted" \in Events
      /\ "stream_ended" \in Events
  BY DEF Events
<1> QED  BY <1>1, <1>2, <1>3, <1>4, <1>5, Zenon

\* The events that the end of the bytes gives are events.
LEMMA FinishType ==
    ASSUME NEW m, NEW evs \in FinishEvents(m)
    PROVE  evs \in Seq(Events)
<1>1. <<>> \in Seq(Events)
  OBVIOUS
<1>2. \A e \in Events : <<e>> \in Seq(Events)
  OBVIOUS
<1>3. evs \in { <<>>, <<"sourcetable">>, <<"rejected">>, <<"stream_ended">> }
  BY DEF FinishEvents
<1>4. {"sourcetable", "rejected", "stream_ended"} \subseteq Events
  BY DEF Events
<1> QED  BY <1>1, <1>2, <1>3, <1>4, Zenon

\* The delay of a reconnect is a number of ticks.
LEMMA BackoffType ==
    ASSUME NEW n \in Nat, n < PowOverflow
    PROVE  backoff(n + 1) \in Nat
<1>1. BackoffFactor^n \in Nat
  BY ConstantsAssumption
<1>2. backoff(n + 1) = MinOf(BackoffCap, BackoffInitial * BackoffFactor^n)
  BY DEF backoff
<1> DEFINE p == BackoffFactor^n
<1>3. p \in Nat
  BY <1>1
<1> HIDE DEF p
<1>4. MinOf(BackoffCap, BackoffInitial * p) \in Nat
  BY <1>3, ConstantsAssumption DEF MinOf
<1> QED  BY <1>2, <1>4 DEF p

-----------------------------------------------------------------------------
(* Type correctness.                                                        *)

\* A timer that is started is a timer.
LEMMA SendAfterType ==
    ASSUME TypeOK, NEW k \in {"stall", "connect", "gga"}, NEW r \in Refs,
           NEW delay \in Nat, send_after(k, r, delay)
    PROVE  timers' \subseteq Timers
<1>1. timers' = timers \cup {[msg |-> TimerMessage(k, r), left |-> delay]}
  BY DEF send_after
<1>2. TimerMessage(k, r) \in TimerMessages
  BY DEF TimerMessage, TimerMessages
<1>3. [msg |-> TimerMessage(k, r), left |-> delay] \in Timers
  BY <1>2 DEF Timers
<1> QED  BY <1>1, <1>3 DEF TypeOK

\* schedule_stall/1 keeps the types.
LEMMA ScheduleStallType ==
    ASSUME TypeOK, schedule_stall
    PROVE  timers' \subseteq Timers
<1>1. MinOf(StallTick, StallTimeout) \in Nat
  BY ConstantsAssumption DEF MinOf
<1> QED  BY <1>1, SendAfterType DEF schedule_stall

\* What every way of ending leaves behind.
Gone ==
    /\ pc' \in {"stopped", "crashed"}
    /\ events' = <<>> /\ mailbox' = <<>>
    /\ open' = {} /\ active' = {} /\ timers' = {}
    /\ state' \in States
    /\ state'.socket = NoSocket /\ state'.gga_timer_ref = NoRef
    /\ opts' = opts
    /\ sink' \in {sink, "reconnecting", "down"}

\* What an announced reconnect leaves behind.
Announced(rest, held) ==
    /\ pc' = "run"
    /\ events' = <<>> /\ mailbox' = rest
    /\ open' = held /\ active' = active \cap held
    /\ \E r \in FreshRefs, delay \in Nat :
          timers' = timers \cup {[msg |-> TimerMessage("connect", r), left |-> delay]}
    /\ state' \in States
    /\ state'.socket = NoSocket /\ state'.gga_timer_ref = NoRef
    /\ opts' = opts
    /\ sink' = "reconnecting"

\* A process state without its connection is a process state.
LEMMA UnconnectedState ==
    ASSUME NEW st \in States
    PROVE  /\ Unconnected(st) \in States
           /\ Unconnected(st).socket = NoSocket
           /\ Unconnected(st).gga_timer_ref = NoRef
           /\ Unconnected(st).attempt = st.attempt
BY DEF States, Unconnected

\* So is one with another attempt number and a fresh machine.
LEMMA AttemptState ==
    ASSUME NEW st \in States, NEW n \in Nat, NEW m \in Machines
    PROVE  LET new == [st EXCEPT !.attempt = n, !.machine = m] IN
             /\ new \in States
             /\ new.socket = st.socket /\ new.gga_timer_ref = st.gga_timer_ref
BY DEF States, Machines

\* down/2 and a crash end the process.
LEMMA DownOutcome ==
    ASSUME TypeOK, down \/ crash
    PROVE  Gone
<1>1. state \in States
  BY DEF TypeOK
<1>2. state' = Unconnected(state)
  BY DEF down, crash
<1> QED  BY <1>1, <1>2, UnconnectedState DEF Gone, down, crash, Terminate

\* reconnect/2 ends the process or announces the next attempt.
LEMMA ReconnectOutcome ==
    ASSUME TypeOK, NEW rest, NEW held, reconnect(rest, held)
    PROVE  Gone \/ Announced(rest, held)
<1> DEFINE st == Unconnected(state)
<1>1. state \in States /\ state.attempt \in Nat
  BY DEF TypeOK, States
<1>2. st \in States /\ st.socket = NoSocket /\ st.gga_timer_ref = NoRef
  BY <1>1, UnconnectedState
<1>3. CASE Exhausted /\ down
  BY <1>3, DownOutcome
<1>4. CASE ~Exhausted
  <2>1. /\ sink' = "reconnecting"
        /\ state' = [st EXCEPT !.attempt = @ + 1, !.machine = "handshake"]
    BY <1>4 DEF reconnect
  <2> HIDE DEF st
  <2>2. state' \in States /\ state'.socket = NoSocket /\ state'.gga_timer_ref = NoRef
    <3>1. st.attempt + 1 \in Nat
      BY <1>2 DEF States
    <3>2. "handshake" \in Machines
      BY DEF Machines
    <3> QED  BY <1>2, <2>1, <3>1, <3>2, AttemptState
  <2>3. CASE Terminate("crashed")
    BY <2>1, <2>2, <2>3 DEF Terminate, Gone
  <2>4. CASE /\ state.attempt < PowOverflow
             /\ \E r \in Refs : send_after("connect", r, backoff(state.attempt + 1))
             /\ pc' = "run" /\ events' = <<>>
             /\ open' = held /\ active' = active \cap held
             /\ mailbox' = rest
             /\ UNCHANGED opts
    <3>1. backoff(state.attempt + 1) \in Nat
      BY <1>1, <2>4, BackoffType
    <3>2. \E r \in FreshRefs, delay \in Nat :
            timers' = timers \cup {[msg |-> TimerMessage("connect", r), left |-> delay]}
      BY <2>4, <3>1 DEF send_after
    <3> QED  BY <2>1, <2>2, <2>4, <3>2 DEF Announced
  <2> QED  BY <1>4, <2>3, <2>4 DEF reconnect
<1> QED  BY <1>3, <1>4 DEF reconnect

\* The end of the process keeps the types.
LEMMA GoneType ==
    ASSUME TypeOK, Gone
    PROVE  TypeOK'
<1>1. events' \in Seq(Events) /\ mailbox' \in Seq(SocketMessages \cup TimerMessages)
  BY DEF Gone
<1> QED  BY <1>1 DEF Gone, TypeOK

\* An announced attempt keeps the types.
LEMMA AnnouncedType ==
    ASSUME TypeOK, NEW rest \in Seq(SocketMessages \cup TimerMessages),
           NEW held \in SUBSET Sockets, Announced(rest, held)
    PROVE  TypeOK'
<1>1. events' \in Seq(Events)
  BY DEF Announced
<1>2. PICK r \in FreshRefs, delay \in Nat :
          timers' = timers \cup {[msg |-> TimerMessage("connect", r), left |-> delay]}
  BY DEF Announced
<1>3. r \in Refs
  BY DEF FreshRefs
<1>4. [msg |-> TimerMessage("connect", r), left |-> delay] \in Timers
  BY <1>3 DEF Timers, TimerMessage, TimerMessages
<1>5. timers' \subseteq Timers
  BY <1>2, <1>4 DEF TypeOK
<1> QED  BY <1>1, <1>5 DEF Announced, TypeOK

\* reconnect/2 keeps the types.
LEMMA ReconnectType ==
    ASSUME TypeOK, NEW rest \in Seq(SocketMessages \cup TimerMessages),
           NEW held \in SUBSET Sockets, reconnect(rest, held)
    PROVE  TypeOK'
BY ReconnectOutcome, GoneType, AnnouncedType

\* The initial states are type correct.
LEMMA InitType == Init => TypeOK
<1> SUFFICES ASSUME Init PROVE TypeOK
  OBVIOUS
<1>1. events \in Seq(Events) /\ mailbox \in Seq(SocketMessages \cup TimerMessages)
  BY DEF Init
<1>2. state \in States
  BY ConstantsAssumption DEF Init, States
<1> QED  BY <1>1, <1>2 DEF Init, TypeOK

\* A handler that only consumes the head of the mailbox.
LEMMA TailType ==
    ASSUME TypeOK, mailbox # <<>>
    PROVE  Tail(mailbox) \in Seq(SocketMessages \cup TimerMessages)
BY DEF TypeOK

\* schedule_gga/1 keeps the types.
LEMMA ScheduleGgaType ==
    ASSUME TypeOK, schedule_gga
    PROVE  timers' \subseteq Timers /\ state' \in States
<1>1. CASE ~opts.gga
  BY <1>1 DEF schedule_gga, TypeOK, States
<1>2. CASE opts.gga
  <2>1. PICK r \in Refs : /\ send_after("gga", r, GgaInterval)
                          /\ state' = [state EXCEPT !.gga_timer_ref = r]
    BY <1>2 DEF schedule_gga
  <2>2. GgaInterval \in Nat
    BY ConstantsAssumption
  <2>3. timers' \subseteq Timers
    BY <2>1, <2>2, SendAfterType
  <2>4. state' \in States
    BY <2>1 DEF TypeOK, States
  <2> QED  BY <2>3, <2>4
<1> QED  BY <1>1, <1>2

\* A GGA sentence that cannot be sent keeps the types.
LEMMA GgaFailsType ==
    ASSUME TypeOK, NEW rest \in Seq(SocketMessages \cup TimerMessages), GgaFails(rest)
    PROVE  TypeOK'
<1>1. open \ {state.socket} \in SUBSET Sockets
  BY DEF TypeOK
<1>2. CASE down
  BY <1>2, DownOutcome, GoneType
<1>3. CASE reconnect(rest, open \ {state.socket})
  BY <1>1, <1>3, ReconnectType
<1> QED  BY <1>2, <1>3 DEF GgaFails, Abandon

\* Giving the socket up keeps the types.
LEMMA AbandonType ==
    ASSUME TypeOK, NEW rest \in Seq(SocketMessages \cup TimerMessages), Abandon(rest)
    PROVE  TypeOK'
<1>1. open \ {state.socket} \in SUBSET Sockets
  BY DEF TypeOK
<1> QED  BY <1>1, ReconnectType DEF Abandon

\* Every way to connect keeps the types.
LEMMA ConnectType ==
    ASSUME TypeOK, Connect
    PROVE  TypeOK'
<1> USE DEF TypeOK
<1>0. mailbox \in Seq(SocketMessages \cup TimerMessages) /\ open \in SUBSET Sockets
  OBVIOUS
<1>1. CASE ConnectRefusedByConfig
  BY <1>1, DownOutcome, GoneType DEF ConnectRefusedByConfig
<1>2. CASE ConnectFails
  BY <1>0, <1>2, ReconnectType DEF ConnectFails
<1>3. CASE ConnectSendFails
  <2>1. PICK s \in FreshSockets : reconnect(mailbox, open \cup {s})
    BY <1>3 DEF ConnectSendFails
  <2>2. open \cup {s} \in SUBSET Sockets
    BY DEF FreshSockets
  <2> QED  BY <1>0, <2>1, <2>2, ReconnectType
<1>4. CASE ConnectOpens
  <2>1. PICK s \in FreshSockets :
           /\ state' = [state EXCEPT !.socket = s, !.machine = "handshake"]
           /\ open' = open \cup {s} /\ active' = active \cup {s}
    BY <1>4 DEF ConnectOpens
  <2>2. s \in Sockets
    BY DEF FreshSockets
  <2>3. state' \in States
    BY <2>1, <2>2 DEF States
  <2>4. timers' \subseteq Timers
    BY <1>4, ScheduleStallType DEF ConnectOpens
  <2> QED  BY <1>4, <2>1, <2>2, <2>3, <2>4 DEF ConnectOpens
<1>5. CASE InjectedReplies
  <2>1. PICK evs \in PushEvents("handshake") :
           /\ events' = Append(evs, "run_ended")
           /\ state' = [state EXCEPT !.machine = MachineAfter("handshake", evs)]
    BY <1>5 DEF InjectedReplies
  <2>2. events' \in Seq(Events)
    BY <2>1, PushType DEF Events
  <2>3. MachineAfter("handshake", evs) \in Machines
    BY MachineType DEF Machines
  <2>4. state' \in States
    BY <2>1, <2>3 DEF States, Machines
  <2> QED  BY <1>5, <2>2, <2>4 DEF InjectedReplies
<1> QED  BY <1>1, <1>2, <1>3, <1>4, <1>5 DEF Connect

\* Every handle_info/2 clause keeps the types.
LEMMA HandleInfoType ==
    ASSUME TypeOK, HandleInfo
    PROVE  TypeOK'
<1>0. /\ mailbox # <<>>
      /\ Tail(mailbox) \in Seq(SocketMessages \cup TimerMessages)
  <2>1. mailbox # <<>>
    BY DEF HandleInfo, HandleData, HandleForeignData, HandleSocketError, HandleClosed,
           HandleForeignClosed, HandleStallCheckUnconnected, HandleStallCheck,
           HandleConnectAfterBackoff, HandleGgaTick, HandleStaleGgaTick, Receives
  <2> QED  BY <2>1, TailType
<1>1. CASE HandleData
  <2>1. PICK evs \in PushEvents(state.machine) :
           /\ events' = evs
           /\ state' = [state EXCEPT !.machine = MachineAfter(@, evs), !.since_rx = 0]
    BY <1>1 DEF HandleData
  <2>2. state.machine \in Machines
    BY DEF TypeOK, States, Machines
  <2>3. MachineAfter(state.machine, evs) \in Machines
    BY <2>2, MachineType
  <2>4. state' \in States
    <3>1. 0 \in 0..StallTimeout
      BY ConstantsAssumption
    <3> QED  BY <2>1, <2>3, <3>1 DEF TypeOK, States, Machines
  <2>5. events' \in Seq(Events)
    BY <2>1, PushType
  <2> QED  BY <1>0, <1>1, <2>4, <2>5 DEF HandleData, TypeOK
<1>2. CASE HandleForeignData \/ HandleSocketError
  BY <1>2, DownOutcome, GoneType DEF HandleForeignData, HandleSocketError
<1>3. CASE HandleClosed
  <2>1. PICK evs \in FinishEvents(state.machine) :
           /\ events' = Append(evs, "stream_ended")
           /\ state' = [Unconnected(state) EXCEPT !.machine = MachineAfter(@, evs)]
    BY <1>3 DEF HandleClosed
  <2>2. Unconnected(state) \in States
    BY UnconnectedState DEF TypeOK
  <2>3. Unconnected(state).machine \in Machines
    BY <2>2 DEF States, Machines
  <2>4. MachineAfter(Unconnected(state).machine, evs) \in Machines
    BY <2>3, MachineType
  <2>5. state' \in States
    BY <2>1, <2>2, <2>4 DEF States, Machines
  <2>6. events' \in Seq(Events)
    BY <2>1, FinishType DEF Events
  <2> QED  BY <1>0, <1>3, <2>5, <2>6 DEF HandleClosed, TypeOK
<1>4. CASE HandleForeignClosed \/ HandleStallCheckUnconnected \/ HandleStaleGgaTick
  BY <1>0, <1>4 DEF HandleForeignClosed, HandleStallCheckUnconnected,
                    HandleStaleGgaTick, Dropped, TypeOK
<1>5. CASE HandleStallCheck
  <2>1. CASE Abandon(Tail(mailbox))
    BY <1>0, <2>1, AbandonType
  <2>2. CASE schedule_stall /\ mailbox' = Tail(mailbox)
             /\ UNCHANGED <<opts, pc, events, state, open, active, sink>>
    BY <1>0, <2>2, ScheduleStallType DEF TypeOK
  <2> QED  BY <1>5, <2>1, <2>2 DEF HandleStallCheck
<1>6. CASE HandleConnectAfterBackoff
  BY <1>0, <1>6 DEF HandleConnectAfterBackoff, TypeOK
<1>7. CASE HandleGgaTick
  <2>1. CASE GgaFails(Tail(mailbox))
    BY <1>0, <2>1, GgaFailsType
  <2>2. CASE schedule_gga /\ mailbox' = Tail(mailbox)
             /\ UNCHANGED <<opts, pc, events, open, active, sink>>
    BY <1>0, <2>2, ScheduleGgaType DEF TypeOK
  <2> QED  BY <1>7, <2>1, <2>2 DEF HandleGgaTick
<1> QED  BY <1>1, <1>2, <1>3, <1>4, <1>5, <1>6, <1>7 DEF HandleInfo

\* Every handle_event/2 clause keeps the types.
LEMMA HandleEventType ==
    ASSUME TypeOK, HandleEvent
    PROVE  TypeOK'
<1>0. /\ mailbox \in Seq(SocketMessages \cup TimerMessages)
      /\ events # <<>> => Tail(events) \in Seq(Events)
  BY DEF TypeOK
<1>1. CASE down
  BY <1>1, DownOutcome, GoneType
<1>2. CASE Abandon(mailbox)
  BY <1>0, <1>2, AbandonType
<1>3. CASE EventConnected
  <2>1. CASE GgaFails(mailbox)
    BY <1>0, <2>1, GgaFailsType
  <2>2. CASE schedule_gga /\ EventDone /\ UNCHANGED sink
    BY <1>0, <1>3, <2>2, ScheduleGgaType DEF TypeOK, EventDone, EventConnected, NextEvent
  <2> QED  BY <1>3, <2>1, <2>2 DEF EventConnected
<1>4. ASSUME events # <<>>,
             Delivered("payload") \/ Delivered("sourcetable") \/ Delivered(sink)
      PROVE  TypeOK'
  BY <1>0, <1>4 DEF Delivered, EventDone, TypeOK
<1> QED  BY <1>1, <1>2, <1>3, <1>4 DEF HandleEvent, EventPayload, EventSourcetable,
                                       EventTerminal, EventStreamLost, NextEvent

\* A message from a socket keeps the types.
LEMMA ArrivesType ==
    ASSUME TypeOK, NEW s \in Sockets,
           PeerData(s) \/ PeerCloses(s) \/ SocketFails(s)
    PROVE  TypeOK'
<1>1. \A k \in {"data", "closed", "error"} : SocketMessage(k, s) \in SocketMessages
  BY DEF SocketMessage, SocketMessages
<1>2. \E msgs \in Seq(SocketMessages \cup TimerMessages) : Arrives(s, msgs)
  <2>1. \A m \in SocketMessages : <<m>> \in Seq(SocketMessages \cup TimerMessages)
    OBVIOUS
  <2>2. \A m, n \in SocketMessages : <<m, n>> \in Seq(SocketMessages \cup TimerMessages)
    OBVIOUS
  <2> QED  BY <1>1, <2>1, <2>2, Zenon DEF PeerData, PeerCloses, SocketFails
<1>3. mailbox' \in Seq(SocketMessages \cup TimerMessages)
  BY <1>2 DEF Arrives, TypeOK
<1> QED  BY <1>2, <1>3 DEF Arrives, PeerData, PeerCloses, SocketFails, TypeOK

\* Time and timers keep the types.
LEMMA ClockType ==
    ASSUME TypeOK, Clock
    PROVE  TypeOK'
<1>1. CASE Tick
  <2>1. state' \in States
    <3>1. MinOf(state.since_rx + 1, StallTimeout) \in 0..StallTimeout
      BY ConstantsAssumption DEF MinOf, TypeOK, States
    <3>2. state' = [state EXCEPT !.since_rx = MinOf(@ + 1, StallTimeout)]
      BY <1>1 DEF Tick
    <3> QED  BY <3>1, <3>2 DEF TypeOK, States
  <2>2. ASSUME NEW t \in timers PROVE [t EXCEPT !.left = @ - 1] \in Timers
    BY <1>1 DEF Tick, TypeOK, Timers
  <2>3. timers' \subseteq Timers
    BY <1>1, <2>2 DEF Tick
  <2> QED  BY <1>1, <2>1, <2>3 DEF Tick, TypeOK
<1>2. CASE \E t \in timers : Fire(t)
  <2>1. PICK t \in timers : Fire(t)
    BY <1>2
  <2>2. t.msg \in SocketMessages \cup TimerMessages
    BY DEF TypeOK, Timers
  <2> QED  BY <2>1, <2>2 DEF Fire, TypeOK
<1> QED  BY <1>1, <1>2 DEF Clock

\* Every step keeps the types.
LEMMA TypeStep == TypeOK /\ [Next]_vars => TypeOK'
<1> SUFFICES ASSUME TypeOK, [Next]_vars PROVE TypeOK'
  OBVIOUS
<1>1. CASE Process
  BY <1>1, ConnectType, HandleInfoType, HandleEventType DEF Process
<1>2. CASE Kernel
  BY <1>2, ArrivesType DEF Kernel
<1>3. CASE Clock
  BY <1>3, ClockType
<1>4. CASE UNCHANGED vars
  BY <1>4 DEF vars, TypeOK
<1> QED  BY <1>1, <1>2, <1>3, <1>4 DEF Next, Ended

\* The stream process is type correct, for every choice of the constants.
THEOREM TypeCorrect == Spec => []TypeOK
BY InitType, TypeStep, PTL DEF Spec

-----------------------------------------------------------------------------
(* OneWakeUp.  Wake states it of a mailbox, a set of timers and the answer  *)
(* to "is the stream waiting?"; each lemma is one way these can change.     *)

WakeTimers(tm) == {t \in tm : t.msg.kind = "connect"}
WakesQueued(mb) == {i \in DOMAIN mb : mb[i].kind = "connect"}

Wake(mb, tm, waiting) ==
    /\ waiting <=> (WakeTimers(tm) # {} \/ WakesQueued(mb) # {})
    /\ \A t, u \in WakeTimers(tm) : t = u
    /\ \A i, j \in WakesQueued(mb) : i = j
    /\ WakeTimers(tm) = {} \/ WakesQueued(mb) = {}

Mails == Seq(SocketMessages \cup TimerMessages)

\* OneWakeUp, over explicit mailbox, timers and state.
LEMMA WakeIsOneWakeUp == OneWakeUp <=> (Alive => Wake(mailbox, timers, Waiting))
BY DEF OneWakeUp, Wake, WakeTimers, WakesQueued, ConnectTimers, ConnectsQueued

\* Taking a message that is no wake-up leaves the wake-ups as they are.
LEMMA WakeTail ==
    ASSUME NEW mb \in Mails, NEW tm, NEW w \in BOOLEAN, mb # <<>>,
           Head(mb).kind # "connect", Wake(mb, tm, w)
    PROVE  Wake(Tail(mb), tm, w)
<1>1. \A i \in 1..Len(Tail(mb)) : Tail(mb)[i] = mb[i + 1] /\ i + 1 \in 1..Len(mb)
  BY DEF Mails
<1>2. \A i \in 1..Len(mb) : mb[i].kind = "connect" =>
         i - 1 \in 1..Len(Tail(mb)) /\ Tail(mb)[i - 1] = mb[i]
  BY DEF Mails
<1>3. DOMAIN mb = 1..Len(mb) /\ DOMAIN Tail(mb) = 1..Len(Tail(mb))
  BY DEF Mails
<1>4. \A i \in WakesQueued(Tail(mb)) : i + 1 \in WakesQueued(mb) /\ i \in Int
  BY <1>1, <1>3 DEF WakesQueued
<1>5. \A i \in WakesQueued(mb) : i - 1 \in WakesQueued(Tail(mb))
  BY <1>2, <1>3 DEF WakesQueued
<1>6. WakesQueued(mb) = {} <=> WakesQueued(Tail(mb)) = {}
  BY <1>4, <1>5
<1>7. \A i, j \in WakesQueued(Tail(mb)) : i = j
  <2> TAKE i, j \in WakesQueued(Tail(mb))
  <2>1. i + 1 = j + 1
    BY <1>4 DEF Wake
  <2> QED  BY <1>4, <2>1
<1> QED  BY <1>6, <1>7 DEF Wake

\* Taking the wake-up leaves none.
LEMMA WakeTaken ==
    ASSUME NEW mb \in Mails, NEW tm, NEW w \in BOOLEAN, mb # <<>>,
           Head(mb).kind = "connect", Wake(mb, tm, w)
    PROVE  Wake(Tail(mb), tm, FALSE)
<1>1. 1 \in WakesQueued(mb)
  BY DEF Mails, WakesQueued
<1>2. \A i \in WakesQueued(Tail(mb)) : i \in 1..Len(Tail(mb)) /\ i + 1 \in WakesQueued(mb)
  BY DEF Mails, WakesQueued
<1>3. \A i \in WakesQueued(Tail(mb)) : i + 1 = 1 /\ i >= 1
  BY <1>1, <1>2 DEF Wake
<1>4. WakesQueued(Tail(mb)) = {}
  BY <1>2, <1>3
<1>5. WakeTimers(tm) = {}
  BY <1>1 DEF Wake
<1> QED  BY <1>4, <1>5 DEF Wake

\* A message that is no wake-up may be appended.
LEMMA WakeAppend ==
    ASSUME NEW mb \in Mails, NEW tm, NEW w \in BOOLEAN,
           NEW m \in SocketMessages \cup TimerMessages, m.kind # "connect", Wake(mb, tm, w)
    PROVE  Wake(Append(mb, m), tm, w)
<1>1. WakesQueued(Append(mb, m)) = WakesQueued(mb)
  BY DEF Mails, WakesQueued
<1> QED  BY <1>1 DEF Wake

\* A timer that is no wake-up may be started.
LEMMA WakeTimer ==
    ASSUME NEW mb, NEW tm, NEW w \in BOOLEAN, NEW t, t.msg.kind # "connect",
           Wake(mb, tm, w)
    PROVE  Wake(mb, tm \cup {t}, w)
<1>1. WakeTimers(tm \cup {t}) = WakeTimers(tm)
  BY DEF WakeTimers
<1> QED  BY <1>1 DEF Wake

\* Starting a wake-up where there is none makes exactly one.
LEMMA WakeStarted ==
    ASSUME NEW mb, NEW tm, NEW t, t.msg.kind = "connect", Wake(mb, tm, FALSE)
    PROVE  Wake(mb, tm \cup {t}, TRUE)
<1>1. WakeTimers(tm) = {} /\ WakesQueued(mb) = {}
  BY DEF Wake
<1>2. WakeTimers(tm \cup {t}) = {t}
  BY <1>1 DEF WakeTimers
<1> QED  BY <1>1, <1>2 DEF Wake

\* A timer that fires moves its message to the mailbox.
LEMMA WakeFired ==
    ASSUME NEW mb \in Mails, NEW tm \in SUBSET Timers, NEW w \in BOOLEAN, NEW t \in tm,
           Wake(mb, tm, w)
    PROVE  Wake(Append(mb, t.msg), tm \ {t}, w)
<1>1. t.msg \in SocketMessages \cup TimerMessages
  BY DEF Timers
<1>2. CASE t.msg.kind # "connect"
  <2>1. WakeTimers(tm \ {t}) = WakeTimers(tm)
    BY <1>2 DEF WakeTimers
  <2>2. Wake(mb, tm \ {t}, w)
    BY <2>1 DEF Wake
  <2> QED  BY <1>1, <1>2, <2>2, WakeAppend
<1>3. CASE t.msg.kind = "connect"
  <2>1. t \in WakeTimers(tm)
    BY <1>3 DEF WakeTimers
  <2>2. WakesQueued(mb) = {} /\ w = TRUE /\ \A u \in WakeTimers(tm) : u = t
    BY <2>1 DEF Wake
  <2>3. WakeTimers(tm \ {t}) = {}
    BY <2>2 DEF WakeTimers
  <2>4. WakesQueued(Append(mb, t.msg)) = {Len(mb) + 1}
    BY <1>1, <1>3, <2>2 DEF Mails, WakesQueued
  <2> QED  BY <2>2, <2>3, <2>4 DEF Wake
<1> QED  BY <1>2, <1>3

\* The passing of time leaves the wake-ups as they are.
LEMMA WakeTick ==
    ASSUME NEW mb, NEW tm \in SUBSET Timers, NEW w \in BOOLEAN, Wake(mb, tm, w)
    PROVE  Wake(mb, {[t EXCEPT !.left = @ - 1] : t \in tm}, w)
<1> DEFINE new == {[t EXCEPT !.left = @ - 1] : t \in tm}
<1>1. \A t \in tm : [t EXCEPT !.left = @ - 1].msg = t.msg
  BY DEF Timers
<1>2. \A u \in WakeTimers(new) : \E t \in WakeTimers(tm) : u = [t EXCEPT !.left = @ - 1]
  BY <1>1 DEF WakeTimers
<1>3. \A t \in WakeTimers(tm) : [t EXCEPT !.left = @ - 1] \in WakeTimers(new)
  BY <1>1 DEF WakeTimers
<1>4. WakeTimers(new) = {} <=> WakeTimers(tm) = {}
  BY <1>2, <1>3
<1>5. \A t, u \in WakeTimers(new) : t = u
  BY <1>2 DEF Wake
<1> HIDE DEF new
<1>6. Wake(mb, new, w)
  BY <1>4, <1>5 DEF Wake
<1> QED  BY <1>6 DEF new

\* Without a socket, the chunk in hand ends in a reconnect or in the end of the
\* process, so the process never falls asleep without a wake-up.
EventsEnd ==
    events # <<>> /\ state.socket = NoSocket =>
        events[Len(events)] \in {"stream_ended", "run_ended"}

\* The inductive invariant behind OneWakeUp.
WakeInv == TypeOK /\ OneWakeUp /\ EventsEnd

\* A process that ended needs no wake-up.
LEMMA GoneWake ==
    ASSUME Gone
    PROVE  OneWakeUp' /\ EventsEnd'
BY DEF Gone, OneWakeUp, Alive, EventsEnd

\* An announced attempt has exactly one wake-up.
LEMMA AnnouncedWake ==
    ASSUME NEW rest, NEW held, Announced(rest, held), Wake(rest, timers, FALSE)
    PROVE  OneWakeUp' /\ EventsEnd'
<1>1. PICK r \in FreshRefs, delay \in Nat :
          timers' = timers \cup {[msg |-> TimerMessage("connect", r), left |-> delay]}
  BY DEF Announced
<1> DEFINE t == [msg |-> TimerMessage("connect", r), left |-> delay]
<1>2. t.msg.kind = "connect"
  BY DEF TimerMessage
<1>3. timers' = timers \cup {t}
  BY <1>1
<1> HIDE DEF t
<1>4. Wake(rest, timers', TRUE)
  BY <1>2, <1>3, WakeStarted
<1>5. Waiting' /\ mailbox' = rest
  BY DEF Announced, Waiting
<1>6. (Alive => Wake(mailbox, timers, Waiting))'
  BY <1>4, <1>5 DEF Wake
<1>7. OneWakeUp'
  BY <1>6, WakeIsOneWakeUp, PTL
<1> QED  BY <1>7 DEF Announced, EventsEnd

\* reconnect/2 starts exactly one wake-up or ends the process.
LEMMA ReconnectWake ==
    ASSUME TypeOK, NEW rest, NEW held, reconnect(rest, held), Wake(rest, timers, FALSE)
    PROVE  OneWakeUp' /\ EventsEnd'
BY ReconnectOutcome, GoneWake, AnnouncedWake

\* OneWakeUp in the next state, from Wake of the next mailbox and timers.
LEMMA WakeNext ==
    ASSUME NEW w \in BOOLEAN, Wake(mailbox', timers', w), Waiting' <=> w
    PROVE  OneWakeUp'
<1>1. (Alive => Wake(mailbox, timers, Waiting))'
  BY DEF Wake
<1> QED  BY <1>1, WakeIsOneWakeUp, PTL

\* A timer of another kind changes nothing.
LEMMA SendAfterWake ==
    ASSUME NEW mb, NEW w \in BOOLEAN, NEW k \in {"stall", "gga"}, NEW r, NEW delay,
           send_after(k, r, delay), Wake(mb, timers, w)
    PROVE  Wake(mb, timers', w)
<1> DEFINE t == [msg |-> TimerMessage(k, r), left |-> delay]
<1>1. timers' = timers \cup {t}
  BY DEF send_after
<1>2. t.msg.kind # "connect"
  BY DEF TimerMessage
<1> HIDE DEF t
<1> QED  BY <1>1, <1>2, WakeTimer

\* schedule_gga/1 leaves the wake-ups as they are.
LEMMA ScheduleGgaWake ==
    ASSUME TypeOK, NEW mb, NEW w \in BOOLEAN, schedule_gga, Wake(mb, timers, w)
    PROVE  Wake(mb, timers', w) /\ state'.socket = state.socket
<1>1. CASE ~opts.gga
  BY <1>1 DEF schedule_gga, TypeOK, States
<1>2. CASE opts.gga
  <2>1. PICK r \in Refs : /\ send_after("gga", r, GgaInterval)
                          /\ state' = [state EXCEPT !.gga_timer_ref = r]
    BY <1>2 DEF schedule_gga
  <2>2. Wake(mb, timers', w)
    BY <2>1, SendAfterWake
  <2> QED  BY <2>1, <2>2 DEF TypeOK, States
<1> QED  BY <1>1, <1>2

\* A GGA sentence that cannot be sent leads to one wake-up.
LEMMA GgaFailsWake ==
    ASSUME TypeOK, NEW rest, GgaFails(rest), Wake(rest, timers, FALSE)
    PROVE  OneWakeUp' /\ EventsEnd'
<1>1. CASE down
  BY <1>1, DownOutcome, GoneWake
<1>2. CASE reconnect(rest, open \ {state.socket})
  BY <1>2, ReconnectWake
<1> QED  BY <1>1, <1>2 DEF GgaFails, Abandon

\* What the invariant says of a live process.
LEMMA WakeNow ==
    ASSUME WakeInv, Alive
    PROVE  /\ Wake(mailbox, timers, Waiting)
           /\ ~Waiting => Wake(mailbox, timers, FALSE)
           /\ Waiting \in BOOLEAN
<1>1. Wake(mailbox, timers, Waiting)
  BY WakeIsOneWakeUp DEF WakeInv
<1> QED  BY <1>1 DEF Wake, Waiting

\* Every way to connect keeps the wake-ups right.
LEMMA ConnectWake ==
    ASSUME WakeInv, Connect
    PROVE  OneWakeUp' /\ EventsEnd'
<1>0. TypeOK /\ Wake(mailbox, timers, FALSE)
  <2>1. pc = "connect"
    BY DEF Connect, ConnectRefusedByConfig, ConnectFails, ConnectSendFails, ConnectOpens,
           InjectedReplies, Connecting
  <2> QED  BY <2>1, WakeNow DEF WakeInv, Alive, Waiting
<1>1. CASE ConnectRefusedByConfig
  BY <1>0, <1>1, DownOutcome, GoneWake DEF ConnectRefusedByConfig
<1>2. CASE ConnectFails
  BY <1>0, <1>2, ReconnectWake DEF ConnectFails
<1>3. CASE ConnectSendFails
  BY <1>0, <1>3, ReconnectWake DEF ConnectSendFails
<1>4. CASE ConnectOpens
  <2>1. PICK s \in FreshSockets :
           state' = [state EXCEPT !.socket = s, !.machine = "handshake"]
    BY <1>4 DEF ConnectOpens
  <2>2. state'.socket = s /\ s # NoSocket
    BY <1>0, <2>1, ConstantsAssumption DEF TypeOK, States, FreshSockets
  <2>3. Wake(mailbox, timers', FALSE)
    BY <1>0, <1>4, SendAfterWake DEF ConnectOpens, schedule_stall
  <2>4. ~Waiting' /\ EventsEnd' /\ mailbox' = mailbox
    BY <1>4, <2>2 DEF Waiting, EventsEnd, ConnectOpens
  <2> QED  BY <2>3, <2>4, WakeNext
<1>5. CASE InjectedReplies
  <2>1. PICK evs \in PushEvents("handshake") : events' = Append(evs, "run_ended")
    BY <1>5 DEF InjectedReplies
  <2>2. events' # <<>> /\ events'[Len(events')] = "run_ended"
    BY <2>1, PushType
  <2>3. ~Waiting' /\ EventsEnd'
    BY <2>2 DEF Waiting, EventsEnd
  <2> QED  BY <1>0, <1>5, <2>3, WakeNext DEF InjectedReplies
<1> QED  BY <1>1, <1>2, <1>3, <1>4, <1>5 DEF Connect

\* Every handle_info/2 clause keeps the wake-ups right.
LEMMA HandleInfoWake ==
    ASSUME WakeInv, HandleInfo
    PROVE  OneWakeUp' /\ EventsEnd'
<1>0. /\ TypeOK /\ mailbox \in Mails /\ mailbox # <<>> /\ pc = "run" /\ events = <<>>
      /\ Waiting \in BOOLEAN
      /\ Wake(mailbox, timers, Waiting)
      /\ ~Waiting => Wake(mailbox, timers, FALSE)
  <2>1. mailbox # <<>> /\ pc = "run" /\ events = <<>>
    BY DEF HandleInfo, HandleData, HandleForeignData, HandleSocketError, HandleClosed,
           HandleForeignClosed, HandleStallCheckUnconnected, HandleStallCheck,
           HandleConnectAfterBackoff, HandleGgaTick, HandleStaleGgaTick, Receives
  <2> QED  BY <2>1, WakeNow DEF WakeInv, Alive, TypeOK, Mails
<1>T. /\ Head(mailbox).kind # "connect" =>
           /\ Wake(Tail(mailbox), timers, Waiting)
           /\ ~Waiting => Wake(Tail(mailbox), timers, FALSE)
  BY <1>0, WakeTail
<1>D. Dropped => (Waiting' <=> Waiting) /\ EventsEnd'
  BY <1>0 DEF Dropped, Waiting, EventsEnd
<1>1. CASE HandleData
  <2>1. Head(mailbox).kind = "data" /\ state.socket \in Sockets
    BY <1>0, <1>1 DEF HandleData, Receives, Current, Mails, SocketMessages, TimerMessages
  <2>2. state.socket # NoSocket /\ ~Waiting
    BY <2>1, ConstantsAssumption DEF Waiting
  <2>3. state'.socket = state.socket
    BY <1>0, <1>1 DEF HandleData, TypeOK, States
  <2>4. ~Waiting' /\ EventsEnd'
    BY <2>2, <2>3 DEF Waiting, EventsEnd
  <2> QED  BY <1>1, <1>T, <2>1, <2>2, <2>4, WakeNext DEF HandleData
<1>2. CASE HandleForeignData \/ HandleSocketError
  BY <1>0, <1>2, DownOutcome, GoneWake DEF HandleForeignData, HandleSocketError
<1>3. CASE HandleClosed
  <2>1. Head(mailbox).kind = "closed" /\ state.socket \in Sockets
    BY <1>0, <1>3 DEF HandleClosed, Receives, Current, Mails, SocketMessages, TimerMessages
  <2>2. ~Waiting
    BY <2>1, ConstantsAssumption DEF Waiting
  <2>3. PICK evs \in FinishEvents(state.machine) : events' = Append(evs, "stream_ended")
    BY <1>3 DEF HandleClosed
  <2>4. events' # <<>> /\ events'[Len(events')] = "stream_ended"
    BY <2>3, FinishType
  <2>5. ~Waiting' /\ EventsEnd'
    BY <2>4 DEF Waiting, EventsEnd
  <2> QED  BY <1>3, <1>T, <2>1, <2>2, <2>5, WakeNext DEF HandleClosed
<1>4. CASE HandleForeignClosed \/ HandleStallCheckUnconnected \/ HandleStaleGgaTick
  <2>1. Head(mailbox).kind # "connect" /\ Dropped
    BY <1>4 DEF HandleForeignClosed, HandleStallCheckUnconnected, HandleStaleGgaTick, Receives
  <2> QED  BY <1>0, <1>T, <1>D, <2>1, WakeNext DEF Dropped
<1>5. CASE HandleStallCheck
  <2>1. Head(mailbox).kind # "connect" /\ ~Waiting /\ Wake(Tail(mailbox), timers, FALSE)
    BY <1>5, <1>T DEF HandleStallCheck, Receives, Waiting
  <2>2. CASE Abandon(Tail(mailbox))
    BY <1>0, <2>1, <2>2, ReconnectWake DEF Abandon
  <2>3. CASE schedule_stall /\ mailbox' = Tail(mailbox)
             /\ UNCHANGED <<opts, pc, events, state, open, active, sink>>
    <3>1. Wake(Tail(mailbox), timers', FALSE)
      BY <2>1, <2>3, SendAfterWake DEF schedule_stall
    <3>2. ~Waiting' /\ EventsEnd'
      BY <1>0, <2>1, <2>3 DEF Waiting, EventsEnd
    <3> QED  BY <2>3, <3>1, <3>2, WakeNext
  <2> QED  BY <1>5, <2>2, <2>3 DEF HandleStallCheck
<1>6. CASE HandleConnectAfterBackoff
  <2>1. Wake(Tail(mailbox), timers, FALSE)
    BY <1>0, <1>6, WakeTaken DEF HandleConnectAfterBackoff, Receives
  <2>2. ~Waiting' /\ EventsEnd'
    BY <1>0, <1>6 DEF HandleConnectAfterBackoff, Waiting, EventsEnd
  <2> QED  BY <1>6, <2>1, <2>2, WakeNext DEF HandleConnectAfterBackoff
<1>7. CASE HandleGgaTick
  <2>1. Head(mailbox).kind # "connect"
    BY <1>7 DEF HandleGgaTick, Receives
  <2>2. CASE GgaFails(Tail(mailbox))
    <3>1. ~Waiting
      BY <2>2 DEF GgaFails, Waiting
    <3> QED  BY <1>0, <1>T, <2>1, <2>2, <3>1, GgaFailsWake
  <2>3. CASE schedule_gga /\ mailbox' = Tail(mailbox)
             /\ UNCHANGED <<opts, pc, events, open, active, sink>>
    <3>1. Wake(Tail(mailbox), timers', Waiting) /\ state'.socket = state.socket
      BY <1>0, <1>T, <2>1, <2>3, ScheduleGgaWake
    <3>2. (Waiting' <=> Waiting) /\ EventsEnd'
      BY <1>0, <2>3, <3>1 DEF Waiting, EventsEnd
    <3> QED  BY <1>0, <2>3, <3>1, <3>2, WakeNext
  <2> QED  BY <1>7, <2>2, <2>3 DEF HandleGgaTick
<1> QED  BY <1>1, <1>2, <1>3, <1>4, <1>5, <1>6, <1>7 DEF HandleInfo

\* The tail of a sequence of at least two ends in the same element.
LEMMA TailLast ==
    ASSUME NEW S, NEW s \in Seq(S), Len(s) > 1
    PROVE  Tail(s) # <<>> /\ Tail(s)[Len(Tail(s))] = s[Len(s)]
<1> DEFINE t == Tail(s)
<1>1. t \in Seq(S) /\ Len(t) = Len(s) - 1 /\ Len(s) \in Nat
  OBVIOUS
<1>2. t[Len(s) - 1] = s[Len(s)]
  OBVIOUS
<1> HIDE DEF t
<1>3. t # <<>>
  BY <1>1
<1>4. t[Len(t)] = s[Len(s)]
  BY <1>1, <1>2
<1> QED  BY <1>3, <1>4 DEF t

\* An event that is not the last leaves another one, or a socket.
LEMMA EventDoneWake ==
    ASSUME TypeOK, EventsEnd, NEW e \in {"connected", "payload", "sourcetable"},
           NextEvent(e), EventDone, state'.socket = state.socket
    PROVE  ~Waiting' /\ EventsEnd'
<1>1. events \in Seq(Events) /\ events # <<>> /\ events[1] = e /\ events' = Tail(events)
  BY DEF TypeOK, NextEvent, EventDone
<1>2. CASE state.socket # NoSocket
  BY <1>2 DEF Waiting, EventsEnd
<1>3. CASE state.socket = NoSocket
  <2>1. events[Len(events)] \in {"stream_ended", "run_ended"}
    BY <1>1, <1>3 DEF EventsEnd
  <2>2. Len(events) \in Nat /\ Len(events) > 1
    BY <1>1, <2>1
  <2>3. Tail(events) # <<>> /\ Tail(events)[Len(Tail(events))] = events[Len(events)]
    BY <1>1, <2>2, TailLast
  <2> QED  BY <1>1, <2>1, <2>3 DEF Waiting, EventsEnd
<1> QED  BY <1>2, <1>3

\* Every handle_event/2 clause keeps the wake-ups right.
LEMMA HandleEventWake ==
    ASSUME WakeInv, HandleEvent
    PROVE  OneWakeUp' /\ EventsEnd'
<1>0. TypeOK /\ EventsEnd /\ Wake(mailbox, timers, FALSE)
  <2>1. pc = "run" /\ events # <<>>
    BY DEF HandleEvent, EventConnected, EventPayload, EventSourcetable, EventTerminal,
           EventStreamLost, NextEvent
  <2>2. Alive /\ ~Waiting
    BY <2>1 DEF Alive, Waiting
  <2> QED  BY <2>2, WakeNow DEF WakeInv
<1>1. CASE down
  BY <1>0, <1>1, DownOutcome, GoneWake
<1>2. CASE Abandon(mailbox)
  BY <1>0, <1>2, ReconnectWake DEF Abandon
<1>3. CASE EventConnected
  <2>1. CASE GgaFails(mailbox)
    BY <1>0, <2>1, GgaFailsWake
  <2>2. CASE schedule_gga /\ EventDone
    <3>1. Wake(mailbox, timers', FALSE) /\ state'.socket = state.socket
      BY <1>0, <2>2, ScheduleGgaWake
    <3>2. ~Waiting' /\ EventsEnd'
      BY <1>0, <1>3, <2>2, <3>1, EventDoneWake DEF EventConnected
    <3> QED  BY <2>2, <3>1, <3>2, WakeNext DEF EventDone
  <2> QED  BY <1>3, <2>1, <2>2 DEF EventConnected
<1>4. ASSUME NEW e \in {"payload", "sourcetable"}, NextEvent(e), NEW m, Delivered(m)
      PROVE  OneWakeUp' /\ EventsEnd'
  <2>1. ~Waiting' /\ EventsEnd'
    BY <1>0, <1>4, EventDoneWake DEF Delivered
  <2> QED  BY <1>0, <1>4, <2>1, WakeNext DEF Delivered, EventDone
<1>5. CASE EventPayload
  BY <1>1, <1>4, <1>5 DEF EventPayload
<1>6. CASE EventSourcetable
  BY <1>1, <1>4, <1>6 DEF EventSourcetable
<1> QED  BY <1>1, <1>2, <1>3, <1>5, <1>6 DEF HandleEvent, EventTerminal, EventStreamLost

\* A message from a socket is no wake-up.
LEMMA KernelWake ==
    ASSUME WakeInv, NEW s \in Sockets, PeerData(s) \/ PeerCloses(s) \/ SocketFails(s)
    PROVE  OneWakeUp' /\ EventsEnd'
<1>0. mailbox \in Mails
  BY DEF WakeInv, TypeOK, Mails
<1>1. \A k \in {"data", "closed", "error"} :
         SocketMessage(k, s) \in SocketMessages /\ SocketMessage(k, s).kind # "connect"
  BY DEF SocketMessage, SocketMessages
<1>2. (Waiting' <=> Waiting) /\ (Alive' <=> Alive) /\ EventsEnd' /\ timers' = timers
  BY DEF PeerData, PeerCloses, SocketFails, Arrives, Waiting, Alive, EventsEnd, WakeInv
<1>3. CASE ~Alive
  <2>1. ~Alive'
    BY <1>2, <1>3
  <2> QED  BY <1>2, <2>1 DEF OneWakeUp
<1>4. CASE Alive
  <2>0. Wake(mailbox, timers, Waiting) /\ Waiting \in BOOLEAN
    BY <1>4, WakeNow
  <2>1. ASSUME NEW k \in {"data", "closed", "error"}, NEW mb \in Mails,
               Wake(mb, timers, Waiting)
        PROVE  /\ Wake(Append(mb, SocketMessage(k, s)), timers, Waiting)
               /\ Append(mb, SocketMessage(k, s)) \in Mails
               /\ mb \o <<SocketMessage(k, s)>> = Append(mb, SocketMessage(k, s))
    <3> DEFINE m == SocketMessage(k, s)
    <3>1. m \in SocketMessages /\ m.kind # "connect"
      BY <1>1
    <3> HIDE DEF m
    <3>2. Wake(Append(mb, m), timers, Waiting)
      BY <2>0, <2>1, <3>1, WakeAppend
    <3>3. Append(mb, m) \in Mails /\ mb \o <<m>> = Append(mb, m)
      BY <3>1 DEF Mails
    <3> QED  BY <3>2, <3>3 DEF m
  <2>2. CASE PeerData(s)
    BY <1>0, <1>2, <2>0, <2>1, <2>2, WakeNext DEF PeerData, Arrives
  <2>3. CASE PeerCloses(s)
    BY <1>0, <1>2, <2>0, <2>1, <2>3, WakeNext DEF PeerCloses, Arrives
  <2>4. CASE SocketFails(s)
    <3> DEFINE a == SocketMessage("error", s)
               b == SocketMessage("closed", s)
    <3>1. Wake(Append(mailbox, a), timers, Waiting) /\ Append(mailbox, a) \in Mails
      BY <1>0, <2>0, <2>1
    <3>2. Wake(Append(Append(mailbox, a), b), timers, Waiting)
      BY <2>1, <3>1
    <3>3. a \in SocketMessages /\ b \in SocketMessages
      BY <1>1
    <3> HIDE DEF a, b
    <3>4. mailbox \o <<a, b>> = Append(Append(mailbox, a), b)
      BY <1>0, <3>3 DEF Mails
    <3>5. mailbox' = mailbox \o <<a, b>>
      BY <2>4 DEF SocketFails, Arrives, a, b
    <3> QED  BY <1>2, <2>0, <3>2, <3>4, <3>5, WakeNext
  <2> QED  BY <2>2, <2>3, <2>4
<1> QED  BY <1>3, <1>4

\* Time and timers keep the wake-ups right.
LEMMA ClockWake ==
    ASSUME WakeInv, Clock
    PROVE  OneWakeUp' /\ EventsEnd'
<1>0. mailbox \in Mails /\ timers \in SUBSET Timers /\ state \in States
  BY DEF WakeInv, TypeOK, Mails
<1>1. CASE Tick
  <2>1. Alive /\ Wake(mailbox, timers, Waiting) /\ Waiting \in BOOLEAN
    BY <1>1, WakeNow DEF Tick
  <2>2. state'.socket = state.socket
    BY <1>0, <1>1 DEF Tick, States
  <2>3. (Waiting' <=> Waiting) /\ EventsEnd'
    BY <1>1, <2>2 DEF Tick, Waiting, EventsEnd, WakeInv
  <2>4. Wake(mailbox', timers', Waiting)
    BY <1>0, <1>1, <2>1, WakeTick DEF Tick
  <2> QED  BY <2>1, <2>3, <2>4, WakeNext
<1>2. CASE \E t \in timers : Fire(t)
  <2>1. PICK t \in timers : Fire(t)
    BY <1>2
  <2>2. (Waiting' <=> Waiting) /\ (Alive' <=> Alive) /\ EventsEnd'
    BY <2>1 DEF Fire, Waiting, Alive, EventsEnd, WakeInv
  <2>3. CASE ~Alive
    <3>1. ~Alive'
      BY <2>2, <2>3
    <3> QED  BY <2>2, <3>1 DEF OneWakeUp
  <2>4. CASE Alive
    <3>1. Wake(mailbox, timers, Waiting) /\ Waiting \in BOOLEAN
      BY <2>4, WakeNow
    <3>2. Wake(mailbox', timers', Waiting)
      BY <1>0, <2>1, <3>1, WakeFired DEF Fire
    <3> QED  BY <2>2, <3>1, <3>2, WakeNext
  <2> QED  BY <2>3, <2>4
<1> QED  BY <1>1, <1>2 DEF Clock

\* The invariant holds at first.
LEMMA WakeInit == Init => WakeInv
<1> SUFFICES ASSUME Init PROVE WakeInv
  OBVIOUS
<1>1. TypeOK
  BY InitType
<1> QED  BY <1>1 DEF Init, WakeInv, OneWakeUp, EventsEnd, Waiting, ConnectTimers, ConnectsQueued

\* Every step keeps the invariant.
LEMMA WakeStep == WakeInv /\ [Next]_vars => WakeInv'
<1> SUFFICES ASSUME WakeInv, [Next]_vars PROVE WakeInv'
  OBVIOUS
<1>0. TypeOK'
  BY TypeStep DEF WakeInv
<1>1. CASE Process
  BY <1>0, <1>1, ConnectWake, HandleInfoWake, HandleEventWake DEF Process, WakeInv
<1>2. CASE Kernel
  BY <1>0, <1>2, KernelWake DEF Kernel, WakeInv
<1>3. CASE Clock
  BY <1>0, <1>3, ClockWake DEF WakeInv
<1>4. CASE UNCHANGED vars
  BY <1>0, <1>4 DEF vars, WakeInv, OneWakeUp, EventsEnd, Waiting, Alive,
                    ConnectTimers, ConnectsQueued
<1> QED  BY <1>1, <1>2, <1>3, <1>4 DEF Next, Ended

\* A stream without a connection always has exactly one wake-up on its way, and
\* a stream with one never has any: no reconnect is lost and none is doubled.
THEOREM OneWakeUpAlways == Spec => []OneWakeUp
<1>1. WakeInv => OneWakeUp
  BY DEF WakeInv
<1> QED  BY WakeInit, WakeStep, <1>1, PTL DEF Spec

-----------------------------------------------------------------------------
(* The contract with the sink.  The process is "trying" except while it     *)
(* waits for its wake-up; every handler is then a step of StreamContract or *)
(* changes nothing the sink can see.                                        *)

Trying == Alive /\ ~Waiting

\* What the sink can see does not change.
Unseen ==
    /\ opts' = opts /\ sink' = sink /\ state'.attempt = state.attempt
    /\ Alive' <=> Alive
    /\ Waiting' <=> Waiting

\* A step the sink cannot see is a stuttering step of the contract.
LEMMA UnseenStutters == Unseen => UNCHANGED Contract!contractVars
BY DEF Unseen, Contract!contractVars

\* A process that ends is not alive.
LEMMA TerminateEnds ==
    ASSUME NEW how \in {"stopped", "crashed"}, Terminate(how)
    PROVE  ~Alive' /\ opts' = opts
BY DEF Terminate, Alive

\* down/2 of a stream that is trying.
LEMMA DownContract ==
    ASSUME TypeOK, Trying, down
    PROVE  Contract!GoDown
<1>1. ~Alive' /\ opts' = opts
  BY TerminateEnds DEF down
<1>2. state'.attempt = state.attempt
  BY UnconnectedState DEF down, TypeOK
<1> QED  BY <1>1, <1>2 DEF Trying, down, Contract!GoDown

\* An exception no clause handles, in whatever phase.
LEMMA CrashContract ==
    ASSUME TypeOK, Alive, crash
    PROVE  Contract!Die
<1>1. ~Alive' /\ opts' = opts
  BY TerminateEnds DEF crash
<1>2. state'.attempt = state.attempt /\ sink' = sink
  BY UnconnectedState DEF crash, TypeOK
<1> QED  BY <1>1, <1>2 DEF Contract!Die

\* reconnect/2 of a stream that is trying: down, the next announcement, or an
\* announcement whose delay cannot be computed.
LEMMA ReconnectContract ==
    ASSUME TypeOK, Trying, NEW rest, NEW held, reconnect(rest, held)
    PROVE  Contract!ContractNext
<1>1. CASE down
  BY <1>1, DownContract DEF Contract!ContractNext
<1>2. CASE ~Exhausted /\ ~down
  <2>1. sink' = "reconnecting"
    BY <1>2 DEF reconnect
  <2>2. state'.attempt = state.attempt + 1 /\ state'.socket = NoSocket
    <3> DEFINE st == Unconnected(state)
    <3>1. st \in States /\ st.attempt = state.attempt /\ st.socket = NoSocket
      BY UnconnectedState DEF TypeOK
    <3>2. state' = [st EXCEPT !.attempt = @ + 1, !.machine = "handshake"]
      BY <1>2 DEF reconnect
    <3> HIDE DEF st
    <3> QED  BY <3>1, <3>2 DEF States
  <2>3. opts.max_reconnects = Unlimited \/ state.attempt < opts.max_reconnects
    BY <1>2, ConstantsAssumption DEF Exhausted, TypeOK, States, OptionType
  <2>4. CASE Terminate("crashed")
    <3>1. ~Alive' /\ opts' = opts
      BY <2>4, TerminateEnds
    <3> QED  BY <2>1, <2>2, <3>1 DEF Trying, Contract!ContractNext, Contract!Die
  <2>5. CASE pc' = "run" /\ events' = <<>> /\ UNCHANGED opts
    <3>1. Alive' /\ Waiting'
      BY <2>2, <2>5 DEF Alive, Waiting
    <3> QED  BY <2>1, <2>2, <2>3, <2>5, <3>1 DEF Trying, Contract!ContractNext, Contract!Announce
  <2> QED  BY <1>2, <2>4, <2>5 DEF reconnect
<1> QED  BY <1>1, <1>2 DEF reconnect

\* Every way to connect is a step of the contract.
LEMMA ConnectContract ==
    ASSUME TypeOK, Connect
    PROVE  Contract!ContractNext \/ Unseen
<1>0. Trying /\ pc = "connect"
  BY DEF Connect, ConnectRefusedByConfig, ConnectFails, ConnectSendFails, ConnectOpens,
         InjectedReplies, Connecting, Trying, Alive, Waiting
<1>1. CASE ConnectRefusedByConfig
  BY <1>0, <1>1, DownContract DEF ConnectRefusedByConfig, Contract!ContractNext
<1>2. CASE ConnectFails \/ ConnectSendFails
  BY <1>0, <1>2, ReconnectContract DEF ConnectFails, ConnectSendFails
<1>3. CASE ConnectOpens
  <2>1. PICK s \in FreshSockets :
           state' = [state EXCEPT !.socket = s, !.machine = "handshake"]
    BY <1>3 DEF ConnectOpens
  <2>2. state'.socket # NoSocket /\ state'.attempt = state.attempt
    BY <2>1, ConstantsAssumption DEF TypeOK, States, FreshSockets
  <2> QED  BY <1>0, <1>3, <2>2 DEF ConnectOpens, Unseen, Trying, Alive, Waiting
<1>4. CASE InjectedReplies
  <2>1. PICK evs \in PushEvents("handshake") :
           /\ events' = Append(evs, "run_ended")
           /\ state' = [state EXCEPT !.machine = MachineAfter("handshake", evs)]
    BY <1>4 DEF InjectedReplies
  <2>2. events' # <<>>
    BY <2>1, PushType
  <2>3. state'.attempt = state.attempt
    BY <2>1 DEF TypeOK, States
  <2> QED  BY <1>0, <1>4, <2>2, <2>3 DEF InjectedReplies, Unseen, Trying, Alive, Waiting
<1> QED  BY <1>1, <1>2, <1>3, <1>4 DEF Connect

\* A GGA sentence that cannot be sent is a step of the contract.
LEMMA GgaFailsContract ==
    ASSUME TypeOK, pc = "run", NEW rest, GgaFails(rest)
    PROVE  Contract!ContractNext
<1>1. Trying
  BY DEF GgaFails, Trying, Alive, Waiting
<1>2. CASE down
  BY <1>1, <1>2, DownContract DEF Contract!ContractNext
<1>3. CASE Abandon(rest)
  BY <1>1, <1>3, ReconnectContract DEF Abandon
<1> QED  BY <1>2, <1>3 DEF GgaFails

\* schedule_gga/1 shows the sink nothing.
LEMMA ScheduleGgaState ==
    ASSUME TypeOK, schedule_gga
    PROVE  state'.attempt = state.attempt /\ state'.socket = state.socket
BY DEF schedule_gga, TypeOK, States

\* Every handle_info/2 clause is a step of the contract; it is OneWakeUp that
\* makes :connect_after_backoff the retry of a stream that waits.
LEMMA HandleInfoContract ==
    ASSUME WakeInv, HandleInfo
    PROVE  Contract!ContractNext \/ Unseen
<1>0. TypeOK /\ mailbox # <<>> /\ pc = "run" /\ events = <<>> /\ Alive
  <2>1. mailbox # <<>> /\ pc = "run" /\ events = <<>>
    BY DEF HandleInfo, HandleData, HandleForeignData, HandleSocketError, HandleClosed,
           HandleForeignClosed, HandleStallCheckUnconnected, HandleStallCheck,
           HandleConnectAfterBackoff, HandleGgaTick, HandleStaleGgaTick, Receives
  <2> QED  BY <2>1 DEF WakeInv, Alive
<1>1. CASE HandleData
  <2>1. state.socket # NoSocket
    BY <1>0, <1>1, ConstantsAssumption, SMTT(30)
       DEF HandleData, Receives, Current, TypeOK, SocketMessages, TimerMessages
  <2>2. state'.socket = state.socket /\ state'.attempt = state.attempt
    BY <1>0, <1>1 DEF HandleData, TypeOK, States
  <2> QED  BY <1>0, <1>1, <2>1, <2>2 DEF HandleData, Unseen, Alive, Waiting
<1>2. CASE HandleForeignData \/ HandleSocketError
  BY <1>0, <1>2, CrashContract DEF HandleForeignData, HandleSocketError, Contract!ContractNext
<1>3. CASE HandleClosed
  <2>1. state.socket # NoSocket
    BY <1>0, <1>3, ConstantsAssumption, SMTT(30)
       DEF HandleClosed, Receives, Current, TypeOK, SocketMessages, TimerMessages
  <2>2. PICK evs \in FinishEvents(state.machine) :
           /\ events' = Append(evs, "stream_ended")
           /\ state' = [Unconnected(state) EXCEPT !.machine = MachineAfter(@, evs)]
    BY <1>3 DEF HandleClosed
  <2>3. events' # <<>>
    BY <2>2, FinishType
  <2>4. state'.attempt = state.attempt
    <3> DEFINE st == Unconnected(state)
    <3>1. st \in States /\ st.attempt = state.attempt
      BY <1>0, UnconnectedState DEF TypeOK
    <3>2. state' = [st EXCEPT !.machine = MachineAfter(@, evs)]
      BY <2>2
    <3> HIDE DEF st
    <3> QED  BY <3>1, <3>2 DEF States
  <2> QED  BY <1>0, <1>3, <2>1, <2>3, <2>4 DEF HandleClosed, Unseen, Alive, Waiting
<1>4. CASE HandleForeignClosed \/ HandleStallCheckUnconnected \/ HandleStaleGgaTick
  BY <1>4 DEF HandleForeignClosed, HandleStallCheckUnconnected, HandleStaleGgaTick,
              Dropped, Unseen, Alive, Waiting
<1>5. CASE HandleStallCheck
  <2>1. Trying
    BY <1>0, <1>5 DEF HandleStallCheck, Trying, Waiting
  <2>2. CASE Abandon(Tail(mailbox))
    BY <1>0, <2>1, <2>2, ReconnectContract DEF Abandon
  <2>3. CASE UNCHANGED <<opts, pc, events, state, open, active, sink>>
    BY <2>3 DEF Unseen, Alive, Waiting
  <2> QED  BY <1>5, <2>2, <2>3 DEF HandleStallCheck
<1>6. CASE HandleConnectAfterBackoff
  <2>1. 1 \in ConnectsQueued
    BY <1>0, <1>6 DEF HandleConnectAfterBackoff, Receives, ConnectsQueued, TypeOK
  <2>2. Waiting
    BY <1>0, <2>1 DEF WakeInv, OneWakeUp
  <2>3. Alive' /\ ~Waiting'
    BY <1>6 DEF HandleConnectAfterBackoff, Alive, Waiting
  <2> QED  BY <1>0, <1>6, <2>2, <2>3
           DEF HandleConnectAfterBackoff, Contract!ContractNext, Contract!Retry
<1>7. CASE HandleGgaTick
  <2>1. CASE GgaFails(Tail(mailbox))
    BY <1>0, <2>1, GgaFailsContract
  <2>2. CASE schedule_gga /\ UNCHANGED <<opts, pc, events, open, active, sink>>
    BY <1>0, <2>2, ScheduleGgaState DEF Unseen, Alive, Waiting
  <2> QED  BY <1>7, <2>1, <2>2 DEF HandleGgaTick
<1> QED  BY <1>1, <1>2, <1>3, <1>4, <1>5, <1>6, <1>7 DEF HandleInfo

\* Every handle_event/2 clause is a step of the contract: while a chunk is in
\* hand the stream is trying, and it is still when the chunk is done.
LEMMA HandleEventContract ==
    ASSUME WakeInv, HandleEvent
    PROVE  Contract!ContractNext \/ Unseen
<1>0. TypeOK /\ EventsEnd /\ pc = "run" /\ Trying
  BY DEF WakeInv, HandleEvent, EventConnected, EventPayload, EventSourcetable, EventTerminal,
         EventStreamLost, NextEvent, Trying, Alive, Waiting
<1>1. CASE down
  BY <1>0, <1>1, DownContract DEF Contract!ContractNext
<1>2. CASE Abandon(mailbox)
  BY <1>0, <1>2, ReconnectContract DEF Abandon
<1>3. CASE EventConnected
  <2>1. CASE GgaFails(mailbox)
    BY <1>0, <2>1, GgaFailsContract
  <2>2. CASE schedule_gga /\ EventDone /\ UNCHANGED sink
    <3>1. state'.attempt = state.attempt /\ state'.socket = state.socket
      BY <1>0, <2>2, ScheduleGgaState
    <3>2. ~Waiting'
      BY <1>0, <1>3, <2>2, <3>1, EventDoneWake DEF EventConnected
    <3> QED  BY <1>0, <2>2, <3>1, <3>2 DEF EventDone, Unseen, Trying, Alive
  <2> QED  BY <1>3, <2>1, <2>2 DEF EventConnected
<1>4. ASSUME NEW e \in {"payload", "sourcetable"}, NextEvent(e),
             NEW m \in {"payload", "sourcetable", sink}, Delivered(m)
      PROVE  Contract!ContractNext \/ Unseen
  <2>1. ~Waiting' /\ pc' = pc /\ opts' = opts /\ state' = state /\ sink' = m
    BY <1>0, <1>4, EventDoneWake DEF Delivered, EventDone
  <2>2. Alive' /\ (Alive' <=> Alive) /\ (Waiting' <=> Waiting)
    BY <1>0, <2>1 DEF Trying, Alive
  <2>3. CASE m = sink
    BY <2>1, <2>2, <2>3 DEF Unseen
  <2>4. CASE m \in {"payload", "sourcetable"}
    BY <1>0, <2>1, <2>2, <2>4 DEF Trying, Contract!ContractNext, Contract!Deliver
  <2> QED  BY <2>3, <2>4
<1>5. CASE EventPayload
  BY <1>1, <1>4, <1>5 DEF EventPayload
<1>6. CASE EventSourcetable
  BY <1>1, <1>4, <1>6 DEF EventSourcetable
<1> QED  BY <1>1, <1>2, <1>3, <1>5, <1>6 DEF HandleEvent, EventTerminal, EventStreamLost

\* The kernel, the caster and the clock show the sink nothing by themselves.
LEMMA AroundContract ==
    ASSUME TypeOK, Kernel \/ Clock
    PROVE  Unseen
<1>1. CASE Kernel
  BY <1>1 DEF Kernel, PeerData, PeerCloses, SocketFails, Arrives, Unseen, Alive, Waiting
<1>2. CASE Tick
  <2>1. state'.socket = state.socket /\ state'.attempt = state.attempt
    BY <1>2 DEF Tick, TypeOK, States
  <2> QED  BY <1>2, <2>1 DEF Tick, Unseen, Alive, Waiting
<1>3. CASE \E t \in timers : Fire(t)
  BY <1>3 DEF Fire, Unseen, Alive, Waiting
<1> QED  BY <1>1, <1>2, <1>3 DEF Clock

\* Every step is a step of the contract or one the sink cannot see.
LEMMA ContractStep == WakeInv /\ [Next]_vars => [Contract!ContractNext]_(Contract!contractVars)
<1> SUFFICES ASSUME WakeInv, [Next]_vars PROVE Contract!ContractNext \/ Unseen
  BY UnseenStutters
<1>1. CASE Process
  BY <1>1, ConnectContract, HandleInfoContract, HandleEventContract DEF Process, WakeInv
<1>2. CASE Kernel \/ Clock
  BY <1>2, AroundContract DEF WakeInv
<1>3. CASE UNCHANGED vars
  BY <1>3 DEF vars, Unseen, Alive, Waiting
<1> QED  BY <1>1, <1>2, <1>3 DEF Next, Ended

\* A stream starts as the contract says.
LEMMA ContractStart == Init => Contract!ContractInit
<1> SUFFICES ASSUME Init PROVE Contract!ContractInit
  OBVIOUS
<1>1. Alive /\ ~Waiting
  BY DEF Init, Alive, Waiting
<1>2. opts.max_reconnects \in Nat \cup {Unlimited}
  BY ConstantsAssumption DEF Init, OptionType
<1> QED  BY <1>1, <1>2 DEF Init, Contract!ContractInit

\* The stream process implements its contract with the sink: reconnects are
\* announced one by one and within max_reconnects, a stream that waits does
\* nothing but retry, and nothing follows {:down, reason}, whatever sockets,
\* timers and mailbox do underneath.
THEOREM StreamImplementsContract == Spec => ImplementsContract
<1>1. Spec => []WakeInv
  BY WakeInit, WakeStep, PTL DEF Spec
<1> QED  BY <1>1, ContractStart, ContractStep, PTL
         DEF Spec, ImplementsContract, Contract!ContractSpec

-----------------------------------------------------------------------------
(* Messages.  A message on its way, in the mailbox or in a timer, stays on  *)
(* its way until a handler takes it or the process ends.                    *)

OnItsWay(mb, tm, m) == (\E i \in DOMAIN mb : mb[i] = m) \/ (\E t \in tm : t.msg = m)

\* What Pending collects.
LEMMA PendingMessage ==
    ASSUME NEW m
    PROVE  /\ m \in Pending <=> OnItsWay(mailbox, timers, m)
           /\ m \in Pending' <=> OnItsWay(mailbox', timers', m)
BY DEF Pending, Queued, OnItsWay

\* Taking another message leaves it there.
LEMMA TailKeeps ==
    ASSUME NEW mb \in Mails, NEW tm, NEW m, mb # <<>>, Head(mb) # m, OnItsWay(mb, tm, m)
    PROVE  OnItsWay(Tail(mb), tm, m)
<1>1. CASE \E t \in tm : t.msg = m
  BY <1>1 DEF OnItsWay
<1>2. CASE \E i \in DOMAIN mb : mb[i] = m
  <2>1. PICK i \in 1..Len(mb) : mb[i] = m
    BY <1>2 DEF Mails
  <2>2. i # 1
    BY <2>1 DEF Mails
  <2>3. i - 1 \in DOMAIN Tail(mb) /\ Tail(mb)[i - 1] = m
    BY <2>1, <2>2 DEF Mails
  <2> QED  BY <2>3 DEF OnItsWay
<1> QED  BY <1>1, <1>2 DEF OnItsWay

\* So do the messages that arrive behind it.
LEMMA AppendKeeps ==
    ASSUME NEW mb \in Mails, NEW tm, NEW m, NEW x \in SocketMessages \cup TimerMessages,
           OnItsWay(mb, tm, m)
    PROVE  OnItsWay(Append(mb, x), tm, m) /\ Append(mb, x) \in Mails
<1>1. Append(mb, x) \in Mails
  BY DEF Mails
<1>2. \A i \in DOMAIN mb : i \in DOMAIN Append(mb, x) /\ Append(mb, x)[i] = mb[i]
  BY DEF Mails
<1> QED  BY <1>1, <1>2 DEF OnItsWay

\* And new timers.
LEMMA TimersKeep ==
    ASSUME NEW mb, NEW tm, NEW more, tm \subseteq more, NEW m, OnItsWay(mb, tm, m)
    PROVE  OnItsWay(mb, more, m)
BY DEF OnItsWay

\* A timer that fires puts its message into the mailbox.
LEMMA FireKeeps ==
    ASSUME NEW mb \in Mails, NEW tm \in SUBSET Timers, NEW t \in tm, NEW m, OnItsWay(mb, tm, m)
    PROVE  OnItsWay(Append(mb, t.msg), tm \ {t}, m)
<1>0. t.msg \in SocketMessages \cup TimerMessages
  BY DEF Timers
<1>1. CASE t.msg = m
  <2>1. Len(mb) + 1 \in DOMAIN Append(mb, t.msg) /\ Append(mb, t.msg)[Len(mb) + 1] = m
    BY <1>0, <1>1 DEF Mails
  <2> QED  BY <2>1 DEF OnItsWay
<1>2. CASE t.msg # m
  <2>1. OnItsWay(mb, tm \ {t}, m)
    BY <1>2 DEF OnItsWay
  <2> QED  BY <1>0, <2>1, AppendKeeps
<1> QED  BY <1>1, <1>2

\* Time leaves the messages of the timers alone.
LEMMA TickKeeps ==
    ASSUME NEW mb, NEW tm \in SUBSET Timers, NEW m, OnItsWay(mb, tm, m)
    PROVE  OnItsWay(mb, {[t EXCEPT !.left = @ - 1] : t \in tm}, m)
<1>1. \A t \in tm : [t EXCEPT !.left = @ - 1].msg = t.msg
  BY DEF Timers
<1> QED  BY <1>1 DEF OnItsWay

\* What a timer that is started will deliver is on its way.
LEMMA SendAfterKeeps ==
    ASSUME NEW k, NEW r, NEW delay, send_after(k, r, delay), NEW mb
    PROVE  timers \subseteq timers' /\ OnItsWay(mb, timers', TimerMessage(k, r))
<1> DEFINE t == [msg |-> TimerMessage(k, r), left |-> delay]
<1>1. timers' = timers \cup {t}
  BY DEF send_after
<1>2. t.msg = TimerMessage(k, r)
  OBVIOUS
<1> HIDE DEF t
<1> QED  BY <1>1, <1>2 DEF OnItsWay

\* schedule_gga/1 cancels no timer.
LEMMA ScheduleGgaKeeps ==
    ASSUME schedule_gga
    PROVE  timers \subseteq timers'
BY SendAfterKeeps DEF schedule_gga

\* reconnect/2 ends the process or keeps every timer.
LEMMA ReconnectKeeps ==
    ASSUME NEW rest, NEW held, reconnect(rest, held), Alive'
    PROVE  timers \subseteq timers' /\ mailbox' = rest
<1>1. ~down /\ ~Terminate("crashed")
  BY DEF down, Terminate, Alive
<1> QED  BY <1>1, SendAfterKeeps DEF reconnect

\* A GGA sentence that cannot be sent does too.
LEMMA GgaFailsKeeps ==
    ASSUME NEW rest, GgaFails(rest), Alive'
    PROVE  timers \subseteq timers' /\ mailbox' = rest
<1>1. ~down
  BY DEF down, Terminate, Alive
<1> QED  BY <1>1, ReconnectKeeps DEF GgaFails, Abandon

\* A handler takes at most the head of the mailbox, and no handler cancels a
\* timer: Process.cancel_timer is never called.
LEMMA ProcessKeeps ==
    ASSUME TypeOK, Process, Alive'
    PROVE  /\ timers \subseteq timers'
           /\ \/ HandleInfo /\ mailbox # <<>> /\ mailbox' = Tail(mailbox)
              \/ mailbox' = mailbox
<1>0. ~down /\ ~crash
  BY DEF down, crash, Terminate, Alive
<1>1. CASE Connect
  <2>1. CASE ConnectOpens
    BY <2>1, SendAfterKeeps DEF ConnectOpens, schedule_stall
  <2>2. CASE ConnectFails \/ ConnectSendFails
    BY <2>2, ReconnectKeeps DEF ConnectFails, ConnectSendFails
  <2> QED  BY <1>0, <1>1, <2>1, <2>2 DEF Connect, ConnectRefusedByConfig, InjectedReplies
<1>2. CASE HandleInfo
  <2>0. mailbox # <<>>
    BY <1>2 DEF HandleInfo, HandleData, HandleForeignData, HandleSocketError, HandleClosed,
           HandleForeignClosed, HandleStallCheckUnconnected, HandleStallCheck,
           HandleConnectAfterBackoff, HandleGgaTick, HandleStaleGgaTick, Receives
  <2>1. timers \subseteq timers' /\ mailbox' = Tail(mailbox)
    <3>1. CASE HandleStallCheck
      BY <3>1, ReconnectKeeps, SendAfterKeeps DEF HandleStallCheck, Abandon, schedule_stall
    <3>2. CASE HandleGgaTick
      BY <3>2, GgaFailsKeeps, ScheduleGgaKeeps DEF HandleGgaTick
    <3>3. CASE \/ HandleData \/ HandleClosed \/ HandleForeignClosed
               \/ HandleStallCheckUnconnected \/ HandleConnectAfterBackoff \/ HandleStaleGgaTick
      BY <3>3 DEF HandleData, HandleClosed, HandleForeignClosed, HandleStallCheckUnconnected,
                  HandleConnectAfterBackoff, HandleStaleGgaTick, Dropped
    <3> QED  BY <1>0, <1>2, <3>1, <3>2, <3>3
             DEF HandleInfo, HandleForeignData, HandleSocketError
  <2> QED  BY <1>2, <2>0, <2>1
<1>3. CASE HandleEvent
  <2>1. CASE EventConnected
    BY <2>1, GgaFailsKeeps, ScheduleGgaKeeps DEF EventConnected, EventDone
  <2>2. CASE EventStreamLost
    BY <2>2, ReconnectKeeps DEF EventStreamLost, Abandon
  <2> QED  BY <1>0, <1>3, <2>1, <2>2
           DEF HandleEvent, EventPayload, EventSourcetable, EventTerminal, Delivered, EventDone
<1> QED  BY <1>1, <1>2, <1>3 DEF Process

\* A message on its way stays there until it is handled or the process ends.
LEMMA MessageKept ==
    ASSUME TypeOK, [Next]_vars, Alive', NEW m, m \in Pending,
           HandleInfo => Head(mailbox) # m
    PROVE  m \in Pending'
<1>0. mailbox \in Mails /\ timers \in SUBSET Timers /\ OnItsWay(mailbox, timers, m)
  BY PendingMessage DEF TypeOK, Mails
<1> SUFFICES OnItsWay(mailbox', timers', m)
  BY PendingMessage
<1>1. CASE Process
  <2>1. CASE mailbox' = mailbox
    BY <1>0, <1>1, <2>1, ProcessKeeps, TimersKeep
  <2>2. CASE HandleInfo /\ mailbox # <<>> /\ mailbox' = Tail(mailbox)
    <3>1. OnItsWay(Tail(mailbox), timers, m)
      BY <1>0, <2>2, TailKeeps
    <3> QED  BY <1>1, <2>2, <3>1, ProcessKeeps, TimersKeep
  <2> QED  BY <1>1, <2>1, <2>2, ProcessKeeps
<1>2. CASE Kernel
  <2>0. PICK s \in Sockets : PeerData(s) \/ PeerCloses(s) \/ SocketFails(s)
    BY <1>2 DEF Kernel
  <2> DEFINE a == SocketMessage("data", s)
             b == SocketMessage("closed", s)
             e == SocketMessage("error", s)
  <2>1. {a, b, e} \subseteq SocketMessages
    BY DEF SocketMessage, SocketMessages
  <2>2. timers' = timers /\ mailbox' \in {mailbox \o <<a>>, mailbox \o <<b>>, mailbox \o <<e, b>>}
    BY <2>0 DEF PeerData, PeerCloses, SocketFails, Arrives
  <2> HIDE DEF a, b, e
  <2>3. /\ mailbox \o <<a>> = Append(mailbox, a) /\ mailbox \o <<b>> = Append(mailbox, b)
        /\ mailbox \o <<e, b>> = Append(Append(mailbox, e), b)
    BY <1>0, <2>1 DEF Mails
  <2>4. OnItsWay(Append(mailbox, a), timers, m) /\ OnItsWay(Append(mailbox, b), timers, m)
    BY <1>0, <2>1, AppendKeeps
  <2>5. OnItsWay(Append(Append(mailbox, e), b), timers, m)
    <3>1. OnItsWay(Append(mailbox, e), timers, m) /\ Append(mailbox, e) \in Mails
      BY <1>0, <2>1, AppendKeeps
    <3> QED  BY <2>1, <3>1, AppendKeeps
  <2> QED  BY <2>2, <2>3, <2>4, <2>5
<1>3. CASE Tick
  BY <1>0, <1>3, TickKeeps DEF Tick
<1>4. CASE \E t \in timers : Fire(t)
  BY <1>0, <1>4, FireKeeps DEF Fire
<1>5. CASE UNCHANGED vars
  BY <1>0, <1>5 DEF vars
<1> QED  BY <1>1, <1>2, <1>3, <1>4, <1>5 DEF Next, Clock, Ended

-----------------------------------------------------------------------------
(* The connection: how a step may change the socket and the GGA reference.  *)

\* The connection is given up.
Lost == state'.socket = NoSocket /\ state'.gga_timer_ref = NoRef

\* It stays as it is.
Kept ==
    /\ state'.socket = state.socket /\ state'.gga_timer_ref = state.gga_timer_ref
    /\ opts' = opts
    /\ Alive' <=> Alive

\* The next GGA tick is scheduled, or none is wanted.
Rescheduled ==
    /\ EventConnected \/ HandleGgaTick
    /\ schedule_gga
    /\ state'.socket = state.socket
    /\ opts' = opts
    /\ Alive'

\* Every end of the process gives the connection up, and so does reconnect/2.
LEMMA LostOnTheWay ==
    ASSUME TypeOK, NEW rest, NEW held,
           down \/ crash \/ reconnect(rest, held) \/ Abandon(rest) \/ GgaFails(rest)
    PROVE  Lost
<1>1. CASE down \/ crash
  BY <1>1, DownOutcome DEF Gone, Lost
<1>2. CASE reconnect(rest, held)
  BY <1>2, ReconnectOutcome DEF Gone, Announced, Lost
<1>3. CASE reconnect(rest, open \ {state.socket})
  BY <1>3, ReconnectOutcome DEF Gone, Announced, Lost
<1> QED  BY <1>1, <1>2, <1>3 DEF Abandon, GgaFails

\* A handler that leaves the state alone keeps the connection.
LEMMA KeptFields ==
    ASSUME TypeOK, state' = state, opts' = opts,
           pc' = pc \/ (pc \in {"connect", "run"} /\ pc' \in {"connect", "run"})
    PROVE  Kept
BY DEF TypeOK, States, Kept, Alive

\* connect_stream/1 opens a socket or leaves the stream without one.
LEMMA ConnectConnection ==
    ASSUME TypeOK, Connect
    PROVE  Lost \/ ConnectOpens \/ Kept
<1>1. CASE ConnectRefusedByConfig
  BY <1>1, LostOnTheWay DEF ConnectRefusedByConfig
<1>2. CASE ConnectFails \/ ConnectSendFails
  BY <1>2, LostOnTheWay DEF ConnectFails, ConnectSendFails
<1>3. CASE InjectedReplies
  <2>1. PICK evs \in PushEvents("handshake") :
           state' = [state EXCEPT !.machine = MachineAfter("handshake", evs)]
    BY <1>3 DEF InjectedReplies
  <2>2. state'.socket = state.socket /\ state'.gga_timer_ref = state.gga_timer_ref
    BY <2>1 DEF TypeOK, States
  <2> QED  BY <1>3, <2>2 DEF InjectedReplies, Connecting, Kept, Alive
<1> QED  BY <1>1, <1>2, <1>3 DEF Connect

\* A handle_info/2 clause gives the connection up or keeps it.
LEMMA HandleInfoConnection ==
    ASSUME TypeOK, HandleInfo
    PROVE  Lost \/ Rescheduled \/ Kept
<1>1. CASE HandleData
  <2>1. PICK evs \in PushEvents(state.machine) :
           state' = [state EXCEPT !.machine = MachineAfter(@, evs), !.since_rx = 0]
    BY <1>1 DEF HandleData
  <2>2. state'.socket = state.socket /\ state'.gga_timer_ref = state.gga_timer_ref
    BY <2>1 DEF TypeOK, States
  <2> QED  BY <1>1, <2>2 DEF HandleData, Kept, Alive
<1>2. CASE HandleForeignData \/ HandleSocketError
  BY <1>2, LostOnTheWay DEF HandleForeignData, HandleSocketError
<1>3. CASE HandleClosed
  <2>1. PICK evs \in FinishEvents(state.machine) :
           state' = [Unconnected(state) EXCEPT !.machine = MachineAfter(@, evs)]
    BY <1>3 DEF HandleClosed
  <2> QED  BY <2>1, UnconnectedState DEF Lost, TypeOK, States
<1>4. CASE HandleForeignClosed \/ HandleStallCheckUnconnected \/ HandleStaleGgaTick
  BY <1>4, KeptFields DEF HandleForeignClosed, HandleStallCheckUnconnected,
                          HandleStaleGgaTick, Dropped
<1>5. CASE HandleStallCheck
  BY <1>5, LostOnTheWay, KeptFields DEF HandleStallCheck
<1>6. CASE HandleConnectAfterBackoff
  BY <1>6, KeptFields DEF HandleConnectAfterBackoff, Receives
<1>7. CASE HandleGgaTick
  <2>1. CASE GgaFails(Tail(mailbox))
    BY <2>1, LostOnTheWay
  <2>2. CASE schedule_gga /\ UNCHANGED <<opts, pc>>
    <3>1. state'.socket = state.socket
      BY <2>2 DEF schedule_gga, TypeOK, States
    <3> QED  BY <1>7, <2>2, <3>1 DEF Rescheduled, HandleGgaTick, Receives, Alive
  <2> QED  BY <1>7, <2>1, <2>2 DEF HandleGgaTick
<1> QED  BY <1>1, <1>2, <1>3, <1>4, <1>5, <1>6, <1>7 DEF HandleInfo

\* So does a handle_event/2 clause.
LEMMA HandleEventConnection ==
    ASSUME TypeOK, HandleEvent
    PROVE  Lost \/ Rescheduled \/ Kept
<1>1. CASE down \/ Abandon(mailbox) \/ GgaFails(mailbox)
  BY <1>1, LostOnTheWay
<1>2. CASE EventConnected /\ schedule_gga /\ EventDone
  <2>1. state'.socket = state.socket
    BY <1>2 DEF schedule_gga, TypeOK, States
  <2> QED  BY <1>2, <2>1 DEF Rescheduled, EventConnected, EventDone, NextEvent, Alive
<1>3. CASE UNCHANGED <<opts, pc, state>>
  BY <1>3, KeptFields
<1> QED  BY <1>1, <1>2, <1>3 DEF HandleEvent, EventConnected, EventPayload, EventSourcetable,
                                 EventTerminal, EventStreamLost, Delivered, EventDone

\* What one step may do to the connection.
LEMMA ConnectionStep ==
    ASSUME TypeOK, [Next]_vars
    PROVE  Lost \/ ConnectOpens \/ Rescheduled \/ Kept
<1>1. CASE Process
  BY <1>1, ConnectConnection, HandleInfoConnection, HandleEventConnection DEF Process
<1>2. CASE Kernel
  BY <1>2, KeptFields DEF Kernel, PeerData, PeerCloses, SocketFails, Arrives
<1>3. CASE Clock
  <2>1. CASE Tick
    <3>1. state'.socket = state.socket /\ state'.gga_timer_ref = state.gga_timer_ref
      BY <2>1 DEF Tick, TypeOK, States
    <3> QED  BY <2>1, <3>1 DEF Tick, Kept, Alive
  <2>2. CASE \E t \in timers : Fire(t)
    BY <2>2, KeptFields DEF Fire
  <2> QED  BY <1>3, <2>1, <2>2 DEF Clock
<1>4. CASE UNCHANGED vars
  BY <1>4, KeptFields DEF vars
<1> QED  BY <1>1, <1>2, <1>3, <1>4 DEF Next, Ended

-----------------------------------------------------------------------------
(* StallWatched and GgaTickCurrent: the timers of a connection.             *)

\* A process that ended holds no connection.
NothingLeft == ~Alive => state.socket = NoSocket /\ state.gga_timer_ref = NoRef

\* Only a connection, or an injected run, can still report that it connected.
ConnectedHolds ==
    \A i \in DOMAIN events :
        events[i] = "connected" => state.socket # NoSocket \/ opts.transport = "injected"

\* The inductive invariant behind StallWatched and GgaTickCurrent.
WatchInv == TypeOK /\ NothingLeft /\ ConnectedHolds /\ StallWatched /\ GgaTickCurrent

\* A process that ends gives its connection up.
LEMMA NothingLeftStep ==
    ASSUME TypeOK, NothingLeft, [Next]_vars
    PROVE  NothingLeft'
<1>1. CASE Lost
  BY <1>1 DEF Lost, NothingLeft
<1>2. CASE ConnectOpens
  BY <1>2 DEF ConnectOpens, NothingLeft, Alive
<1>3. CASE Rescheduled
  BY <1>3 DEF Rescheduled, NothingLeft
<1>4. CASE Kept
  BY <1>4 DEF Kept, NothingLeft
<1> QED  BY <1>1, <1>2, <1>3, <1>4, ConnectionStep

\* A :stall_check that was started is on its way.
LEMMA ScheduleStallPending ==
    ASSUME schedule_stall
    PROVE  PendingKind("stall")' # {}
<1>1. PICK r \in Refs : send_after("stall", r, MinOf(StallTick, StallTimeout))
  BY DEF schedule_stall
<1> DEFINE m == TimerMessage("stall", r)
<1>2. m \in Pending'
  BY <1>1, SendAfterKeeps, PendingMessage
<1>3. m.kind = "stall"
  BY DEF TimerMessage
<1> QED  BY <1>2, <1>3 DEF PendingKind

\* While there is a socket, the :stall_check that is taken starts the next one.
LEMMA StallStep ==
    ASSUME TypeOK, NothingLeft, StallWatched, [Next]_vars
    PROVE  StallWatched'
<1> SUFFICES ASSUME state'.socket # NoSocket
             PROVE  PendingKind("stall")' # {}
  BY DEF StallWatched
<1>1. CASE ConnectOpens
  BY <1>1, ScheduleStallPending DEF ConnectOpens
<1>2. CASE Rescheduled \/ Kept
  <2>0. state.socket = state'.socket /\ Alive /\ Alive'
    <3>1. state.socket = state'.socket
      BY <1>2 DEF Rescheduled, Kept
    <3>2. Alive
      BY <3>1 DEF NothingLeft
    <3> QED  BY <1>2, <3>1, <3>2 DEF Rescheduled, Kept
  <2>1. PICK m \in Pending : m.kind = "stall"
    BY <2>0 DEF StallWatched, PendingKind
  <2>2. CASE HandleInfo /\ Head(mailbox) = m
    <3>1. HandleStallCheck
      BY <2>0, <2>1, <2>2 DEF HandleInfo, HandleData, HandleForeignData, HandleSocketError,
           HandleClosed, HandleForeignClosed, HandleStallCheckUnconnected,
           HandleConnectAfterBackoff, HandleGgaTick, HandleStaleGgaTick, Receives
    <3>2. ~Abandon(Tail(mailbox))
      BY LostOnTheWay DEF Lost
    <3> QED  BY <3>1, <3>2, ScheduleStallPending DEF HandleStallCheck
  <2>3. CASE ~(HandleInfo /\ Head(mailbox) = m)
    <3>1. m \in Pending'
      BY <2>0, <2>3, MessageKept
    <3> QED  BY <2>1, <3>1 DEF PendingKind
  <2> QED  BY <2>2, <2>3
<1> QED  BY <1>1, <1>2, ConnectionStep DEF Lost

\* The tail of a sequence holds nothing new.
LEMMA TailHolds ==
    ASSUME NEW S, NEW s \in Seq(S), s # <<>>
    PROVE  \A i \in DOMAIN Tail(s) : i + 1 \in DOMAIN s /\ Tail(s)[i] = s[i + 1]
OBVIOUS

\* A chunk that reports a connection came over one.
LEMMA ConnectedStep ==
    ASSUME TypeOK, ConnectedHolds, [Next]_vars
    PROVE  ConnectedHolds'
<1>1. CASE events' = <<>>
  BY <1>1 DEF ConnectedHolds
<1>2. CASE events' = events /\ state'.socket = state.socket /\ opts' = opts
  BY <1>2 DEF ConnectedHolds
<1>3. CASE events # <<>> /\ events' = Tail(events) /\ state'.socket = state.socket /\ opts' = opts
  <2>1. \A i \in DOMAIN Tail(events) : i + 1 \in DOMAIN events /\ Tail(events)[i] = events[i + 1]
    BY <1>3, TailHolds DEF TypeOK
  <2> QED  BY <1>3, <2>1 DEF ConnectedHolds
<1>4. ASSUME NEW rest, NEW held, reconnect(rest, held)
      PROVE  events' = <<>>
  BY <1>4, ReconnectOutcome DEF Gone, Announced
<1>5. down \/ crash => events' = <<>>
  BY DEF down, crash, Terminate
<1>6. \A rest : GgaFails(rest) \/ Abandon(rest) => events' = <<>>
  BY <1>4, <1>5 DEF GgaFails, Abandon
<1>7. CASE Connect
  <2>1. CASE ConnectOpens
    <3>1. state'.socket # NoSocket
      BY <2>1, ConstantsAssumption DEF ConnectOpens, FreshSockets, TypeOK, States
    <3> QED  BY <3>1 DEF ConnectedHolds
  <2>2. CASE InjectedReplies
    BY <2>2 DEF InjectedReplies, Connecting, ConnectedHolds
  <2>3. CASE ConnectRefusedByConfig \/ ConnectFails \/ ConnectSendFails
    BY <1>1, <1>4, <1>5, <2>3 DEF ConnectRefusedByConfig, ConnectFails, ConnectSendFails
  <2> QED  BY <1>7, <2>1, <2>2, <2>3 DEF Connect
<1>8. CASE HandleInfo
  <2>1. CASE HandleData
    <3>1. state'.socket = state.socket
      BY <2>1 DEF HandleData, TypeOK, States
    <3>2. Head(mailbox) \in SocketMessages
      BY <2>1 DEF HandleData, Receives, TypeOK, TimerMessages
    <3>3. state.socket # NoSocket
      BY <2>1, <3>2, ConstantsAssumption DEF HandleData, Current, SocketMessages
    <3> QED  BY <3>1, <3>3 DEF ConnectedHolds
  <2>2. CASE HandleClosed
    <3>1. PICK evs \in FinishEvents(state.machine) : events' = Append(evs, "stream_ended")
      BY <2>2 DEF HandleClosed
    <3>2. evs \in Seq(Events) /\ \A i \in DOMAIN evs : evs[i] # "connected"
      <4>1. evs \in {<<>>, <<"sourcetable">>, <<"rejected">>, <<"stream_ended">>}
        BY DEF FinishEvents
      <4> QED  BY <4>1, FinishType
    <3>3. \A i \in DOMAIN events' : events'[i] # "connected"
      BY <3>1, <3>2
    <3> QED  BY <3>3 DEF ConnectedHolds
  <2>3. CASE HandleGgaTick
    <3>1. schedule_gga => state'.socket = state.socket
      BY DEF schedule_gga, TypeOK, States
    <3> QED  BY <1>1, <1>2, <1>6, <2>3, <3>1 DEF HandleGgaTick
  <2>4. CASE HandleStallCheck
    BY <1>1, <1>2, <1>6, <2>4 DEF HandleStallCheck
  <2>5. CASE HandleForeignData \/ HandleSocketError
    BY <1>1, <1>5, <2>5 DEF HandleForeignData, HandleSocketError
  <2>6. CASE HandleForeignClosed \/ HandleStallCheckUnconnected \/ HandleStaleGgaTick
             \/ HandleConnectAfterBackoff
    BY <1>2, <2>6 DEF HandleForeignClosed, HandleStallCheckUnconnected, HandleStaleGgaTick,
                      HandleConnectAfterBackoff, Dropped
  <2> QED  BY <1>8, <2>1, <2>2, <2>3, <2>4, <2>5, <2>6 DEF HandleInfo
<1>9. CASE HandleEvent
  <2>1. CASE EventConnected
    <3>1. schedule_gga => state'.socket = state.socket
      BY DEF schedule_gga, TypeOK, States
    <3> QED  BY <1>1, <1>3, <1>6, <2>1, <3>1 DEF EventConnected, EventDone, NextEvent
  <2>2. CASE EventPayload \/ EventSourcetable
    BY <1>1, <1>3, <1>5, <2>2 DEF EventPayload, EventSourcetable, Delivered, EventDone, NextEvent
  <2>3. CASE EventTerminal \/ EventStreamLost
    BY <1>1, <1>5, <1>6, <2>3 DEF EventTerminal, EventStreamLost
  <2> QED  BY <1>9, <2>1, <2>2, <2>3 DEF HandleEvent
<1>10. CASE Kernel \/ Clock \/ UNCHANGED vars
  <2>1. Tick => state'.socket = state.socket
    BY DEF Tick, TypeOK, States
  <2> QED  BY <1>2, <1>10, <2>1 DEF Kernel, PeerData, PeerCloses, SocketFails, Arrives, Clock,
                                   Tick, Fire, vars
<1> QED  BY <1>7, <1>8, <1>9, <1>10 DEF Next, Process, Ended

\* The GGA reference names the tick on its way until it is replaced or dropped
\* with the connection.
LEMMA GgaStep ==
    ASSUME WatchInv, [Next]_vars
    PROVE  GgaTickCurrent'
<1>0. TypeOK /\ NothingLeft /\ ConnectedHolds /\ GgaTickCurrent
  BY DEF WatchInv
<1> SUFFICES ASSUME state'.gga_timer_ref # NoRef
             PROVE  /\ TimerMessage("gga", state'.gga_timer_ref) \in Pending'
                    /\ state'.socket # NoSocket \/ opts'.transport = "injected"
  BY DEF GgaTickCurrent, TimerMessage
<1>1. CASE Rescheduled
  <2>1. PICK r \in Refs : /\ send_after("gga", r, GgaInterval)
                          /\ state' = [state EXCEPT !.gga_timer_ref = r]
    BY <1>0, <1>1 DEF Rescheduled, schedule_gga, TypeOK, States
  <2>2. state'.gga_timer_ref = r
    BY <1>0, <2>1 DEF TypeOK, States
  <2>3. TimerMessage("gga", r) \in Pending'
    BY <2>1, SendAfterKeeps, PendingMessage
  <2>4. state.socket # NoSocket \/ opts.transport = "injected"
    <3>1. CASE EventConnected
      <4>1. 1 \in DOMAIN events /\ events[1] = "connected"
        BY <1>0, <3>1 DEF EventConnected, NextEvent, TypeOK
      <4> QED  BY <1>0, <4>1 DEF ConnectedHolds
    <3>2. CASE HandleGgaTick
      <4>1. Head(mailbox) \in TimerMessages
        BY <1>0, <3>2 DEF HandleGgaTick, Receives, TypeOK, SocketMessages
      <4>2. state.gga_timer_ref # NoRef
        BY <3>2, <4>1, ConstantsAssumption DEF HandleGgaTick, CurrentTick, TimerMessages
      <4> QED  BY <1>0, <4>2 DEF GgaTickCurrent
    <3> QED  BY <1>1, <3>1, <3>2 DEF Rescheduled
  <2> QED  BY <1>1, <2>2, <2>3, <2>4 DEF Rescheduled
<1>2. CASE (Kept \/ ConnectOpens) /\ ~Rescheduled
  <2>1. state'.gga_timer_ref = state.gga_timer_ref
    BY <1>0, <1>2 DEF Kept, ConnectOpens, TypeOK, States
  <2> DEFINE m == TimerMessage("gga", state.gga_timer_ref)
  <2>2. m \in Pending /\ (state.socket # NoSocket \/ opts.transport = "injected")
    BY <1>0, <2>1 DEF GgaTickCurrent
  <2>3. state'.socket # NoSocket \/ opts'.transport = "injected"
    <3>1. CASE ConnectOpens
      BY <1>0, <3>1, ConstantsAssumption DEF ConnectOpens, FreshSockets, TypeOK, States
    <3>2. CASE Kept
      BY <2>2, <3>2 DEF Kept
    <3> QED  BY <1>2, <3>1, <3>2
  <2>4. Alive'
    <3>1. Alive
      BY <1>0, <2>1 DEF NothingLeft
    <3> QED  BY <1>2, <3>1 DEF Kept, ConnectOpens, Alive
  <2>5. HandleInfo => Head(mailbox) # m
    <3> SUFFICES ASSUME HandleInfo, Head(mailbox) = m PROVE FALSE
      OBVIOUS
    <3>1. Head(mailbox).kind = "gga" /\ Head(mailbox).ref = state.gga_timer_ref
      BY DEF TimerMessage
    <3>2. HandleGgaTick
      BY <3>1 DEF HandleInfo, HandleData, HandleForeignData, HandleSocketError,
           HandleClosed, HandleForeignClosed, HandleStallCheckUnconnected, HandleStallCheck,
           HandleConnectAfterBackoff, HandleStaleGgaTick, Receives, CurrentTick
    <3>3. ~GgaFails(Tail(mailbox))
      BY <1>0, LostOnTheWay DEF Lost
    <3>4. schedule_gga /\ UNCHANGED <<opts, pc>> /\ pc = "run"
      BY <3>2, <3>3 DEF HandleGgaTick, Receives
    <3>5. state'.socket = state.socket
      BY <1>0, <3>4 DEF schedule_gga, TypeOK, States
    <3> QED  BY <1>2, <2>4, <3>2, <3>4, <3>5 DEF Rescheduled
  <2> HIDE DEF m
  <2>6. m \in Pending'
    BY <1>0, <2>2, <2>4, <2>5, MessageKept
  <2> QED  BY <2>1, <2>3, <2>6 DEF m
<1> QED  BY <1>0, <1>1, <1>2, ConnectionStep DEF Lost

\* Before the first connection there is nothing to watch.
LEMMA WatchInit == Init => WatchInv
<1> SUFFICES ASSUME Init PROVE WatchInv
  OBVIOUS
<1>1. TypeOK
  BY InitType
<1> QED  BY <1>1 DEF Init, WatchInv, NothingLeft, ConnectedHolds, StallWatched, GgaTickCurrent,
                     Alive

\* Every step keeps the timers of the connection.
LEMMA WatchStep == WatchInv /\ [Next]_vars => WatchInv'
<1> SUFFICES ASSUME WatchInv, [Next]_vars PROVE WatchInv'
  OBVIOUS
<1>1. TypeOK /\ NothingLeft /\ ConnectedHolds /\ StallWatched /\ GgaTickCurrent
  BY DEF WatchInv
<1>2. TypeOK' /\ NothingLeft' /\ ConnectedHolds' /\ StallWatched' /\ GgaTickCurrent'
  BY <1>1, TypeStep, NothingLeftStep, ConnectedStep, StallStep, GgaStep
<1> QED  BY <1>2 DEF WatchInv

\* While there is a socket a :stall_check is on its way.
THEOREM StallWatchedAlways == Spec => []StallWatched
<1>1. WatchInv => StallWatched
  BY DEF WatchInv
<1> QED  BY <1>1, WatchInit, WatchStep, PTL DEF Spec

\* The GGA reference is that of a tick on its way, and there is a connection or
\* an injected run to use it.
THEOREM GgaTickCurrentAlways == Spec => []GgaTickCurrent
<1>1. WatchInv => GgaTickCurrent
  BY DEF WatchInv
<1> QED  BY <1>1, WatchInit, WatchStep, PTL DEF Spec

-----------------------------------------------------------------------------
(* OnlyCurrentActive and ReplacedSocketClosed: the sockets of the process.  *)

\* A socket that reported its end is closed.
ClosedGone(mb, op) == \A i \in DOMAIN mb : mb[i].kind = "closed" => mb[i].sock \notin op

\* There is no socket while one is being opened, and only open sockets are active.
SocketsHeld ==
    /\ pc = "connect" => state.socket = NoSocket
    /\ active \subseteq open
    /\ ClosedGone(mailbox, open)
    /\ OnlyCurrentActive

\* The inductive invariant behind the two properties.
SocketInv == WakeInv /\ SocketsHeld

\* What a step must show: SocketsHeld afterwards, and a replaced socket closed.
SocketsNext ==
    /\ pc' = "connect" => state'.socket = NoSocket
    /\ active' \subseteq open'
    /\ ClosedGone(mailbox', open')
    /\ active' \subseteq {state'.socket}
    /\ state'.socket # state.socket => state.socket \notin open'

\* Taking a message, and closing sockets, leave the reported ends right.
LEMMA ClosedTail ==
    ASSUME NEW mb \in Mails, mb # <<>>, NEW op, ClosedGone(mb, op)
    PROVE  ClosedGone(Tail(mb), op)
<1>1. \A i \in DOMAIN Tail(mb) : i + 1 \in DOMAIN mb /\ Tail(mb)[i] = mb[i + 1]
  BY TailHolds DEF Mails
<1> QED  BY <1>1 DEF ClosedGone

\* So does a message that reports no end, or the end of a closed socket.
LEMMA ClosedAppend ==
    ASSUME NEW mb \in Mails, NEW op, ClosedGone(mb, op),
           NEW m \in SocketMessages \cup TimerMessages, m.kind = "closed" => m.sock \notin op
    PROVE  ClosedGone(Append(mb, m), op) /\ Append(mb, m) \in Mails
<1>1. Append(mb, m) \in Mails
  BY DEF Mails
<1>2. \A i \in DOMAIN Append(mb, m) :
         \/ i \in DOMAIN mb /\ Append(mb, m)[i] = mb[i]
         \/ Append(mb, m)[i] = m
  BY DEF Mails
<1> QED  BY <1>1, <1>2 DEF ClosedGone

\* A process that ended has no socket.
LEMMA GoneSockets ==
    ASSUME Gone
    PROVE  SocketsNext
BY DEF Gone, SocketsNext, ClosedGone

\* An announced attempt closes the socket, or had none.
LEMMA AnnouncedSockets ==
    ASSUME TypeOK, SocketsHeld, NEW rest, NEW held \in SUBSET Sockets, Announced(rest, held),
           ClosedGone(rest, held),
           held = open \ {state.socket} \/ state.socket = NoSocket
    PROVE  SocketsNext
<1>1. state.socket \notin held
  BY ConstantsAssumption
<1>2. active' = {}
  BY <1>1 DEF Announced, SocketsHeld, OnlyCurrentActive
<1> QED  BY <1>1, <1>2 DEF Announced, SocketsNext

\* So does reconnect/2.
LEMMA ReconnectSockets ==
    ASSUME TypeOK, SocketsHeld, NEW rest, NEW held \in SUBSET Sockets, reconnect(rest, held),
           ClosedGone(rest, held),
           held = open \ {state.socket} \/ state.socket = NoSocket
    PROVE  SocketsNext
BY ReconnectOutcome, GoneSockets, AnnouncedSockets

\* And a handler that gives the connection up.
LEMMA AbandonSockets ==
    ASSUME TypeOK, SocketsHeld, NEW rest, ClosedGone(rest, open),
           Abandon(rest) \/ GgaFails(rest) \/ down \/ crash
    PROVE  SocketsNext
<1> DEFINE held == open \ {state.socket}
<1>1. CASE down \/ crash
  BY <1>1, DownOutcome, GoneSockets
<1>2. CASE reconnect(rest, held)
  <2>1. held \in SUBSET Sockets /\ ClosedGone(rest, held)
    BY DEF TypeOK, ClosedGone
  <2> QED  BY <1>2, <2>1, ReconnectSockets
<1> QED  BY <1>1, <1>2 DEF Abandon, GgaFails

\* A handler that touches no socket.
LEMMA UntouchedSockets ==
    ASSUME SocketsHeld, state'.socket = state.socket, open' = open, active' = active,
           ClosedGone(mailbox', open), pc' = "connect" => pc = "connect"
    PROVE  SocketsNext
BY DEF SocketsHeld, SocketsNext, OnlyCurrentActive

\* Every way to connect keeps the sockets right.
LEMMA ConnectSockets ==
    ASSUME SocketInv, Connect
    PROVE  SocketsNext
<1>0. TypeOK /\ SocketsHeld /\ state.socket = NoSocket /\ ClosedGone(mailbox, open)
      /\ open \subseteq Sockets
  <2>1. pc = "connect"
    BY DEF Connect, ConnectRefusedByConfig, ConnectFails, ConnectSendFails, ConnectOpens,
           InjectedReplies, Connecting
  <2> QED  BY <2>1 DEF SocketInv, WakeInv, SocketsHeld, TypeOK
<1>1. ASSUME NEW s \in FreshSockets
      PROVE  open \cup {s} \in SUBSET Sockets /\ ClosedGone(mailbox, open \cup {s})
  BY <1>0, <1>1 DEF FreshSockets, ClosedGone, Queued
<1>2. CASE ConnectRefusedByConfig
  BY <1>0, <1>2, AbandonSockets DEF ConnectRefusedByConfig
<1>3. CASE ConnectFails
  <2>1. open \in SUBSET Sockets
    BY <1>0
  <2> QED  BY <1>0, <1>3, <2>1, ReconnectSockets DEF ConnectFails
<1>4. CASE ConnectSendFails
  <2>1. PICK s \in FreshSockets : reconnect(mailbox, open \cup {s})
    BY <1>4 DEF ConnectSendFails
  <2> QED  BY <1>0, <1>1, <2>1, ReconnectSockets
<1>5. CASE ConnectOpens
  <2>1. PICK s \in FreshSockets :
           /\ state' = [state EXCEPT !.socket = s, !.machine = "handshake"]
           /\ open' = open \cup {s} /\ active' = active \cup {s}
    BY <1>5 DEF ConnectOpens
  <2>2. state'.socket = s
    BY <1>0, <2>1 DEF TypeOK, States
  <2>3. active = {}
    BY <1>0, ConstantsAssumption DEF SocketsHeld, OnlyCurrentActive
  <2>4. NoSocket \notin open'
    BY <1>1, <2>1, ConstantsAssumption
  <2> QED  BY <1>0, <1>1, <1>5, <2>1, <2>2, <2>3, <2>4 DEF SocketsNext, ConnectOpens
<1>6. CASE InjectedReplies
  <2>1. state'.socket = state.socket
    BY <1>0, <1>6 DEF InjectedReplies, TypeOK, States
  <2> QED  BY <1>0, <1>6, <2>1, UntouchedSockets DEF InjectedReplies
<1> QED  BY <1>2, <1>3, <1>4, <1>5, <1>6 DEF Connect

\* Every handle_info/2 clause keeps the sockets right.
LEMMA HandleInfoSockets ==
    ASSUME SocketInv, HandleInfo
    PROVE  SocketsNext
<1>0. TypeOK /\ SocketsHeld /\ mailbox \in Mails /\ pc = "run" /\ events = <<>>
      /\ mailbox # <<>>
  BY DEF SocketInv, WakeInv, TypeOK, Mails, HandleInfo, HandleData, HandleForeignData,
         HandleSocketError, HandleClosed, HandleForeignClosed, HandleStallCheckUnconnected,
         HandleStallCheck, HandleConnectAfterBackoff, HandleGgaTick, HandleStaleGgaTick, Receives
<1>T. ClosedGone(Tail(mailbox), open)
  BY <1>0, ClosedTail DEF SocketsHeld
<1>1. CASE HandleData
  <2>1. state'.socket = state.socket
    BY <1>0, <1>1 DEF HandleData, TypeOK, States
  <2> QED  BY <1>0, <1>1, <1>T, <2>1
           DEF HandleData, SocketsHeld, SocketsNext, OnlyCurrentActive
<1>2. CASE HandleForeignData \/ HandleSocketError
  BY <1>0, <1>2, <1>T, AbandonSockets DEF HandleForeignData, HandleSocketError
<1>3. CASE HandleClosed
  <2>1. state'.socket = NoSocket
    <3>1. PICK evs \in FinishEvents(state.machine) :
             state' = [Unconnected(state) EXCEPT !.machine = MachineAfter(@, evs)]
      BY <1>3 DEF HandleClosed
    <3> QED  BY <1>0, <3>1, UnconnectedState DEF TypeOK, States
  <2>2. 1 \in DOMAIN mailbox /\ mailbox[1] = Head(mailbox)
    BY <1>0 DEF Mails
  <2>3. state.socket \notin open
    BY <1>0, <1>3, <2>2 DEF HandleClosed, Receives, Current, SocketsHeld, ClosedGone
  <2>4. active = {}
    BY <1>0, <2>3 DEF SocketsHeld, OnlyCurrentActive
  <2> QED  BY <1>0, <1>3, <1>T, <2>1, <2>3, <2>4 DEF HandleClosed, SocketsNext
<1>4. CASE HandleForeignClosed \/ HandleStallCheckUnconnected \/ HandleStaleGgaTick
  BY <1>0, <1>4, <1>T, UntouchedSockets
     DEF HandleForeignClosed, HandleStallCheckUnconnected, HandleStaleGgaTick, Dropped
<1>5. CASE HandleStallCheck
  BY <1>0, <1>5, <1>T, AbandonSockets, UntouchedSockets DEF HandleStallCheck
<1>6. CASE HandleConnectAfterBackoff
  <2>1. Wake(mailbox, timers, Waiting)
    BY <1>0, WakeNow DEF SocketInv, Alive
  <2>2. 1 \in WakesQueued(mailbox)
    BY <1>0, <1>6 DEF HandleConnectAfterBackoff, Receives, WakesQueued, Mails
  <2>3. state.socket = NoSocket
    BY <2>1, <2>2 DEF Wake, Waiting
  <2> QED  BY <1>0, <1>6, <1>T, <2>3
           DEF HandleConnectAfterBackoff, SocketsHeld, SocketsNext, OnlyCurrentActive
<1>7. CASE HandleGgaTick
  <2>1. schedule_gga => state'.socket = state.socket
    BY <1>0 DEF schedule_gga, TypeOK, States
  <2> QED  BY <1>0, <1>7, <1>T, <2>1, AbandonSockets, UntouchedSockets DEF HandleGgaTick
<1> QED  BY <1>1, <1>2, <1>3, <1>4, <1>5, <1>6, <1>7 DEF HandleInfo

\* Every handle_event/2 clause keeps the sockets right.
LEMMA HandleEventSockets ==
    ASSUME SocketInv, HandleEvent
    PROVE  SocketsNext
<1>0. TypeOK /\ SocketsHeld /\ ClosedGone(mailbox, open)
  BY DEF SocketInv, WakeInv, SocketsHeld
<1>1. CASE down \/ Abandon(mailbox) \/ GgaFails(mailbox)
  BY <1>0, <1>1, AbandonSockets
<1>2. CASE schedule_gga /\ EventDone
  <2>1. state'.socket = state.socket
    BY <1>0, <1>2 DEF schedule_gga, TypeOK, States
  <2> QED  BY <1>0, <1>2, <2>1, UntouchedSockets DEF EventDone
<1>3. CASE UNCHANGED <<pc, state, open, active, mailbox>>
  BY <1>0, <1>3, UntouchedSockets
<1> QED  BY <1>1, <1>2, <1>3 DEF HandleEvent, EventConnected, EventPayload, EventSourcetable,
                                 EventTerminal, EventStreamLost, Delivered, EventDone

\* What arrives on a socket keeps them right.
LEMMA KernelSockets ==
    ASSUME SocketInv, NEW s \in Sockets, PeerData(s) \/ PeerCloses(s) \/ SocketFails(s)
    PROVE  SocketsNext
<1> DEFINE a == SocketMessage("data", s)
           b == SocketMessage("closed", s)
           e == SocketMessage("error", s)
<1>0. TypeOK /\ SocketsHeld /\ mailbox \in Mails
  BY DEF SocketInv, WakeInv, TypeOK, Mails
<1>1. /\ {a, b, e} \subseteq SocketMessages
      /\ a.kind = "data" /\ b.kind = "closed" /\ e.kind = "error" /\ b.sock = s
  BY DEF SocketMessage, SocketMessages
<1>2. pc' = pc /\ state' = state /\ active' = active \ {s}
  BY DEF PeerData, PeerCloses, SocketFails, Arrives
<1>3. \/ mailbox' = mailbox \o <<a>> /\ open' = open
      \/ mailbox' \in {mailbox \o <<b>>, mailbox \o <<e, b>>} /\ open' = open \ {s}
  BY DEF PeerData, PeerCloses, SocketFails, Arrives
<1> HIDE DEF a, b, e
<1>4. /\ mailbox \o <<a>> = Append(mailbox, a) /\ mailbox \o <<b>> = Append(mailbox, b)
      /\ mailbox \o <<e, b>> = Append(Append(mailbox, e), b)
  BY <1>0, <1>1 DEF Mails
<1>5. ClosedGone(mailbox, open) /\ ClosedGone(mailbox, open \ {s})
  BY <1>0 DEF SocketsHeld, ClosedGone
<1>6. ClosedGone(mailbox', open')
  <2>1. ClosedGone(Append(mailbox, a), open)
    BY <1>0, <1>1, <1>5, ClosedAppend
  <2>2. ClosedGone(Append(mailbox, b), open \ {s})
    BY <1>0, <1>1, <1>5, ClosedAppend
  <2>3. ClosedGone(Append(mailbox, e), open \ {s}) /\ Append(mailbox, e) \in Mails
    BY <1>0, <1>1, <1>5, ClosedAppend
  <2>4. ClosedGone(Append(Append(mailbox, e), b), open \ {s})
    BY <1>1, <2>3, ClosedAppend
  <2> QED  BY <1>3, <1>4, <2>1, <2>2, <2>4
<1> QED  BY <1>0, <1>2, <1>3, <1>6 DEF SocketsHeld, SocketsNext, OnlyCurrentActive

\* Time and timers touch no socket.
LEMMA ClockSockets ==
    ASSUME SocketInv, Clock
    PROVE  SocketsNext
<1>0. TypeOK /\ SocketsHeld /\ mailbox \in Mails /\ ClosedGone(mailbox, open)
  BY DEF SocketInv, WakeInv, TypeOK, Mails, SocketsHeld
<1>1. CASE Tick
  <2>1. state'.socket = state.socket
    BY <1>0, <1>1 DEF Tick, TypeOK, States
  <2> QED  BY <1>0, <1>1, <2>1, UntouchedSockets DEF Tick
<1>2. CASE \E t \in timers : Fire(t)
  <2>1. PICK t \in timers : Fire(t)
    BY <1>2
  <2>2. t.msg \in SocketMessages \cup TimerMessages /\ t.msg.kind # "closed"
    BY <1>0 DEF TypeOK, Timers, TimerMessages
  <2>3. ClosedGone(Append(mailbox, t.msg), open)
    BY <1>0, <2>2, ClosedAppend
  <2> QED  BY <1>0, <2>1, <2>3, UntouchedSockets DEF Fire
<1> QED  BY <1>1, <1>2 DEF Clock

\* Every step keeps the sockets right.
LEMMA SocketStep == SocketInv /\ [Next]_vars => SocketInv' /\ SocketsNext
<1> SUFFICES ASSUME SocketInv, [Next]_vars PROVE SocketInv' /\ SocketsNext
  OBVIOUS
<1>1. SocketsNext
  <2>1. CASE Process
    BY <2>1, ConnectSockets, HandleInfoSockets, HandleEventSockets DEF Process
  <2>2. CASE Kernel
    BY <2>2, KernelSockets DEF Kernel
  <2>3. CASE Clock
    BY <2>3, ClockSockets
  <2>4. CASE UNCHANGED vars
    BY <2>4, UntouchedSockets DEF vars, SocketInv, SocketsHeld
  <2> QED  BY <2>1, <2>2, <2>3, <2>4 DEF Next, Ended
<1>2. SocketsHeld'
  BY <1>1 DEF SocketsHeld, SocketsNext, OnlyCurrentActive, ClosedGone
<1> QED  BY <1>1, <1>2, WakeStep DEF SocketInv

\* The process starts without a socket.
LEMMA SocketInit == Init => SocketInv
<1> SUFFICES ASSUME Init PROVE SocketInv
  OBVIOUS
<1>1. WakeInv
  BY WakeInit
<1> QED  BY <1>1 DEF Init, SocketInv, SocketsHeld, OnlyCurrentActive, ClosedGone

\* Only the current socket can still put bytes into the mailbox.
THEOREM OnlyCurrentActiveAlways == Spec => []OnlyCurrentActive
<1>1. SocketInv => OnlyCurrentActive
  BY DEF SocketInv, SocketsHeld
<1>2. SocketInv /\ [Next]_vars => SocketInv'
  BY SocketStep
<1> QED  BY <1>1, <1>2, SocketInit, PTL DEF Spec

\* A socket the stream gives up is closed by the step that gives it up.
THEOREM ReplacedSocketClosedAlways == Spec => ReplacedSocketClosed
<1>1. SocketInv /\ [Next]_vars =>
         SocketInv' /\ [state'.socket # state.socket => state.socket \notin open']_vars
  BY SocketStep DEF SocketsNext
<1> QED  BY <1>1, SocketInit, PTL DEF Spec, ReplacedSocketClosed

-----------------------------------------------------------------------------
(* StallChecksBounded.  A :stall_check carries the reference of its timer,   *)
(* so it is on its way in one place only; the step that takes one takes it   *)
(* away, and each connection starts at most one of its own.                 *)

Stalls(mb, tm) == {m \in {mb[i] : i \in DOMAIN mb} \cup {t.msg : t \in tm} : m.kind = "stall"}

\* The :stall_check messages of a mailbox and a set of timers.
LEMMA StallsAre ==
    ASSUME NEW mb, NEW tm, NEW m
    PROVE  m \in Stalls(mb, tm) <=> OnItsWay(mb, tm, m) /\ m.kind = "stall"
BY DEF Stalls, OnItsWay

\* No :stall_check is on its way twice.
Once(mb, tm) ==
    /\ \A i, j \in DOMAIN mb : mb[i] = mb[j] /\ mb[i].kind = "stall" => i = j
    /\ \A t \in tm, i \in DOMAIN mb : t.msg = mb[i] => t.msg.kind # "stall"
    /\ \A t, u \in tm : t.msg = u.msg /\ t.msg.kind = "stall" => t = u

\* Taking a message adds none, and takes the :stall_check it is.
LEMMA OnceTail ==
    ASSUME NEW mb \in Mails, mb # <<>>, NEW tm, Once(mb, tm)
    PROVE  /\ Once(Tail(mb), tm)
           /\ Stalls(Tail(mb), tm) \subseteq Stalls(mb, tm)
           /\ Head(mb).kind = "stall" =>
                /\ Head(mb) \in Stalls(mb, tm)
                /\ Stalls(Tail(mb), tm) \subseteq Stalls(mb, tm) \ {Head(mb)}
<1>1. \A i \in DOMAIN Tail(mb) : /\ i + 1 \in DOMAIN mb /\ Tail(mb)[i] = mb[i + 1]
                                 /\ i \in Nat /\ i + 1 # 1
  BY DEF Mails
<1>2. 1 \in DOMAIN mb /\ mb[1] = Head(mb)
  BY DEF Mails
<1>3. Once(Tail(mb), tm)
  <2>1. \A i, j \in DOMAIN Tail(mb) :
           Tail(mb)[i] = Tail(mb)[j] /\ Tail(mb)[i].kind = "stall" => i = j
    <3> TAKE i, j \in DOMAIN Tail(mb)
    <3> HAVE Tail(mb)[i] = Tail(mb)[j] /\ Tail(mb)[i].kind = "stall"
    <3>1. i + 1 = j + 1
      BY <1>1 DEF Once
    <3> QED  BY <1>1, <3>1
  <2> QED  BY <1>1, <2>1 DEF Once
<1>4. Stalls(Tail(mb), tm) \subseteq Stalls(mb, tm)
  BY <1>1 DEF Stalls
<1>5. ASSUME Head(mb).kind = "stall"
      PROVE  Head(mb) \in Stalls(mb, tm) /\ Head(mb) \notin Stalls(Tail(mb), tm)
  <2>1. Head(mb) \in Stalls(mb, tm)
    BY <1>2, <1>5 DEF Stalls
  <2>2. \A i \in DOMAIN Tail(mb) : Tail(mb)[i] # Head(mb)
    BY <1>1, <1>2, <1>5 DEF Once
  <2>3. \A t \in tm : t.msg # Head(mb)
    BY <1>2, <1>5 DEF Once
  <2> QED  BY <2>1, <2>2, <2>3 DEF Stalls
<1> QED  BY <1>3, <1>4, <1>5

\* A message of another kind may arrive.
LEMMA OnceAppend ==
    ASSUME NEW mb \in Mails, NEW tm, NEW m \in SocketMessages \cup TimerMessages,
           m.kind # "stall", Once(mb, tm)
    PROVE  /\ Once(Append(mb, m), tm)
           /\ Stalls(Append(mb, m), tm) \subseteq Stalls(mb, tm)
           /\ Append(mb, m) \in Mails
<1>1. \A i \in DOMAIN Append(mb, m) :
         \/ i \in DOMAIN mb /\ Append(mb, m)[i] = mb[i]
         \/ Append(mb, m)[i] = m
  BY DEF Mails
<1>2. Append(mb, m) \in Mails
  BY DEF Mails
<1>3. Once(Append(mb, m), tm)
  BY <1>1 DEF Once
<1> QED  BY <1>1, <1>2, <1>3 DEF Stalls

\* A timer whose message is new may be started.
LEMMA OnceStarted ==
    ASSUME NEW mb, NEW tm, NEW t, Once(mb, tm), ~OnItsWay(mb, tm, t.msg)
    PROVE  /\ Once(mb, tm \cup {t})
           /\ Stalls(mb, tm \cup {t}) \subseteq Stalls(mb, tm) \cup {t.msg}
           /\ t.msg.kind # "stall" => Stalls(mb, tm \cup {t}) \subseteq Stalls(mb, tm)
<1>1. Once(mb, tm \cup {t})
  BY DEF Once, OnItsWay
<1> QED  BY <1>1 DEF Stalls

\* A timer that fires moves its message.
LEMMA OnceFired ==
    ASSUME NEW mb \in Mails, NEW tm \in SUBSET Timers, NEW t \in tm, Once(mb, tm)
    PROVE  /\ Once(Append(mb, t.msg), tm \ {t})
           /\ Stalls(Append(mb, t.msg), tm \ {t}) \subseteq Stalls(mb, tm)
<1>0. t.msg \in SocketMessages \cup TimerMessages
  BY DEF Timers
<1>1. \A i \in DOMAIN Append(mb, t.msg) :
         \/ i \in DOMAIN mb /\ Append(mb, t.msg)[i] = mb[i]
         \/ i = Len(mb) + 1 /\ Append(mb, t.msg)[i] = t.msg
  BY <1>0 DEF Mails
<1>2. \A i, j \in DOMAIN Append(mb, t.msg) :
         Append(mb, t.msg)[i] = Append(mb, t.msg)[j] /\ Append(mb, t.msg)[i].kind = "stall"
            => i = j
  BY <1>1 DEF Once
<1>3. \A u \in tm \ {t}, i \in DOMAIN Append(mb, t.msg) :
         u.msg = Append(mb, t.msg)[i] => u.msg.kind # "stall"
  BY <1>1 DEF Once
<1>4. \A u, v \in tm \ {t} : u.msg = v.msg /\ u.msg.kind = "stall" => u = v
  BY DEF Once
<1>5. Once(Append(mb, t.msg), tm \ {t})
  BY <1>2, <1>3, <1>4 DEF Once
<1> QED  BY <1>1, <1>5 DEF Stalls

\* Time moves no message.
LEMMA OnceTicked ==
    ASSUME NEW mb, NEW tm \in SUBSET Timers, Once(mb, tm)
    PROVE  /\ Once(mb, {[t EXCEPT !.left = @ - 1] : t \in tm})
           /\ Stalls(mb, {[t EXCEPT !.left = @ - 1] : t \in tm}) \subseteq Stalls(mb, tm)
<1> DEFINE new == {[t EXCEPT !.left = @ - 1] : t \in tm}
<1>0. \A t \in tm : [t EXCEPT !.left = @ - 1].msg = t.msg
  BY DEF Timers
<1>1. \A u \in new : \E t \in tm : u = [t EXCEPT !.left = @ - 1] /\ u.msg = t.msg
  BY <1>0
<1>2. \A u, v \in new : u.msg = v.msg /\ u.msg.kind = "stall" => u = v
  BY <1>1 DEF Once
<1> HIDE DEF new
<1>3. Once(mb, new)
  BY <1>1, <1>2 DEF Once
<1>4. Stalls(mb, new) \subseteq Stalls(mb, tm)
  BY <1>1 DEF Stalls
<1> QED  BY <1>3, <1>4 DEF new

\* One more element.
LEMMA CountGrows ==
    ASSUME NEW S, IsFiniteSet(S), NEW x, NEW T, T \subseteq S \cup {x}
    PROVE  IsFiniteSet(T) /\ Cardinality(T) <= Cardinality(S) + 1 /\ Cardinality(T) \in Nat
<1>0. Cardinality(S) \in Nat
  BY FS_CardinalityType
<1>1. IsFiniteSet(S \cup {x}) /\ Cardinality(S \cup {x}) <= Cardinality(S) + 1
  BY <1>0, FS_AddElement
<1>2. IsFiniteSet(T) /\ Cardinality(T) <= Cardinality(S \cup {x})
  BY <1>1, FS_Subset
<1>3. Cardinality(T) \in Nat /\ Cardinality(S) \in Nat /\ Cardinality(S \cup {x}) \in Nat
  BY <1>1, <1>2, FS_CardinalityType
<1> QED  BY <1>1, <1>2, <1>3

\* One element for another.
LEMMA CountStays ==
    ASSUME NEW S, IsFiniteSet(S), NEW m \in S, NEW x, NEW T, T \subseteq (S \ {m}) \cup {x}
    PROVE  IsFiniteSet(T) /\ Cardinality(T) <= Cardinality(S) /\ Cardinality(T) \in Nat
<1> DEFINE R == S \ {m}
<1>1. IsFiniteSet(R) /\ Cardinality(R) = Cardinality(S) - 1
  BY FS_RemoveElement
<1>2. Cardinality(S) \in Nat
  BY FS_CardinalityType
<1> HIDE DEF R
<1>3. IsFiniteSet(T) /\ Cardinality(T) <= Cardinality(R) + 1 /\ Cardinality(T) \in Nat
  BY <1>1, CountGrows DEF R
<1> QED  BY <1>1, <1>2, <1>3

\* No connection is held that could have started a :stall_check of its own.
Idle == pc = "connect" \/ Waiting

\* A timer with a fresh reference was started.
Started(k) ==
    \E r \in FreshRefs : \E delay :
        timers' = timers \cup {[msg |-> TimerMessage(k, r), left |-> delay]}

\* A handler takes at most the head of the mailbox.
Taken == mailbox' = mailbox \/ (mailbox # <<>> /\ mailbox' = Tail(mailbox))

\* What a handler may do, as far as the :stall_check messages are concerned:
\* announce a reconnect, go on, open a connection, or check it once more.
Announces == Taken /\ Started("connect") /\ state'.attempt = state.attempt + 1
Continues ==
    /\ Taken
    /\ timers' = timers \/ Started("gga")
    /\ state'.attempt = state.attempt
    /\ Idle' => Idle
Opens ==
    /\ mailbox' = mailbox
    /\ Started("stall")
    /\ state'.attempt = state.attempt
    /\ Idle /\ ~Idle'
Rechecks ==
    /\ mailbox # <<>> /\ Head(mailbox).kind = "stall" /\ mailbox' = Tail(mailbox)
    /\ Started("stall")
    /\ state'.attempt = state.attempt
    /\ Idle' => Idle
Turn == Gone \/ Announces \/ Continues \/ Opens \/ Rechecks

\* send_after starts a timer with a fresh reference.
LEMMA SendAfterStarted ==
    ASSUME NEW k, NEW r, NEW delay, send_after(k, r, delay)
    PROVE  Started(k)
BY DEF send_after, Started

\* schedule_gga/1 starts at most a GGA tick.
LEMMA ScheduleGgaStarted ==
    ASSUME TypeOK, schedule_gga
    PROVE  /\ timers' = timers \/ Started("gga")
           /\ state'.attempt = state.attempt /\ state'.socket = state.socket
<1>1. state'.attempt = state.attempt /\ state'.socket = state.socket
  BY DEF schedule_gga, TypeOK, States
<1> QED  BY <1>1, SendAfterStarted DEF schedule_gga

\* reconnect/2 counts every attempt it announces.
LEMMA ReconnectTurn ==
    ASSUME TypeOK, NEW rest, NEW held, reconnect(rest, held)
    PROVE  \/ Gone
           \/ mailbox' = rest /\ Started("connect") /\ state'.attempt = state.attempt + 1
<1>1. CASE ~Alive'
  BY <1>1, ReconnectOutcome DEF Announced, Alive
<1>2. CASE Alive'
  <2>1. ~down /\ ~Terminate("crashed")
    BY <1>2 DEF down, Terminate, Alive
  <2>2. state' = [Unconnected(state) EXCEPT !.attempt = @ + 1, !.machine = "handshake"]
    BY <2>1 DEF reconnect
  <2>3. state'.attempt = state.attempt + 1
    BY <2>2, UnconnectedState DEF TypeOK, States
  <2>4. mailbox' = rest /\ Started("connect")
    BY <2>1, SendAfterStarted DEF reconnect
  <2> QED  BY <2>3, <2>4
<1> QED  BY <1>1, <1>2

\* So does a handler that gives the connection up.
LEMMA AbandonTurn ==
    ASSUME TypeOK, NEW rest, Abandon(rest) \/ GgaFails(rest) \/ down \/ crash,
           rest = mailbox \/ (mailbox # <<>> /\ rest = Tail(mailbox))
    PROVE  Turn
<1>1. CASE down \/ crash
  BY <1>1, DownOutcome DEF Turn
<1>2. CASE reconnect(rest, open \ {state.socket})
  BY <1>2, ReconnectTurn DEF Turn, Announces, Taken
<1> QED  BY <1>1, <1>2 DEF Abandon, GgaFails

\* connect_stream/1 starts the first :stall_check of a connection.
LEMMA ConnectTurn ==
    ASSUME TypeOK, Connect
    PROVE  Turn
<1>0. pc = "connect"
  BY DEF Connect, ConnectRefusedByConfig, ConnectFails, ConnectSendFails, ConnectOpens,
         InjectedReplies, Connecting
<1>1. CASE ConnectRefusedByConfig
  BY <1>1, AbandonTurn DEF ConnectRefusedByConfig
<1>2. CASE ConnectFails \/ ConnectSendFails
  BY <1>2, ReconnectTurn DEF ConnectFails, ConnectSendFails, Turn, Announces, Taken
<1>3. CASE ConnectOpens
  <2>1. PICK s \in FreshSockets :
           state' = [state EXCEPT !.socket = s, !.machine = "handshake"]
    BY <1>3 DEF ConnectOpens
  <2>2. state'.attempt = state.attempt /\ state'.socket # NoSocket
    BY <2>1, ConstantsAssumption DEF FreshSockets, TypeOK, States
  <2>3. ~Idle' /\ Idle
    BY <1>0, <1>3, <2>2 DEF Idle, Waiting, ConnectOpens
  <2>4. Started("stall")
    BY <1>3, SendAfterStarted DEF ConnectOpens, schedule_stall
  <2> QED  BY <1>3, <2>2, <2>3, <2>4 DEF ConnectOpens, Turn, Opens
<1>4. CASE InjectedReplies
  <2>1. state'.attempt = state.attempt
    BY <1>4 DEF InjectedReplies, TypeOK, States
  <2> QED  BY <1>0, <1>4, <2>1 DEF InjectedReplies, Turn, Continues, Taken, Idle
<1> QED  BY <1>1, <1>2, <1>3, <1>4 DEF Connect

\* A handle_info/2 clause starts a :stall_check only for the one it takes.
LEMMA HandleInfoTurn ==
    ASSUME WakeInv, HandleInfo
    PROVE  Turn
<1>0. TypeOK /\ mailbox \in Mails /\ pc = "run" /\ events = <<>> /\ mailbox # <<>>
  BY DEF WakeInv, TypeOK, Mails, HandleInfo, HandleData, HandleForeignData,
         HandleSocketError, HandleClosed, HandleForeignClosed, HandleStallCheckUnconnected,
         HandleStallCheck, HandleConnectAfterBackoff, HandleGgaTick, HandleStaleGgaTick, Receives
<1>1. CASE HandleData
  <2>1. state'.socket = state.socket /\ state'.attempt = state.attempt
    BY <1>0, <1>1 DEF HandleData, TypeOK, States
  <2>2. state.socket # NoSocket
    <3>1. Head(mailbox) \in SocketMessages
      BY <1>0, <1>1 DEF HandleData, Receives, Mails, TimerMessages
    <3> QED  BY <1>1, <3>1, ConstantsAssumption DEF HandleData, Current, SocketMessages
  <2>3. ~Idle'
    BY <1>0, <1>1, <2>1, <2>2 DEF HandleData, Idle, Waiting
  <2> QED  BY <1>0, <1>1, <2>1, <2>3 DEF HandleData, Turn, Continues, Taken
<1>2. CASE HandleForeignData \/ HandleSocketError
  BY <1>0, <1>2, AbandonTurn DEF HandleForeignData, HandleSocketError
<1>3. CASE HandleClosed
  <2>1. PICK evs \in FinishEvents(state.machine) :
           /\ events' = Append(evs, "stream_ended")
           /\ state' = [Unconnected(state) EXCEPT !.machine = MachineAfter(@, evs)]
    BY <1>3 DEF HandleClosed
  <2>2. state'.attempt = state.attempt
    <3>1. Unconnected(state) \in States /\ Unconnected(state).attempt = state.attempt
      BY <1>0, UnconnectedState DEF TypeOK
    <3> QED  BY <2>1, <3>1 DEF States
  <2>3. events' # <<>>
    BY <2>1, FinishType
  <2>4. ~Idle'
    BY <1>0, <1>3, <2>3 DEF HandleClosed, Idle, Waiting
  <2> QED  BY <1>0, <1>3, <2>2, <2>4 DEF HandleClosed, Turn, Continues, Taken
<1>4. CASE HandleForeignClosed \/ HandleStallCheckUnconnected \/ HandleStaleGgaTick
  <2>1. Dropped
    BY <1>4 DEF HandleForeignClosed, HandleStallCheckUnconnected, HandleStaleGgaTick
  <2> QED  BY <1>0, <2>1 DEF Dropped, Turn, Continues, Taken, Idle, Waiting
<1>5. CASE HandleStallCheck
  <2>1. CASE Abandon(Tail(mailbox))
    BY <1>0, <2>1, AbandonTurn
  <2>2. CASE schedule_stall /\ mailbox' = Tail(mailbox)
             /\ UNCHANGED <<opts, pc, events, state, open, active, sink>>
    <3>1. Started("stall")
      BY <2>2, SendAfterStarted DEF schedule_stall
    <3>2. Idle' <=> Idle
      BY <2>2 DEF Idle, Waiting
    <3> QED  BY <1>5, <2>2, <3>1, <3>2 DEF HandleStallCheck, Receives, Turn, Rechecks
  <2> QED  BY <1>5, <2>1, <2>2 DEF HandleStallCheck
<1>6. CASE HandleConnectAfterBackoff
  <2>1. Wake(mailbox, timers, Waiting)
    BY <1>0, WakeNow DEF Alive
  <2>2. 1 \in WakesQueued(mailbox)
    BY <1>0, <1>6 DEF HandleConnectAfterBackoff, Receives, WakesQueued, Mails
  <2>3. Idle
    BY <2>1, <2>2 DEF Wake, Idle
  <2> QED  BY <1>0, <1>6, <2>3 DEF HandleConnectAfterBackoff, Turn, Continues, Taken
<1>7. CASE HandleGgaTick
  <2>1. CASE GgaFails(Tail(mailbox))
    BY <1>0, <2>1, AbandonTurn
  <2>2. CASE schedule_gga /\ mailbox' = Tail(mailbox)
             /\ UNCHANGED <<opts, pc, events, open, active, sink>>
    <3>1. /\ timers' = timers \/ Started("gga")
          /\ state'.attempt = state.attempt /\ state'.socket = state.socket
      BY <1>0, <2>2, ScheduleGgaStarted
    <3>2. Idle' <=> Idle
      BY <2>2, <3>1 DEF Idle, Waiting
    <3> QED  BY <1>0, <2>2, <3>1, <3>2 DEF Turn, Continues, Taken
  <2> QED  BY <1>7, <2>1, <2>2 DEF HandleGgaTick
<1> QED  BY <1>1, <1>2, <1>3, <1>4, <1>5, <1>6, <1>7 DEF HandleInfo

\* A handle_event/2 clause starts none.
LEMMA HandleEventTurn ==
    ASSUME WakeInv, HandleEvent
    PROVE  Turn
<1>0. TypeOK /\ EventsEnd
  BY DEF WakeInv
<1>1. CASE down \/ Abandon(mailbox) \/ GgaFails(mailbox)
  BY <1>0, <1>1, AbandonTurn
<1>2. CASE EventConnected /\ schedule_gga /\ EventDone
  <2>1. /\ timers' = timers \/ Started("gga")
        /\ state'.attempt = state.attempt /\ state'.socket = state.socket
    BY <1>0, <1>2, ScheduleGgaStarted
  <2>2. ~Waiting'
    BY <1>0, <1>2, <2>1, EventDoneWake DEF EventConnected
  <2>3. ~Idle'
    BY <1>2, <2>2 DEF Idle, EventConnected, NextEvent, EventDone
  <2> QED  BY <1>2, <2>1, <2>3 DEF EventDone, Turn, Continues, Taken
<1>3. CASE (EventPayload \/ EventSourcetable) /\ EventDone /\ UNCHANGED <<state, timers>>
  <2>1. ~Waiting'
    BY <1>0, <1>3, EventDoneWake DEF EventPayload, EventSourcetable
  <2>2. ~Idle'
    BY <1>3, <2>1 DEF Idle, EventPayload, EventSourcetable, NextEvent, EventDone
  <2> QED  BY <1>3, <2>2 DEF EventDone, Turn, Continues, Taken
<1> QED  BY <1>1, <1>2, <1>3 DEF HandleEvent, EventConnected, EventPayload, EventSourcetable,
                                 EventTerminal, EventStreamLost, Delivered

\* A message with a fresh reference is not on its way yet.
LEMMA FreshNotSent ==
    ASSUME NEW k, NEW r \in FreshRefs
    PROVE  ~OnItsWay(mailbox, timers, TimerMessage(k, r))
<1>1. TimerMessage(k, r) \notin Pending
  BY DEF FreshRefs, TimerMessage
<1> QED  BY <1>1, PendingMessage

\* The :stall_check messages on their way, and how many there may be.
Checks == Stalls(mailbox, timers)
Room == state.attempt + (IF Idle THEN 0 ELSE 1)

\* The inductive invariant behind StallChecksBounded.
CountInv ==
    /\ WakeInv
    /\ Once(mailbox, timers)
    /\ IsFiniteSet(Checks)
    /\ Cardinality(Checks) <= Room

\* A set of :stall_check messages no larger than before fits into no less room.
LEMMA CountFits ==
    ASSUME CountInv, Once(mailbox', timers'), Checks' \subseteq Checks, Room <= Room',
           Room' \in Nat, Room \in Nat
    PROVE  Once(mailbox', timers') /\ IsFiniteSet(Checks') /\ Cardinality(Checks') <= Room'
<1> DEFINE S == Checks
           T == Checks'
<1>1. IsFiniteSet(S) /\ Cardinality(S) <= Room
  BY DEF CountInv
<1>2. T \in SUBSET S
  OBVIOUS
<1> HIDE DEF S, T
<1>3. IsFiniteSet(T) /\ Cardinality(T) <= Cardinality(S)
  BY <1>1, <1>2, FS_Subset
<1>4. Cardinality(S) \in Nat /\ Cardinality(T) \in Nat
  BY <1>1, <1>3, FS_CardinalityType
<1>5. Cardinality(T) <= Room'
  BY <1>1, <1>3, <1>4
<1> QED  BY <1>3, <1>5 DEF T

\* A handler keeps the :stall_check messages in their room.
LEMMA TurnCounts ==
    ASSUME CountInv, Turn, TypeOK'
    PROVE  Once(mailbox', timers') /\ IsFiniteSet(Checks') /\ Cardinality(Checks') <= Room'
<1>0. /\ mailbox \in Mails /\ Once(mailbox, timers) /\ IsFiniteSet(Checks)
      /\ Cardinality(Checks) <= Room /\ Cardinality(Checks) \in Nat
      /\ state.attempt \in Nat /\ state'.attempt \in Nat /\ Room \in Nat /\ Room' \in Nat
  <2>1. state.attempt \in Nat /\ state'.attempt \in Nat /\ mailbox \in Mails
    BY DEF CountInv, WakeInv, TypeOK, States, Mails
  <2>2. Room \in Nat /\ Room' \in Nat
    BY <2>1 DEF Room
  <2> QED  BY <2>1, <2>2, FS_CardinalityType DEF CountInv
<1>1. CASE Gone
  <2>1. Checks' = {} /\ Once(mailbox', timers')
    BY <1>1 DEF Gone, Checks, Stalls, Once
  <2> QED  BY <1>0, <2>1, FS_EmptySet
<1>2. Taken => /\ Once(mailbox', timers)
               /\ Stalls(mailbox', timers) \subseteq Checks
               /\ \A k : \A r \in FreshRefs : ~OnItsWay(mailbox', timers, TimerMessage(k, r))
  <2>1. CASE mailbox' = mailbox
    BY <1>0, <2>1, FreshNotSent DEF Checks
  <2>2. CASE mailbox # <<>> /\ mailbox' = Tail(mailbox)
    <3>1. \A i \in DOMAIN Tail(mailbox) :
             i + 1 \in DOMAIN mailbox /\ Tail(mailbox)[i] = mailbox[i + 1]
      BY <1>0, <2>2, TailHolds DEF Mails
    <3>2. \A m : OnItsWay(Tail(mailbox), timers, m) => OnItsWay(mailbox, timers, m)
      BY <3>1 DEF OnItsWay
    <3>3. Once(Tail(mailbox), timers) /\ Stalls(Tail(mailbox), timers) \subseteq Checks
      BY <1>0, <2>2, OnceTail DEF Checks
    <3> QED  BY <2>2, <3>2, <3>3, FreshNotSent
  <2> QED  BY <2>1, <2>2 DEF Taken
<1>3. ASSUME NEW k, Started(k), Taken
      PROVE  /\ Once(mailbox', timers')
             /\ k # "stall" => Checks' \subseteq Checks
             /\ \E x : Checks' \subseteq Stalls(mailbox', timers) \cup {x}
  <2>1. PICK r, delay :
           r \in FreshRefs /\ timers' = timers \cup {[msg |-> TimerMessage(k, r), left |-> delay]}
    BY <1>3 DEF Started
  <2> DEFINE t == [msg |-> TimerMessage(k, r), left |-> delay]
  <2>2. t.msg = TimerMessage(k, r) /\ t.msg.kind = k /\ timers' = timers \cup {t}
    BY <2>1 DEF TimerMessage
  <2> HIDE DEF t
  <2>3. ~OnItsWay(mailbox', timers, t.msg) /\ Once(mailbox', timers)
    BY <1>2, <1>3, <2>1, <2>2
  <2>4. /\ Once(mailbox', timers \cup {t})
        /\ Stalls(mailbox', timers \cup {t}) \subseteq Stalls(mailbox', timers) \cup {t.msg}
        /\ k # "stall" => Stalls(mailbox', timers \cup {t}) \subseteq Stalls(mailbox', timers)
    BY <2>2, <2>3, OnceStarted
  <2>5. Checks' = Stalls(mailbox', timers \cup {t})
    BY <2>2 DEF Checks
  <2> QED  BY <1>2, <1>3, <2>2, <2>4, <2>5
<1>4. CASE Announces
  <2>1. Room <= Room'
    BY <1>0, <1>4 DEF Announces, Room
  <2>2. Once(mailbox', timers') /\ Checks' \subseteq Checks
    BY <1>3, <1>4 DEF Announces
  <2> QED  BY <1>0, <2>1, <2>2, CountFits
<1>5. CASE Continues
  <2>1. Room <= Room'
    BY <1>0, <1>5 DEF Continues, Room
  <2>2. Once(mailbox', timers') /\ Checks' \subseteq Checks
    <3>1. CASE timers' = timers
      BY <1>2, <1>5, <3>1 DEF Continues, Checks
    <3>2. CASE Started("gga")
      BY <1>3, <1>5, <3>2 DEF Continues
    <3> QED  BY <1>5, <3>1, <3>2 DEF Continues
  <2> QED  BY <1>0, <2>1, <2>2, CountFits
<1>6. CASE Opens
  <2>0. Taken /\ Started("stall")
    BY <1>6 DEF Opens, Taken
  <2>1. Once(mailbox', timers')
    BY <1>3, <2>0
  <2>2. PICK x : Checks' \subseteq Checks \cup {x}
    BY <1>3, <1>6, <2>0 DEF Opens, Checks
  <2>3. /\ IsFiniteSet(Checks') /\ Cardinality(Checks') <= Cardinality(Checks) + 1
        /\ Cardinality(Checks') \in Nat
    BY <1>0, <2>2, CountGrows
  <2>4. Room' = Room + 1
    BY <1>0, <1>6 DEF Opens, Room
  <2> QED  BY <1>0, <2>1, <2>3, <2>4
<1>7. CASE Rechecks
  <2>0. Taken /\ Started("stall") /\ mailbox # <<>> /\ mailbox' = Tail(mailbox)
    BY <1>7 DEF Rechecks, Taken
  <2>1. Once(mailbox', timers')
    BY <1>3, <2>0
  <2>2. Head(mailbox) \in Checks
        /\ Stalls(mailbox', timers) \subseteq Checks \ {Head(mailbox)}
    BY <1>0, <1>7, <2>0, OnceTail DEF Rechecks, Checks
  <2>3. PICK x : Checks' \subseteq (Checks \ {Head(mailbox)}) \cup {x}
    BY <1>3, <2>0, <2>2
  <2>4. /\ IsFiniteSet(Checks') /\ Cardinality(Checks') <= Cardinality(Checks)
        /\ Cardinality(Checks') \in Nat
    BY <1>0, <2>2, <2>3, CountStays
  <2>5. Room <= Room'
    BY <1>0, <1>7 DEF Rechecks, Room
  <2> QED  BY <1>0, <2>1, <2>4, <2>5
<1> QED  BY <1>1, <1>4, <1>5, <1>6, <1>7 DEF Turn

\* The kernel and the clock start none either.
LEMMA AroundCounts ==
    ASSUME CountInv, Kernel \/ Clock \/ UNCHANGED vars
    PROVE  Once(mailbox', timers') /\ IsFiniteSet(Checks') /\ Cardinality(Checks') <= Room'
<1>0. TypeOK /\ mailbox \in Mails /\ timers \in SUBSET Timers /\ Once(mailbox, timers)
  BY DEF CountInv, WakeInv, TypeOK, Mails
<1>1. Room' = Room /\ Room \in Nat
  <2>1. pc' = pc /\ events' = events /\ state'.socket = state.socket
        /\ state'.attempt = state.attempt
    <3>1. CASE Tick
      BY <1>0, <3>1 DEF Tick, TypeOK, States
    <3>2. CASE Kernel \/ (\E t \in timers : Fire(t)) \/ UNCHANGED vars
      BY <3>2 DEF Kernel, PeerData, PeerCloses, SocketFails, Arrives, Fire, vars
    <3> QED  BY <3>1, <3>2 DEF Clock
  <2>2. state.attempt \in Nat
    BY <1>0 DEF TypeOK, States
  <2> QED  BY <2>1, <2>2 DEF Room, Idle, Waiting
<1>2. Once(mailbox', timers') /\ Checks' \subseteq Checks
  <2>1. CASE Tick
    BY <1>0, <2>1, OnceTicked DEF Tick, Checks
  <2>2. CASE \E t \in timers : Fire(t)
    <3>1. PICK t \in timers : Fire(t)
      BY <2>2
    <3>2. mailbox' = Append(mailbox, t.msg) /\ timers' = timers \ {t}
      BY <3>1 DEF Fire
    <3>3. /\ Once(Append(mailbox, t.msg), timers \ {t})
          /\ Stalls(Append(mailbox, t.msg), timers \ {t}) \subseteq Stalls(mailbox, timers)
      BY <1>0, OnceFired
    <3> QED  BY <3>2, <3>3 DEF Checks
  <2>3. CASE UNCHANGED vars
    BY <1>0, <2>3 DEF vars, Checks
  <2>4. CASE Kernel
    <3>0. PICK s \in Sockets : PeerData(s) \/ PeerCloses(s) \/ SocketFails(s)
      BY <2>4 DEF Kernel
    <3> DEFINE a == SocketMessage("data", s)
               b == SocketMessage("closed", s)
               e == SocketMessage("error", s)
    <3>1. /\ {a, b, e} \subseteq SocketMessages
          /\ a.kind # "stall" /\ b.kind # "stall" /\ e.kind # "stall"
      BY DEF SocketMessage, SocketMessages
    <3>2. timers' = timers /\ mailbox' \in {mailbox \o <<a>>, mailbox \o <<b>>, mailbox \o <<e, b>>}
      BY <3>0 DEF PeerData, PeerCloses, SocketFails, Arrives
    <3> HIDE DEF a, b, e
    <3>3. /\ mailbox \o <<a>> = Append(mailbox, a) /\ mailbox \o <<b>> = Append(mailbox, b)
          /\ mailbox \o <<e, b>> = Append(Append(mailbox, e), b)
      BY <1>0, <3>1 DEF Mails
    <3>4. ASSUME NEW x \in {a, b, e}, NEW mb \in Mails, Once(mb, timers)
          PROVE  /\ Once(Append(mb, x), timers) /\ Append(mb, x) \in Mails
                 /\ Stalls(Append(mb, x), timers) \subseteq Stalls(mb, timers)
      BY <3>1, <3>4, OnceAppend
    <3>5. \A x \in {a, b} : /\ Once(Append(mailbox, x), timers)
                            /\ Stalls(Append(mailbox, x), timers) \subseteq Checks
      BY <1>0, <3>4 DEF Checks
    <3>6. /\ Once(Append(mailbox, e), timers) /\ Append(mailbox, e) \in Mails
          /\ Stalls(Append(mailbox, e), timers) \subseteq Checks
      BY <1>0, <3>4 DEF Checks
    <3>7. /\ Once(Append(Append(mailbox, e), b), timers)
          /\ Stalls(Append(Append(mailbox, e), b), timers) \subseteq Checks
      BY <3>4, <3>6
    <3> QED  BY <3>2, <3>3, <3>5, <3>7 DEF Checks
  <2> QED  BY <2>1, <2>2, <2>3, <2>4 DEF Clock
<1> QED  BY <1>1, <1>2, CountFits

\* Every step keeps the :stall_check messages in their room.
LEMMA CountStep == CountInv /\ [Next]_vars => CountInv'
<1> SUFFICES ASSUME CountInv, [Next]_vars PROVE CountInv'
  OBVIOUS
<1>0. WakeInv /\ TypeOK /\ WakeInv' /\ TypeOK'
  BY WakeStep DEF CountInv, WakeInv
<1>1. CASE Process
  <2>1. Turn
    BY <1>0, <1>1, ConnectTurn, HandleInfoTurn, HandleEventTurn DEF Process
  <2> QED  BY <1>0, <2>1, TurnCounts DEF CountInv
<1>2. CASE Kernel \/ Clock \/ UNCHANGED vars
  BY <1>0, <1>2, AroundCounts DEF CountInv
<1> QED  BY <1>1, <1>2 DEF Next, Ended

\* At first there is none.
LEMMA CountInit == Init => CountInv
<1> SUFFICES ASSUME Init PROVE CountInv
  OBVIOUS
<1>1. WakeInv
  BY WakeInit
<1>2. Checks = {} /\ Once(mailbox, timers) /\ Room = 0
  BY DEF Init, Checks, Stalls, Once, Room, Idle
<1> QED  BY <1>1, <1>2, FS_EmptySet DEF CountInv

\* At most one :stall_check for each announced reconnect, and one more.
THEOREM StallChecksBoundedAlways == Spec => []StallChecksBounded
<1>1. CountInv => StallChecksBounded
  <2> SUFFICES ASSUME CountInv PROVE StallChecksBounded
    OBVIOUS
  <2>1. PendingKind("stall") = Checks
    BY DEF PendingKind, Pending, Queued, Checks, Stalls
  <2>2. Cardinality(Checks) \in Nat /\ state.attempt \in Nat /\ Cardinality(Checks) <= Room
    <3>1. IsFiniteSet(Checks) /\ Cardinality(Checks) <= Room
      BY DEF CountInv
    <3>2. state.attempt \in Nat
      BY DEF CountInv, WakeInv, TypeOK, States
    <3> QED  BY <3>1, <3>2, FS_CardinalityType
  <2>3. Room <= state.attempt + 1 /\ Room \in Nat
    BY <2>2 DEF Room
  <2> QED  BY <2>1, <2>2, <2>3 DEF StallChecksBounded
<1> QED  BY <1>1, CountInit, CountStep, PTL DEF Spec

=============================================================================
