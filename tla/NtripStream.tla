----------------------------- MODULE NtripStream -----------------------------
(***************************************************************************)
(* The NTRIP stream process, Sidereon.GNSS.Ntrip.Stream: a GenServer that   *)
(* owns one caster connection (lib/sidereon/gnss/ntrip.ex, lines 433-847).  *)
(*                                                                         *)
(* A handler runs alone in its process, but socket, timers and caster go on *)
(* beside it, so a handler is split where that matters: the blocking        *)
(* connect is a state of its own, and the events of one chunk are handled   *)
(* one per step after active: :once was set again.  Time is in ticks.       *)
(*                                                                         *)
(* A definition named Faulty_ is a plausible mistake in the one after it;   *)
(* with it in place a property must fail.                                   *)
(***************************************************************************)
EXTENDS Integers, Sequences, FiniteSets

CONSTANTS
    Sockets, NoSocket,  \* sockets the kernel hands out, and nil; a socket is
                        \* reused only when nothing refers to it any more
    Refs, NoRef,        \* timer references, in the same way
    Unlimited,          \* max_reconnects of nil or :infinity
    Options,            \* the option lists a stream may be started with
    StallTimeout,       \* stall_timeout_s
    StallTick,          \* the one second of min(1_000, timeout)
    GgaInterval,        \* gga interval_s
    BackoffInitial, BackoffFactor, BackoffCap,   \* the reconnect policy
    PowOverflow         \* least exponent at which :math.pow(factor, _) raises

\* What an option list decides.
OptionType ==
    [ config: BOOLEAN,                            \* Ntrip.config accepts it
      transport: {"socket", "injected"},          \* :transport_fun
      mountpoint: BOOLEAN,                        \* :mountpoint is not ""
      gga: BOOLEAN,                               \* :gga is a map
      sink_mode: {"payload", "rtcm", "store"},    \* payload_sink_mode/1
      max_reconnects: Nat \cup {Unlimited} ]

ASSUME ConstantsAssumption ==
    /\ NoSocket \notin Sockets
    /\ NoRef \notin Refs
    /\ Unlimited \notin Nat
    /\ Options \subseteq OptionType
    /\ {StallTimeout, StallTick, GgaInterval} \subseteq Nat \ {0}
    /\ {BackoffInitial, BackoffFactor, BackoffCap} \subseteq Nat \ {0}
    /\ PowOverflow \in Nat
    /\ \A n \in 0..PowOverflow : BackoffFactor^n \in Nat   \* the powers below it exist

VARIABLES
    opts,       \* the options, never changed
    pc,         \* "connect" (in connect_stream/1), "run", "stopped", "crashed"
    events,     \* events of the chunk in hand; empty between two handlers
    state,      \* the GenServer state; last_rx is kept as the ticks since it,
                \* and transport is nil exactly when socket is nil
    open,       \* sockets of the process the kernel holds open
    active,     \* those in active: :once mode
    mailbox,    \* messages of the process, in order of arrival
    timers,     \* started by Process.send_after and not yet delivered
    sink        \* kind of the last message sent to the sink

vars == <<opts, pc, events, state, open, active, mailbox, timers, sink>>

\* "run_ended" is the end of an injected run, after its last event.
Events == {"connected", "payload", "sourcetable", "rejected",
           "stream_corrupted", "stream_ended", "run_ended"}

States == [ socket: Sockets \cup {NoSocket},
            machine: {"nil", "handshake", "streaming", "closed"},
            attempt: Nat,
            since_rx: 0..StallTimeout,
            gga_timer_ref: Refs \cup {NoRef} ]

SocketMessages == [kind: {"data", "closed", "error"}, sock: Sockets, ref: {NoRef}]
TimerMessages == [kind: {"stall", "connect", "gga"}, sock: {NoSocket}, ref: Refs]
Timers == [msg: TimerMessages, left: Nat]

SocketMessage(k, s) == [kind |-> k, sock |-> s, ref |-> NoRef]
TimerMessage(k, r) == [kind |-> k, sock |-> NoSocket, ref |-> r]

Queued == {mailbox[i] : i \in DOMAIN mailbox}
\* Everything that was sent to the process, or will be by a timer.
Pending == Queued \cup {t.msg : t \in timers}

FreshSockets == Sockets \ (open \cup {state.socket} \cup {m.sock : m \in Queued})
FreshRefs == Refs \ ({state.gga_timer_ref} \cup {m.ref : m \in Pending})

MinOf(a, b) == IF a < b THEN a ELSE b

send_after(k, r, delay) ==
    /\ r \in FreshRefs
    /\ r = CHOOSE x \in FreshRefs : TRUE
    /\ timers' = timers \cup {[msg |-> TimerMessage(k, r), left |-> delay]}

backoff(n) == MinOf(BackoffCap, BackoffInitial * BackoffFactor^(n - 1))

Faulty_schedule_stall == UNCHANGED timers
schedule_stall == \E r \in Refs : send_after("stall", r, MinOf(StallTick, StallTimeout))

-----------------------------------------------------------------------------
(* The ends of a handler that gives the connection up.                      *)

\* Written as %{socket: nil, ...} for %{state | socket: nil, ...}: the other fields
\* are lost.
Faulty_Unconnected_dropped(st) == [socket |-> NoSocket, gga_timer_ref |-> NoRef]
Faulty_Unconnected_tick(st) == [st EXCEPT !.socket = NoSocket]
Unconnected(st) == [st EXCEPT !.socket = NoSocket, !.gga_timer_ref = NoRef]

\* The process is gone: its sockets close, its mailbox and timers vanish.
Terminate(how) ==
    /\ pc' = how
    /\ events' = <<>>
    /\ open' = {} /\ active' = {}
    /\ mailbox' = <<>> /\ timers' = {}
    /\ UNCHANGED opts

down ==
    /\ Terminate("stopped")
    /\ sink' = "down"
    /\ state' = Unconnected(state)

\* An exception no clause handles: no {:down, reason}.
crash ==
    /\ Terminate("crashed")
    /\ state' = Unconnected(state)
    /\ UNCHANGED sink

Faulty_Exhausted ==
    /\ opts.max_reconnects # Unlimited
    /\ state.attempt > opts.max_reconnects
Exhausted ==
    /\ opts.max_reconnects # Unlimited
    /\ state.attempt >= opts.max_reconnects

\* reconnect/2, with rest as the mailbox and held as the sockets left open.
\* The announcement precedes the computation of the delay, which may raise:
\* its exponent is the number of earlier attempts.
reconnect(rest, held) ==
    \/ Exhausted /\ down
    \/ /\ ~Exhausted
       /\ sink' = "reconnecting"
       /\ state' = [Unconnected(state) EXCEPT !.attempt = @ + 1, !.machine = "handshake"]
       /\ \/ /\ state.attempt >= PowOverflow
             /\ Terminate("crashed")
          \/ /\ state.attempt < PowOverflow
             /\ \E r \in Refs : send_after("connect", r, backoff(state.attempt + 1))
             /\ pc' = "run" /\ events' = <<>>
             /\ open' = held /\ active' = active \cap held
             /\ mailbox' = rest
             /\ UNCHANGED opts

Faulty_Abandon(rest) == reconnect(rest, open)
\* reconnect/2 on the current socket, which it closes.
Abandon(rest) == reconnect(rest, open \ {state.socket})

-----------------------------------------------------------------------------
(* connect_stream/1.                                                        *)

Init ==
    /\ opts \in Options
    /\ pc = "connect"                 \* {:continue, :connect}
    /\ events = <<>>
    /\ state = [socket |-> NoSocket, machine |-> "nil", attempt |-> 0,
                since_rx |-> 0, gga_timer_ref |-> NoRef]
    /\ open = {} /\ active = {}
    /\ mailbox = <<>> /\ timers = {}
    /\ sink = "none"

ConnectRefusedByConfig == pc = "connect" /\ ~opts.config /\ down

Connecting(transport) == pc = "connect" /\ opts.config /\ opts.transport = transport

\* Ntrip.connect, or the :transport_fun, returns an error.
ConnectFails ==
    /\ Connecting("socket") \/ Connecting("injected")
    /\ reconnect(mailbox, open)

\* Sending the request, or setopts, fails: open_socket/2 forgets the new
\* socket without closing it.
ConnectSendFails ==
    /\ Connecting("socket")
    /\ \E s \in FreshSockets :
         /\ s = CHOOSE x \in FreshSockets : TRUE
         /\ reconnect(mailbox, open \cup {s})

ConnectOpens ==
    /\ Connecting("socket")
    /\ \E s \in FreshSockets :
         /\ s = CHOOSE x \in FreshSockets : TRUE
         /\ state' = [state EXCEPT !.socket = s, !.machine = "handshake"]
         /\ open' = open \cup {s} /\ active' = active \cup {s}
    /\ schedule_stall
    /\ pc' = "run"
    /\ UNCHANGED <<opts, events, mailbox, sink>>

\* The protocol machine of the core: the events that bytes, and their end, may
\* give in each of its phases, and the phase that follows.
PushEvents(m) ==
    CASE m = "handshake" -> { <<>>, <<"connected">>, <<"connected", "payload">>,
                              <<"connected", "stream_corrupted">>,
                              <<"sourcetable">>, <<"rejected">> }
      [] m = "streaming" -> { <<>>, <<"payload">>, <<"payload", "stream_corrupted">>,
                              <<"stream_ended">> }
      [] OTHER -> { <<>> }

FinishEvents(m) ==
    CASE m = "handshake" -> { <<>>, <<"sourcetable">>, <<"rejected">> }
      [] m = "streaming" -> { <<>>, <<"stream_ended">> }
      [] OTHER -> { <<>> }

MachineAfter(m, evs) ==
    IF evs = <<>> THEN m
    ELSE IF evs[Len(evs)] \in {"connected", "payload"} THEN "streaming"
    ELSE "closed"

\* run_injected/3: all the bytes of the connection at once, without a socket.
InjectedReplies ==
    /\ Connecting("injected")
    /\ \E evs \in PushEvents("handshake") :
         /\ events' = Append(evs, "run_ended")
         /\ state' = [state EXCEPT !.machine = MachineAfter("handshake", evs)]
    /\ pc' = "run"
    /\ UNCHANGED <<opts, open, active, mailbox, timers, sink>>

-----------------------------------------------------------------------------
(* handle_info/2, one clause per message at the head of the mailbox.        *)

Receives(k) ==
    /\ pc = "run" /\ events = <<>>
    /\ mailbox # <<>> /\ Head(mailbox).kind = k

Current == Head(mailbox).sock = state.socket

Dropped ==
    /\ mailbox' = Tail(mailbox)
    /\ UNCHANGED <<opts, pc, events, state, open, active, timers, sink>>

\* {:tcp, socket, bytes}, {:ssl, socket, bytes}: the socket is made active
\* again before its bytes are handled.
HandleData ==
    /\ Receives("data") /\ Current
    /\ mailbox' = Tail(mailbox)
    /\ active' = active \cup ({state.socket} \cap open)
    /\ \E evs \in PushEvents(state.machine) :
         /\ events' = evs
         /\ state' = [state EXCEPT !.machine = MachineAfter(@, evs), !.since_rx = 0]
    /\ UNCHANGED <<opts, pc, open, timers, sink>>

\* No clause takes the bytes of another socket, nor {:tcp_error, _, _}.
HandleForeignData == Receives("data") /\ ~Current /\ crash

HandleSocketError == Receives("error") /\ crash

\* socket_closed/2: what the machine still has to give, then :stream_ended.
HandleClosed ==
    /\ Receives("closed") /\ Current
    /\ mailbox' = Tail(mailbox)
    /\ \E evs \in FinishEvents(state.machine) :
         /\ events' = Append(evs, "stream_ended")
         /\ state' = [Unconnected(state) EXCEPT !.machine = MachineAfter(@, evs)]
    /\ UNCHANGED <<opts, pc, open, active, timers, sink>>

HandleForeignClosed == Receives("closed") /\ ~Current /\ Dropped

Faulty_HandleStallCheckUnconnected ==
    Receives("stall") /\ state.socket = NoSocket /\ Abandon(Tail(mailbox))
HandleStallCheckUnconnected ==
    Receives("stall") /\ state.socket = NoSocket /\ Dropped

HandleStallCheck ==
    /\ Receives("stall") /\ state.socket # NoSocket
    /\ \/ /\ state.since_rx >= StallTimeout
          /\ Abandon(Tail(mailbox))
       \/ /\ state.since_rx < StallTimeout
          /\ schedule_stall
          /\ mailbox' = Tail(mailbox)
          /\ UNCHANGED <<opts, pc, events, state, open, active, sink>>

Faulty_HandleConnectAfterBackoff == Receives("connect") /\ Dropped
HandleConnectAfterBackoff ==
    /\ Receives("connect")
    /\ mailbox' = Tail(mailbox)
    /\ pc' = "connect"
    /\ UNCHANGED <<opts, events, state, open, active, timers, sink>>

\* send_gga/1 failed to send (reconnect), or has no usable position (stop).
GgaFails(rest) ==
    /\ opts.gga /\ state.socket # NoSocket
    /\ Abandon(rest) \/ down

schedule_gga ==
    \/ /\ ~opts.gga
       /\ state' = [state EXCEPT !.gga_timer_ref = NoRef]
       /\ UNCHANGED timers
    \/ /\ opts.gga
       /\ \E r \in Refs :
            /\ send_after("gga", r, GgaInterval)
            /\ state' = [state EXCEPT !.gga_timer_ref = r]

CurrentTick == Head(mailbox).ref = state.gga_timer_ref

HandleGgaTick ==
    /\ Receives("gga") /\ CurrentTick
    /\ \/ GgaFails(Tail(mailbox))
       \/ /\ schedule_gga
          /\ mailbox' = Tail(mailbox)
          /\ UNCHANGED <<opts, pc, events, open, active, sink>>

HandleStaleGgaTick == Receives("gga") /\ ~CurrentTick /\ Dropped

-----------------------------------------------------------------------------
(* handle_event/2.                                                          *)

NextEvent(e) == pc = "run" /\ events # <<>> /\ Head(events) = e

EventDone ==
    /\ events' = Tail(events)
    /\ UNCHANGED <<opts, pc, open, active, mailbox>>

Delivered(msg) == EventDone /\ sink' = msg /\ UNCHANGED <<state, timers>>

Faulty_EventConnected ==
    /\ NextEvent("connected")
    /\ schedule_stall /\ EventDone /\ UNCHANGED <<state, sink>>
EventConnected ==
    /\ NextEvent("connected")
    /\ \/ GgaFails(mailbox)
       \/ schedule_gga /\ EventDone /\ UNCHANGED sink

\* With sink_mode :store the bytes go to the SSR store, whose error stops the
\* stream.
EventPayload ==
    /\ NextEvent("payload")
    /\ \/ opts.sink_mode # "store" /\ Delivered("payload")
       \/ opts.sink_mode = "store" /\ (Delivered(sink) \/ down)

EventSourcetable ==
    /\ NextEvent("sourcetable")
    /\ \/ opts.mountpoint /\ down
       \/ ~opts.mountpoint /\ Delivered("sourcetable")

EventTerminal == (NextEvent("rejected") \/ NextEvent("run_ended")) /\ down

EventStreamLost ==
    /\ NextEvent("stream_corrupted") \/ NextEvent("stream_ended")
    /\ Abandon(mailbox)

-----------------------------------------------------------------------------
(* The kernel, the caster and the clock.                                    *)

\* active: :once hands over one message and makes the socket passive.
Arrives(s, msgs) ==
    /\ s \in active
    /\ active' = active \ {s}
    /\ mailbox' = mailbox \o msgs
    /\ UNCHANGED <<opts, pc, events, state, timers, sink>>

PeerData(s) == Arrives(s, <<SocketMessage("data", s)>>) /\ UNCHANGED open

PeerCloses(s) == Arrives(s, <<SocketMessage("closed", s)>>) /\ open' = open \ {s}

\* {:tcp_error, socket, reason} and then {:tcp_closed, socket}.
SocketFails(s) ==
    /\ Arrives(s, <<SocketMessage("error", s), SocketMessage("closed", s)>>)
    /\ open' = open \ {s}

Alive == pc \in {"connect", "run"}

Tick ==
    /\ Alive
    /\ \A t \in timers : t.left > 0
    /\ timers' = {[t EXCEPT !.left = @ - 1] : t \in timers}
    /\ state' = [state EXCEPT !.since_rx = MinOf(@ + 1, StallTimeout)]
    /\ UNCHANGED <<opts, pc, events, open, active, mailbox, sink>>

Fire(t) ==
    /\ t.left = 0
    /\ timers' = timers \ {t}
    /\ mailbox' = Append(mailbox, t.msg)
    /\ UNCHANGED <<opts, pc, events, state, open, active, sink>>

Connect == ConnectRefusedByConfig \/ ConnectFails \/ ConnectSendFails
           \/ ConnectOpens \/ InjectedReplies

HandleInfo == HandleData \/ HandleForeignData \/ HandleSocketError
              \/ HandleClosed \/ HandleForeignClosed
              \/ HandleStallCheckUnconnected \/ HandleStallCheck
              \/ HandleConnectAfterBackoff
              \/ HandleGgaTick \/ HandleStaleGgaTick

HandleEvent == EventConnected \/ EventPayload \/ EventSourcetable
               \/ EventTerminal \/ EventStreamLost

Process == Connect \/ HandleInfo \/ HandleEvent

Kernel == \E s \in Sockets : PeerData(s) \/ PeerCloses(s) \/ SocketFails(s)

Clock == Tick \/ \E t \in timers : Fire(t)

\* Once the process is gone nothing happens any more.
Ended == ~Alive /\ UNCHANGED vars

Next == Process \/ Kernel \/ Clock \/ Ended

Spec == Init /\ [][Next]_vars

\* The process runs whenever it has something to do (a blocking connect ends
\* by its timeout) and time passes and delivers what is due.  Nothing is
\* assumed of the caster.
FairSpec == Spec /\ WF_vars(Process) /\ WF_vars(Clock)

=============================================================================
