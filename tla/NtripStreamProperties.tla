----------------------- MODULE NtripStreamProperties -----------------------
(* What the NTRIP stream process must keep true, whatever the order in      *)
(* which messages, timers and handlers come.                                *)
EXTENDS NtripStream

\* Every variable has the type the handlers assume.
TypeOK ==
    /\ opts \in Options
    /\ pc \in {"connect", "run", "stopped", "crashed"}
    /\ events \in Seq(Events)
    /\ state \in States
    /\ open \subseteq Sockets
    /\ active \subseteq Sockets
    /\ mailbox \in Seq(SocketMessages \cup TimerMessages)
    /\ timers \subseteq Timers
    /\ sink \in {"none", "payload", "sourcetable", "reconnecting", "down"}

PendingKind(k) == {m \in Pending : m.kind = k}

\* A reconnect was announced, and no connection attempt is under way.
Waiting == pc = "run" /\ events = <<>> /\ state.socket = NoSocket

ConnectTimers == {t \in timers : t.msg.kind = "connect"}
ConnectsQueued == {i \in DOMAIN mailbox : mailbox[i].kind = "connect"}

\* A stream without a connection has its :connect_after_backoff to wake it up,
\* in a timer or in the mailbox, and never two of them; a stream that is
\* connecting or connected has none that would open a second socket over the
\* first (reconnect/2, connect_stream/1).
OneWakeUp ==
    Alive => /\ Waiting <=> (ConnectTimers # {} \/ ConnectsQueued # {})
             /\ \A t, u \in ConnectTimers : t = u
             /\ \A i, j \in ConnectsQueued : i = j
             /\ ConnectTimers = {} \/ ConnectsQueued = {}

\* While there is a socket a :stall_check is on its way, so silence is always
\* noticed: schedule_stall/1 runs at open and after every check that passes.
StallWatched == state.socket # NoSocket => PendingKind("stall") # {}

\* Only the current socket can still put bytes into the mailbox: one forgotten
\* by open_socket/2 or closed by reconnect/2 never becomes active again.
OnlyCurrentActive == active \subseteq {state.socket}

\* :stall_check timers are never cancelled and add up over quick reconnects,
\* but only one for each connection that was announced as lost.
StallChecksBounded == Cardinality(PendingKind("stall")) <= state.attempt + 1

\* A socket the stream gives up is closed, on every path that gives it up, so
\* only a socket that open_socket/2 forgot can be left open behind it.
ReplacedSocketClosed == [][state'.socket # state.socket => state.socket \notin open']_vars

\* The GGA reference is that of a tick on its way, and is set only while there
\* is a connection (or an injected run) to use it: one chain of ticks, never
\* two and never none (schedule_gga/1, reconnect/2, socket_closed/2).
GgaTickCurrent ==
    state.gga_timer_ref # NoRef =>
        /\ TimerMessage("gga", state.gga_timer_ref) \in Pending
        /\ state.socket # NoSocket \/ opts.transport = "injected"

Contract ==
    INSTANCE StreamContract WITH
        phase <- IF ~Alive THEN "ended" ELSE IF Waiting THEN "waiting" ELSE "trying",
        announced <- state.attempt,
        last <- sink,
        budget <- opts.max_reconnects

\* The sink sees announcements numbered without gap and within the budget,
\* payload only from a stream that is trying, and nothing after {:down, _}.
ImplementsContract == Contract!ContractSpec

\* A stream that announced a reconnect does not wait for ever: it tries again
\* (the timer of reconnect/2), or its process has died first, of a message of
\* the socket it gave up that no clause takes.  It does not stop in between.
WaitingRetries == Waiting ~> pc \in {"connect", "crashed"}

\* A connection silent for the stall timeout is given up, unless bytes arrive
\* after all (stall_check/1).
SilenceNoticed ==
    state.socket # NoSocket /\ state.since_rx >= StallTimeout
        ~> state.socket = NoSocket \/ state.since_rx < StallTimeout

\* A stream that has announced a reconnect goes on to wait for it, also with
\* max_reconnects of :infinity (reconnect/2, backoff_ms/2).
AnnouncedMeansWaiting == [][state'.attempt > state.attempt => Waiting']_vars

\* Bytes of a connection the stream gave up do not end the stream.
StaleBytesIgnored == [][HandleForeignData => Alive']_vars

=============================================================================
