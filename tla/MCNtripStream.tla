---------------------------- MODULE MCNtripStream ----------------------------
(* Small option lists and bounds for NtripStream.                           *)
EXTENDS NtripStreamProperties

BaseOption ==
    [ config |-> TRUE, transport |-> "socket", mountpoint |-> TRUE,
      gga |-> FALSE, sink_mode |-> "payload", max_reconnects |-> 1 ]

\* The options that change the control flow, one at a time.
MCOptions ==
    { BaseOption,
      [BaseOption EXCEPT !.gga = TRUE],
      [BaseOption EXCEPT !.sink_mode = "store", !.mountpoint = FALSE],
      [BaseOption EXCEPT !.transport = "injected", !.gga = TRUE],
      [BaseOption EXCEPT !.config = FALSE],
      [BaseOption EXCEPT !.max_reconnects = Unlimited] }

MCPlainOptions == { [BaseOption EXCEPT !.max_reconnects = Unlimited] }

=============================================================================
