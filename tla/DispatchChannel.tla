--------------------------- MODULE DispatchChannel ---------------------------
(***************************************************************************)
(* What the outbox, the streams and the inbox promise together to those    *)
(* who commit an event and to the handlers behind them: an at-least-once   *)
(* channel.  A committed event is open until its handler has succeeded and *)
(* perhaps for a while after that; only an open event is performed, and    *)
(* once closed it never comes back.                                        *)
(***************************************************************************)

CONSTANT Event

VARIABLES
  emitted,   \* events committed so far
  open,      \* events that may still be handed to a handler
  performed  \* events whose handler has succeeded at least once

channel == <<emitted, open, performed>>

ChannelInit == emitted = {} /\ open = {} /\ performed = {}

EmitEvent(e) ==
  /\ e \notin emitted
  /\ emitted' = emitted \union {e}
  /\ open' = open \union {e}
  /\ UNCHANGED performed

Perform(e) ==
  /\ e \in open
  /\ performed' = performed \union {e}
  /\ UNCHANGED <<emitted, open>>

Settle(e) ==
  /\ e \in open \intersect performed
  /\ open' = open \ {e}
  /\ UNCHANGED <<emitted, performed>>

ChannelNext == \E e \in Event : EmitEvent(e) \/ Perform(e) \/ Settle(e)

ChannelSpec == ChannelInit /\ [][ChannelNext]_channel
=============================================================================
