-------------------------------- MODULE Relay ---------------------------------
(* The data plane of one endpoint: the libevent loop that copies bytes between *)
(* the UDP socket and the tun device.  The client (ipReflect_start) and the    *)
(* server's child (process) set up the same two bufferevents with the same     *)
(* callbacks, so one module stands for both.                                   *)
(*                                                                             *)
(* A bufferevent has an input and an output buffer.  A read event fills the    *)
(* input with one packet and schedules the read callback, which runs later     *)
(* (BEV_OPT_DEFER_CALLBACKS); the callback __on_recv moves the whole input to  *)
(* the output of the other bufferevent; a write event hands the output to the  *)
(* kernel.  An error turns that direction of that bufferevent off and calls    *)
(* __on_error, which only logs.                                                *)
EXTENDS Naturals, Sequences

CONSTANTS Byte,       \* the values a byte takes
          Packet,     \* the packets the kernel hands over, one per read
          WriteMax,   \* most bytes of one write (libevent: 16384)
          MaxBytes    \* bound of the model: bytes taken from one leg

ASSUME PacketAssumption == Packet \subseteq Seq(Byte) /\ <<>> \notin Packet
ASSUME WriteMaxAssumption == WriteMax \in Nat \ {0}
ASSUME MaxBytesAssumption == MaxBytes \in Nat

VARIABLES input,      \* bytes read from the leg, not yet moved
          output,     \* bytes moved to the leg, not yet written
          enabled,    \* the directions still enabled on the leg's bufferevent
          deferred,   \* the leg's read callback is scheduled
          connected,  \* the UDP socket has a peer (a child may relay without)
          control,    \* the TCP control connection, as this loop sees it
          tunOpen,    \* the tun descriptor is open (the app may close it)
          loop,       \* event_base_dispatch runs, or has returned
          taken,      \* history: every byte read from the leg
          wrote       \* history: every byte written to the leg

vars == <<input, output, enabled, deferred, connected, control, tunOpen, loop,
          taken, wrote>>

Leg == {"udp", "tun"}
Peer(l) == IF l = "udp" THEN "tun" ELSE "udp"

TypeOK ==
  /\ input \in [Leg -> Seq(Byte)]
  /\ output \in [Leg -> Seq(Byte)]
  /\ enabled \in [Leg -> SUBSET {"read", "write"}]
  /\ deferred \in [Leg -> BOOLEAN]
  /\ connected \in BOOLEAN
  /\ control \in {"open", "closed", "seen"}
  /\ tunOpen \in BOOLEAN
  /\ loop \in {"dispatch", "returned"}
  /\ taken \in [Leg -> Seq(Byte)]
  /\ wrote \in [Leg -> Seq(Byte)]

\* The bufferevents as they are when event_base_dispatch is called.  A server
\* child whose first datagram did not carry the nonce gets here unconnected.
Init ==
  /\ input = [l \in Leg |-> <<>>]
  /\ output = [l \in Leg |-> <<>>]
  /\ enabled = [l \in Leg |-> {"read", "write"}]
  /\ deferred = [l \in Leg |-> FALSE]
  /\ connected \in BOOLEAN
  /\ control = "open"
  /\ tunOpen = TRUE
  /\ loop = "dispatch"
  /\ taken = [l \in Leg |-> <<>>]
  /\ wrote = [l \in Leg |-> <<>>]

\* The kernel reports events on leg l.  A descriptor closed behind libevent's
\* back drops out of epoll and never reports again.
Live(l) == loop = "dispatch" /\ (l = "tun" => tunOpen)

\* Slips these handlers could have had, for the mutants of the runs.

\* The error handler also cancels the callback that was scheduled.
ReadFailsCancels(l) ==
  /\ Live(l) /\ "read" \in enabled[l]
  /\ enabled' = [enabled EXCEPT ![l] = @ \ {"read"}]
  /\ deferred' = [deferred EXCEPT ![l] = FALSE]
  /\ UNCHANGED <<input, output, connected, control, tunOpen, loop, taken, wrote>>

\* evbuffer_prepend_buffer for evbuffer_add_buffer.
OnRecvPrepends(l) ==
  /\ loop = "dispatch" /\ deferred[l]
  /\ deferred' = [deferred EXCEPT ![l] = FALSE]
  /\ output' = [output EXCEPT ![Peer(l)] = input[l] \o @]
  /\ input' = [input EXCEPT ![l] = <<>>]
  /\ UNCHANGED <<enabled, connected, control, tunOpen, loop, taken, wrote>>

\* The destination is overwritten instead of added to.
OnRecvOverwrites(l) ==
  /\ loop = "dispatch" /\ deferred[l]
  /\ deferred' = [deferred EXCEPT ![l] = FALSE]
  /\ output' = [output EXCEPT ![Peer(l)] = input[l]]
  /\ input' = [input EXCEPT ![l] = <<>>]
  /\ UNCHANGED <<enabled, connected, control, tunOpen, loop, taken, wrote>>

\* The write leaves what it wrote in the output buffer.
WriteEventKeeps(l) ==
  /\ Live(l) /\ "write" \in enabled[l] /\ output[l] # <<>>
  /\ Len(wrote[l]) < MaxBytes
  /\ wrote' = [wrote EXCEPT ![l] = @ \o SubSeq(output[l], 1, 1)]
  /\ UNCHANGED <<input, output, enabled, deferred, connected, control, tunOpen,
                 loop, taken>>

\* event_base_loopbreak as soon as the control connection is gone.
LoopBreaks ==
  /\ loop = "dispatch" /\ control = "seen"
  /\ loop' = "returned"
  /\ UNCHANGED <<input, output, enabled, deferred, connected, control, tunOpen,
                 taken, wrote>>

\* The handlers.

\* The readiness handler of leg l reads one packet and schedules the callback.
\* A scheduled callback runs before the loop waits for the next readiness.
ReadEvent(l, p) ==
  /\ Live(l)
  /\ "read" \in enabled[l]
  /\ ~deferred[l]
  /\ Len(taken[l]) + Len(p) <= MaxBytes
  /\ input' = [input EXCEPT ![l] = @ \o p]
  /\ taken' = [taken EXCEPT ![l] = @ \o p]
  /\ deferred' = [deferred EXCEPT ![l] = TRUE]
  /\ UNCHANGED <<output, enabled, connected, control, tunOpen, loop, wrote>>

\* A failed or empty read (an ICMP error on the UDP socket, a datagram without
\* data, the interface being removed) stops reading for good; __on_error logs it.
ReadFails(l) ==
  /\ Live(l)
  /\ "read" \in enabled[l]
  /\ enabled' = [enabled EXCEPT ![l] = @ \ {"read"}]
  /\ UNCHANGED <<input, output, deferred, connected, control, tunOpen, loop,
                 taken, wrote>>

\* __on_recv: everything read so far moves to the other leg's output.
OnRecv(l) ==
  /\ loop = "dispatch"
  /\ deferred[l]
  /\ deferred' = [deferred EXCEPT ![l] = FALSE]
  /\ output' = [output EXCEPT ![Peer(l)] = @ \o input[l]]
  /\ input' = [input EXCEPT ![l] = <<>>]
  /\ UNCHANGED <<enabled, connected, control, tunOpen, loop, taken, wrote>>

WritePending(l) == "write" \in enabled[l] /\ output[l] # <<>>

\* How many bytes one write takes: whatever has piled up, up to the cap.
Burst(l) == IF Len(output[l]) < WriteMax THEN Len(output[l]) ELSE WriteMax

\* One writev of the leg's output: one datagram, or one packet for the tun.
WriteEvent(l) ==
  /\ Live(l)
  /\ WritePending(l)
  /\ l = "udp" => connected
  /\ wrote' = [wrote EXCEPT ![l] = @ \o SubSeq(output[l], 1, Burst(l))]
  /\ output' = [output EXCEPT ![l] =
                  SubSeq(output[l], Burst(l) + 1, Len(output[l]))]
  /\ UNCHANGED <<input, enabled, deferred, connected, control, tunOpen, loop,
                 taken>>

\* A failed write (always, on a UDP socket without a peer) stops writing for
\* good; the bytes stay in the output, where the other leg's reads add to them.
WriteFails(l) ==
  /\ Live(l)
  /\ WritePending(l)
  /\ enabled' = [enabled EXCEPT ![l] = @ \ {"write"}]
  /\ UNCHANGED <<input, output, deferred, connected, control, tunOpen, loop,
                 taken, wrote>>

\* The peer closes the control connection, or ipReflect_stop shuts it down.
ControlCloses ==
  /\ control = "open"
  /\ control' = "closed"
  /\ UNCHANGED <<input, output, enabled, deferred, connected, tunOpen, loop,
                 taken, wrote>>

\* __on_tcp_error logs; its event is not persistent, so it is gone afterwards.
OnTcpError ==
  /\ loop = "dispatch"
  /\ control = "closed"
  /\ control' = "seen"
  /\ UNCHANGED <<input, output, enabled, deferred, connected, tunOpen, loop,
                 taken, wrote>>

\* The app closes the tun descriptor while the loop still holds its number.
TunCloses ==
  /\ tunOpen
  /\ tunOpen' = FALSE
  /\ UNCHANGED <<input, output, enabled, deferred, connected, control, loop,
                 taken, wrote>>

\* event_base_dispatch returns only when no event is left: the control event
\* has fired, both reads are off, no callback is scheduled, no write is waiting
\* (on a tun closed meanwhile, a write counts if it was registered before, which
\* is not modelled: the loop may return or stay).
LoopReturns ==
  /\ loop = "dispatch"
  /\ control = "seen"
  /\ \A l \in Leg : /\ "read" \notin enabled[l]
                    /\ ~deferred[l]
                    /\ ~(Live(l) /\ WritePending(l))
  /\ loop' = "returned"
  /\ UNCHANGED <<input, output, enabled, deferred, connected, control, tunOpen,
                 taken, wrote>>

Next ==
  \/ \E l \in Leg, p \in Packet : ReadEvent(l, p)
  \/ \E l \in Leg : ReadFails(l)
  \/ \E l \in Leg : OnRecv(l)
  \/ \E l \in Leg : WriteEvent(l)
  \/ \E l \in Leg : WriteFails(l)
  \/ ControlCloses
  \/ OnTcpError
  \/ TunCloses
  \/ LoopReturns

\* A running loop runs the callbacks it scheduled and serves a leg that stays
\* writable; nothing makes packets arrive or connections close.
Fairness ==
  \A l \in Leg : WF_vars(OnRecv(l)) /\ WF_vars(WriteEvent(l) \/ WriteFails(l))

Spec == Init /\ [][Next]_vars /\ Fairness

-------------------------------------------------------------------------------
(* Properties *)

\* Every byte taken from a leg is in exactly one place on its way to the other,
\* and order is kept: written, waiting to be written, or waiting for __on_recv.
\* Holds across read errors, write errors and the return of the loop.
Conserved ==
  \A l \in Leg : taken[l] = wrote[Peer(l)] \o output[Peer(l)] \o input[l]

\* Bytes read but not yet moved always have a callback coming: a read that
\* failed after them does not strand them in the input buffer.
NoStranded == \A l \in Leg : input[l] # <<>> => deferred[l]

\* Leg l accepts no more bytes: an error disabled it, or its descriptor is gone.
Broken(l) == "write" \notin enabled[l] \/ (l = "tun" /\ ~tunOpen)

\* Every byte taken from one leg is eventually written to the other, whatever
\* fails in the other direction, unless the leg it is headed for breaks.
Drains ==
  \A l \in Leg : \A k \in 1 .. MaxBytes :
    Len(taken[l]) >= k ~> Len(wrote[Peer(l)]) >= k \/ Broken(Peer(l))

\* Each direction of the relay implements the byte pipe.
Uplink == INSTANCE BytePipe WITH sent <- taken["tun"], delivered <- wrote["udp"]
Downlink == INSTANCE BytePipe WITH sent <- taken["udp"], delivered <- wrote["tun"]

\* The packets of the tun reach the UDP socket as one stream of bytes: in
\* order, complete so far, nothing invented.
UplinkIsPipe == Uplink!Spec

\* The same for the datagrams of the UDP socket on their way to the tun.
DownlinkIsPipe == Downlink!Spec

\* Forwarding of IP packets, as the help page describes the mode: what is
\* written to a leg in one go is one packet of the other leg.
PacketBoundary ==
  [][\A l \in Leg : wrote'[l] # wrote[l] =>
       \E p \in Packet : wrote'[l] = wrote[l] \o p]_vars
===============================================================================
