----------------------------- MODULE TraceBuffer -----------------------------
(***************************************************************************)
(* The bounded why-trace buffer of the run driver (eventBuffer, main.go).  *)
(* A buffer value is the struct: the queued events, oldest first, and the  *)
(* count of events trimmed since the last report.  Everything here is a    *)
(* function from a buffer to the buffer the method leaves behind.          *)
(***************************************************************************)
EXTENDS Integers, Sequences

CONSTANTS
    MaxEvents,    \* eventBufferMaxEvents (5000 in the code)
    TrimEvents    \* eventBufferTrimEvents (500 in the code)

ASSUME BufferLimits == /\ MaxEvents \in Nat \ {0}
                       /\ TrimEvents \in 0..MaxEvents

NewBuffer == [evs |-> <<>>, dropped |-> 0]

enforceLimit_Uncounted(b) ==
    IF Len(b.evs) <= MaxEvents THEN b
    ELSE [b EXCEPT !.evs = SubSeq(@, Len(@) - (MaxEvents - TrimEvents) + 1, Len(@))]

enforceLimit_Negative(b) ==
    IF Len(b.evs) <= MaxEvents THEN b
    ELSE [evs |-> SubSeq(b.evs, 1, MaxEvents - TrimEvents),
          dropped |-> b.dropped + (MaxEvents - TrimEvents) - Len(b.evs)]

\* Over the limit, cut the OLDEST events down to Max - Trim and count them.
enforceLimit(b) ==
    LET drop == Len(b.evs) - (MaxEvents - TrimEvents)
    IN  IF Len(b.evs) <= MaxEvents
        THEN b
        ELSE [evs     |-> SubSeq(b.evs, drop + 1, Len(b.evs)),
              dropped |-> b.dropped + drop]

\* Emit of a why-trace event; housekeeping types never reach the buffer.
Emit(b, e) == enforceLimit([b EXCEPT !.evs = Append(@, e)])

drain_Keeps(b) == b
drain(b) == [b EXCEPT !.evs = <<>>]

takeDropped(b) == [b EXCEPT !.dropped = 0]

restore_Behind(b, evs) == enforceLimit([b EXCEPT !.evs = @ \o evs])

\* Re-queue a drained batch AHEAD of what was buffered since.
restore(b, evs) == enforceLimit([b EXCEPT !.evs = evs \o @])

=============================================================================
