-------------------------------- MODULE ScFifo --------------------------------
(***************************************************************************)
(* The channel sc_fifo as the serial blocks use it.  What is written can   *)
(* be read, and what is read makes room, from the next delta cycle on.     *)
(***************************************************************************)
EXTENDS Naturals, Sequences

EmptyFifo == [q |-> <<>>, new |-> <<>>, freed |-> 0]

num_available(f)   == Len(f.q)
num_free(f, depth) == depth - Len(f.q) - f.freed - Len(f.new)

(* A write to a full channel does nothing. *)
nb_write(f, x, depth) ==
  IF num_free(f, depth) > 0 THEN [f EXCEPT !.new = Append(@, x)] ELSE f

nb_read(f) == [f EXCEPT !.q = Tail(@), !.freed = @ + 1]

(* The update phase; data_written_event is notified if something is new. *)
Settled(f)   == f.new = <<>> /\ f.freed = 0
SettledOf(f) == [q |-> f.q \o f.new, new |-> <<>>, freed |-> 0]

Held(f) == f.q \o f.new
=============================================================================
