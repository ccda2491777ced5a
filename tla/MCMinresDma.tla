----------------------------- MODULE MCMinresDma -----------------------------
(* Programs for the two channels of MinresDma for TLC: no segment, one, and   *)
(* two segments whose addresses wrap around a four-address space.             *)
EXTENDS MinresDma

MCStarts == {NoStart, [src |-> 1, dst |-> 3, count |-> 2]}
ShortStarts == {NoStart, [src |-> 0, dst |-> 2, count |-> 1]}

TwoStrides == {NoStride, [src |-> 1, dst |-> 2]}
OneStride  == {NoStride}

(* Everything masked, everything enabled, one bit of each kind. *)
MCIeWrites == {{}, Bits, {SegDone(0), Done(1)}}
TwoIeWrites == {{}, Bits}
=============================================================================
