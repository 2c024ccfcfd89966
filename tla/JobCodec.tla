------------------------------ MODULE JobCodec ------------------------------
(***************************************************************************)
(* How a job is written to a snapshot and read back: the gob encoding of   *)
(* its five fields, with the trigger time as an int64 of nanoseconds since *)
(* 1970, and the delays from which trigger times are made.                 *)
(*                                                                         *)
(* A job is a record with fields id, pri, trigger, ttr and body; encoded   *)
(* data are the sequence of the values in it.  A trigger time held in      *)
(* memory is a time.Time, which has no such bound, hence an integer.       *)
(***************************************************************************)
EXTENDS Integers, Sequences

CONSTANTS
  Half,        \* 2^63: an int64 is in -Half .. Half - 1
  HundredYears \* in nanoseconds, the reach of the past spoke

ASSUME WidthAssumption ==
  /\ Half \in Nat \ {0}
  /\ HundredYears \in 0 .. Half

\* Conversion of an integer to int64
Int64(n) == ((n + Half) % (2 * Half)) - Half

UnixNano(t) == Int64(t)

NoBody == "no body"
DecodeError == "decode error"

GobEncode(job) == <<job.id, job.pri, UnixNano(job.trigger), job.ttr, job.body>>

\* Data that end where the body should begin are a job without one
GobDecode(data) ==
  IF Len(data) < 4
  THEN DecodeError
  ELSE [id |-> data[1], pri |-> data[2], trigger |-> data[3], ttr |-> data[4],
        body |-> IF Len(data) > 4 THEN data[5] ELSE NoBody]

\* The earliest trigger time that a process started at a given time accepts
Horizon(start) == start - HundredYears
=============================================================================
