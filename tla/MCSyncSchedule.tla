--------------------------- MODULE MCSyncSchedule ---------------------------
(***************************************************************************)
(* Instances of SyncSchedule: trains that start HIGH or LOW, that meet and  *)
(* part, that end or go on, and one without a LOW phase.                    *)
(***************************************************************************)
EXTENDS SyncSchedule

Train(delay, on, period, count) ==
  [delay |-> delay, on |-> on, period |-> period, count |-> count]

MixedTrains == {Train(0, 2, 3, 1), Train(1, 1, 2, 2), Train(3, 1, 3, 0),
                Train(1, 0, 2, 2)}

\* The same pulse, at once or later.
ShiftedTrains == {Train(1, 1, 2, 1), Train(3, 1, 2, 1)}
=============================================================================
