----------------------------- MODULE MCRealtime -----------------------------
(* Realtime with two events that the two implementations of a filter see    *)
(* differently, filters that are valid, blank or invalid, and a valid and an *)
(* invalid command.                                                         *)
EXTENDS Realtime

NoFilter == [device |-> Absent, topic |-> Absent, prefix |-> Absent,
             type |-> Absent, route |-> Absent]

MCEvents ==
  {[topic |-> <<"devices", "a", "telemetry">>, device |-> <<"a">>,
    type |-> <<"telemetry">>, route |-> <<"r1">>],
   [topic |-> <<"devices", "ab", "event", "x">>, device |-> Absent,
    type |-> <<"reading">>, route |-> <<"r2">>]}

MCFilters ==
  {NoFilter,
   [NoFilter EXCEPT !.prefix = <<"devices", "a">>, !.device = <<"">>],
   [NoFilter EXCEPT !.topic = <<"devices", "+">>]}

MCRequests ==
  {[device |-> <<"a">>, command |-> <<"on">>, size |-> 1],
   [device |-> <<"a", "b">>, command |-> <<"on">>, size |-> 1]}
=============================================================================
