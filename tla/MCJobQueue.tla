------------------------------ MODULE MCJobQueue ------------------------------
(***************************************************************************)
(* A small instance of JobQueue for TLC: a minute of two seconds, an hour  *)
(* of two minutes, days of four seconds, a week of two days.               *)
(***************************************************************************)
EXTENDS JobQueue

CONSTANTS often, seldom

TwoJobs == {often, seldom}

Fields(s) == [Sec |-> s % 2, Min |-> (s \div 2) % 2, Hour |-> 0,
              Mday |-> 1 + s \div 4, Mon |-> 1, Wday |-> (s \div 4) % 2]

SmallCalendar == [s \in 0..(SecondOf(MaxTime) + 2 * Horizon) |-> Fields(s)]

Any == [k \in Components |-> Wildcard]

\* Every second of the first day; once in two minutes, at a minute picked at
\* random, on the first day or the second day of the week.  Both then have no
\* time within the horizon.
SmallSpecs ==
  [j \in Jobs |->
     IF j = often THEN [Any EXCEPT !["Mday"] = OneVal(1)]
     ELSE [Any EXCEPT !["Sec"] = OneVal(1), !["Min"] = Random({0, 1}),
                      !["Mday"] = SetOf({1, 4}), !["Wday"] = OneVal(1)]]

=============================================================================
