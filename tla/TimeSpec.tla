------------------------------- MODULE TimeSpec -------------------------------
(***************************************************************************)
(* Time specifications: six components, each a wildcard, a value, a set of *)
(* values, or a value picked at random when the jobfile is activated.  A   *)
(* time is seen through its fields in local time.                          *)
(***************************************************************************)

Components == {"Sec", "Min", "Hour", "Mday", "Mon", "Wday"}

Wildcard == [kind |-> "wildcard"]
OneVal(v) == [kind |-> "one", val |-> v]
SetOf(vs) == [kind |-> "set", vals |-> vs]
Random(vs) == [kind |-> "random", vals |-> vs]

IsWildcard(spec) == spec.kind = "wildcard"

\* Satisfied of the four kinds; that of a random one needs the picked value.
SatisfiedBy(spec, v) ==
  \/ IsWildcard(spec)
  \/ spec.kind = "one" /\ v = spec.val
  \/ spec.kind = "set" /\ v \in spec.vals
  \/ spec.kind = "picked" /\ v = spec.val

\* Derandomize, of a random component, when v is picked.
Derandomized(v) == [kind |-> "picked", val |-> v]

\* What a specification may become.
FullDerandomized(full) ==
  LET random == {k \in Components : full[k].kind = "random"}
      picks  == {v \in [random -> UNION {full[k].vals : k \in random}] :
                   \A k \in random : v[k] \in full[k].vals}
  IN {[k \in Components |-> IF k \in random THEN Derandomized(v[k]) ELSE full[k]] :
        v \in picks}

\* FullTimeSpec.Satisfied: a day must satisfy both day components, or either
\* if neither is a wildcard.
Satisfied(full, time) ==
  LET match(k) == SatisfiedBy(full[k], time[k])
  IN /\ \A k \in {"Sec", "Min", "Hour", "Mon"} : match(k)
     /\ IF ~IsWildcard(full["Mday"]) /\ ~IsWildcard(full["Wday"])
          THEN match("Wday") \/ match("Mday")
          ELSE match("Wday") /\ match("Mday")

=============================================================================
