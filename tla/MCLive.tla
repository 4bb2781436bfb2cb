-------------------------------- MODULE MCLive --------------------------------
(***************************************************************************)
(* Live with every fault, on every schedule that is executable but for its *)
(* last transition.                                                        *)
(***************************************************************************)
EXTENDS Live

MCKey == {T(w, n) : w \in {"A", "B"}, n \in {0, 1}}

MCProgram ==
    {[fault |-> f, worker |-> "A", at |-> "nowhere"] : f \in {"none", "mutex"}}
        \cup Fault("panic", {"gate0", "check", "gate1", "act", "end"})
        \cup Fault("return", {"gate0", "gate1"})
        \cup Fault("skip", {"gate0"})

\* The transitions of w in s.
Count(s, w) == Cardinality({i \in DOMAIN s : s[i].worker = w})

\* Executable schedules of n transitions.
MCRuns ==
    LET R[n \in 0..4] ==
            IF n = 0 THEN {<<>>}
            ELSE UNION {{Append(s, t) :
                            t \in {T(w, Count(s, w)) : w \in {"A", "B"}} \cap MCKey}
                           : s \in R[n-1]}
    IN  R

MCScript ==
    UNION {MCRuns[n] : n \in 0..4}
        \cup {Append(s, t) : s \in UNION {MCRuns[n] : n \in 0..3}, t \in MCKey}
=============================================================================
