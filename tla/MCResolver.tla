----------------------------- MODULE MCResolver -----------------------------
(* The TLC instance of Resolver. *)
EXTENDS Resolver, TLC

CONSTANTS n1, n2

Records(an, ns) == [answers |-> an, name_servers |-> ns, additionals |-> {}]

\* An answer for one second.
AnswersDef == {Records({1}, {})}

\* A blocked query of another type than A and AAAA has only an SOA.
BlockedDef == Records({}, {1})

WidthDef == [f \in {"v4", "v6"} |-> 2]

Ip(family, bits) == [family |-> family, bits |-> bits]

PrivateDef == {Ip("v6", 3)}

Query(name, ecs) == [name |-> name, ecs |-> ecs]

Given == [family |-> "v4", prefix |-> 2, bits |-> 3]

\* One name from either half of the IPv4 space; another name with an option of its
\* own, from a private address.
ArrivalsDef == {[query |-> Query(n1, NoEcs), ip |-> Ip("v4", 1)],
                [query |-> Query(n1, NoEcs), ip |-> Ip("v4", 2)],
                [query |-> Query(n2, Given), ip |-> Ip("v6", 3)]}

Edns(on, keep, private, p4, p6) ==
    [enabled |-> on, preserve_client |-> keep, exclude_private |-> private,
     prefix |-> [f \in {"v4", "v6"} |-> IF f = "v4" THEN p4 ELSE p6]]

\* Off; as usual; and with no prefix for IPv4, hiding nobody and keeping nothing.
EdnsConfigsDef == {Edns(FALSE, TRUE, TRUE, 1, 1), Edns(TRUE, TRUE, TRUE, 1, 2),
                   Edns(TRUE, FALSE, FALSE, 0, 1)}

RuleSetsDef == {{}, {n1}}

QuestionsDef == {query_with_ecs(a.query, a.ip, e) : a \in ArrivalsDef, e \in EdnsConfigsDef}
KeysDef == {[name |-> q.name, ecs |-> q.ecs] : q \in QuestionsDef}
=============================================================================
