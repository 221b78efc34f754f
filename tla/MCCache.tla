------------------------------ MODULE MCCache -------------------------------
(* Responses for TLC: no records, an answer that must not be kept, an answer *)
(* with a shorter-lived record in another section, a negative answer.        *)
EXTENDS Cache, TLC

Message(an, ns, ar) == [s \in Sections |-> CASE s = "answers" -> an
                                             [] s = "name_servers" -> ns
                                             [] s = "additionals" -> ar]

MessagesDef == {Message({}, {}, {}), Message({0}, {}, {}),
                Message({2}, {}, {1}), Message({}, {2}, {})}

Symmetry == Permutations(Keys)
=============================================================================
