--------------------------- MODULE BlocklistRules ---------------------------
(***************************************************************************)
(* The rules of the blocklist: parse_line and BlocklistEngine in           *)
(* src/src/blocklist.rs.  Matching works on the text of a name, dots and   *)
(* all, so a domain is a sequence of characters here; the rest of a line   *)
(* is abstracted to the marks parse_line looks for.                        *)
(***************************************************************************)
EXTENDS Sequences, Naturals

CONSTANTS Chars,      \* the characters of domains, "." and "*" among them
          Lower       \* char::to_lowercase

ASSUME RulesAssumption == Lower \in [Chars -> Chars]

\* A line of a list: nothing, a comment, a rule with a modifier or a cosmetic
\* marker, or a rule: ||domain^, an address and a domain, or a domain.
Lines == [mark : {"blank", "comment", "modifier", "rule"}, exception : BOOLEAN,
          form : {"adblock", "hosts", "plain"}, text : Seq(Chars)]

normalize_domain(text) == [i \in DOMAIN text |-> Lower[text[i]]]

\* A dot, and none of the marks of a path or a pattern ("*" stands for all of them).
looks_like_domain(text) == /\ \E i \in DOMAIN text : text[i] = "."
                           /\ \A i \in DOMAIN text : text[i] # "*"

\* What a line says: skip it, block or except a domain, or it is not supported.
parse_line(line) ==
    IF line.mark \in {"blank", "comment"}
      THEN [kind |-> "Skip", domain |-> <<>>]
    ELSE IF line.mark = "modifier" \/ ~looks_like_domain(normalize_domain(line.text))
      THEN [kind |-> "Unsupported", domain |-> <<>>]
    ELSE [kind |-> IF line.exception THEN "Exception" ELSE "Block",
          domain |-> normalize_domain(line.text)]

\* BlocklistEngine::default and ParseReport::default
NoRules == [blocks |-> {}, exceptions |-> {}, total |-> 0, unsupported |-> 0]

\* insert_rule: what an allow list blocks is an exception.
IsException(kind, target) == kind = "Exception" \/ (kind = "Block" /\ target = "Allow")

IsBlock(kind, target) == kind = "Block" /\ target = "Block"

\* The engine after one more line of a list of the given kind (load_paths).
load_line(engine, target, line) ==
    LET p == parse_line(line)
    IN  [blocks      |-> engine.blocks \cup
                             {d \in {p.domain} : IsBlock(p.kind, target)},
         exceptions  |-> engine.exceptions \cup
                             {d \in {p.domain} : IsException(p.kind, target)},
         total       |-> engine.total + 1,
         unsupported |-> engine.unsupported + (IF p.kind = "Unsupported" THEN 1 ELSE 0)]

-----------------------------------------------------------------------------
\* Mutant: a suffix may start inside a label.
domain_suffixes_Anywhere(domain) ==
    {SubSeq(domain, i, Len(domain)) : i \in 1 .. Len(domain)}

\* domain_suffixes: the domain, and what follows each of its dots.
domain_suffixes(domain) ==
    {SubSeq(domain, i, Len(domain)) :
        i \in {j \in 1 .. Len(domain) : j = 1 \/ domain[j - 1] = "."}}

rule_matches(rules, domain) == domain_suffixes(domain) \cap rules # {}

\* BlocklistEngine::decide: an exception beats a block.
decide(engine, domain) ==
    LET name == normalize_domain(domain)
    IN  IF rule_matches(engine.exceptions, name)  THEN "Exception"
        ELSE IF rule_matches(engine.blocks, name) THEN "Block"
        ELSE "Allow"

-----------------------------------------------------------------------------
\* The reference.  A rule covers its domain and the names below it: those that
\* end in a dot and the domain.
Covers(domain, name) ==
    \/ name = domain
    \/ \E k \in 1 .. Len(name) :
           /\ k + Len(domain) = Len(name)
           /\ name[k] = "."
           /\ \A i \in DOMAIN domain : name[k + i] = domain[i]

\* Some line of the lists is a rule of the given kind that covers the name.
Listed(lists, name, IsKind(_, _)) ==
    \E i \in DOMAIN lists :
        LET p == parse_line(lists[i].line)
        IN  IsKind(p.kind, lists[i].target) /\ Covers(p.domain, normalize_domain(name))
=============================================================================
