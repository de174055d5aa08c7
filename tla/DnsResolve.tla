----------------------------- MODULE DnsResolve -----------------------------
(***************************************************************************)
(* Which host names an answer of dig resolves (package dnsresolve). A line *)
(* is a message of dig, an address of a name, or something else such as an *)
(* alias; names are compared without regard to case, so that a name stands *)
(* for all its spellings.                                                  *)
(***************************************************************************)
EXTENDS Integers, SequencesExt

CONSTANT InvalidNames       \* names that are empty or contain whitespace

Message == [kind |-> "message"]
Address(name, ip) == [kind |-> "address", name |-> name, ip |-> ip]
Alias(name) == [kind |-> "alias", name |-> name]

(* Fault: an alias resolves its name.                                      *)
AnyAnswer(unresolved, line) ==
    IF line.kind = "message" THEN unresolved ELSE unresolved \ {line.name}

(* The names that are left to resolve after a line.                        *)
Answer(unresolved, line) ==
    IF line.kind # "address" THEN unresolved ELSE unresolved \ {line.name}

Resolved(addresses) == [resolved |-> addresses, err |-> FALSE]
Error == [resolved |-> {}, err |-> TRUE]

(* resolve: dig either fails or exits with the lines of its output. The    *)
(* addresses are returned sorted: a bag, here the lines they came from.    *)
resolve(hostnames, lines, digFails) ==
    IF hostnames = <<>> THEN Resolved({})
    ELSE IF \/ ToSet(hostnames) \cap InvalidNames # {}
            \/ digFails
            \/ FoldLeft(Answer, ToSet(hostnames), lines) # {}
    THEN Error
    ELSE Resolved({i \in DOMAIN lines : lines[i].kind = "address"})
=============================================================================
