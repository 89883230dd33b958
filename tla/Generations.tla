----------------------------- MODULE Generations -----------------------------
(***************************************************************************)
(* How agy-tokei counts the generations of one conversation.  A usage      *)
(* message names its generation by up to three aliases; steps, retries and *)
(* gen_metadata repeat it, and an event may acquire a response identifier  *)
(* that earlier events of the same generation lack.  ReadConversation      *)
(* joins the aliases, merges the counters and leaves out what bears no     *)
(* tokens.                                                                 *)
(*                                                                         *)
(* A usage is [ids, idx, tok]: its aliases in the order of                 *)
(* primaryIdentity, the index of its row, and its counters.  An alias is a *)
(* number whose hundreds give its prefix, so that < is the lexical order.  *)
(***************************************************************************)
EXTENDS Integers, SequencesExt

Counters == {"input", "visible", "reasoning", "output"}
Zero == [k \in Counters |-> 0]

\* message: < provider: < response:
Prefix(id) == id \div 100
MessagePrefix == 0
ResponsePrefix == 2

Larger(a, b) == IF a < b THEN b ELSE a

\* IsTokenBearing, of a usage or a record.
TokenBearing(tok) == \E k \in Counters : tok[k] > 0

\* Total output covers the known output components.
Normalize(tok) == [tok EXCEPT !.output = Larger(@, tok.visible + tok.reasoning)]

\* total_tokens.
Total(tok) == tok.input + tok.output

Aliases(usages) == UNION {ToSet(u.ids) : u \in ToSet(usages)}

\* Joining the roots of two aliases; a.root is the root of every alias.
Join(a, first, id) ==
    LET r == a.root[first]
        s == a.root[id]
    IN IF r # s /\ Prefix(r) = Prefix(s) /\ Prefix(r) # MessagePrefix
       THEN [a EXCEPT !.ambiguous = TRUE]
       ELSE [a EXCEPT !.root = [x \in DOMAIN @ |-> IF @[x] \in {r, s} THEN Larger(r, s) ELSE @[x]]]

\* link.
Link(a, u) ==
    IF u.ids = <<>> THEN a
    ELSE FoldLeft(LAMBDA b, id : Join(b, Head(u.ids), id), a, Tail(u.ids))

Linked(usages) ==
    FoldLeft(Link, [root |-> [x \in Aliases(usages) |-> x], ambiguous |-> FALSE], usages)

\* Every generation has one set of aliases and one row, or the read fails.
Ambiguous(usages) == Linked(usages).ambiguous

\* Mutant: only the first alias of an event is looked at.
OwnIdentity(c, root, u) ==
    IF u.ids = <<>> THEN <<"step", c, u.idx>> ELSE <<"alias", Head(u.ids)>>

\* primaryIdentity, and the generation_id of a usage: without an alias, its row.
Identity(c, root, u) ==
    IF u.ids = <<>> THEN <<"step", c, u.idx>> ELSE <<"alias", root[Head(u.ids)]>>

\* The counters of a repetition: the larger one each.
Merge(t, u) == Normalize([k \in Counters |-> Larger(t[k], u.tok[k])])

\* The records of a conversation: upsert of every usage that bears tokens, in
\* the order steps, then gen_metadata.
Records(c, usages) ==
    LET root == Linked(usages).root
        bearing == SelectSeq(usages, LAMBDA u : TokenBearing(u.tok))
        Repeats(g) == SelectSeq(bearing, LAMBDA u : Identity(c, root, u) = g)
    IN {[gen |-> g, tok |-> FoldLeft(Merge, Zero, Repeats(g))] :
            g \in {Identity(c, root, u) : u \in ToSet(bearing)}}

---------------------------------------------------------------------------
(* The same, said without an algorithm: usages that share an alias, or lack *)
(* one and come from rows of the same index, tell of one generation, and so *)
(* do usages connected by such pairs.                                       *)

SameGeneration(u, v) ==
    \/ ToSet(u.ids) \cap ToSet(v.ids) # {}
    \/ u.ids = <<>> /\ v.ids = <<>> /\ u.idx = v.idx

\* The usages connected with one of them.
Connected(usages, u) ==
    LET all == ToSet(usages)
        reach[n \in 0 .. Len(usages)] ==
            IF n = 0 THEN {u}
            ELSE reach[n - 1] \cup {v \in all : \E w \in reach[n - 1] : SameGeneration(v, w)}
    IN reach[Len(usages)]

Maximum(S) == CHOOSE x \in S : \A y \in S : y <= x

\* One row for each class with tokens, each counter the largest reported.
Generations(usages) ==
    {S \in {Connected(usages, u) : u \in ToSet(usages)} : \E u \in S : TokenBearing(u.tok)}
Reported(S, k) == Maximum({u.tok[k] : u \in S})
Counted(S) ==
    [k \in Counters |->
        IF k # "output" THEN Reported(S, k)
        ELSE Larger(Reported(S, k), Reported(S, "visible") + Reported(S, "reasoning"))]
ResponsesOf(S) == {id \in UNION {ToSet(u.ids) : u \in S} : Prefix(id) = ResponsePrefix}

\* What the records of the usages must say: a class, its response, its counters.
Expected(usages) ==
    {[class |-> S, responses |-> ResponsesOf(S), tok |-> Counted(S)] : S \in Generations(usages)}

\* The records are one per generation, with its counters and, if it has one, its
\* response identifier.
CountsGenerations(records, expected) ==
    /\ Cardinality(records) = Cardinality(expected)
    /\ \A e \in expected :
        /\ Cardinality(e.responses) <= 1
        /\ \E r \in records :
            /\ r.tok = e.tok
            /\ \A id \in e.responses : r.gen = <<"alias", id>>
=============================================================================
