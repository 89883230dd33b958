------------------------------ MODULE MCIngest ------------------------------
(***************************************************************************)
(* Two conversations of which the second repeats a generation of the       *)
(* first, and a catalog that moves the first to another project.           *)
(***************************************************************************)
EXTENDS Ingest

Tok(i, v, r, o) == [input |-> i, visible |-> v, reasoning |-> r, output |-> o]
Usage(ids, i, tok) == [ids |-> ids, idx |-> i, tok |-> tok]

\* A generation known by its message first, repeated with its response; a retry
\* without a name in a row of its own; later a correction and a new generation.
Early == <<Usage(<<1>>, 1, Tok(5, 0, 0, 2)), Usage(<<>>, 2, Tok(1, 1, 0, 1)), Usage(<<2>>, 3, Tok(0, 0, 0, 0))>>
Later == <<Usage(<<1>>, 1, Tok(5, 0, 0, 2)), Usage(<<>>, 2, Tok(1, 1, 0, 1)),
           Usage(<<201, 101, 1>>, 1, Tok(5, 2, 1, 3)), Usage(<<102, 2>>, 3, Tok(2, 0, 0, 2))>>
\* Two responses under one message.
Conflict == <<Usage(<<201, 1>>, 1, Tok(1, 0, 0, 1)), Usage(<<202, 1>>, 2, Tok(1, 0, 0, 1))>>
\* A generation of its own, then one of the other conversation.
Own == <<Usage(<<202>>, 1, Tok(1, 0, 0, 1))>>
Copy == <<Usage(<<201>>, 1, Tok(5, 2, 1, 3))>>

MCConvs == {1, 2}
MCContent == [c \in {1, 2} |-> IF c = 1 THEN <<Early, Later, Conflict>> ELSE <<Own, Copy, Absent>>]
MCProjects == <<[c \in {1} |-> "alpha"], [c \in {1, 2} |-> "beta"]>>

\* One process and all that may happen around it; one whose source becomes
\* ambiguous; two at a time on one conversation; and one whose source is changed
\* and then deleted.
MCScenarios ==
    {[procs |-> {1}, ledgers |-> 0 .. 3, force |-> BOOLEAN, first |-> <<1, 2>>, last |-> <<2, 3>>, catalogs |-> 2],
     [procs |-> {1}, ledgers |-> {0}, force |-> BOOLEAN, first |-> <<2, 2>>, last |-> <<3, 2>>, catalogs |-> 1],
     [procs |-> {1, 2}, ledgers |-> {0}, force |-> {FALSE}, first |-> <<1, 3>>, last |-> <<2, 3>>, catalogs |-> 1],
     [procs |-> {1}, ledgers |-> {0}, force |-> {FALSE}, first |-> <<2, 1>>, last |-> <<2, 3>>, catalogs |-> 1]}
=============================================================================
