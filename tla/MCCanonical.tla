---------------------------- MODULE MCCanonical ----------------------------
(***************************************************************************)
(* An instance of Canonical for TLC.                                       *)
(***************************************************************************)
EXTENDS Canonical

MCNames == <<"o1", "o2">>

MCType == ("one" :> "int") @@ ("true" :> "bool") @@ ("text" :> "str")
              @@ ("nan" :> "float")

MCClass == ("one" :> "1") @@ ("true" :> "1") @@ ("text" :> "2") @@ ("nan" :> "3")

Tokens == <<"bool", "dict", "end", "float", "frozenset", "int", "list", "one",
            "set", "str", "text", "true", "tuple", "1", "2">>

MCRank == [t \in ToSet(Tokens) |-> CHOOSE i \in DOMAIN Tokens : Tokens[i] = t]

\* The JSON text of a form; the brackets around the rows of a container are its
\* kind and "end".
RECURSIVE Text(_)
Text(form) ==
    IF form[1] \notin Kinds THEN form
    ELSE LET texts == [i \in DOMAIN form[2] |->
                         [j \in DOMAIN form[2][i] |-> Text(form[2][i][j])]]
         IN  <<form[1]>> \o FlattenSeq(FlattenSeq(texts)) \o <<"end">>

\* Their order.
MCBefore(f, g) ==
    LET s == Text(f)
        t == Text(g)
    IN  \E n \in 1 .. Len(t) :
            /\ \A i \in 1 .. n - 1 : i =< Len(s) /\ s[i] = t[i]
            /\ n > Len(s) \/ MCRank[s[n]] < MCRank[t[n]]

\* Forms without containers in containers, and these with few rows.
MCForms ==
    LET atoms == {AtomForm(v) : v \in Atoms \ Refusable}
    IN  atoms
        \cup {<<kind, rows>> : kind \in Kinds, rows \in BoundedSeq(SeqOf(atoms, 1) \ {<<>>}, 1)}
        \cup {<<"list", rows>> : rows \in BoundedSeq(SeqOf(atoms, 1) \ {<<>>}, 2)}
        \cup {<<"dict", <<row>> >> : row \in [1 .. 2 -> atoms]}

ASSUME MCTextsOrdered == OrderOn(MCForms)
=============================================================================
