------------------------- MODULE MCTentrisTerminal -------------------------
(* Two query strings over two CSV lines, a cache of one package, and a  *)
(* result of three lines (tuple b1 twice, b2 once), so that a timeout     *)
(* probe every two lines fires inside one query.                          *)
EXTENDS TentrisTerminal

CONSTANTS q1, q2, b1, b2

MCQueries == {q1, q2}
MCBindings == {b1, b2}
MCTPChoices == {<<TrieOp(1)>>, <<TrieOp(1), BoolOp(FALSE)>>}
MCInitialDbs == {<<>>, <<[query |-> q1, runtime |-> <<>>]>>}
MCAnswers == {<<[b |-> b1, c |-> 2], [b |-> b2, c |-> 1]>>}
MCDistinct == {q1}

\* The CSV files: a title and CsvLength query lines, a file with an empty
\* line, one without a title, one holding only the title, and one that
\* cannot be opened.
MCCsvFiles ==
    {[open |-> TRUE, lines |-> <<"SPARQL">> \o f] : f \in [1..CsvLength -> MCQueries]}
    \cup {[open |-> TRUE, lines |-> <<"SPARQL", "", q2>>],
          [open |-> TRUE, lines |-> <<q1, q2>>],
          [open |-> TRUE, lines |-> <<"SPARQL">>],
          [open |-> FALSE, lines |-> <<>>]}
=============================================================================
