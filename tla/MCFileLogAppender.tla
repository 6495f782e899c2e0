-------------------------- MODULE MCFileLogAppender --------------------------
(* TLC instances of FileLogAppender. *)
EXTENDS FileLogAppender, TLC

x  == Text(<<"x">>)
br == Text(<<"{", "}">>)
d  == Date(<<>>)
Y  == Date(<<"%", "Y">>)
m  == Item("m")
q  == Item("q")

MCLayouts == {<<>>, <<x>>, <<x, m>>, <<m, br>>, <<m, q>>, <<q, x>>, <<Y, br>>, <<Y, m, q>>,
              <<x, Y, x>>, <<m, Y, Item("%")>>, <<d, x, m>>, <<d, m, Item("n")>>, <<x, d, Item("%")>>,
              <<Item("%"), x, Item("%")>>, <<br, q, m>>}

Symmetry == Permutations(Threads)
=============================================================================
