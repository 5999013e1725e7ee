---------------------------- MODULE MCRootfsSync ----------------------------
(* RootfsSync for TLC: all pairs of trees over five paths, three levels deep. *)
EXTENDS RootfsSync

Node(k, m, d) == [kind |-> k, meta |-> m, data |-> d]
Dir(m) == Node("directory", m, 0)
At(p, nodes) == {p :> n : n \in nodes}
Join(S, T) == {s @@ t : s \in S, t \in T}
None == {<<>>}      \* the function with no path

Deep   == None \cup At(<<"a", "a", "a">>, {Node("file", 1, 1), Node("symlink", 1, 1)})
Middle == None \cup At(<<"a", "a">>, {Node("file", 1, 1), Node("file", 2, 1), Node("symlink", 1, 1)})
            \cup Join(At(<<"a", "a">>, {Dir(1), Dir(2)}), Deep)
Beside == None \cup At(<<"a", "b">>, {Node("file", 1, 1), Node("file", 1, 2), Dir(1)})
Top    == None \cup At(<<"a">>, {Node("file", 1, 1), Node("symlink", 1, 2)})
            \cup Join(At(<<"a">>, {Dir(1)}), Join(Middle, Beside))
RootNode(S) == Join(At(Root, {Dir(1)}), S)

MCBeforeTrees == RootNode(Top \cup At(<<"a">>, {Node("refused", 1, 1)}))
MCAfterTrees == MCBeforeTrees \cup {Root :> Dir(2)}
=============================================================================
