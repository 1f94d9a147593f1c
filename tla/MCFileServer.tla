---------------------------- MODULE MCFileServer ----------------------------
(* Bounds of the file server: see FileServer.cfg. *)
EXTENDS FileServer, TLC

CONSTANTS c1, c2, b0, b1, b2

Texts == {"a.txt", "f.txt", "..x.txt"}
Dots == {"..x.txt"}
Dirs == {<<>>, <<"a.txt">>}
First == {<<"a.txt", "f.txt">>}

Get(path) == [method |-> "GET", path |-> path]
Post(path, b) == [method |-> "POST", path |-> path, body |-> b]
Other(m) == [method |-> m, path |-> <<"f.txt">>]

\* Two uploads to one file by different paths and downloads of it; names
\* that are refused, a directory where a file is expected, a file where a
\* directory is expected; requests without a handler.
Mixed ==
    {Get(<<"a.txt", "..", "f.txt">>), Post(<<"f.txt">>, b1),
     Post(<<"a.txt", "f.txt">>, b2),
     Get(<<"a.txt">>), Get(<<"f.txt", "f.txt">>),
     Post(<<"a.txt">>, b1), Post(<<"..x.txt">>, b1),
     Other("PUT"), Other("BREW"), Other(Malformed)}

EverySegment == {"", ".", "..", "a.txt", "f.txt", "..x.txt"}
EveryPath == UNION {[1 .. n -> EverySegment] : n \in 0 .. 4}

ConnSymmetry == Permutations(Conns)
=============================================================================
