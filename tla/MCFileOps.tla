------------------------------ MODULE MCFileOps ------------------------------
(***************************************************************************)
(* An instance of FileOps: a small tree in which the names in a directory  *)
(* are found again next to it, with a link to a directory, a link to       *)
(* itself, a file that cannot be removed and a directory that has a name   *)
(* of its own in it.                                                       *)
(***************************************************************************)
EXTENDS FileOps

Letters == {"/", "%", "+", " ", "NUL", "other", "n", "i", "l", "o"} \cup Hex

At(p, kind) == p :> Plain(kind)
LinkTo(p, to) == p :> [kind |-> "link", to |-> to]
SmallTree ==
  At(<<"i">>, "file") @@ At(<<"a">>, "file") @@ At(<<"f">>, "file")
  @@ LinkTo(<<"l">>, <<"b">>) @@ LinkTo(<<"o">>, <<"o">>)
  @@ At(<<"e">>, "dir") @@ At(<<"e", "a">>, "file")
  @@ At(<<"e", "d">>, "dir") @@ At(<<"e", "d", "a">>, "file")
  @@ At(<<"d">>, "dir") @@ At(<<"d", "d">>, "file") @@ At(<<"d", "f">>, "file")
  @@ At(<<"d", "l">>, "file")
  @@ At(<<"b">>, "dir") @@ At(<<"b", "a">>, "file") @@ At(<<"b", "o">>, "file")
Fixed == {<<"f">>}
Shared == {<<"e", "a">>, <<"e", "d", "a">>, <<"e", "n">>}

Piece(url, fields, value) == [url |-> url, fields |-> fields, value |-> value]
Whole(method, url, heads, newname) ==
  [method |-> method, heads |-> heads, newname |-> newname,
   pieces |-> <<Piece(url, heads, IF "newname" \in heads THEN newname ELSE Unset)>>]
InTwo(heads, newname, first, second) ==
  [method |-> "DELETE", heads |-> heads, newname |-> newname, pieces |-> <<first, second>>]
Delete(url, heads) == Whole("DELETE", url, heads, <<>>)
To(url, newname) == Whole("DELETE", url, {"newname"}, newname)

\* Urls that name a file, a directory, nothing, the home page, no character and the
\* empty path; with either header, with none, and in two pieces: the url, the new
\* name, between X-NewName and its value, both names in the middle, and a name that
\* only starts with X-NewName.
AnyRequest ==
  {Delete(url, heads) :
     url \in {<<"/", "a">>, <<"/", "e">>, <<"/", "d">>, <<"/", "e", "%", "2", "f", "d">>},
     heads \in {{}, {"recursively"}}}
  \cup {Delete(url, {}) :
     url \in {<<"/">>, <<"/", "%", "6", "1">>, <<"/", "a", "%", "6">>,
              <<"/", "a", "%", "0", "0", "+">>}}
  \cup {To(<<"/", "a">>, <<"n">>), To(<<"/", "a">>, <<"b", "/", "a">>),
        To(<<"/", "e">>, <<"e", "/", "n">>)}
  \cup {Whole("GET", <<"/", "a">>, heads, <<"n">>) : heads \in {{}, Heads}}
  \cup {Whole("GET", <<"/", "%", "0", "0">>, {}, <<>>)}
  \cup {Whole("GET", <<"/", "d">>, Heads, <<"n">>)}
  \cup {Whole("PUT", url, {}, <<>>) : url \in {<<"/">>, <<"/", "n">>, <<"/", "a">>}}
  \cup {InTwo({"recursively"}, <<>>, Piece(<<"/", "e">>, {}, Unset),
             Piece(<<"/", "a">>, {"recursively"}, Unset)),
        InTwo({"newname"}, <<"i", "/", "n">>, Piece(<<"/", "a">>, {"newname"}, <<"i">>),
             Piece(<<>>, {}, <<"/", "n">>)),
        InTwo({"newname"}, <<"n">>, Piece(<<"/", "a">>, {"newname"}, Unset),
             Piece(<<>>, {}, <<"n">>)),
        InTwo(Heads, <<"n">>, Piece(<<"/", "e">>, {}, Unset), Piece(<<>>, {}, <<"n">>)),
        InTwo({}, <<"n">>, Piece(<<"/", "a">>, {"newname"}, Unset), Piece(<<>>, {}, <<"n">>))}
=============================================================================
