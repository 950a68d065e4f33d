------------------------------- MODULE FileOps -------------------------------
(***************************************************************************)
(* What a header of the Linux server, src/src/linux/server.c, does to the  *)
(* files it names: http_on_url and the header callbacks, the dispatch of   *)
(* ss_recv_header, my_create_dir, my_request_delete and its recursion,     *)
(* system call by system call, on a tree that other processes change as    *)
(* well.                                                                   *)
(*                                                                         *)
(* A header may arrive in pieces.  The callbacks are called for each piece *)
(* by itself, and what they leave in http_reader outlives the request that *)
(* brought it when that was answered with a file.  A path has one          *)
(* character for each of its components.  The server runs in the root.     *)
(***************************************************************************)
EXTENDS Integers, SequencesExt, FiniteSetsExt

CONSTANTS
  Chars,        \* the characters of urls and names
  Requests,     \* what is asked for, see Request
  Tree,         \* the files at first, see Tidy
  Protected,    \* paths that can be neither removed nor moved
  Creatable,    \* paths at which others make files
  MaxLinks,     \* links the kernel follows in a path                      (40)
  MaxDirs,      \* DIRs the process can open beside its other descriptors
  MaxRequests,  \* bound: requests of the connection
  MaxChanges    \* bound: changes that others make

Kinds == {"file", "dir", "link"}
Heads == {"recursively", "newname"}
Unset == <<"unset">>
Index == <<"i">>

\* What Loop and Real answer when there is no answer: without end, and nowhere, which
\* is where an empty path leads, and one with links that go on.
Never == <<"never">>
Nowhere == <<"nowhere">>

\* A request is one header, whole or in pieces; the callbacks see what is in a piece:
\* of the url, the names of header lines as far as the piece holds one whole, or what
\* looks like one, and of the value of X-NewName.
Pieces == [url : Seq(Chars), fields : SUBSET Heads, value : Seq(Chars) \cup {Unset}]
Fields(r) == UNION {r.pieces[k].fields : k \in DOMAIN r.pieces}
Parts(r) == {k \in DOMAIN r.pieces : r.pieces[k].value # Unset}
Cut(r) == \E j, k \in Parts(r) : j # k

\* heads and newname are what the header says as a whole.  A value follows its name.
\* llhttp takes no url that starts with a %.
Request(r) ==
  /\ r.method \in {"GET", "PUT", "DELETE"} /\ r.heads \subseteq Heads /\ r.newname \in Seq(Chars)
  /\ r.pieces \in Seq(Pieces) \ {<<>>} /\ r.pieces[1].url # <<>> /\ r.pieces[1].url[1] # "%"
  /\ Len(r.pieces) = 1 => Fields(r) = r.heads
  /\ ~Cut(r) => \A k \in Parts(r) : r.pieces[k].value = r.newname
  /\ \A k \in DOMAIN r.pieces :
       "newname" \in r.pieces[k].fields => \E j \in Parts(r) : k <= j

\* Files: from the paths there are to what is there, in directories that are there.
Nodes == [kind : Kinds, to : Seq(Chars)]
KindIn(t, p) == IF p = <<>> THEN "dir" ELSE IF p \in DOMAIN t THEN t[p].kind ELSE "none"
Tidy(t) ==
  \A p \in DOMAIN t : p \in Seq(Chars) \ {<<>>} /\ t[p] \in Nodes /\ KindIn(t, Front(p)) = "dir"

ASSUME FileOpsAssumption ==
  /\ {"i", "a", "d", "/", "NUL", "other", " "} \subseteq Chars
  /\ {"unset", "never", "nowhere"} \cap Chars = {}
  /\ \A r \in Requests : Request(r)
  /\ Tidy(Tree)
  /\ Creatable \subseteq Seq(Chars)
  /\ {MaxLinks, MaxDirs, MaxRequests, MaxChanges} \subseteq Nat

VARIABLES
  tree,     \* the files
  changes,  \* how many changes others have made
  reader,   \* http_reader: url_str, h_newname, flags
  req,      \* the request being read or served, its pieces still to come, and (history)
            \* whether the flags said from the start that it was finished
  count,    \* requests so far
  pc,       \* where the server is
  st,       \* what fstat said of what was opened
  stack,    \* the calls of my_request_delete_recursive
  reply,    \* the last response
  dirs,     \* DIRs open
  lost,     \* history: DIRs that nobody will close
  past,     \* history: header lines of earlier requests answered with a file
  removed,  \* history: what the server has removed or moved for this request
  slips     \* history: what has come in the way

request == <<reader, req, count, past>>
result == <<reply, dirs, lost, removed, slips>>
vars == <<tree, changes, request, pc, st, stack, result>>

(***************************************************************************)
(* Urls                                                                    *)
(***************************************************************************)
Hex == {"0", "1", "2", "3", "4", "5", "6", "7", "8", "9"}
         \cup {"a", "b", "c", "d", "e", "f"} \cup {"A", "B", "C", "D", "E", "F"}
Decoded(c1, c2) ==
  CASE <<c1, c2>> = <<"6", "1">> -> "a" [] <<c1, c2>> = <<"6", "4">> -> "d"
    [] c1 = "2" /\ c2 \in {"f", "F"} -> "/" [] <<c1, c2>> = <<"0", "0">> -> "NUL" [] OTHER -> "other"

\* One iteration of the loop of http_on_url.  A % that is not followed by two
\* hexadecimal digits is never stepped over; one at the end of a piece is compared
\* with what lies behind it, and then there is no end either.
Hexes(text) == {n \in 1..Len(text) - 2 : text[n] = "%" /\ {text[n + 1], text[n + 2]} \subseteq Hex}
Stuck(text, ptr) == ptr <= Len(text) /\ text[ptr] = "%" /\ ptr \notin Hexes(text)
Iteration(text, s) ==
  CASE s.ptr > Len(text) \/ Stuck(text, s.ptr) -> s
    [] s.ptr \in Hexes(text) ->
         [ptr |-> s.ptr + 3, str |-> Append(s.str, Decoded(text[s.ptr + 1], text[s.ptr + 2]))]
    [] OTHER ->
         [ptr |-> s.ptr + 1, str |-> Append(s.str, IF text[s.ptr] = "+" THEN " " ELSE text[s.ptr])]
Iterations(text) ==
  LET after[n \in 0..Len(text)] ==
        IF n = 0 THEN [ptr |-> 1, str |-> <<>>] ELSE Iteration(text, after[n - 1])
  IN  after
Loop(text) ==
  LET s == Iterations(text)[Len(text)] IN IF s.ptr > Len(text) THEN s.str ELSE Never

\* Mutant: the first character is taken for a part of the path.
OnUrlWhole(text) == IF Len(text) <= 1 THEN Unset ELSE Loop(text)

\* Without the first character, which should be the /.
OnUrl(text) == IF Len(text) <= 1 THEN Unset ELSE Loop(Tail(text))

\* A path, as the kernel reads the string.
Ends(str) == {n \in DOMAIN str : str[n] = "NUL"}
Longer(path, c) == IF c = "/" THEN path ELSE Append(path, c)
Slashless(text) ==
  LET path[n \in 0..Len(text)] == IF n = 0 THEN <<>> ELSE Longer(path[n - 1], text[n]) IN path
PathOf(str) ==
  LET end == IF Ends(str) = {} THEN Len(str) ELSE Min(Ends(str)) - 1 IN Slashless(str)[end]
PathOrIndex(str) == IF str = Unset THEN Index ELSE PathOf(str)
Empty(str) == str = <<>> \/ str[1] = "NUL"

(***************************************************************************)
(* The kernel's files                                                      *)
(***************************************************************************)
Kind(p) == KindIn(tree, p)

\* Where p is, links followed; the one it ends in only if `last'.
LinksIn(p, last) ==
  {k \in 1..(IF last THEN Len(p) ELSE Len(p) - 1) : Kind(SubSeq(p, 1, k)) = "link"}
Follow(last) ==
  [p \in Seq(Chars) |->
     IF LinksIn(p, last) = {} THEN p
     ELSE LET k == Min(LinksIn(p, last)) IN tree[SubSeq(p, 1, k)].to \o SubSeq(p, k + 1, Len(p))]
Walk(p, last) ==
  LET after[n \in 0..MaxLinks] == IF n = 0 THEN p ELSE Follow(last)[after[n - 1]] IN after
Arrived(last) == [p \in Seq(Chars) |-> IF LinksIn(p, last) = {} THEN p ELSE Nowhere]
Real(p, last) == Arrived(last)[Walk(p, last)[MaxLinks]]
Where(str, last) == IF Empty(str) THEN Nowhere ELSE Real(PathOrIndex(str), last)

Under(p) == {q \in DOMAIN tree : IsStrictPrefix(p, q)}
Entries(p) == {q \in Under(p) : Len(q) = Len(p) + 1}
In(p) == p # <<>> /\ Kind(Front(p)) = "dir"
Without(gone) == [q \in DOMAIN tree \ gone |-> tree[q]]

\* What the calls answer, for p where it really is: "OK" or an errno.
Unlink(p) ==
  CASE Kind(p) = "none" -> "ENOENT" [] Kind(p) = "dir" -> "EISDIR"
    [] p \in Protected -> "EACCES" [] OTHER -> "OK"
Rmdir(p) ==
  CASE Kind(p) = "none" -> "ENOENT" [] Kind(p) # "dir" -> "ENOTDIR"
    [] Kind(p) = "dir" /\ Under(p) # {} -> "ENOTEMPTY" [] p \in Protected -> "EBUSY" [] OTHER -> "OK"
Mkdir(p) ==
  CASE Kind(p) # "none" -> "EEXIST" [] ~In(p) -> "ENOENT" [] OTHER -> "OK"
Rename(p, q) ==
  CASE Kind(p) = "none" \/ ~In(q) -> "ENOENT"
    [] p \in Protected -> "EACCES"
    [] IsStrictPrefix(p, q) -> "EINVAL"
    [] p # q /\ Kind(q) = "dir" /\ Kind(p) # "dir" -> "EISDIR"
    [] p # q /\ Kind(q) \in {"file", "link"} /\ Kind(p) = "dir" -> "ENOTDIR"
    [] p # q /\ Kind(q) = "dir" /\ Under(q) # {} -> "ENOTEMPTY"
    [] OTHER -> "OK"

Moved(p, q) ==
  LET to(r) == q \o SubSeq(r, Len(p) + 1, Len(r))
      moving == {p} \cup Under(p)
  IN  [r \in (DOMAIN tree \ moving) \cup {to(m) : m \in moving} |->
         IF \E m \in moving : to(m) = r THEN tree[CHOOSE m \in moving : to(m) = r] ELSE tree[r]]

Plain(kind) == [kind |-> kind, to |-> <<>>]
With(p, kind) == [q \in DOMAIN tree \cup {p} |-> IF q = p THEN Plain(kind) ELSE tree[q]]
Removes(p) == tree' = Without({p}) /\ removed' = removed \cup {p}

(***************************************************************************)
(* Reading a header                                                        *)
(***************************************************************************)
\* The header lines of a request, those that only look like it in pieces included.
HeadsOf(r) == r.heads \cup Fields(r)
None == [kind |-> "none", gone |-> FALSE]

Init ==
  /\ tree = Tree /\ changes = 0
  /\ reader = [url |-> Unset, newname |-> Unset, flags |-> {}]
  /\ req = [ask |-> [method |-> "GET", pieces |-> <<>>, heads |-> {}, newname |-> <<>>],
            left |-> <<>>, early |-> FALSE]
  /\ count = 0 /\ past = {}
  /\ pc = "recv" /\ st = "none" /\ stack = <<>>
  /\ reply = None /\ dirs = 0 /\ lost = 0 /\ removed = {} /\ slips = {}

\* The next piece of a header; served as soon as a flag says that one is finished.  Of
\* the value of X-NewName the first part is taken, and the rest left alone.
Recv(r) ==
  /\ pc = "recv"
  /\ IF req.left # <<>> THEN r = req.ask /\ UNCHANGED count
     ELSE count < MaxRequests /\ count' = count + 1
  /\ LET left == IF req.left # <<>> THEN req.left ELSE r.pieces
         piece == Head(left)
         url == IF piece.url = <<>> THEN reader.url ELSE OnUrl(piece.url)
         seen == reader.flags \cup piece.fields
         takes == "newname" \in seen /\ piece.value # Unset
         flags == (IF takes THEN seen \ {"newname"} ELSE seen)
                    \cup (IF Len(left) = 1 THEN {"finished"} ELSE {})
     IN  /\ req' = [ask |-> r, left |-> Tail(left),
                    early |-> IF req.left # <<>> THEN req.early ELSE "finished" \in reader.flags]
         /\ reader' = [url |-> url, flags |-> flags,
                       newname |-> IF takes THEN piece.value ELSE reader.newname]
         /\ pc' = IF url = Never THEN "spins"
                  ELSE IF "finished" \notin flags THEN "recv"
                  ELSE IF r.method = "PUT" THEN "mkdir" ELSE "open"
  /\ reply' = None /\ removed' = {} /\ slips' = {} /\ st' = "none"
  /\ UNCHANGED <<tree, changes, past, stack, dirs, lost>>

\* Mutant: the flags stay.
ReParseKeeps ==
  /\ reader' = [reader EXCEPT !.newname = Unset]
  /\ past' = {}

\* RE_PARSE, after a response that is not a file.
ReParse ==
  /\ reader' = [reader EXCEPT !.newname = Unset, !.flags = {}]
  /\ past' = {}

Named == Where(reader.url, FALSE)

Replies(kind) ==
  /\ reply' = [kind |-> kind, gone |-> Named \notin DOMAIN tree']
  /\ pc' = "recv"

\* my_error_errno or one of the responses that are ready.
Responds(kind) == Replies(kind) /\ ReParse /\ UNCHANGED <<changes, req, count, st>>

Keeps == UNCHANGED <<tree, removed>>

CreateDir ==
  /\ pc = "mkdir"
  /\ IF reader.url # Unset /\ Named # Nowhere /\ Mkdir(Named) = "OK"
     THEN tree' = With(Named, "dir") /\ Responds("created")
     ELSE UNCHANGED tree /\ Responds("errno")
  /\ UNCHANGED <<stack, dirs, lost, removed, slips>>

\* A file's response leaves all but url_str as it is.
Open ==
  /\ pc = "open"
  /\ Keeps /\ UNCHANGED <<stack, dirs, lost, slips>>
  /\ LET kind == Kind(Where(reader.url, TRUE))
     IN  CASE kind = "none" -> Responds("404")
           [] kind # "none" /\ req.ask.method = "DELETE" ->
                /\ pc' = "delete" /\ st' = kind
                /\ UNCHANGED <<changes, request, reply>>
           [] kind = "dir" /\ req.ask.method = "GET" -> Responds("listing")
           [] kind = "file" /\ req.ask.method = "GET" ->
                /\ Replies("file")
                /\ reader' = [reader EXCEPT !.url = Unset]
                /\ past' = past \cup HeadsOf(req.ask)
                /\ UNCHANGED <<changes, req, count, st>>

(***************************************************************************)
(* my_request_delete                                                       *)
(***************************************************************************)
\* No url: the home page.
DeleteHome ==
  /\ pc = "delete" /\ reader.url = Unset
  /\ Keeps /\ Responds("no errno")
  /\ UNCHANGED <<stack, dirs, lost, slips>>

RenameItem ==
  /\ pc = "delete" /\ reader.url # Unset /\ reader.newname # Unset
  /\ LET to == Where(reader.newname, FALSE)
     IN  IF to # Nowhere /\ Rename(Named, to) = "OK"
         THEN /\ tree' = Moved(Named, to)
              /\ removed' = removed \cup {Named} \cup ({to} \cap DOMAIN tree)
              /\ Responds("renamed")
         ELSE Keeps /\ Responds("errno")
  /\ UNCHANGED <<stack, dirs, lost, slips>>

\* rmdir of what was a directory at fstat, or the kind that it was at all.
DeleteDir ==
  /\ pc = "delete" /\ reader.url # Unset /\ reader.newname = Unset /\ st = "dir"
  /\ LET res == Rmdir(Named)
     IN  CASE res = "OK" -> Removes(Named) /\ Responds("deleted")
           [] res = "ENOTEMPTY" /\ "recursively" \in reader.flags ->
                pc' = "opendir" /\ Keeps /\ UNCHANGED <<changes, request, st, reply>>
           [] res = "ENOTEMPTY" /\ "recursively" \notin reader.flags ->
                Keeps /\ Responds("accepted")
           [] OTHER -> Keeps /\ Responds("errno")
  /\ UNCHANGED <<stack, dirs, lost, slips>>

DeleteFile ==
  /\ pc = "delete" /\ reader.url # Unset /\ reader.newname = Unset /\ st # "dir"
  /\ IF Unlink(Named) = "OK" THEN Removes(Named) /\ Responds("deleted")
     ELSE Keeps /\ Responds("errno")
  /\ UNCHANGED <<stack, dirs, lost, slips>>

(***************************************************************************)
(* my_request_delete_recursive                                             *)
(***************************************************************************)
\* A call: its path, and what readdir has still to return.
Call(path) == [path |-> path, todo |-> {Last(q) : q \in Entries(Real(path, TRUE))}]
Path == Last(stack).path

\* opendir fails when the process has no descriptor left.
OpenDir ==
  /\ pc = "opendir"
  /\ Keeps /\ UNCHANGED <<lost, slips>>
  /\ LET path == PathOf(reader.url)
     IN  IF Kind(Real(path, TRUE)) = "dir" /\ dirs < MaxDirs
         THEN /\ stack' = <<Call(path)>> /\ dirs' = dirs + 1 /\ pc' = "readdir"
              /\ UNCHANGED <<changes, request, st, reply>>
         ELSE Responds("errno") /\ UNCHANGED <<stack, dirs>>

\* Back to the caller, which does not look at the result, or to my_request_delete.
Return(calls, kind) ==
  /\ stack' = calls
  /\ IF calls = <<>> THEN Responds(kind) ELSE UNCHANGED <<changes, request, pc, st, reply>>

\* Mutant: next to the directory.
EntryPathShort(e) == Append(Front(Path), e)

\* Both loops that fill buf start at 0, so the name is written over the directory.
EntryPath(e) == <<e>>

\* Mutant: what could not be removed is tried again.
RestAgain(e) ==
  IF Unlink(EntryPath(e)) = "EACCES" THEN stack ELSE [stack EXCEPT ![Len(stack)].todo = @ \ {e}]

Rest(e) == [stack EXCEPT ![Len(stack)].todo = @ \ {e}]

\* An entry, stat and what follows from it.  The DIR is left open when stat fails.
Entry(e) ==
  /\ pc = "readdir" /\ e \in Last(stack).todo
  /\ LET path == EntryPath(e)
         item == Real(path, FALSE)
         kind == Kind(Real(path, TRUE))
     IN  CASE kind = "none" ->
                /\ Keeps /\ UNCHANGED dirs /\ lost' = lost + 1
                /\ Return(Front(stack), "errno")
                /\ slips' = slips \cup {"stat"} \cup (IF Len(stack) > 1 THEN {"ignored"} ELSE {})
           [] kind = "dir" ->
                /\ IF dirs < MaxDirs
                   THEN stack' = Append(Rest(e), Call(path)) /\ dirs' = dirs + 1 /\ UNCHANGED slips
                   ELSE stack' = Rest(e) /\ slips' = slips \cup {"ignored"} /\ UNCHANGED dirs
                /\ Keeps /\ UNCHANGED <<changes, request, pc, st, reply, lost>>
           [] kind = "file" ->
                /\ stack' = Rest(e)
                /\ IF Unlink(item) = "OK" THEN Removes(item) /\ UNCHANGED slips
                   ELSE Keeps /\ slips' = slips \cup {"ignored"}
                /\ UNCHANGED <<changes, request, pc, st, reply, dirs, lost>>

\* Mutant: without the rmdir.
LeaveOnly ==
  /\ pc = "readdir" /\ Last(stack).todo = {}
  /\ dirs' = dirs - 1
  /\ Keeps /\ UNCHANGED <<lost, slips>>
  /\ Return(Front(stack), "deleted")

\* closedir, and rmdir, whatever that answers.
Leave ==
  /\ pc = "readdir" /\ Last(stack).todo = {}
  /\ dirs' = dirs - 1 /\ UNCHANGED lost
  /\ LET item == Real(Path, FALSE)
     IN  IF Rmdir(item) = "OK" THEN Removes(item) /\ UNCHANGED slips
         ELSE Keeps /\ slips' = slips \cup {"ignored"}
  /\ Return(Front(stack), "deleted")

(***************************************************************************)
(* Other processes                                                         *)
(***************************************************************************)
Others(p) ==
  /\ changes < MaxChanges
  /\ changes' = changes + 1
  /\ \/ Kind(p) = "none" /\ In(p) /\ tree' = With(p, "file")
     \/ Kind(p) = "file" /\ tree' = Without({p})
  /\ UNCHANGED <<request, pc, st, stack, result>>

-----------------------------------------------------------------------------
Handler ==
  \/ CreateDir \/ Open
  \/ DeleteHome \/ RenameItem \/ DeleteDir \/ DeleteFile
  \/ OpenDir \/ Leave \/ (pc = "readdir" /\ \E e \in Last(stack).todo : Entry(e))
Next == Handler \/ (\E r \in Requests : Recv(r)) \/ (\E p \in Creatable : Others(p))

Spec == Init /\ [][Next]_vars

\* The server's thread runs.
FairSpec == Spec /\ WF_vars(Handler)

(***************************************************************************)
(* Properties                                                              *)
(***************************************************************************)
TypeOK ==
  /\ Tidy(tree)
  /\ changes \in 0..MaxChanges /\ count \in 0..MaxRequests
  /\ reader.flags \subseteq Heads \cup {"finished"}
  /\ req.ask \in Requests \/ count = 0
  /\ pc \in {"recv", "mkdir", "open", "delete", "opendir", "readdir", "spins"}
  /\ st \in {"none", "file", "dir"}
  /\ stack # <<>> <=> pc = "readdir"
  /\ dirs \in 0..MaxDirs /\ lost \in Nat
  /\ past \subseteq Heads /\ slips \subseteq {"ignored", "stat"}

\* What the client has asked for: its url, decoded as it stands.  Each character or
\* escape, but for the first one, stands for a character of the path.
Split == Len(req.ask.pieces) > 1
Url == req.ask.pieces[1].url
Starts(text) == {n \in DOMAIN text : n > 1 /\ \A h \in Hexes(text) : n \notin {h + 1, h + 2}}
Meaning(text, n) ==
  IF n \in Hexes(text) THEN Decoded(text[n + 1], text[n + 2])
  ELSE IF text[n] = "+" THEN " " ELSE text[n]
Says(text, str) ==
  /\ Len(str) = Cardinality(Starts(text))
  /\ \A n \in Starts(text) :
       str[Cardinality({m \in Starts(text) : m <= n})] = Meaning(text, n)

\* url_str is what the request line says, and the server's only thread is lost to a
\* url with a % in it that says nothing; unless the url came in pieces.
UrlMeant ==
  count > 0 /\ ~Split =>
    /\ pc = "spins" <=> \E n \in DOMAIN Url : Url[n] = "%" /\ n \notin Hexes(Url)
    /\ pc \in {"mkdir", "open", "delete", "opendir", "readdir"} =>
         IF Len(Url) = 1 THEN reader.url = Unset ELSE Says(Url, reader.url)

\* Nothing is removed or moved but what url_str names, what has the new name the
\* request gives, or an earlier one since the last response that was not a file, and
\* by the recursion what lies in the server's own directory, where it looks for the
\* names it finds: of what is in the directory to be deleted, nothing.  A value that
\* comes in parts gives a new name with each part, which nobody has asked for.
NewNamesOf(r) ==
  {r.newname} \cup (IF Cut(r) THEN {r.pieces[k].value : k \in Parts(r)} ELSE {})
NewNames ==
  NewNamesOf(req.ask)
    \cup (IF "newname" \in past THEN UNION {NewNamesOf(r) : r \in Requests} ELSE {})
WithinAsked ==
  [][\A p \in removed' \ removed :
       \/ p = Named
       \/ \E name \in NewNames : p = Where(name, FALSE)
       \/ pc = "readdir" /\ Len(p) = 1]_vars

\* A request renames, and removes what is in a directory, only if its header says
\* so, or that of an earlier one since the last response that was not a file; and what
\* is to have a new name is not deleted, unless the header line was not seen whole or
\* an earlier response that was a file has the server not wait for the header's end.
HeadersMeant ==
  [][LET asked == HeadsOf(req.ask) \cup past
     IN  pc = "delete" =>
           /\ reply'.kind = "renamed" => "newname" \in asked
           /\ pc' = "opendir" => "recursively" \in asked
           /\ reply'.kind = "deleted" \/ pc' = "opendir" =>
                "newname" \notin req.ask.heads \cap Fields(req.ask) \/ req.early]_vars

\* "OK, Item Deleted!" means that the item is gone, unless one of the results that the
\* recursion does not look at was a failure.
OkMeansGone == reply.kind = "deleted" => reply.gone \/ "ignored" \in slips

\* A request that is answered with an error or a question has removed nothing, unless
\* stat ended the recursion in the middle.
ErrorsTouchNothing ==
  reply.kind \in {"404", "errno", "no errno", "accepted"} => removed = {} \/ "stat" \in slips

\* Only a failed stat leaves directories open.
DirsClosed == dirs = lost + Len(stack)

\* What a response says of the tree is so, and it leaves nothing open.
RepliesMeant == TypeOK /\ OkMeansGone /\ ErrorsTouchNothing /\ DirsClosed

\* Every request is answered: the recursion ends, whatever others do to the tree
\* and wherever links lead.
Answered == (pc \notin {"recv", "spins"}) ~> (pc = "recv")
=============================================================================
