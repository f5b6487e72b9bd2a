----------------------------- MODULE Retrieval -----------------------------
(***************************************************************************)
(* How an agent reads through more than one answer can hold                *)
(* (review/retrieval.py): matches of a search, paths, and the lines of a   *)
(* hunk come page by page, and a cursor names where the next page starts.  *)
(* A search looks at a window of files at a time, as many as fit the bytes *)
(* it may read.  The agent may use any cursor it was given, at any time    *)
(* and with any query.                                                     *)
(*                                                                         *)
(* A position is a pair: the file and its line, or the line of a hunk and  *)
(* the column where a fragment of it starts.  Both count from 0.           *)
(***************************************************************************)
EXTENDS Naturals, Sequences, FiniteSets

CONSTANTS
    FilesInScope,  \* files the queries are about; lines of the hunk, too
    Lines,         \* lines of a file that may match
    WindowFiles,   \* files a search looks at before it reports
    WindowBytes,   \* and bytes
    MaxFileBytes,  \* larger files are not read
    PageLimit,     \* items on a page
    MaxPages       \* bound: pages asked for

\* Otherwise a search would stop at a file that never fits and return the same
\* cursor again: 512,000 and 8 MiB in the code.
ASSUME WindowAssumption ==
    /\ {FilesInScope, WindowFiles, WindowBytes, MaxFileBytes, PageLimit} \cup Lines \subseteq Nat
    /\ MaxFileBytes <= WindowBytes /\ WindowFiles > 0 /\ PageLimit > 0

VARIABLES
    source,   \* of each file: its kind, size and the lines that match
    parts,    \* of each line of the hunk: how many fragments it has
    cursors,  \* the cursors of this attempt, with what was shown up to them
    answer    \* the last page

readVars == <<source, parts, cursors, answer>>

FileNo == 0 .. FilesInScope - 1
Queries == {"search", "paths", "hunk"}

\* "absent": a deleted or renamed path of the diff; "other": a link or a
\* submodule; "hidden": its bytes match, but reading it fails.
Kinds == {"text", "absent", "other", "hidden"}

\* The items a query is about, in order: all of them, whatever can be read.
Before(p, q) == p[1] < q[1] \/ (p[1] = q[1] /\ p[2] < q[2])
TooLarge(f) == source[f].kind \in {"text", "hidden"} /\ source[f].size > MaxFileBytes
Readable(f) == source[f].kind = "text" /\ ~TooLarge(f)
Items(query) ==
    CASE query = "search" -> {p \in FileNo \X Lines : Readable(p[1]) /\ p[2] \in source[p[1]].matches}
      [] query = "paths" -> FileNo \X {0}
      [] query = "hunk" -> UNION {{l} \X (0 .. parts[l] - 1) : l \in FileNo}

\* Files a search has to confess it could not read.
Lost(f) == TooLarge(f) \/ (source[f].kind = "hidden" /\ source[f].matches # {})

NoAnswer == [query |-> "none", seen |-> {}, lost |-> 0, more |-> TRUE]

ReadInit ==
    /\ source \in [FileNo -> [kind : Kinds, size : {1, MaxFileBytes, MaxFileBytes + 1},
                              matches : SUBSET Lines]]
    /\ parts \in [FileNo -> 1 .. 2]
    /\ cursors = <<>> /\ answer = NoAnswer

-----------------------------------------------------------------------------

\* Where the window that starts at a file ends: before the file whose bytes do
\* not fit any more, or when it is long enough.
Weight(f) == IF Readable(f) \/ (source[f].kind = "hidden" /\ ~TooLarge(f)) THEN source[f].size ELSE 0
WindowFrom(first) ==
    LET bytes[f \in first .. FilesInScope] ==
            IF f = first THEN 0 ELSE bytes[f - 1] + Weight(f - 1)
        fits(stop) == bytes[stop] <= WindowBytes
    IN CHOOSE stop \in first .. FilesInScope :
          /\ stop <= first + WindowFiles /\ fits(stop)
          /\ stop = FilesInScope \/ stop = first + WindowFiles \/ ~fits(stop + 1)

Start == [at |-> <<0, 0>>, window |-> 0, lost |-> 0, seen |-> {}]

\* What is counted as unreadable on the first page of a window, and on every
\* page as the files are reached.
RejectedIn(first, stop) == Cardinality({f \in first .. stop - 1 : TooLarge(f)})
HiddenIn(first, last) ==
    Cardinality({f \in first .. last : source[f].kind = "hidden" /\ Lost(f) /\ ~TooLarge(f)})

\* The count starts with every page.
RejectedAgain(from, stop) == RejectedIn(from.at[1], stop)
Rejected(from, stop) == IF from.window = 0 THEN RejectedIn(from.at[1], stop) ELSE 0

Gives(query, page, next, window, lost, from, more) ==
    LET seen == from.seen \cup page
    IN /\ answer' = [query |-> query, seen |-> seen, lost |-> lost, more |-> more]
       /\ cursors' = IF more THEN Append(cursors, [query |-> query, at |-> next, window |-> window,
                                                   lost |-> lost, seen |-> seen])
                     ELSE cursors
       /\ UNCHANGED <<source, parts>>

\* The items from a position on that fill a page; a page may be full earlier,
\* by its characters.
IsPage(page, rest) ==
    /\ Cardinality(page) <= PageLimit
    /\ page = {} => rest = {}
    /\ \A p \in page : \A q \in rest \ page : Before(p, q)

\* The first of some positions.
FirstOf(S) == CHOOSE p \in S : \A q \in S : ~Before(q, p)

\* The pages: at a match that finds the page full the window is kept for the
\* next one, at the end of the window it is not.
SearchPage(from) ==
    LET first == from.at[1]
        stop == IF from.window = 0 THEN WindowFrom(first) ELSE from.window
        rest == {p \in Items("search") : p[1] < stop /\ ~Before(p, from.at)}
    IN \E page \in SUBSET rest :
         /\ IsPage(page, rest)
         /\ IF page # rest
            THEN LET next == FirstOf(rest \ page)
                 IN Gives("search", page, next, stop,
                          from.lost + Rejected(from, stop) + HiddenIn(first, next[1] - 1),
                          from, TRUE)
            ELSE Gives("search", page, <<stop, 0>>, 0,
                       from.lost + Rejected(from, stop) + HiddenIn(first, stop - 1),
                       from, stop < FilesInScope)

ListPage(query, from) ==
    LET rest == {p \in Items(query) : ~Before(p, from.at)}
    IN \E page \in SUBSET rest :
         /\ IsPage(page, rest)
         /\ Gives(query, page, IF page = rest THEN from.at ELSE FirstOf(rest \ page),
                  0, 0, from, page # rest)

Page(query, from) ==
    IF query = "search" THEN SearchPage(from) ELSE ListPage(query, from)

Retrieve(query) == Len(cursors) < MaxPages /\ Page(query, Start)

\* A cursor of another query, path or revision is refused.
AnyScope(query, cursor) == cursor.query # "none"
SameScope(query, cursor) == cursor.query = query
Continue(query, k) ==
    /\ Len(cursors) < MaxPages /\ SameScope(query, cursors[k]) /\ Page(query, cursors[k])

ReadNext ==
    \/ \E query \in Queries : Retrieve(query)
    \/ \E query \in Queries, k \in DOMAIN cursors : Continue(query, k)

ReadSpec == ReadInit /\ [][ReadNext]_readVars

-----------------------------------------------------------------------------

\* Whoever follows the cursors to the end has been shown every item there is,
\* each once and in order, and knows how many files could not be read: only
\* without any is the search complete.  A cursor stands exactly after what was
\* shown on the way to it (search, find_paths, diff_page).
PagesMissNothing ==
    /\ ~answer.more =>
         /\ answer.seen = Items(answer.query)
         /\ answer.query = "search" => answer.lost = Cardinality({f \in FileNo : Lost(f)})
    /\ \A k \in DOMAIN cursors :
         /\ cursors[k].at # <<0, 0>>
         /\ cursors[k].seen = {p \in Items(cursors[k].query) : Before(p, cursors[k].at)}
=============================================================================
