------------------------------ MODULE Pagination ------------------------------
(* Forward pagination of the API's connections: ConnectionPageParams, PageInfo  *)
(* and the edges (src/api/src/server/gql/mod.rs, internal.rs), the queries of   *)
(* the three connections, and the walk of a client that keeps pressing "Load    *)
(* more".                                                                       *)
(*                                                                              *)
(* A connection is a table and the rows of it that it selects: every hardware   *)
(* spec, the program specs of one hardware spec, or the user's programs for one *)
(* program spec. No update changes the columns it selects by.                   *)
(*                                                                              *)
(* A cursor is the index it encodes; one that does not decode is refused like a *)
(* negative one. Indices are i32: beyond MaxIndex they wrap (a build with       *)
(* overflow checks panics instead). The queries have no ORDER BY: rows come in  *)
(* the order the table holds them, where a row that is inserted or updated goes *)
(* wherever there is space.                                                     *)
EXTENDS Selection, SequencesExt

CONSTANTS
  Row,            \* the rows there can be
  RowsAtFirst,    \* bound: how many of them there are at most when the walk begins
  Filter,         \* the sets of rows that a connection may select
  MaxIndex,       \* the largest i32
  PageSize,       \* the values of `first` the client asks for
  NoCursor, NoLimit

\* An i32 counts the rows there can be, and a page more: on a greater count the code
\* panics (hardware_spec.rs:157-158).
ASSUME PaginationAssumption ==
  /\ MaxIndex \in Nat \ {0} /\ PageSize \subseteq 1 .. MaxIndex
  /\ RowsAtFirst \in Nat /\ IsFiniteSet(Row) /\ Cardinality(Row) <= MaxIndex
  /\ \A first \in PageSize : Cardinality(Row) + first <= MaxIndex
  /\ Filter \subseteq SUBSET Row
  /\ NoCursor \notin Int /\ NoLimit \notin Int

VARIABLES
  table,          \* the rows, in the order an unordered query returns them
  filter,         \* the rows that the connection selects
  loaded,         \* the rows the client shows
  after, more,    \* endCursor and hasNextPage of the last page
  phase,          \* idle | edges | count: what the server is about to query
  page,           \* first, after, and the edges read so far
  start,          \* history: the selected rows when the walk began
  disturbed       \* history: a row was updated or deleted since

walkVars == <<table, filter, loaded, after, more, phase, page, start, disturbed>>

Index == -(MaxIndex + 1) .. MaxIndex
WrapIndex(v) == ((v + MaxIndex + 1) % (2 * (MaxIndex + 1))) - (MaxIndex + 1)
Least(a, b) == IF a < b THEN a ELSE b

-------------------------------------------------------------------------------
(* ConnectionPageParams, PageInfo and the edges.                               *)

\* validate: `first` is at least 0, and the cursor's index is
Valid(p) ==
  /\ p.first # NoLimit => p.first >= 0
  /\ p.after # NoCursor => p.after >= 0

\* Mutant: the cursor's row is part of the next page.
OffsetAtCursor(p) == IF p.after = NoCursor THEN 0 ELSE p.after

Offset(p) == IF p.after = NoCursor THEN 0 ELSE WrapIndex(p.after + 1)

\* Mutant: the limit's - 1 is misplaced.
EndIndexPast(p, total_count) ==
  IF p.first = NoLimit THEN total_count - 1
  ELSE WrapIndex(Least(Offset(p) + p.first, total_count - 1))

EndIndex(p, total_count) ==
  IF p.first = NoLimit THEN total_count - 1
  ELSE WrapIndex(Least(WrapIndex(Offset(p) + p.first), total_count) - 1)

\* Mutant: one index too few.
PageInfoOneMore(p, total_count) ==
  LET end_index == EndIndex(p, total_count)
      empty     == end_index < Offset(p)
  IN [start_cursor      |-> IF empty THEN NoCursor ELSE Offset(p),
      end_cursor        |-> IF empty THEN NoCursor ELSE end_index,
      has_previous_page |-> 0 < Offset(p) /\ 0 < total_count,
      has_next_page     |-> end_index < total_count]

\* PageInfo::from_page_params
PageInfo(p, total_count) ==
  LET end_index == EndIndex(p, total_count)
      empty     == end_index < Offset(p)
  IN [start_cursor      |-> IF empty THEN NoCursor ELSE Offset(p),
      end_cursor        |-> IF empty THEN NoCursor ELSE end_index,
      has_previous_page |-> 0 < Offset(p) /\ 0 < total_count,
      has_next_page     |-> WrapIndex(end_index + 1) < total_count]

\* OFFSET and LIMIT, which are 64 bits wide in the query.
Rows(rows, p) ==
  SubSeq(rows, Offset(p) + 1,
         IF p.first = NoLimit THEN Len(rows) ELSE Least(Offset(p) + p.first, Len(rows)))

\* from_db_rows
EdgesOf(rows, p) ==
  [i \in 1 .. Len(Rows(rows, p)) |->
    [node |-> Rows(rows, p)[i], cursor |-> WrapIndex(Offset(p) + i - 1)]]

-------------------------------------------------------------------------------
(* The queries of a connection, each on the rows that its filter leaves.       *)

Selected == Where(table, filter)

get_edges(p) == EdgesOf(Selected, p)

get_total_count == Len(Selected)

NoPage == [first |-> NoLimit, after |-> NoCursor, edges |-> <<>>]

WalkInit ==
  /\ table \in {t \in UNION {[1 .. n -> Row] : n \in 0 .. RowsAtFirst} : IsInjective(t)}
  /\ filter \in Filter
  /\ loaded = <<>> /\ after = NoCursor /\ more = TRUE
  /\ phase = "idle" /\ page = NoPage
  /\ start = Selected /\ disturbed = FALSE

\* relay.loadMore: the next page starts after the last one's end cursor.
Ask ==
  /\ phase = "idle" /\ more
  /\ \E first \in PageSize : page' = [first |-> first, after |-> after, edges |-> <<>>]
  /\ Valid(page')
  /\ phase' = "edges"
  /\ UNCHANGED <<table, filter, loaded, after, more, start, disturbed>>

\* field_edges
ReadEdges ==
  /\ phase = "edges" /\ phase' = "count"
  /\ page' = [page EXCEPT !.edges = get_edges(page)]
  /\ UNCHANGED <<table, filter, loaded, after, more, start, disturbed>>

\* field_page_info, whose count is a query of its own, and the answer reaches the client. Relay
\* merges a page by node and asks for no more without a cursor to start from.
ReadCount ==
  LET info  == PageInfo(page, get_total_count)
      nodes == [i \in DOMAIN page.edges |-> page.edges[i].node]
  IN
  /\ phase = "count" /\ phase' = "idle"
  /\ loaded' = loaded \o Where(nodes, Row \ Range(loaded))
  /\ after' = info.end_cursor
  /\ more' = (info.has_next_page /\ info.end_cursor # NoCursor)
  /\ page' = NoPage
  /\ UNCHANGED <<table, filter, start, disturbed>>

-------------------------------------------------------------------------------
(* What other users do to the table meanwhile.                                 *)

Others(r) == Where(table, Row \ {r})

Insert(r) ==
  /\ r \notin Range(table) \cup Range(loaded) \cup Range(start)
  /\ \E k \in 1 .. Len(table) + 1 : table' = InsertAt(table, k, r)
  /\ UNCHANGED <<filter, loaded, after, more, phase, page, start, disturbed>>

Modify(r) ==
  /\ r \in Range(table)
  /\ \E k \in 1 .. Len(Others(r)) + 1 : table' = InsertAt(Others(r), k, r)
  /\ disturbed' = TRUE
  /\ UNCHANGED <<filter, loaded, after, more, phase, page, start>>

Delete(r) ==
  /\ r \in Range(table)
  /\ table' = Others(r) /\ disturbed' = TRUE
  /\ UNCHANGED <<filter, loaded, after, more, phase, page, start>>

WalkNext ==
  \/ Ask \/ ReadEdges \/ ReadCount
  \/ \E r \in Row : Insert(r) \/ Modify(r) \/ Delete(r)

WalkSpec == WalkInit /\ [][WalkNext]_walkVars

\* The client keeps asking, the server answers.
FairSpec == WalkSpec /\ WF_walkVars(Ask) /\ WF_walkVars(ReadEdges) /\ WF_walkVars(ReadCount)

-------------------------------------------------------------------------------
WalkTypeOK ==
  /\ IsInjective(table) /\ Range(table) \subseteq Row
  /\ filter \in Filter
  /\ IsInjective(loaded) /\ Range(loaded) \subseteq filter
  /\ after \in 0 .. MaxIndex \cup {NoCursor} /\ more \in BOOLEAN
  /\ phase \in {"idle", "edges", "count"} /\ disturbed \in BOOLEAN

\* A walk that has ended shows every selected row there was when it began, as long as
\* rows were only added meanwhile: wherever they were put, also between the two
\* queries of a page (internal.rs:74-86, mod.rs:163-184). After a deletion or a move
\* OFFSET does skip rows.
WalkSeesEveryRow == ~ more /\ ~ disturbed => Range(start) \subseteq Range(loaded)

\* The page metadata and the edges, which are computed apart, tell one story.
Accurate(p) ==
  LET edges == get_edges(p)
      info  == PageInfo(p, get_total_count)
  IN /\ edges = <<>> => info.start_cursor = NoCursor /\ info.end_cursor = NoCursor
     /\ edges # <<>> => /\ info.start_cursor = edges[1].cursor
                        /\ info.end_cursor = edges[Len(edges)].cursor
     /\ info.has_next_page = (Offset(p) + Len(edges) < Len(Selected))

Request == [first : 0 .. MaxIndex \cup {NoLimit}, after : 0 .. MaxIndex \cup {NoCursor}]

Fits(p) ==
  /\ p.after # NoCursor => p.after < MaxIndex
  /\ p.first # NoLimit => Offset(p) + p.first <= MaxIndex

\* Whatever page of the connection is asked for, up to the largest index, its cursors
\* are its edges' and it has a next page exactly if rows are left (mod.rs:196-232).
PageInfoIsAccurate ==
  \A p \in Request : Fits(p) => Accurate(p)

\* "Load more" stops offering itself, also while rows are added and moved
\* (mod.rs:230; a row is added at most once, so additions end as well).
WalkEnds == <>(~ more)
================================================================================
