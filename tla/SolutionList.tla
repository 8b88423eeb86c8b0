------------------------------ MODULE SolutionList ------------------------------
(* The card with a user's solutions of one program spec: its buttons, the       *)
(* mutations they send, and the list in Relay's store, which is not fetched      *)
(* again but edited by what each answer carries (src/frontend/src/components/    *)
(* userPrograms). Extends the API's UserPrograms, which also serves the other    *)
(* requests: of other users, and of the same user in another tab. Not modelled:   *)
(* leaving the page and coming back to it while a mutation is on its way, whose   *)
(* query and mutation could be answered in either order.                         *)
EXTENDS UserPrograms

CONSTANTS Owner, Here   \* the user of the page, and its program spec

ASSUME SolutionAssumption == Owner \in User /\ Here \in ProgramSpec

VARIABLES
  list,      \* the edges shown: [id, name]
  sent,      \* what the page asked for in a request
  pending,   \* the page's requests whose answer is still to come
  blind      \* history: an answer was lost, or another tab had requests, since the fetch

pageVars == <<list, sent, pending, blind>>
NotSent == [op |-> "none", id |-> "none", name |-> Absent]

ListInit ==
  /\ Init
  /\ list = {} /\ sent = [r \in Request |-> NotSent] /\ pending = {} /\ blind = FALSE

-------------------------------------------------------------------------------
(* The buttons. A dialog may be closed and opened while its mutation is loading; *)
(* its submit button stays disabled. The copy button only shows that it is busy. *)

Loading(op, id) == \E r \in pending : sent[r].op = op /\ sent[r].id = id

Send(r, op, id, name) ==
  /\ Idle(r) /\ sent[r] = NotSent
  /\ sent' = [sent EXCEPT ![r] = [op |-> op, id |-> id, name |-> name]]
  /\ pending' = pending \cup {r}
  /\ UNCHANGED <<list, blind, vars>>

InList(id) == \E edge \in list : edge.id = id

\* EditUserProgramForm requires a name.
ClickCreate(r) ==
  /\ ~ Loading("create", "none")
  /\ \E name \in FileName \ {EmptyName} : Send(r, "create", "none", name)

ClickRename(r, id) ==
  /\ InList(id) /\ ~ Loading("update", id)
  /\ \E name \in FileName \ {EmptyName} : Send(r, "update", id, name)

ClickCopy(r, id) == InList(id) /\ Send(r, "copy", id, Absent)

ClickDelete(r, id) == InList(id) /\ ~ Loading("delete", id) /\ Send(r, "delete", id, Absent)

-------------------------------------------------------------------------------
\* The mutation reaches the API. A new program without a source has the empty one.
Serve(r) ==
  /\ r \in pending
  /\ \/ sent[r].op = "create" /\ Create(r, Owner, Here, sent[r].name, EmptySource)
     \/ sent[r].op = "update" /\ Update(r, Owner, sent[r].id, sent[r].name, NoSource)
     \/ sent[r].op = "copy" /\ (CopyRead(r, Owner, sent[r].id) \/ CopyInsert(r))
     \/ sent[r].op = "delete" /\ Delete(r, Owner, sent[r].id)
     \/ Unauthenticated(r, sent[r].op)
  /\ UNCHANGED pageVars

\* The edge in an answer. Relay asks for the node's id besides its name.
Payload(r) ==
  CASE task[r].op = "create" -> [id |-> r, name |-> task[r].name]
    [] task[r].op = "update" -> [id |-> task[r].id, name |-> task[r].name]
    [] task[r].op = "copy" -> [id |-> r, name |-> CopyOf(r).name]

\* RANGE_ADD
Added(edge) == list \cup {edge}

\* Mutant: the copy has no RANGE_ADD.
HeardCopyOnly(r) == list

HeardCopy(r) == Added(Payload(r))

\* RANGE_DELETE
Without(id) == {edge \in list : edge.id # id}

\* A renamed node is renamed wherever it is shown.
Renamed(edge) == {IF e.id = edge.id THEN edge ELSE e : e \in list}

\* Of a refusal, and of an answer that there was no such program, the list takes
\* nothing.
Hear(r) ==
  /\ r \in pending /\ answer[r] # "none"
  /\ pending' = pending \ {r}
  /\ \/ answer[r] # "Ok" /\ UNCHANGED list
     \/ /\ answer[r] = "Ok"
        /\ list' = CASE sent[r].op = "create" -> Added(Payload(r))
                     [] sent[r].op = "copy" -> HeardCopy(r)
                     [] sent[r].op = "update" -> Renamed(Payload(r))
                     [] sent[r].op = "delete" -> Without(sent[r].id)
  /\ UNCHANGED <<sent, blind, vars>>

\* The request does not reach the API, or its answer does not reach the page.
Lose(r) ==
  /\ r \in pending /\ (answer[r] # "none" \/ Idle(r))
  /\ pending' = pending \ {r}
  /\ blind' = (blind \/ answer[r] = "Ok")
  /\ UNCHANGED <<list, sent, vars>>

\* The page is loaded anew, with no mutation on its way: the query of the card.
Fetch ==
  /\ pending = {} /\ blind
  /\ list' = {[id |-> row.id, name |-> row.name] :
                row \in {s \in rows : s.user = Owner /\ s.spec = Here}}
  /\ blind' = FALSE
  /\ UNCHANGED <<sent, pending, vars>>

-------------------------------------------------------------------------------
\* A request from elsewhere.
Foreign ==
  /\ Next
  /\ \A r \in Request : sent[r] # NotSent => task'[r] = task[r] /\ answer'[r] = answer[r]
  /\ blind' = (\/ blind
               \/ \E r \in Request : task'[r] # task[r] /\ task'[r].user = Owner
               \/ {s \in rows' : s.user = Owner} # {s \in rows : s.user = Owner})
  /\ UNCHANGED <<list, sent, pending>>

ListNext ==
  \/ Foreign \/ Fetch
  \/ \E r \in Request :
       \/ ClickCreate(r) \/ Serve(r) \/ Hear(r) \/ Lose(r)
       \/ \E id \in Request : ClickRename(r, id) \/ ClickCopy(r, id) \/ ClickDelete(r, id)

ListSpec == ListInit /\ [][ListNext]_<<vars, pageVars>>

-------------------------------------------------------------------------------
\* When all answers are in, the card shows the user's programs under their names,
\* though it was never fetched again: in whatever order mutations ran, overlapped,
\* were refused and were answered (CreateUserProgramButton.tsx:60-75,
\* CopyUserProgramButton.tsx:45-57, DeleteUserProgramButton.tsx:51-67).
ListShowsTheTable ==
  pending = {} /\ ~ blind =>
    list = {[id |-> row.id, name |-> row.name] :
              row \in {s \in rows : s.user = Owner /\ s.spec = Here}}
================================================================================
