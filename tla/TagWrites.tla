------------------------------- MODULE TagWrites ----------------------------
(***************************************************************************)
(* The write transactions of the network and subnet repositories, one      *)
(* statement at a time: the row of the resource and the rows of its tags   *)
(* (repository/tags.go, db/store.go:138-177).  A transaction keeps what it *)
(* has done to itself until it commits; on D1 there is none, and every     *)
(* statement is visible and stays.  Dialects as in Store, with "d1".       *)
(***************************************************************************)
EXTENDS FiniteSets

CONSTANTS
    Dialects,       \* the databases of the deployments
    Req, Uuid, Desc, Tag, Nil,
    Parent          \* [Uuid -> the network of a subnet, Nil for a network]

ASSUME TagWritesAssumption ==
    /\ Dialects \subseteq {"sqlite", "postgres", "d1"}
    /\ Parent \in [Uuid -> Uuid \cup {Nil}]
    /\ Nil \notin Uuid \cup Desc \cup Req

VARIABLES
    Dialect,        \* one of Dialects, for good
    row, tags,      \* [Uuid -> description or Nil], the tag rows <<uuid, tag>>
    used,           \* uuids given to a row
    writeMu,        \* Store.writeMu
    tx              \* [Req -> its write, or Nil]

tables == <<row, tags>>
system == <<tables, used, writeMu, tx>>
vars   == <<Dialect, system>>

Transactional == Dialect # "d1"

\* want: the tags of the request; todo: those still to insert; wiped, added:
\* tag rows deleted and inserted, not committed; done: the statement on the row
\* has been executed.
Tx == [op : {"create", "update", "delete"}, at : {"row", "wipe", "tags", "commit"},
       id : Uuid, desc : Desc, want : SUBSET Tag, todo : SUBSET Tag,
       wiped : SUBSET (Uuid \X Tag), added : SUBSET (Uuid \X Tag),
       done : BOOLEAN]

Init ==
    /\ Dialect \in Dialects
    /\ row = [x \in Uuid |-> Nil] /\ tags = {} /\ used = {}
    /\ writeMu = Nil
    /\ tx = [r \in Req |-> Nil]

TagsOf(x) == {x} \X Tag
Family(x) == {y \in Uuid : x \in {y, Parent[y]}}
Busy == {r \in Req : tx[r] # Nil}

\* The rows the statement of q on its own row locks: DELETE cascades.
RowsOf(q) == IF q.op = "delete" THEN Family(q.id) ELSE {q.id}

\* Row locks of PostgreSQL; a new subnet keeps its network from being deleted.
Waits(r, q) ==
    Dialect = "postgres" /\
    \E o \in Busy \ {r} : tx[o].done /\
        \/ RowsOf(q) \cap RowsOf(tx[o]) # {}
        \/ q.op = "create" /\ tx[o].op = "delete" /\ tx[o].id = Parent[q.id]
        \/ q.op = "delete" /\ tx[o].op = "create" /\ Parent[tx[o].id] = q.id

Set(r, q) == tx' = [tx EXCEPT ![r] = q]

End(r) ==
    /\ tx' = [tx EXCEPT ![r] = Nil]
    /\ writeMu' = IF writeMu = r THEN Nil ELSE writeMu

-----------------------------------------------------------------------------
\* WithWriteTx; updates and deletes were preceded by a read of the row.
Begin(r) ==
    /\ tx[r] = Nil
    /\ IF Dialect = "postgres" THEN UNCHANGED writeMu
       ELSE writeMu = Nil /\ writeMu' = r
    /\ \E op \in {"create", "update", "delete"}, x \in Uuid, d \in Desc,
          T \in SUBSET Tag :
        /\ op = "create" => x \notin used /\ (Parent[x] # Nil => row[Parent[x]] # Nil)
        /\ op # "create" => row[x] # Nil
        /\ op = "delete" => T = {} /\ d = row[x]
        /\ used' = used \cup {x}
        /\ Set(r, [op |-> op, at |-> IF op = "delete" THEN "wipe" ELSE "row",
                   id |-> x, desc |-> d, want |-> T, todo |-> T, wiped |-> {},
                   added |-> {}, done |-> FALSE])
    /\ UNCHANGED tables

\* The write of q's row: INSERT, UPDATE, or DELETE with its cascade.
Written(q) ==
    [y \in Uuid |-> IF q.op = "delete" THEN (IF y \in Family(q.id) THEN Nil ELSE row[y])
                    ELSE IF y = q.id THEN q.desc ELSE row[y]]

\* INSERT, UPDATE or DELETE of the row; no row affected is ErrNotFound, a
\* missing network violates the foreign key.
RowStatement(r) ==
    LET q == tx[r]
    IN  /\ q # Nil /\ q.at = "row" /\ ~Waits(r, q)
        /\ IF IF q.op = "create" THEN Parent[q.id] # Nil /\ row[Parent[q.id]] = Nil
              ELSE row[q.id] = Nil
           THEN End(r) /\ UNCHANGED row
           ELSE /\ Set(r, [q EXCEPT !.done = TRUE,
                                    !.at = IF q.op = "delete" THEN "commit" ELSE "wipe"])
                /\ row' = IF Transactional THEN row ELSE Written(q)
                /\ UNCHANGED writeMu
        /\ UNCHANGED <<tags, used>>

\* Mutant: replaceTags inserts without deleting the existing tags.
WipeTags_none(r) ==
    LET q == tx[r]
    IN  /\ q # Nil /\ q.at = "wipe"
        /\ Set(r, [q EXCEPT !.at = IF q.op = "delete" THEN "row" ELSE "tags"])
        /\ UNCHANGED <<tables, used, writeMu>>

\* DELETE FROM tags: the committed rows; those another transaction is deleting
\* are waited for.
WipeTags(r) ==
    LET q == tx[r]
        gone == tags \cap TagsOf(q.id)
    IN  /\ q # Nil /\ q.at = "wipe"
        /\ Dialect = "postgres" => \A o \in Busy \ {r} : gone \cap tx[o].wiped = {}
        /\ Set(r, [q EXCEPT !.at = IF q.op = "delete" THEN "row" ELSE "tags",
                            !.wiped = gone])
        /\ tags' = IF Transactional THEN tags ELSE tags \ gone
        /\ UNCHANGED <<row, used, writeMu>>

\* One INSERT INTO tags of the loop in replaceTags.
InsertTag(r) ==
    LET q == tx[r]
    IN  /\ q # Nil /\ q.at = "tags"
        /\ \E t \in q.todo :
            /\ Set(r, [q EXCEPT !.todo = @ \ {t}, !.added = @ \cup {<<q.id, t>>}])
            /\ tags' = IF Transactional THEN tags ELSE tags \cup {<<q.id, t>>}
        /\ UNCHANGED <<row, used, writeMu>>

Commit(r) ==
    LET q == tx[r]
    IN  /\ q # Nil
        /\ q.at = "commit" \/ (q.at = "tags" /\ q.todo = {})
        /\ row' = IF Transactional THEN Written(q) ELSE row
        /\ tags' = IF Transactional THEN (tags \ q.wiped) \cup q.added ELSE tags
        /\ End(r)
        /\ UNCHANGED used

\* A statement fails, PostgreSQL breaks a deadlock, or the server dies.
Fail(r) ==
    /\ tx[r] # Nil
    /\ End(r)
    /\ UNCHANGED <<tables, used>>

Next ==
    /\ \E r \in Req : Begin(r) \/ RowStatement(r) \/ WipeTags(r) \/ InsertTag(r)
                      \/ Commit(r) \/ Fail(r)
    /\ UNCHANGED Dialect

Spec == Init /\ [][Next]_vars

-----------------------------------------------------------------------------
Content == [x \in Uuid |-> IF row[x] = Nil THEN Nil
                           ELSE [desc |-> row[x], tags |-> {t \in Tag : <<x, t>> \in tags}]]

Asked == [r \in Req |->
            IF tx[r] = Nil THEN Nil
            ELSE [id |-> tx[r].id,
                  to |-> IF tx[r].op = "delete" THEN Nil
                         ELSE [desc |-> tx[r].desc, tags |-> tx[r].want]]]

Whole == INSTANCE Resources WITH content <- Content, asked <- Asked

\* "Mutations go through WithWriteTx: SQLite write lock + SQL transaction"
\* (TECHNICAL.md:153): a resource and its tags change as one, whatever fails in
\* between and whichever transactions run at once (store.go:138-177).
ImplementsResources == Whole!Spec

\* No transaction, content or write is mistaken for "none".
ASSUME WholeAssumption == Nil \notin Tx \cup Whole!Contents \cup Whole!Writes

\* "Network deletion: cascades to associated subnets and tags"
\* (FUNCTIONAL.md:149): no tag is left without its resource.
NoOrphanTags ==
    Busy = {} => \A x \in Uuid, t \in Tag : <<x, t>> \in tags => row[x] # Nil

-----------------------------------------------------------------------------
(* The invariant of the transactions.                                      *)

TypeOK ==
    /\ Dialect \in Dialects
    /\ row \in [Uuid -> Desc \cup {Nil}] /\ tags \subseteq Uuid \X Tag
    /\ used \subseteq Uuid
    /\ writeMu \in Req \cup {Nil}
    /\ tx \in [Req -> Tx \cup {Nil}]

\* Where a transaction is says what it has executed, and it collects the writes
\* of its own resource only.
TxAt(q) ==
    /\ q.at = "commit" => q.op = "delete"
    /\ q.at = "tags" => q.op # "delete"
    /\ q.at = "row" => ~q.done
    /\ q.at = "wipe" => (q.done <=> q.op # "delete")
    /\ q.at \in {"tags", "commit"} => q.done
    /\ q.op = "delete" => q.want = {}
    /\ q.todo \subseteq q.want /\ q.added = {q.id} \X (q.want \ q.todo)
    /\ q.wiped \subseteq TagsOf(q.id)

\* Two transactions that have written the same row never run at once: the write
\* mutex, or the lock on the row.
ExclusiveInv ==
    /\ Dialect # "postgres" => Busy \subseteq {writeMu}
    /\ \A r \in Busy : \A o \in Busy \ {r} :
         tx[r].done /\ tx[o].done => RowsOf(tx[r]) \cap RowsOf(tx[o]) = {}

\* What a transaction that inserts tags has deleted is still all there is.
WipedInv ==
    \A r \in Busy : tx[r].at = "tags" => tags \cap TagsOf(tx[r].id) \subseteq tx[r].wiped

TagWritesInv ==
    /\ TypeOK /\ ExclusiveInv /\ WipedInv
    /\ \A r \in Busy : TxAt(tx[r])
=============================================================================
