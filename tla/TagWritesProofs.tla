--------------------------- MODULE TagWritesProofs --------------------------
(***************************************************************************)
(* Proofs about the write transactions, for any number of requests and any *)
(* tree of networks and subnets, on the databases that have transactions:  *)
(* the theorems suppose that no deployment is on D1, where the refinement  *)
(* is false.                                                               *)
(***************************************************************************)
EXTENDS TagWrites, TLAPS

\* How the transaction table changes under Set and under End.
LEMMA SetEffect ==
    ASSUME TypeOK, NEW r \in Req, NEW q \in Tx, Set(r, q)
    PROVE  /\ tx' \in [Req -> Tx \cup {Nil}]
           /\ tx'[r] = q /\ \A o \in Req \ {r} : tx'[o] = tx[o]
           /\ Busy' = Busy \cup {r}
<1>1. q # Nil
  BY WholeAssumption
<1>2. tx' \in [Req -> Tx \cup {Nil}] /\ tx'[r] = q /\ \A o \in Req \ {r} : tx'[o] = tx[o]
  BY DEF TypeOK, Set
<1>3. QED
  BY <1>1, <1>2 DEF Busy

LEMMA EndEffect ==
    ASSUME TypeOK, NEW r \in Req, End(r)
    PROVE  /\ tx' \in [Req -> Tx \cup {Nil}]
           /\ tx'[r] = Nil /\ \A o \in Req \ {r} : tx'[o] = tx[o]
           /\ Busy' = Busy \ {r}
           /\ writeMu' \in Req \cup {Nil}
<1>1. /\ tx' \in [Req -> Tx \cup {Nil}]
      /\ tx'[r] = Nil /\ \A o \in Req \ {r} : tx'[o] = tx[o]
  BY DEF TypeOK, End
<1>2. QED
  BY <1>1 DEF Busy, TypeOK, End

\* A transaction that is there is one of Tx.
LEMMA BusyTyped ==
    ASSUME TypeOK, NEW r \in Req, tx[r] # Nil
    PROVE  tx[r] \in Tx /\ r \in Busy
BY DEF TypeOK, Busy

\* A step that only moves one transaction keeps the invariant, if what the
\* transaction now is agrees with the tables and with the locks of the others.
LEMMA MoveKeeps ==
    ASSUME TagWritesInv, NEW r \in Req, NEW q \in Tx, Set(r, q),
           UNCHANGED <<Dialect, tables>>, used' \subseteq Uuid,
           writeMu' \in Req \cup {Nil},
           Dialect # "postgres" => writeMu' = r /\ Busy \subseteq {r},
           TxAt(q),
           q.at = "tags" => tags \cap TagsOf(q.id) \subseteq q.wiped,
           \A o \in Busy \ {r} :
             q.done /\ tx[o].done => RowsOf(q) \cap RowsOf(tx[o]) = {}
    PROVE  TagWritesInv'
<1> USE DEF TagWritesInv
<1>1. /\ tx' \in [Req -> Tx \cup {Nil}]
      /\ tx'[r] = q /\ \A o \in Req \ {r} : tx'[o] = tx[o]
      /\ Busy' = Busy \cup {r} /\ Busy \subseteq Req
  BY SetEffect DEF Busy
<1>2. TypeOK'
  BY <1>1 DEF TypeOK, tables
<1>3. ExclusiveInv'
  <2>1. (Dialect # "postgres" => Busy \subseteq {writeMu})'
    BY <1>1
  <2>2. ASSUME NEW a \in Busy', NEW o \in Busy' \ {a}, tx'[a].done, tx'[o].done
        PROVE  RowsOf(tx'[a]) \cap RowsOf(tx'[o]) = {}
    <3>1. CASE a = r
      BY <1>1, <2>2, <3>1
    <3>2. CASE o = r
      BY <1>1, <2>2, <3>2
    <3>3. CASE a # r /\ o # r
      BY <1>1, <2>2, <3>3 DEF ExclusiveInv
    <3>4. QED
      BY <3>1, <3>2, <3>3
  <2>3. QED
    BY <2>1, <2>2 DEF ExclusiveInv, RowsOf, Family
<1>4. WipedInv'
  <2>1. ASSUME NEW a \in Busy', tx'[a].at = "tags"
        PROVE  tags \cap TagsOf(tx'[a].id) \subseteq tx'[a].wiped
    <3>1. CASE a = r
      BY <1>1, <2>1, <3>1
    <3>2. CASE a # r
      BY <1>1, <2>1, <3>2 DEF WipedInv
    <3>3. QED
      BY <3>1, <3>2
  <2>2. QED
    BY <2>1 DEF WipedInv, TagsOf, tables
<1>5. (\A a \in Busy : TxAt(tx[a]))'
  <2>1. ASSUME NEW a \in Busy'
        PROVE  TxAt(tx'[a])
    <3>1. CASE a = r
      BY <1>1, <3>1
    <3>2. CASE a # r
      BY <1>1, <2>1, <3>2
    <3>3. QED
      BY <3>1, <3>2
  <2>2. QED
    BY <2>1 DEF TxAt, TagsOf
<1>6. QED
  BY <1>2, <1>3, <1>4, <1>5

\* So does the end of a transaction, unless it leaves tags to one that has
\* already looked for them.
LEMMA EndKeeps ==
    ASSUME TagWritesInv, NEW r \in Req, End(r),
           UNCHANGED <<Dialect, used>>,
           row' \in [Uuid -> Desc \cup {Nil}], tags' \subseteq Uuid \X Tag,
           \A o \in Busy \ {r} :
             tx[o].at = "tags" => tags' \cap TagsOf(tx[o].id) \subseteq tx[o].wiped
    PROVE  TagWritesInv'
<1> USE DEF TagWritesInv
<1>1. /\ tx' \in [Req -> Tx \cup {Nil}]
      /\ \A o \in Req \ {r} : tx'[o] = tx[o]
      /\ Busy' = Busy \ {r} /\ Busy \subseteq Req
      /\ writeMu' \in Req \cup {Nil}
  BY EndEffect DEF Busy
<1>2. TypeOK'
  BY <1>1 DEF TypeOK
<1>3. ExclusiveInv'
  <2>1. (Dialect # "postgres" => Busy \subseteq {writeMu})'
    BY <1>1 DEF ExclusiveInv, End
  <2>2. ASSUME NEW a \in Busy', NEW o \in Busy' \ {a}, tx'[a].done, tx'[o].done
        PROVE  RowsOf(tx'[a]) \cap RowsOf(tx'[o]) = {}
    BY <1>1, <2>2 DEF ExclusiveInv
  <2>3. QED
    BY <2>1, <2>2 DEF ExclusiveInv, RowsOf, Family
<1>4. WipedInv'
  <2>1. ASSUME NEW a \in Busy', tx'[a].at = "tags"
        PROVE  tags' \cap TagsOf(tx'[a].id) \subseteq tx'[a].wiped
    BY <1>1, <2>1
  <2>2. QED
    BY <2>1 DEF WipedInv, TagsOf
<1>5. (\A a \in Busy : TxAt(tx[a]))'
  <2>1. ASSUME NEW a \in Busy'
        PROVE  TxAt(tx'[a])
    BY <1>1, <2>1
  <2>2. QED
    BY <2>1 DEF TxAt, TagsOf
<1>6. QED
  BY <1>2, <1>3, <1>4, <1>5

LEMMA BeginKeeps ==
    ASSUME "d1" \notin Dialects, TagWritesInv, NEW r \in Req, Begin(r), UNCHANGED Dialect
    PROVE  TagWritesInv'
<1> USE DEF TagWritesInv
<1>1. PICK op \in {"create", "update", "delete"}, x \in Uuid, d \in Desc, T \in SUBSET Tag :
        /\ op = "create" => x \notin used /\ (Parent[x] # Nil => row[Parent[x]] # Nil)
        /\ op # "create" => row[x] # Nil
        /\ op = "delete" => T = {} /\ d = row[x]
        /\ used' = used \cup {x}
        /\ Set(r, [op |-> op, at |-> IF op = "delete" THEN "wipe" ELSE "row",
                   id |-> x, desc |-> d, want |-> T, todo |-> T, wiped |-> {},
                   added |-> {}, done |-> FALSE])
  BY Zenon DEF Begin
<1> DEFINE q == [op |-> op, at |-> IF op = "delete" THEN "wipe" ELSE "row",
                 id |-> x, desc |-> d, want |-> T, todo |-> T, wiped |-> {},
                 added |-> {}, done |-> FALSE]
<1>2. q \in Tx
  BY DEF Tx
<1>3. TxAt(q)
  BY <1>1 DEF TxAt
<1>4. /\ UNCHANGED tables
      /\ IF Dialect = "postgres" THEN UNCHANGED writeMu
         ELSE writeMu = Nil /\ writeMu' = r
  BY DEF Begin
<1>5. Dialect # "postgres" => Busy = {}
  BY <1>4, TagWritesAssumption DEF ExclusiveInv, Busy
<1>6. writeMu' \in Req \cup {Nil} /\ used' \subseteq Uuid
  BY <1>1, <1>4 DEF TypeOK
<1>7. QED
  <2>1. Set(r, q) /\ q.at # "tags" /\ ~q.done
    BY <1>1
  <2> HIDE DEF q
  <2>2. QED
    BY <1>2, <1>3, <1>4, <1>5, <1>6, <2>1, MoveKeeps

\* In a transaction that goes on, the mutex of the other databases is held.
LEMMA MutexHeld ==
    ASSUME TagWritesInv, NEW r \in Req, tx[r] # Nil, UNCHANGED writeMu
    PROVE  /\ writeMu' \in Req \cup {Nil}
           /\ Dialect # "postgres" => writeMu' = r /\ Busy \subseteq {r}
BY DEF TagWritesInv, TypeOK, ExclusiveInv, Busy

\* A transaction with the lock on a row of its own has no rival for it.
LEMMA RowStatementKeeps ==
    ASSUME "d1" \notin Dialects, TagWritesInv, NEW r \in Req, RowStatement(r),
           UNCHANGED Dialect
    PROVE  TagWritesInv'
<1> USE DEF TagWritesInv
<1> DEFINE p == tx[r]
           q == [p EXCEPT !.done = TRUE,
                          !.at = IF p.op = "delete" THEN "commit" ELSE "wipe"]
<1>1. /\ p # Nil /\ p.at = "row" /\ ~Waits(r, p) /\ UNCHANGED <<tags, used>>
      /\ \/ End(r) /\ UNCHANGED row
         \/ Set(r, q) /\ row' = row /\ UNCHANGED writeMu
  BY DEF RowStatement, Transactional, TypeOK
<1>2. p \in Tx /\ r \in Busy /\ TxAt(p)
  BY <1>1, BusyTyped
<1>3. CASE End(r) /\ UNCHANGED row
  <2>1. \A o \in Busy \ {r} :
          tx[o].at = "tags" => tags' \cap TagsOf(tx[o].id) \subseteq tx[o].wiped
    BY <1>1 DEF WipedInv
  <2>2. QED
    BY <1>1, <1>3, <2>1, EndKeeps DEF TypeOK
<1>4. CASE Set(r, q) /\ row' = row /\ UNCHANGED writeMu
  <2>1. /\ q \in Tx /\ q.id = p.id /\ q.op = p.op /\ q.at # "tags"
        /\ q.want = p.want /\ q.todo = p.todo /\ q.added = p.added
        /\ q.wiped = p.wiped /\ q.done
        /\ q.at = IF p.op = "delete" THEN "commit" ELSE "wipe"
    BY <1>2 DEF Tx
  <2>2. TxAt(q)
    <3> HIDE DEF q, p
    <3>1. QED
      BY <1>1, <1>2, <2>1 DEF TxAt
  <2>3. ASSUME NEW o \in Busy \ {r}, tx[o].done
        PROVE  RowsOf(q) \cap RowsOf(tx[o]) = {}
    <3>1. RowsOf(q) = RowsOf(p)
      BY <2>1 DEF RowsOf
    <3>2. CASE Dialect = "postgres"
      BY <1>1, <2>3, <3>1, <3>2 DEF Waits
    <3>3. CASE Dialect # "postgres"
      BY <1>2, <2>3, <3>3 DEF ExclusiveInv
    <3>4. QED
      BY <3>2, <3>3
  <2>4. /\ writeMu' \in Req \cup {Nil}
        /\ Dialect # "postgres" => writeMu' = r /\ Busy \subseteq {r}
    BY <1>1, <1>4, MutexHeld
  <2> HIDE DEF q
  <2>5. used' \subseteq Uuid /\ UNCHANGED tables
    BY <1>1, <1>4 DEF TypeOK, tables
  <2>6. QED
    BY <1>4, <2>1, <2>2, <2>3, <2>4, <2>5, MoveKeeps
<1>5. QED
  BY <1>1, <1>3, <1>4

LEMMA WipeTagsKeeps ==
    ASSUME "d1" \notin Dialects, TagWritesInv, NEW r \in Req, WipeTags(r),
           UNCHANGED Dialect
    PROVE  TagWritesInv'
<1> USE DEF TagWritesInv
<1> DEFINE p == tx[r]
           gone == tags \cap TagsOf(p.id)
           q == [p EXCEPT !.at = IF p.op = "delete" THEN "row" ELSE "tags",
                          !.wiped = gone]
<1>1. /\ p # Nil /\ p.at = "wipe" /\ Set(r, q)
      /\ tags' = tags /\ UNCHANGED <<row, used, writeMu>>
  BY DEF WipeTags, Transactional, TypeOK
<1>2. p \in Tx /\ r \in Busy /\ TxAt(p)
  BY <1>1, BusyTyped
<1>3. /\ q \in Tx /\ q.id = p.id /\ q.op = p.op /\ q.done = p.done
      /\ q.want = p.want /\ q.todo = p.todo /\ q.added = p.added
      /\ q.wiped = gone
      /\ q.at = IF p.op = "delete" THEN "row" ELSE "tags"
  BY <1>2 DEF Tx, TagsOf, TypeOK
<1>4. TxAt(q)
  <2> HIDE DEF q, p
  <2>1. QED
    BY <1>1, <1>2, <1>3 DEF TxAt
<1>5. ASSUME NEW o \in Busy \ {r}, q.done, tx[o].done
      PROVE  RowsOf(q) \cap RowsOf(tx[o]) = {}
  <2>1. RowsOf(q) = RowsOf(p) /\ p.done
    BY <1>3, <1>5 DEF RowsOf
  <2>2. QED
    BY <1>2, <1>5, <2>1 DEF ExclusiveInv
<1>6. /\ writeMu' \in Req \cup {Nil}
      /\ Dialect # "postgres" => writeMu' = r /\ Busy \subseteq {r}
  BY <1>1, MutexHeld
<1>7. used' \subseteq Uuid /\ UNCHANGED tables
  BY <1>1 DEF TypeOK, tables
<1>8. tags \cap TagsOf(q.id) \subseteq q.wiped
  BY <1>3
<1> HIDE DEF q
<1>9. QED
  BY <1>1, <1>3, <1>4, <1>5, <1>6, <1>7, <1>8, MoveKeeps

LEMMA InsertTagKeeps ==
    ASSUME "d1" \notin Dialects, TagWritesInv, NEW r \in Req, InsertTag(r),
           UNCHANGED Dialect
    PROVE  TagWritesInv'
<1> USE DEF TagWritesInv
<1> DEFINE p == tx[r]
<1>1. PICK t \in p.todo :
        /\ p # Nil /\ p.at = "tags"
        /\ Set(r, [p EXCEPT !.todo = @ \ {t}, !.added = @ \cup {<<p.id, t>>}])
        /\ tags' = tags /\ UNCHANGED <<row, used, writeMu>>
  BY DEF InsertTag, Transactional, TypeOK
<1> DEFINE q == [p EXCEPT !.todo = @ \ {t}, !.added = @ \cup {<<p.id, t>>}]
<1>2. p \in Tx /\ r \in Busy /\ TxAt(p)
  BY <1>1, BusyTyped
<1>3. /\ q \in Tx /\ q.id = p.id /\ q.op = p.op /\ q.done = p.done /\ q.at = p.at
      /\ q.want = p.want /\ q.todo = p.todo \ {t}
      /\ q.added = p.added \cup {<<p.id, t>>} /\ q.wiped = p.wiped
  <2>1. p.todo \ {t} \in SUBSET Tag /\ p.added \cup {<<p.id, t>>} \in SUBSET (Uuid \X Tag)
    BY <1>2 DEF Tx
  <2> DEFINE left == p.todo \ {t}
             more == p.added \cup {<<p.id, t>>}
  <2>2. q = [p EXCEPT !.todo = left, !.added = more]
    OBVIOUS
  <2> HIDE DEF left, more
  <2>3. QED
    BY <1>2, <2>1, <2>2 DEF Tx, left, more
<1>4. TxAt(q)
  <2> HIDE DEF q, p
  <2>1. q.added = {q.id} \X (q.want \ q.todo)
    BY <1>1, <1>2, <1>3 DEF TxAt
  <2>2. QED
    BY <1>1, <1>2, <1>3, <2>1 DEF TxAt
<1>5. ASSUME NEW o \in Busy \ {r}, q.done, tx[o].done
      PROVE  RowsOf(q) \cap RowsOf(tx[o]) = {}
  <2>1. RowsOf(q) = RowsOf(p) /\ p.done
    BY <1>3, <1>5 DEF RowsOf
  <2>2. QED
    BY <1>2, <1>5, <2>1 DEF ExclusiveInv
<1>6. /\ writeMu' \in Req \cup {Nil}
      /\ Dialect # "postgres" => writeMu' = r /\ Busy \subseteq {r}
  BY <1>1, MutexHeld
<1>7. used' \subseteq Uuid /\ UNCHANGED tables
  BY <1>1 DEF TypeOK, tables
<1>8. tags \cap TagsOf(q.id) \subseteq q.wiped
  BY <1>1, <1>2, <1>3 DEF WipedInv
<1>9. Set(r, q)
  BY <1>1
<1> HIDE DEF q
<1>10. QED
  BY <1>3, <1>4, <1>5, <1>6, <1>7, <1>8, <1>9, MoveKeeps

\* What a commit adds belongs to a row it alone has written.
LEMMA CommitKeeps ==
    ASSUME "d1" \notin Dialects, TagWritesInv, NEW r \in Req, Commit(r),
           UNCHANGED Dialect
    PROVE  TagWritesInv'
<1> USE DEF TagWritesInv
<1> DEFINE q == tx[r]
<1>1. /\ q # Nil /\ End(r) /\ UNCHANGED used
      /\ q.at = "commit" \/ (q.at = "tags" /\ q.todo = {})
      /\ row' = Written(q) /\ tags' = (tags \ q.wiped) \cup q.added
  BY DEF Commit, Transactional, TypeOK
<1>2. q \in Tx /\ r \in Busy /\ TxAt(q)
  BY <1>1, BusyTyped
<1>3. q.id \in Uuid /\ q.desc \in Desc /\ q.added \subseteq Uuid \X Tag
  BY <1>2 DEF Tx
<1>4. row' \in [Uuid -> Desc \cup {Nil}]
  BY <1>1, <1>3 DEF Written, TypeOK
<1>5. tags' \subseteq Uuid \X Tag
  BY <1>1, <1>3 DEF TypeOK
<1>6. ASSUME NEW o \in Busy \ {r}, tx[o].at = "tags"
      PROVE  tags' \cap TagsOf(tx[o].id) \subseteq tx[o].wiped
  <2>1. tags \cap TagsOf(tx[o].id) \subseteq tx[o].wiped
    BY <1>6 DEF WipedInv
  <2>2. TxAt(tx[o])
    BY <1>6
  <2>3. CASE q.op = "delete"
    <3>1. q.added = {}
      BY <1>2, <2>3 DEF TxAt
    <3>2. QED
      BY <1>1, <2>1, <3>1
  <2>4. CASE q.op # "delete"
    <3>1. q.done /\ tx[o].done /\ tx[o].op # "delete"
      BY <1>1, <1>2, <1>6, <2>2 DEF TxAt
    <3>2. RowsOf(q) \cap RowsOf(tx[o]) = {}
      BY <1>2, <1>6, <3>1 DEF ExclusiveInv
    <3>3. q.id # tx[o].id
      BY <2>4, <3>1, <3>2 DEF RowsOf
    <3>4. q.added \cap TagsOf(tx[o].id) = {}
      BY <1>2, <3>3 DEF TxAt, TagsOf
    <3>5. QED
      BY <1>1, <2>1, <3>4
  <2>5. QED
    BY <2>3, <2>4
<1>7. QED
  BY <1>1, <1>4, <1>5, <1>6, EndKeeps

LEMMA FailKeeps ==
    ASSUME TagWritesInv, NEW r \in Req, Fail(r), UNCHANGED Dialect
    PROVE  TagWritesInv'
<1>1. End(r) /\ UNCHANGED <<row, tags, used>>
  BY DEF Fail, tables
<1>2. \A o \in Busy \ {r} :
        tx[o].at = "tags" => tags' \cap TagsOf(tx[o].id) \subseteq tx[o].wiped
  BY <1>1 DEF TagWritesInv, WipedInv
<1>3. QED
  BY <1>1, <1>2, EndKeeps DEF TagWritesInv, TypeOK

\* Two transactions never write one row at a time, and what a transaction has
\* deleted of its tags is still all there is when it commits
\* (store.go:138-177, tags.go).
THEOREM TagWritesInductive ==
    ASSUME "d1" \notin Dialects
    PROVE  Spec => []TagWritesInv
<1>1. Init => TagWritesInv
  <2> SUFFICES ASSUME Init PROVE TagWritesInv
    OBVIOUS
  <2>1. Busy = {}
    BY DEF Init, Busy
  <2>2. TypeOK
    BY DEF Init, TypeOK
  <2>3. QED
    BY <2>1, <2>2 DEF TagWritesInv, ExclusiveInv, WipedInv
<1>2. TagWritesInv /\ [Next]_vars => TagWritesInv'
  <2> SUFFICES ASSUME TagWritesInv, [Next]_vars
               PROVE  TagWritesInv'
    OBVIOUS
  <2>1. CASE UNCHANGED vars
    BY <2>1 DEF vars, system, tables, TagWritesInv, TypeOK, ExclusiveInv, WipedInv,
                Busy, RowsOf, Family, TagsOf, TxAt
  <2>2. CASE Next
    <3>1. PICK r \in Req : Begin(r) \/ RowStatement(r) \/ WipeTags(r) \/ InsertTag(r)
                           \/ Commit(r) \/ Fail(r)
      BY <2>2 DEF Next
    <3>2. UNCHANGED Dialect
      BY <2>2 DEF Next
    <3>3. QED
      BY <3>1, <3>2, BeginKeeps, RowStatementKeeps, WipeTagsKeeps, InsertTagKeeps,
         CommitKeeps, FailKeeps
  <2>3. QED
    BY <2>1, <2>2
<1>3. QED
  BY <1>1, <1>2, PTL DEF Spec

-----------------------------------------------------------------------------
\* The write that a transaction of the code stands for.
AskOf(q) ==
    [id |-> q.id,
     to |-> IF q.op = "delete" THEN Nil ELSE [desc |-> q.desc, tags |-> q.want]]

ContentOf(x) == [desc |-> row[x], tags |-> {t \in Tag : <<x, t>> \in tags}]

LEMMA AskTyped ==
    ASSUME NEW q \in Tx
    PROVE  AskOf(q) \in Whole!Writes /\ AskOf(q) # Nil
<1>1. AskOf(q) \in Whole!Writes
  BY DEF AskOf, Tx, Whole!Writes, Whole!Contents
<1>2. QED
  BY <1>1, WholeAssumption

LEMMA AskedIs ==
    ASSUME TypeOK, NEW r \in Req
    PROVE  /\ tx[r] = Nil => Asked[r] = Nil
           /\ tx[r] # Nil => Asked[r] = AskOf(tx[r]) /\ Asked[r] # Nil
BY BusyTyped, AskTyped DEF Asked, AskOf

\* A transaction that moves on asks for what it asked for; one that ends asks
\* for nothing.
LEMMA AskedMoves ==
    ASSUME TypeOK, NEW r \in Req, tx[r] # Nil, NEW q \in Tx, Set(r, q),
           AskOf(q) = AskOf(tx[r])
    PROVE  Asked' = Asked
<1>1. tx'[r] = q /\ q # Nil /\ \A o \in Req \ {r} : tx'[o] = tx[o]
  BY SetEffect, WholeAssumption
<1>2. \A o \in Req : (IF tx'[o] = Nil THEN Nil ELSE AskOf(tx'[o]))
                     = (IF tx[o] = Nil THEN Nil ELSE AskOf(tx[o]))
  BY <1>1
<1>3. QED
  BY <1>2 DEF Asked, AskOf

LEMMA AskedEnds ==
    ASSUME TypeOK, NEW r \in Req, End(r)
    PROVE  Asked' = [Asked EXCEPT ![r] = Nil]
<1>1. tx'[r] = Nil /\ \A o \in Req \ {r} : tx'[o] = tx[o]
  BY EndEffect
<1>2. \A o \in Req : (IF tx'[o] = Nil THEN Nil ELSE AskOf(tx'[o]))
                     = (IF o = r THEN Nil
                        ELSE IF tx[o] = Nil THEN Nil ELSE AskOf(tx[o]))
  BY <1>1
<1>3. Asked' = [o \in Req |-> IF o = r THEN Nil
                              ELSE IF tx[o] = Nil THEN Nil ELSE AskOf(tx[o])]
  BY <1>2 DEF Asked, AskOf
<1>4. QED
  BY <1>3 DEF Asked, AskOf

\* A request is asked for when its transaction begins.
LEMMA BeginAsks ==
    ASSUME TagWritesInv, NEW r \in Req, Begin(r)
    PROVE  Whole!Ask(r)
<1>1. PICK op \in {"create", "update", "delete"}, x \in Uuid, d \in Desc, T \in SUBSET Tag :
        /\ op = "create" => x \notin used /\ (Parent[x] # Nil => row[Parent[x]] # Nil)
        /\ op # "create" => row[x] # Nil
        /\ op = "delete" => T = {} /\ d = row[x]
        /\ used' = used \cup {x}
        /\ Set(r, [op |-> op, at |-> IF op = "delete" THEN "wipe" ELSE "row",
                   id |-> x, desc |-> d, want |-> T, todo |-> T, wiped |-> {},
                   added |-> {}, done |-> FALSE])
  BY Zenon DEF Begin
<1> DEFINE q == [op |-> op, at |-> IF op = "delete" THEN "wipe" ELSE "row",
                 id |-> x, desc |-> d, want |-> T, todo |-> T, wiped |-> {},
                 added |-> {}, done |-> FALSE]
<1>2. q \in Tx
  BY DEF Tx
<1>3. TypeOK /\ tx[r] = Nil /\ Set(r, q) /\ UNCHANGED tables
  BY <1>1 DEF Begin, TagWritesInv
<1> HIDE DEF q
<1>4. tx'[r] = q /\ q # Nil /\ \A o \in Req \ {r} : tx'[o] = tx[o]
  BY <1>2, <1>3, SetEffect, WholeAssumption
<1>5. \A o \in Req : (IF tx'[o] = Nil THEN Nil ELSE AskOf(tx'[o]))
                     = (IF o = r THEN AskOf(q)
                        ELSE IF tx[o] = Nil THEN Nil ELSE AskOf(tx[o]))
  BY <1>4
<1>6. Asked' = [o \in Req |-> IF o = r THEN AskOf(q)
                              ELSE IF tx[o] = Nil THEN Nil ELSE AskOf(tx[o])]
  BY <1>5 DEF Asked, AskOf
<1>7. Asked' = [Asked EXCEPT ![r] = AskOf(q)]
  BY <1>6 DEF Asked, AskOf
<1>8. Content' = Content
  BY <1>3 DEF Content, tables
<1>9. Asked[r] = Nil /\ AskOf(q) \in Whole!Writes
  BY <1>2, <1>3, AskedIs, AskTyped
<1>10. QED
  BY <1>7, <1>8, <1>9 DEF Whole!Ask

\* The commit takes effect on the resource as a whole: the tags of the request
\* and no others, and with a network its subnets.
LEMMA CommitExecutes ==
    ASSUME "d1" \notin Dialects, TagWritesInv, NEW r \in Req, Commit(r)
    PROVE  Whole!Execute(r)
<1> USE DEF TagWritesInv
<1> DEFINE q == tx[r]
           w == AskOf(q)
<1>1. /\ q # Nil /\ End(r)
      /\ q.at = "commit" \/ (q.at = "tags" /\ q.todo = {})
      /\ row' = Written(q) /\ tags' = (tags \ q.wiped) \cup q.added
  BY DEF Commit, Transactional, TypeOK
<1>2. q \in Tx /\ r \in Busy /\ TxAt(q)
  BY <1>1, BusyTyped
<1>3. Asked[r] = w /\ w # Nil /\ w \in Whole!Writes
  BY <1>1, <1>2, AskedIs, AskTyped
<1>4. ASSUME NEW x \in Uuid
      PROVE  (IF row'[x] = Nil THEN Nil ELSE ContentOf(x)')
             = (IF x = w.id \/ (w.to = Nil /\ Parent[x] = w.id) THEN w.to
                ELSE Content[x])
  <2>1. Content[x] = IF row[x] = Nil THEN Nil ELSE ContentOf(x)
    BY DEF Content, ContentOf
  <2>2. q.wiped \subseteq TagsOf(q.id) /\ q.added \subseteq TagsOf(q.id)
    BY <1>2 DEF TxAt, TagsOf, Tx
  <2>3. ASSUME x # q.id, row'[x] = row[x]
        PROVE  (IF row'[x] = Nil THEN Nil ELSE ContentOf(x)') = Content[x]
    <3>1. \A t \in Tag : <<x, t>> \in tags' <=> <<x, t>> \in tags
      BY <1>1, <2>2, <2>3 DEF TagsOf
    <3>2. ContentOf(x)' = ContentOf(x)
      BY <2>3, <3>1 DEF ContentOf
    <3>3. QED
      BY <2>1, <2>3, <3>2
  <2>4. w.id = q.id
    BY DEF AskOf
  <2>5. CASE q.op = "delete"
    <3>1. w.to = Nil
      BY <2>5 DEF AskOf
    <3>2. row'[x] = IF x = q.id \/ Parent[x] = q.id THEN Nil ELSE row[x]
      BY <1>1, <2>5 DEF Written, Family
    <3>3. QED
      BY <2>3, <2>4, <3>1, <3>2
  <2>6. CASE q.op # "delete"
    <3>1. w.to = [desc |-> q.desc, tags |-> q.want] /\ w.to # Nil
      <4>1. w.to = [desc |-> q.desc, tags |-> q.want]
        BY <2>6 DEF AskOf
      <4>2. w.to \in Whole!Contents
        BY <1>2, <4>1 DEF Tx, Whole!Contents
      <4>3. QED
        BY <4>1, <4>2, WholeAssumption
    <3>2. row'[x] = IF x = q.id THEN q.desc ELSE row[x]
      BY <1>1, <2>6 DEF Written
    <3>3. CASE x = q.id
      <4>1. q.desc # Nil
        BY <1>2, TagWritesAssumption DEF Tx
      <4>2. q.at = "tags" /\ q.todo = {} /\ q.added = {x} \X q.want
        BY <1>1, <1>2, <2>6, <3>3 DEF TxAt
      <4>3. tags \cap TagsOf(x) \subseteq q.wiped
        BY <1>2, <3>3, <4>2 DEF WipedInv
      <4>4. \A t \in Tag : <<x, t>> \in tags' <=> t \in q.want
        BY <1>1, <4>2, <4>3 DEF TagsOf
      <4>5. q.want \subseteq Tag
        BY <1>2 DEF Tx
      <4>6. {t \in Tag : <<x, t>> \in tags'} = q.want
        BY <4>4, <4>5
      <4>7. ContentOf(x)' = [desc |-> q.desc, tags |-> q.want]
        BY <3>2, <3>3, <4>6 DEF ContentOf
      <4>8. QED
        BY <2>4, <3>1, <3>2, <3>3, <4>1, <4>7
    <3>4. CASE x # q.id
      BY <2>3, <2>4, <3>1, <3>2, <3>4
    <3>5. QED
      BY <3>3, <3>4
  <2>7. QED
    BY <2>5, <2>6
<1>5. Content' = Whole!Effect(w)
  <2> HIDE DEF w
  <2>1. QED
    BY <1>4 DEF Content, ContentOf, Whole!Effect
<1>6. Asked' = [Asked EXCEPT ![r] = Nil]
  BY <1>1, AskedEnds
<1>7. QED
  BY <1>3, <1>5, <1>6 DEF Whole!Execute

\* A statement inside a transaction is not visible, and a transaction that ends
\* without a commit has done nothing.
LEMMA RowStatementHidden ==
    ASSUME "d1" \notin Dialects, TagWritesInv, NEW r \in Req, RowStatement(r)
    PROVE  Content' = Content /\ (Asked' = Asked \/ Whole!Refuse(r))
<1> USE DEF TagWritesInv
<1> DEFINE p == tx[r]
           q == [p EXCEPT !.done = TRUE,
                          !.at = IF p.op = "delete" THEN "commit" ELSE "wipe"]
<1>1. /\ p # Nil /\ UNCHANGED <<row, tags>>
      /\ End(r) \/ Set(r, q)
  BY DEF RowStatement, Transactional, TypeOK
<1>2. Content' = Content
  BY <1>1 DEF Content
<1>3. CASE End(r)
  BY <1>1, <1>2, <1>3, AskedIs, AskedEnds DEF Whole!Refuse
<1>4. CASE Set(r, q)
  <2>1. p \in Tx
    BY <1>1, BusyTyped
  <2>2. q \in Tx /\ q.id = p.id /\ q.op = p.op /\ q.desc = p.desc /\ q.want = p.want
    BY <2>1 DEF Tx
  <2>3. AskOf(q) = AskOf(p)
    BY <2>2 DEF AskOf
  <2> HIDE DEF q
  <2>4. QED
    BY <1>1, <1>2, <1>4, <2>2, <2>3, AskedMoves
<1>5. QED
  BY <1>1, <1>3, <1>4

LEMMA WipeTagsHidden ==
    ASSUME "d1" \notin Dialects, TagWritesInv, NEW r \in Req, WipeTags(r)
    PROVE  Content' = Content /\ Asked' = Asked
<1> USE DEF TagWritesInv
<1> DEFINE p == tx[r]
           gone == tags \cap TagsOf(p.id)
           q == [p EXCEPT !.at = IF p.op = "delete" THEN "row" ELSE "tags",
                          !.wiped = gone]
<1>1. p # Nil /\ Set(r, q) /\ UNCHANGED <<row, tags>>
  BY DEF WipeTags, Transactional, TypeOK
<1>2. p \in Tx
  BY <1>1, BusyTyped
<1>3. q \in Tx /\ q.id = p.id /\ q.op = p.op /\ q.desc = p.desc /\ q.want = p.want
  BY <1>2 DEF Tx, TypeOK
<1>4. AskOf(q) = AskOf(p)
  BY <1>3 DEF AskOf
<1>5. Content' = Content
  BY <1>1 DEF Content
<1> HIDE DEF q
<1>6. QED
  BY <1>1, <1>3, <1>4, <1>5, AskedMoves

LEMMA InsertTagHidden ==
    ASSUME "d1" \notin Dialects, TagWritesInv, NEW r \in Req, InsertTag(r)
    PROVE  Content' = Content /\ Asked' = Asked
<1> USE DEF TagWritesInv
<1> DEFINE p == tx[r]
<1>1. PICK t \in p.todo :
        /\ p # Nil
        /\ Set(r, [p EXCEPT !.todo = @ \ {t}, !.added = @ \cup {<<p.id, t>>}])
        /\ UNCHANGED <<row, tags>>
  BY DEF InsertTag, Transactional, TypeOK
<1> DEFINE left == p.todo \ {t}
           more == p.added \cup {<<p.id, t>>}
           q == [p EXCEPT !.todo = left, !.added = more]
<1>2. p \in Tx
  BY <1>1, BusyTyped
<1>3. left \in SUBSET Tag /\ more \in SUBSET (Uuid \X Tag)
  BY <1>2 DEF Tx
<1>4. Set(r, q)
  BY <1>1
<1>5. q \in Tx /\ q.id = p.id /\ q.op = p.op /\ q.desc = p.desc /\ q.want = p.want
  <2> HIDE DEF left, more
  <2>1. QED
    BY <1>2, <1>3 DEF Tx
<1>6. AskOf(q) = AskOf(p)
  BY <1>5 DEF AskOf
<1>7. Content' = Content
  BY <1>1 DEF Content
<1> HIDE DEF q
<1>8. QED
  BY <1>1, <1>4, <1>5, <1>6, <1>7, AskedMoves

\* Where the database has transactions, a resource and its tags change as one:
\* the statements implement whole writes, whichever of them fail and however
\* the transactions interleave (store.go:138-177).
THEOREM TransactionsAreWhole ==
    ASSUME "d1" \notin Dialects
    PROVE  Spec => ImplementsResources
<1>1. Init => Whole!Init
  BY DEF Init, Whole!Init, Content, Asked
<1>2. ASSUME TagWritesInv, [Next]_vars
      PROVE  [Whole!Next]_<<Content, Asked>>
  <2>1. CASE UNCHANGED vars
    BY <2>1 DEF vars, system, tables, Content, Asked
  <2>2. CASE Next
    <3>1. PICK r \in Req : Begin(r) \/ RowStatement(r) \/ WipeTags(r) \/ InsertTag(r)
                           \/ Commit(r) \/ Fail(r)
      BY <2>2 DEF Next
    <3>2. CASE Begin(r)
      BY <1>2, <3>2, BeginAsks DEF Whole!Next
    <3>3. CASE RowStatement(r)
      BY <1>2, <3>3, RowStatementHidden DEF Whole!Next
    <3>4. CASE WipeTags(r) \/ InsertTag(r)
      BY <1>2, <3>4, WipeTagsHidden, InsertTagHidden
    <3>5. CASE Commit(r)
      BY <1>2, <3>5, CommitExecutes DEF Whole!Next
    <3>6. CASE Fail(r)
      <4>1. tx[r] # Nil /\ End(r) /\ UNCHANGED tables /\ TypeOK
        BY <1>2, <3>6 DEF Fail, TagWritesInv
      <4>2. Content' = Content
        BY <4>1 DEF tables, Content
      <4>3. Whole!Refuse(r)
        BY <4>1, <4>2, AskedIs, AskedEnds DEF Whole!Refuse
      <4>4. QED
        BY <4>3 DEF Whole!Next
    <3>7. QED
      BY <3>1, <3>2, <3>3, <3>4, <3>5, <3>6
  <2>3. QED
    BY <1>2, <2>1, <2>2
<1>3. QED
  BY <1>1, <1>2, TagWritesInductive, PTL DEF Spec, ImplementsResources, Whole!Spec

=============================================================================
