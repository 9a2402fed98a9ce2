---------------------------- MODULE IdentityPools ---------------------------
(***************************************************************************)
(* IdentityPoolService (internal/service/identity_pool.go).  A create and  *)
(* an update make the same three uniqueness queries before their write;    *)
(* an update writes back the whole row it has read.                        *)
(***************************************************************************)
EXTENDS Sessions

CONSTANT Fold       \* [Name -> Name], the case folding of strings.EqualFold

ASSUME FoldAssumption == Fold \in [Name -> Name]

NewPool(q) ==
    [name |-> q.name, slug |-> q.slug, issuer |-> q.issuer, enabled |-> q.enabled]

MergePool(row, q) ==
    [name |-> Or(q.name, row.name), slug |-> Or(q.slug, row.slug),
     issuer |-> Or(q.issuer, row.issuer), enabled |-> Or(q.enabled, row.enabled)]

\* Create and Update up to ensureUnique: the row to write, in memory.
PreparePool(r) ==
    LET q == arg[r]
        creates == q.op = "CreatePool"
        new == IF creates THEN NewPool(q) ELSE MergePool(pools[q.id], q)
    IN  /\ pc[r] = "poolRead"
        /\ IF ~creates /\ pools[q.id] = Nil THEN Refuse(r, 404)
           ELSE IF "" \in {new.name, new.slug, new.issuer} THEN Refuse(r, 400)
           ELSE Proceed(r, "poolSlug",
                        [loc[r] EXCEPT !.owner = IF creates THEN Nil ELSE q.id,
                                       !.row = new])

\* ensureUnique: no pool but the one being updated has the value.
EnsureUnique(r, here, taken, next) ==
    /\ pc[r] = here
    /\ IF taken \subseteq {loc[r].owner} THEN Proceed(r, next, loc[r])
       ELSE Refuse(r, 409)

EnsureSlugUnique(r) ==
    EnsureUnique(r, "poolSlug", PoolsWith("slug", loc[r].row.slug), "poolIssuer")

EnsureIssuerUnique(r) ==
    EnsureUnique(r, "poolIssuer", PoolsWith("issuer", loc[r].row.issuer), "poolNames")

\* The name is compared with every pool of the list, whatever its case.
EnsureNameUnique(r) ==
    EnsureUnique(r, "poolNames",
                 {p \in LivePools : Fold[pools[p].name] = Fold[loc[r].row.name]},
                 "poolWrite")

\* The INSERT or UPDATE; the unique constraints answer a lost race with a 500.
WritePoolRow(r) ==
    LET row == loc[r].row
        p   == loc[r].owner
    IN  /\ pc[r] = "poolWrite"
        /\ IF p # Nil
           THEN IF pools[p] = Nil THEN Refuse(r, 404)
                ELSE IF ~PoolKeysFree(p, row) THEN Refuse(r, 500)
                ELSE WritePool(p, row) /\ Answer(r, 200)
           ELSE \E fresh \in Pool \ used :
                  IF ~PoolKeysFree(fresh, row) THEN Refuse(r, 500)
                  ELSE WritePool(fresh, row) /\ Answer(r, 201)

DeletePool(r) ==
    LET p == arg[r].id
    IN  /\ pc[r] = "poolDelete"
        /\ IF pools[p] = Nil THEN Refuse(r, 404)
           ELSE RemovePool(p) /\ Answer(r, 200)

PoolStep(r) ==
    \/ PreparePool(r) \/ EnsureSlugUnique(r) \/ EnsureIssuerUnique(r)
    \/ EnsureNameUnique(r) \/ WritePoolRow(r) \/ DeletePool(r)
=============================================================================
