--------------------------------- MODULE Jwks --------------------------------
(***************************************************************************)
(* The signing keys of one machine identity provider: the row an           *)
(* administrator updates, the key set the issuer publishes, and the cache  *)
(* every server process keeps for an hour (service/machine_auth.go:128-293, *)
(* machine.go:299-379).  The n-th key set holds the one key with kid n.    *)
(* Time is counted in units of the timeout of one HTTP call.               *)
(***************************************************************************)
EXTENDS Naturals

CONSTANTS
    Process,        \* server processes
    Call,           \* requests
    ProcessOf,      \* [Call -> Process]
    TTL, Timeout,   \* jwksCacheTTL and machineHTTPTimeout, of one HTTP call
    Modes,          \* the jwks_mode values administrators use
    MaxKid, Horizon,\* bounds: key sets ever made, time
    Absent          \* no row, no entry, nothing read yet

ASSUME JwksAssumption ==
    /\ ProcessOf \in [Call -> Process]
    /\ Modes \subseteq {"static", "uri", "discovery"} /\ Modes # {}
    /\ {Timeout, MaxKid, Horizon} \subseteq Nat /\ TTL \in Nat \ {0}

Kid == 0..MaxKid

\* keys is the document of a static provider; the others do not use it.
Row == [mode : Modes, keys : Kid]
Entry == [set : Kid, fetchedAt : 0..Horizon]

ASSUME AbsentAssumption == Absent \notin Row \cup Entry

NoLocals == [op |-> "none", kid |-> 0, row |-> Absent, set |-> Absent, forced |-> FALSE,
             since |-> 0]

VARIABLES
    time, row, published,   \* the clock, the provider's row, the issuer's set
    cache,                  \* [Process -> the cache entry of the provider or Absent]
    stage, loc, verdict,    \* the requests; verdict: what the last step decided
    inForce,                \* history: [Kid -> the last instant it was in force]
    always                  \* history, see Observe

env      == <<time, row, published>>
process  == <<stage, loc, verdict>>
history  == <<inForce, always>>
jwksVars == <<env, cache, process, history>>

\* The key a correct verifier accepts now, by the configuration x.
KeysOf(x) == IF x = Absent THEN {} ELSE IF x.mode = "static" THEN {x.keys} ELSE {published}

Current == KeysOf(row)

\* With those of the rows that requests in flight have read.
CurrentInFlight == Current \cup UNION {KeysOf(loc[r].row) : r \in Call}

JwksInit ==
    /\ time = 0 /\ published = 0
    /\ row \in {[mode |-> m, keys |-> 0] : m \in Modes}
    /\ cache = [s \in Process |-> Absent]
    /\ stage = [r \in Call |-> "idle"]
    /\ loc = [r \in Call |-> NoLocals]
    /\ verdict = [r \in Call |-> "none"]
    /\ inForce = [k \in Kid |-> 0]
    /\ always = [r \in Call |-> FALSE]

NoVerdict == verdict' = [r \in Call |-> "none"]

Proceed(r, l, new) ==
    /\ stage' = [stage EXCEPT ![r] = l]
    /\ loc' = [loc EXCEPT ![r] = new]
    /\ NoVerdict

Finish(r, v) ==
    /\ stage' = [stage EXCEPT ![r] = "idle"]
    /\ loc' = [loc EXCEPT ![r] = NoLocals]
    /\ verdict' = [[q \in Call |-> "none"] EXCEPT ![r] = v]

\* A request arrives: a JWT to verify, an update or a refresh; each reads the
\* provider's row first (ListEnabledByIssuer, GetProvider).
Receive(r) ==
    /\ stage[r] = "idle"
    /\ \E op \in {"verify", "update", "refresh"}, k \in Kid :
        /\ op = "refresh" => row # Absent /\ row.mode # "static" /\ k = 0
        /\ IF row = Absent THEN Finish(r, "notFound")
           ELSE Proceed(r, CASE op = "verify" -> "lookup" [] op = "update" -> "write"
                             [] op = "refresh" -> "invalidate",
                        [NoLocals EXCEPT !.op = op, !.kid = k, !.row = row])
    /\ UNCHANGED <<env, cache>>

\* keysForProvider starts the first of its HTTP calls; for a static provider the
\* stage "fetch" only parses the document.
StartFetch(r, forced) ==
    Proceed(r, IF loc[r].row.mode = "discovery" THEN "discover" ELSE "fetch",
            [loc[r] EXCEPT !.forced = forced, !.since = time])

\* Mutant: an unknown kid in a cached set is not looked up again.
Judge_noRefetch(r, set) ==
    IF loc[r].op = "refresh" THEN Finish(r, "refreshed")
    ELSE IF set = loc[r].kid THEN Finish(r, "accepted")
    ELSE Finish(r, "unknown")

\* findJWK on the set at hand: accept, look again at the source, or reject.
Judge(r, set) ==
    IF loc[r].op = "refresh" THEN Finish(r, "refreshed")
    ELSE IF set = loc[r].kid THEN Finish(r, "accepted")
    ELSE IF loc[r].forced THEN Finish(r, "unknown")
    ELSE StartFetch(r, TRUE)

\* Mutant: an entry never expires.
Fresh_forever(s) == cache[s] # Absent

Fresh(s) == cache[s] # Absent /\ time - cache[s].fetchedAt < TTL

\* keysForProvider without force: the cache entry while it is fresh.  A provider
\* waits here, for any time, while others of the same issuer are tried first.
Lookup(r) ==
    LET s == ProcessOf[r]
    IN  /\ stage[r] = "lookup"
        /\ IF Fresh(s) THEN Judge(r, cache[s].set)
           ELSE StartFetch(r, FALSE)
        /\ UNCHANGED <<env, cache>>

\* discoverJWKSURI has its answer: a second call, with a timeout of its own.
Discover(r) ==
    /\ stage[r] = "discover"
    /\ Proceed(r, "fetch", [loc[r] EXCEPT !.since = time])
    /\ UNCHANGED <<env, cache>>

\* keysForProvider by mode: the row read at the beginning, or the issuer's
\* answer.
Fetch(r) ==
    /\ stage[r] = "fetch"
    /\ Proceed(r, "store", [loc[r] EXCEPT !.set = IF loc[r].row.mode = "static"
                                                  THEN loc[r].row.keys ELSE published])
    /\ UNCHANGED <<env, cache>>

\* Mutant: without an answer the set at hand is used, as if fetched anew.
FetchFails_keepsCached(r) ==
    /\ stage[r] \in {"discover", "fetch"} /\ loc[r].row.mode # "static"
    /\ IF cache[ProcessOf[r]] = Absent THEN Finish(r, "unreachable")
       ELSE Proceed(r, "store", [loc[r] EXCEPT !.set = cache[ProcessOf[r]].set])
    /\ UNCHANGED <<env, cache>>

\* The issuer does not answer one of the calls, or not with keys.
FetchFails(r) ==
    /\ stage[r] \in {"discover", "fetch"} /\ loc[r].row.mode # "static"
    /\ Finish(r, "unreachable")
    /\ UNCHANGED <<env, cache>>

\* The set enters the cache, with the time of its arrival, and is used.
StoreKeys(r) ==
    /\ stage[r] = "store"
    /\ cache' = [cache EXCEPT ![ProcessOf[r]] = [set |-> loc[r].set, fetchedAt |-> time]]
    /\ Judge(r, loc[r].set)
    /\ UNCHANGED env

\* UpdateProvider or DeleteProvider: the write of the row.
WriteRow(r) ==
    /\ stage[r] = "write"
    /\ IF row = Absent THEN Finish(r, "notFound") /\ UNCHANGED row
       ELSE /\ \E new \in {[mode |-> m, keys |-> loc[r].kid] : m \in Modes} \cup {Absent} :
                 row' = new
            /\ Proceed(r, "invalidate", loc[r])
    /\ UNCHANGED <<time, published, cache>>

\* invalidateJWKS, in the memory of this server only.
InvalidateKeys(r) ==
    /\ stage[r] = "invalidate"
    /\ cache' = [cache EXCEPT ![ProcessOf[r]] = Absent]
    /\ IF loc[r].op = "refresh" THEN StartFetch(r, FALSE)
       ELSE Finish(r, "updated")
    /\ UNCHANGED env

Serve(r) ==
    \/ Receive(r) \/ Lookup(r) \/ Discover(r) \/ Fetch(r) \/ FetchFails(r)
    \/ StoreKeys(r) \/ WriteRow(r) \/ InvalidateKeys(r)

\* The issuer rotates its key.
Rotate ==
    /\ published < MaxKid
    /\ published' = published + 1
    /\ NoVerdict
    /\ UNCHANGED <<time, row, cache, stage, loc>>

\* Where a request is within an HTTP call, or has its answer at hand.
Calling == {"discover", "fetch", "store"}

\* Time passes, but http.Client ends each call after Timeout.  Elsewhere, at the
\* database or between two calls, a request may take any time.
Elapse ==
    /\ time < Horizon
    /\ \A r \in Call : stage[r] \in Calling => time - loc[r].since < Timeout
    /\ time' = time + 1
    /\ NoVerdict
    /\ UNCHANGED <<row, published, cache, stage, loc>>

\* always: the kid of the request has been in force since it began, by the row
\* it has read.
Observe ==
    /\ inForce' = [k \in Kid |-> IF k \in CurrentInFlight \cup CurrentInFlight'
                                 THEN time' ELSE inForce[k]]
    /\ always' = [r \in Call |->
           /\ stage'[r] # "idle" /\ (stage[r] = "idle" \/ always[r])
           /\ loc'[r].kid \in KeysOf(loc[r].row)']

JwksNext == ((\E r \in Call : Serve(r)) \/ Rotate \/ Elapse) /\ Observe

JwksSpec == JwksInit /\ [][JwksNext]_jwksVars

-----------------------------------------------------------------------------
Decides(r, v) == verdict'[r] = v /\ stage[r] # "idle"

\* A key that has been withdrawn, by the issuer or by an administrator on any
\* server, is accepted for less than the cache's hour and one timeout after the
\* last request that read it as configured, in spite of slow fetches that
\* overwrite the cache (machine_auth.go:251-287).
StalenessBounded ==
    [][\A r \in Call : Decides(r, "accepted") =>
         time - inForce[loc[r].kid] < TTL + Timeout]_jwksVars

\* "Automatic: kilhog refreshes keys [...] when a token presents an unknown
\* kid" (FUNCTIONAL.md:406): a token whose key has been in force since it
\* arrived is never rejected for its kid, whatever old set is cached.
CurrentKeyAccepted ==
    [][\A r \in Call : Decides(r, "unknown") => ~always[r]]_jwksVars

-----------------------------------------------------------------------------
(* The inductive invariant.                                                *)

Stage == {"idle", "lookup", "write", "invalidate"} \cup Calling

Locals == [op : {"none", "verify", "update", "refresh"}, kid : Kid,
           row : Row \cup {Absent}, set : Kid \cup {Absent}, forced : BOOLEAN,
           since : 0..Horizon]

JwksTyped ==
    /\ time \in 0..Horizon /\ row \in Row \cup {Absent} /\ published \in Kid
    /\ cache \in [Process -> Entry \cup {Absent}]
    /\ stage \in [Call -> Stage]
    /\ loc \in [Call -> Locals]
    /\ inForce \in [Kid -> 0..Horizon] /\ always \in [Call -> BOOLEAN]

\* A request has read a row, and its HTTP call has begun within the last timeout.
CallAt(r) ==
    /\ loc[r].since <= time
    /\ stage[r] # "idle" => loc[r].row \in Row
    /\ stage[r] \in Calling => time <= loc[r].since + Timeout
    /\ stage[r] = "lookup" => ~loc[r].forced

\* A set on its way into the cache has been in force since its fetch began; it
\* has the key of the request, if that one has been in force all the time.
FetchedAt(r) ==
    stage[r] = "store" =>
        /\ loc[r].set \in Kid /\ loc[r].since <= inForce[loc[r].set]
        /\ always[r] => loc[r].set = loc[r].kid

\* A set in the cache was in force a timeout before it arrived, or later.
CacheInv ==
    \A s \in Process : cache[s] # Absent =>
        cache[s].fetchedAt <= inForce[cache[s].set] + Timeout

JwksInv ==
    /\ JwksTyped /\ CacheInv
    /\ \A k \in Kid : inForce[k] <= time
    /\ \A r \in Call : CallAt(r) /\ FetchedAt(r)

-----------------------------------------------------------------------------
(* A statement of the documentation that concurrent requests break.        *)

\* "Manual: the administrator must update the document" (FUNCTIONAL.md:408):
\* when nothing is in flight any more, the keys a server would use for the next
\* token of a static provider are those of the document.
UpdateTakesEffect ==
    (\A r \in Call : stage[r] = "idle") /\ row # Absent /\ row.mode = "static" =>
        \A s \in Process : Fresh(s) => cache[s].set = row.keys
=============================================================================
