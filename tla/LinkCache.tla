----------------------------- MODULE LinkCache -----------------------------
(***************************************************************************)
(* The redirect cache in front of the links table: internal/link/cache.go  *)
(* and the parts of internal/link/service.go that fill it (a cache miss    *)
(* loads the row through a singleflight group) and that empty it (every    *)
(* mutation of a link commits to the database first and invalidates the    *)
(* code afterwards, as separate steps).                                    *)
(*                                                                         *)
(* What a key resolves to is abstracted to a stamp: stamp[k] counts the    *)
(* committed changes of the row (or of the absence of a row) behind the    *)
(* lowercased code k.  A cached or loaded value carries the stamp it was   *)
(* read at, so "older" and "newer" are comparisons of stamps.  Fields such *)
(* as the target, the status or the deletion mark are part of the value    *)
(* and only matter here by their change.                                   *)
(*                                                                         *)
(* Time is a countdown: each cache entry and each load carries the ticks   *)
(* it has left, and each value the ticks since a later change superseded   *)
(* it (its "stale" field, 0 while it is current).                          *)
(***************************************************************************)
EXTENDS Integers, FiniteSets

CONSTANTS
  Links,        \* link ids
  Codes,        \* the spellings of codes that visitors and owners use
  Lower,        \* toLower, as a function from Codes to Codes
  Requests,     \* redirect requests in progress at the same time
  Mutators,     \* API handlers that change links at the same time
  TTL,          \* defaultTTL, in ticks
  NegTTL,       \* negativeTTL, in ticks
  LoadTimeout,  \* the 5 second timeout of a load, in ticks
  Past,         \* bound: the states links may be in at the start
  MaxStamp      \* bound: committed changes per key

ASSUME LowerAssumption ==
  /\ Lower \in [Codes -> Codes]
  /\ \A c \in Codes : Lower[Lower[c]] = Lower[c]

ASSUME NonEmptyAssumption == Codes # {} /\ Links # {}

ASSUME TimeAssumption ==
  /\ TTL \in Nat \ {0}
  /\ NegTTL \in Nat \ {0}
  /\ LoadTimeout \in Nat
  /\ NegTTL <= TTL

ASSUME BoundAssumption ==
  /\ MaxStamp \in Nat
  /\ Past \subseteq {"none", "live", "deleted"}

\* A cache key is a lowercased code.
Keys == {Lower[c] : c \in Codes}

Max2(a, b) == IF a >= b THEN a ELSE b

VARIABLES
  links,    \* the links table: code and state of each id
  stamp,    \* ghost: committed changes per key
  cache,    \* the entry of each key; one with no ticks left is no entry
  flight,   \* the singleflight call in progress under each name
  rpc,      \* where each request is in ResolveForRedirect
  rcode,    \* the code it asks for
  res,      \* what it was answered
  floor,    \* ghost: the newest stamp answered for its key when it began
  acked,    \* ghost: per key, newest stamp whose mutation has returned
  fresh,    \* ghost: acked of its key when the request began
  issued,   \* ghost: per key, newest stamp any request was answered with
  mpc,      \* where each mutating handler is
  mut,      \* what it does: operation, link, code it read, code it writes
  mack,     \* ghost: the stamps its commit gave to the keys it changed
  raced,    \* ghost: keys with a change the invalidation could not cover
  doomed    \* ids the purge job has selected and not yet deleted

linkVars == <<links, stamp, raced>>
reqVars  == <<rpc, rcode, res, floor, fresh, issued>>
mutVars  == <<mpc, mut, mack, acked>>
vars     == <<linkVars, cache, flight, reqVars, mutVars, doomed>>

-----------------------------------------------------------------------------
\* An id is never used again: "none" is an id not yet given to a link.
States == {"none", "live", "deleted", "purged"}
Ops    == {"create", "update", "delete", "restore", "purge"}

Value  == [missing : BOOLEAN, stamp : Nat, stale : Nat]
Entry  == [missing : BOOLEAN, stamp : Nat, stale : Nat, left : Nat]
Flight == [phase : {"none", "query", "got", "put"},
           missing : BOOLEAN, stamp : Nat, stale : Nat, left : Nat]

NoEntry  == [missing |-> FALSE, stamp |-> 0, stale |-> 0, left |-> 0]
NoFlight == [phase |-> "none", missing |-> FALSE, stamp |-> 0, stale |-> 0,
             left |-> 0]
NoResult == [missing |-> FALSE, stamp |-> 0, stale |-> 0]

TypeOK ==
  /\ links \in [Links -> [code : Codes, st : States]]
  /\ stamp \in [Keys -> Nat]
  /\ cache \in [Keys -> Entry]
  /\ flight \in [Codes -> Flight]
  /\ rpc \in [Requests -> {"idle", "load", "wait", "done", "error"}]
  /\ rcode \in [Requests -> Codes]
  /\ res \in [Requests -> Value]
  /\ floor \in [Requests -> Nat]
  /\ fresh \in [Requests -> Nat]
  /\ acked \in [Keys -> Nat]
  /\ issued \in [Keys -> Nat]
  /\ mpc \in [Mutators -> {"idle", "commit", "invOld", "invNew"}]
  /\ mut \in [Mutators ->
                [op : Ops, id : Links, old : Codes, new : Codes]]
  /\ mack \in [Mutators -> [Keys -> Nat]]
  /\ raced \in SUBSET Keys
  /\ doomed \in SUBSET Links

AnyCode == CHOOSE c \in Codes : TRUE
NoMut   == [op |-> "create", id |-> CHOOSE i \in Links : TRUE,
            old |-> AnyCode, new |-> AnyCode]

\* The row a lookup by code finds: the unique index on LOWER(code) leaves one.
InTable(row) == row.st \in {"live", "deleted"}

Holders(k) == {i \in Links : InTable(links[i]) /\ Lower[links[i].code] = k}

\* The process starts with an empty cache on a table that has a past (how its
\* codes are spelled decides nothing).
Init ==
  /\ links \in [Links -> [code : Codes, st : Past]]
  /\ \A i \in Links : IF InTable(links[i]) THEN links[i].code \in Keys
                                            ELSE links[i].code = AnyCode
  /\ \A k \in Keys : Cardinality(Holders(k)) <= 1
  /\ stamp = [k \in Keys |-> 0]
  /\ cache = [k \in Keys |-> NoEntry]
  /\ flight = [c \in Codes |-> NoFlight]
  /\ rpc = [r \in Requests |-> "idle"]
  /\ rcode = [r \in Requests |-> AnyCode]
  /\ res = [r \in Requests |-> NoResult]
  /\ floor = [r \in Requests |-> 0]
  /\ fresh = [r \in Requests |-> 0]
  /\ acked = [k \in Keys |-> 0]
  /\ issued = [k \in Keys |-> 0]
  /\ mpc = [m \in Mutators |-> "idle"]
  /\ mut = [m \in Mutators |-> NoMut]
  /\ mack = [m \in Mutators |-> [k \in Keys |-> 0]]
  /\ raced = {}
  /\ doomed = {}

-----------------------------------------------------------------------------
(* The redirect path: ResolveForRedirect.                                  *)

CurrentValue(k) == [missing |-> Holders(k) = {}, stamp |-> stamp[k], stale |-> 0]

AsValue(e) == [missing |-> e.missing, stamp |-> e.stamp, stale |-> e.stale]

\* cache.Get finds an entry that has not expired: answered without the
\* database, a negative entry as "not found".
Hit(r, c) ==
  LET k == Lower[c] IN
  /\ cache[k].left > 0
  /\ rpc' = [rpc EXCEPT ![r] = "done"]
  /\ res' = [res EXCEPT ![r] = AsValue(cache[k])]
  /\ issued' = [issued EXCEPT ![k] = Max2(@, cache[k].stamp)]

\* No entry, or an expired one that Get drops.
Miss(r, c) ==
  /\ cache[Lower[c]].left = 0
  /\ rpc' = [rpc EXCEPT ![r] = "load"]
  /\ res' = [res EXCEPT ![r] = NoResult]
  /\ UNCHANGED issued

Lookup(r) ==
  \E c \in Codes :
    /\ rpc[r] \in {"idle", "done", "error"}
    /\ rcode' = [rcode EXCEPT ![r] = c]
    /\ floor' = [floor EXCEPT ![r] = issued[Lower[c]]]
    /\ fresh' = [fresh EXCEPT ![r] = acked[Lower[c]]]
    /\ Hit(r, c) \/ Miss(r, c)
    /\ UNCHANGED <<linkVars, cache, flight, mutVars, doomed>>

\* The group would run two loads of one row at once under the raw code.
FlightKey_Raw(c) == c

\* The name the singleflight group collapses loads under: toLower(code).
FlightKey(c) == Lower[c]

\* loads.Do: the first caller of a name starts the load, later ones wait for it.
JoinLoad(r) ==
  LET f == FlightKey(rcode[r]) IN
  /\ rpc[r] = "load"
  /\ rpc' = [rpc EXCEPT ![r] = "wait"]
  /\ flight' = IF flight[f].phase = "none"
               THEN [flight EXCEPT ![f] = [NoFlight EXCEPT !.phase = "query",
                                                           !.left = LoadTimeout]]
               ELSE flight
  /\ UNCHANGED <<linkVars, cache, rcode, res, floor, fresh, issued, mutVars,
                 doomed>>

\* GetLinkByCode answers.  Its second, case-insensitive query decides
\* whenever its first one finds nothing, so the read takes effect at one point.
QueryAnswers(f) ==
  LET v == CurrentValue(Lower[f]) IN
  /\ flight[f].phase = "query"
  /\ flight' = [flight EXCEPT ![f] =
                  [phase |-> "got", left |-> flight[f].left,
                   missing |-> v.missing, stamp |-> v.stamp, stale |-> 0]]
  /\ UNCHANGED <<linkVars, cache, reqVars, mutVars, doomed>>

Stored(f, ticks) == [missing |-> flight[f].missing, stamp |-> flight[f].stamp,
                     stale |-> flight[f].stale, left |-> ticks]

\* PutMissing with the lifetime of a row.
FillCache_NegativeAsLong(f) ==
  /\ flight[f].phase = "got"
  /\ cache' = [cache EXCEPT ![Lower[f]] = Stored(f, TTL)]
  /\ flight' = [flight EXCEPT ![f].phase = "put"]
  /\ UNCHANGED <<linkVars, reqVars, mutVars, doomed>>

\* The load stores what it read: cache.Put, or cache.PutMissing for no row.
FillCache(f) ==
  /\ flight[f].phase = "got"
  /\ cache' = [cache EXCEPT ![Lower[f]] =
                 Stored(f, IF flight[f].missing THEN NegTTL ELSE TTL)]
  /\ flight' = [flight EXCEPT ![f].phase = "put"]
  /\ UNCHANGED <<linkVars, reqVars, mutVars, doomed>>

Waiters(f) == {r \in Requests : rpc[r] = "wait" /\ FlightKey(rcode[r]) = f}

\* The load returns: singleflight forgets the name and answers every waiter.
AnswerWaiters(f) ==
  /\ flight[f].phase = "put"
  /\ rpc' = [r \in Requests |-> IF r \in Waiters(f) THEN "done" ELSE rpc[r]]
  /\ res' = [r \in Requests |->
               IF r \in Waiters(f) THEN AsValue(flight[f]) ELSE res[r]]
  /\ issued' = [issued EXCEPT ![Lower[f]] = Max2(@, flight[f].stamp)]
  /\ flight' = [flight EXCEPT ![f] = NoFlight]
  /\ UNCHANGED <<linkVars, cache, rcode, floor, fresh, mutVars, doomed>>

\* The load fails and nobody is told.
LoadFails_Silently(f) ==
  /\ flight[f].phase = "query"
  /\ flight' = [flight EXCEPT ![f] = NoFlight]
  /\ UNCHANGED <<linkVars, cache, reqVars, mutVars, doomed>>

\* The query fails or times out: an error for every waiter, nothing cached.
LoadFails(f) ==
  /\ flight[f].phase = "query"
  /\ rpc' = [r \in Requests |-> IF r \in Waiters(f) THEN "error" ELSE rpc[r]]
  /\ flight' = [flight EXCEPT ![f] = NoFlight]
  /\ UNCHANGED <<linkVars, cache, rcode, res, floor, fresh, issued, mutVars,
                 doomed>>

\* A put of another code of the shard pushes this entry off the LRU list.
Evict(k) ==
  /\ cache[k] # NoEntry
  /\ cache' = [cache EXCEPT ![k] = NoEntry]
  /\ UNCHANGED <<linkVars, flight, reqVars, mutVars, doomed>>

-----------------------------------------------------------------------------
(* The mutations: Create, Update, Delete, Restore and Purge of Service.    *)

\* A handler reads the link it will change (getOwnedLink) and decides on the
\* operation; Update and Create also choose the code to write.
StartMutation(m) ==
  \E id \in Links, op \in Ops, c \in Codes :
    /\ mpc[m] = "idle"
    /\ IF op = "create" THEN links[id].st = "none" ELSE InTable(links[id])
    /\ op = "create" => \A n \in Mutators :
         mpc[n] = "idle" \/ mut[n].op # "create" \/ mut[n].id # id
    /\ op = "restore" => links[id].st = "deleted"
    /\ op \in {"delete", "restore", "purge"} => c = links[id].code
    /\ mpc' = [mpc EXCEPT ![m] = "commit"]
    /\ mut' = [mut EXCEPT ![m] =
                 [op |-> op, id |-> id, new |-> c,
                  old |-> IF op = "create" THEN c ELSE links[id].code]]
    /\ UNCHANGED <<linkVars, cache, flight, reqVars, mack, acked, doomed>>

\* The row as the statement leaves it; no statement but INSERT adds a row.
NewRow(m) ==
  LET row == links[mut[m].id] IN
  CASE mut[m].op = "create"  -> [code |-> mut[m].new, st |-> "live"]
    [] ~InTable(row)         -> row
    [] mut[m].op = "update"  -> [row EXCEPT !.code = mut[m].new]
    [] mut[m].op = "delete"  -> [row EXCEPT !.st = "deleted"]
    [] mut[m].op = "restore" -> [row EXCEPT !.st = "live"]
    [] mut[m].op = "purge"   -> [row EXCEPT !.st = "purged"]

\* The keys whose meaning the statement changes: of the row as it is now, not
\* as the handler read it, and of the code it writes.
Changed(m) ==
  LET row == links[mut[m].id] IN
  IF mut[m].op = "create" THEN {Lower[mut[m].new]}
  ELSE IF ~InTable(row) THEN {}
  ELSE {Lower[row.code], Lower[NewRow(m).code]}

\* The keys the handler is going to invalidate.
Invalidated(m) == {Lower[mut[m].old], Lower[mut[m].new]}

CodeTaken(m) ==
  /\ mut[m].op \in {"create", "update"}
  /\ Changed(m) # {}
  /\ Holders(Lower[mut[m].new]) \ {mut[m].id} # {}

Bump(S) == [k \in Keys |-> IF k \in S THEN stamp[k] + 1 ELSE stamp[k]]

\* The database write.
Commit(m) ==
  /\ mpc[m] = "commit"
  /\ ~CodeTaken(m)
  /\ \A k \in Changed(m) : stamp[k] < MaxStamp
  /\ links' = [links EXCEPT ![mut[m].id] = NewRow(m)]
  /\ stamp' = Bump(Changed(m))
  /\ raced' = raced \cup {k \in Changed(m) :
                            \/ \E f \in Codes : /\ FlightKey(f) = k
                                                /\ flight[f].phase \in {"got", "put"}
                            \/ k \notin Invalidated(m)}
  /\ mack' = [mack EXCEPT ![m] =
                [k \in Keys |-> IF k \in Changed(m) THEN stamp[k] + 1 ELSE 0]]
  /\ mpc' = [mpc EXCEPT ![m] = "invOld"]
  /\ UNCHANGED <<cache, flight, reqVars, mut, acked, doomed>>

\* A taken code or a database error: the handler answers with the error.
CommitFails(m) ==
  /\ mpc[m] = "commit"
  /\ mpc' = [mpc EXCEPT ![m] = "idle"]
  /\ mut' = [mut EXCEPT ![m] = NoMut]
  /\ UNCHANGED <<linkVars, cache, flight, reqVars, mack, acked, doomed>>

\* The handler answers its client.
Return(m) ==
  /\ mpc' = [mpc EXCEPT ![m] = "idle"]
  /\ mut' = [mut EXCEPT ![m] = NoMut]
  /\ mack' = [mack EXCEPT ![m] = [k \in Keys |-> 0]]
  /\ acked' = [k \in Keys |-> Max2(acked[k], mack[m][k])]

\* Update forgets the code it moved the link to.
InvalidateOld_Only(m) ==
  /\ mpc[m] = "invOld"
  /\ cache' = [cache EXCEPT ![Lower[mut[m].old]] = NoEntry]
  /\ Return(m)
  /\ UNCHANGED <<linkVars, flight, reqVars, doomed>>

\* Invalidate(code): of the code the handler read, or the code it created.
InvalidateOld(m) ==
  /\ mpc[m] = "invOld"
  /\ cache' = [cache EXCEPT ![Lower[mut[m].old]] = NoEntry]
  /\ IF mut[m].new # mut[m].old
     THEN /\ mpc' = [mpc EXCEPT ![m] = "invNew"]
          /\ UNCHANGED <<mut, mack, acked>>
     ELSE Return(m)
  /\ UNCHANGED <<linkVars, flight, reqVars, doomed>>

\* Update with a new code invalidates that one too.
InvalidateNew(m) ==
  /\ mpc[m] = "invNew"
  /\ cache' = [cache EXCEPT ![Lower[mut[m].new]] = NoEntry]
  /\ Return(m)
  /\ UNCHANGED <<linkVars, flight, reqVars, doomed>>

\* The purge job selects what was soft-deleted long enough ago ...
JobSelects(id) ==
  /\ links[id].st = "deleted"
  /\ doomed' = doomed \cup {id}
  /\ UNCHANGED <<linkVars, cache, flight, reqVars, mutVars>>

\* ... and deletes it by id, without a look at the cache.
JobPurges(id) ==
  LET k == Lower[links[id].code] IN
  /\ id \in doomed
  /\ doomed' = doomed \ {id}
  /\ IF ~InTable(links[id])
     THEN UNCHANGED <<links, stamp>>
     ELSE /\ stamp[k] < MaxStamp
          /\ links' = [links EXCEPT ![id].st = "purged"]
          /\ stamp' = Bump({k})
  /\ UNCHANGED <<raced, cache, flight, reqVars, mutVars>>

-----------------------------------------------------------------------------
\* Time passes for entries, loads and values; a load ends by its timeout.
Older(v, k) == IF v.stamp < stamp[k] THEN v.stale + 1 ELSE v.stale

Aged(e, k) == [e EXCEPT !.left = @ - 1, !.stale = Older(e, k)]

LoadsAged == [f \in Codes |->
  CASE flight[f].phase = "none"  -> NoFlight
    [] flight[f].phase = "query" -> [flight[f] EXCEPT !.left = @ - 1]
    [] OTHER                     -> Aged(flight[f], Lower[f])]

\* Entries that do not expire.
Tick_NoExpiry ==
  /\ \A f \in Codes : flight[f].phase # "none" => flight[f].left > 0
  /\ flight' = LoadsAged
  /\ UNCHANGED <<linkVars, cache, reqVars, mutVars, doomed>>

Tick ==
  /\ \A f \in Codes : flight[f].phase # "none" => flight[f].left > 0
  /\ cache' = [k \in Keys |-> IF cache[k].left <= 1 THEN NoEntry
                                                    ELSE Aged(cache[k], k)]
  /\ flight' = LoadsAged
  /\ UNCHANGED <<linkVars, reqVars, mutVars, doomed>>

LoadStep(f) ==
  QueryAnswers(f) \/ FillCache(f) \/ AnswerWaiters(f) \/ LoadFails(f)

MutationStep(m) == Commit(m) \/ CommitFails(m) \/ InvalidateOld(m) \/ InvalidateNew(m)

Next ==
  \/ \E r \in Requests : Lookup(r) \/ JoinLoad(r)
  \/ \E f \in Codes : LoadStep(f)
  \/ \E k \in Keys : Evict(k)
  \/ \E m \in Mutators : StartMutation(m) \/ MutationStep(m)
  \/ \E id \in Links : JobSelects(id) \/ JobPurges(id)
  \/ Tick

Spec == Init /\ [][Next]_vars

\* Handlers and loads are goroutines that always run on, and time passes.
\* Clients, the purge job and eviction promise nothing.
Fairness ==
  /\ \A r \in Requests : WF_vars(JoinLoad(r))
  /\ \A f \in Codes : WF_vars(LoadStep(f))
  /\ \A m \in Mutators : WF_vars(MutationStep(m))
  /\ WF_vars(Tick)

FairSpec == Spec /\ Fairness

-----------------------------------------------------------------------------
(* Properties.                                                             *)

\* Reads never go back: once any visitor was answered with a version of a
\* code, no request that begins later is answered with an older one, although
\* entries are evicted, invalidated and refilled by loads that may have read
\* the row long before (cache.go Put, service.go ResolveForRedirect).  It
\* rests on singleflight keeping the loads of a key one after the other.
MonotonicReads ==
  \A r \in Requests : rpc[r] = "done" => res[r].stamp >= floor[r]

\* Whatever races an invalidation loses, no answer was out of date for as long
\* as one entry lifetime plus one load: defaultTTL for a row, negativeTTL for
\* "no such code" (cache.go defaultTTL, negativeTTL; the 5 second load timeout).
BoundedStaleness ==
  \A r \in Requests : rpc[r] = "done" =>
    res[r].stale < LoadTimeout + (IF res[r].missing THEN NegTTL ELSE TTL)

\* Once a mutation has returned to its client, later visitors see it, unless
\* the mutation raced in one of two ways: a load had read the old row and not
\* yet returned when the change was committed, or the row had meanwhile been
\* moved to a code the handler, which read the link before, does not
\* invalidate (Update, Delete, Purge and Restore in service.go).
WriteThroughUnlessRaced ==
  \A r \in Requests :
    rpc[r] = "done" /\ Lower[rcode[r]] \notin raced => res[r].stamp >= fresh[r]

\* What the comment of Cache.Invalidate claims ("called on every link mutation
\* for write-through consistency"): a visitor who comes after a mutation has
\* returned never sees the version before it.
WriteThrough ==
  \A r \in Requests : rpc[r] = "done" => res[r].stamp >= fresh[r]

\* Every request that waits for a load is answered, with a result or an error:
\* no load ends without telling all its waiters (loads.Do).
RequestsAnswered ==
  \A r \in Requests : rpc[r] \in {"load", "wait"} ~> rpc[r] \in {"done", "error"}

\* After the last change of a code the cache converges: from some point on it
\* holds no outdated entry, although nothing may invalidate it (the purge job,
\* an entry stored after the invalidation); expiry sees to that (cache.Get).
CacheConverges ==
  \A k \in Keys :
    <>[](cache[k].left > 0 => cache[k].stamp = stamp[k])

-----------------------------------------------------------------------------
(* The service implements MonotoneReads: a request is unanswered until it  *)
(* has a result, and a version is a stamp.                                 *)

Promise == INSTANCE MonotoneReads WITH
  key    <- [r \in Requests |-> Lower[rcode[r]]],
  answer <- [r \in Requests |-> IF rpc[r] = "done" THEN res[r].stamp ELSE -1]

\* Every behaviour of the cache, its loads and its invalidations is one that
\* MonotoneReads allows (ResolveForRedirect as a visitor sees it).
ImplementsMonotoneReads == Promise!Spec

=============================================================================
