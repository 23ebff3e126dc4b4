--------------------------- MODULE SettingsCache ---------------------------
(***************************************************************************)
(* dotmac_kernel.settings_resolver over settings_cache: one setting that   *)
(* inherits and is not secret, stored at scopes (the platform, tenants,    *)
(* finer levels of a tenant), read through the cache of one process by     *)
(* concurrent sessions at READ COMMITTED.                                  *)
(*                                                                         *)
(* A stored value is its version: 0 is no row, and what resolves then is   *)
(* the default.  Every statement of a chain walk is a step of its own; a   *)
(* writer's flush and its invalidation are one, because what another       *)
(* session stores between the two is dropped by the second.  The history   *)
(* row and the change event of a write share its transaction and are not   *)
(* modelled; nor is resolve_strict, which uses no cache.                   *)
(***************************************************************************)
EXTENDS Naturals, Sequences, FiniteSets

CONSTANTS
    Scope,          \* the scopes in use: records with kind, tenant and id
    None,           \* a tenant or an id that is not there
    Sessions,
    max_keys,       \* entries MemoryCache holds
    MaxVersions     \* bound: writes

Platform == [kind |-> "platform", tenant |-> None, id |-> None]
TenantScope(t) == [kind |-> "tenant", tenant |-> t, id |-> None]

ASSUME ScopesAssumption ==
    /\ Platform \in Scope
    /\ \A s \in Scope : s = [kind |-> s.kind, tenant |-> s.tenant, id |-> s.id]
    /\ \A s \in Scope :
        s # Platform => /\ s.kind # "platform" /\ s.tenant # None
                        /\ TenantScope(s.tenant) \in Scope
                        /\ (s.kind = "tenant" => s = TenantScope(s.tenant))
    /\ max_keys \in Nat \ {0} /\ MaxVersions \in Nat

VARIABLES
    rows,       \* domain_settings as committed: a version per scope
    written,    \* per session: its uncommitted rows, Kept elsewhere
    reading,    \* per session: the resolution under way
    cache,      \* the process's store: a version per key, or MISS
    version,    \* versions used
    home,       \* history: the scope each version was written at
    tainted     \* history: keys whose entry may be out of date, see below

vars == <<rows, written, reading, cache, version, home, tainted>>

Version == 0 .. MaxVersions
Kept == MaxVersions + 1
MISS == MaxVersions + 1
Idle == [step |-> "idle"]

\* resolution_chain: most specific first, ending at the platform.
resolution_chain(s) ==
    IF s = Platform THEN <<s>>
    ELSE IF s.kind = "tenant" THEN <<s, Platform>>
    ELSE <<s, TenantScope(s.tenant), Platform>>

Covers(above, s) == \E i \in DOMAIN resolution_chain(s) : resolution_chain(s)[i] = above

\* Mutant: a key without its tenant.
key_of_any_tenant(s) == <<s.kind, s.id>>

\* setting_cache_key.
setting_cache_key(s) == <<s.kind, s.id, s.tenant>>
Key == {setting_cache_key(s) : s \in Scope}

\* Mutant: a platform write drops the platform's entry.
invalidate_exactly(s) == {setting_cache_key(s)}

\* invalidate: the keys a write at s drops.
invalidate(s) == IF s = Platform THEN Key ELSE {setting_cache_key(s)}

Resolution ==
    {Idle} \cup [step : {"look"}, target : Scope, depth : 1 .. 3, overlap : BOOLEAN]
           \cup [step : {"store"}, target : Scope, value : Version, overlap : BOOLEAN]

Init ==
    /\ rows = [s \in Scope |-> 0]
    /\ written = [x \in Sessions |-> [s \in Scope |-> Kept]]
    /\ reading = [x \in Sessions |-> Idle]
    /\ cache = [k \in Key |-> MISS]
    /\ version = 0
    /\ home = [v \in 1 .. MaxVersions |-> Platform]
    /\ tainted = {}

View(x, s) == IF written[x][s] # Kept THEN written[x][s] ELSE rows[s]
Pending(s) == {x \in Sessions : written[x][s] # Kept}

-----------------------------------------------------------------------------
(* Reads: resolve_with_source, and resolve_many for each of its keys.      *)

\* A miss; a hit changes nothing.
Resolve(x, s) ==
    /\ reading[x] = Idle
    /\ cache[setting_cache_key(s)] = MISS
    /\ reading' = [reading EXCEPT ![x] =
            [step |-> "look", target |-> s, depth |-> 1,
             overlap |-> \E above \in Scope : Covers(above, s) /\ Pending(above) # {}]]
    /\ UNCHANGED <<rows, written, cache, version, home, tainted>>

\* _winning_row, one candidate.
Look(x) ==
    /\ reading[x].step = "look"
    /\ LET r == reading[x]
           chain == resolution_chain(r.target)
           found == View(x, chain[r.depth])
       IN reading' = [reading EXCEPT ![x] =
            IF found # 0 \/ r.depth = Len(chain)
            THEN [step |-> "store", target |-> r.target, value |-> found, overlap |-> r.overlap]
            ELSE [r EXCEPT !.depth = r.depth + 1]]
    /\ UNCHANGED <<rows, written, cache, version, home, tainted>>

\* store_resolved: a full MemoryCache drops its least recently used entry, here
\* any other.
Store(x) ==
    /\ reading[x].step = "store"
    /\ LET r == reading[x]
           key == setting_cache_key(r.target)
           others == {k \in Key \ {key} : cache[k] # MISS}
       IN \E victims \in SUBSET others :
            /\ Cardinality(victims) = IF Cardinality(others) = max_keys THEN 1 ELSE 0
            /\ cache' = [k \in Key |-> IF k = key THEN r.value
                                     ELSE IF k \in victims THEN MISS ELSE cache[k]]
            /\ tainted' = IF r.overlap THEN (tainted \ victims) \cup {key}
                          ELSE tainted \ (victims \cup {key})
    /\ reading' = [reading EXCEPT ![x] = Idle]
    /\ UNCHANGED <<rows, written, version, home>>

-----------------------------------------------------------------------------
(* Writes.                                                                 *)

\* The finer levels of a tenant: a write at the tenant leaves their entries.
Finer(s) == {setting_cache_key(f) : f \in {f \in Scope : s # Platform /\ f # s /\ Covers(s, f)}}

\* A flush of the row at s, which waits for other writers of it, and the
\* invalidation.  Finer levels that inherit from s keep their entries.
WriteRow(x, s, value) ==
    /\ reading[x] = Idle
    /\ Pending(s) \subseteq {x}
    /\ written' = [written EXCEPT ![x] = [@ EXCEPT ![s] = value]]
    /\ cache' = [k \in Key |-> IF k \in invalidate(s) THEN MISS ELSE cache[k]]
    /\ tainted' = {k \in tainted \cup Finer(s) : cache'[k] # MISS}
    /\ reading' = [y \in Sessions |->
            IF reading[y] # Idle /\ Covers(s, reading[y].target)
            THEN [reading[y] EXCEPT !.overlap = TRUE] ELSE reading[y]]

upsert_by_key(x, s) ==
    /\ version < MaxVersions
    /\ version' = version + 1
    /\ home' = [home EXCEPT ![version + 1] = s]
    /\ WriteRow(x, s, version + 1)
    /\ UNCHANGED rows

\* The loser of a race to insert rolls its whole transaction back: Rollback.
ensure_by_key(x, s) ==
    /\ View(x, s) = 0
    /\ upsert_by_key(x, s)

clear_by_key(x, s) ==
    /\ View(x, s) # 0
    /\ WriteRow(x, s, 0)
    /\ UNCHANGED <<rows, version, home>>

Commit(x) ==
    /\ reading[x] = Idle
    /\ \E s \in Scope : written[x][s] # Kept
    /\ rows' = [s \in Scope |-> View(x, s)]
    /\ written' = [written EXCEPT ![x] = [s \in Scope |-> Kept]]
    /\ UNCHANGED <<reading, cache, version, home, tainted>>

Rollback(x) ==
    /\ \E s \in Scope : written[x][s] # Kept
    /\ written' = [written EXCEPT ![x] = [s \in Scope |-> Kept]]
    /\ reading' = [reading EXCEPT ![x] = Idle]
    /\ UNCHANGED <<rows, cache, version, home, tainted>>

Next ==
    \E x \in Sessions :
        \/ Look(x) \/ Store(x) \/ Commit(x) \/ Rollback(x)
        \/ \E s \in Scope :
            Resolve(x, s) \/ upsert_by_key(x, s) \/ ensure_by_key(x, s) \/ clear_by_key(x, s)

Spec == Init /\ [][Next]_vars

-----------------------------------------------------------------------------
(* Properties *)

\* Types of the rows, the resolutions and the cache.
TypeOK ==
    /\ rows \in [Scope -> Version]
    /\ written \in [Sessions -> [Scope -> Version \cup {Kept}]]
    /\ reading \in [Sessions -> Resolution]
    /\ cache \in [Key -> Version \cup {MISS}]
    /\ version \in Version
    /\ home \in [1 .. MaxVersions -> Scope]
    /\ tainted \subseteq Key

\* No reader is served a value of another tenant or of a level it does not
\* inherit from: whatever is cached for a scope was written in its chain.
CacheKeepsScopes ==
    \A s \in Scope :
        LET v == cache[setting_cache_key(s)] IN
        v \notin {MISS, 0} => Covers(home[v], s)

\* What resolves at s from the committed rows.
Committed(s) ==
    LET chain == resolution_chain(s)
        Stored(i) == i \in DOMAIN chain /\ rows[chain[i]] # 0
    IN IF \E i \in 1 .. 3 : Stored(i)
       THEN rows[chain[CHOOSE i \in 1 .. 3 : Stored(i) /\ \A j \in 1 .. i - 1 : ~ Stored(j)]]
       ELSE 0

\* A cached entry is the committed truth unless its reader overlapped a write of
\* its chain between flush and commit, or the tenant of a finer level was
\* written since.  With no such overlap the invalidations suffice: after
\* commits, rollbacks, clears and evictions in any order.
StaleOnlyByOverlap ==
    \A s \in Scope :
        LET k == setting_cache_key(s) IN
        cache[k] # MISS /\ k \notin tainted => cache[k] = Committed(s)

=============================================================================
