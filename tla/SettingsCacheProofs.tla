------------------------ MODULE SettingsCacheProofs ------------------------
(***************************************************************************)
(* Theorems about SettingsCache for any scopes, sessions and sizes: type   *)
(* correctness, that the cache never crosses tenants or levels, and when   *)
(* an entry may be out of date.                                            *)
(***************************************************************************)
EXTENDS SettingsCache, TLAPS

\* A version that is stored somewhere was used, at its scope.
At(v, s) == v \in 1 .. version /\ home[v] = s

\* Committed and uncommitted rows hold versions of their scope.
RowsAreHome ==
    /\ \A s \in Scope : rows[s] # 0 => At(rows[s], s)
    /\ \A x \in Sessions, s \in Scope : written[x][s] \notin {Kept, 0} => At(written[x][s], s)

\* A resolution is within its chain, and has found a version of it.
ReadsInChain ==
    \A x \in Sessions :
        /\ reading[x].step = "look" => reading[x].depth \in 1 .. Len(resolution_chain(reading[x].target))
        /\ reading[x].step = "store" /\ reading[x].value # 0 =>
              reading[x].value \in 1 .. version /\ Covers(home[reading[x].value], reading[x].target)

\* The cache holds versions that were used.
CacheIsUsed == \A k \in Key : cache[k] \notin {MISS, 0} => cache[k] \in 1 .. version

Inv == TypeOK /\ RowsAreHome /\ ReadsInChain /\ CacheIsUsed /\ CacheKeepsScopes

-----------------------------------------------------------------------------
LEMMA Numbers == MaxVersions \in Nat /\ Version = 0 .. MaxVersions
                 /\ Kept = MaxVersions + 1 /\ MISS = MaxVersions + 1
  BY ScopesAssumption DEF Version, Kept, MISS

LEMMA Chain ==
    ASSUME NEW s \in Scope
    PROVE  /\ Len(resolution_chain(s)) \in 1 .. 3
           /\ \A i \in 1 .. Len(resolution_chain(s)) :
                 resolution_chain(s)[i] \in Scope /\ Covers(resolution_chain(s)[i], s)
  <1> DEFINE c == resolution_chain(s)
  <1>1. Platform \in Scope /\ (s # Platform => TenantScope(s.tenant) \in Scope)
    BY ScopesAssumption
  <1>2. c \in {<<s>>, <<s, Platform>>, <<s, TenantScope(s.tenant), Platform>>}
        /\ (s = Platform => c = <<s>>)
    BY DEF resolution_chain
  <1>3. /\ Len(c) \in 1 .. 3 /\ DOMAIN c = 1 .. Len(c)
        /\ \A i \in 1 .. Len(c) : c[i] \in Scope
    <2>1. CASE c = <<s>>
      BY <2>1
    <2>2. CASE c = <<s, Platform>>
      BY <1>1, <2>2
    <2>3. CASE c = <<s, TenantScope(s.tenant), Platform>> /\ s # Platform
      BY <1>1, <2>3
    <2> QED  BY <1>2, <2>1, <2>2, <2>3
  <1> QED  BY <1>3 DEF Covers

\* Two scopes have two keys.
LEMMA KeysApart ==
    ASSUME NEW s \in Scope, NEW r \in Scope, setting_cache_key(s) = setting_cache_key(r)
    PROVE  s = r
  <1>1. s.kind = r.kind /\ s.id = r.id /\ s.tenant = r.tenant
    BY DEF setting_cache_key
  <1> QED  BY <1>1, ScopesAssumption

LEMMA KeyOfScope == \A s \in Scope : setting_cache_key(s) \in Key
  BY DEF Key

\* A session reads rows of their scope.
LEMMA Seen ==
    ASSUME Inv, NEW x \in Sessions, NEW s \in Scope
    PROVE  View(x, s) \in Version /\ (View(x, s) # 0 => At(View(x, s), s))
  BY Numbers DEF Inv, TypeOK, RowsAreHome, View

\* What kind of resolution a session is in.
LEMMA Readings ==
    ASSUME Inv, NEW x \in Sessions
    PROVE  /\ reading[x] = Idle => reading[x].step = "idle"
           /\ reading[x] # Idle => reading[x].target \in Scope
           /\ reading[x].step = "look" =>
                 reading[x] \in [step : {"look"}, target : Scope, depth : 1 .. 3, overlap : BOOLEAN]
           /\ reading[x].step = "store" =>
                 reading[x] \in [step : {"store"}, target : Scope, value : Version, overlap : BOOLEAN]
  BY DEF Inv, TypeOK, Resolution, Idle

-----------------------------------------------------------------------------
LEMMA ResolveInv ==
    ASSUME Inv, NEW x \in Sessions, NEW s \in Scope, Resolve(x, s)
    PROVE  Inv'
  <1> DEFINE r == [step |-> "look", target |-> s, depth |-> 1,
                   overlap |-> \E above \in Scope : Covers(above, s) /\ Pending(above) # {}]
  <1>1. /\ r \in Resolution /\ r.step = "look" /\ r.target = s /\ r.depth = 1
    BY DEF Resolution
  <1>2. reading' = [reading EXCEPT ![x] = r] /\ UNCHANGED <<rows, written, cache, version, home, tainted>>
    BY DEF Resolve
  <1> HIDE DEF r
  <1>3. TypeOK'
    BY <1>1, <1>2 DEF Inv, TypeOK
  <1>4. ReadsInChain'
    <2>1. 1 \in 1 .. Len(resolution_chain(s))
      BY Chain
    <2> QED  BY <1>1, <1>2, <2>1 DEF Inv, TypeOK, ReadsInChain
  <1>5. RowsAreHome' /\ CacheIsUsed' /\ CacheKeepsScopes'
    BY <1>2 DEF Inv, RowsAreHome, At, CacheIsUsed, CacheKeepsScopes
  <1> QED  BY <1>3, <1>4, <1>5 DEF Inv

LEMMA LookInv ==
    ASSUME Inv, NEW x \in Sessions, Look(x)
    PROVE  Inv'
  <1> DEFINE r == reading[x]
             chain == resolution_chain(r.target)
             found == View(x, chain[r.depth])
             n == IF found # 0 \/ r.depth = Len(chain)
                  THEN [step |-> "store", target |-> r.target, value |-> found, overlap |-> r.overlap]
                  ELSE [r EXCEPT !.depth = r.depth + 1]
  <1>1. r \in [step : {"look"}, target : Scope, depth : 1 .. 3, overlap : BOOLEAN]
    BY Readings DEF Look
  <1>2. r.depth \in 1 .. Len(chain) /\ Len(chain) \in 1 .. 3
        /\ chain[r.depth] \in Scope /\ Covers(chain[r.depth], r.target)
    BY <1>1, Chain DEF Inv, ReadsInChain
  <1>3. found \in Version /\ (found # 0 => At(found, chain[r.depth]))
    BY <1>2, Seen
  <1>4. reading' = [reading EXCEPT ![x] = n] /\ UNCHANGED <<rows, written, cache, version, home, tainted>>
    BY DEF Look
  <1> HIDE DEF found, chain
  <1>5. /\ n \in Resolution
        /\ n.step = "look" => n.depth \in 1 .. Len(chain) /\ n.target = r.target
        /\ n.step = "store" => n.target = r.target /\ n.value = found
    <2>1. CASE found # 0 \/ r.depth = Len(chain)
      BY <1>1, <1>3, <2>1 DEF Resolution
    <2>2. CASE ~ (found # 0 \/ r.depth = Len(chain))
      <3>1. r.depth + 1 \in 1 .. Len(chain) /\ r.depth + 1 \in 1 .. 3
        <4> DEFINE d == r.depth
                   l == Len(chain)
        <4>1. d \in 1 .. l /\ l \in 1 .. 3 /\ d # l
          BY <1>2, <2>2
        <4> HIDE DEF d, l
        <4>2. d + 1 \in 1 .. l /\ d + 1 \in 1 .. 3
          BY <4>1
        <4> QED  BY <4>2 DEF d, l
      <3>2. n = [r EXCEPT !.depth = r.depth + 1]
        BY <2>2
      <3>3. n.depth = r.depth + 1 /\ n.step = "look" /\ n.target = r.target
        BY <1>1, <3>2
      <3>4. n \in [step : {"look"}, target : Scope, depth : 1 .. 3, overlap : BOOLEAN]
        BY <1>1, <3>1, <3>2
      <3> QED  BY <3>1, <3>3, <3>4 DEF Resolution
    <2> QED  BY <2>1, <2>2
  <1> HIDE DEF n
  <1>6. TypeOK'
    BY <1>4, <1>5 DEF Inv, TypeOK
  <1>7. ReadsInChain'
    <2> SUFFICES ASSUME NEW y \in Sessions
                 PROVE  /\ reading'[y].step = "look" =>
                              reading'[y].depth \in 1 .. Len(resolution_chain(reading'[y].target))
                        /\ reading'[y].step = "store" /\ reading'[y].value # 0 =>
                              /\ reading'[y].value \in 1 .. version
                              /\ Covers(home[reading'[y].value], reading'[y].target)
      BY <1>4 DEF ReadsInChain
    <2>1. CASE y = x
      <3>1. reading'[y] = n
        BY <1>4, <2>1 DEF Inv, TypeOK
      <3>2. found # 0 => found \in 1 .. version /\ Covers(home[found], r.target)
        BY <1>2, <1>3 DEF At
      <3> QED  BY <1>5, <3>1, <3>2 DEF chain
    <2>2. CASE y # x
      BY <1>4, <2>2 DEF Inv, TypeOK, ReadsInChain
    <2> QED  BY <2>1, <2>2
  <1>8. RowsAreHome' /\ CacheIsUsed' /\ CacheKeepsScopes'
    BY <1>4 DEF Inv, RowsAreHome, At, CacheIsUsed, CacheKeepsScopes
  <1> QED  BY <1>6, <1>7, <1>8 DEF Inv

LEMMA StoreInv ==
    ASSUME Inv, NEW x \in Sessions, Store(x)
    PROVE  Inv'
  <1> DEFINE r == reading[x]
             key == setting_cache_key(r.target)
  <1>1. r \in [step : {"store"}, target : Scope, value : Version, overlap : BOOLEAN]
    BY Readings DEF Store
  <1>2. key \in Key
    BY <1>1, KeyOfScope
  <1>3. r.value # 0 => r.value \in 1 .. version /\ Covers(home[r.value], r.target)
    BY DEF Inv, ReadsInChain, Store
  <1>4. /\ reading' = [reading EXCEPT ![x] = Idle] /\ UNCHANGED <<rows, written, version, home>>
    BY DEF Store
  <1>5. PICK victims \in SUBSET Key :
          /\ cache' = [k \in Key |-> IF k = key THEN r.value
                                   ELSE IF k \in victims THEN MISS ELSE cache[k]]
          /\ tainted' = IF r.overlap THEN (tainted \ victims) \cup {key}
                        ELSE tainted \ (victims \cup {key})
    BY DEF Store
  <1>6. cache' \in [Key -> Version \cup {MISS}] /\ tainted' \subseteq Key
    BY <1>1, <1>2, <1>5 DEF Inv, TypeOK
  <1>7. TypeOK'
    BY <1>4, <1>6 DEF Inv, TypeOK, Resolution
  <1>8. ReadsInChain'
    BY <1>4 DEF Inv, TypeOK, ReadsInChain, Idle
  <1>9. CacheIsUsed'
    BY <1>3, <1>4, <1>5 DEF Inv, CacheIsUsed
  <1>10. CacheKeepsScopes'
    <2> SUFFICES ASSUME NEW s \in Scope, cache'[setting_cache_key(s)] \notin {MISS, 0}
                 PROVE  Covers(home[cache'[setting_cache_key(s)]], s)
      BY <1>4 DEF CacheKeepsScopes
    <2>1. setting_cache_key(s) \in Key
      BY KeyOfScope
    <2>2. CASE setting_cache_key(s) = key
      <3>1. s = r.target
        BY <1>1, <2>2, KeysApart
      <3> QED  BY <1>3, <1>5, <2>1, <2>2, <3>1
    <2>3. CASE setting_cache_key(s) # key
      BY <1>5, <2>1, <2>3 DEF Inv, CacheKeepsScopes
    <2> QED  BY <2>2, <2>3
  <1>11. RowsAreHome'
    BY <1>4 DEF Inv, RowsAreHome, At
  <1> QED  BY <1>7, <1>8, <1>9, <1>10, <1>11 DEF Inv

\* A write leaves the resolutions under way what they are, but for the overlap, and
\* only drops entries.
LEMMA RowWritten ==
    ASSUME Inv, NEW x \in Sessions, NEW s \in Scope, NEW v \in Version, WriteRow(x, s, v)
    PROVE  /\ written' \in [Sessions -> [Scope -> Version \cup {Kept}]]
           /\ \A y \in Sessions, q \in Scope :
                 written'[y][q] = IF y = x /\ q = s THEN v ELSE written[y][q]
           /\ cache' \in [Key -> Version \cup {MISS}] /\ tainted' \subseteq Key
           /\ \A k \in Key : cache'[k] \in {cache[k], MISS}
           /\ reading' \in [Sessions -> Resolution]
           /\ \A y \in Sessions :
                 /\ reading'[y].step = reading[y].step
                 /\ reading[y].step # "idle" => reading'[y].target = reading[y].target
                 /\ reading[y].step = "look" => reading'[y].depth = reading[y].depth
                 /\ reading[y].step = "store" => reading'[y].value = reading[y].value
  <1>1. /\ written' \in [Sessions -> [Scope -> Version \cup {Kept}]]
        /\ \A y \in Sessions, q \in Scope :
              written'[y][q] = IF y = x /\ q = s THEN v ELSE written[y][q]
    BY DEF WriteRow, Inv, TypeOK
  <1>2. cache' = [k \in Key |-> IF k \in invalidate(s) THEN MISS ELSE cache[k]]
    BY DEF WriteRow
  <1>3. cache' \in [Key -> Version \cup {MISS}] /\ \A k \in Key : cache'[k] \in {cache[k], MISS}
    BY <1>2 DEF Inv, TypeOK
  <1>4. tainted' \subseteq Key
    BY KeyOfScope DEF WriteRow, Finer, Inv, TypeOK
  <1>5. ASSUME NEW y \in Sessions
        PROVE  LET n == IF reading[y] # Idle /\ Covers(s, reading[y].target)
                        THEN [reading[y] EXCEPT !.overlap = TRUE] ELSE reading[y]
               IN /\ n \in Resolution /\ n.step = reading[y].step
                  /\ reading[y].step # "idle" => n.target = reading[y].target
                  /\ reading[y].step = "look" => n.depth = reading[y].depth
                  /\ reading[y].step = "store" => n.value = reading[y].value
    <2>1. reading[y] \in Resolution
      BY DEF Inv, TypeOK
    <2>2. CASE reading[y] = Idle
      BY <2>1, <2>2
    <2>3. CASE reading[y] \in [step : {"look"}, target : Scope, depth : 1 .. 3, overlap : BOOLEAN]
      BY <2>3 DEF Resolution
    <2>4. CASE reading[y] \in [step : {"store"}, target : Scope, value : Version, overlap : BOOLEAN]
      BY <2>4 DEF Resolution
    <2> QED  BY <2>1, <2>2, <2>3, <2>4 DEF Resolution
  <1>6. reading' = [y \in Sessions |->
            IF reading[y] # Idle /\ Covers(s, reading[y].target)
            THEN [reading[y] EXCEPT !.overlap = TRUE] ELSE reading[y]]
    BY DEF WriteRow
  <1> QED  BY <1>1, <1>3, <1>4, <1>5, <1>6

LEMMA UpsertInv ==
    ASSUME Inv, NEW x \in Sessions, NEW s \in Scope, upsert_by_key(x, s)
    PROVE  Inv'
  <1>1. /\ version \in 0 .. MaxVersions /\ version < MaxVersions /\ version' = version + 1
        /\ home' = [home EXCEPT ![version + 1] = s] /\ rows' = rows
        /\ version + 1 \in Version /\ version + 1 \in 1 .. MaxVersions
        /\ WriteRow(x, s, version + 1) /\ version \in Nat
    BY Numbers DEF upsert_by_key, Inv, TypeOK
  <1>2. /\ written' \in [Sessions -> [Scope -> Version \cup {Kept}]]
        /\ \A y \in Sessions, q \in Scope :
              written'[y][q] = IF y = x /\ q = s THEN version + 1 ELSE written[y][q]
        /\ cache' \in [Key -> Version \cup {MISS}] /\ tainted' \subseteq Key
        /\ \A k \in Key : cache'[k] \in {cache[k], MISS}
        /\ reading' \in [Sessions -> Resolution]
        /\ \A y \in Sessions :
              /\ reading'[y].step = reading[y].step
              /\ reading[y].step # "idle" => reading'[y].target = reading[y].target
              /\ reading[y].step = "look" => reading'[y].depth = reading[y].depth
              /\ reading[y].step = "store" => reading'[y].value = reading[y].value
    BY <1>1, RowWritten
  <1>3. /\ home' \in [1 .. MaxVersions -> Scope] /\ home'[version + 1] = s
        /\ \A v \in 1 .. version : v \in 1 .. version' /\ home'[v] = home[v]
        /\ version + 1 \in 1 .. version'
    BY <1>1, Numbers DEF Inv, TypeOK
  <1>4. TypeOK'
    BY <1>1, <1>2, <1>3, Numbers DEF Inv, TypeOK
  <1>5. RowsAreHome'
    <2>1. ASSUME NEW q \in Scope, rows[q] # 0 PROVE rows[q] \in 1 .. version' /\ home'[rows[q]] = q
      BY <1>3, <2>1 DEF Inv, RowsAreHome, At
    <2>2. ASSUME NEW y \in Sessions, NEW q \in Scope, written'[y][q] \notin {Kept, 0}
          PROVE  written'[y][q] \in 1 .. version' /\ home'[written'[y][q]] = q
      <3>1. CASE y = x /\ q = s
        BY <1>2, <1>3, <3>1
      <3>2. CASE ~ (y = x /\ q = s)
        BY <1>2, <1>3, <2>2, <3>2 DEF Inv, RowsAreHome, At
      <3> QED  BY <3>1, <3>2
    <2> QED  BY <1>1, <2>1, <2>2 DEF RowsAreHome, At
  <1>6. ReadsInChain'
    BY <1>2, <1>3 DEF Inv, ReadsInChain
  <1>7. CacheIsUsed'
    BY <1>2, <1>3 DEF Inv, CacheIsUsed
  <1>8. CacheKeepsScopes'
    <2> SUFFICES ASSUME NEW q \in Scope, cache'[setting_cache_key(q)] \notin {MISS, 0}
                 PROVE  Covers(home'[cache'[setting_cache_key(q)]], q)
      BY DEF CacheKeepsScopes
    <2>1. setting_cache_key(q) \in Key /\ cache'[setting_cache_key(q)] = cache[setting_cache_key(q)]
      BY <1>2, KeyOfScope
    <2>2. cache[setting_cache_key(q)] \in 1 .. version
      BY <2>1 DEF Inv, CacheIsUsed
    <2> QED  BY <1>3, <2>1, <2>2 DEF Inv, CacheKeepsScopes
  <1> QED  BY <1>4, <1>5, <1>6, <1>7, <1>8 DEF Inv

LEMMA ClearInv ==
    ASSUME Inv, NEW x \in Sessions, NEW s \in Scope, clear_by_key(x, s)
    PROVE  Inv'
  <1>1. WriteRow(x, s, 0) /\ 0 \in Version /\ UNCHANGED <<rows, version, home>>
    BY Numbers DEF clear_by_key
  <1>2. /\ written' \in [Sessions -> [Scope -> Version \cup {Kept}]]
        /\ \A y \in Sessions, q \in Scope :
              written'[y][q] = IF y = x /\ q = s THEN 0 ELSE written[y][q]
        /\ cache' \in [Key -> Version \cup {MISS}] /\ tainted' \subseteq Key
        /\ \A k \in Key : cache'[k] \in {cache[k], MISS}
        /\ reading' \in [Sessions -> Resolution]
        /\ \A y \in Sessions :
              /\ reading'[y].step = reading[y].step
              /\ reading[y].step # "idle" => reading'[y].target = reading[y].target
              /\ reading[y].step = "look" => reading'[y].depth = reading[y].depth
              /\ reading[y].step = "store" => reading'[y].value = reading[y].value
    BY <1>1, RowWritten
  <1>3. TypeOK'
    BY <1>1, <1>2 DEF Inv, TypeOK
  <1>4. RowsAreHome'
    BY <1>1, <1>2 DEF Inv, RowsAreHome, At
  <1>5. ReadsInChain'
    BY <1>1, <1>2 DEF Inv, ReadsInChain
  <1>6. CacheIsUsed' /\ CacheKeepsScopes'
    BY <1>1, <1>2, KeyOfScope DEF Inv, CacheIsUsed, CacheKeepsScopes
  <1> QED  BY <1>3, <1>4, <1>5, <1>6 DEF Inv

LEMMA EndsInv ==
    ASSUME Inv, NEW x \in Sessions, Commit(x) \/ Rollback(x)
    PROVE  Inv'
  <1>1. /\ rows' \in [Scope -> Version]
        /\ \A s \in Scope : rows'[s] \in {rows[s], View(x, s)}
        /\ written' = [written EXCEPT ![x] = [s \in Scope |-> Kept]]
        /\ reading' \in {reading, [reading EXCEPT ![x] = Idle]}
        /\ UNCHANGED <<cache, version, home, tainted>>
    BY Seen DEF Commit, Rollback, Inv, TypeOK
  <1>2. TypeOK'
    BY <1>1 DEF Inv, TypeOK, Resolution
  <1>3. RowsAreHome'
    <2>1. ASSUME NEW s \in Scope, rows'[s] # 0 PROVE At(rows'[s], s)
      BY <1>1, <2>1, Seen DEF Inv, RowsAreHome
    <2>2. ASSUME NEW y \in Sessions, NEW s \in Scope, written'[y][s] \notin {Kept, 0}
          PROVE  At(written'[y][s], s)
      BY <1>1, <2>2 DEF Inv, TypeOK, RowsAreHome
    <2> QED  BY <1>1, <2>1, <2>2 DEF RowsAreHome, At
  <1>4. ReadsInChain'
    BY <1>1 DEF Inv, TypeOK, ReadsInChain, Idle
  <1>5. CacheIsUsed' /\ CacheKeepsScopes'
    BY <1>1 DEF Inv, CacheIsUsed, CacheKeepsScopes
  <1> QED  BY <1>2, <1>3, <1>4, <1>5 DEF Inv

-----------------------------------------------------------------------------
LEMMA InvInit == Init => Inv
  <1> SUFFICES ASSUME Init PROVE Inv
    OBVIOUS
  <1>1. TypeOK
    BY Numbers, ScopesAssumption DEF Init, TypeOK, Resolution
  <1>2. RowsAreHome /\ ReadsInChain /\ CacheIsUsed
    BY DEF Init, RowsAreHome, ReadsInChain, CacheIsUsed, Idle
  <1>3. CacheKeepsScopes
    BY KeyOfScope DEF Init, CacheKeepsScopes
  <1> QED  BY <1>1, <1>2, <1>3 DEF Inv

LEMMA InvNext == Inv /\ [Next]_vars => Inv'
  <1> SUFFICES ASSUME Inv, [Next]_vars PROVE Inv'
    OBVIOUS
  <1>1. CASE UNCHANGED vars
    BY <1>1 DEF vars, Inv, TypeOK, RowsAreHome, ReadsInChain, CacheIsUsed, CacheKeepsScopes, At
  <1>2. ASSUME NEW x \in Sessions, Look(x) \/ Store(x) \/ Commit(x) \/ Rollback(x) PROVE Inv'
    BY <1>2, LookInv, StoreInv, EndsInv
  <1>3. ASSUME NEW x \in Sessions, NEW s \in Scope,
               Resolve(x, s) \/ upsert_by_key(x, s) \/ ensure_by_key(x, s) \/ clear_by_key(x, s)
        PROVE  Inv'
    BY <1>3, ResolveInv, UpsertInv, ClearInv DEF ensure_by_key
  <1> QED  BY <1>1, <1>2, <1>3 DEF Next

\* The invariant the theorems below follow from: every version that is stored, found
\* by a resolution or cached was written at a scope of the chain it is used for.
THEOREM SettingsInvariant == Spec => []Inv
  BY InvInit, InvNext, PTL DEF Spec

\* Type correctness of the rows, the resolutions under way and the cache.
THEOREM SettingsTypes == Spec => []TypeOK
  <1>1. Inv => TypeOK
    BY DEF Inv
  <1> QED  BY <1>1, SettingsInvariant, PTL

\* resolve_with_source is never served, from the cache, a value of another tenant or
\* of a level outside resolution_chain, for any scopes, sessions and cache size.
THEOREM CacheKeepsTenantsApart == Spec => []CacheKeepsScopes
  <1>1. Inv => CacheKeepsScopes
    BY DEF Inv
  <1> QED  BY <1>1, SettingsInvariant, PTL

-----------------------------------------------------------------------------
(* Staleness *)

\* What resolves at s from rows f.
ResolvedIn(f, s) ==
    LET chain == resolution_chain(s)
        Stored(i) == i \in DOMAIN chain /\ f[chain[i]] # 0
    IN IF \E i \in 1 .. 3 : Stored(i)
       THEN f[chain[CHOOSE i \in 1 .. 3 : Stored(i) /\ \A j \in 1 .. i - 1 : ~ Stored(j)]]
       ELSE 0

LEMMA ChainDomain ==
    ASSUME NEW s \in Scope
    PROVE  DOMAIN resolution_chain(s) = 1 .. Len(resolution_chain(s))
  <1>1. resolution_chain(s) \in {<<s>>, <<s, Platform>>, <<s, TenantScope(s.tenant), Platform>>}
    BY DEF resolution_chain
  <1> HIDE DEF resolution_chain
  <1> QED  BY <1>1

\* The most specific row wins.
LEMMA ResolvedAt ==
    ASSUME NEW f, NEW s \in Scope, NEW i \in 1 .. Len(resolution_chain(s)),
           f[resolution_chain(s)[i]] # 0,
           \A j \in 1 .. i - 1 : f[resolution_chain(s)[j]] = 0
    PROVE  ResolvedIn(f, s) = f[resolution_chain(s)[i]]
  <1> DEFINE chain == resolution_chain(s)
             Stored(n) == n \in DOMAIN chain /\ f[chain[n]] # 0
             First(n) == Stored(n) /\ \A j \in 1 .. n - 1 : ~ Stored(j)
  <1>1. i \in 1 .. 3 /\ DOMAIN chain = 1 .. Len(chain) /\ Len(chain) \in 1 .. 3
    <2>1. DOMAIN chain = 1 .. Len(chain) /\ Len(chain) \in 1 .. 3
      BY Chain, ChainDomain
    <2>2. \A l \in 1 .. 3 : \A n \in 1 .. l : n \in 1 .. 3
      OBVIOUS
    <2> QED  BY <2>1, <2>2
  <1>2. Stored(i) /\ First(i)
    <2>1. Stored(i)
      BY <1>1
    <2>2. \A j \in 1 .. i - 1 : ~ Stored(j)
      OBVIOUS
    <2> QED  BY <2>1, <2>2
  <1>3. \A n \in 1 .. 3 : First(n) => n = i
    BY <1>1, <1>2
  <1> HIDE DEF First
  <1>4. (CHOOSE n \in 1 .. 3 : First(n)) = i
    BY <1>1, <1>2, <1>3
  <1> USE DEF First
  <1> QED  BY <1>1, <1>2, <1>4 DEF ResolvedIn

\* With no row in the chain the default resolves.
LEMMA ResolvedNone ==
    ASSUME NEW f, NEW s \in Scope,
           \A j \in 1 .. Len(resolution_chain(s)) : f[resolution_chain(s)[j]] = 0
    PROVE  ResolvedIn(f, s) = 0
  BY ChainDomain DEF ResolvedIn

\* Rows outside the chain do not matter.
LEMMA ResolvedSame ==
    ASSUME NEW f, NEW g, NEW s \in Scope,
           \A j \in 1 .. Len(resolution_chain(s)) :
              f[resolution_chain(s)[j]] = g[resolution_chain(s)[j]]
    PROVE  ResolvedIn(f, s) = ResolvedIn(g, s)
  <1> DEFINE l == Len(resolution_chain(s))
             At0(j) == f[resolution_chain(s)[j]] = 0
  <1>1. l \in 1 .. 3
    BY Chain
  <1>2. CASE \A j \in 1 .. l : At0(j)
    BY <1>2, ResolvedNone
  <1>3. CASE \E i \in 1 .. l : ~ At0(i)
    <2>1. PICK i \in 1 .. l : ~ At0(i) /\ \A j \in 1 .. i - 1 : At0(j)
      <3> HIDE DEF l, At0
      <3>1. CASE ~ At0(1)
        BY <1>1, <3>1
      <3>2. CASE At0(1) /\ 2 \in 1 .. l /\ ~ At0(2)
        BY <1>1, <3>2
      <3>3. CASE At0(1) /\ (2 \in 1 .. l => At0(2))
        BY <1>1, <1>3, <3>3
      <3> QED  BY <3>1, <3>2, <3>3
    <2>2. /\ f[resolution_chain(s)[i]] = g[resolution_chain(s)[i]]
          /\ \A j \in 1 .. i - 1 : g[resolution_chain(s)[j]] = 0
      BY <1>1, <2>1
    <2> QED  BY <2>1, <2>2, ResolvedAt
  <1> QED  BY <1>2, <1>3

\* No session holds an uncommitted write in the chain of s.
Quiet(s) == \A above \in Scope : Covers(above, s) => Pending(above) = {}

\* A resolution that met no write has seen the committed rows so far.
FreshRead(r) ==
    r.step \in {"look", "store"} /\ ~ r.overlap =>
        /\ Quiet(r.target)
        /\ r.step = "look" =>
              \A j \in 1 .. r.depth - 1 : rows[resolution_chain(r.target)[j]] = 0
        /\ r.step = "store" => r.value = ResolvedIn(rows, r.target)

ReadsFresh == \A x \in Sessions : FreshRead(reading[x])

\* An entry that is not tainted is what is committed, and nobody is about to
\* commit something else.
EntriesFresh ==
    \A s \in Scope :
        cache[setting_cache_key(s)] # MISS /\ setting_cache_key(s) \notin tainted =>
            Quiet(s) /\ cache[setting_cache_key(s)] = ResolvedIn(rows, s)

LEMMA QuietFrame ==
    ASSUME NEW s \in Scope, Quiet(s),
           \A y \in Sessions, a \in Scope :
              Covers(a, s) => written'[y][a] \in {written[y][a], Kept}
    PROVE  Quiet(s)'
  BY DEF Quiet, Pending, Covers

\* A resolution that begins with no write pending in its chain is fresh.
LEMMA ResolveFresh ==
    ASSUME Inv, ReadsFresh, EntriesFresh, NEW x \in Sessions, NEW s \in Scope, Resolve(x, s)
    PROVE  ReadsFresh' /\ EntriesFresh'
  <1> DEFINE pending == \E above \in Scope : Covers(above, s) /\ Pending(above) # {}
             r == [step |-> "look", target |-> s, depth |-> 1, overlap |-> pending]
  <1>1. reading' = [reading EXCEPT ![x] = r] /\ UNCHANGED <<rows, written, cache, tainted>>
    BY DEF Resolve
  <1>2. ~ pending => Quiet(s)
    BY DEF Quiet
  <1>3. r.step = "look" /\ r.target = s /\ r.depth = 1 /\ r.overlap = pending
    OBVIOUS
  <1> HIDE DEF pending, r
  <1>4. FreshRead(r)
    BY <1>2, <1>3 DEF FreshRead
  <1>5. \A y \in Sessions : reading'[y] = reading[y] \/ reading'[y] = r
    BY <1>1 DEF Inv, TypeOK
  <1>6. \A y \in Sessions : FreshRead(reading'[y])
    BY <1>4, <1>5 DEF ReadsFresh, FreshRead
  <1>7. ReadsFresh'
    BY <1>1, <1>6 DEF ReadsFresh, FreshRead, Quiet, Pending
  <1>8. EntriesFresh'
    BY <1>1 DEF EntriesFresh, Quiet, Pending
  <1> QED  BY <1>7, <1>8

\* A candidate that is looked up with no write pending is the committed row.
LEMMA LookFresh ==
    ASSUME Inv, ReadsFresh, EntriesFresh, NEW x \in Sessions, Look(x)
    PROVE  ReadsFresh' /\ EntriesFresh'
  <1> DEFINE r == reading[x]
             chain == resolution_chain(r.target)
             found == View(x, chain[r.depth])
             n == IF found # 0 \/ r.depth = Len(chain)
                  THEN [step |-> "store", target |-> r.target, value |-> found, overlap |-> r.overlap]
                  ELSE [r EXCEPT !.depth = r.depth + 1]
  <1>1. r \in [step : {"look"}, target : Scope, depth : 1 .. 3, overlap : BOOLEAN]
    BY Readings DEF Look
  <1>2. r.depth \in 1 .. Len(chain) /\ Len(chain) \in 1 .. 3
        /\ chain[r.depth] \in Scope /\ Covers(chain[r.depth], r.target)
    BY <1>1, Chain DEF Inv, ReadsInChain
  <1>3. reading' = [reading EXCEPT ![x] = n] /\ UNCHANGED <<rows, written, cache, tainted>>
    BY DEF Look
  <1>4. ASSUME ~ r.overlap
        PROVE  /\ Quiet(r.target)
               /\ \A j \in 1 .. r.depth - 1 : rows[chain[j]] = 0
               /\ found = rows[chain[r.depth]]
    <2>1. Quiet(r.target) /\ \A j \in 1 .. r.depth - 1 : rows[chain[j]] = 0
      BY <1>1, <1>4 DEF ReadsFresh, FreshRead
    <2>2. Pending(chain[r.depth]) = {}
      BY <1>2, <2>1 DEF Quiet
    <2>3. written[x][chain[r.depth]] = Kept
      BY <2>2 DEF Pending
    <2> QED  BY <2>1, <2>3 DEF View
  <1> HIDE DEF found, chain
  <1>5. FreshRead(n)
    <2>1. CASE found # 0
      <3>1. n.step = "store" /\ n.target = r.target /\ n.value = found /\ n.overlap = r.overlap
        BY <2>1
      <3>2. ~ r.overlap => found = ResolvedIn(rows, r.target)
        BY <1>1, <1>2, <1>4, <2>1, ResolvedAt DEF chain
      <3> QED  BY <1>4, <3>1, <3>2 DEF FreshRead
    <2>2. CASE found = 0 /\ r.depth = Len(chain)
      <3>1. n.step = "store" /\ n.target = r.target /\ n.value = found /\ n.overlap = r.overlap
        BY <2>2
      <3>2. ASSUME ~ r.overlap PROVE ResolvedIn(rows, r.target) = 0
        <4>1. \A d \in 1 .. 3 : \A j \in 1 .. d : j = d \/ j \in 1 .. d - 1
          OBVIOUS
        <4>2. \A j \in 1 .. Len(chain) : rows[chain[j]] = 0
          BY <1>2, <1>4, <2>2, <3>2, <4>1
        <4> QED  BY <1>1, <4>2, ResolvedNone DEF chain
      <3> QED  BY <1>4, <2>2, <3>1, <3>2 DEF FreshRead
    <2>3. CASE found = 0 /\ r.depth # Len(chain)
      <3>1. n = [r EXCEPT !.depth = r.depth + 1]
        BY <2>3
      <3>2. n.step = "look" /\ n.target = r.target /\ n.depth = r.depth + 1 /\ n.overlap = r.overlap
        BY <1>1, <3>1
      <3>3. \A d \in 1 .. 3 : \A j \in 1 .. (d + 1) - 1 : j = d \/ j \in 1 .. d - 1
        OBVIOUS
      <3>4. ~ r.overlap => \A j \in 1 .. (r.depth + 1) - 1 : rows[chain[j]] = 0
        BY <1>1, <1>4, <2>3, <3>3
      <3> QED  BY <1>4, <3>2, <3>4 DEF FreshRead, chain
    <2> QED  BY <2>1, <2>2, <2>3
  <1> HIDE DEF n
  <1>6. \A y \in Sessions : reading'[y] = reading[y] \/ reading'[y] = n
    BY <1>3 DEF Inv, TypeOK
  <1>7. \A y \in Sessions : FreshRead(reading'[y])
    BY <1>5, <1>6 DEF ReadsFresh, FreshRead
  <1>8. ReadsFresh'
    BY <1>3, <1>7 DEF ReadsFresh, FreshRead, Quiet, Pending
  <1>9. EntriesFresh'
    BY <1>3 DEF EntriesFresh, Quiet, Pending
  <1> QED  BY <1>8, <1>9

\* What a resolution stores is tainted or committed.
LEMMA StoreFresh ==
    ASSUME Inv, ReadsFresh, EntriesFresh, NEW x \in Sessions, Store(x)
    PROVE  ReadsFresh' /\ EntriesFresh'
  <1> DEFINE r == reading[x]
             key == setting_cache_key(r.target)
  <1>1. r \in [step : {"store"}, target : Scope, value : Version, overlap : BOOLEAN]
    BY Readings DEF Store
  <1>2. reading' = [reading EXCEPT ![x] = Idle] /\ UNCHANGED <<rows, written>>
    BY DEF Store
  <1>3. PICK victims \in SUBSET Key :
          /\ cache' = [k \in Key |-> IF k = key THEN r.value
                                   ELSE IF k \in victims THEN MISS ELSE cache[k]]
          /\ tainted' = IF r.overlap THEN (tainted \ victims) \cup {key}
                        ELSE tainted \ (victims \cup {key})
    BY DEF Store
  <1>4. \A y \in Sessions : reading'[y] = reading[y] \/ reading'[y].step = "idle"
    BY <1>2 DEF Inv, TypeOK, Idle
  <1>5. ReadsFresh'
    BY <1>2, <1>4 DEF ReadsFresh, FreshRead, Quiet, Pending
  <1>6. EntriesFresh'
    <2> SUFFICES ASSUME NEW s \in Scope, cache'[setting_cache_key(s)] # MISS,
                        setting_cache_key(s) \notin tainted'
                 PROVE  Quiet(s) /\ cache'[setting_cache_key(s)] = ResolvedIn(rows, s)
      BY <1>2 DEF EntriesFresh, Quiet, Pending
    <2>1. setting_cache_key(s) \in Key
      BY KeyOfScope
    <2>2. CASE setting_cache_key(s) = key
      <3>1. s = r.target
        BY <1>1, <2>2, KeysApart
      <3>2. ~ r.overlap /\ cache'[setting_cache_key(s)] = r.value
        BY <1>3, <2>1, <2>2
      <3> QED  BY <1>1, <3>1, <3>2 DEF ReadsFresh, FreshRead
    <2>3. CASE setting_cache_key(s) # key
      <3>1. /\ setting_cache_key(s) \notin victims
            /\ cache'[setting_cache_key(s)] = cache[setting_cache_key(s)]
        BY <1>3, <2>1, <2>3
      <3>2. setting_cache_key(s) \notin tainted
        BY <1>3, <2>3, <3>1
      <3> QED  BY <3>1, <3>2 DEF EntriesFresh
    <2> QED  BY <2>2, <2>3
  <1> QED  BY <1>5, <1>6

\* A write drops, taints or does not concern every entry, and marks every
\* resolution of its chain.
LEMMA WriteFresh ==
    ASSUME Inv, ReadsFresh, EntriesFresh, NEW x \in Sessions, NEW s \in Scope,
           NEW v \in Version, WriteRow(x, s, v), UNCHANGED rows
    PROVE  ReadsFresh' /\ EntriesFresh'
  <1>1. /\ \A y \in Sessions, q \in Scope :
              written'[y][q] = IF y = x /\ q = s THEN v ELSE written[y][q]
        /\ \A k \in Key : cache'[k] \in {cache[k], MISS}
    BY RowWritten
  <1>2. ASSUME NEW t \in Scope, Quiet(t), ~ Covers(s, t) PROVE Quiet(t)'
    BY <1>1, <1>2, QuietFrame
  <1>3. ASSUME NEW y \in Sessions PROVE FreshRead(reading[y])'
    <2>1. reading'[y] = IF reading[y] # Idle /\ Covers(s, reading[y].target)
                        THEN [reading[y] EXCEPT !.overlap = TRUE] ELSE reading[y]
      BY DEF WriteRow
    <2>2. CASE reading[y] # Idle /\ Covers(s, reading[y].target)
      <3>1. reading'[y] = [reading[y] EXCEPT !.overlap = TRUE]
        BY <2>1, <2>2
      <3>2. reading'[y].overlap = TRUE
        <4>1. reading[y] \in [step : {"look"}, target : Scope, depth : 1 .. 3, overlap : BOOLEAN]
              \/ reading[y] \in [step : {"store"}, target : Scope, value : Version,
                                 overlap : BOOLEAN]
          BY <2>2 DEF Inv, TypeOK, Resolution
        <4>2. CASE reading[y] \in [step : {"look"}, target : Scope, depth : 1 .. 3,
                                   overlap : BOOLEAN]
          BY <3>1, <4>2
        <4>3. CASE reading[y] \in [step : {"store"}, target : Scope, value : Version,
                                   overlap : BOOLEAN]
          BY <3>1, <4>3
        <4> QED  BY <4>1, <4>2, <4>3
      <3> QED  BY <3>2 DEF FreshRead
    <2>3. CASE ~ (reading[y] # Idle /\ Covers(s, reading[y].target))
      <3>1. reading'[y] = reading[y]
        BY <2>1, <2>3
      <3>2. CASE reading[y].step \in {"look", "store"} /\ ~ reading[y].overlap
        <4>1. reading[y].target \in Scope /\ ~ Covers(s, reading[y].target)
          BY <2>3, <3>2, Readings
        <4>2. Quiet(reading[y].target)
          BY <3>2 DEF ReadsFresh, FreshRead
        <4>3. Quiet(reading[y].target)'
          BY <1>2, <3>1, <4>1, <4>2 DEF Quiet, Pending
        <4> QED  BY <3>1, <3>2, <4>3 DEF ReadsFresh, FreshRead, Quiet, Pending
      <3>3. CASE ~ (reading[y].step \in {"look", "store"} /\ ~ reading[y].overlap)
        BY <3>1, <3>3 DEF FreshRead
      <3> QED  BY <3>2, <3>3
    <2> QED  BY <2>2, <2>3
  <1>4. ASSUME NEW t \in Scope, cache'[setting_cache_key(t)] # MISS,
               setting_cache_key(t) \notin tainted'
        PROVE  Quiet(t)' /\ cache'[setting_cache_key(t)] = ResolvedIn(rows, t)
    <2> DEFINE k == setting_cache_key(t)
    <2>1. k \in Key
      BY KeyOfScope
    <2>2. cache' = [key \in Key |-> IF key \in invalidate(s) THEN MISS ELSE cache[key]]
          /\ tainted' = {key \in tainted \cup Finer(s) : cache'[key] # MISS}
      BY DEF WriteRow
    <2>3. k \notin invalidate(s) /\ cache'[k] = cache[k] /\ k \notin tainted \cup Finer(s)
      BY <1>4, <2>1, <2>2
    <2>4. s # Platform /\ s # t
      BY <2>1, <2>3 DEF invalidate
    <2>5. ~ Covers(s, t)
      BY <2>3, <2>4 DEF Finer
    <2>6. Quiet(t) /\ cache[k] = ResolvedIn(rows, t)
      BY <1>4, <2>3 DEF EntriesFresh
    <2> QED  BY <1>2, <2>3, <2>5, <2>6
  <1>5. ReadsFresh'
    BY <1>3 DEF ReadsFresh
  <1>6. EntriesFresh'
    BY <1>4 DEF EntriesFresh
  <1> QED  BY <1>5, <1>6

\* A commit changes no row of a quiet chain.
LEMMA EndsFresh ==
    ASSUME Inv, ReadsFresh, EntriesFresh, NEW x \in Sessions, Commit(x) \/ Rollback(x)
    PROVE  ReadsFresh' /\ EntriesFresh'
  <1>1. /\ \A s \in Scope : rows'[s] = rows[s] \/ written[x][s] # Kept
        /\ written' = [written EXCEPT ![x] = [s \in Scope |-> Kept]]
        /\ UNCHANGED <<cache, tainted>>
    BY DEF Commit, Rollback, View
  <1>2. \A y \in Sessions : reading'[y] = reading[y] \/ reading'[y].step = "idle"
    BY DEF Commit, Rollback, Inv, TypeOK, Idle
  <1>3. ASSUME NEW t \in Scope, Quiet(t)
        PROVE  /\ Quiet(t)'
               /\ \A j \in 1 .. Len(resolution_chain(t)) :
                     rows'[resolution_chain(t)[j]] = rows[resolution_chain(t)[j]]
               /\ ResolvedIn(rows', t) = ResolvedIn(rows, t)
    <2>1. \A y \in Sessions, a \in Scope : written'[y][a] \in {written[y][a], Kept}
      BY <1>1 DEF Inv, TypeOK
    <2>2. Quiet(t)'
      BY <1>3, <2>1, QuietFrame
    <2>3. ASSUME NEW j \in 1 .. Len(resolution_chain(t))
          PROVE  rows'[resolution_chain(t)[j]] = rows[resolution_chain(t)[j]]
      <3>1. resolution_chain(t)[j] \in Scope /\ Covers(resolution_chain(t)[j], t)
        BY Chain
      <3>2. Pending(resolution_chain(t)[j]) = {}
        BY <1>3, <3>1 DEF Quiet
      <3>3. written[x][resolution_chain(t)[j]] = Kept
        BY <3>2 DEF Pending
      <3> QED  BY <1>1, <3>1, <3>3
    <2>4. ResolvedIn(rows', t) = ResolvedIn(rows, t)
      BY <2>3, ResolvedSame
    <2> QED  BY <2>2, <2>3, <2>4
  <1>4. ASSUME NEW y \in Sessions PROVE FreshRead(reading[y])'
    <2>1. CASE reading'[y].step = "idle"
      BY <2>1 DEF FreshRead
    <2>2. CASE reading'[y] = reading[y] /\ reading[y].step \in {"look", "store"}
               /\ ~ reading[y].overlap
      <3>1. reading[y].target \in Scope
        BY <2>2, Readings
      <3>2. FreshRead(reading[y])
        BY DEF ReadsFresh
      <3>3. Quiet(reading[y].target)
        BY <2>2, <3>2 DEF FreshRead
      <3>4. Quiet(reading[y].target)'
        BY <1>3, <2>2, <3>1, <3>3 DEF Quiet, Pending
      <3>5. ASSUME reading[y].step = "look", NEW j \in 1 .. reading[y].depth - 1
            PROVE  rows'[resolution_chain(reading[y].target)[j]] = 0
        <4>1. reading[y].depth \in 1 .. Len(resolution_chain(reading[y].target))
              /\ Len(resolution_chain(reading[y].target)) \in 1 .. 3
          BY <3>1, <3>5, Chain DEF Inv, ReadsInChain
        <4>2. \A l \in 1 .. 3 : \A d \in 1 .. l : \A i \in 1 .. d - 1 : i \in 1 .. l
          OBVIOUS
        <4>3. j \in 1 .. Len(resolution_chain(reading[y].target))
          BY <3>5, <4>1, <4>2
        <4>4. rows[resolution_chain(reading[y].target)[j]] = 0
          BY <2>2, <3>2, <3>5 DEF FreshRead
        <4> QED  BY <1>3, <3>1, <3>3, <4>3, <4>4
      <3>6. reading[y].step = "store" => reading[y].value = ResolvedIn(rows', reading[y].target)
        BY <1>3, <2>2, <3>1, <3>2, <3>3 DEF FreshRead
      <3> QED  BY <2>2, <3>4, <3>5, <3>6 DEF FreshRead, Quiet, Pending
    <2>3. CASE reading'[y] = reading[y]
               /\ ~ (reading[y].step \in {"look", "store"} /\ ~ reading[y].overlap)
      BY <2>3 DEF FreshRead
    <2> QED  BY <1>2, <2>1, <2>2, <2>3
  <1>5. EntriesFresh'
    BY <1>1, <1>3 DEF EntriesFresh
  <1> QED  BY <1>4, <1>5 DEF ReadsFresh

\* A cached value is what is committed, unless its reader overlapped a write of its
\* chain or its tenant was written since: for any scopes, sessions and cache size,
\* after any commits, rollbacks, clears and evictions.
THEOREM StalenessNeedsOverlap == Spec => []StaleOnlyByOverlap
  <1>1. Init => ReadsFresh /\ EntriesFresh
    BY KeyOfScope DEF Init, ReadsFresh, FreshRead, EntriesFresh, Idle
  <1>2. ASSUME Inv, ReadsFresh, EntriesFresh, [Next]_vars PROVE ReadsFresh' /\ EntriesFresh'
    <2>1. CASE UNCHANGED vars
      BY <1>2, <2>1 DEF vars, ReadsFresh, FreshRead, EntriesFresh, Quiet, Pending
    <2>2. ASSUME NEW x \in Sessions, NEW s \in Scope, upsert_by_key(x, s)
          PROVE  ReadsFresh' /\ EntriesFresh'
      <3>1. version + 1 \in Version
        BY <1>2, <2>2, Numbers DEF upsert_by_key, Inv, TypeOK
      <3> QED  BY <1>2, <2>2, <3>1, WriteFresh DEF upsert_by_key
    <2>3. ASSUME NEW x \in Sessions, NEW s \in Scope, clear_by_key(x, s)
          PROVE  ReadsFresh' /\ EntriesFresh'
      BY <1>2, <2>3, Numbers, WriteFresh DEF clear_by_key
    <2> QED  BY <1>2, <2>1, <2>2, <2>3, ResolveFresh, LookFresh, StoreFresh, EndsFresh
             DEF Next, ensure_by_key
  <1>3. EntriesFresh => StaleOnlyByOverlap
    <2>1. \A s \in Scope : Committed(s) = ResolvedIn(rows, s)
      BY DEF Committed, ResolvedIn
    <2> QED  BY <2>1 DEF EntriesFresh, StaleOnlyByOverlap
  <1> QED  BY <1>1, <1>2, <1>3, SettingsInvariant, PTL DEF Spec

=============================================================================
