----------------------------- MODULE CoverCache -----------------------------
(***************************************************************************)
(* Loading a cover (src/tui/covers/mod.rs, cache.rs, disk.rs): the decoded *)
(* and the raw LRU, the disk, the network, each layer warmed on the way    *)
(* back.  The detail and the Discover workers may load one url at the same *)
(* time, and the program may be killed in the middle of a write.           *)
(***************************************************************************)
EXTENDS Integers, FiniteSets

CONSTANTS
    Drawers,  \* the cover workers
    ArtUrls,  \* the keys
    ArtSize,  \* [ArtUrls -> bytes], of a body and of its pixels alike
    TierCap,  \* RAW_CACHE_BYTES, DECODED_CACHE_BYTES: [raw, decoded]
    MaxLoads  \* bound of the run: loads started

ASSUME CoverCacheAssumption ==
    ArtSize \in [ArtUrls -> Nat] /\ TierCap \in [{"raw", "decoded"} -> Nat] /\ "none" \notin ArtUrls

VARIABLES
    tiers,  \* [raw, decoded]: [held, older, total]; older: whose stamp is before whose
    files,  \* the cover of each url on disk: none, torn or whole
    temps,  \* temporary files: the name, and what is in it
    loads,  \* worker: [at, url, body]
    served, \* what the last load that ended gave: none, failed or whole
    begun   \* loads started so far

cacheVars == <<tiers, files, temps, loads, served, begun>>

NotLoading == [at |-> "idle", url |-> "none", body |-> "none"]
EmptyTier == [held |-> {}, older |-> {}, total |-> 0]

CacheInit ==
    /\ tiers = [t \in {"raw", "decoded"} |-> EmptyTier]
    /\ files \in [ArtUrls -> {"none", "torn"}]
    /\ temps = [d \in Drawers |-> "none"] /\ loads = [d \in Drawers |-> NotLoading]
    /\ served = "none" /\ begun = 0

-----------------------------------------------------------------------------
(***************************************************************************)
(* ByteLru.                                                                *)
(***************************************************************************)
\* byte_len of all of them, each byte by its url and its place.
Bytes(urls) == Cardinality(UNION {{u} \X (1 .. ArtSize[u]) : u \in urls})

\* The stamps of all but u.
OthersOlder(tier, u) == {p \in tier.older : u \notin {p[1], p[2]}}

\* A new stamp is after all there are.
Promoted(tier, u) == OthersOlder(tier, u) \cup (tier.held \ {u}) \X {u}

\* A hit promotes.
Hit(t, u) == u \in tiers[t].held
Touched(t, u) == IF Hit(t, u) THEN [tiers EXCEPT ![t].older = Promoted(tiers[t], u)] ELSE tiers

\* Mutated form: the bytes of the entry that is replaced are not given back.
WithoutLeaks(t, u) ==
    [held |-> tiers[t].held \ {u}, older |-> OthersOlder(tiers[t], u), total |-> tiers[t].total]

\* insert takes an old entry of its key out first.
Without(t, u) ==
    [held |-> tiers[t].held \ {u}, older |-> OthersOlder(tiers[t], u),
     total |-> tiers[t].total - (IF Hit(t, u) THEN ArtSize[u] ELSE 0)]

\* Room for u once these are gone.
Fits(t, rest, u, gone) == rest.total - Bytes(gone) + ArtSize[u] <= TierCap[t]

\* evict_oldest, again and again: an entry goes when, all the older ones gone, there
\* is no room yet.
Oldest(t, rest, u) == {v \in rest.held : ~Fits(t, rest, u, {w \in rest.held : <<w, v>> \in rest.older})}

\* What an insert leaves behind once these are gone.
Left(rest, gone) ==
    [held |-> rest.held \ gone, older |-> {p \in rest.older : p[1] \notin gone /\ p[2] \notin gone},
     total |-> rest.total - Bytes(gone)]

\* The entry with its stamp.
Entered(tier, u) ==
    [held |-> tier.held \cup {u}, older |-> Promoted(tier, u), total |-> tier.total + ArtSize[u]]

\* ByteLru::insert: a value above the whole cap is declined.
Inserted(t, u) ==
    IF ArtSize[u] > TierCap[t] THEN tiers
    ELSE LET rest == Without(t, u)
         IN  [tiers EXCEPT ![t] = Entered(Left(rest, Oldest(t, rest, u)), u)]

-----------------------------------------------------------------------------
(***************************************************************************)
(* load_with, one step per section under the lock or call to the system.   *)
(***************************************************************************)
LoadGoes(d, at) == loads' = [loads EXCEPT ![d].at = at]
LoadAt(d, at) == loads[d].at = at

StartLoad(d) ==
    /\ LoadAt(d, "idle") /\ begun < MaxLoads /\ begun' = begun + 1
    /\ \E u \in ArtUrls : loads' = [loads EXCEPT ![d] = [at |-> "decoded", url |-> u, body |-> "whole"]]
    /\ UNCHANGED <<tiers, files, temps, served>>

EndLoad(d, result) == loads' = [loads EXCEPT ![d] = NotLoading] /\ served' = result

\* decoded_hit, raw_hit
LookUp(d) ==
    /\ \/ /\ LoadAt(d, "decoded")
          /\ tiers' = Touched("decoded", loads[d].url)
          /\ IF Hit("decoded", loads[d].url) THEN EndLoad(d, "whole")
             ELSE LoadGoes(d, "raw") /\ UNCHANGED served
       \/ /\ LoadAt(d, "raw")
          /\ tiers' = Touched("raw", loads[d].url)
          /\ LoadGoes(d, IF Hit("raw", loads[d].url) THEN "keep decoded" ELSE "disk")
          /\ UNCHANGED served
    /\ UNCHANGED <<files, temps, begun>>

\* Mutated form: what the disk holds is taken as it is.
DecodesAnything(body) == body # "none"

\* decode_cover
Decodes(body) == body = "whole"

\* disk::read: a torn file falls through to the network.
ReadDisk(d) ==
    /\ LoadAt(d, "disk")
    /\ LET body == files[loads[d].url] IN
          IF Decodes(body) THEN loads' = [loads EXCEPT ![d].at = "keep raw", ![d].body = body]
          ELSE LoadGoes(d, "network")
    /\ UNCHANGED <<tiers, files, temps, served, begun>>

\* The guard, the request and the decode, or an error before anything is stored.
FetchCover(d) ==
    /\ LoadAt(d, "network")
    /\ \/ LoadGoes(d, "open") /\ UNCHANGED served
       \/ EndLoad(d, "failed")
    /\ UNCHANGED <<tiers, files, temps, begun>>

\* Mutated form: one temporary name for all writers.
TempOfAll(d) == CHOOSE e \in Drawers : TRUE

\* TMP_NONCE: a name of its own for every write.
TempOf(d) == d

\* disk::write: fs::write opens and truncates, then the bytes arrive, or the disk
\* is full; the rename takes what the name holds.
WriteDisk(d) ==
    /\ \/ LoadAt(d, "open") /\ LoadGoes(d, "fill") /\ temps' = [temps EXCEPT ![TempOf(d)] = "torn"] /\ UNCHANGED files
       \/ LoadAt(d, "fill") /\ LoadGoes(d, "rename") /\ temps' = [temps EXCEPT ![TempOf(d)] = "whole"] /\ UNCHANGED files
       \/ LoadAt(d, "fill") /\ LoadGoes(d, "keep raw") /\ temps' = [temps EXCEPT ![TempOf(d)] = "none"] /\ UNCHANGED files
       \/ /\ LoadAt(d, "rename") /\ LoadGoes(d, "keep raw")
          /\ temps' = [temps EXCEPT ![TempOf(d)] = "none"]
          /\ files' = [files EXCEPT ![loads[d].url] = IF temps[TempOf(d)] = "none" THEN @ ELSE temps[TempOf(d)]]
    /\ UNCHANGED <<tiers, served, begun>>

\* insert_raw, insert_decoded
WarmUp(d) ==
    /\ \/ LoadAt(d, "keep raw") /\ tiers' = Inserted("raw", loads[d].url) /\ LoadGoes(d, "keep decoded") /\ UNCHANGED served
       \/ LoadAt(d, "keep decoded") /\ tiers' = Inserted("decoded", loads[d].url) /\ EndLoad(d, loads[d].body)
    /\ UNCHANGED <<files, temps, begun>>

\* The program is killed: the disk keeps what it has, temporary files included;
\* another process has names of its own.
Killed ==
    /\ tiers' = [t \in {"raw", "decoded"} |-> EmptyTier] /\ temps' = [d \in Drawers |-> "none"]
    /\ loads' = [d \in Drawers |-> NotLoading] /\ served' = "none"
    /\ \E d \in Drawers : ~LoadAt(d, "idle")
    /\ UNCHANGED <<files, begun>>

LoadStep(d) == LookUp(d) \/ ReadDisk(d) \/ FetchCover(d) \/ WriteDisk(d) \/ WarmUp(d)

CacheNext == Killed \/ \E d \in Drawers : StartLoad(d) \/ LoadStep(d)

CacheSpec == CacheInit /\ [][CacheNext]_cacheVars

-----------------------------------------------------------------------------
(***************************************************************************)
(* Properties.                                                             *)
(***************************************************************************)

\* Each tier accounts for exactly the bytes it holds and never holds more than its
\* cap, whichever workers insert the same url (ByteLru).
TiersBounded ==
    \A t \in {"raw", "decoded"} :
        /\ tiers[t].total = Bytes(tiers[t].held)
        /\ tiers[t].total <= TierCap[t]

\* A cover that is whole on disk stays whole, through concurrent writers of its
\* url and through a kill in the middle of a write (disk::write).
DiskStaysWhole == [][\A u \in ArtUrls : files[u] = "whole" => files'[u] = "whole"]_cacheVars

\* A torn file is never served: the load goes on to the network (load_with).
NeverTorn == served # "torn"

\* The cover tiers under concurrent loads and kills (covers/cache.rs, covers/disk.rs).
CacheSound == [](TiersBounded /\ NeverTorn) /\ DiskStaysWhole
=============================================================================
