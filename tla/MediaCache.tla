----------------------------- MODULE MediaCache -----------------------------
(***************************************************************************)
(* The content-addressed cache of remote media (utils/media_cache.py) under*)
(* threads that fetch at the same time.  A blob file is named by its       *)
(* content and extension, the sidecar by the content alone; a sidecar says *)
(* which URL the content came from and when it was fetched.                *)
(***************************************************************************)
EXTENDS Integers, Sequences, FiniteSets, FiniteSetsExt

CONSTANTS
  Links,       \* URLs that may be fetched
  Refused,     \* those without https, or without a license note
  Contents,    \* contents
  Bytes,       \* their sizes
  Serves,      \* what a URL may answer with
  ExtOf,       \* the extension a URL's path names
  CacheBytes,  \* max_bytes of the cache
  EntryBytes,  \* max_bytes of an entry
  CacheTtl,    \* ttl_seconds
  DiskFails,   \* whether a file may fail to be written
  Fetchers,    \* threads in fetch_into_cache()
  LastNow,     \* (bound) the clock stops here
  MaxFetches   \* (bound) downloads begun

Exts == {ExtOf[u] : u \in Links}
Blobs == Contents \X Exts
None == [url |-> "none", ext |-> "none", at |-> 0]

ASSUME MediaAssumption ==
  /\ Refused \subseteq Links /\ Serves \in [Links -> SUBSET Contents]
  /\ IsFiniteSet(Links) /\ IsFiniteSet(Contents) /\ "none" \notin Links
  /\ Bytes \in [Contents -> Nat \ {0}] /\ {CacheBytes, EntryBytes, CacheTtl} \subseteq Nat

VARIABLES
  now,      \* _now()
  blob,     \* mtime order of the blob files, 0 where there is none
  sidecar,  \* the sidecar of each content, or None
  fetches,  \* downloads begun
  fetcher,  \* each thread
  abandoned \* (history) an eviction gave up since the blobs were last listed

cvars == <<now, blob, sidecar, fetches, fetcher, abandoned>>

Resting == [pc |-> "idle", url |-> "none", content |-> "none", ext |-> "none", entry |-> None,
            mtime |-> 0, names |-> {}, evicting |-> <<>>, total |-> 0]

CacheInit ==
  /\ now = 1 /\ fetches = 0
  /\ blob = [b \in Blobs |-> 0]
  /\ sidecar = [c \in Contents |-> None]
  /\ fetcher = [f \in Fetchers |-> Resting] /\ abandoned = FALSE

CacheTick ==
  /\ now < LastNow
  /\ now' = now + 1
  /\ UNCHANGED <<blob, sidecar, fetches, fetcher, abandoned>>
-----------------------------------------------------------------------------
Has(c, e) == blob[<<c, e>>] > 0
Old(entry) == now - entry.at > CacheTtl

\* sidecars of the URL that are dead are removed on sight, with the blob of those
\* that are too old
Dead(u) == {c \in Contents : sidecar[c].url = u /\ (Old(sidecar[c]) \/ ~Has(c, sidecar[c].ext))}
Live(u) == {c \in Contents : sidecar[c].url = u} \ Dead(u)

\* _find_by_url(), the newest entry of the URL
FindByUrl(f, u) ==
  /\ fetcher[f].pc = "idle" /\ u \notin Refused /\ fetches < MaxFetches
  /\ fetches' = fetches + 1
  /\ sidecar' = [c \in Contents |-> IF c \in Dead(u) THEN None ELSE sidecar[c]]
  /\ blob' = [b \in Blobs |-> IF b[1] \in Dead(u) /\ Old(sidecar[b[1]])
                                 /\ b[2] = sidecar[b[1]].ext THEN 0 ELSE blob[b]]
  /\ IF Live(u) = {}
     THEN fetcher' = [fetcher EXCEPT ![f].pc = "download", ![f].url = u]
     ELSE \E c \in Live(u) :
            /\ \A d \in Live(u) : sidecar[d].at <= sidecar[c].at
            /\ fetcher' = [fetcher EXCEPT ![f] =
                 [@ EXCEPT !.pc = "refresh", !.url = u, !.content = c, !.ext = sidecar[c].ext,
                           !.entry = sidecar[c]]]
  /\ UNCHANGED <<now, abandoned>>

\* a blank license note or another scheme is an error
Refuse(f, u) ==
  /\ fetcher[f].pc = "idle" /\ u \in Refused
  /\ fetcher' = [fetcher EXCEPT ![f].pc = "raised"]
  /\ UNCHANGED <<now, blob, sidecar, fetches, abandoned>>

\* _download(): the bytes are in a temporary file, or there is an error
Download(f, c) ==
  /\ fetcher[f].pc = "download" /\ c \in Serves[fetcher[f].url]
  /\ fetcher' = IF Bytes[c] > EntryBytes THEN [fetcher EXCEPT ![f].pc = "raised"]
                ELSE [fetcher EXCEPT ![f] =
                       [@ EXCEPT !.pc = "dedupe", !.content = c, !.ext = ExtOf[fetcher[f].url],
                          !.mtime = 1 + Max({blob[b] : b \in Blobs}
                                              \cup {fetcher[g].mtime : g \in Fetchers})]]
  /\ UNCHANGED <<now, blob, sidecar, fetches, abandoned>>

DownloadFails(f) ==
  /\ fetcher[f].pc = "download"
  /\ fetcher' = [fetcher EXCEPT ![f].pc = "raised"]
  /\ UNCHANGED <<now, blob, sidecar, fetches, abandoned>>

Entry(f) == [url |-> fetcher[f].url, ext |-> fetcher[f].ext, at |-> now]

\* _write_sidecar(), which may fail silently
WriteSidecar(c, entry) ==
  \/ sidecar' = [sidecar EXCEPT ![c] = [entry EXCEPT !.at = now]]
  \/ DiskFails /\ UNCHANGED sidecar

\* identical bytes are there: the sidecar gets the new provenance ...
Dedupe(f) ==
  LET c == fetcher[f].content
      found == sidecar[c]
  IN  /\ fetcher[f].pc = "dedupe"
      /\ IF found # None /\ Has(c, found.ext)
         THEN /\ WriteSidecar(c, [Entry(f) EXCEPT !.ext = found.ext])
              /\ fetcher' = [fetcher EXCEPT ![f] =
                   [@ EXCEPT !.pc = "refresh", !.ext = found.ext, !.entry = found, !.mtime = 0]]
         ELSE /\ sidecar' = [sidecar EXCEPT ![c] = None]
              /\ fetcher' = [fetcher EXCEPT ![f].pc = "store"]
      /\ UNCHANGED <<now, blob, fetches, abandoned>>

\* _refresh_fetched_at(): ... and the entry read before is written again
Refresh(f) ==
  /\ fetcher[f].pc = "refresh"
  /\ WriteSidecar(fetcher[f].content, fetcher[f].entry)
  /\ fetcher' = [fetcher EXCEPT ![f].pc = "done"]
  /\ UNCHANGED <<now, blob, fetches, abandoned>>

\* the temporary file takes the name of the blob, then comes the sidecar
Store(f) ==
  /\ fetcher[f].pc = "store"
  /\ blob' = [blob EXCEPT ![<<fetcher[f].content, fetcher[f].ext>>] = fetcher[f].mtime]
  /\ fetcher' = [fetcher EXCEPT ![f].pc = "sidecar", ![f].mtime = 0]
  /\ UNCHANGED <<now, sidecar, fetches, abandoned>>

StoreFails(f) ==
  /\ fetcher[f].pc = "store" /\ DiskFails
  /\ fetcher' = [fetcher EXCEPT ![f].pc = "raised"]
  /\ UNCHANGED <<now, blob, sidecar, fetches, abandoned>>

NewSidecar(f) ==
  /\ fetcher[f].pc = "sidecar"
  /\ WriteSidecar(fetcher[f].content, Entry(f))
  /\ fetcher' = [fetcher EXCEPT ![f].pc = "evict"]
  /\ UNCHANGED <<now, blob, fetches, abandoned>>

-----------------------------------------------------------------------------
\* each byte of a blob counts
SumBytes(S) == Cardinality(UNION {{b} \X (1..Bytes[b[1]]) : b \in S})
Present == {b \in Blobs : blob[b] > 0}
ByAge(S) == {q \in [1..Cardinality(S) -> S] :
               \A i, j \in DOMAIN q : i < j => q[i] # q[j] /\ blob[q[i]] <= blob[q[j]]}

\* _evict_over_cap(): the names of the blobs are listed, ...
ListNames(f) ==
  /\ fetcher[f].pc = "evict"
  /\ fetcher' = [fetcher EXCEPT ![f].pc = "stat", ![f].names = Present]
  /\ abandoned' = FALSE
  /\ UNCHANGED <<now, blob, sidecar, fetches>>

\* (mutant: the cache is too large only at twice its size)
StatBlobsLate(f) ==
  /\ fetcher[f].pc = "stat" /\ fetcher[f].names \subseteq Present
  /\ LET n == SumBytes(fetcher[f].names)
     IN  fetcher' = [fetcher EXCEPT ![f].pc = IF n > 2 * CacheBytes THEN "sort" ELSE "end",
                                    ![f].total = n]
  /\ UNCHANGED <<now, blob, sidecar, fetches, abandoned>>

\* ... their sizes are read, ...
StatBlobs(f) ==
  /\ fetcher[f].pc = "stat" /\ fetcher[f].names \subseteq Present
  /\ LET n == SumBytes(fetcher[f].names)
     IN  fetcher' = [fetcher EXCEPT ![f].pc = IF n > CacheBytes THEN "sort" ELSE "end",
                                    ![f].total = n]
  /\ UNCHANGED <<now, blob, sidecar, fetches, abandoned>>

\* ... their times are read, too many bytes given, ...
SortBlobs(f) ==
  /\ fetcher[f].pc = "sort" /\ fetcher[f].names \subseteq Present
  /\ \E q \in ByAge(fetcher[f].names) :
       fetcher' = [fetcher EXCEPT ![f].pc = "unlink", ![f].evicting = q]
  /\ UNCHANGED <<now, blob, sidecar, fetches, abandoned>>

\* ... unless one of them is gone by then: stat() raises, and nothing is evicted ...
GiveUpEvict(f) ==
  /\ fetcher[f].pc \in {"stat", "sort"} /\ ~(fetcher[f].names \subseteq Present)
  /\ fetcher' = [fetcher EXCEPT ![f].pc = "end"]
  /\ abandoned' = TRUE
  /\ UNCHANGED <<now, blob, sidecar, fetches>>

\* ... and unlinked oldest first; one that is gone already does not count
Unlink(f) ==
  LET b == Head(fetcher[f].evicting)
  IN  /\ fetcher[f].pc = "unlink" /\ fetcher[f].evicting # <<>>
      /\ fetcher[f].total > CacheBytes
      /\ blob' = [blob EXCEPT ![b] = 0]
      /\ sidecar' = [sidecar EXCEPT ![b[1]] = None]
      /\ fetcher' = [fetcher EXCEPT
           ![f].evicting = Tail(@),
           ![f].total = IF blob[b] > 0 THEN @ - Bytes[b[1]] ELSE @]
      /\ UNCHANGED <<now, fetches, abandoned>>

EndEvict(f) ==
  /\ \/ fetcher[f].pc = "end"
     \/ fetcher[f].pc = "unlink"
          /\ (fetcher[f].total <= CacheBytes \/ fetcher[f].evicting = <<>>)
  /\ fetcher' = [fetcher EXCEPT ![f].pc = "done", ![f].names = {}, ![f].evicting = <<>>,
                                ![f].total = 0]
  /\ UNCHANGED <<now, blob, sidecar, fetches, abandoned>>

\* the path, or the error, is taken by the caller
Return(f) ==
  /\ fetcher[f].pc \in {"done", "raised"}
  /\ fetcher' = [fetcher EXCEPT ![f] = Resting]
  /\ UNCHANGED <<now, blob, sidecar, fetches, abandoned>>

FetchStep(f) ==
  \/ \E u \in Links : FindByUrl(f, u) \/ Refuse(f, u)
  \/ \E c \in Contents : Download(f, c)
  \/ DownloadFails(f) \/ Dedupe(f) \/ Refresh(f) \/ Store(f) \/ StoreFails(f)
  \/ NewSidecar(f) \/ ListNames(f) \/ StatBlobs(f) \/ SortBlobs(f) \/ GiveUpEvict(f)
  \/ Unlink(f) \/ EndEvict(f) \/ Return(f)

CacheNext == CacheTick \/ \E f \in Fetchers : FetchStep(f)
CacheSpec == CacheInit /\ [][CacheNext]_cvars
-----------------------------------------------------------------------------
\* Whatever the threads do to the same files, the path that is returned for a URL
\* holds something that URL has served; and the cache fits its cap again as soon
\* as nobody stores or evicts, unless an eviction gave up, over a blob another thread
\* had removed, since the blobs were last listed.
CacheSound ==
  /\ \A f \in Fetchers : fetcher[f].pc = "done" => fetcher[f].content \in Serves[fetcher[f].url]
  /\ (\A f \in Fetchers : fetcher[f].pc \notin {"sidecar", "evict", "stat", "sort", "unlink"})
       => abandoned \/ SumBytes(Present) <= CacheBytes
=============================================================================
