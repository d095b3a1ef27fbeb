---------------------------- MODULE SearchTools ----------------------------
(***************************************************************************)
(* The two search tools as the threads of one rollout call them: SerpAPI   *)
(* when it has a key, then the offline index, then a fake result.  The     *)
(* index is built by the first call that needs it, under a lock, and kept  *)
(* in a cache that all threads share.                                      *)
(***************************************************************************)
EXTENDS Integers, FiniteSets

CONSTANTS
  ImageCalls,  \* calls of call_image_search with an image to search for
  EmptyCalls,  \* calls of call_image_search with an empty image_url
  TextCalls,   \* calls of call_text_search
  SerpApi,     \* SERPAPI_API_KEY is set
  TopK,        \* topk, num_results and the number of fake images
  NoCall       \* nobody holds the lock

Calls == ImageCalls \cup EmptyCalls \cup TextCalls

ASSUME ToolsConstants ==
  /\ SerpApi \in BOOLEAN
  /\ TopK \in Nat \ {0}
  /\ NoCall \notin Calls

VARIABLES
  pc,       \* where each call is
  parquet,  \* the file MMSEARCH_OFFLINE_PARQUET names
  docs,     \* its entries (bound: one more than TopK)
  lock,     \* the call that holds _INDEX_LOCK
  cache,    \* _INDEX_CACHE of that path: 0, or the number of the build
  builds,   \* history: indexes built
  index,    \* the index get_offline_index returned to a call
  result    \* what a call returned

shared == <<parquet, docs, lock, cache, builds>>
vars == <<pc, shared, index, result>>

NoResult == [backend |-> "none", images |-> 0]
Returned(backend, images) == [backend |-> backend, images |-> images]

Init ==
  /\ pc = [c \in Calls |-> "called"]
  /\ parquet \in {"absent", "whole", "broken"}
  /\ docs \in 0..(TopK + 1)
  /\ lock = NoCall
  /\ cache = 0
  /\ builds = 0
  /\ index = [c \in Calls |-> 0]
  /\ result = [c \in Calls |-> NoResult]

Return(c, r) ==
  /\ pc' = [pc EXCEPT ![c] = "returned"]
  /\ result' = [result EXCEPT ![c] = r]

\* _missing_image_source_response
SkipEmpty(c) ==
  /\ pc[c] = "called"
  /\ c \in EmptyCalls
  /\ Return(c, Returned("missing_image_source", 0))
  /\ UNCHANGED <<shared, index>>

\* Google Lens lists up to num_results titles, with the thumbnails that could
\* be downloaded; Google Search lists texts.
AskSerpApi(c, thumbnails) ==
  /\ pc[c] = "called"
  /\ c \notin EmptyCalls
  /\ SerpApi
  /\ Return(c, IF c \in ImageCalls
               THEN Returned("serpapi_google_lens", thumbnails)
               ELSE Returned("serpapi_google", 0))
  /\ UNCHANGED <<shared, index>>

\* No key, or SerpAPI raised, which only prints a warning: get_offline_index,
\* whose file has to exist before the cache is looked at.
FallBack(c) ==
  /\ pc[c] = "called"
  /\ c \notin EmptyCalls
  /\ IF parquet = "absent"
     THEN Return(c, Returned("fake", IF c \in ImageCalls THEN TopK ELSE 0))
     ELSE /\ pc' = [pc EXCEPT ![c] = "waiting"]
          /\ UNCHANGED result
  /\ UNCHANGED <<shared, index>>

\* Mutant: the lock lets everybody in.
MutNoLock(c) == pc[c] = "waiting"

MayLock(c) == pc[c] = "waiting" /\ lock = NoCall

\* The lock is taken and the cache is read: a miss starts a build.
EnterLock(c) ==
  /\ MayLock(c)
  /\ lock' = c
  /\ pc' = [pc EXCEPT ![c] = IF cache = 0 THEN "building" ELSE "leaving"]
  /\ index' = [index EXCEPT ![c] = cache]
  /\ UNCHANGED <<parquet, docs, cache, builds, result>>

\* Mutant: the lock is not released when the build raises.
MutLockKept(c) == lock

LockAfterRaise(c) == NoCall

\* The index is built and cached, or the file cannot be read: the with block
\* releases the lock and the call raises.
Build(c) ==
  /\ pc[c] = "building"
  /\ IF parquet = "broken"
     THEN /\ pc' = [pc EXCEPT ![c] = "raised"]
          /\ lock' = LockAfterRaise(c)
          /\ UNCHANGED <<cache, builds, index>>
     ELSE /\ pc' = [pc EXCEPT ![c] = "leaving"]
          /\ builds' = builds + 1
          /\ cache' = builds + 1
          /\ index' = [index EXCEPT ![c] = builds + 1]
          /\ UNCHANGED lock
  /\ UNCHANGED <<parquet, docs, result>>

LeaveLock(c) ==
  /\ pc[c] = "leaving"
  /\ lock' = NoCall
  /\ pc' = [pc EXCEPT ![c] = "searching"]
  /\ UNCHANGED <<parquet, docs, cache, builds, index, result>>

\* Mutant: every entry is returned.
MutNearest(entries) == entries

\* scored[:topk]
Nearest(entries) == IF entries < TopK THEN entries ELSE TopK

\* search_text never raises; search_image returns the topk nearest entries, or
\* raises when the query image cannot be loaded.
Search(c) ==
  /\ pc[c] = "searching"
  /\ \/ /\ c \in TextCalls
        /\ Return(c, Returned("offline_fvqa", 0))
     \/ /\ c \in ImageCalls
        /\ Return(c, Returned("offline_fvqa", Nearest(docs)))
     \/ /\ c \in ImageCalls
        /\ pc' = [pc EXCEPT ![c] = "raised"]
        /\ UNCHANGED result
  /\ UNCHANGED <<shared, index>>

Step(c) ==
  \/ SkipEmpty(c)
  \/ FallBack(c) \/ EnterLock(c) \/ Build(c) \/ LeaveLock(c) \/ Search(c)
  \/ \E thumbnails \in 0..TopK : AskSerpApi(c, thumbnails)

AllEnded == \A c \in Calls : pc[c] \in {"returned", "raised"}

Next == (\E c \in Calls : Step(c)) \/ (AllEnded /\ UNCHANGED vars)

\* Every request and every read has a timeout, and a lock that is free is
\* given to one of those that wait; no thread is preferred, so each one of
\* the finitely many calls gets it in the end.
Fairness == \A c \in Calls : WF_vars(Step(c))

Spec == Init /\ [][Next]_vars /\ Fairness
---------------------------------------------------------------------------
\* Properties

SearchTypeOK ==
  /\ pc \in [Calls -> {"called", "waiting", "building", "leaving", "searching",
                       "returned", "raised"}]
  /\ lock \in Calls \cup {NoCall}
  /\ builds \in Nat
  /\ cache \in 0..builds
  /\ index \in [Calls -> 0..builds]
  /\ \A c \in Calls : result[c].images \in 0..TopK

\* However many threads miss the cache together, one index is built, and all
\* answers of the offline backend come from it.
OneIndex ==
  /\ builds <= 1
  /\ \A c \in Calls :
       pc[c] \in {"leaving", "searching"} \/ result[c].backend = "offline_fvqa" =>
         index[c] = 1

\* Every call returns or raises, also when the build it waited for failed.
CallsEnd == <>AllEnded
===========================================================================
