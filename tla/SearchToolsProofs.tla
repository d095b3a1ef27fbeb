------------------------- MODULE SearchToolsProofs -------------------------
(***************************************************************************)
(* SearchTools for any set of calls and any number of images: one index.   *)
(***************************************************************************)
EXTENDS SearchTools, TLAPS

Backends == {"none", "missing_image_source", "serpapi_google_lens",
             "serpapi_google", "fake", "offline_fvqa"}

ResultRecords == [backend : Backends, images : 0..TopK]

\* SearchTypeOK says nothing of the parts of a result that hold no number.
TypeInv ==
  /\ SearchTypeOK
  /\ docs \in 0..(TopK + 1)
  /\ result \in [Calls -> ResultRecords]

\* The types hold in every state, those of the results included.
LEMMA TypeInvariant == Spec => []TypeInv
<1> USE ToolsConstants
<1>1. Init => TypeInv
  BY DEF Init, TypeInv, SearchTypeOK, NoResult, ResultRecords, Backends
<1>2. TypeInv /\ [Next]_vars => TypeInv'
  <2> SUFFICES ASSUME TypeInv, [Next]_vars PROVE TypeInv'
    OBVIOUS
  <2> USE DEF TypeInv, SearchTypeOK, shared, Return, Returned
  <2>1. ASSUME NEW c \in Calls, SkipEmpty(c) PROVE TypeInv'
    BY <2>1 DEF SkipEmpty, ResultRecords, Backends
  <2>2. ASSUME NEW c \in Calls, NEW n \in 0..TopK, AskSerpApi(c, n)
        PROVE  TypeInv'
    BY <2>2 DEF AskSerpApi, ResultRecords, Backends
  <2>3. ASSUME NEW c \in Calls, FallBack(c) PROVE TypeInv'
    <3>1. CASE parquet = "absent"
      <4>1. ASSUME NEW n \in {0, TopK}
            PROVE  [backend |-> "fake", images |-> n] \in ResultRecords
        BY DEF ResultRecords, Backends
      <4>2. QED
        BY <2>3, <3>1, <4>1 DEF FallBack
    <3>2. CASE parquet # "absent"
      BY <2>3, <3>2 DEF FallBack
    <3>3. QED
      BY <3>1, <3>2
  <2>4. ASSUME NEW c \in Calls, EnterLock(c) PROVE TypeInv'
    BY <2>4 DEF EnterLock
  <2>5. ASSUME NEW c \in Calls, Build(c) PROVE TypeInv'
    BY <2>5 DEF Build, LockAfterRaise
  <2>6. ASSUME NEW c \in Calls, LeaveLock(c) PROVE TypeInv'
    BY <2>6 DEF LeaveLock
  <2>7. ASSUME NEW c \in Calls, Search(c) PROVE TypeInv'
    <3>1. UNCHANGED <<shared, index>>
      BY <2>7 DEF Search
    <3>2. pc' \in [Calls -> {"called", "waiting", "building", "leaving",
                             "searching", "returned", "raised"}]
      BY <2>7 DEF Search
    <3>3. result' \in [Calls -> ResultRecords]
      <4>1. ASSUME NEW n \in 0..TopK,
                   result' = [result EXCEPT ![c] =
                     [backend |-> "offline_fvqa", images |-> n]]
            PROVE  result' \in [Calls -> ResultRecords]
        BY <4>1 DEF ResultRecords, Backends
      <4>2. 0 \in 0..TopK /\ Nearest(docs) \in 0..TopK
        BY DEF Nearest
      <4>3. QED
        BY <2>7, <4>1, <4>2 DEF Search
    <3>4. QED
      BY <3>1, <3>2, <3>3 DEF ResultRecords
  <2>8. CASE UNCHANGED vars
    BY <2>8 DEF vars
  <2>9. QED
    BY <2>1, <2>2, <2>3, <2>4, <2>5, <2>6, <2>7, <2>8 DEF Next, Step, AllEnded
<1>3. QED
  BY <1>1, <1>2, PTL DEF Spec

\* No result of a search has more than topk images, however many entries there are.
THEOREM SearchTypeCorrect == Spec => []SearchTypeOK
<1>1. TypeInv => SearchTypeOK
  BY DEF TypeInv
<1>2. QED
  BY <1>1, TypeInvariant, PTL

---------------------------------------------------------------------------
\* One index

\* The with block of get_offline_index has at most one call in it, the one that
\* holds the lock.
HoldsLock == \A c \in Calls : pc[c] \in {"building", "leaving"} <=> lock = c

\* Whoever builds found nothing in the cache, and everything built is cached.
CacheIsIndex ==
  /\ cache = builds
  /\ \A c \in Calls : pc[c] = "building" => cache = 0

IndexInv == HoldsLock /\ CacheIsIndex /\ OneIndex

\* However many calls miss the cache together, one index is built.
THEOREM OneIndexCorrect == Spec => []OneIndex
<1> USE ToolsConstants
<1>1. Init => IndexInv
  BY DEF Init, IndexInv, HoldsLock, CacheIsIndex, OneIndex, NoResult
<1>2. TypeInv /\ IndexInv /\ [Next]_vars => IndexInv'
  <2> SUFFICES ASSUME TypeInv, IndexInv, [Next]_vars PROVE IndexInv'
    OBVIOUS
  <2> USE DEF TypeInv, SearchTypeOK, IndexInv, HoldsLock, CacheIsIndex, OneIndex,
              shared, Return, Returned
  <2>1. ASSUME NEW c \in Calls, SkipEmpty(c) PROVE IndexInv'
    BY <2>1 DEF SkipEmpty
  <2>2. ASSUME NEW c \in Calls, NEW n \in 0..TopK, AskSerpApi(c, n)
        PROVE  IndexInv'
    BY <2>2 DEF AskSerpApi
  <2>3. ASSUME NEW c \in Calls, FallBack(c) PROVE IndexInv'
    BY <2>3 DEF FallBack
  <2>4. ASSUME NEW c \in Calls, EnterLock(c) PROVE IndexInv'
    BY <2>4 DEF EnterLock, MayLock
  <2>5. ASSUME NEW c \in Calls, Build(c) PROVE IndexInv'
    BY <2>5 DEF Build, LockAfterRaise
  <2>6. ASSUME NEW c \in Calls, LeaveLock(c) PROVE IndexInv'
    BY <2>6 DEF LeaveLock
  <2>7. ASSUME NEW c \in Calls, Search(c) PROVE IndexInv'
    BY <2>7 DEF Search
  <2>8. CASE UNCHANGED vars
    BY <2>8 DEF vars
  <2>9. QED
    BY <2>1, <2>2, <2>3, <2>4, <2>5, <2>6, <2>7, <2>8 DEF Next, Step, AllEnded
<1>3. IndexInv => OneIndex
  BY DEF IndexInv
<1>4. QED
  BY <1>1, <1>2, <1>3, TypeInvariant, PTL DEF Spec
===========================================================================
