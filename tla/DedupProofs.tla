----------------------------- MODULE DedupProofs ----------------------------
(***************************************************************************)
(* For any number of handles, keys and submitting threads: the index holds *)
(* live handles but for the window of the terminal hook, the newest handle *)
(* of a key can be found, and two handles of one key live together only    *)
(* after submissions that overlapped.                                      *)
(***************************************************************************)
EXTENDS Dedup, FiniteSetTheorems, TLAPS

(* What the properties rest on: only registered handles end, the loop's    *)
(* hook is about a handle that has ended, a live handle of a key that was  *)
(* not raced is the one in the index, and a thread that looked a key up    *)
(* finds no live handle of it later unless the key was raced.              *)
OnlyRegisteredEnd == \A h \in Handles : done[h] => h \in Registered
HookOfEnded    == completing # NoHandle => completing \in Registered /\ done[completing]
LiveIsIndexed  == \A k \in Keys \ raced : \A h \in Live(k) : index[k] = h
LookUpHolds    ==
  \A t \in Threads : \A k \in Keys \ raced :
    submitting[t] = k /\ k # Idle /\ ~Overlapped(t, k) => Live(k) = {}
LookUpsPast    == \A t \in Threads : lookedUp[t] <= Len(order)

DedupInv ==
  /\ TypeOK /\ EntriesLive /\ LatestFound
  /\ OnlyRegisteredEnd /\ HookOfEnded
  /\ LiveIsIndexed /\ LookUpHolds /\ LookUpsPast

-----------------------------------------------------------------------------
(* What the registration of one handle does to the registry.               *)
LEMMA Appended ==
  ASSUME NEW s \in Seq(Handles), NEW h \in Handles
  PROVE  /\ Append(s, h) \in Seq(Handles)
         /\ Len(Append(s, h)) = Len(s) + 1
         /\ DOMAIN Append(s, h) = 1 .. Len(s) + 1 /\ DOMAIN s = 1 .. Len(s)
         /\ \A i \in 1 .. Len(s) : Append(s, h)[i] = s[i]
         /\ Append(s, h)[Len(s) + 1] = h
         /\ ToSet(Append(s, h)) = ToSet(s) \cup {h}
         /\ Len(s) \in Nat
<1>1. /\ Append(s, h) \in Seq(Handles) /\ Len(Append(s, h)) = Len(s) + 1
      /\ DOMAIN Append(s, h) = 1 .. Len(s) + 1 /\ DOMAIN s = 1 .. Len(s)
      /\ Append(s, h)[Len(s) + 1] = h
      /\ Len(s) \in Nat
      /\ \A i \in 1 .. Len(s) : Append(s, h)[i] = s[i]
  OBVIOUS
<1>2. ToSet(Append(s, h)) = ToSet(s) \cup {h}
  BY <1>1 DEF ToSet
<1> QED
  BY <1>1, <1>2

LEMMA InitDedup == ASSUME Init PROVE DedupInv
<1> USE DedupAssumption
<1>1. /\ order \in Seq(Handles) /\ Len(order) = 0 /\ DOMAIN order = {} /\ Registered = {}
  BY DEF Init, Registered, ToSet
<1>2. \A k \in Keys : Live(k) = {}
  BY <1>1 DEF Live
<1>3. TypeOK
  BY <1>1 DEF Init, TypeOK
<1> QED
  BY <1>1, <1>2, <1>3 DEF Init, DedupInv, EntriesLive, LatestFound, OnlyRegisteredEnd,
     HookOfEnded, LiveIsIndexed, LookUpHolds, LookUpsPast

-----------------------------------------------------------------------------
(* A failed look-up: the index has no live handle of the key, and so there *)
(* is none unless the key was raced.                                       *)
LEMMA LookUpStep ==
  ASSUME DedupInv, NEW t \in Threads, NEW k \in Keys \cup {NoKey}, LookUpFails(t, k)
  PROVE  DedupInv'
<1> USE DEF DedupInv
<1>1. /\ order' = order /\ keyOf' = keyOf /\ done' = done /\ index' = index
      /\ completing' = completing /\ raced' = raced /\ shutdown' = shutdown
  BY DEF LookUpFails
<1>2. Registered' = Registered /\ \A g \in Keys : Live(g)' = Live(g)
  BY <1>1 DEF Registered, Live
<1>3. Len(order) \in Nat
  BY DEF TypeOK
<1>4. TypeOK' /\ LookUpsPast'
  BY <1>1, <1>3 DEF LookUpFails, TypeOK, LookUpsPast
<1>5. LookUpHolds'
  <2> SUFFICES ASSUME NEW u \in Threads, NEW g \in Keys \ raced,
                      submitting'[u] = g, g # Idle, ~Overlapped(u, g)'
               PROVE  Live(g) = {}
    BY <1>1, <1>2 DEF LookUpHolds
  <2>1. CASE u = t
    <3>1. g = k /\ ~Joins(k)
      BY <2>1 DEF LookUpFails, TypeOK
    <3>2. \A h \in Live(g) : index[g] = h /\ ~done[h]
      BY DEF LiveIsIndexed, Live
    <3>3. \A h \in Live(g) : h # NoHandle
      BY DedupAssumption DEF Live, Registered, ToSet, TypeOK
    <3> QED
      BY <3>1, <3>2, <3>3 DEF Joins
  <2>2. CASE u # t
    <3>1. submitting[u] = g /\ ~Overlapped(u, g)
      BY <1>1, <2>2 DEF LookUpFails, TypeOK, Overlapped
    <3> QED
      BY <3>1 DEF LookUpHolds
  <2> QED
    BY <2>1, <2>2
<1>6. EntriesLive' /\ LatestFound' /\ OnlyRegisteredEnd' /\ HookOfEnded' /\ LiveIsIndexed'
  BY <1>1, <1>2 DEF EntriesLive, LatestFound, OnlyRegisteredEnd, HookOfEnded, LiveIsIndexed
<1> QED
  BY <1>4, <1>5, <1>6

(* A registration: the new handle takes the entry of its key.              *)
LEMMA RegisterStep ==
  ASSUME DedupInv, NEW t \in Threads, Register(t)
  PROVE  DedupInv'
<1> USE DEF DedupInv
<1> DEFINE k == submitting[t]
<1>1. PICK h \in Handles \ Registered :
        /\ k # Idle /\ ~shutdown
        /\ order' = Append(order, h)
        /\ keyOf' = [keyOf EXCEPT ![h] = k]
        /\ index' = IF k = NoKey THEN index ELSE Enter(h, k)
        /\ submitting' = [submitting EXCEPT ![t] = Idle]
        /\ raced' = IF Overlapped(t, k) THEN raced \cup {k} ELSE raced
        /\ lookedUp' = [lookedUp EXCEPT ![t] = 0]
        /\ UNCHANGED <<done, completing, shutdown>>
  BY DEF Register
<1> HIDE DEF k
<1>2. k \in Keys \cup {NoKey}
  BY <1>1 DEF TypeOK, k
<1>3. /\ order' \in Seq(Handles) /\ Len(order') = Len(order) + 1 /\ Len(order) \in Nat
      /\ DOMAIN order' = 1 .. Len(order) + 1 /\ DOMAIN order = 1 .. Len(order)
      /\ \A i \in 1 .. Len(order) : order'[i] = order[i]
      /\ order'[Len(order) + 1] = h
      /\ Registered' = Registered \cup {h}
  BY <1>1, Appended DEF TypeOK, Registered
<1>4. \A i \in 1 .. Len(order) : order[i] \in Registered /\ order[i] \in Handles
  <2>1. \A i \in DOMAIN order : order[i] \in Handles
    BY DEF TypeOK
  <2>2. \A i \in DOMAIN order : order[i] \in Registered
    BY DEF Registered, ToSet
  <2> QED BY <1>3, <2>1, <2>2
<1>5. \A g \in Registered : keyOf'[g] = keyOf[g] /\ g \in Handles /\ g # h
  BY <1>1 DEF TypeOK, Registered, ToSet
<1>6. keyOf'[h] = k /\ ~done[h]
  BY <1>1 DEF TypeOK, OnlyRegisteredEnd
<1>7. \A g \in Keys : index'[g] = IF g = k THEN h ELSE index[g]
  BY <1>1, <1>2, DedupAssumption DEF Enter, TypeOK
<1>8. \A g \in Keys : Live(g)' = IF g = k THEN Live(g) \cup {h} ELSE Live(g)
  BY <1>1, <1>3, <1>5, <1>6 DEF Live
<1>9. TypeOK'
  <2>1. index' \in [Keys -> Handles \cup {NoHandle}]
    BY <1>1, <1>2 DEF Enter, TypeOK
  <2>2. raced' \subseteq Keys
    BY <1>1, <1>2 DEF Overlapped, TypeOK
  <2>3. keyOf' \in [Handles -> Keys \cup {NoKey}]
    BY <1>1, <1>2 DEF TypeOK
  <2> QED
    BY <1>1, <1>3, <2>1, <2>2, <2>3 DEF TypeOK
<1>10. EntriesLive'
  BY <1>1, <1>3, <1>5, <1>6, <1>7 DEF EntriesLive
<1>11. LatestFound'
  <2> SUFFICES ASSUME NEW i \in 1 .. Len(order) + 1,
                      keyOf'[order'[i]] \in Keys, ~done[order'[i]],
                      \A j \in 1 .. Len(order) + 1 : j > i => keyOf'[order'[j]] # keyOf'[order'[i]]
               PROVE  index'[keyOf'[order'[i]]] = order'[i]
    BY <1>1, <1>3 DEF LatestFound
  <2>1. CASE i = Len(order) + 1
    BY <2>1, <1>3, <1>6, <1>7
  <2>2. CASE i \in 1 .. Len(order)
    <3>1. order'[i] = order[i] /\ keyOf'[order'[i]] = keyOf[order[i]]
      BY <2>2, <1>3, <1>4, <1>5
    <3>2. keyOf[order[i]] # k
      BY <2>2, <3>1, <1>3, <1>6
    <3>3. \A j \in 1 .. Len(order) : j > i => keyOf[order[j]] # keyOf[order[i]]
      BY <3>1, <1>3, <1>4, <1>5
    <3>4. index[keyOf[order[i]]] = order[i]
      BY <2>2, <3>1, <3>3, <1>3 DEF LatestFound
    <3> QED
      BY <3>1, <3>2, <3>4, <1>7
  <2> QED
    BY <1>3, <2>1, <2>2
<1>12. OnlyRegisteredEnd' /\ HookOfEnded'
  BY <1>1, <1>3 DEF OnlyRegisteredEnd, HookOfEnded
<1>13. LookUpsPast'
  BY <1>1, <1>3 DEF LookUpsPast, TypeOK
<1>14. k \in Keys /\ k \notin raced' => Live(k) = {}
  BY <1>1 DEF LookUpHolds, k
<1>15. raced \subseteq raced'
  BY <1>1
<1>16. LiveIsIndexed'
  BY <1>7, <1>8, <1>14, <1>15 DEF LiveIsIndexed
<1>17. LookUpHolds'
  <2> SUFFICES ASSUME NEW u \in Threads, NEW g \in Keys \ raced',
                      submitting'[u] = g, g # Idle, ~Overlapped(u, g)'
               PROVE  Live(g)' = {}
    BY DEF LookUpHolds
  <2>1. u # t /\ submitting[u] = g /\ lookedUp'[u] = lookedUp[u] /\ lookedUp[u] \in Nat
    BY <1>1 DEF TypeOK
  <2>2. \A i \in lookedUp[u] + 1 .. Len(order) + 1 : keyOf'[order'[i]] # g
    BY <2>1, <1>3 DEF Overlapped
  <2>3. g # k
    BY <2>1, <2>2, <1>3, <1>6 DEF LookUpsPast
  <2>4. \A i \in lookedUp[u] + 1 .. Len(order) : keyOf[order[i]] # g
    BY <2>1, <2>2, <1>3, <1>4, <1>5
  <2>5. Live(g) = {}
    BY <2>1, <2>4, <1>15 DEF LookUpHolds, Overlapped
  <2> QED
    BY <2>3, <2>5, <1>8
<1> QED
  BY <1>9, <1>10, <1>11, <1>12, <1>13, <1>16, <1>17

(* A submission refused changes what its thread holds.                     *)
LEMMA RefusedStep ==
  ASSUME DedupInv, NEW t \in Threads, RegisterRefused(t)
  PROVE  DedupInv'
<1> USE DEF DedupInv
<1>1. /\ order' = order /\ keyOf' = keyOf /\ done' = done /\ index' = index
      /\ completing' = completing /\ raced' = raced /\ shutdown' = shutdown
  BY DEF RegisterRefused
<1>2. Registered' = Registered /\ \A g \in Keys : Live(g)' = Live(g)
  BY <1>1 DEF Registered, Live
<1>3. TypeOK' /\ LookUpsPast'
  BY <1>1 DEF RegisterRefused, TypeOK, LookUpsPast
<1>4. LookUpHolds'
  <2> SUFFICES ASSUME NEW u \in Threads, NEW g \in Keys \ raced,
                      submitting'[u] = g, g # Idle, ~Overlapped(u, g)'
               PROVE  Live(g) = {}
    BY <1>1, <1>2 DEF LookUpHolds
  <2>1. u # t /\ submitting[u] = g /\ ~Overlapped(u, g)
    BY <1>1 DEF RegisterRefused, TypeOK, Overlapped
  <2> QED
    BY <2>1 DEF LookUpHolds
<1>5. EntriesLive' /\ LatestFound' /\ OnlyRegisteredEnd' /\ HookOfEnded' /\ LiveIsIndexed'
  BY <1>1, <1>2 DEF EntriesLive, LatestFound, OnlyRegisteredEnd, HookOfEnded, LiveIsIndexed
<1> QED
  BY <1>3, <1>4, <1>5

-----------------------------------------------------------------------------
(* A completion, the hook and shutdown() leave the registry and the        *)
(* look-ups alone, and nothing comes to life: what is said of live handles *)
(* stays true if the entries of those that live stay.                      *)
LEMMA LoopStep ==
  ASSUME DedupInv, TypeOK', UNCHANGED <<order, keyOf, submitting, lookedUp, raced>>,
         \A h \in Handles : done[h] => done'[h],
         \A k \in Keys : index[k] # NoHandle /\ ~done'[index[k]] => index'[k] = index[k]
  PROVE  LatestFound' /\ LiveIsIndexed' /\ LookUpHolds' /\ LookUpsPast'
<1> USE DEF DedupInv
<1>1. Registered' = Registered /\ \A h \in Registered : h \in Handles /\ h # NoHandle
  BY DedupAssumption DEF Registered, ToSet, TypeOK
<1>2. \A k \in Keys : Live(k)' \subseteq Live(k) /\ \A h \in Live(k)' : h \in Registered /\ ~done'[h]
  BY <1>1 DEF Live
<1>3. LatestFound'
  <2>1. \A i \in DOMAIN order : order[i] \in Registered
    BY DEF Registered, ToSet
  <2> QED
    BY <1>1, <2>1 DEF LatestFound
<1>4. LiveIsIndexed'
  BY <1>1, <1>2 DEF LiveIsIndexed
<1>5. LookUpHolds'
  BY <1>2 DEF LookUpHolds, Overlapped
<1>6. LookUpsPast'
  BY DEF LookUpsPast
<1> QED
  BY <1>3, <1>4, <1>5, <1>6

LEMMA CompleteStep ==
  ASSUME DedupInv, NEW h \in Handles, Complete(h)
  PROVE  DedupInv'
<1> USE DEF DedupInv
<1>1. TypeOK'
  BY DEF Complete, TypeOK
<1>2. \A g \in Handles : done'[g] = (g = h \/ done[g])
  BY DEF Complete, TypeOK
<1>3. Registered' = Registered
  BY DEF Complete, Registered
<1>4. EntriesLive'
  BY <1>2, <1>3, DedupAssumption DEF EntriesLive, Complete, TypeOK
<1>5. OnlyRegisteredEnd' /\ HookOfEnded'
  BY <1>2, <1>3 DEF OnlyRegisteredEnd, HookOfEnded, Complete
<1>6. LatestFound' /\ LiveIsIndexed' /\ LookUpHolds' /\ LookUpsPast'
  BY <1>1, <1>2, LoopStep DEF Complete
<1> QED
  BY <1>1, <1>4, <1>5, <1>6

LEMMA HookStep ==
  ASSUME DedupInv, Hook
  PROVE  DedupInv'
<1> USE DEF DedupInv
<1>1. completing \in Handles /\ completing \in Registered /\ done[completing]
  BY DEF Hook, HookOfEnded, TypeOK
<1>2. keyOf[completing] \in Keys \cup {NoKey}
  BY <1>1 DEF TypeOK
<1>3. \A k \in Keys : index'[k] = IF index[k] = completing THEN NoHandle ELSE index[k]
  BY <1>1, <1>2, DedupAssumption DEF Hook, Release, TypeOK, EntriesLive
<1>4. TypeOK'
  BY <1>1, <1>2 DEF Hook, Release, TypeOK
<1>5. Registered' = Registered
  BY DEF Hook, Registered
<1>6. EntriesLive'
  BY <1>3, <1>5 DEF EntriesLive, Hook
<1>7. OnlyRegisteredEnd' /\ HookOfEnded'
  BY <1>5 DEF OnlyRegisteredEnd, HookOfEnded, Hook
<1>8. LatestFound' /\ LiveIsIndexed' /\ LookUpHolds' /\ LookUpsPast'
  BY <1>1, <1>3, <1>4, LoopStep DEF Hook
<1> QED
  BY <1>4, <1>6, <1>7, <1>8

LEMMA ShutdownStep ==
  ASSUME DedupInv, Shutdown
  PROVE  DedupInv'
<1>1. /\ UNCHANGED <<order, keyOf, done, index, completing, submitting, lookedUp, raced>>
      /\ shutdown' = TRUE
  BY DEF Shutdown
<1>2. TypeOK'
  BY <1>1 DEF DedupInv, TypeOK
<1>3. EntriesLive' /\ OnlyRegisteredEnd' /\ HookOfEnded'
  BY <1>1 DEF DedupInv, EntriesLive, OnlyRegisteredEnd, HookOfEnded, Registered
<1>4. LatestFound' /\ LiveIsIndexed' /\ LookUpHolds' /\ LookUpsPast'
  BY <1>1, <1>2, LoopStep
<1> QED BY <1>2, <1>3, <1>4 DEF DedupInv

LEMMA StutterDedup ==
  ASSUME DedupInv, UNCHANGED vars
  PROVE  DedupInv'
BY DEF vars, DedupInv, TypeOK, EntriesLive, LatestFound, OnlyRegisteredEnd, HookOfEnded,
   LiveIsIndexed, LookUpHolds, LookUpsPast, Registered, Live, Overlapped

-----------------------------------------------------------------------------
(* The inductive invariant holds throughout.                               *)
THEOREM DedupInvariance == Spec => []DedupInv
<1>1. Init => DedupInv
  BY InitDedup
<1>2. DedupInv /\ [Next]_vars => DedupInv'
  BY LookUpStep, RegisterStep, RefusedStep, CompleteStep, HookStep, ShutdownStep, StutterDedup
     DEF Next
<1> QED
  BY <1>1, <1>2, PTL DEF Spec

(* find_active() answers with a terminal handle only between the status    *)
(* and the hook of that handle.                                            *)
THEOREM EntriesLiveAlways == Spec => []EntriesLive
<1>1. DedupInv => EntriesLive
  BY DEF DedupInv
<1> QED
  BY <1>1, DedupInvariance, PTL

(* The hook of an old handle never takes the entry of a newer one.         *)
THEOREM LatestFoundAlways == Spec => []LatestFound
<1>1. DedupInv => LatestFound
  BY DEF DedupInv
<1> QED
  BY <1>1, DedupInvariance, PTL

(* Only submissions that overlap get around deduplication.                 *)
THEOREM DeduplicatedUnlessRaced == Spec => []OneLiveUnlessRaced
<1>1. DedupInv => OneLiveUnlessRaced
  <2> SUFFICES ASSUME DedupInv, NEW k \in Keys \ raced
               PROVE  Cardinality(Live(k)) <= 1
    BY DEF OneLiveUnlessRaced
  <2>1. Live(k) \subseteq {index[k]}
    BY DEF DedupInv, LiveIsIndexed
  <2>2. IsFiniteSet({index[k]}) /\ Cardinality({index[k]}) = 1
    BY FS_Singleton
  <2> QED
    BY <2>1, <2>2, FS_Subset
<1> QED
  BY <1>1, DedupInvariance, PTL
=============================================================================
