------------------------- MODULE ScopeSessionProofs -------------------------
(***************************************************************************)
(* Theorems about CaptureStore and about ScopeSession, which uses it.      *)
(*                                                                         *)
(* The store, for every set of frames, every size, every budget and every  *)
(* set of labels, those that read like handles included.  The session,     *)
(* whatever mix of acquisitions, loops and management calls it consists    *)
(* of: the store's invariant holds throughout, and what a call returns     *)
(* with a frame is right of that frame.                                    *)
(***************************************************************************)
EXTENDS ScopeSession, FiniteSetTheorems, TLAPS

USE BudgetAssumption, BytesAssumption, PutsAssumption, FrameAssumption

-----------------------------------------------------------------------------
(* Byte accounting. *)

\* The bytes of entries with bounded numbers and sizes are a finite set, so
\* resident_bytes() is a number.
LEMMA OccupiedFinite ==
    ASSUME NEW E, NEW k \in Nat,
           DOMAIN E \subseteq 1..k,
           \A n \in DOMAIN E : E[n].bytes \in Nat /\ E[n].bytes <= Budget
    PROVE  IsFiniteSet(Occupied(E)) /\ ResidentBytes(E) \in Nat
<1>1. Occupied(E) \subseteq (1..k) \X (1..Budget)
  BY DEF Occupied
<1>2. IsFiniteSet((1..k) \X (1..Budget))
  <2>1. IsFiniteSet(1..k) /\ IsFiniteSet(1..Budget)
    BY FS_Interval
  <2>2. QED
    BY <2>1, FS_Product
<1>3. IsFiniteSet(Occupied(E))
  BY <1>1, <1>2, FS_Subset
<1>4. QED
  BY <1>3, FS_CardinalityType DEF ResidentBytes

\* Deleting entries never raises resident_bytes().
LEMMA RestrictedBytes ==
    ASSUME NEW E, NEW k \in Nat, NEW S \in SUBSET DOMAIN E,
           DOMAIN E \subseteq 1..k,
           \A n \in DOMAIN E : E[n].bytes \in Nat /\ E[n].bytes <= Budget
    PROVE  /\ ResidentBytes(Restricted(E, S)) \in Nat
           /\ ResidentBytes(Restricted(E, S)) <= ResidentBytes(E)
<1>1. Occupied(Restricted(E, S)) \subseteq Occupied(E)
  BY DEF Occupied, Restricted
<1>2. IsFiniteSet(Occupied(E)) /\ ResidentBytes(E) \in Nat
  BY OccupiedFinite
<1>3. IsFiniteSet(Occupied(Restricted(E, S)))
  BY <1>1, <1>2, FS_Subset
<1>4. QED
  BY <1>1, <1>2, <1>3, FS_Subset, FS_CardinalityType DEF ResidentBytes

\* Adding one entry raises resident_bytes() by at most its size.
LEMMA AddedBytes ==
    ASSUME NEW E, NEW D, NEW k \in Nat, NEW id \in 1..k, NEW b \in Nat,
           DOMAIN E \subseteq 1..k,
           \A n \in DOMAIN E : E[n].bytes \in Nat /\ E[n].bytes <= Budget,
           id \notin DOMAIN E,
           DOMAIN D = DOMAIN E \cup {id},
           D[id].bytes = b,
           \A n \in DOMAIN E : D[n].bytes = E[n].bytes
    PROVE  ResidentBytes(D) <= ResidentBytes(E) + b
<1> DEFINE fresh == {id} \X (1..b)
<1>1. Occupied(D) = Occupied(E) \cup fresh
  <2>1. \A x : x \in Occupied(D) <=> \E n \in DOMAIN D : x \in {n} \X (1..D[n].bytes)
    BY DEF Occupied
  <2>2. \A x : x \in Occupied(E) <=> \E n \in DOMAIN E : x \in {n} \X (1..E[n].bytes)
    BY DEF Occupied
  <2>3. \A n \in DOMAIN E : {n} \X (1..D[n].bytes) = {n} \X (1..E[n].bytes)
    OBVIOUS
  <2>4. {id} \X (1..D[id].bytes) = fresh
    OBVIOUS
  <2> HIDE DEF fresh
  <2>5. \A x : x \in Occupied(D) <=> x \in Occupied(E) \/ x \in fresh
    BY <2>1, <2>2, <2>3, <2>4
  <2>6. QED
    BY <2>5
<1>2. IsFiniteSet(Occupied(E)) /\ ResidentBytes(E) \in Nat
  BY OccupiedFinite
<1>3. IsFiniteSet(fresh) /\ Cardinality(fresh) = b
  <2>1. IsFiniteSet({id}) /\ Cardinality({id}) = 1
    BY FS_Singleton
  <2>2. IsFiniteSet(1..b) /\ Cardinality(1..b) = b
    <3>1. IsFiniteSet(1..b) /\ Cardinality(1..b) = IF 1 > b THEN 0 ELSE b - 1 + 1
      BY FS_Interval
    <3>2. QED
      BY <3>1
  <2>3. IsFiniteSet(fresh) /\ Cardinality(fresh) = 1 * b
    BY <2>1, <2>2, FS_Product
  <2>4. QED
    BY <2>3
<1> HIDE DEF fresh
<1>4. Cardinality(Occupied(E) \cap fresh) \in Nat
  <2>1. IsFiniteSet(Occupied(E) \cap fresh)
    BY <1>2, FS_Intersection
  <2>2. QED
    BY <2>1, FS_CardinalityType
<1>5. Cardinality(Occupied(D))
        = Cardinality(Occupied(E)) + b - Cardinality(Occupied(E) \cap fresh)
  BY <1>1, <1>2, <1>3, FS_Union
<1>6. Cardinality(Occupied(E)) \in Nat
  BY <1>2 DEF ResidentBytes
<1>7. Cardinality(Occupied(D)) <= Cardinality(Occupied(E)) + b
  BY <1>4, <1>5, <1>6
<1>8. QED
  BY <1>7 DEF ResidentBytes

-----------------------------------------------------------------------------
(* References. *)

\* _resolve only ever finds resident entries.
LEMMA ResolveLive ==
    ASSUME NEW ref, NEW n \in Resolve(ref)
    PROVE  n \in DOMAIN entries
BY DEF Resolve, ByHandle, ByLabel, Newest

\* cap-m is entry m while that is resident, and after that an entry labelled cap-m.
LEMMA ResolveHandle ==
    ASSUME NEW m, NEW n \in Resolve(CapId(m))
    PROVE  \/ n = m
           \/ m \notin DOMAIN entries /\ entries[n].label = CapId(m)
<1>1. CapId(m) # Latest /\ \A i : CapId(m) = CapId(i) => i = m
  BY DEF CapId, Latest
<1>2. CASE ByHandle(CapId(m)) # {}
  BY <1>1, <1>2 DEF Resolve, ByHandle
<1>3. CASE ByHandle(CapId(m)) = {}
  <2>1. m \notin DOMAIN entries
    BY <1>3 DEF ByHandle
  <2>2. entries[n].label = CapId(m)
    BY <1>1, <1>3 DEF Resolve, ByLabel, Newest
  <2>3. QED
    BY <2>1, <2>2
<1>4. QED
  BY <1>2, <1>3

-----------------------------------------------------------------------------
(* The invariant. *)

\* What the invariant gives about any entry.
LEMMA EntryFacts ==
    ASSUME StoreInv, NEW n \in DOMAIN entries
    PROVE  /\ n \in 1..counter
           /\ entries[n].frame \in Frames /\ entries[n].frame = issued[n]
           /\ entries[n].bytes \in Nat /\ entries[n].bytes <= Budget
           /\ entries[n].kept \in BOOLEAN
BY DEF StoreInv, TypeOK, EntriesFaithful, Entry

\* The values a call may answer.
ReplyOK == reply.value \in Frames \cup Errors \cup {"None"}

\* An answer is an exception, or the frame its reference resolves to.
LEMMA AnswerTyped ==
    ASSUME StoreInv, NEW call, NEW ref, NEW value, Answer(call, ref, value),
           \/ value \in Errors \cup {"None"}
           \/ \E n \in Resolve(ref) : value = entries[n].frame
    PROVE  ReplyOK'
<1>1. reply'.value = value
  BY DEF Answer
<1>2. ASSUME NEW n \in Resolve(ref), value = entries[n].frame
      PROVE  value \in Frames
  BY <1>2, ResolveLive, EntryFacts
<1>3. QED
  BY <1>1, <1>2 DEF ReplyOK

\* Evicting any entries keeps the invariant.
LEMMA EvictStep ==
    ASSUME StoreInv, NEW S \in SUBSET DOMAIN entries,
           entries' = Restricted(entries, S),
           UNCHANGED <<counter, issued>>, ReplyOK'
    PROVE  StoreInv'
<1>1. counter \in 0..MaxPuts /\ counter \in Nat /\ DOMAIN entries \subseteq 1..counter
  BY DEF StoreInv, TypeOK
<1>2. DOMAIN entries' = S /\ \A n \in S : entries'[n] = entries[n]
  BY DEF Restricted
<1>3. TypeOK'
  BY <1>1, <1>2 DEF StoreInv, TypeOK, ReplyOK, Restricted
<1>4. EntriesFaithful' /\ OneWorkingFrame'
  BY <1>2 DEF StoreInv, EntriesFaithful, OneWorkingFrame
<1>5. WithinBudget'
  <2>1. /\ ResidentBytes(Restricted(entries, S)) \in Nat
        /\ ResidentBytes(Restricted(entries, S)) <= ResidentBytes(entries)
    BY <1>1, EntryFacts, RestrictedBytes
  <2>2. ResidentBytes(entries) \in Nat /\ ResidentBytes(entries) <= Budget
    BY <1>1, EntryFacts, OccupiedFinite DEF StoreInv, WithinBudget
  <2>3. ResidentBytes(Restricted(entries, S)) <= Budget
    BY <2>1, <2>2
  <2>4. QED
    BY <2>3 DEF WithinBudget
<1>6. QED
  BY <1>3, <1>4, <1>5 DEF StoreInv

\* A call that only answers keeps the invariant.
LEMMA AnswerStep ==
    ASSUME StoreInv, UNCHANGED <<entries, counter, issued>>, ReplyOK'
    PROVE  StoreInv'
BY DEF StoreInv, TypeOK, EntriesFaithful, OneWorkingFrame, WithinBudget, ReplyOK

\* Promoting an entry keeps the invariant: its frame and its size stay.
LEMMA PromoteStep ==
    ASSUME StoreInv, NEW n \in DOMAIN entries, NEW label \in Labels \cup {NoLabel},
           entries' = [entries EXCEPT ![n] = Promoted(entries[n], label)],
           UNCHANGED <<counter, issued>>, ReplyOK'
    PROVE  StoreInv'
<1>1. entries \in [DOMAIN entries -> Entry]
  BY DEF StoreInv, TypeOK
<1>2. entries' = [m \in DOMAIN entries |->
                    IF m = n THEN Promoted(entries[n], label) ELSE entries[m]]
  BY <1>1
<1>3. DOMAIN entries' = DOMAIN entries
  BY <1>2
<1>4. \A m \in DOMAIN entries : /\ entries'[m] \in Entry
                                /\ entries'[m].frame = entries[m].frame
                                /\ entries'[m].bytes = entries[m].bytes
                                /\ entries[m].kept => entries'[m].kept
  BY <1>1, <1>2 DEF Entry, Promoted
<1>5. TypeOK'
  <2>1. entries' \in [DOMAIN entries' -> Entry]
    BY <1>2, <1>3, <1>4
  <2>2. QED
    BY <1>3, <2>1 DEF StoreInv, TypeOK, ReplyOK
<1>6. EntriesFaithful' /\ OneWorkingFrame'
  BY <1>3, <1>4 DEF StoreInv, EntriesFaithful, OneWorkingFrame
<1>7. WithinBudget'
  <2>1. Occupied(entries') = Occupied(entries)
    BY <1>3, <1>4 DEF Occupied
  <2>2. QED
    BY <2>1 DEF StoreInv, WithinBudget, ResidentBytes
<1>8. QED
  BY <1>5, <1>6, <1>7 DEF StoreInv

\* Storing a frame keeps the invariant: the new entry fits next to the kept
\* ones, its number is fresh, and it is the only one that may be unkept.
LEMMA PutStoredStep ==
    ASSUME StoreInv, NEW f \in Frames, NEW keep \in BOOLEAN,
           NEW label \in Labels \cup {NoLabel}, PutStored(f, keep, label)
    PROVE  StoreInv'
<1> DEFINE id   == counter + 1
           rest == KeptOnly(entries)
           new  == [frame |-> f, bytes |-> FrameBytes[f], kept |-> keep, label |-> label]
<1>1. /\ counter \in Nat /\ id \in 1..MaxPuts /\ counter' = id
      /\ DOMAIN entries \subseteq 1..counter
      /\ issued \in [1..counter -> Frames]
  BY DEF StoreInv, TypeOK, PutStored
<1>2. /\ entries' = [n \in DOMAIN rest \cup {id} |-> IF n = id THEN new ELSE rest[n]]
      /\ issued' = [n \in DOMAIN issued \cup {id} |->
                        IF n \in DOMAIN issued THEN issued[n] ELSE f]
      /\ reply' = [call |-> "put", ref |-> CapId(id), value |-> f]
  BY DEF PutStored, NextId, Answer
<1>3. /\ DOMAIN rest = {n \in DOMAIN entries : entries[n].kept}
      /\ \A n \in DOMAIN rest : rest[n] = entries[n]
  BY DEF KeptOnly, Restricted
<1>4. id \notin DOMAIN rest /\ id \notin 1..counter /\ 1..id = (1..counter) \cup {id}
  BY <1>1, <1>3
<1>5. new \in Entry /\ FrameBytes[f] \in Nat /\ FrameBytes[f] <= Budget
  BY DEF Entry, PutStored
<1> HIDE DEF rest, new
<1>6. DOMAIN entries' = DOMAIN rest \cup {id} /\ entries'[id] = new
      /\ \A n \in DOMAIN rest : entries'[n] = entries[n]
  BY <1>2, <1>3, <1>4
<1>7. /\ issued' \in [1..id -> Frames] /\ issued'[id] = f
      /\ \A n \in 1..counter : issued'[n] = issued[n]
  BY <1>1, <1>2, <1>4
<1>8. TypeOK'
  <2>1. counter' \in 0..MaxPuts /\ DOMAIN entries' \subseteq 1..counter'
    BY <1>1, <1>3, <1>6
  <2>2. entries' \in [DOMAIN entries' -> Entry]
    <3>1. \A n \in DOMAIN entries' : entries'[n] \in Entry
      BY <1>3, <1>5, <1>6 DEF StoreInv, TypeOK
    <3>2. QED
      BY <1>2, <3>1
  <2>3. reply'.value \in Frames
    BY <1>2
  <2>4. QED
    BY <1>1, <1>7, <2>1, <2>2, <2>3 DEF TypeOK
<1>9. EntriesFaithful'
  <2>1. new.frame = f /\ new.bytes = FrameBytes[f]
    BY DEF new
  <2>2. ASSUME NEW n \in DOMAIN rest
        PROVE  entries'[n].frame = issued'[n] /\ entries'[n].bytes <= Budget
    BY <1>3, <1>6, <1>7, EntryFacts
  <2>3. QED
    BY <1>5, <1>6, <1>7, <2>1, <2>2 DEF EntriesFaithful
<1>10. OneWorkingFrame'
  BY <1>1, <1>3, <1>6 DEF OneWorkingFrame
<1>11. WithinBudget'
  <2>1. ResidentBytes(rest) \in Nat /\ ResidentBytes(rest) + FrameBytes[f] <= Budget
    <3>1. \A n \in DOMAIN rest : rest[n].bytes \in Nat /\ rest[n].bytes <= Budget
      BY <1>3, EntryFacts
    <3>2. DOMAIN rest \subseteq 1..counter
      BY <1>1, <1>3
    <3>3. ResidentBytes(rest) \in Nat
      BY <1>1, <3>1, <3>2, OccupiedFinite
    <3>4. QED
      BY <3>3 DEF PutStored, Fits, rest
  <2>2. ResidentBytes(entries') <= ResidentBytes(rest) + FrameBytes[f]
    <3>1. id \in Nat /\ id \in 1..id /\ DOMAIN rest \subseteq 1..id
      BY <1>1, <1>3
    <3>2. \A n \in DOMAIN rest : rest[n].bytes \in Nat /\ rest[n].bytes <= Budget
      BY <1>3, EntryFacts
    <3>3. DOMAIN entries' = DOMAIN rest \cup {id} /\ id \notin DOMAIN rest
      BY <1>4, <1>6
    <3>4. entries'[id].bytes = FrameBytes[f] /\ FrameBytes[f] \in Nat
      BY <1>5, <1>6 DEF new
    <3>5. \A n \in DOMAIN rest : entries'[n].bytes = rest[n].bytes
      BY <1>3, <1>6
    <3> HIDE DEF id
    <3>6. QED
      BY <3>1, <3>2, <3>3, <3>4, <3>5, AddedBytes
  <2>3. ResidentBytes(entries') \in Nat
    <3>1. \A n \in DOMAIN entries' : entries'[n].bytes \in Nat /\ entries'[n].bytes <= Budget
      BY <1>8, <1>9 DEF TypeOK, Entry, EntriesFaithful
    <3>2. DOMAIN entries' \subseteq 1..id /\ id \in Nat
      BY <1>1, <1>8 DEF TypeOK
    <3>3. QED
      BY <3>1, <3>2, OccupiedFinite
  <2>4. ResidentBytes(entries') <= Budget
    BY <1>5, <2>1, <2>2, <2>3
  <2>5. QED
    BY <2>4 DEF WithinBudget
<1>12. QED
  BY <1>8, <1>9, <1>10, <1>11 DEF StoreInv

\* The store is well typed, its entries are what was put, only the last frame
\* put can be a working frame, and it stays within its byte budget, whatever
\* calls arrive in whatever order.
THEOREM StoreInvariant == Spec => []StoreInv
<1>1. Init => StoreInv
  <2> SUFFICES ASSUME Init PROVE StoreInv
    OBVIOUS
  <2>1. TypeOK /\ EntriesFaithful /\ OneWorkingFrame
    BY DEF Init, TypeOK, EntriesFaithful, OneWorkingFrame, Entry
  <2>2. WithinBudget
    <3>1. Occupied(entries) = {}
      BY DEF Init, Occupied
    <3>2. QED
      BY <3>1, FS_EmptySet DEF WithinBudget, ResidentBytes
  <2>3. QED
    BY <2>1, <2>2 DEF StoreInv
<1>2. StoreInv /\ [Next]_vars => StoreInv'
  <2> SUFFICES ASSUME StoreInv, [Next]_vars PROVE StoreInv'
    OBVIOUS
  <2>0. counter \in Nat /\ DOMAIN entries \subseteq 1..counter
    BY DEF StoreInv, TypeOK
  <2>1. ASSUME NEW call, NEW ref, Unknown(call, ref)
        PROVE  StoreInv'
    <3>1. ReplyOK'
      BY <2>1, AnswerTyped DEF Unknown, Errors
    <3>2. QED
      BY <2>1, <3>1, AnswerStep DEF Unknown
  <2>2. ASSUME NEW f \in Frames, NEW keep \in BOOLEAN,
               NEW label \in Labels \cup {NoLabel}, Put(f, keep, label)
        PROVE  StoreInv'
    <3>1. CASE PutOversized(f)
      <4>1. ReplyOK'
        BY <3>1, AnswerTyped DEF PutOversized, Errors
      <4>2. QED
        BY <3>1, <4>1, AnswerStep DEF PutOversized
    <3>2. CASE PutRefused(f)
      <4>1. ReplyOK'
        BY <3>2, AnswerTyped DEF PutRefused, Errors
      <4>2. QED
        BY <3>2, <4>1, EvictStep DEF PutRefused, KeptOnly
    <3>3. CASE PutStored(f, keep, label)
      BY <3>3, PutStoredStep
    <3>4. QED
      BY <2>2, <3>1, <3>2, <3>3 DEF Put
  <2>3. ASSUME NEW ref \in Refs, Get(ref)
        PROVE  StoreInv'
    <3>1. ASSUME NEW n \in Resolve(ref), Answer("get", ref, entries[n].frame),
                 UNCHANGED <<entries, counter, issued>>
          PROVE  StoreInv'
      <4>1. ReplyOK'
        BY <3>1, AnswerTyped
      <4>2. QED
        BY <3>1, <4>1, AnswerStep
    <3>2. QED
      BY <2>1, <2>3, <3>1 DEF Get
  <2>4. ASSUME NEW ref \in Refs, Drop(ref)
        PROVE  StoreInv'
    <3>1. ASSUME NEW n \in Resolve(ref), Answer("drop", ref, entries[n].frame),
                 entries' = Restricted(entries, DOMAIN entries \ {n}),
                 UNCHANGED <<counter, issued>>
          PROVE  StoreInv'
      <4>1. ReplyOK'
        BY <3>1, AnswerTyped
      <4>2. QED
        BY <3>1, <4>1, EvictStep
    <3>2. QED
      BY <2>1, <2>4, <3>1 DEF Drop
  <2>5. ASSUME NEW ref \in Refs, NEW label \in Labels \cup {NoLabel}, Keep(ref, label)
        PROVE  StoreInv'
    <3>1. ASSUME NEW n \in Resolve(ref), Answer("keep", ref, entries[n].frame),
                 entries' = [entries EXCEPT ![n] = Promoted(entries[n], label)],
                 UNCHANGED <<counter, issued>>
          PROVE  StoreInv'
      <4>1. ReplyOK'
        BY <3>1, AnswerTyped
      <4>2. n \in DOMAIN entries
        BY ResolveLive
      <4>3. QED
        BY <3>1, <4>1, <4>2, PromoteStep
    <3>2. QED
      BY <2>1, <2>5, <3>1 DEF Keep
  <2>6. CASE ClearEphemeral
    <3>1. ReplyOK'
      BY <2>6, AnswerTyped DEF ClearEphemeral
    <3>2. QED
      BY <2>6, <3>1, EvictStep DEF ClearEphemeral, KeptOnly
  <2>7. CASE Clear
    <3>1. ReplyOK'
      BY <2>7, AnswerTyped DEF Clear
    <3>2. QED
      BY <2>7, <3>1, EvictStep DEF Clear
  <2>8. CASE UNCHANGED vars
    BY <2>8 DEF vars, StoreInv, TypeOK, EntriesFaithful, OneWorkingFrame,
                WithinBudget
  <2>9. QED
    BY <2>2, <2>3, <2>4, <2>5, <2>6, <2>7, <2>8 DEF Next
<1>3. QED
  BY <1>1, <1>2, PTL DEF Spec

\* The store never holds more bytes than its budget (store.py:16).
THEOREM BudgetRespected == Spec => []WithinBudget
<1>1. StoreInv => WithinBudget
  BY DEF StoreInv
<1>2. QED
  BY <1>1, StoreInvariant, PTL

\* Every variable of the store has its type; no handle is above the counter.
THEOREM StoreTypes == Spec => []TypeOK
<1>1. StoreInv => TypeOK
  BY DEF StoreInv
<1>2. QED
  BY <1>1, StoreInvariant, PTL

\* Only the last frame put can be unkept (store.py:18).
THEOREM WorkingFrameUnique == Spec => []OneWorkingFrame
<1>1. StoreInv => OneWorkingFrame
  BY DEF StoreInv
<1>2. QED
  BY <1>1, StoreInvariant, PTL

-----------------------------------------------------------------------------
(* Handles. *)

\* A call that names cap-N acts on the frame put returned cap-N for, or, once that
\* is gone, on one labelled cap-N, or raises (store.py:181-193), whatever the labels.
THEOREM HandlesAreStable == Spec => HandleStable
<1> DEFINE Right(n) ==
        \/ n \in DOMAIN issued' /\ reply'.value = issued'[n]
        \/ /\ n \notin DOMAIN entries
           /\ \E m \in DOMAIN entries :
                 entries[m].label = CapId(n) /\ entries[m].frame = reply'.value
<1> DEFINE Stable == \A n \in 0..MaxPuts : NamesHandle(n) => Right(n)
<1>1. StoreInv /\ [Next]_vars => [Stable]_vars
  <2> SUFFICES ASSUME StoreInv, Next, NEW m \in 0..MaxPuts, NamesHandle(m) PROVE Right(m)
    OBVIOUS
  <2>1. reply'.ref = CapId(m) /\ reply'.value \in Frames /\ reply'.value \notin Errors \cup {"None"}
    BY DEF NamesHandle
  <2>2. ASSUME NEW call, NEW ref, UNCHANGED issued, NEW n \in Resolve(ref),
               Answer(call, ref, entries[n].frame)
        PROVE  Right(m)
    <3>1. ref = CapId(m) /\ reply'.value = entries[n].frame
      BY <2>1, <2>2 DEF Answer
    <3>2. n \in DOMAIN entries /\ entries[n].frame = issued[n] /\ n \in DOMAIN issued
      BY <2>2, ResolveLive, EntryFacts DEF StoreInv, TypeOK
    <3>3. n = m \/ (m \notin DOMAIN entries /\ entries[n].label = CapId(m))
      BY <2>2, <3>1, ResolveHandle
    <3>4. QED
      BY <2>2, <3>1, <3>2, <3>3
  <2>3. ASSUME NEW call, NEW ref, Unknown(call, ref)
        PROVE  FALSE
    BY <2>1, <2>3 DEF Unknown, Answer, Errors
  <2>4. ASSUME NEW f \in Frames, NEW keep \in BOOLEAN,
               NEW label \in Labels \cup {NoLabel}, Put(f, keep, label)
        PROVE  Right(m)
    <3>1. ~PutOversized(f) /\ ~PutRefused(f)
      BY <2>1 DEF PutOversized, PutRefused, Answer, Errors
    <3>2. PutStored(f, keep, label)
      BY <2>4, <3>1 DEF Put
    <3>3. issued \in [1..counter -> Frames] /\ counter \in Nat
      BY DEF StoreInv, TypeOK
    <3>4. /\ issued' = [n \in DOMAIN issued \cup {counter + 1} |->
                           IF n \in DOMAIN issued THEN issued[n] ELSE f]
          /\ reply'.ref = CapId(counter + 1) /\ reply'.value = f
      BY <3>2 DEF PutStored, NextId, Answer
    <3>5. m = counter + 1
      BY <2>1, <3>4 DEF CapId
    <3>6. QED
      BY <3>3, <3>4, <3>5
  <2>5. ASSUME NEW ref \in Refs, Get(ref) \/ Drop(ref)
        PROVE  Right(m)
    BY <2>2, <2>3, <2>5 DEF Get, Drop
  <2>6. ASSUME NEW ref \in Refs, NEW label \in Labels \cup {NoLabel}, Keep(ref, label)
        PROVE  Right(m)
    BY <2>2, <2>3, <2>6 DEF Keep
  <2>7. ~ClearEphemeral /\ ~Clear
    BY <2>1 DEF ClearEphemeral, Clear, Answer
  <2>8. QED
    BY <2>4, <2>5, <2>6, <2>7 DEF Next
<1>2. QED
  BY <1>1, StoreInvariant, PTL DEF Spec, HandleStable

-----------------------------------------------------------------------------
(* Kept frames. *)

\* What a step may do to a kept frame: nothing, or clear it away, or drop it by
\* a reference that names it.
LEMMA KeptStep ==
    ASSUME StoreInv, Next, NEW n \in DOMAIN entries, entries[n].kept
    PROVE  \/ /\ n \in DOMAIN entries'
              /\ entries'[n].kept /\ entries'[n].frame = entries[n].frame
           \/ n \notin DOMAIN entries' /\ reply'.call = "clear"
           \/ /\ n \notin DOMAIN entries'
              /\ reply'.call = "drop" /\ reply'.ref \in {CapId(n), Latest, entries[n].label}
<1>1. ASSUME NEW S \in SUBSET DOMAIN entries, n \in S, entries' = Restricted(entries, S)
      PROVE  /\ n \in DOMAIN entries'
             /\ entries'[n].kept /\ entries'[n].frame = entries[n].frame
  BY <1>1 DEF Restricted
<1>2. entries' = KeptOnly(entries)
        => /\ n \in DOMAIN entries'
           /\ entries'[n].kept /\ entries'[n].frame = entries[n].frame
  BY <1>1 DEF KeptOnly
<1>3. ASSUME NEW f \in Frames, NEW keep \in BOOLEAN,
             NEW label \in Labels \cup {NoLabel}, PutStored(f, keep, label)
      PROVE  /\ n \in DOMAIN entries'
             /\ entries'[n].kept /\ entries'[n].frame = entries[n].frame
  <2> DEFINE rest == KeptOnly(entries)
             new  == [frame |-> f, bytes |-> FrameBytes[f], kept |-> keep, label |-> label]
  <2>1. n \in DOMAIN rest /\ rest[n] = entries[n]
    BY DEF KeptOnly, Restricted
  <2>2. n # counter + 1
    BY EntryFacts DEF StoreInv, TypeOK
  <2>3. entries' = [m \in DOMAIN rest \cup {counter + 1} |->
                       IF m = counter + 1 THEN new ELSE rest[m]]
    BY <1>3 DEF PutStored, NextId
  <2> HIDE DEF rest, new
  <2>4. QED
    BY <2>1, <2>2, <2>3
<1>4. ASSUME NEW ref \in Refs, NEW m \in Resolve(ref), Answer("drop", ref, entries[m].frame),
             entries' = Restricted(entries, DOMAIN entries \ {m})
      PROVE  \/ /\ n \in DOMAIN entries'
                /\ entries'[n].kept /\ entries'[n].frame = entries[n].frame
             \/ /\ n \notin DOMAIN entries'
                /\ reply'.call = "drop" /\ reply'.ref \in {CapId(n), Latest, entries[n].label}
  <2>1. CASE n # m
    BY <1>1, <1>4, <2>1
  <2>2. CASE n = m
    <3>1. ref \in {CapId(n), Latest, entries[n].label}
      BY <2>2 DEF Resolve, ByHandle, ByLabel, Newest
    <3>2. QED
      BY <1>4, <2>2, <3>1 DEF Answer, Restricted
  <2>3. QED
    BY <2>1, <2>2
<1>5. ASSUME UNCHANGED entries
      PROVE  /\ n \in DOMAIN entries'
             /\ entries'[n].kept /\ entries'[n].frame = entries[n].frame
  BY <1>5
<1>6. ASSUME NEW m \in DOMAIN entries, NEW label,
             entries' = [entries EXCEPT ![m] = Promoted(entries[m], label)]
      PROVE  /\ n \in DOMAIN entries'
             /\ entries'[n].kept /\ entries'[n].frame = entries[n].frame
  BY <1>6 DEF Promoted
<1>7. ASSUME NEW f \in Frames, NEW keep \in BOOLEAN,
             NEW label \in Labels \cup {NoLabel}, Put(f, keep, label)
      PROVE  /\ n \in DOMAIN entries'
             /\ entries'[n].kept /\ entries'[n].frame = entries[n].frame
  BY <1>2, <1>3, <1>5, <1>7 DEF Put, PutOversized, PutRefused
<1>8. ASSUME NEW ref \in Refs, Get(ref)
      PROVE  /\ n \in DOMAIN entries'
             /\ entries'[n].kept /\ entries'[n].frame = entries[n].frame
  BY <1>5, <1>8 DEF Get, Unknown
<1>9. ASSUME NEW ref \in Refs, Drop(ref)
      PROVE  \/ /\ n \in DOMAIN entries'
                /\ entries'[n].kept /\ entries'[n].frame = entries[n].frame
             \/ /\ n \notin DOMAIN entries'
                /\ reply'.call = "drop" /\ reply'.ref \in {CapId(n), Latest, entries[n].label}
  BY <1>4, <1>5, <1>9 DEF Drop, Unknown
<1>10. ASSUME NEW ref \in Refs, NEW label \in Labels \cup {NoLabel}, Keep(ref, label)
       PROVE  /\ n \in DOMAIN entries'
              /\ entries'[n].kept /\ entries'[n].frame = entries[n].frame
  BY <1>5, <1>6, <1>10, ResolveLive DEF Keep, Unknown
<1>11. CASE ClearEphemeral
  BY <1>2, <1>11 DEF ClearEphemeral
<1>12. CASE Clear
  BY <1>12 DEF Clear, Answer, Restricted
<1>13. QED
  BY <1>7, <1>8, <1>9, <1>10, <1>11, <1>12 DEF Next

\* A kept frame leaves the store only by clear, or by a drop that names it by
\* its handle, its label or "latest" (store.py:19): no put, stored or refused,
\* evicts it, and no step demotes it or swaps its frame.
THEOREM KeptFramesStay == Spec => KeptNeverSilentlyLost
<1>1. StoreInv /\ [Next]_vars => [KeptUntilDropped]_vars
  BY KeptStep DEF KeptUntilDropped
<1>2. QED
  BY <1>1, StoreInvariant, PTL DEF Spec, KeptNeverSilentlyLost

\* A put that raises is right to, and every kept frame is still there as it was
\* (store.py:89-105).
THEOREM RefusalsAreHonest == Spec => RefusalIsHonest
<1> DEFINE Honest == Refused =>
              LET size == FrameBytes[reply'.ref]
              IN  \/ size > Budget /\ entries' = entries
                  \/ /\ DOMAIN entries' = KeptBefore
                     /\ \A n \in KeptBefore : entries'[n] = entries[n]
                     /\ ResidentBytes(entries') + size > Budget
<1>1. StoreInv /\ [Next]_vars => [Honest]_vars
  <2> SUFFICES ASSUME StoreInv, Next, Refused PROVE Honest
    OBVIOUS
  <2>0. ASSUME NEW call, NEW ref, NEW value, Answer(call, ref, value)
        PROVE  reply'.call = call
    BY <2>0 DEF Answer
  <2>1. PICK f \in Frames : PutOversized(f) \/ PutRefused(f)
    <3>1. ~Clear /\ ~ClearEphemeral
      BY DEF Refused, Clear, ClearEphemeral, Answer
    <3>2. ASSUME NEW ref \in Refs PROVE ~Get(ref) /\ ~Drop(ref)
      <4>1. Get(ref) => reply'.call = "get"
        BY <2>0 DEF Get, Unknown
      <4>2. Drop(ref) => reply'.call = "drop"
        BY <2>0 DEF Drop, Unknown
      <4>3. QED
        BY <4>1, <4>2 DEF Refused
    <3>3. ASSUME NEW ref \in Refs, NEW label \in Labels \cup {NoLabel}
          PROVE  ~Keep(ref, label)
      <4>1. Keep(ref, label) => reply'.call = "keep"
        BY <2>0 DEF Keep, Unknown
      <4>2. QED
        BY <4>1 DEF Refused
    <3>4. PICK f \in Frames, keep \in BOOLEAN, label \in Labels \cup {NoLabel} :
             Put(f, keep, label)
      BY <3>1, <3>2, <3>3 DEF Next
    <3>5. ~PutStored(f, keep, label)
      BY DEF Refused, PutStored, Answer, Errors
    <3>6. QED
      BY <3>4, <3>5 DEF Put
  <2>2. reply'.ref = f
    BY <2>1 DEF PutOversized, PutRefused, Answer
  <2>3. CASE PutOversized(f)
    BY <2>2, <2>3 DEF PutOversized
  <2>4. CASE PutRefused(f)
    <3>1. entries' = KeptOnly(entries) /\ DOMAIN KeptOnly(entries) = KeptBefore
      BY <2>4 DEF PutRefused, KeptOnly, Restricted, KeptBefore
    <3>2. \A n \in KeptBefore : entries'[n] = entries[n]
      BY <3>1 DEF KeptOnly, Restricted, KeptBefore
    <3>3. ResidentBytes(KeptOnly(entries)) \in Nat
      <4>1. counter \in Nat /\ DOMAIN entries \subseteq 1..counter
        BY DEF StoreInv, TypeOK
      <4>2. QED
        BY <4>1, EntryFacts, RestrictedBytes DEF KeptOnly
    <3>4. ResidentBytes(entries') + FrameBytes[f] > Budget
      BY <2>4, <3>1, <3>3 DEF PutRefused, Fits
    <3>5. QED
      BY <2>2, <3>1, <3>2, <3>4
  <2>5. QED
    BY <2>1, <2>3, <2>4
<1>2. QED
  BY <1>1, StoreInvariant, PTL DEF Spec, RefusalIsHonest

-----------------------------------------------------------------------------
(* The abstract archive. *)

\* The store implements the archive of bound, live and pinned handles, whatever
\* the labels: a get that is answered by the handle it names, or for which nothing
\* is found, asks the archive; one answered by a label does not.
THEOREM StoreImplementsArchive == Spec => ImplementsArchive
<1>1. Init => Archive!Init
  BY DEF Init, Archive!Init, ArchiveAnswer, AsksArchive
<1>2. StoreInv /\ [Next]_vars => [Archive!Next]_(Archive!vars)
  <2> SUFFICES ASSUME StoreInv, [Next]_vars PROVE [Archive!Next]_(Archive!vars)
    OBVIOUS
  <2> DEFINE pinned == {n \in DOMAIN entries : entries[n].kept}
  <2>1. DOMAIN entries \subseteq 1..counter /\ counter \in 0..MaxPuts
        /\ issued \in [1..counter -> Frames]
    BY DEF StoreInv, TypeOK
  <2>2. ASSUME NEW call, NEW ref, NEW value, Answer(call, ref, value), call # "get"
        PROVE  ArchiveAnswer' = <<"none">>
    BY <2>2 DEF Answer, ArchiveAnswer, AsksArchive
  <2>3. ASSUME UNCHANGED <<entries, counter, issued>>, ArchiveAnswer' = <<"none">>
        PROVE  Archive!Next
    BY <2>3 DEF Archive!Next, Archive!Other
  <2>4. ASSUME entries' = KeptOnly(entries), UNCHANGED issued, ArchiveAnswer' = <<"none">>
        PROVE  Archive!Next
    <3>1. DOMAIN entries' = pinned /\ pinned' = pinned
      BY <2>4 DEF KeptOnly, Restricted
    <3>2. QED
      BY <2>4, <3>1 DEF Archive!Next, Archive!Supersede
  <2>5. ASSUME NEW S \in SUBSET DOMAIN entries, UNCHANGED issued,
               entries' = Restricted(entries, DOMAIN entries \ S),
               ArchiveAnswer' = <<"none">>
        PROVE  Archive!Retire(S)
    <3>1. DOMAIN entries' = DOMAIN entries \ S /\ pinned' = pinned \ S
      BY <2>5 DEF Restricted
    <3>2. QED
      BY <2>5, <3>1 DEF Archive!Retire
  <2>6. ASSUME NEW f \in Frames, NEW keep \in BOOLEAN,
               NEW label \in Labels \cup {NoLabel}, PutStored(f, keep, label)
        PROVE  Archive!Next
    <3> DEFINE id   == counter + 1
               rest == KeptOnly(entries)
               new  == [frame |-> f, bytes |-> FrameBytes[f], kept |-> keep, label |-> label]
    <3>1. DOMAIN rest = pinned /\ \A n \in pinned : rest[n].kept
      BY DEF KeptOnly, Restricted
    <3>2. /\ entries' = [n \in DOMAIN rest \cup {id} |-> IF n = id THEN new ELSE rest[n]]
          /\ issued' = [n \in DOMAIN issued \cup {id} |->
                            IF n \in DOMAIN issued THEN issued[n] ELSE f]
          /\ id \in 0..MaxPuts /\ ArchiveAnswer' = <<"none">>
      BY <2>1, <2>2, <2>6 DEF PutStored, NextId
    <3>3. id \notin DOMAIN issued /\ id \notin pinned
      BY <2>1
    <3>4. new.kept = keep
      OBVIOUS
    <3> HIDE DEF rest, new, id
    <3>5. DOMAIN entries' = pinned \cup {id}
      BY <3>1, <3>2
    <3>6. pinned' = IF keep THEN pinned \cup {id} ELSE pinned
      <4>1. \A n \in pinned : entries'[n].kept
        BY <3>1, <3>2, <3>3
      <4>2. entries'[id].kept = keep
        BY <3>2, <3>4
      <4> HIDE DEF pinned
      <4>3. pinned' = {n \in pinned \cup {id} : entries'[n].kept}
        BY <3>5 DEF pinned
      <4>4. QED
        BY <3>3, <4>1, <4>2, <4>3
    <3>7. issued' = [n \in DOMAIN issued \cup {id} |-> IF n = id THEN f ELSE issued[n]]
      BY <3>2, <3>3
    <3>8. Archive!Issue(id, f)
      BY <3>2, <3>3, <3>5, <3>6, <3>7 DEF Archive!Issue
    <3>9. QED
      BY <3>2, <3>8 DEF Archive!Next
  <2>7. ASSUME NEW ref \in Refs, Get(ref)
        PROVE  Archive!Next
    <3>1. CASE \E n \in 0..MaxPuts : ref = CapId(n)
      <4>1. PICK n \in 0..MaxPuts : ref = CapId(n)
        BY <3>1
      <4>2. UNCHANGED <<entries, issued>> /\ reply'.call = "get" /\ reply'.ref = ref
        BY <2>7 DEF Get, Unknown, Answer
      <4>3. HandleOf(CapId(n)) = n /\ n \in 0..MaxPuts
        BY DEF HandleOf, CapId
      <4>4. CASE n \in DOMAIN entries
        <5>1. Resolve(ref) = {n}
          BY <4>1, <4>4 DEF Resolve, ByHandle, CapId, Latest
        <5>2. reply'.value = issued[n] /\ issued[n] \in Frames /\ issued[n] # "KeyError"
          BY <2>7, <4>4, <5>1, EntryFacts DEF Get, Unknown, Answer, Errors
        <5>3. ArchiveAnswer' = <<n, issued[n]>>
          BY <4>1, <4>2, <4>3, <4>4, <5>2 DEF ArchiveAnswer, AsksArchive
        <5>4. QED
          BY <4>2, <4>4, <5>3 DEF Archive!Ask, Archive!Next
      <4>5. CASE n \notin DOMAIN entries /\ reply'.value = "KeyError"
        <5>1. ArchiveAnswer' = <<n, "gone">>
          BY <4>1, <4>2, <4>3, <4>5 DEF ArchiveAnswer, AsksArchive
        <5>2. QED
          BY <4>2, <4>5, <5>1 DEF Archive!Ask, Archive!Next
      <4>6. CASE n \notin DOMAIN entries /\ reply'.value # "KeyError"
        <5>1. ArchiveAnswer' = <<"none">>
          BY <4>1, <4>2, <4>3, <4>6 DEF ArchiveAnswer, AsksArchive
        <5>2. QED
          BY <2>3, <2>7, <5>1 DEF Get, Unknown
      <4>7. QED
        BY <4>4, <4>5, <4>6
    <3>2. CASE ~ \E n \in 0..MaxPuts : ref = CapId(n)
      <4>1. UNCHANGED <<entries, counter, issued>> /\ reply'.ref = ref
        BY <2>7 DEF Get, Unknown, Answer
      <4>2. ArchiveAnswer' = <<"none">>
        BY <3>2, <4>1 DEF ArchiveAnswer, AsksArchive
      <4>3. QED
        BY <2>3, <4>1, <4>2
    <3>3. QED
      BY <3>1, <3>2
  <2>8. ASSUME NEW call, call # "get", NEW ref, Unknown(call, ref)
        PROVE  Archive!Next
    BY <2>2, <2>3, <2>8 DEF Unknown
  <2>9. ASSUME NEW ref \in Refs, Drop(ref)
        PROVE  Archive!Next
    <3>1. ASSUME NEW n \in Resolve(ref), Answer("drop", ref, entries[n].frame),
                 entries' = Restricted(entries, DOMAIN entries \ {n}),
                 UNCHANGED <<counter, issued>>
          PROVE  Archive!Next
      <4>1. n \in DOMAIN entries /\ n \in 0..MaxPuts
        BY <2>1, ResolveLive
      <4>2. Archive!Retire({n})
        BY <2>2, <2>5, <3>1, <4>1
      <4>3. QED
        BY <4>1, <4>2 DEF Archive!Next
    <3>2. QED
      BY <2>8, <2>9, <3>1 DEF Drop
  <2>10. ASSUME NEW ref \in Refs, NEW label \in Labels \cup {NoLabel}, Keep(ref, label)
         PROVE  Archive!Next
    <3>1. ASSUME NEW n \in Resolve(ref), Answer("keep", ref, entries[n].frame),
                 entries' = [entries EXCEPT ![n] = Promoted(entries[n], label)],
                 UNCHANGED <<counter, issued>>
          PROVE  Archive!Next
      <4>1. n \in DOMAIN entries /\ n \in 0..MaxPuts
        BY <2>1, ResolveLive
      <4>2. DOMAIN entries' = DOMAIN entries /\ entries'[n].kept
            /\ \A m \in DOMAIN entries \ {n} : entries'[m] = entries[m]
        BY <3>1, <4>1 DEF Promoted
      <4>3. pinned' = pinned \cup {n}
        BY <4>1, <4>2
      <4>4. ArchiveAnswer' = <<"none">>
        BY <2>2, <3>1
      <4>5. Archive!Pin(n)
        BY <3>1, <4>1, <4>2, <4>3, <4>4 DEF Archive!Pin
      <4>6. QED
        BY <4>1, <4>5 DEF Archive!Next
    <3>2. QED
      BY <2>8, <2>10, <3>1 DEF Keep
  <2>11. CASE ClearEphemeral
    BY <2>2, <2>4, <2>11 DEF ClearEphemeral
  <2>12. CASE Clear
    <3>1. entries' = Restricted(entries, {}) /\ UNCHANGED issued
      BY <2>12 DEF Clear
    <3>2. ArchiveAnswer' = <<"none">>
      BY <2>2, <2>12 DEF Clear
    <3>3. DOMAIN entries' = {} /\ pinned' = {} /\ pinned \ DOMAIN entries = {}
      BY <3>1 DEF Restricted
    <3>4. Archive!Retire(DOMAIN entries)
      BY <3>1, <3>2, <3>3 DEF Archive!Retire
    <3>5. QED
      BY <3>4 DEF Archive!Next
  <2>13. ASSUME NEW f \in Frames, NEW keep \in BOOLEAN,
                NEW label \in Labels \cup {NoLabel}, Put(f, keep, label)
         PROVE  Archive!Next
    <3>1. CASE PutOversized(f)
      BY <2>2, <2>3, <3>1 DEF PutOversized
    <3>2. CASE PutRefused(f)
      BY <2>2, <2>4, <3>2 DEF PutRefused
    <3>3. QED
      BY <2>6, <2>13, <3>1, <3>2 DEF Put
  <2>14. CASE UNCHANGED vars
    BY <2>14 DEF vars, Archive!vars, ArchiveAnswer, AsksArchive
  <2>15. QED
    BY <2>7, <2>9, <2>10, <2>11, <2>12, <2>13, <2>14 DEF Next
<1>3. QED
  BY <1>1, <1>2, StoreInvariant, PTL DEF Spec, ImplementsArchive, Archive!Spec

-----------------------------------------------------------------------------
(* The session. *)

\* What an acquisition of the session does to the store is one put, or nothing.
LEMMA AcquirePuts ==
    ASSUME NEW sweep, NEW keep, keep \in {"default", "yes", "no"},
           NEW label \in Labels \cup {NoLabel},
           Acquire(sweep, keep, label)
    PROVE  Next \/ UNCHANGED vars
<1>1. KeepFrame(sweep, keep) \in BOOLEAN
    <2>1. CASE keep = "default"
        <3>1. (sweep \in OneShots) \in BOOLEAN
            OBVIOUS
        <3> QED
            BY <2>1, <3>1 DEF KeepFrame
    <2>2. CASE keep # "default"
        <3>1. (keep = "yes") \in BOOLEAN
            OBVIOUS
        <3> QED
            BY <2>2, <3>1 DEF KeepFrame
    <2> QED
        BY <2>1, <2>2
<1>2. CASE UNCHANGED vars
    BY <1>2
<1>3. CASE \E f \in Frames : PutOversized(f) \/ PutRefused(f)
    BY <1>3 DEF Next, Put
<1>4. CASE \E f \in Frames : PutStored(f, KeepFrame(sweep, keep), label)
    BY <1>1, <1>4 DEF Next, Put
<1> QED
    BY <1>2, <1>3, <1>4 DEF Acquire

\* So is what an acquisition inside a loop does to the store.
LEMMA LoopPuts ==
    ASSUME NEW here, NEW next, LoopAcquire(here, next)
    PROVE  Next \/ UNCHANGED vars
<1>1. KeepFrame("AUTO", "default") \in BOOLEAN
    BY DEF KeepFrame
<1>2. CASE UNCHANGED vars
    BY <1>2
<1>3. CASE \E f \in Frames : PutOversized(f) \/ PutRefused(f)
    BY <1>3 DEF Next, Put
<1>4. CASE \E f \in Frames : PutStored(f, KeepFrame("AUTO", "default"), NoLabel)
    BY <1>1, <1>4 DEF Next, Put
<1> QED
    BY <1>2, <1>3, <1>4 DEF LoopAcquire

\* Every step of a session is a step of the store or leaves it alone.
LEMMA StepUsesStore ==
    ASSUME [SessionNext]_sessionVars
    PROVE  [Next]_vars
<1>1. CASE UNCHANGED sessionVars
    BY <1>1 DEF sessionVars, vars
<1>2. CASE \E sweep \in OneShots \cup {"AUTO"}, keep \in {"default", "yes", "no"},
              label \in Labels \cup {NoLabel} : Acquire(sweep, keep, label)
    BY <1>2, AcquirePuts
<1>3. ASSUME NEW given \in BOOLEAN, CaptureSingle(given)
      PROVE  [Next]_vars
    <2>1. CASE CaptureSingleOwn(given)
        BY <2>1 DEF CaptureSingleOwn
    <2>2. CASE Acquire("SINGLE", "default", NoLabel)
        BY <2>2, AcquirePuts
    <2> QED
        BY <1>3, <2>1, <2>2 DEF CaptureSingle
<1>4. ASSUME NEW given \in BOOLEAN, Autoset(given) \/ CaptureUntilUsable(given)
      PROVE  [Next]_vars
    BY <1>4 DEF Autoset, CaptureUntilUsable, Enter
<1>5. CASE LoopStep
    <2>1. CASE Measure \/ Apply \/ Converge
        BY <2>1, LoopPuts DEF Measure, Apply, Converge
    <2>2. CASE Widen \/ Recommend \/ AutosetReturn \/ Adjust \/ ConvergeReturn
        BY <2>2 DEF Widen, Recommend, AutosetReturn, Adjust, ConvergeReturn
    <2> QED
        BY <1>5, <2>1, <2>2 DEF LoopStep
<1>6. CASE Manage
    BY <1>6 DEF Manage, Next
<1> QED
    BY <1>1, <1>2, <1>3, <1>4, <1>5, <1>6 DEF SessionNext

\* The store's invariant holds throughout a session.
THEOREM SessionStoreInvariant == SessionSpec => []StoreInv
<1>1. SessionInit => Init
    BY DEF SessionInit
<1>2. [SessionNext]_sessionVars => [Next]_vars
    BY StepUsesStore
<1>3. SessionSpec => Spec
    BY <1>1, <1>2, PTL DEF SessionSpec, Spec
<1> QED
    BY <1>3, StoreInvariant, PTL

\* Within a session the resident frames never exceed the budget and at most the
\* last frame put is a working frame: loops do not accumulate frames.
THEOREM SessionBounded == SessionSpec => [](WithinBudget /\ OneWorkingFrame)
<1>1. StoreInv => WithinBudget /\ OneWorkingFrame
    BY DEF StoreInv
<1> QED
    BY <1>1, SessionStoreInvariant, PTL

-----------------------------------------------------------------------------
(* One-shots. *)

\* A store step adds at most the next handle, and handles only grow.
LEMMA HandlesGrow ==
    ASSUME StoreInv, Next
    PROVE  /\ counter \in Nat /\ counter' \in Nat /\ counter <= counter'
           /\ DOMAIN entries' \subseteq DOMAIN entries \cup {counter + 1}
<1>1. counter \in Nat
    BY DEF StoreInv, TypeOK
<1>2. ASSUME NEW f \in Frames, NEW keep \in BOOLEAN, NEW label \in Labels \cup {NoLabel},
             Put(f, keep, label)
      PROVE  /\ counter' \in Nat /\ counter <= counter'
             /\ DOMAIN entries' \subseteq DOMAIN entries \cup {counter + 1}
    <2>1. CASE PutOversized(f) \/ PutRefused(f)
        BY <1>1, <2>1 DEF PutOversized, PutRefused, KeptOnly, Restricted
    <2>2. CASE PutStored(f, keep, label)
        BY <1>1, <2>2 DEF PutStored, NextId, KeptOnly, Restricted
    <2> QED
        BY <1>2, <2>1, <2>2 DEF Put
<1>3. CASE \E ref \in Refs : Get(ref) \/ Drop(ref)
    <2>1. PICK ref \in Refs : Get(ref) \/ Drop(ref)
        BY <1>3
    <2>2. CASE UNCHANGED <<entries, counter>>
        BY <1>1, <2>2
    <2>3. ASSUME NEW n, entries' = Restricted(entries, DOMAIN entries \ {n}), UNCHANGED counter
          PROVE  /\ counter' \in Nat /\ counter <= counter'
                 /\ DOMAIN entries' \subseteq DOMAIN entries \cup {counter + 1}
        BY <1>1, <2>3 DEF Restricted
    <2> QED
        BY <1>1, <2>1, <2>2, <2>3 DEF Get, Drop, Unknown
<1>4. CASE \E ref \in Refs, label \in Labels \cup {NoLabel} : Keep(ref, label)
    BY <1>1, <1>4 DEF Keep, Unknown
<1>5. CASE ClearEphemeral \/ Clear
    BY <1>1, <1>5 DEF ClearEphemeral, Clear, KeptOnly, Restricted
<1> QED
    BY <1>1, <1>2, <1>3, <1>4, <1>5 DEF Next

\* The frame put last carries the keep flag it was put with.
LEMMA PutKeeps ==
    ASSUME NEW f \in Frames, NEW keep \in BOOLEAN, NEW label \in Labels \cup {NoLabel},
           PutStored(f, keep, label)
    PROVE  counter' \in DOMAIN entries' /\ entries'[counter'].kept = keep
<1> DEFINE rest == KeptOnly(entries)
           new  == [frame |-> f, bytes |-> FrameBytes[f], kept |-> keep, label |-> label]
<1>1. /\ counter' = counter + 1
      /\ entries' = [m \in DOMAIN rest \cup {counter + 1} |->
                        IF m = counter + 1 THEN new ELSE rest[m]]
    BY DEF PutStored, NextId
<1>2. new.kept = keep
    OBVIOUS
<1> HIDE DEF rest, new
<1> QED
    BY <1>1, <1>2

\* The one-shots kept by default were issued, and are kept as long as they are
\* resident: what KeptUntilDropped needs to protect them.
EventsInv == events \subseteq 1..counter /\ \A n \in events \cap DOMAIN entries : entries[n].kept

\* Only an acquisition adds to the history, and only a frame it has just kept.
LEMMA EventAdded ==
    ASSUME [SessionNext]_sessionVars
    PROVE  \/ events' = events
           \/ \E f \in Frames, label \in Labels \cup {NoLabel} :
                 PutStored(f, TRUE, label) /\ events' = events \cup {counter'}
<1>1. ASSUME NEW sweep, NEW keep, NEW label \in Labels \cup {NoLabel}, Acquire(sweep, keep, label)
      PROVE  \/ events' = events
             \/ \E f \in Frames : PutStored(f, TRUE, label) /\ events' = events \cup {counter'}
    BY <1>1 DEF Acquire, KeepFrame
<1>2. CASE UNCHANGED sessionVars
    BY <1>2 DEF sessionVars
<1>3. CASE \E sweep \in OneShots \cup {"AUTO"}, keep \in {"default", "yes", "no"},
              label \in Labels \cup {NoLabel} : Acquire(sweep, keep, label)
    BY <1>1, <1>3
<1>4. CASE \E given \in BOOLEAN : CaptureSingle(given)
    BY <1>1, <1>4 DEF CaptureSingle, CaptureSingleOwn
<1>5. CASE \E given \in BOOLEAN : Autoset(given) \/ CaptureUntilUsable(given)
    BY <1>5 DEF Autoset, CaptureUntilUsable, Enter
<1>6. CASE LoopStep \/ Manage
    BY <1>6 DEF LoopStep, Manage, Measure, Apply, Converge, LoopAcquire, Widen, Recommend,
                AutosetReturn, Adjust, ConvergeReturn
<1> QED
    BY <1>2, <1>3, <1>4, <1>5, <1>6 DEF SessionNext

\* No step of a session breaks the protection of the events.
LEMMA EventsStep ==
    ASSUME StoreInv, EventsInv, [SessionNext]_sessionVars
    PROVE  EventsInv'
<1>1. [Next]_vars
    BY StepUsesStore
<1>2. counter \in Nat /\ counter' \in Nat /\ counter <= counter'
    BY <1>1, HandlesGrow DEF StoreInv, TypeOK, vars
<1>3. \A n \in events \cap DOMAIN entries' : entries'[n].kept
    <2> SUFFICES ASSUME NEW n \in events, n \in DOMAIN entries'
                 PROVE  entries'[n].kept
        OBVIOUS
    <2>1. CASE UNCHANGED vars
        BY <2>1 DEF vars, EventsInv
    <2>2. CASE Next
        <3>1. n \in DOMAIN entries
            BY <1>2, <2>2, HandlesGrow DEF EventsInv
        <3> QED
            BY <2>2, <3>1, KeptStep DEF EventsInv
    <2> QED
        BY <1>1, <2>1, <2>2
<1>4. events \subseteq 1..counter'
    BY <1>2 DEF EventsInv
<1>5. CASE events' = events
    BY <1>3, <1>4, <1>5 DEF EventsInv
<1>6. ASSUME NEW f \in Frames, NEW label \in Labels \cup {NoLabel},
             PutStored(f, TRUE, label), events' = events \cup {counter'}
      PROVE  EventsInv'
    <2>1. entries'[counter'].kept
        BY <1>6, PutKeeps
    <2>2. counter' \in 1..counter'
        BY <1>2, <1>6 DEF PutStored
    <2> QED
        BY <1>3, <1>4, <1>6, <2>1, <2>2 DEF EventsInv
<1> QED
    BY <1>5, <1>6, EventAdded

\* A step that is not a management call of the idle session never answers for
\* the store with a drop or a clear.
LEMMA OnlyIdleDrops ==
    ASSUME [SessionNext]_sessionVars, pc # "idle"
    PROVE  UNCHANGED vars \/ reply'.call = "put"
<1>1. CASE UNCHANGED sessionVars
    BY <1>1 DEF sessionVars
<1>2. ASSUME NEW here, NEW next, LoopAcquire(here, next)
      PROVE  UNCHANGED vars \/ reply'.call = "put"
    BY <1>2 DEF LoopAcquire, PutOversized, PutRefused, PutStored, Answer
<1>3. CASE LoopStep
    BY <1>2, <1>3 DEF LoopStep, Measure, Apply, Converge, Widen, Recommend, AutosetReturn,
                      Adjust, ConvergeReturn
<1> QED
    BY <1>1, <1>3 DEF SessionNext, Acquire, CaptureSingle, CaptureSingleOwn, Autoset,
                      CaptureUntilUsable, Enter, Manage

\* An unrepeatable event kept by default leaves the store only when the caller
\* drops it or clears the store (acquire.py:8).
THEOREM EventsSafe == SessionSpec => OneShotsStay
<1> DEFINE Stay == \A n \in events \cap DOMAIN entries :
                      \/ n \in DOMAIN entries'
                      \/ pc = "idle" /\ reply'.call \in {"drop", "clear"}
<1>1. SessionInit => EventsInv
    BY DEF SessionInit, Init, EventsInv
<1>2. StoreInv /\ EventsInv /\ [SessionNext]_sessionVars => EventsInv'
    BY EventsStep
<1>3. StoreInv /\ EventsInv /\ [SessionNext]_sessionVars => [Stay]_sessionVars
    <2> SUFFICES ASSUME StoreInv, EventsInv, [SessionNext]_sessionVars,
                        NEW n \in events, n \in DOMAIN entries, n \notin DOMAIN entries'
                 PROVE  pc = "idle" /\ reply'.call \in {"drop", "clear"}
        OBVIOUS
    <2>1. Next
        BY StepUsesStore DEF vars
    <2>2. reply'.call \in {"drop", "clear"}
        BY <2>1, KeptStep DEF EventsInv
    <2> QED
        BY <2>2, OnlyIdleDrops DEF vars
<1> QED
    BY <1>1, <1>2, <1>3, SessionStoreInvariant, PTL DEF SessionSpec, OneShotsStay

-----------------------------------------------------------------------------
(* What a call returns. *)

Stores  == {"own", "replaced", "given"}
Results == [where : Stores, kind : {"none", "frame", "miss", "raised"},
            got : Acquired \cup {NoFrame}, changes : Nat, converged : BOOLEAN]

\* The frame is in the caller's store, under its handle.
Held(frame) == frame.id \in DOMAIN entries /\ entries[frame.id].frame = frame.frame

\* What a loop goes on with is the frame of its last acquisition, taken under the
\* setup reached by now, and in the store the loop was given.
LoopInv ==
    /\ pc \in {"idle", "measure", "measured", "apply", "applied", "converge", "judge"}
    /\ where \in Stores /\ changes \in ChangesAt(pc) /\ got \in Acquired \cup {NoFrame}
    /\ pc \in {"measured", "applied", "judge"} =>
           got \in Acquired /\ got.setup = changes /\ (where = "given" => Held(got))

ResultInv == result \in Results /\ ResultBelongsTogether

\* The bounds on the changes of a loop, place by place.
LEMMA ChangesBounded ==
    /\ ChangesAt("idle") = {0}
    /\ ChangesAt("measure") = 0..MaxWiden /\ ChangesAt("measured") = 0..MaxWiden
    /\ ChangesAt("apply") = 1..(MaxWiden + 1) /\ ChangesAt("applied") = 1..(MaxWiden + 1)
    /\ ChangesAt("converge") = 0..MaxIterations /\ ChangesAt("judge") = 0..MaxIterations
BY DEF ChangesAt

LEMMA ChangesCounted ==
    ASSUME LoopInv
    PROVE  changes \in Nat
BY ChangesBounded, LoopAssumption DEF LoopInv

\* Whatever is returned with a frame belongs to that frame.
LEMMA ReturnedInv ==
    ASSUME NEW place \in Stores, NEW kind \in {"none", "frame", "miss", "raised"},
           NEW frame \in Acquired \cup {NoFrame}, NEW n \in Nat, NEW converged \in BOOLEAN,
           kind = "frame" => frame.setup = n /\ converged = Usable(frame.frame),
           Returned(place, kind, frame, n, converged)
    PROVE  ResultInv'
<1>1. result' = [where |-> place, kind |-> kind, got |-> frame, changes |-> n, converged |-> converged]
    BY DEF Returned
<1>2. result' \in Results
    BY <1>1 DEF Results
<1>3. ResultBelongsTogether'
    BY <1>1 DEF ResultBelongsTogether, Usable
<1> QED
    BY <1>2, <1>3 DEF ResultInv

\* Nothing returned, or an exception.
LEMMA NothingReturned ==
    ASSUME \/ result' = NoResult
           \/ \E place \in Stores : Raised(place) \/ Returned(place, "miss", NoFrame, 0, FALSE)
    PROVE  ResultInv' /\ result'.kind # "frame"
<1>1. NoFrame \in Acquired \cup {NoFrame} /\ 0 \in Nat /\ FALSE \in BOOLEAN /\ "given" \in Stores
    BY DEF Stores
<1>2. CASE result' = NoResult
    BY <1>1, <1>2 DEF NoResult, ResultInv, Results, ResultBelongsTogether
<1>3. ASSUME NEW place \in Stores, Raised(place) \/ Returned(place, "miss", NoFrame, 0, FALSE)
      PROVE  ResultInv' /\ result'.kind # "frame"
    <2>1. ResultInv'
        BY <1>1, <1>3, ReturnedInv DEF Raised
    <2>2. result'.kind # "frame"
        BY <1>3 DEF Raised, Returned
    <2> QED
        BY <2>1, <2>2
<1> QED
    BY <1>2, <1>3

\* The frame put last is in the store, under the handle put returned.
LEMMA PutHolds ==
    ASSUME StoreInv, NEW f \in Frames, NEW keep, NEW label, PutStored(f, keep, label), NEW n \in Nat
    PROVE  /\ [frame |-> f, id |-> counter', setup |-> n] \in Acquired
           /\ counter' \in DOMAIN entries' /\ entries'[counter'].frame = f
<1> DEFINE rest == KeptOnly(entries)
           new  == [frame |-> f, bytes |-> FrameBytes[f], kept |-> keep, label |-> label]
<1>1. /\ counter' = counter + 1 /\ counter < MaxPuts
      /\ entries' = [m \in DOMAIN rest \cup {counter + 1} |->
                        IF m = counter + 1 THEN new ELSE rest[m]]
    BY DEF PutStored, NextId
<1>2. new.frame = f
    OBVIOUS
<1>3. counter' \in 0..MaxPuts
    BY <1>1, PutsAssumption DEF StoreInv, TypeOK
<1> HIDE DEF rest, new
<1> QED
    BY <1>1, <1>2, <1>3 DEF Acquired

\* A single acquisition returns the frame it has just put.
LEMMA AcquireResult ==
    ASSUME StoreInv, LoopInv, ResultInv, NEW sweep, NEW keep, NEW label, Acquire(sweep, keep, label)
    PROVE  /\ LoopInv' /\ ResultInv'
           /\ result'.kind = "frame" => InStore(result'.got)
<1>1. pc = "idle" /\ UNCHANGED loopVars
    BY DEF Acquire
<1>2. LoopInv'
    BY <1>1 DEF LoopInv, loopVars
<1>3. CASE Raised("given") \/ Returned("given", "miss", NoFrame, 0, FALSE)
    <2>1. "given" \in Stores
        BY DEF Stores
    <2> QED
        BY <1>2, <1>3, <2>1, NothingReturned
<1>4. ASSUME NEW f \in Frames, PutStored(f, KeepFrame(sweep, keep), label),
             Returned("given", "frame", [frame |-> f, id |-> counter', setup |-> 0], 0, Usable(f))
      PROVE  ResultInv' /\ InStore(result'.got)
    <2> DEFINE frame == [frame |-> f, id |-> counter', setup |-> 0]
    <2>1. frame \in Acquired /\ counter' \in DOMAIN entries' /\ entries'[counter'].frame = f
        BY <1>4, PutHolds
    <2>2. frame.setup = 0 /\ frame.frame = f /\ frame.id = counter'
        OBVIOUS
    <2>3. Usable(f) \in BOOLEAN /\ "given" \in Stores /\ 0 \in Nat
        BY DEF Usable, Stores
    <2>4. Returned("given", "frame", frame, 0, Usable(f)) /\ result'.got = frame
        BY <1>4 DEF Returned
    <2> HIDE DEF frame
    <2>5. ResultInv'
        BY <2>1, <2>2, <2>3, <2>4, ReturnedInv
    <2> QED
        BY <2>1, <2>2, <2>4, <2>5 DEF InStore
<1> QED
    BY <1>2, <1>3, <1>4 DEF Acquire

\* So does one without a store of the caller's, except that its handle says nothing.
LEMMA OwnResult ==
    ASSUME LoopInv, ResultInv, NEW given, Where(given) # "given", CaptureSingleOwn(given)
    PROVE  LoopInv' /\ ResultInv' /\ result'.where # "given"
<1>1. UNCHANGED vars /\ UNCHANGED loopVars
    BY DEF CaptureSingleOwn
<1>2. LoopInv'
    BY <1>1 DEF LoopInv, loopVars, vars, Held
<1>3. Where(given) \in Stores
    BY DEF Where, Stores
<1>4. result'.where = Where(given)
    BY DEF CaptureSingleOwn, Returned, Raised
<1>5. CASE Returned(Where(given), "miss", NoFrame, 0, FALSE) \/ Raised(Where(given))
    BY <1>2, <1>3, <1>4, <1>5, NothingReturned
<1>6. ASSUME NEW f \in Frames,
             Returned(Where(given), "frame", [frame |-> f, id |-> 0, setup |-> 0], 0, Usable(f))
      PROVE  ResultInv'
    <2> DEFINE frame == [frame |-> f, id |-> 0, setup |-> 0]
    <2>1. frame \in Acquired /\ frame.setup = 0 /\ frame.frame = f
        BY PutsAssumption DEF Acquired
    <2>2. Usable(f) \in BOOLEAN /\ 0 \in Nat
        BY DEF Usable
    <2>3. Returned(Where(given), "frame", frame, 0, Usable(f))
        BY <1>6
    <2> HIDE DEF frame
    <2> QED
        BY <1>3, <2>1, <2>2, <2>3, ReturnedInv
<1> QED
    BY <1>2, <1>4, <1>5, <1>6 DEF CaptureSingleOwn

\* An acquisition of a loop hands the loop the frame it has just taken.
LEMMA LoopResult ==
    ASSUME StoreInv, LoopInv, ResultInv, NEW here,
           NEW next \in {"measured", "applied", "judge"}, LoopAcquire(here, next),
           ChangesAt(here) = ChangesAt(next)
    PROVE  LoopInv' /\ ResultInv' /\ (result' # result => result'.kind # "frame")
<1>1. where \in Stores /\ changes \in Nat /\ changes \in ChangesAt(next)
    BY ChangesCounted DEF LoopInv, LoopAcquire
<1>2. CASE Raised(where) /\ Idle
    <2>1. ResultInv' /\ result'.kind # "frame"
        BY <1>1, <1>2, NothingReturned
    <2>2. LoopInv'
        BY <1>2, ChangesBounded DEF LoopInv, Idle, Goto, Stores
    <2> QED
        BY <2>1, <2>2
<1>3. ASSUME NEW f \in Frames, NEW id, [frame |-> f, id |-> id, setup |-> changes] \in Acquired,
             got' = [frame |-> f, id |-> id, setup |-> changes], pc' = next,
             UNCHANGED <<where, changes, result>>,
             where = "given" => id \in DOMAIN entries' /\ entries'[id].frame = f
      PROVE  LoopInv' /\ ResultInv' /\ result' = result
    <2>1. got' \in Acquired /\ got'.setup = changes /\ got'.frame = f /\ got'.id = id
        BY <1>3
    <2>2. where = "given" => Held(got)'
        BY <1>3, <2>1 DEF Held
    <2> QED
        BY <1>1, <1>3, <2>1, <2>2 DEF LoopInv, ResultInv, ResultBelongsTogether
<1>4. ASSUME NEW f \in Frames, PutStored(f, KeepFrame("AUTO", "default"), NoLabel),
             got' = [frame |-> f, id |-> counter', setup |-> changes], Goto(next),
             UNCHANGED <<where, changes, result>>
      PROVE  LoopInv' /\ ResultInv' /\ result' = result
    BY <1>1, <1>3, <1>4, PutHolds DEF Goto
<1>5. ASSUME NEW f \in Frames, where # "given", got' = [frame |-> f, id |-> 0, setup |-> changes],
             Goto(next), UNCHANGED <<where, changes, result>>
      PROVE  LoopInv' /\ ResultInv' /\ result' = result
    <2>1. [frame |-> f, id |-> 0, setup |-> changes] \in Acquired
        BY <1>1, PutsAssumption DEF Acquired
    <2> QED
        BY <1>3, <1>5, <2>1 DEF Goto
<1> QED
    BY <1>2, <1>4, <1>5 DEF LoopAcquire

\* Every step keeps what a call returns right.
LEMMA ResultStep ==
    ASSUME StoreInv, LoopInv, ResultInv, [SessionNext]_sessionVars
    PROVE  /\ LoopInv' /\ ResultInv'
           /\ Delivered /\ result'.where = "given" => InStore(result'.got)
<1>1. CASE UNCHANGED sessionVars
    BY <1>1 DEF sessionVars, loopVars, vars, LoopInv, Held, ResultInv, ResultBelongsTogether, Delivered
<1>2. CASE \E sweep \in OneShots \cup {"AUTO"}, keep \in {"default", "yes", "no"},
              label \in Labels \cup {NoLabel} : Acquire(sweep, keep, label)
    BY <1>2, AcquireResult DEF Delivered
<1>3. CASE \E given \in BOOLEAN : CaptureSingle(given)
    BY <1>3, AcquireResult, OwnResult DEF Delivered, CaptureSingle
<1>4. CASE \E given \in BOOLEAN : Autoset(given) \/ CaptureUntilUsable(given)
    <2>1. PICK given \in BOOLEAN : Autoset(given) \/ CaptureUntilUsable(given)
        BY <1>4
    <2>2. /\ pc' \in {"measure", "converge"} /\ where' = Where(given) /\ changes' = 0 /\ got' = NoFrame
          /\ result' = NoResult
        BY <2>1 DEF Autoset, CaptureUntilUsable, Enter, Goto
    <2>3. LoopInv'
        BY <2>2, ChangesBounded, LoopAssumption DEF LoopInv, Where, Stores
    <2> QED
        BY <2>2, <2>3, NothingReturned DEF Delivered
<1>5. CASE Measure \/ Apply \/ Converge
    BY <1>5, LoopResult, ChangesBounded DEF Measure, Apply, Converge, Delivered
<1>6. CASE Widen \/ Recommend \/ Adjust
    <2>1. /\ pc' \in {"measure", "apply", "converge"} /\ changes' = changes + 1
          /\ UNCHANGED <<where, got, result>>
        BY <1>6 DEF Widen, Recommend, Adjust, Goto
    <2>2. changes' \in ChangesAt(pc')
        <3>1. CASE Widen
            BY <3>1, ChangesBounded, LoopAssumption DEF Widen, Goto, LoopInv
        <3>2. CASE Recommend
            BY <3>2, ChangesBounded, LoopAssumption DEF Recommend, Goto, LoopInv
        <3>3. CASE Adjust
            BY <3>3, ChangesBounded, LoopAssumption DEF Adjust, Goto, LoopInv
        <3> QED
            BY <1>6, <3>1, <3>2, <3>3
    <2>3. LoopInv'
        BY <2>1, <2>2 DEF LoopInv
    <2> QED
        BY <2>1, <2>3 DEF ResultInv, ResultBelongsTogether, Delivered
<1>7. CASE AutosetReturn \/ ConvergeReturn
    <2>1. /\ pc \in {"applied", "judge"} /\ Idle /\ UNCHANGED entries
          /\ Returned(where, "frame", got, changes, Usable(got.frame))
        BY <1>7 DEF AutosetReturn, ConvergeReturn, vars
    <2>2. /\ got \in Acquired /\ got.setup = changes /\ (where = "given" => Held(got))
          /\ where \in Stores /\ changes \in Nat
        BY <2>1, ChangesCounted DEF LoopInv
    <2>3. Usable(got.frame) \in BOOLEAN
        BY DEF Usable
    <2>4. ResultInv'
        BY <2>1, <2>2, <2>3, ReturnedInv
    <2>5. result'.where = where /\ result'.got = got
        BY <2>1 DEF Returned
    <2>6. LoopInv'
        BY <2>1, ChangesBounded DEF LoopInv, Idle, Goto, Stores
    <2> QED
        BY <2>1, <2>2, <2>4, <2>5, <2>6 DEF Held, InStore
<1>8. CASE Manage
    <2>1. pc = "idle" /\ UNCHANGED loopVars /\ result' = NoResult
        BY <1>8 DEF Manage
    <2>2. LoopInv'
        BY <2>1 DEF LoopInv, loopVars
    <2> QED
        BY <2>1, <2>2, NothingReturned DEF Delivered
<1> QED
    BY <1>1, <1>2, <1>3, <1>4, <1>5, <1>6, <1>7, <1>8 DEF SessionNext, LoopStep

\* What the loops know holds throughout a session.
THEOREM LoopInvariant == SessionSpec => [](LoopInv /\ ResultInv)
<1>1. SessionInit => LoopInv /\ ResultInv
    <2> SUFFICES ASSUME SessionInit PROVE LoopInv /\ ResultInv
        OBVIOUS
    <2>1. /\ pc = "idle" /\ where = "own" /\ changes = 0 /\ got = NoFrame /\ result = NoResult
        BY DEF SessionInit
    <2>2. result \in Results
        BY <2>1 DEF NoResult, Results, Stores
    <2> QED
        BY <2>1, <2>2, ChangesBounded DEF LoopInv, ResultInv, Stores, NoResult, ResultBelongsTogether
<1>2. StoreInv /\ LoopInv /\ ResultInv /\ [SessionNext]_sessionVars => LoopInv' /\ ResultInv'
    BY ResultStep
<1> QED
    BY <1>1, <1>2, SessionStoreInvariant, PTL DEF SessionSpec

\* Every variable of a session has its type.
THEOREM SessionTypes == SessionSpec => []SessionTypeOK
<1>1. SessionInit => EventsInv
    BY DEF SessionInit, Init, EventsInv
<1>2. StoreInv /\ EventsInv /\ [SessionNext]_sessionVars => EventsInv'
    BY EventsStep
<1>3. StoreInv /\ EventsInv /\ LoopInv /\ ResultInv => SessionTypeOK
    BY DEF StoreInv, EventsInv, LoopInv, ResultInv, SessionTypeOK, Stores, Results
<1> QED
    BY <1>1, <1>2, <1>3, SessionStoreInvariant, LoopInvariant, PTL DEF SessionSpec

\* What a call returns with a frame is right of that very frame, and the handle
\* finds it in the store the call was given (loop.py:14-16, 168-174, 217-244).
THEOREM FinalFramesRight == SessionSpec => FinalFrameRight
<1> DEFINE Addressed == Delivered /\ result'.where = "given" => InStore(result'.got)
<1>1. LoopInv /\ ResultInv => ResultBelongsTogether
    BY DEF ResultInv
<1>2. StoreInv /\ LoopInv /\ ResultInv /\ [SessionNext]_sessionVars => [Addressed]_sessionVars
    BY ResultStep
<1> QED
    BY <1>1, <1>2, LoopInvariant, SessionStoreInvariant, PTL
       DEF SessionSpec, FinalFrameRight, FinalFrameInUsedStore
=============================================================================
