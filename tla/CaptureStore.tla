---------------------------- MODULE CaptureStore ----------------------------
(***************************************************************************)
(* The server-side store of acquired frames (session/store.py).            *)
(*                                                                         *)
(* A frame is put once, gets the handle cap-N, and is then addressed by    *)
(* that handle, by a label, or as "latest".  Ephemeral frames are evicted  *)
(* by the next put; kept frames stay until somebody drops them; the sum of *)
(* the resident frames stays within a byte budget.                         *)
(*                                                                         *)
(* The dict _entries is a function from the numbers N of the resident      *)
(* handles cap-N to entries.  A dict iterates in insertion order; put, the *)
(* only operation that inserts, always inserts the greatest N issued so    *)
(* far, so "most recent first" is descending order of N.                   *)
(*                                                                         *)
(* Strings are pairs: <<"cap", n>> is the text cap-n, <<"latest", 0>> the  *)
(* text latest and <<"name", k>> any other text a caller may type.         *)
(***************************************************************************)
EXTENDS Integers, FiniteSets

CONSTANTS
    Frames,      \* the capture frames an acquisition may deliver
    FrameBytes,  \* FrameBytes[f]: the bytes of the sample arrays of f
    Budget,      \* budget_bytes
    Labels,      \* the labels callers use
    MaxPuts      \* bound: successful puts in a behaviour

CapId(n) == <<"cap", n>>
Latest   == <<"latest", 0>>
NoLabel  == <<"none", 0>>

Texts  == {"cap", "latest", "name"} \X Nat
Errors == {"ValueError", "MemoryError", "KeyError"}

ASSUME BudgetAssumption == Budget \in Nat
ASSUME BytesAssumption  == FrameBytes \in [Frames -> Nat]
ASSUME LabelAssumption  == Labels \subseteq Texts
ASSUME PutsAssumption   == MaxPuts \in Nat
ASSUME FrameAssumption  == Frames \cap (Errors \cup {"None"}) = {}

VARIABLES
    entries,  \* _entries: resident N -> [frame, bytes, kept, label]
    counter,  \* _counter
    issued,   \* history: N -> the frame for which put returned cap-N
    reply     \* the last call, what it was given (a reference; the frame of a put
              \* that raised) and what it answered

vars == <<entries, counter, issued, reply>>

Entry == [frame : Frames, bytes : Nat, kept : BOOLEAN, label : Labels \cup {NoLabel}]

\* The references a caller may hold: issued, future and never-issued handles,
\* labels, and "latest".
Refs == {CapId(n) : n \in 0..MaxPuts} \cup Labels \cup {Latest}

Restricted(E, S) == [n \in S |-> E[n]]

-----------------------------------------------------------------------------
\* resident_bytes(): one element per stored byte, so that the sum over the
\* entries is a cardinality.
Occupied(E)      == UNION {{n} \X (1..E[n].bytes) : n \in DOMAIN E}
ResidentBytes(E) == Cardinality(Occupied(E))

\* Is there room for f next to the frames of E?
FitsAlone(E, f) == FrameBytes[f] <= Budget
FitsSlack(E, f) == ResidentBytes(E) + FrameBytes[f] < Budget
Fits(E, f)      == ResidentBytes(E) + FrameBytes[f] <= Budget

\* The comprehension of put and clear_ephemeral: what remains once every
\* frame that is not kept is deleted.
KeptOnlyOrLabelled(E) == Restricted(E, {n \in DOMAIN E : E[n].kept \/ E[n].label # NoLabel})
KeptOnlyRecent(E)     == Restricted(E, {n \in DOMAIN E : E[n].kept /\ n > counter - 2})
KeptOnly(E)           == Restricted(E, {n \in DOMAIN E : E[n].kept})

\* The number of the next handle.
NextIdByCount == Cardinality(DOMAIN entries) + 1
NextIdStale   == counter
NextId        == counter + 1

Newest(S) == {n \in S : \A m \in S : m <= n}

\* _resolve: the resident N that a reference denotes, as a set that is empty
\* where _resolve raises KeyError and has one member otherwise.
ByHandle(ref) == {n \in DOMAIN entries : ref = CapId(n)}

ByLabel(ref) == Newest({n \in DOMAIN entries : entries[n].label = ref})

ResolveLabelFirst(ref) ==
    IF ref = Latest THEN Newest(DOMAIN entries)
    ELSE IF ByLabel(ref) # {} THEN ByLabel(ref)
    ELSE ByHandle(ref)

Resolve(ref) ==
    IF ref = Latest THEN Newest(DOMAIN entries)
    ELSE IF ByHandle(ref) # {} THEN ByHandle(ref)
    ELSE ByLabel(ref)

-----------------------------------------------------------------------------
Answer(call, ref, value) == reply' = [call |-> call, ref |-> ref, value |-> value]

Init ==
    /\ entries = [n \in {} |-> 0]
    /\ counter = 0
    /\ issued = [n \in {} |-> 0]
    /\ reply = [call |-> "init", ref |-> Latest, value |-> "None"]

\* put refuses a frame that could never fit; nothing changes.
PutOversized(f) ==
    /\ FrameBytes[f] > Budget
    /\ Answer("put", f, "ValueError")
    /\ UNCHANGED <<entries, counter, issued>>

\* put has already evicted the working frame when it finds that the kept
\* frames leave no room.
PutRefused(f) ==
    /\ FrameBytes[f] <= Budget
    /\ ~Fits(KeptOnly(entries), f)
    /\ entries' = KeptOnly(entries)
    /\ Answer("put", f, "MemoryError")
    /\ UNCHANGED <<counter, issued>>

PutStored(f, keep, label) ==
    /\ counter < MaxPuts
    /\ FrameBytes[f] <= Budget
    /\ Fits(KeptOnly(entries), f)
    /\ counter' = counter + 1
    /\ LET id   == NextId
           rest == KeptOnly(entries)
           new  == [frame |-> f, bytes |-> FrameBytes[f], kept |-> keep, label |-> label]
       IN  /\ entries' = [n \in DOMAIN rest \cup {id} |-> IF n = id THEN new ELSE rest[n]]
           /\ issued' = [n \in DOMAIN issued \cup {id} |->
                            IF n \in DOMAIN issued THEN issued[n] ELSE f]
           /\ Answer("put", CapId(id), f)

Put(f, keep, label) == PutOversized(f) \/ PutRefused(f) \/ PutStored(f, keep, label)

\* Every operation that takes a reference starts with _resolve and raises its
\* KeyError without touching the store.
Unknown(call, ref) ==
    /\ Resolve(ref) = {}
    /\ Answer(call, ref, "KeyError")
    /\ UNCHANGED <<entries, counter, issued>>

\* get and info.
Get(ref) ==
    \/ Unknown("get", ref)
    \/ \E n \in Resolve(ref) :
          /\ Answer("get", ref, entries[n].frame)
          /\ UNCHANGED <<entries, counter, issued>>

\* dataclasses.replace in keep.
Promoted(e, label) ==
    [frame |-> e.frame, bytes |-> e.bytes, kept |-> TRUE,
     label |-> IF label # NoLabel THEN label ELSE e.label]

Keep(ref, label) ==
    \/ Unknown("keep", ref)
    \/ \E n \in Resolve(ref) :
          /\ entries' = [entries EXCEPT ![n] = Promoted(entries[n], label)]
          /\ Answer("keep", ref, entries[n].frame)
          /\ UNCHANGED <<counter, issued>>

Drop(ref) ==
    \/ Unknown("drop", ref)
    \/ \E n \in Resolve(ref) :
          /\ entries' = Restricted(entries, DOMAIN entries \ {n})
          /\ Answer("drop", ref, entries[n].frame)
          /\ UNCHANGED <<counter, issued>>

ClearEphemeral ==
    /\ entries' = KeptOnly(entries)
    /\ Answer("clear_ephemeral", Latest, "None")
    /\ UNCHANGED <<counter, issued>>

Clear ==
    /\ entries' = Restricted(entries, {})
    /\ Answer("clear", Latest, "None")
    /\ UNCHANGED <<counter, issued>>

Next ==
    \/ \E f \in Frames, keep \in BOOLEAN, label \in Labels \cup {NoLabel} : Put(f, keep, label)
    \/ \E ref \in Refs : Get(ref) \/ Drop(ref)
    \/ \E ref \in Refs, label \in Labels \cup {NoLabel} : Keep(ref, label)
    \/ ClearEphemeral
    \/ Clear

Spec == Init /\ [][Next]_vars

-----------------------------------------------------------------------------
TypeOK ==
    /\ counter \in 0..MaxPuts
    /\ issued \in [1..counter -> Frames]
    /\ DOMAIN entries \subseteq 1..counter
    /\ entries \in [DOMAIN entries -> Entry]
    /\ reply.value \in Frames \cup Errors \cup {"None"}

\* What a call that names cap-N acts on, whatever calls came in between: the frame
\* put returned cap-N for; or, once that frame is gone, one that somebody labelled
\* cap-N in so many words (store.py:189); or nothing, it raises.  A resident handle
\* is never taken for a label, a gone one never for another frame of the store.
NamesHandle(n) == reply'.ref = CapId(n) /\ reply'.value \in Frames

HandleStable ==
    [][\A n \in 0..MaxPuts : NamesHandle(n) =>
          \/ n \in DOMAIN issued' /\ reply'.value = issued'[n]
          \/ /\ n \notin DOMAIN entries
             /\ \E m \in DOMAIN entries :
                   entries[m].label = CapId(n) /\ entries[m].frame = reply'.value]_vars

\* "cap-7 is that frame forever, or it is gone.  A stale reference can only ever
\* fail, never resolve to a different frame" (store.py:11): a call that names cap-N
\* and is answered with a frame is answered with the one cap-N was issued for.
HandleForever ==
    \A n \in 0..MaxPuts :
        reply.ref = CapId(n) /\ reply.value \in Frames
            => n \in DOMAIN issued /\ reply.value = issued[n]

\* The two tiers (store.py:18): convergence loops cannot accumulate frames,
\* because the only frame that is not kept is the last one put.
OneWorkingFrame == \A n \in DOMAIN entries : ~entries[n].kept => n = counter

\* The store never holds more than its byte budget (store.py:16), although put
\* adds kept frames and keep exempts frames after the fact.
WithinBudget == ResidentBytes(entries) <= Budget

\* "Kept frames survive until an explicit drop and are never silently lost"
\* (store.py:19): a kept frame leaves only by clear, or by a drop whose
\* reference is its handle, its label or "latest"; in particular a refused put,
\* which has already evicted, loses none, and nothing turns a kept frame back
\* into a working frame.
KeptUntilDropped ==
    \A n \in DOMAIN entries :
        entries[n].kept =>
            \/ n \in DOMAIN entries' /\ entries'[n].kept /\ entries'[n].frame = entries[n].frame
            \/ reply'.call = "clear"
            \/ reply'.call = "drop" /\ reply'.ref \in {CapId(n), Latest, entries[n].label}

KeptNeverSilentlyLost == [][KeptUntilDropped]_vars

\* A put that raises is right to, and loses nothing but the superseded working
\* frame (store.py:89-105): the frame it refused is over the budget by itself, and
\* then nothing has changed; or every frame that was kept is still there as it was,
\* nothing else is, and with exactly those the refused frame exceeds the budget.
KeptBefore == {n \in DOMAIN entries : entries[n].kept}

Refused == reply'.call = "put" /\ reply'.value \in Errors

RefusalIsHonest ==
    [][Refused =>
          LET size == FrameBytes[reply'.ref]
          IN  \/ size > Budget /\ entries' = entries
              \/ /\ DOMAIN entries' = KeptBefore
                 /\ \A n \in KeptBefore : entries'[n] = entries[n]
                 /\ ResidentBytes(entries') + size > Budget]_vars

\* The inductive invariant of the proofs: an entry holds the frame its handle
\* was issued for, and its recorded size is that frame's and within the budget.
EntriesFaithful ==
    \A n \in DOMAIN entries :
        /\ entries[n].frame = issued[n]
        /\ entries[n].bytes <= Budget

StoreInv == TypeOK /\ EntriesFaithful /\ OneWorkingFrame /\ WithinBudget

\* The store implements the archive of its docstring.  The archive is asked for a
\* handle by a get that names one; not by one that a label answers, because the
\* frame of the handle is gone and another was labelled like it.
HandleOf(ref) == ref[2]
AsksArchive ==
    /\ reply.call = "get"
    /\ reply.ref \in {CapId(n) : n \in 0..MaxPuts}
    /\ HandleOf(reply.ref) \in DOMAIN entries \/ reply.value = "KeyError"

ArchiveAnswer ==
    IF AsksArchive
    THEN <<HandleOf(reply.ref), IF reply.value = "KeyError" THEN "gone" ELSE reply.value>>
    ELSE <<"none">>

Archive == INSTANCE FrameArchive WITH
    Handles  <- 0..MaxPuts,
    Gone     <- "gone",
    NoAnswer <- <<"none">>,
    bound    <- issued,
    live     <- DOMAIN entries,
    pinned   <- {n \in DOMAIN entries : entries[n].kept},
    answer   <- ArchiveAnswer

ImplementsArchive == Archive!Spec

=============================================================================
