-------------------------- MODULE Notifications_proofs --------------------------
(***************************************************************************)
(* Proofs about Notifications, for any pages, workers, labels and URLs and *)
(* lists of any length: what is saved is what some admin typed, and what   *)
(* is left alone on a page keeps its URL where labels tell targets apart.  *)
(***************************************************************************)
EXTENDS Notifications, FiniteSetTheorems, SequenceTheorems, TLAPS

\* Settings that may be saved: they can deliver, to URLs of a set.
Sound(s, urls) ==
    /\ s \in Settings
    /\ Deliverable(s)
    /\ UrlsOf(s.targets) \subseteq urls

\* The saved ones, every copy of them and every save under way: what they
\* deliver to was typed.
AllSound ==
    /\ Sound(stored, typed)
    /\ \A w \in Workers : cache[w] # Missing => Sound(cache[w], typed)
    /\ \A a \in Admins : At(a, "save") => Sound(req[a].to, typed)

\* An entry of a page has a URL of a set, or hides a target that the page was
\* filled from, under the label that it has there.
Accounted(entry, targets, urls) ==
    IF entry.url = Masked
    THEN \E k \in DOMAIN targets :
             targets[k] = [label |-> entry.label, url |-> entry.hides]
    ELSE entry.url \in urls

PagesAreKnown ==
    \A a \in Admins : \A i \in DOMAIN page[a] :
        Accounted(page[a][i], shown[a], typed)

IInv == TypeOK /\ AllSound /\ PagesAreKnown /\ LeftAloneKeepsUrl

-----------------------------------------------------------------------------
(* Places in a list.  A place's rank is how many come up to it: ranks tell  *)
(* places apart, so a set of n places has one of each rank from 1 to n.     *)

Rank(S, i) == Cardinality({k \in S : k <= i})

LEMMA RankType ==
    ASSUME NEW S \in SUBSET Nat, IsFiniteSet(S), NEW i \in S
    PROVE  Rank(S, i) \in 1..Cardinality(S)
  <1> DEFINE upTo == {k \in S : k <= i}
  <1>1. upTo \in SUBSET S /\ i \in upTo
    OBVIOUS
  <1>2. IsFiniteSet(upTo) /\ Cardinality(upTo) <= Cardinality(S)
    BY <1>1, FS_Subset
  <1>3. Cardinality(upTo) \in Nat /\ Cardinality(S) \in Nat
    BY <1>2, FS_CardinalityType
  <1>4. Cardinality(upTo) # 0
    BY <1>1, <1>2, FS_EmptySet
  <1> QED
    BY <1>2, <1>3, <1>4 DEF Rank

LEMMA RankGrows ==
    ASSUME NEW S \in SUBSET Nat, IsFiniteSet(S), NEW i \in S, NEW j \in S,
           i < j
    PROVE  Rank(S, i) < Rank(S, j)
  <1> DEFINE low == {k \in S : k <= i}
             high == {k \in S : k <= j}
  <1>1. IsFiniteSet(high)
    BY FS_Subset, high \in SUBSET S
  <1>2. low \in SUBSET high
    <2>1. \A k \in S : k <= i => k <= j
      OBVIOUS
    <2> QED
      BY <2>1
  <1>3. j \in high /\ j \notin low
    OBVIOUS
  <1>4. /\ IsFiniteSet(low)
        /\ Cardinality(low) <= Cardinality(high)
        /\ Cardinality(high) = Cardinality(low) => high = low
    BY <1>1, <1>2, FS_Subset
  <1>5. Cardinality(low) \in Nat /\ Cardinality(high) \in Nat
    BY <1>1, <1>4, FS_CardinalityType
  <1> QED
    BY <1>3, <1>4, <1>5 DEF Rank

LEMMA RankTellsApart ==
    ASSUME NEW S \in SUBSET Nat, IsFiniteSet(S), NEW i \in S, NEW j \in S,
           Rank(S, i) = Rank(S, j)
    PROVE  i = j
  <1>1. Rank(S, i) \in Nat /\ Rank(S, j) \in Nat
    BY RankType
  <1>2. i \in Nat /\ j \in Nat
    OBVIOUS
  <1>3. CASE i < j
    BY <1>1, <1>3, RankGrows
  <1>4. CASE j < i
    BY <1>1, <1>4, RankGrows
  <1> QED
    BY <1>2, <1>3, <1>4

LEMMA RankTaken ==
    ASSUME NEW S \in SUBSET Nat, IsFiniteSet(S), NEW n \in 1..Cardinality(S)
    PROVE  \E i \in S : Rank(S, i) = n
  <1> DEFINE ranks == 1..Cardinality(S)
             f == [i \in S |-> Rank(S, i)]
  <1>1. Cardinality(S) \in Nat
    BY FS_CardinalityType
  <1>2. IsFiniteSet(ranks) /\ Cardinality(ranks) = Cardinality(S)
    BY <1>1, FS_Interval
  <1>3. f \in Injection(S, ranks)
    BY RankType, RankTellsApart DEF Injection, IsInjective
  <1>4. f \in Surjection(S, ranks)
    <2> HIDE DEF f, ranks
    <2> QED
      BY <1>2, <1>3, FS_Injection
  <1> QED
    BY <1>4 DEF Surjection

LEMMA NthPlace ==
    ASSUME NEW S \in SUBSET Nat, IsFiniteSet(S), NEW n \in 1..Cardinality(S)
    PROVE  Nth(S, n) \in S
  <1>1. \E i \in S : Cardinality({k \in S : k <= i}) = n
    BY RankTaken DEF Rank
  <1> QED
    BY <1>1 DEF Nth

LEMMA EveryPlaceIsNth ==
    ASSUME NEW S \in SUBSET Nat, IsFiniteSet(S), NEW i \in S
    PROVE  \E n \in 1..Cardinality(S) : Nth(S, n) = i
  <1>1. Rank(S, i) \in 1..Cardinality(S)
    BY RankType
  <1>2. /\ Nth(S, Rank(S, i)) \in S
        /\ Rank(S, Nth(S, Rank(S, i))) = Rank(S, i)
    <2>1. \E k \in S : Cardinality({l \in S : l <= k}) = Rank(S, i)
      BY DEF Rank
    <2> DEFINE r == Rank(S, i)
    <2>2. \E k \in S : Cardinality({l \in S : l <= k}) = r
      BY <2>1
    <2> HIDE DEF r
    <2>3. Nth(S, r) \in S /\ Cardinality({l \in S : l <= Nth(S, r)}) = r
      BY <2>2 DEF Nth
    <2> QED
      BY <2>3 DEF Rank, r
  <1>3. \A k \in S : Rank(S, k) = Rank(S, i) => k = i
    BY RankTellsApart
  <1>4. Nth(S, Rank(S, i)) = i
    BY <1>2, <1>3
  <1> QED
    BY <1>1, <1>4

LEMMA LastPlace ==
    ASSUME NEW S \in SUBSET Nat, IsFiniteSet(S), S # {}
    PROVE  Max(S) \in S
  <1>1. Cardinality(S) \in Nat /\ Cardinality(S) # 0
    BY FS_CardinalityType, FS_EmptySet
  <1>2. PICK i \in S : Rank(S, i) = Cardinality(S)
    BY <1>1, RankTaken, Cardinality(S) \in 1..Cardinality(S)
  <1>3. {k \in S : k <= i} = S
    BY <1>2, FS_Subset, {k \in S : k <= i} \in SUBSET S DEF Rank
  <1>4. \E m \in S : \A k \in S : m >= k
    BY <1>3
  <1> QED
    BY <1>4 DEF Max

-----------------------------------------------------------------------------
(* Lists. *)

LEMMA ListForm ==
    ASSUME NEW S, NEW s \in Lists(S)
    PROVE  /\ s \in Seq(S) /\ s \in [1..Len(s) -> S]
           /\ Len(s) \in 0..MaxTargets /\ DOMAIN s = 1..Len(s)
           /\ \A i \in DOMAIN s : s[i] \in S
  <1>1. PICK n \in 0..MaxTargets : s \in [1..n -> S]
    BY DEF Lists
  <1>2. n \in Nat
    BY NotificationsAssumption
  <1>3. s \in Seq(S)
    BY <1>1, <1>2, SeqDef
  <1>4. Len(s) = n
    BY <1>1, <1>2, <1>3, LenProperties
  <1> QED
    BY <1>1, <1>3, <1>4

LEMMA IsAList ==
    ASSUME NEW S, NEW s \in Seq(S), Len(s) <= MaxTargets
    PROVE  s \in Lists(S)
  <1>1. Len(s) \in 0..MaxTargets /\ s \in [1..Len(s) -> S]
    BY LenProperties, NotificationsAssumption
  <1> QED
    BY <1>1 DEF Lists

LEMMA ListGrows ==
    ASSUME NEW S, NEW s \in Lists(S), NEW e \in S, Len(s) < MaxTargets
    PROVE  /\ Append(s, e) \in Lists(S)
           /\ \A i \in DOMAIN Append(s, e) :
                 Append(s, e)[i] = e
                 \/ \E k \in DOMAIN s : Append(s, e)[i] = s[k]
  <1>1. s \in Seq(S) /\ Len(s) \in Nat /\ DOMAIN s = 1..Len(s)
    BY ListForm, LenProperties
  <1>2. /\ Append(s, e) \in Seq(S)
        /\ Len(Append(s, e)) = Len(s) + 1
        /\ \A i \in 1..Len(s) : Append(s, e)[i] = s[i]
        /\ Append(s, e)[Len(s) + 1] = e
    BY <1>1
  <1>3. DOMAIN Append(s, e) = 1..(Len(s) + 1)
    BY <1>2, LenProperties
  <1>4. Append(s, e) \in Lists(S)
    <2> DEFINE t == Append(s, e)
    <2>1. t \in Seq(S) /\ Len(t) <= MaxTargets
      BY <1>1, <1>2, NotificationsAssumption
    <2> HIDE DEF t
    <2>2. t \in Lists(S)
      BY <2>1, IsAList
    <2> QED
      BY <2>2 DEF t
  <1> QED
    BY <1>1, <1>2, <1>3, <1>4

LEMMA ListShrinks ==
    ASSUME NEW S, NEW s \in Lists(S), NEW i \in DOMAIN s
    PROVE  /\ RemoveAt(s, i) \in Lists(S)
           /\ \A n \in DOMAIN RemoveAt(s, i) :
                 \E k \in DOMAIN s : RemoveAt(s, i)[n] = s[k]
  <1> DEFINE head == SubSeq(s, 1, i - 1)
             tail == SubSeq(s, i + 1, Len(s))
             all == {s[k] : k \in DOMAIN s}
  <1>1. /\ s \in Seq(S) /\ Len(s) \in 0..MaxTargets /\ Len(s) \in Nat
        /\ DOMAIN s = 1..Len(s) /\ i \in 1..Len(s)
    BY ListForm, LenProperties
  <1>2. all \subseteq S
    BY ListForm
  <1>3. head \in Seq(all) /\ Len(head) = i - 1
    <2>1. \A k \in 1..(i - 1) : s[k] \in all
      BY <1>1
    <2>2. /\ SubSeq(s, 1, i - 1) \in Seq(all)
          /\ Len(SubSeq(s, 1, i - 1)) = IF 1 <= i - 1 THEN i - 1 - 1 + 1 ELSE 0
      <3> HIDE DEF all
      <3> QED
        BY <1>1, <2>1, SubSeqProperties
    <2> QED
      BY <1>1, <2>2
  <1>4. tail \in Seq(all) /\ Len(tail) = Len(s) - i
    <2>1. \A k \in (i + 1)..Len(s) : s[k] \in all
      BY <1>1
    <2>2. /\ SubSeq(s, i + 1, Len(s)) \in Seq(all)
          /\ Len(SubSeq(s, i + 1, Len(s))) =
                IF i + 1 <= Len(s) THEN Len(s) - (i + 1) + 1 ELSE 0
      <3> HIDE DEF all
      <3> QED
        BY <1>1, <2>1, SubSeqProperties
    <2> QED
      BY <1>1, <2>2
  <1>5. /\ RemoveAt(s, i) \in Seq(all)
        /\ Len(RemoveAt(s, i)) = Len(s) - 1
    <2> HIDE DEF all, head, tail
    <2>1. head \o tail \in Seq(all) /\ Len(head \o tail) = Len(head) + Len(tail)
      BY <1>3, <1>4, ConcatProperties
    <2>2. RemoveAt(s, i) = head \o tail
      BY DEF RemoveAt, head, tail
    <2>3. Len(head) + Len(tail) = Len(s) - 1
      BY <1>1, <1>3, <1>4
    <2>4. Len(RemoveAt(s, i)) = Len(head \o tail)
      BY <2>2
    <2>5. Len(RemoveAt(s, i)) = Len(s) - 1
      BY <2>1, <2>3, <2>4
    <2> QED
      BY <2>1, <2>2, <2>5
  <1>6. RemoveAt(s, i) \in Seq(S)
    <2> HIDE DEF all
    <2> QED
      BY <1>2, <1>5, SeqMonotonic
  <1>7. RemoveAt(s, i) \in Lists(S)
    BY <1>1, <1>5, <1>6, IsAList, NotificationsAssumption
  <1>8. \A n \in DOMAIN RemoveAt(s, i) : RemoveAt(s, i)[n] \in all
    <2> HIDE DEF all
    <2> QED
      BY <1>5, LenProperties
  <1> QED
    BY <1>7, <1>8

LEMMA ListChanges ==
    ASSUME NEW S, NEW s \in Lists(S), NEW i \in DOMAIN s, NEW e \in S
    PROVE  /\ [s EXCEPT ![i] = e] \in Lists(S)
           /\ DOMAIN [s EXCEPT ![i] = e] = DOMAIN s
           /\ \A n \in DOMAIN s :
                 [s EXCEPT ![i] = e][n] = IF n = i THEN e ELSE s[n]
  BY DEF Lists

-----------------------------------------------------------------------------
(* The merge. *)

\* A URL that is put back is one of the list's.
LEMMA UrlOfType ==
    ASSUME NEW existing \in Lists(Target), NEW key
    PROVE  UrlOf(existing, key) \in UrlsOf(existing) \cup {NoUrl}
  <1> DEFINE same == {i \in DOMAIN existing : Key(existing[i], i) = key}
  <1>1. DOMAIN existing = 1..Len(existing) /\ Len(existing) \in Nat
    BY ListForm, LenProperties
  <1>2. IsFiniteSet(DOMAIN existing) /\ DOMAIN existing \in SUBSET Nat
    BY <1>1, FS_Interval
  <1>3. same \in SUBSET Nat /\ IsFiniteSet(same) /\ same \subseteq DOMAIN existing
    BY <1>2, FS_Subset, same \in SUBSET DOMAIN existing
  <1>4. ASSUME same # {}
        PROVE  existing[Max(same)].url \in UrlsOf(existing)
    <2>1. Max(same) \in same
      <3> HIDE DEF same
      <3> QED
        BY <1>3, <1>4, LastPlace
    <2>2. Max(same) \in DOMAIN existing
      BY <2>1
    <2> QED
      BY <2>2 DEF UrlsOf
  <1> QED
    BY <1>4 DEF UrlOf

\* Where a label is held by one target only, its URL is put back.
LEMMA UrlOfLabel ==
    ASSUME NEW existing \in Lists(Target), Distinct(existing),
           NEW k \in DOMAIN existing, existing[k].label # Unlabelled
    PROVE  UrlOf(existing, <<existing[k].label, 0>>) = existing[k].url
  <1> DEFINE key == <<existing[k].label, 0>>
             same == {i \in DOMAIN existing : Key(existing[i], i) = key}
  <1>1. DOMAIN existing \in SUBSET Nat
    BY ListForm, LenProperties
  <1>2. same = {k}
    BY DEF Key, Distinct
  <1>3. Max(same) \in same
    <2>1. IsFiniteSet(same) /\ same # {} /\ same \in SUBSET Nat
      BY <1>1, <1>2, FS_Singleton
    <2> HIDE DEF same
    <2> QED
      BY <2>1, LastPlace
  <1>4. Max(same) = k /\ same # {}
    BY <1>2, <1>3
  <1> QED
    BY <1>4 DEF UrlOf

LEMMA RestoredType ==
    ASSUME NEW target \in Entry, NEW i, NEW existing \in Lists(Target)
    PROVE  /\ Restored(target, i, existing) \in Urls \cup {NoUrl}
           /\ Restored(target, i, existing) # NoUrl =>
                 \/ Restored(target, i, existing) \in UrlsOf(existing)
                 \/ target.url # Masked /\ Restored(target, i, existing) = target.url
  <1>1. UrlOf(existing, Key(target, i)) \in UrlsOf(existing) \cup {NoUrl}
    BY UrlOfType
  <1>2. UrlsOf(existing) \subseteq Urls
    <2>1. \A n \in DOMAIN existing : existing[n] \in Target
      BY ListForm
    <2> QED
      BY <2>1 DEF UrlsOf, Target
  <1>3. target.url \in Urls \cup {Masked}
    BY DEF Entry
  <1> QED
    BY <1>1, <1>2, <1>3 DEF Restored

\* What the merge keeps, and that it invents nothing.
LEMMA MergedFacts ==
    ASSUME NEW incoming \in Lists(Entry), NEW existing \in Lists(Target)
    PROVE  /\ Merged(incoming, existing) \in Lists(Target)
           /\ UrlsOf(Merged(incoming, existing)) \subseteq
                 UrlsOf(existing) \cup ({incoming[i].url : i \in DOMAIN incoming}
                                        \ {Masked})
           /\ \A i \in DOMAIN incoming :
                 Restored(incoming[i], i, existing) # NoUrl =>
                    \E n \in DOMAIN Merged(incoming, existing) :
                       Merged(incoming, existing)[n] =
                          [label |-> incoming[i].label,
                           url |-> Restored(incoming[i], i, existing)]
  <1> DEFINE url == [i \in DOMAIN incoming |-> Restored(incoming[i], i, existing)]
             kept == {i \in DOMAIN incoming : url[i] # NoUrl}
             size == Cardinality(kept)
             at(n) == Nth(kept, n)
             m == [n \in 1..size |-> [label |-> incoming[at(n)].label,
                                      url |-> url[at(n)]]]
  <1>1. Merged(incoming, existing) = m
    BY DEF Merged
  <1>2. /\ DOMAIN incoming = 1..Len(incoming) /\ Len(incoming) \in 0..MaxTargets
        /\ Len(incoming) \in Nat /\ \A i \in DOMAIN incoming : incoming[i] \in Entry
    BY ListForm, LenProperties
  <1>3. /\ IsFiniteSet(DOMAIN incoming) /\ DOMAIN incoming \in SUBSET Nat
        /\ Cardinality(DOMAIN incoming) = Len(incoming)
    <2>1. IsFiniteSet(1..Len(incoming)) /\ Cardinality(1..Len(incoming)) = Len(incoming)
      BY <1>2, FS_Interval
    <2>2. 1..Len(incoming) \in SUBSET Nat
      OBVIOUS
    <2> QED
      BY <1>2, <2>1, <2>2
  <1>4. /\ kept \in SUBSET Nat /\ IsFiniteSet(kept)
        /\ size <= Len(incoming) /\ size \in Nat
    <2>1. kept \in SUBSET DOMAIN incoming
      OBVIOUS
    <2>2. IsFiniteSet(kept) /\ size <= Len(incoming)
      <3> HIDE DEF kept
      <3> QED
        BY <1>3, <2>1, FS_Subset
    <2>3. size \in Nat
      BY <2>2, FS_CardinalityType
    <2> QED
      BY <1>3, <2>1, <2>2, <2>3
  <1>5. \A n \in 1..size : at(n) \in kept
    <2> HIDE DEF kept
    <2> QED
      BY <1>4, NthPlace
  <1>6. \A i \in kept : \E n \in 1..size : at(n) = i
    <2> HIDE DEF kept
    <2> QED
      BY <1>4, EveryPlaceIsNth
  <1>7. \A i \in kept :
           /\ incoming[i].label \in Labels /\ url[i] \in Urls
           /\ \/ url[i] \in UrlsOf(existing)
              \/ incoming[i].url # Masked /\ url[i] = incoming[i].url
    BY <1>2, RestoredType DEF Entry
  <1>8. m \in Lists(Target)
    <2>1. \A n \in 1..size : m[n] \in Target
      BY <1>5, <1>7 DEF Target
    <2>2. m \in [1..size -> Target]
      BY <2>1
    <2>3. size \in 0..MaxTargets
      BY <1>2, <1>4, NotificationsAssumption
    <2> HIDE DEF m, size
    <2> QED
      BY <2>2, <2>3 DEF Lists
  <1>9. \A n \in DOMAIN m :
           m[n].url \in UrlsOf(existing)
              \cup ({incoming[i].url : i \in DOMAIN incoming} \ {Masked})
    BY <1>5, <1>7
  <1>10. \A i \in DOMAIN incoming :
            Restored(incoming[i], i, existing) # NoUrl =>
               \E n \in DOMAIN m :
                  m[n] = [label |-> incoming[i].label,
                          url |-> Restored(incoming[i], i, existing)]
    BY <1>6
  <1> HIDE DEF m
  <1>11. UrlsOf(m) = {m[n].url : n \in DOMAIN m}
    BY DEF UrlsOf
  <1> QED
    BY <1>1, <1>8, <1>9, <1>10, <1>11

-----------------------------------------------------------------------------
(* Steps. *)

LEMMA InitHolds == Init => IInv
  <1> SUFFICES ASSUME Init PROVE IInv
    OBVIOUS
  <1>1. <<>> \in Lists(Target) /\ <<>> \in Lists(Entry)
    <2>1. 0 \in 0..MaxTargets
      BY NotificationsAssumption
    <2>2. <<>> \in [1..0 -> Target] /\ <<>> \in [1..0 -> Entry]
      OBVIOUS
    <2> QED
      BY <2>1, <2>2 DEF Lists
  <1>2. Default \in Settings /\ Deliverable(Default)
    BY <1>1 DEF Default, Settings, Deliverable
  <1>3. stored \in Settings /\ Deliverable(stored)
    BY <1>2, FirstAssumption DEF Init
  <1>4. stored.targets \in Lists(Target)
    BY <1>3 DEF Settings
  <1>5. \A i \in DOMAIN stored.targets : stored.targets[i] \in Target
    BY <1>4, ListForm
  <1>6. UrlsOf(stored.targets) \subseteq Urls
    BY <1>5 DEF UrlsOf, Target
  <1>7. TypeOK
    BY <1>1, <1>3, <1>6, NotificationsAssumption DEF Init, TypeOK, Request
  <1>8. AllSound
    BY <1>3 DEF Init, AllSound, Sound, At, Idle
  <1>9. PagesAreKnown
    BY DEF Init, PagesAreKnown
  <1>10. LeftAloneKeepsUrl
    BY DEF Init, LeftAloneKeepsUrl
  <1> QED
    BY <1>7, <1>8, <1>9, <1>10 DEF IInv

LEMMA DefaultSound == \A urls : Sound(Default, urls)
  <1>1. 0 \in 0..MaxTargets
    BY NotificationsAssumption
  <1>2. <<>> \in [1..0 -> Target] /\ UrlsOf(<<>>) = {}
    BY DEF UrlsOf
  <1>3. <<>> \in Lists(Target)
    BY <1>1, <1>2 DEF Lists
  <1> QED
    BY <1>2, <1>3 DEF Sound, Default, Settings, Deliverable

LEMMA Reading ==
    ASSUME IInv, NEW w \in Workers, NEW read, ReadBy(w, read)
    PROVE  /\ Sound(read, typed)
           /\ cache' \in [Workers -> Settings \cup {Missing}]
           /\ \A v \in Workers : cache'[v] # Missing => Sound(cache'[v], typed)
  <1>1. Sound(read, typed)
    BY DefaultSound DEF IInv, AllSound, ReadBy
  <1> QED
    BY <1>1 DEF IInv, TypeOK, AllSound, ReadBy, Sound

LEMMA Forgetting ==
    ASSUME IInv, NEW w \in Workers, cache' = [cache EXCEPT ![w] = Missing]
    PROVE  /\ cache' \in [Workers -> Settings \cup {Missing}]
           /\ \A v \in Workers : cache'[v] # Missing => Sound(cache'[v], typed)
  BY DEF IInv, TypeOK, AllSound

LEMMA FilledFacts ==
    ASSUME NEW targets \in Lists(Target), NEW urls
    PROVE  /\ MaskedList(targets) \in Lists(Entry)
           /\ \A i \in DOMAIN MaskedList(targets) :
                 Accounted(MaskedList(targets)[i], targets, urls)
  <1>1. PICK n \in 0..MaxTargets : targets \in [1..n -> Target]
    BY DEF Lists
  <1>2. MaskedList(targets) \in [1..n -> Entry]
    BY <1>1 DEF MaskedList, Target, Entry
  <1>3. MaskedList(targets) \in Lists(Entry)
    BY <1>2 DEF Lists
  <1>4. \A i \in DOMAIN targets :
           targets[i] = [label |-> targets[i].label, url |-> targets[i].url]
    BY <1>1 DEF Target
  <1>5. \A i \in DOMAIN MaskedList(targets) :
           Accounted(MaskedList(targets)[i], targets, urls)
    BY <1>4 DEF Accounted, MaskedList
  <1> QED
    BY <1>3, <1>5

\* A page is changed only while it saves nothing.
LEMMA ChangedPage ==
    ASSUME IInv, NEW a \in Admins, At(a, "idle"), NEW p,
           page' = [page EXCEPT ![a] = p], UNCHANGED <<req, fresh>>,
           \A b \in Admins \ {a} : shown'[b] = shown[b]
    PROVE  LeftAloneKeepsUrl'
  <1> SUFFICES ASSUME NEW b \in Admins, At(b, "save")', fresh'[b],
                      Named(shown'[b]), Distinct(shown'[b])
               PROVE  Preserves(b)'
    BY DEF LeftAloneKeepsUrl
  <1>1. At(b, "save")
    BY DEF At
  <1>2. b # a
    BY <1>1 DEF At
  <1>3. page'[b] = page[b] /\ req'[b] = req[b] /\ shown'[b] = shown[b] /\ fresh[b]
    BY <1>2 DEF IInv, TypeOK
  <1>4. Preserves(b)
    BY <1>1, <1>3 DEF IInv, LeftAloneKeepsUrl
  <1> QED
    BY <1>3, <1>4 DEF Preserves

LEMMA LoadKeeps ==
    ASSUME IInv, NEW a \in Admins, NEW w \in Workers, NEW read,
           Load(a, w, read)
    PROVE  IInv'
  <1> DEFINE targets == read.targets
  <1>1. /\ Sound(read, typed)
        /\ cache' \in [Workers -> Settings \cup {Missing}]
        /\ \A v \in Workers : cache'[v] # Missing => Sound(cache'[v], typed)
    BY Reading DEF Load
  <1>2. targets \in Lists(Target)
    BY <1>1 DEF Sound, Settings
  <1>3. /\ MaskedList(targets) \in Lists(Entry)
        /\ \A i \in DOMAIN MaskedList(targets) :
              Accounted(MaskedList(targets)[i], targets, typed)
    BY <1>2, FilledFacts
  <1>4. /\ page' = [page EXCEPT ![a] = MaskedList(targets)]
        /\ shown' = [shown EXCEPT ![a] = targets]
        /\ UNCHANGED <<stored, req, acts, fresh, typed>>
        /\ At(a, "idle")
    BY DEF Load, Fills
  <1> HIDE DEF targets
  <1>5. TypeOK'
    BY <1>1, <1>2, <1>3, <1>4 DEF IInv, TypeOK, Sound
  <1>6. AllSound'
    BY <1>1, <1>4 DEF IInv, AllSound, At
  <1>7. PagesAreKnown'
    BY <1>3, <1>4 DEF IInv, TypeOK, PagesAreKnown
  <1>8. LeftAloneKeepsUrl'
    BY <1>4, ChangedPage DEF IInv, TypeOK
  <1> QED
    BY <1>5, <1>6, <1>7, <1>8 DEF IInv

LEMMA AddKeeps ==
    ASSUME IInv, NEW a \in Admins, NEW l \in Labels, NEW u \in Urls,
           AddTarget(a, l, u)
    PROVE  IInv'
  <1> DEFINE e == Written(l, u)
             p == Append(page[a], e)
  <1>1. page[a] \in Lists(Entry)
    BY DEF IInv, TypeOK
  <1>2. e \in Entry /\ e.url = u /\ u # Masked
    BY NotificationsAssumption DEF Written, Entry
  <1>3. /\ page' = [page EXCEPT ![a] = p]
        /\ typed' = typed \cup {u}
        /\ UNCHANGED <<stored, cache, req, shown, fresh>>
        /\ At(a, "idle") /\ acts < MaxActs /\ acts' = acts + 1
        /\ Len(page[a]) < MaxTargets
    BY DEF AddTarget, Acts
  <1> HIDE DEF e
  <1>4. /\ p \in Lists(Entry)
        /\ \A i \in DOMAIN p : p[i] = e \/ \E k \in DOMAIN page[a] : p[i] = page[a][k]
    BY <1>1, <1>2, <1>3, ListGrows
  <1> HIDE DEF p
  <1>5. TypeOK'
    BY <1>3, <1>4, NotificationsAssumption DEF IInv, TypeOK
  <1>6. AllSound'
    BY <1>3 DEF IInv, AllSound, Sound, At
  <1>7. PagesAreKnown'
    <2> SUFFICES ASSUME NEW b \in Admins, NEW i \in DOMAIN page'[b]
                 PROVE  Accounted(page'[b][i], shown[b], typed')
      BY <1>3 DEF PagesAreKnown
    <2>1. \A c \in Admins : \A k \in DOMAIN page[c] :
             Accounted(page[c][k], shown[c], typed')
      BY <1>3 DEF IInv, PagesAreKnown, Accounted
    <2>2. Accounted(e, shown[b], typed')
      BY <1>2, <1>3 DEF Accounted
    <2>3. page'[b] = IF b = a THEN p ELSE page[b]
      BY <1>3 DEF IInv, TypeOK
    <2> QED
      BY <1>4, <2>1, <2>2, <2>3
  <1>8. LeftAloneKeepsUrl'
    BY <1>3, ChangedPage
  <1> QED
    BY <1>5, <1>6, <1>7, <1>8 DEF IInv

LEMMA RemoveKeeps ==
    ASSUME IInv, NEW a \in Admins, NEW i \in DOMAIN page[a], RemoveTarget(a, i)
    PROVE  IInv'
  <1> DEFINE p == RemoveAt(page[a], i)
  <1>1. page[a] \in Lists(Entry)
    BY DEF IInv, TypeOK
  <1>2. /\ p \in Lists(Entry)
        /\ \A n \in DOMAIN p : \E k \in DOMAIN page[a] : p[n] = page[a][k]
    BY <1>1, ListShrinks
  <1>3. /\ page' = [page EXCEPT ![a] = p]
        /\ UNCHANGED <<stored, cache, req, shown, fresh, typed>>
        /\ At(a, "idle") /\ acts < MaxActs /\ acts' = acts + 1
    BY DEF RemoveTarget, Acts
  <1> HIDE DEF p
  <1>4. TypeOK'
    BY <1>2, <1>3, NotificationsAssumption DEF IInv, TypeOK
  <1>5. AllSound'
    BY <1>3 DEF IInv, AllSound, At
  <1>6. PagesAreKnown'
    BY <1>2, <1>3 DEF IInv, TypeOK, PagesAreKnown
  <1>7. LeftAloneKeepsUrl'
    BY <1>3, ChangedPage
  <1> QED
    BY <1>4, <1>5, <1>6, <1>7 DEF IInv

LEMMA EditKeeps ==
    ASSUME IInv, NEW a \in Admins, NEW w \in Workers, NEW i \in DOMAIN page[a],
           NEW l \in Labels, NEW read, EditTarget(a, i, l, w, read)
    PROVE  IInv'
  <1> DEFINE u == IF page[a][i].url = Masked THEN read.targets[i].url
                  ELSE page[a][i].url
             e == Written(l, u)
             p == [page[a] EXCEPT ![i] = e]
  <1>1. page[a] \in Lists(Entry) /\ page[a][i] \in Entry
    BY ListForm DEF IInv, TypeOK
  <1>2. /\ Sound(read, typed)
        /\ cache' \in [Workers -> Settings \cup {Missing}]
        /\ \A v \in Workers : cache'[v] # Missing => Sound(cache'[v], typed)
    BY Reading DEF EditTarget
  <1>3. u \in typed
    BY <1>2 DEF EditTarget, Sound, UrlsOf, IInv, PagesAreKnown, Accounted
  <1>4. u \in Urls /\ u # Masked
    BY <1>3, NotificationsAssumption DEF IInv, TypeOK
  <1>5. /\ page' = [page EXCEPT ![a] = p]
        /\ UNCHANGED <<stored, req, shown, fresh, typed>>
        /\ At(a, "idle") /\ acts < MaxActs /\ acts' = acts + 1
    BY DEF EditTarget, Acts
  <1> HIDE DEF u
  <1>6. e \in Entry /\ e.url = u
    BY <1>4 DEF Written, Entry
  <1> HIDE DEF e
  <1>7. /\ p \in Lists(Entry) /\ DOMAIN p = DOMAIN page[a]
        /\ \A n \in DOMAIN page[a] : p[n] = IF n = i THEN e ELSE page[a][n]
    BY <1>1, <1>6, ListChanges
  <1> HIDE DEF p
  <1>8. TypeOK'
    BY <1>2, <1>5, <1>7, NotificationsAssumption DEF IInv, TypeOK, Sound
  <1>9. AllSound'
    BY <1>2, <1>5 DEF IInv, AllSound, At
  <1>10. PagesAreKnown'
    <2>1. Accounted(e, shown[a], typed)
      BY <1>3, <1>4, <1>6 DEF Accounted
    <2> QED
      BY <1>5, <1>7, <2>1 DEF IInv, TypeOK, PagesAreKnown
  <1>11. LeftAloneKeepsUrl'
    BY <1>5, ChangedPage
  <1> QED
    BY <1>8, <1>9, <1>10, <1>11 DEF IInv

\* The masked targets of a page come through the merge, if the list that they
\* are merged into is the one the page shows and labels tell its targets apart.
LEMMA MergePreserves ==
    ASSUME IInv, NEW a \in Admins, Named(shown[a]), Distinct(shown[a]),
           NEW i \in DOMAIN page[a], page[a][i].url = Masked
    PROVE  \E n \in DOMAIN Merged(page[a], shown[a]) :
              Merged(page[a], shown[a])[n] =
                 [label |-> page[a][i].label, url |-> page[a][i].hides]
  <1> DEFINE entry == page[a][i]
  <1>1. page[a] \in Lists(Entry) /\ shown[a] \in Lists(Target)
    BY DEF IInv, TypeOK
  <1>2. entry \in Entry
    BY <1>1, ListForm
  <1>3. PICK k \in DOMAIN shown[a] :
           shown[a][k] = [label |-> entry.label, url |-> entry.hides]
    BY DEF IInv, PagesAreKnown, Accounted
  <1>4. shown[a][k].label = entry.label /\ shown[a][k].url = entry.hides
    BY <1>3
  <1>5. entry.label # Unlabelled
    BY <1>4 DEF Named
  <1>6. UrlOf(shown[a], <<entry.label, 0>>) = entry.hides
    BY <1>1, <1>4, <1>5, UrlOfLabel
  <1>7. Restored(entry, i, shown[a]) = entry.hides
    BY <1>5, <1>6 DEF Restored, Key
  <1>8. entry.hides # NoUrl
    BY <1>2, NotificationsAssumption DEF Entry
  <1> QED
    BY <1>1, <1>7, <1>8, MergedFacts

LEMMA MergeKeeps ==
    ASSUME IInv, NEW a \in Admins, NEW w \in Workers, NEW enabled \in BOOLEAN,
           NEW events \in SUBSET Events, NEW said \in SUBSET Monitors,
           NEW on \in SUBSET said, NEW existing,
           MergeSave(a, w, existing, enabled, events, said, on)
    PROVE  IInv'
  <1> DEFINE targets == Merged(page[a], existing.targets)
             refused == Refused(enabled, events, page[a], targets)
             to == Normalized(enabled, events, said, on, targets, existing)
             save == [at |-> "save", on |-> w, to |-> to]
  <1>1. /\ Sound(existing, typed)
        /\ cache' \in [Workers -> Settings \cup {Missing}]
        /\ \A v \in Workers : cache'[v] # Missing => Sound(cache'[v], typed)
    BY Reading DEF MergeSave
  <1>2. page[a] \in Lists(Entry) /\ existing.targets \in Lists(Target)
    BY <1>1 DEF IInv, TypeOK, Sound, Settings
  <1>3. /\ targets \in Lists(Target)
        /\ UrlsOf(targets) \subseteq
              UrlsOf(existing.targets)
                 \cup ({page[a][i].url : i \in DOMAIN page[a]} \ {Masked})
    BY <1>2, MergedFacts
  <1>4. UrlsOf(targets) \subseteq typed
    <2>1. {page[a][i].url : i \in DOMAIN page[a]} \ {Masked} \subseteq typed
      BY DEF IInv, PagesAreKnown, Accounted
    <2>2. UrlsOf(existing.targets) \subseteq typed
      BY <1>1 DEF Sound
    <2> QED
      BY <1>3, <2>1, <2>2
  <1>5. /\ At(a, "idle") /\ acts < MaxActs /\ acts' = acts + 1
        /\ req' = [req EXCEPT ![a] = IF refused THEN Idle ELSE save]
        /\ fresh' = [fresh EXCEPT ![a] = ~refused /\ existing.targets = shown[a]]
        /\ UNCHANGED <<stored, page, shown, typed>>
    BY DEF MergeSave, Acts
  <1>6. ~refused => Sound(to, typed)
    <2> HIDE DEF targets
    <2>1. existing \in Settings /\ Deliverable(existing)
      BY <1>1 DEF Sound
    <2>2. to \in Settings /\ to.targets = targets
      BY <1>3, <2>1, NotificationsAssumption DEF Normalized, Settings
    <2>3. ~refused => Deliverable(to)
      BY DEF Refused, Deliverable, Normalized
    <2> QED
      BY <1>4, <2>2, <2>3 DEF Sound
  <1>7. to.targets = targets
    BY DEF Normalized
  <1> HIDE DEF to, refused
  <1>8. TypeOK'
    <2>1. ~refused => save \in Request
      BY <1>6 DEF Request, Sound
    <2>2. req' \in [Admins -> Request]
      BY <1>5, <2>1 DEF IInv, TypeOK, Request
    <2>3. fresh' \in [Admins -> BOOLEAN]
      BY <1>5 DEF IInv, TypeOK
    <2>4. acts' \in 0..MaxActs
      BY <1>5, NotificationsAssumption DEF IInv, TypeOK
    <2> QED
      BY <1>1, <1>5, <2>2, <2>3, <2>4 DEF IInv, TypeOK, Sound
  <1>9. AllSound'
    BY <1>1, <1>5, <1>6 DEF IInv, TypeOK, AllSound, At, Idle
  <1>10. PagesAreKnown'
    BY <1>5 DEF IInv, PagesAreKnown
  <1>11. LeftAloneKeepsUrl'
    <2> SUFFICES ASSUME NEW b \in Admins, At(b, "save")', fresh'[b],
                        Named(shown[b]), Distinct(shown[b]),
                        NEW i \in DOMAIN page[b], page[b][i].url = Masked
                 PROVE  \E k \in DOMAIN req'[b].to.targets :
                           req'[b].to.targets[k] =
                              [label |-> page[b][i].label, url |-> page[b][i].hides]
      BY <1>5 DEF LeftAloneKeepsUrl, Preserves
    <2>1. CASE b = a
      <3>1. existing.targets = shown[a] /\ ~refused
        BY <1>5, <2>1 DEF IInv, TypeOK
      <3>2. req'[a].to.targets = Merged(page[a], shown[a])
        BY <1>5, <1>7, <3>1 DEF IInv, TypeOK
      <3> QED
        BY <2>1, <3>2, MergePreserves
    <2>2. CASE b # a
      <3>1. req'[b] = req[b] /\ fresh[b]
        BY <1>5, <2>2 DEF IInv, TypeOK
      <3> QED
        BY <3>1 DEF IInv, LeftAloneKeepsUrl, Preserves, At
    <2> QED
      BY <2>1, <2>2
  <1> QED
    BY <1>8, <1>9, <1>10, <1>11 DEF IInv

\* A save that ends leaves the others as they were.
LEMMA EndedSaves ==
    ASSUME IInv,
           \A b \in Admins : At(b, "save")' =>
               /\ req'[b] = req[b] /\ (fresh'[b] => fresh[b])
               /\ page'[b] = page[b] /\ shown'[b] = shown[b]
    PROVE  LeftAloneKeepsUrl'
  <1> SUFFICES ASSUME NEW b \in Admins, At(b, "save")', fresh'[b],
                      Named(shown'[b]), Distinct(shown'[b])
               PROVE  Preserves(b)'
    BY DEF LeftAloneKeepsUrl
  <1>1. At(b, "save") /\ Preserves(b)
    BY DEF IInv, LeftAloneKeepsUrl, At
  <1> QED
    BY <1>1 DEF Preserves

LEMMA SavingForm ==
    ASSUME IInv, NEW a \in Admins, At(a, "save")
    PROVE  req[a].on \in Workers /\ Sound(req[a].to, typed)
  <1>1. req[a] \in Request /\ req[a].at = "save"
    BY DEF IInv, TypeOK, At
  <1> QED
    BY <1>1 DEF IInv, AllSound, Request, Idle

LEMMA CommitKeeps ==
    ASSUME IInv, NEW a \in Admins, CommitSave(a)
    PROVE  IInv'
  <1> DEFINE targets == req[a].to.targets
             w == req[a].on
  <1>1. w \in Workers /\ Sound(req[a].to, typed)
    BY SavingForm DEF CommitSave
  <1>2. /\ stored' = req[a].to
        /\ cache' = [cache EXCEPT ![w] = Missing]
        /\ req' = [req EXCEPT ![a] = Idle]
        /\ fresh' = [fresh EXCEPT ![a] = FALSE]
        /\ page' = [page EXCEPT ![a] = MaskedList(targets)]
        /\ shown' = [shown EXCEPT ![a] = targets]
        /\ UNCHANGED <<acts, typed>>
    BY DEF CommitSave, Fills
  <1>3. targets \in Lists(Target)
    BY <1>1 DEF Sound, Settings
  <1>4. /\ MaskedList(targets) \in Lists(Entry)
        /\ \A i \in DOMAIN MaskedList(targets) :
              Accounted(MaskedList(targets)[i], targets, typed)
    BY <1>3, FilledFacts
  <1> HIDE DEF targets, w
  <1>5. /\ cache' \in [Workers -> Settings \cup {Missing}]
        /\ \A v \in Workers : cache'[v] # Missing => Sound(cache'[v], typed)
    BY <1>1, <1>2, Forgetting
  <1>6. TypeOK'
    BY <1>1, <1>2, <1>3, <1>4, <1>5 DEF IInv, TypeOK, Sound, Request
  <1>7. AllSound'
    BY <1>1, <1>2, <1>5 DEF IInv, TypeOK, AllSound, At, Idle
  <1>8. PagesAreKnown'
    BY <1>2, <1>4 DEF IInv, TypeOK, PagesAreKnown
  <1>9. LeftAloneKeepsUrl'
    BY <1>2, EndedSaves DEF IInv, TypeOK, At, Idle
  <1> QED
    BY <1>6, <1>7, <1>8, <1>9 DEF IInv

LEMMA FailureKeeps ==
    ASSUME IInv, NEW a \in Admins, SaveFails(a)
    PROVE  IInv'
  <1>1. TypeOK'
    BY DEF IInv, TypeOK, SaveFails, Request
  <1>2. AllSound'
    BY DEF IInv, TypeOK, AllSound, SaveFails, At, Idle
  <1>3. PagesAreKnown'
    BY DEF IInv, PagesAreKnown, SaveFails
  <1>4. LeftAloneKeepsUrl'
    BY EndedSaves DEF IInv, TypeOK, SaveFails, At, Idle
  <1> QED
    BY <1>1, <1>2, <1>3, <1>4 DEF IInv

LEMMA ForgetKeeps ==
    ASSUME IInv, NEW w \in Workers, Forget(w)
    PROVE  IInv'
  <1>1. /\ cache' \in [Workers -> Settings \cup {Missing}]
        /\ \A v \in Workers : cache'[v] # Missing => Sound(cache'[v], typed)
        /\ UNCHANGED <<stored, page, req, acts, shown, fresh, typed>>
    BY Forgetting DEF Forget
  <1>2. TypeOK'
    BY <1>1 DEF IInv, TypeOK, Sound
  <1>3. AllSound' /\ PagesAreKnown'
    BY <1>1 DEF IInv, AllSound, PagesAreKnown, At
  <1>4. LeftAloneKeepsUrl'
    BY <1>1, EndedSaves
  <1> QED
    BY <1>2, <1>3, <1>4 DEF IInv

LEMMA RestartKeeps ==
    ASSUME IInv, NEW w \in Workers, Restart(w)
    PROVE  IInv'
  <1> DEFINE lost == {a \in Admins : At(a, "save") /\ req[a].on = w}
  <1>1. /\ cache' \in [Workers -> Settings \cup {Missing}]
        /\ \A v \in Workers : cache'[v] # Missing => Sound(cache'[v], typed)
    BY Forgetting DEF Restart
  <1>2. /\ req' = [a \in Admins |-> IF a \in lost THEN Idle ELSE req[a]]
        /\ fresh' = [a \in Admins |-> fresh[a] /\ a \notin lost]
        /\ UNCHANGED <<stored, page, acts, shown, typed>>
    BY DEF Restart
  <1> HIDE DEF lost
  <1>3. TypeOK'
    <2>1. req' \in [Admins -> Request]
      BY <1>2 DEF IInv, TypeOK, Request
    <2>2. fresh' \in [Admins -> BOOLEAN]
      BY <1>2
    <2> QED
      BY <1>1, <1>2, <2>1, <2>2 DEF IInv, TypeOK, Sound
  <1>4. AllSound'
    BY <1>1, <1>2 DEF IInv, AllSound, At, Idle
  <1>5. PagesAreKnown'
    BY <1>2 DEF IInv, PagesAreKnown
  <1>6. LeftAloneKeepsUrl'
    BY <1>2, EndedSaves DEF At, Idle
  <1> QED
    BY <1>3, <1>4, <1>5, <1>6 DEF IInv

LEMMA StepKeeps == IInv /\ [Next]_vars => IInv'
  <1> SUFFICES ASSUME IInv, [Next]_vars PROVE IInv'
    OBVIOUS
  <1>1. CASE UNCHANGED vars
    BY <1>1 DEF vars, IInv, TypeOK, AllSound, PagesAreKnown,
                LeftAloneKeepsUrl, Preserves, At
  <1>2. ASSUME NEW a \in Admins, NEW w \in Workers, NEW read, Load(a, w, read)
        PROVE  IInv'
    BY <1>2, LoadKeeps
  <1>3. ASSUME NEW a \in Admins, NEW w \in Workers,
               NEW i \in DOMAIN page[a], NEW l \in Labels, NEW read,
               EditTarget(a, i, l, w, read)
        PROVE  IInv'
    BY <1>3, EditKeeps
  <1>4. ASSUME NEW a \in Admins, NEW w \in Workers, NEW enabled \in BOOLEAN,
               NEW events \in SUBSET Events, NEW said \in SUBSET Monitors,
               NEW on \in SUBSET said,
               NEW read, MergeSave(a, w, read, enabled, events, said, on)
        PROVE  IInv'
    BY <1>4, MergeKeeps
  <1>5. ASSUME NEW a \in Admins, NEW l \in Labels, NEW u \in Urls,
               AddTarget(a, l, u)
        PROVE  IInv'
    BY <1>5, AddKeeps
  <1>6. ASSUME NEW a \in Admins, NEW i \in DOMAIN page[a], RemoveTarget(a, i)
        PROVE  IInv'
    BY <1>6, RemoveKeeps
  <1>7. ASSUME NEW a \in Admins, CommitSave(a) \/ SaveFails(a)
        PROVE  IInv'
    BY <1>7, CommitKeeps, FailureKeeps
  <1>8. ASSUME NEW w \in Workers, Forget(w) \/ Restart(w)
        PROVE  IInv'
    BY <1>8, ForgetKeeps, RestartKeeps
  <1> QED
    BY <1>1, <1>2, <1>3, <1>4, <1>5, <1>6, <1>7, <1>8 DEF Next

-----------------------------------------------------------------------------
(* Theorems. *)

LEMMA Invariance == Spec => []IInv
  BY InitHolds, StepKeeps, PTL DEF Spec

\* The settings, every worker's copy and every page keep their types, and what
\* is saved can deliver, whatever the merge has dropped
\* (normalize_notification_payload).
THEOREM TypeCorrectness == Spec => []TypeOK
  BY Invariance, PTL DEF IInv

\* However many admins save lists of whatever age over each other, through
\* workers with whatever copies: no mask is ever saved as a URL, and no URL
\* that nobody typed (merge_target_urls).
THEOREM UrlsWereTypedHolds == Spec => []UrlsWereTyped
  <1>1. IInv => UrlsWereTyped
    BY DEF IInv, AllSound, Sound, UrlsWereTyped
  <1> QED
    BY <1>1, Invariance, PTL

\* What an admin leaves alone keeps its URL where every target has a label of
\* its own and the worker has the list that the page shows.
THEOREM LeftAloneKeepsUrlHolds == Spec => []LeftAloneKeepsUrl
  BY Invariance, PTL DEF IInv
=============================================================================
