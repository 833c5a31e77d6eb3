------------------------- MODULE ShopifyIngestProofs -------------------------
(***************************************************************************)
(* Proofs about ShopifyIngest, for any items, handlers, syncs and pages.   *)
(* The properties speak of the tables and of syncs about to stamp; what    *)
(* makes them inductive is what a handler knows of its order between its   *)
(* commits, and what an undisturbed sync has mirrored up to its cursor.    *)
(***************************************************************************)
EXTENDS ShopifyIngest, FiniteSetTheorems, SequenceTheorems, TLAPS

(* Nothing is stored that Shopify does not have, and it announced the orders it
   has. *)
OnlyShopifys ==
    /\ \A i \in Items : stored[i] > 0 => upstream[i] > 0
    /\ \A o \in Orders : notice[o] # "none" <=> upstream[o] > 0

(* A handler is about an order of Shopify's; before it marks, its event is in
   with the order's row; before it answers, some event is in. *)
HookFine(h) ==
    /\ h.pc # "idle" => h.order \in Orders /\ upstream[h.order] > 0
    /\ h.pc = "marking" =>
          /\ h.event \in DOMAIN events
          /\ events[h.event].external_id = h.order
          /\ stored[h.order] > 0
    /\ h.pc = "answering" => EventsOf(h.order) # {}

(* The items a sync brings up to date by the end of this half, and those it has
   been through so far. *)
Owed(q) == Through(q.table) \cap Listed(q.shop)
Behind(q) == {i \in Owed(q) : i \notin Table(q.table) \/ i <= q.cursor}

(* A sync that nothing interfered with has brought every item behind it up to date,
   or will have done so once the page in hand is merged. *)
SyncFine(q) ==
    /\ q.pc = "upserting" => \A i \in Items : q.page[i] > 0 => upstream[i] > 0
    /\ q.alone =>
          /\ q.pc = "fetching" =>
                \A i \in Behind(q) : stored[i] = upstream[i]
          /\ q.pc = "upserting" =>
                \A i \in Owed(q) :
                    i \in Behind(q) \/ ~q.more => Merged(q.page)[i] = upstream[i]
          /\ q.pc = "stamping" =>
                \A i \in Owed(q) : stored[i] = upstream[i]

IInv ==
    /\ TypeOK
    /\ OnlyShopifys
    /\ ProcessedIsStored
    /\ AcknowledgedIsRecorded
    /\ \A w \in Hooks : HookFine(hook[w])
    /\ \A s \in Syncs : SyncFine(sync[s])

-----------------------------------------------------------------------------

LEMMA ConstantsTyped ==
    /\ Items \subseteq Nat \ {0} /\ IsFiniteSet(Items)
    /\ Products \cap Orders = {}
    /\ PAGE_SIZE \in Nat \ {0} /\ MAX_VERSION \in Nat \ {0} /\ MAX_POSTS \in Nat /\ MAX_CHANGES \in Nat
    /\ \A kind \in Tables : Table(kind) \subseteq Through(kind) /\ Through(kind) \subseteq Items
BY IngestAssumption, FS_Union DEF IngestAssumption, Items, Tables, Table, Through

(* A finite set of numbers has a greatest element, which Max chooses. *)
LEMMA MaxIsGreatest ==
    ASSUME NEW S, IsFiniteSet(S), S \subseteq Nat, S # {}
    PROVE  Max(S) \in S /\ \A y \in S : Max(S) >= y
<1> DEFINE Above(i) == {j \in S : j > i}
           T == {Above(i) : i \in S}
<1>1. T \subseteq FiniteSubsetsOf(S)
  BY FS_Subset DEF FiniteSubsetsOf
<1>2. T # {}
  OBVIOUS
<1>3. IsWellFoundedOn(StrictSubsetOrdering(S), FiniteSubsetsOf(S))
  BY FS_StrictSubsetOrderingWellFounded
<1>4. PICK U \in T : \A V \in T : ~(<<V, U>> \in StrictSubsetOrdering(S))
  <2> HIDE DEF T
  <2> QED BY <1>1, <1>2, <1>3, WFMin
<1>5. PICK m \in S : U = Above(m)
  BY <1>4
<1>6. ASSUME NEW y \in S, y > m
      PROVE  FALSE
  <2>1. Above(y) \subseteq Above(m) /\ y \in Above(m) /\ y \notin Above(y)
    <3>1. m \in Nat /\ y \in Nat /\ \A j \in S : j \in Nat
      OBVIOUS
    <3>2. \A j \in S : j > y => j > m
      BY <1>6, <3>1
    <3>3. ~(y > y)
      BY <3>1
    <3> QED BY <1>6, <3>2, <3>3
  <2>2. Above(y) \in T
    <3> HIDE DEF Above
    <3> QED BY <1>6
  <2>3. Above(y) \in SUBSET S /\ Above(m) \in SUBSET S
    OBVIOUS
  <2>4. Above(y) # Above(m)
    BY <2>1
  <2>5. <<Above(y), Above(m)>> \in StrictSubsetOrdering(S)
    <3> HIDE DEF Above
    <3> QED BY <2>1, <2>3, <2>4 DEF StrictSubsetOrdering
  <2> QED BY <1>4, <1>5, <2>2, <2>5
<1>7. \A y \in S : m >= y
  BY <1>6
<1> QED BY <1>7 DEF Max

(* A page takes the first ids beyond the cursor: it skips none. *)
LEMMA PageSkipsNothing ==
    ASSUME NEW q, q.cursor \in Nat, NEW i \in Beyond(q),
           i <= Max(PageIds(q) \cup {q.cursor})
    PROVE  i \in PageIds(q)
<1> DEFINE cursor == q.cursor
           B == Beyond(q)
           ids == PageIds(q)
           Below(k) == {j \in B : j < k}
<1>1. B \subseteq Items /\ ids \subseteq B /\ i > cursor
  BY DEF Beyond, PageIds, Listed
<1>2. \A k \in B : k \in Nat
  BY <1>1, ConstantsTyped
<1>3. IsFiniteSet(B) /\ \A k \in B : IsFiniteSet(Below(k)) /\ Cardinality(Below(k)) \in Nat
  <2>1. IsFiniteSet(B)
    BY <1>1, ConstantsTyped, FS_Subset
  <2> HIDE DEF B
  <2>2. \A k \in B : Below(k) \in SUBSET B
    OBVIOUS
  <2> HIDE DEF Below
  <2> QED BY <2>1, <2>2, FS_Subset, FS_CardinalityType
<1>4. IsFiniteSet(ids \cup {cursor}) /\ ids \cup {cursor} \subseteq Nat
  <2>1. IsFiniteSet(ids)
    BY <1>1, <1>3, FS_Subset
  <2> HIDE DEF ids
  <2> QED BY <1>1, <1>2, <2>1, FS_AddElement
<1>5. PICK m \in ids \cup {cursor} : i <= m
  <2> HIDE DEF ids
  <2>1. Max(ids \cup {cursor}) \in ids \cup {cursor}
    BY <1>4, MaxIsGreatest
  <2> QED BY <2>1 DEF ids
<1>6. m \in ids /\ m \in B
  BY <1>1, <1>2, <1>5
<1>7. Cardinality(Below(m)) < PAGE_SIZE
  BY <1>6 DEF PageIds
<1>8. Below(i) \in SUBSET Below(m)
  BY <1>2, <1>5, <1>6
<1>9. Cardinality(Below(i)) <= Cardinality(Below(m))
  <2> HIDE DEF Below, B
  <2> QED BY <1>3, <1>6, <1>8, FS_Subset
<1>10. Cardinality(Below(i)) < PAGE_SIZE
  <2> HIDE DEF Below, B
  <2>1. Cardinality(Below(i)) \in Nat /\ Cardinality(Below(m)) \in Nat
    BY <1>3, <1>6 DEF B
  <2> QED BY <1>7, <1>9, <2>1, ConstantsTyped
<1> QED BY <1>10 DEF PageIds

LEMMA CursorMoves ==
    ASSUME NEW q, q.cursor \in Items \cup {0}
    PROVE  Max(PageIds(q) \cup {q.cursor}) \in Items \cup {0}
<1> DEFINE cursor == q.cursor
           ids == PageIds(q)
<1>1. ids \subseteq Items
  BY DEF PageIds, Beyond, Listed
<1> HIDE DEF ids
<1>2. IsFiniteSet(ids \cup {cursor}) /\ ids \cup {cursor} \subseteq Nat
  <2>1. IsFiniteSet(ids)
    BY <1>1, ConstantsTyped, FS_Subset
  <2>2. IsFiniteSet(ids \cup {cursor})
    BY <2>1, FS_AddElement
  <2>3. \A i \in Items : i \in Nat
    BY ConstantsTyped
  <2>4. ids \subseteq Nat /\ cursor \in Nat
    <3> HIDE DEF cursor
    <3> QED BY <1>1, <2>3 DEF cursor
  <2> QED BY <2>2, <2>4
<1>3. Max(ids \cup {cursor}) \in ids \cup {cursor}
  BY <1>2, MaxIsGreatest
<1> QED BY <1>1, <1>3 DEF ids

LEMMA IdleTyped ==
    /\ NoPage \in [Items -> Versions] /\ IdleHook \in Hook /\ IdleSync \in Sync
    /\ HookFine(IdleHook) /\ SyncFine(IdleSync)
BY ConstantsTyped DEF NoPage, IdleHook, IdleSync, Hook, Sync, Versions, Tables,
                      HookFine, SyncFine

(* What a sync claims stays true while nobody writes an item. *)
LEMMA ClaimStays ==
    ASSUME NEW q, SyncFine(q), UNCHANGED <<upstream, removed, stored>>
    PROVE  \A k : k = q => SyncFine(k)'
BY DEF SyncFine, Behind, Owed, Listed, Merged

LEMMA SyncsStay ==
    ASSUME IInv, UNCHANGED <<upstream, removed, stored, sync>>
    PROVE  \A s \in Syncs : SyncFine(sync[s])'
<1> SUFFICES ASSUME NEW s \in Syncs PROVE SyncFine(sync[s])'
  OBVIOUS
<1>1. SyncFine(sync[s]) /\ sync'[s] = sync[s]
  BY DEF IInv
<1>2. \A k : k = sync[s] => SyncFine(k)'
  BY <1>1, ClaimStays
<1> QED BY <1>1, <1>2

-----------------------------------------------------------------------------
(* What a step leaves to prove, by what it changes. *)

(* A step of one handler that commits nothing. *)
LEMMA HookStep ==
    ASSUME IInv, NEW w \in Hooks, NEW h \in Hook, HookFine(h),
           hook' = [hook EXCEPT ![w] = h],
           UNCHANGED <<listing, database, sync>>,
           notice' \in [Orders -> {"none", "unacked", "dropped", "acked"}],
           posts' \in 0 .. MAX_POSTS,
           \A o \in Orders : notice'[o] # "none" <=> upstream[o] > 0,
           \A o \in Orders : notice'[o] = "acked" => EventsOf(o) # {}
    PROVE  IInv'
<1>1. TypeOK'
  BY DEF IInv, TypeOK, database, listing
<1>2. \A o : EventsOf(o)' = EventsOf(o)
  BY DEF EventsOf, database
<1>3. \A v \in Hooks : HookFine(hook[v])'
  <2> SUFFICES ASSUME NEW v \in Hooks PROVE HookFine(hook[v])'
    OBVIOUS
  <2>1. hook'[v] = IF v = w THEN h ELSE hook[v]
    BY DEF IInv, TypeOK
  <2>2. HookFine(hook'[v])
    BY <2>1 DEF IInv
  <2> QED BY <2>2, <1>2 DEF HookFine, database, listing
<1>4. \A s \in Syncs : SyncFine(sync[s])'
  BY SyncsStay DEF database, listing
<1>5. OnlyShopifys' /\ ProcessedIsStored'
  BY DEF IInv, OnlyShopifys, ProcessedIsStored, database, listing
<1>6. AcknowledgedIsRecorded'
  BY <1>2 DEF AcknowledgedIsRecorded
<1> QED BY <1>1, <1>3, <1>4, <1>5, <1>6 DEF IInv

(* A step of one sync that writes no item. *)
LEMMA SyncStep ==
    ASSUME IInv, NEW s \in Syncs, NEW q \in Sync, SyncFine(q),
           sync' = [sync EXCEPT ![s] = q],
           UNCHANGED <<shopify, database, hook>>
    PROVE  IInv'
<1>1. TypeOK'
  BY DEF IInv, TypeOK, shopify, listing, database
<1>2. \A o : EventsOf(o)' = EventsOf(o)
  BY DEF EventsOf, database
<1>3. \A w \in Hooks : HookFine(hook[w])'
  BY <1>2 DEF IInv, HookFine, shopify, listing, database
<1>4. \A t \in Syncs : SyncFine(sync[t])'
  <2> SUFFICES ASSUME NEW t \in Syncs PROVE SyncFine(sync[t])'
    OBVIOUS
  <2>1. sync'[t] = IF t = s THEN q ELSE sync[t]
    BY DEF IInv, TypeOK
  <2>2. SyncFine(sync'[t])
    BY <2>1 DEF IInv
  <2>3. \A k : k = sync'[t] => SyncFine(k)'
    BY <2>2, ClaimStays DEF shopify, listing, database
  <2> QED BY <2>3
<1>5. OnlyShopifys' /\ ProcessedIsStored'
  BY DEF IInv, OnlyShopifys, ProcessedIsStored, shopify, listing, database
<1>6. AcknowledgedIsRecorded'
  BY <1>2 DEF IInv, AcknowledgedIsRecorded, shopify, listing, database
<1> QED BY <1>1, <1>3, <1>4, <1>5, <1>6 DEF IInv

(* A sync that was interfered with claims nothing but its page. *)
LEMMA NotAlone ==
    ASSUME NEW q \in Sync, SyncFine(q),
           \A i \in Items : upstream[i] > 0 => upstream'[i] > 0,
           NEW r, r = [q EXCEPT !.alone = FALSE]
    PROVE  r \in Sync /\ (\A k : k = r => SyncFine(k)')
<1>1. r \in Sync /\ r.pc = q.pc /\ r.page = q.page /\ r.alone = FALSE
  BY DEF Sync
<1>2. q.page \in [Items -> Versions]
  BY DEF Sync
<1> QED BY <1>1, <1>2 DEF SyncFine

LEMMA Interference ==
    ASSUME IInv, DisturbAll,
           \A i \in Items : upstream[i] > 0 => upstream'[i] > 0
    PROVE  sync' \in [Syncs -> Sync] /\ \A s \in Syncs : SyncFine(sync[s])'
<1>1. ASSUME NEW s \in Syncs
      PROVE  sync'[s] \in Sync /\ SyncFine(sync[s])'
  <2>1. sync[s] \in Sync /\ SyncFine(sync[s])
    BY DEF IInv, TypeOK
  <2>2. sync'[s] = [sync[s] EXCEPT !.alone = FALSE]
    BY DEF DisturbAll
  <2>3. sync'[s] \in Sync /\ \A k : k = sync'[s] => SyncFine(k)'
    BY <2>1, <2>2, NotAlone
  <2> QED BY <2>3
<1> QED BY <1>1 DEF DisturbAll
-----------------------------------------------------------------------------
(* The actions. *)

(* A handler that goes on is about the same order. *)
LEMMA GotoFine ==
    ASSUME IInv, NEW w \in Hooks, hook[w].pc # "idle",
           NEW pc \in {"checking", "storing", "answering"}, Goto(w, pc),
           pc = "answering" => EventsOf(hook[w].order) # {}
    PROVE  \E h \in Hook : HookFine(h) /\ hook' = [hook EXCEPT ![w] = h]
<1> PICK h : h = [hook[w] EXCEPT !.pc = pc]
  OBVIOUS
<1>1. hook[w] \in Hook /\ HookFine(hook[w])
  BY DEF IInv, TypeOK
<1>2. h \in Hook /\ h.pc = pc /\ h.order = hook[w].order
  BY <1>1 DEF Hook
<1>3. HookFine(h)
  BY <1>1, <1>2 DEF HookFine
<1>4. hook' = [hook EXCEPT ![w] = h]
  BY DEF Goto
<1> QED BY <1>2, <1>3, <1>4

(* The steps of a handler, and of Shopify towards it, that commit nothing. *)
LEMMA HookSteps ==
    ASSUME IInv, NEW w \in Hooks,
           \/ Check(w) \/ UpsertAborts(w) \/ KillHook(w)
           \/ \E o \in Orders : Miss(w, o) \/ Resolve(w, o)
           \/ \E heard \in BOOLEAN : Drop(w, heard) \/ Acknowledge(w, heard)
    PROVE  IInv'
<1> USE DEF shopify, listing, database
<1>1. hook[w] \in Hook /\ HookFine(hook[w])
  BY DEF IInv, TypeOK
<1>2. /\ notice \in [Orders -> {"none", "unacked", "dropped", "acked"}]
      /\ posts \in 0 .. MAX_POSTS
      /\ \A o \in Orders : notice[o] # "none" <=> upstream[o] > 0
      /\ \A o \in Orders : notice[o] = "acked" => EventsOf(o) # {}
  BY DEF IInv, TypeOK, OnlyShopifys, AcknowledgedIsRecorded
<1>4. CASE Check(w)
  <2>1. PICK n \in Found(hook[w].order) :
            Goto(w, IF IsDuplicate(n) THEN "answering" ELSE "storing")
    BY <1>4 DEF Check
  <2>2. IsDuplicate(n) => EventsOf(hook[w].order) # {}
    BY <2>1 DEF Found, IsDuplicate
  <2>3. PICK h \in Hook : HookFine(h) /\ hook' = [hook EXCEPT ![w] = h]
    BY <1>4, <2>1, <2>2, GotoFine DEF Check
  <2> QED BY <1>2, <1>4, <2>3, HookStep DEF Check
<1>5. CASE UpsertAborts(w)
  BY <1>2, <1>5, IdleTyped, HookStep DEF UpsertAborts
<1>6. CASE KillHook(w)
  BY <1>2, <1>6, IdleTyped, HookStep DEF KillHook
<1>7. ASSUME NEW o \in Orders, NEW pc \in {"dropping", "checking"}, Post(w, o, pc)
      PROVE  IInv'
  <2> PICK h : h = [pc |-> pc, order |-> o, event |-> 0]
    OBVIOUS
  <2>1. hook' = [hook EXCEPT ![w] = h] /\ notice[o] = "unacked"
    BY <1>7 DEF Post
  <2>2. upstream[o] > 0
    BY <1>2, <2>1
  <2>3. h \in Hook /\ HookFine(h)
    BY <2>2 DEF Hook, HookFine
  <2>4. posts' \in 0 .. MAX_POSTS
    <3>1. posts \in 0 .. MAX_POSTS /\ posts < MAX_POSTS /\ posts' = posts + 1
      BY <1>2, <1>7 DEF Post
    <3> QED BY <3>1, ConstantsTyped
  <2> QED BY <1>2, <1>7, <2>1, <2>3, <2>4, HookStep DEF Post
<1>11. ASSUME NEW o \in Orders, Miss(w, o) \/ Resolve(w, o)
       PROVE  IInv'
  BY <1>7, <1>11 DEF Miss, Resolve
<1>8. ASSUME NEW heard \in BOOLEAN, NEW verdict \in {"dropped", "acked"},
             hook[w].pc # "idle", Answer(w, verdict, heard),
             UNCHANGED <<database, sync>>,
             verdict = "acked" => EventsOf(hook[w].order) # {}
      PROVE  IInv'
  <2>1. hook[w].order \in Orders /\ upstream[hook[w].order] > 0
    BY <1>1, <1>8 DEF HookFine
  <2>2. \A o \in Orders : notice'[o] \in {notice[o], IF o = hook[w].order THEN verdict
                                                      ELSE notice[o]}
    BY <1>2, <1>8, <2>1 DEF Answer
  <2>3. notice' \in [Orders -> {"none", "unacked", "dropped", "acked"}]
    BY <1>2, <1>8, <2>1 DEF Answer
  <2>4. \A o \in Orders : notice'[o] # "none" <=> upstream[o] > 0
    BY <1>2, <2>1, <2>2
  <2>5. \A o \in Orders : notice'[o] = "acked" => EventsOf(o) # {}
    BY <1>2, <1>8, <2>2
  <2> QED BY <1>2, <1>8, <2>3, <2>4, <2>5, IdleTyped, HookStep DEF Answer
<1>9. ASSUME NEW heard \in BOOLEAN, Drop(w, heard)
      PROVE  IInv'
  BY <1>8, <1>9 DEF Drop
<1>10. ASSUME NEW heard \in BOOLEAN, Acknowledge(w, heard)
       PROVE  IInv'
  BY <1>1, <1>8, <1>10 DEF Acknowledge, HookFine
<1> QED BY <1>4, <1>5, <1>6, <1>9, <1>10, <1>11

(* Fetching keeps the claim: what lies between the old cursor and the new is in
   the page. *)
LEMMA FetchKeepsIInv ==
    ASSUME IInv, NEW s \in Syncs, Fetch(s)
    PROVE  IInv'
<1>1. PICK q : q = sync[s]
  OBVIOUS
<1> DEFINE ids == PageIds(q)
           page == [i \in Items |-> IF i \in ids THEN upstream[i] ELSE 0]
<1> PICK r : r = [q EXCEPT !.pc = "upserting", !.cursor = Max(ids \cup {q.cursor}),
                           !.page = page, !.more = ids # Beyond(q)]
  OBVIOUS
<1>2. /\ q \in Sync /\ SyncFine(q) /\ q.pc = "fetching"
      /\ upstream \in [Items -> Versions] /\ stored \in [Items -> Versions]
  BY <1>1 DEF IInv, TypeOK, Fetch
<1>3. q.table \in Tables /\ q.cursor \in Items \cup {0} /\ q.cursor \in Nat
  BY <1>2, ConstantsTyped DEF Sync
<1>4. r = [pc |-> "upserting", shop |-> q.shop, table |-> q.table,
           cursor |-> Max(ids \cup {q.cursor}),
           page |-> page, more |-> ids # Beyond(q), alone |-> q.alone]
  BY <1>2 DEF Sync
<1>5. /\ r.pc = "upserting" /\ r.shop = q.shop /\ r.table = q.table
      /\ r.cursor = Max(ids \cup {q.cursor})
      /\ r.page = page /\ r.more = (ids # Beyond(q)) /\ r.alone = q.alone
  BY <1>4
<1>6. page \in [Items -> Versions]
  BY <1>2, ConstantsTyped DEF Versions
<1>7. r \in Sync
  <2>1. r.cursor \in Items \cup {0}
    BY <1>3, <1>5, CursorMoves
  <2> QED BY <1>2, <1>4, <1>5, <1>6, <2>1 DEF Sync
<1>8. \A i \in Items : upstream[i] \in Nat /\ stored[i] \in Nat
  BY <1>2, ConstantsTyped DEF Versions
<1>9. \A i \in Items : r.page[i] > 0 => upstream[i] > 0
  BY <1>5, <1>8
<1>10. Owed(r) = Owed(q) /\ Owed(q) \subseteq Listed(q.shop) /\ Owed(q) \subseteq Items
  BY <1>3, <1>5, ConstantsTyped DEF Owed
<1>11. ASSUME r.alone, NEW i \in Owed(r), i \in Behind(r) \/ ~r.more
       PROVE  Merged(r.page)[i] = upstream[i]
  <2>1. i \in Owed(q) /\ i \in Listed(q.shop) /\ i \in Items /\ upstream[i] > 0 /\ i \in Nat
    BY <1>10, <1>11, ConstantsTyped DEF Listed
  <2>2. Merged(r.page)[i] = IF i \in ids /\ upstream[i] # 0 THEN upstream[i] ELSE stored[i]
    BY <1>5, <2>1 DEF Merged
  <2>3. CASE i \in ids
    BY <2>2, <2>3, <2>1, <1>8
  <2>4. CASE i \notin ids
    <3>1. i \notin Beyond(q)
      <4>1. CASE ~r.more
        BY <1>5, <2>4, <4>1
      <4>2. CASE i <= r.cursor
        BY <1>3, <1>5, <2>4, <4>2, PageSkipsNothing
      <4>3. CASE i \notin Table(q.table)
        BY <4>3 DEF Beyond
      <4> QED BY <1>5, <1>11, <4>1, <4>2, <4>3 DEF Behind
    <3>2. i \in Behind(q)
      BY <1>3, <2>1, <3>1 DEF Beyond, Behind
    <3>3. stored[i] = upstream[i]
      BY <1>2, <1>5, <1>11, <3>2 DEF SyncFine
    <3> QED BY <2>2, <2>4, <3>3
  <2> QED BY <2>3, <2>4
<1>12. SyncFine(r)
  BY <1>5, <1>9, <1>11 DEF SyncFine
<1>13. sync' = [sync EXCEPT ![s] = r] /\ UNCHANGED <<shopify, database, hook>>
  BY <1>1 DEF Fetch, Fetched
<1> HIDE DEF ids, page
<1> QED BY <1>7, <1>12, <1>13, SyncStep

LEMMA NothingBelowZero ==
    ASSUME NEW kind \in Tables, NEW i \in Table(kind)
    PROVE  ~(i <= 0)
<1>1. i \in Items
  BY ConstantsTyped
<1>2. i \in Nat \ {0}
  BY <1>1, ConstantsTyped
<1> QED BY <1>2

LEMMA SyncSteps ==
    ASSUME IInv, NEW s \in Syncs, StartSync(s) \/ Stamp(s) \/ KillSync(s)
    PROVE  IInv'
<1>1. sync[s] \in Sync /\ SyncFine(sync[s])
  BY DEF IInv, TypeOK
<1>3. CASE StartSync(s)
  <2>0. PICK r : r = [IdleSync EXCEPT !.pc = "fetching", !.alone = TRUE,
                                      !.shop = connected]
    OBVIOUS
  <2>1. r = [pc |-> "fetching", shop |-> connected, table |-> "products", cursor |-> 0,
             page |-> NoPage, more |-> FALSE, alone |-> TRUE]
    BY <2>0 DEF IdleSync
  <2>2. r \in Sync
    BY <2>1, IdleTyped DEF Sync, Tables, IInv, TypeOK
  <2>3. r.pc = "fetching" /\ r.table = "products" /\ r.cursor = 0
    BY <2>1
  <2>4. SyncFine(r)
    BY <2>3, NothingBelowZero DEF SyncFine, Behind, Owed, Through, Table, Tables
  <2> QED BY <1>3, <2>0, <2>2, <2>4, SyncStep DEF StartSync
<1>4. CASE Stamp(s)
  <2>1. sync' = [sync EXCEPT ![s] = NextPhase(sync[s])]
    BY <1>4 DEF Stamp
  <2>2. NextPhase(sync[s]) \in Sync /\ SyncFine(NextPhase(sync[s]))
    <3>1. CASE sync[s].table = "products"
      <4> PICK r : r = [sync[s] EXCEPT !.pc = "fetching", !.table = "orders", !.cursor = 0]
        OBVIOUS
      <4>1. /\ r \in Sync /\ r.pc = "fetching" /\ r.table = "orders" /\ r.cursor = 0
            /\ r.shop = sync[s].shop /\ r.alone = sync[s].alone
        BY <1>1 DEF Sync, Tables
      <4>2. r.alone => \A i \in Products \cap Listed(r.shop) : stored[i] = upstream[i]
        BY <1>1, <1>4, <3>1, <4>1 DEF SyncFine, Stamp, Owed, Through
      <4>3. \A i \in Behind(r) : i \in Products \cap Listed(r.shop)
        BY <4>1, NothingBelowZero DEF Behind, Owed, Through, Table, Tables, Items
      <4>4. SyncFine(r)
        BY <4>1, <4>2, <4>3 DEF SyncFine
      <4> QED BY <3>1, <4>1, <4>4 DEF NextPhase
    <3> QED BY <3>1, IdleTyped DEF NextPhase
  <2> QED BY <1>4, <2>1, <2>2, SyncStep DEF Stamp
<1>5. CASE KillSync(s)
  BY <1>5, IdleTyped, SyncStep DEF KillSync
<1> QED BY <1>3, <1>4, <1>5

(* A step of Shopify or of the brand that neither writes an item nor changes a
   version. *)
LEMMA ElsewhereStep ==
    ASSUME IInv, UNCHANGED <<upstream, notice, posts, stored, events, hook>>,
           removed' \subseteq Items, changes' \in 0 .. MAX_CHANGES,
           connected' \in Shops \cup {NoShop}, sync' \in [Syncs -> Sync],
           \A s \in Syncs : SyncFine(sync[s])'
    PROVE  IInv'
<1>1. TypeOK'
  BY DEF IInv, TypeOK
<1>2. \A o : EventsOf(o)' = EventsOf(o)
  BY DEF EventsOf
<1>3. \A w \in Hooks : HookFine(hook[w])'
  BY <1>2 DEF IInv, HookFine
<1>4. OnlyShopifys' /\ ProcessedIsStored' /\ AcknowledgedIsRecorded'
  BY <1>2 DEF IInv, OnlyShopifys, ProcessedIsStored, AcknowledgedIsRecorded
<1> QED BY <1>1, <1>3, <1>4 DEF IInv

LEMMA CountedTyped ==
    ASSUME IInv, Counted
    PROVE  changes' \in 0 .. MAX_CHANGES
BY ConstantsTyped DEF IInv, TypeOK, Counted

(* What Shopify and the brand do. *)
LEMMA ShopifySteps ==
    ASSUME IInv, \/ \E i \in Items : Change(i) \/ Remove(i)
                 \/ Connect \/ \E d \in Shops : Callback(d)
    PROVE  IInv'
<1> USE DEF shopify, listing, database
<1>1. ASSUME Connect \/ \E d \in Shops : Callback(d)
      PROVE  IInv'
  <2>1. /\ UNCHANGED <<shopify, stored, events, hook, sync>>
        /\ connected' \in Shops \cup {NoShop}
    BY <1>1 DEF Connect, Callback
  <2>2. removed' \subseteq Items /\ changes' \in 0 .. MAX_CHANGES /\ sync' \in [Syncs -> Sync]
    BY <2>1 DEF IInv, TypeOK
  <2>3. \A s \in Syncs : SyncFine(sync[s])'
    BY <2>1, SyncsStay
  <2> QED BY <2>1, <2>2, <2>3, ElsewhereStep
<1>3. ASSUME NEW i \in Items, Remove(i)
      PROVE  IInv'
  <2>1. /\ Counted /\ removed' = removed \cup {i} /\ DisturbAll
        /\ UNCHANGED <<upstream, notice, posts, connected, stored, events, hook>>
    BY <1>3 DEF Remove
  <2>2. removed' \subseteq Items /\ connected' \in Shops \cup {NoShop}
    BY <2>1 DEF IInv, TypeOK
  <2>3. changes' \in 0 .. MAX_CHANGES
    BY <2>1, CountedTyped
  <2>4. sync' \in [Syncs -> Sync] /\ \A s \in Syncs : SyncFine(sync[s])'
    BY <2>1, Interference
  <2> QED BY <2>1, <2>2, <2>3, <2>4, ElsewhereStep
<1>2. ASSUME NEW i \in Items, Change(i)
      PROVE  IInv'
  <2>1. /\ upstream \in [Items -> Versions] /\ stored \in [Items -> Versions]
        /\ notice \in [Orders -> {"none", "unacked", "dropped", "acked"}]
    BY DEF IInv, TypeOK
  <2>2. upstream[i] < MAX_VERSION /\ upstream' = [upstream EXCEPT ![i] = @ + 1]
    BY <1>2 DEF Change
  <2>3. \A j \in Items : upstream[j] \in Nat
    BY <2>1, ConstantsTyped DEF Versions
  <2>4. upstream[i] + 1 \in Versions
    BY <2>2, <2>3, ConstantsTyped DEF Versions
  <2>5. upstream' \in [Items -> Versions]
    BY <2>1, <2>2, <2>4
  <2>6. upstream'[i] > 0 /\ \A j \in Items : upstream[j] > 0 => upstream'[j] > 0
    BY <2>1, <2>2, <2>3
  <2>7. sync' \in [Syncs -> Sync] /\ \A s \in Syncs : SyncFine(sync[s])'
    BY <1>2, <2>6, Interference DEF Change
  <2>8. notice' = [o \in Orders |-> IF o = i /\ notice[o] = "none" THEN "unacked"
                                    ELSE notice[o]]
    BY <1>2 DEF Change
  <2>9. notice' \in [Orders -> {"none", "unacked", "dropped", "acked"}]
    BY <2>1, <2>8
  <2>10. TypeOK'
    <3>1. changes' \in 0 .. MAX_CHANGES
      BY <1>2, CountedTyped DEF Change
    <3> QED BY <1>2, <2>5, <2>7, <2>9, <3>1 DEF IInv, TypeOK, Change
  <2>11. \A o : EventsOf(o)' = EventsOf(o)
    BY <1>2 DEF EventsOf, Change
  <2>12. \A w \in Hooks : HookFine(hook[w])'
    <3> SUFFICES ASSUME NEW w \in Hooks PROVE HookFine(hook[w])'
      OBVIOUS
    <3>1. HookFine(hook[w]) /\ hook' = hook /\ events' = events /\ stored' = stored
      BY <1>2 DEF IInv, Change
    <3> QED BY <3>1, <2>6, <2>11 DEF HookFine, Items
  <2>13. OnlyShopifys'
    <3>1. \A j \in Items : stored[j] > 0 => upstream'[j] > 0
      BY <2>6 DEF IInv, OnlyShopifys
    <3>2. ASSUME NEW o \in Orders
          PROVE  notice'[o] # "none" <=> upstream'[o] > 0
      <4>1. notice[o] # "none" <=> upstream[o] > 0
        BY DEF IInv, OnlyShopifys
      <4>2. CASE o = i
        BY <2>6, <2>8, <4>1, <4>2
      <4>3. CASE o # i
        <5>1. o \in Items /\ upstream'[o] = upstream[o]
          BY <2>1, <2>2, <4>3 DEF Items
        <5> QED BY <2>8, <4>1, <4>3, <5>1
      <4> QED BY <4>2, <4>3
    <3> QED BY <1>2, <3>1, <3>2 DEF OnlyShopifys, Change
  <2>14. ProcessedIsStored'
    BY <1>2 DEF IInv, ProcessedIsStored, Change
  <2>15. AcknowledgedIsRecorded'
    BY <2>8, <2>11 DEF IInv, AcknowledgedIsRecorded
  <2> QED BY <2>7, <2>10, <2>12, <2>13, <2>14, <2>15 DEF IInv
<1> QED BY <1>1, <1>2, <1>3

(* A commit of the tables that removes no row and no event, stores only items of
   Shopify's, and justifies every event processed. *)
LEMMA Commit ==
    ASSUME IInv, UNCHANGED <<shopify, connected>>,
           stored' \in [Items -> Versions], events' \in Seq(Event),
           \A i \in Items : stored[i] > 0 => stored'[i] > 0,
           \A i \in Items : stored'[i] > 0 => upstream[i] > 0,
           DOMAIN events \subseteq DOMAIN events',
           \A n \in DOMAIN events : events'[n].external_id = events[n].external_id,
           ProcessedIsStored',
           hook' \in [Hooks -> Hook], sync' \in [Syncs -> Sync],
           NEW moved, \A v \in Hooks \ moved : hook'[v] = hook[v],
           \A v \in Hooks \cap moved : HookFine(hook[v])',
           \A s \in Syncs : SyncFine(sync[s])'
    PROVE  IInv'
<1>1. TypeOK'
  BY DEF IInv, TypeOK, shopify, listing
<1>2. \A o : EventsOf(o) \subseteq EventsOf(o)'
  BY DEF EventsOf
<1>3. ASSUME NEW v \in Hooks, v \notin moved
      PROVE  HookFine(hook[v])'
  <2>1. HookFine(hook[v]) /\ hook'[v] = hook[v] /\ upstream' = upstream
    BY <1>3 DEF IInv, shopify, listing
  <2>2. hook[v].pc # "idle" /\ stored[hook[v].order] > 0 => stored'[hook[v].order] > 0
    BY <2>1 DEF HookFine, Items
  <2>3. hook[v].pc = "answering" => (EventsOf(hook[v].order) # {})'
    BY <1>2, <2>1 DEF HookFine
  <2> QED BY <2>1, <2>2, <2>3 DEF HookFine
<1>4. OnlyShopifys'
  BY DEF IInv, OnlyShopifys, shopify, listing
<1>5. AcknowledgedIsRecorded'
  BY <1>2 DEF IInv, AcknowledgedIsRecorded, shopify, listing
<1> QED BY <1>1, <1>3, <1>4, <1>5 DEF IInv

LEMMA EventTyped ==
    ASSUME IInv, NEW n \in DOMAIN events
    PROVE  events[n] \in Event /\ events[n].external_id \in Items
<1>1. events \in Seq(Event)
  BY DEF IInv, TypeOK
<1>2. events[n] \in Event
  BY <1>1
<1> QED BY <1>2 DEF Event, Items

(* The row an append adds. *)
LEMMA Appended ==
    ASSUME IInv, NEW o \in Orders, events' = Append(events, NewEvent(o))
    PROVE  /\ events' \in Seq(Event)
           /\ Len(events') \in DOMAIN events' /\ Len(events') \in Nat
           /\ events'[Len(events')] = NewEvent(o)
           /\ DOMAIN events' = DOMAIN events \cup {Len(events')}
           /\ \A n \in DOMAIN events : events'[n] = events[n]
<1>1. events \in Seq(Event) /\ NewEvent(o) \in Event
  BY DEF IInv, TypeOK, NewEvent, Event
<1>2. /\ events' \in Seq(Event) /\ Len(events') = Len(events) + 1
      /\ \A n \in 1 .. Len(events) : events'[n] = events[n]
      /\ events'[Len(events) + 1] = NewEvent(o)
  BY <1>1, AppendProperties
<1>3. DOMAIN events = 1 .. Len(events) /\ DOMAIN events' = 1 .. Len(events') /\ Len(events) \in Nat
  BY <1>1, <1>2
<1> QED BY <1>2, <1>3
LEMMA UpsertOrderKeepsIInv ==
    ASSUME IInv, NEW w \in Hooks, UpsertOrder(w)
    PROVE  IInv'
<1> DEFINE o == hook[w].order
<1>1. PICK h : h = [hook[w] EXCEPT !.pc = "marking", !.event = Len(events')]
  OBVIOUS
<1>2. /\ hook[w] \in Hook /\ hook \in [Hooks -> Hook] /\ stored \in [Items -> Versions]
      /\ o \in Orders /\ o \in Items /\ upstream[o] > 0
  BY DEF IInv, TypeOK, HookFine, UpsertOrder, Items
<1>3. /\ stored' = [stored EXCEPT ![o] = 1]
      /\ events' = Append(events, NewEvent(o))
      /\ hook' = [hook EXCEPT ![w] = h]
      /\ DisturbAll
      /\ UNCHANGED <<shopify, connected>>
  BY <1>1 DEF UpsertOrder, PayloadVersion
<1> HIDE DEF o
<1>4. /\ events' \in Seq(Event)
      /\ Len(events') \in DOMAIN events' /\ Len(events') \in Nat
      /\ events'[Len(events')] = NewEvent(o)
      /\ DOMAIN events' = DOMAIN events \cup {Len(events')}
      /\ \A n \in DOMAIN events : events'[n] = events[n]
  BY <1>2, <1>3, Appended
<1>5. h \in Hook /\ h.pc = "marking" /\ h.order = o /\ h.event = Len(events')
  BY <1>1, <1>2, <1>4 DEF Hook, o
<1>6. 1 \in Versions /\ \A i \in Items : stored[i] \in Nat
  BY <1>2, ConstantsTyped DEF Versions
<1>7. stored' \in [Items -> Versions] /\ stored'[o] = 1
      /\ \A i \in Items : i # o => stored'[i] = stored[i]
  BY <1>2, <1>3, <1>6
<1>8. /\ \A i \in Items : stored[i] > 0 => stored'[i] > 0
      /\ \A i \in Items : stored'[i] > 0 => upstream[i] > 0
  BY <1>2, <1>7 DEF IInv, OnlyShopifys
<1>9. ProcessedIsStored'
  <2> SUFFICES ASSUME NEW n \in DOMAIN events', events'[n].processed
               PROVE  stored'[events'[n].external_id] > 0
    BY DEF ProcessedIsStored
  <2>1. n # Len(events')
    <3>1. NewEvent(o).processed = FALSE
      BY DEF NewEvent
    <3> QED BY <1>4, <3>1
  <2>2. n \in DOMAIN events
    BY <1>4, <2>1
  <2>3. events[n].external_id \in Items
    BY <2>2, EventTyped
  <2> QED BY <1>4, <1>8, <2>2, <2>3 DEF IInv, ProcessedIsStored
<1>10. hook' \in [Hooks -> Hook] /\ hook'[w] = h /\ \A v \in Hooks \ {w} : hook'[v] = hook[v]
  BY <1>2, <1>3, <1>5
<1>11. HookFine(hook[w])'
  <2>1. upstream' = upstream /\ events'[Len(events')].external_id = o
    BY <1>3, <1>4 DEF shopify, listing, NewEvent
  <2>2. \A k : k = h => HookFine(k)'
    <3>1. o \in Orders /\ upstream'[o] > 0
      BY <1>2, <2>1
    <3>2. stored'[o] > 0
      BY <1>7
    <3>3. h.pc # "answering" /\ h.order = o /\ h.event = Len(events')
      BY <1>5
    <3>4. Len(events') \in DOMAIN events'
      BY <1>4
    <3> QED BY <2>1, <3>1, <3>2, <3>3, <3>4 DEF HookFine
  <2> QED BY <1>10, <2>2
<1>12. sync' \in [Syncs -> Sync] /\ \A s \in Syncs : SyncFine(sync[s])'
  <2>1. \A i \in Items : upstream[i] > 0 => upstream'[i] > 0
    BY <1>3 DEF shopify, listing
  <2> QED BY <1>3, <2>1, Interference
<1>13. DOMAIN events \subseteq DOMAIN events'
       /\ \A n \in DOMAIN events : events'[n].external_id = events[n].external_id
  BY <1>4
<1>14. \A v \in Hooks \cap {w} : HookFine(hook[v])'
  BY <1>11
<1> QED BY <1>3, <1>4, <1>7, <1>8, <1>9, <1>10, <1>12, <1>13, <1>14, Commit

LEMMA UpsertRaisesKeepsIInv ==
    ASSUME IInv, NEW w \in Hooks, UpsertRaises(w)
    PROVE  IInv'
<1> DEFINE o == hook[w].order
<1>1. PICK h : h = [hook[w] EXCEPT !.pc = "answering"]
  OBVIOUS
<1>2. /\ hook[w] \in Hook /\ hook \in [Hooks -> Hook] /\ stored \in [Items -> Versions]
      /\ o \in Orders /\ upstream[o] > 0 /\ sync \in [Syncs -> Sync]
  BY DEF IInv, TypeOK, HookFine, UpsertRaises
<1>3. /\ events' = Append(events, NewEvent(o))
      /\ hook' = [hook EXCEPT ![w] = h]
      /\ UNCHANGED <<shopify, connected, stored, sync>>
  BY <1>1 DEF UpsertRaises, Goto
<1> HIDE DEF o
<1>4. /\ events' \in Seq(Event)
      /\ Len(events') \in DOMAIN events' /\ Len(events') \in Nat
      /\ events'[Len(events')] = NewEvent(o)
      /\ DOMAIN events' = DOMAIN events \cup {Len(events')}
      /\ \A n \in DOMAIN events : events'[n] = events[n]
  BY <1>2, <1>3, Appended
<1>5. h \in Hook /\ h.pc = "answering" /\ h.order = o
  BY <1>1, <1>2 DEF Hook, o
<1>6. /\ stored' \in [Items -> Versions]
      /\ \A i \in Items : stored[i] > 0 => stored'[i] > 0
      /\ \A i \in Items : stored'[i] > 0 => upstream[i] > 0
  BY <1>2, <1>3 DEF IInv, OnlyShopifys
<1>7. ProcessedIsStored'
  <2>1. NewEvent(o).processed = FALSE
    BY DEF NewEvent
  <2> QED BY <1>3, <1>4, <2>1 DEF IInv, ProcessedIsStored
<1>8. hook' \in [Hooks -> Hook] /\ hook'[w] = h /\ \A v \in Hooks \ {w} : hook'[v] = hook[v]
  BY <1>2, <1>3, <1>5
<1>9. HookFine(hook[w])'
  <2>1. upstream' = upstream
    BY <1>3 DEF shopify, listing
  <2>2. \A k : k = o => (EventsOf(k) # {})'
    <3>1. Len(events') \in DOMAIN events' /\ events'[Len(events')].external_id = o
      BY <1>4 DEF NewEvent
    <3> QED BY <3>1 DEF EventsOf
  <2>3. \A k : k = h => HookFine(k)'
    BY <1>2, <1>5, <2>1, <2>2 DEF HookFine
  <2> QED BY <1>8, <2>3
<1>10. sync' \in [Syncs -> Sync] /\ \A s \in Syncs : SyncFine(sync[s])'
  <2>1. sync' \in [Syncs -> Sync]
    BY <1>2, <1>3
  <2>2. UNCHANGED <<upstream, removed, stored, sync>>
    BY <1>3 DEF shopify, listing
  <2>3. \A s \in Syncs : SyncFine(sync[s])'
    BY <2>2, SyncsStay
  <2> QED BY <2>1, <2>3
<1>11. DOMAIN events \subseteq DOMAIN events'
       /\ \A n \in DOMAIN events : events'[n].external_id = events[n].external_id
  BY <1>4
<1>12. \A v \in Hooks \cap {w} : HookFine(hook[v])'
  BY <1>9
<1> QED BY <1>3, <1>4, <1>6, <1>7, <1>8, <1>10, <1>11, <1>12, Commit

LEMMA MarkProcessedKeepsIInv ==
    ASSUME IInv, NEW w \in Hooks, MarkProcessed(w)
    PROVE  IInv'
<1>1. PICK h : h = [hook[w] EXCEPT !.pc = "answering", !.event = 0]
  OBVIOUS
<1>2. PICK e : e = hook[w].event
  OBVIOUS
<1>3. PICK o : o = hook[w].order
  OBVIOUS
<1>4. PICK row : row = [events[e] EXCEPT !.processed = TRUE]
  OBVIOUS
<1>5. /\ hook[w] \in Hook /\ hook \in [Hooks -> Hook] /\ stored \in [Items -> Versions]
      /\ sync \in [Syncs -> Sync] /\ events \in Seq(Event)
      /\ o \in Orders /\ upstream[o] > 0 /\ stored[o] > 0
      /\ e \in DOMAIN events /\ events[e].external_id = o
  BY <1>2, <1>3 DEF IInv, TypeOK, HookFine, MarkProcessed
<1>6. /\ events' = [events EXCEPT ![e] = row]
      /\ hook' = [hook EXCEPT ![w] = h]
      /\ UNCHANGED <<shopify, connected, stored, sync>>
  BY <1>1, <1>2, <1>4 DEF MarkProcessed
<1>7. events[e] \in Event /\ e \in 1 .. Len(events)
  BY <1>5
<1>8. row \in Event /\ row.external_id = o
  BY <1>4, <1>5, <1>7 DEF Event
<1>9. events' \in Seq(Event)
  BY <1>5, <1>6, <1>7, <1>8, ExceptSeq
<1>10. /\ DOMAIN events' = DOMAIN events
       /\ \A n \in DOMAIN events : events'[n] = IF n = e THEN row ELSE events[n]
  BY <1>6
<1>11. \A n \in DOMAIN events : events'[n].external_id = events[n].external_id
  BY <1>5, <1>8, <1>10
<1>12. h \in Hook /\ h.pc = "answering" /\ h.order = o
  BY <1>1, <1>3, <1>5 DEF Hook
<1>13. /\ stored' \in [Items -> Versions]
       /\ \A i \in Items : stored[i] > 0 => stored'[i] > 0
       /\ \A i \in Items : stored'[i] > 0 => upstream[i] > 0
  BY <1>5, <1>6 DEF IInv, OnlyShopifys
<1>14. ProcessedIsStored'
  <2> SUFFICES ASSUME NEW n \in DOMAIN events, events'[n].processed
               PROVE  stored[events'[n].external_id] > 0
    BY <1>6, <1>10 DEF ProcessedIsStored
  <2>1. CASE n = e
    BY <1>5, <1>8, <1>10, <2>1
  <2>2. CASE n # e
    BY <1>10, <2>2 DEF IInv, ProcessedIsStored
  <2> QED BY <2>1, <2>2
<1>15. hook' \in [Hooks -> Hook] /\ hook'[w] = h /\ \A v \in Hooks \ {w} : hook'[v] = hook[v]
  BY <1>5, <1>6, <1>12
<1>16. HookFine(hook[w])'
  <2>1. upstream' = upstream
    BY <1>6 DEF shopify, listing
  <2>2. (EventsOf(o) # {})'
    BY <1>5, <1>10, <1>11 DEF EventsOf
  <2>3. \A k : k = h => HookFine(k)'
    BY <1>5, <1>12, <2>1, <2>2 DEF HookFine
  <2> QED BY <1>15, <2>3
<1>17. sync' \in [Syncs -> Sync] /\ \A s \in Syncs : SyncFine(sync[s])'
  <2>1. sync' \in [Syncs -> Sync]
    BY <1>5, <1>6
  <2>2. UNCHANGED <<upstream, removed, stored, sync>>
    BY <1>6 DEF shopify, listing
  <2>3. \A s \in Syncs : SyncFine(sync[s])'
    BY <2>2, SyncsStay
  <2> QED BY <2>1, <2>3
<1>18. \A v \in Hooks \cap {w} : HookFine(hook[v])'
  BY <1>16
<1> QED BY <1>6, <1>9, <1>10, <1>11, <1>13, <1>14, <1>15, <1>17, <1>18, Commit

(* Merging a page: what the sync has read is now in the table. *)
LEMMA UpsertPageKeepsIInv ==
    ASSUME IInv, NEW s \in Syncs, UpsertPage(s)
    PROVE  IInv'
<1>1. PICK q : q = sync[s]
  OBVIOUS
<1>2. PICK r : r = [q EXCEPT !.pc = IF q.more THEN "fetching" ELSE "stamping",
                             !.page = NoPage]
  OBVIOUS
<1>3. /\ q \in Sync /\ SyncFine(q) /\ q.pc = "upserting" /\ sync \in [Syncs -> Sync]
      /\ upstream \in [Items -> Versions] /\ stored \in [Items -> Versions]
      /\ q.page \in [Items -> Versions] /\ q.table \in Tables
  BY <1>1 DEF IInv, TypeOK, UpsertPage, Sync
<1>4. stored' = Merged(q.page) /\ UNCHANGED <<shopify, connected, events, hook>>
  BY <1>1 DEF UpsertPage
<1>5. sync' = [Disturbed(s) EXCEPT ![s] = r]
  <2>1. Disturbed(s)[s] = q /\ DOMAIN Disturbed(s) = Syncs
    BY <1>1 DEF Disturbed
  <2>2. sync' = [Disturbed(s) EXCEPT ![s].pc = IF q.more THEN "fetching" ELSE "stamping",
                                     ![s].page = NoPage]
    BY <1>1 DEF UpsertPage
  <2> QED BY <1>2, <2>1, <2>2
<1>6. /\ r \in Sync /\ r.pc = (IF q.more THEN "fetching" ELSE "stamping")
      /\ r.shop = q.shop /\ r.table = q.table /\ r.cursor = q.cursor /\ r.alone = q.alone
  BY <1>2, <1>3, IdleTyped DEF Sync
<1>7. \A i \in Items : /\ stored[i] \in Nat /\ q.page[i] \in Nat /\ upstream[i] \in Nat
                       /\ stored'[i] = IF q.page[i] = 0 THEN stored[i] ELSE q.page[i]
  <2>1. \A v \in Versions : v \in Nat
    BY ConstantsTyped DEF Versions
  <2>2. \A i \in Items : stored'[i] = IF q.page[i] = 0 THEN stored[i] ELSE q.page[i]
    BY <1>4 DEF Merged
  <2> QED BY <1>3, <2>1, <2>2
<1>8. stored' \in [Items -> Versions]
  BY <1>3, <1>4 DEF Merged
<1>9. /\ \A i \in Items : stored[i] > 0 => stored'[i] > 0
      /\ \A i \in Items : stored'[i] > 0 => upstream[i] > 0
  BY <1>3, <1>7 DEF IInv, OnlyShopifys, SyncFine
<1>10. ProcessedIsStored'
  <2>1. \A n \in DOMAIN events : events[n].external_id \in Items
    BY EventTyped
  <2> QED BY <1>4, <1>9, <2>1 DEF IInv, ProcessedIsStored
<1>11. upstream' = upstream /\ removed' = removed
  BY <1>4 DEF shopify, listing
<1>12. \A k : k = r => SyncFine(k)'
  <2>1. Behind(r) = Behind(q) /\ Owed(r) = Owed(q) /\ Behind(q) \subseteq Owed(q)
    BY <1>6 DEF Behind, Owed
  <2>2. ASSUME r.alone, NEW i \in Owed(r), r.pc = "stamping" \/ i \in Behind(r)
        PROVE  stored'[i] = upstream[i]
    BY <1>3, <1>4, <1>6, <2>1, <2>2 DEF SyncFine
  <2>3. r.pc # "upserting"
    BY <1>6
  <2>4. \A k : Owed(k)' = Owed(k) /\ Behind(k)' = Behind(k)
    BY <1>11 DEF Behind, Owed, Listed
  <2>5. \A i \in Behind(r) : i \in Owed(r)
    BY <2>1
  <2>6. r.alone => /\ r.pc = "fetching" => \A i \in Behind(r) : stored'[i] = upstream'[i]
                   /\ r.pc = "stamping" => \A i \in Owed(r) : stored'[i] = upstream'[i]
    BY <1>11, <2>2, <2>5
  <2> QED BY <2>3, <2>4, <2>6 DEF SyncFine
<1>13. ASSUME NEW t \in Syncs
       PROVE  sync'[t] \in Sync /\ SyncFine(sync[t])'
  <2>1. CASE t = s
    <3>1. sync'[t] = r
      BY <1>5, <2>1 DEF Disturbed
    <3> QED BY <1>6, <1>12, <3>1
  <2>2. CASE t # s
    <3>1. sync'[t] = [sync[t] EXCEPT !.alone = FALSE]
      BY <1>5, <2>2 DEF Disturbed
    <3>2. sync[t] \in Sync /\ SyncFine(sync[t])
      BY <1>3 DEF IInv
    <3>3. sync'[t] \in Sync /\ \A k : k = sync'[t] => SyncFine(k)'
      BY <1>11, <3>1, <3>2, NotAlone
    <3> QED BY <3>3
  <2> QED BY <2>1, <2>2
<1>14. sync' \in [Syncs -> Sync]
  BY <1>5, <1>13 DEF Disturbed
<1>15. hook' \in [Hooks -> Hook] /\ \A v \in Hooks : HookFine(hook[v])'
  <2>1. \A o : EventsOf(o)' = EventsOf(o)
    BY <1>4 DEF EventsOf
  <2>2. ASSUME NEW v \in Hooks
        PROVE  HookFine(hook[v])'
    <3>1. HookFine(hook[v]) /\ hook' = hook /\ events' = events
      BY <1>4 DEF IInv
    <3> QED BY <1>9, <1>11, <2>1, <3>1 DEF HookFine, Items
  <2> QED BY <1>4, <2>2 DEF IInv, TypeOK
<1>16. /\ \A v \in Hooks \ {} : hook'[v] = hook[v]
       /\ \A v \in Hooks \cap {} : HookFine(hook[v])'
  BY <1>4
<1> QED BY <1>4, <1>8, <1>9, <1>10, <1>13, <1>14, <1>15, <1>16, Commit DEF IInv, TypeOK
-----------------------------------------------------------------------------

LEMMA InitKeepsIInv ==
    Init => IInv
<1> SUFFICES ASSUME Init PROVE IInv
  OBVIOUS
<1> USE DEF Init
<1>1. TypeOK
  <2>1. NoPage \in [Items -> Versions] /\ IdleHook \in Hook /\ IdleSync \in Sync
    BY IdleTyped
  <2>2. 0 \in 0 .. MAX_POSTS
    BY ConstantsTyped
  <2>3. events \in Seq(Event)
    BY EmptySeq
  <2>4. 0 \in 0 .. MAX_CHANGES
    BY ConstantsTyped
  <2> QED BY <2>1, <2>2, <2>3, <2>4 DEF TypeOK
<1>2. OnlyShopifys
  <2>1. \A i \in Items : stored[i] = 0 /\ upstream[i] = 0
    BY DEF NoPage
  <2>2. \A o \in Orders : o \in Items /\ notice[o] = "none"
    BY DEF Items
  <2> QED BY <2>1, <2>2 DEF OnlyShopifys
<1>3. ProcessedIsStored /\ AcknowledgedIsRecorded
  BY DEF ProcessedIsStored, AcknowledgedIsRecorded
<1>4. \A w \in Hooks : HookFine(hook[w])
  BY IdleTyped
<1>5. \A s \in Syncs : SyncFine(sync[s])
  BY IdleTyped
<1> QED BY <1>1, <1>2, <1>3, <1>4, <1>5 DEF IInv

LEMMA NextKeepsIInv ==
    IInv /\ [Next]_vars => IInv'
<1> SUFFICES ASSUME IInv, [Next]_vars PROVE IInv'
  OBVIOUS
<1>1. CASE UNCHANGED vars
  <2> USE <1>1 DEF vars
  <2>1. \A o : EventsOf(o)' = EventsOf(o)
    BY DEF EventsOf
  <2>2. TypeOK' /\ OnlyShopifys' /\ ProcessedIsStored' /\ AcknowledgedIsRecorded'
    BY <2>1 DEF IInv, TypeOK, OnlyShopifys, ProcessedIsStored, AcknowledgedIsRecorded
  <2>3. \A w \in Hooks : HookFine(hook[w])'
    BY <2>1 DEF IInv, HookFine
  <2>4. \A s \in Syncs : SyncFine(sync[s])'
    BY SyncsStay
  <2> QED BY <2>2, <2>3, <2>4 DEF IInv
<1>2. CASE \/ \E i \in Items : Change(i) \/ Remove(i)
           \/ Connect \/ \E d \in Shops : Callback(d)
  BY <1>2, ShopifySteps
<1>3. ASSUME NEW w \in Hooks, NEW o \in Orders, Miss(w, o) \/ Resolve(w, o)
      PROVE  IInv'
  BY <1>3, HookSteps
<1>4. ASSUME NEW w \in Hooks, HandleHook(w) \/ KillHook(w)
      PROVE  IInv'
  BY <1>4, HookSteps, UpsertOrderKeepsIInv, UpsertRaisesKeepsIInv, MarkProcessedKeepsIInv
     DEF HandleHook
<1>5. ASSUME NEW s \in Syncs,
             StartSync(s) \/ Fetch(s) \/ UpsertPage(s) \/ Stamp(s) \/ KillSync(s)
      PROVE  IInv'
  BY <1>5, SyncSteps, FetchKeepsIInv, UpsertPageKeepsIInv
<1> QED BY <1>1, <1>2, <1>3, <1>4, <1>5 DEF Next

(* The inductive invariant, for any items, page size, numbers of handlers and
   syncs, and ways for the webhook's upsert to end. *)
THEOREM Invariance == Spec => []IInv
BY InitKeepsIInv, NextKeepsIInv, PTL DEF Spec

(* Every variable keeps its type: in particular a handler's event and a sync's
   cursor stay valid across every commit, crash and retry. *)
THEOREM TypeCorrect == Spec => []TypeOK
<1>1. IInv => TypeOK
  BY DEF IInv
<1> QED BY <1>1, Invariance, PTL

(* An event marked processed has its order in the table (service.py:419-426). *)
THEOREM ProcessedIsStoredHolds == Spec => []ProcessedIsStored
<1>1. IInv => ProcessedIsStored
  BY DEF IInv
<1> QED BY <1>1, Invariance, PTL

(* Shopify stops re-sending an order only once an event of it is durable, or a
   delivery of it found the shop connected to nobody (service.py:419-420). *)
THEOREM AcknowledgedIsRecordedHolds == Spec => []AcknowledgedIsRecorded
<1>1. IInv => AcknowledgedIsRecorded
  BY DEF IInv
<1> QED BY <1>1, Invariance, PTL

(* Whatever the page size, the shops and the reconnects, a sync that nothing
   interfered with skips no item at the page boundaries and ends each half with
   every item its shop lists at its present version (service.py:32-177). *)
THEOREM SyncCatchesUpHolds == Spec => []SyncCatchesUp
<1>1. IInv => SyncCatchesUp
  BY DEF IInv, SyncFine, SyncCatchesUp, Owed
<1> QED BY <1>1, Invariance, PTL
-----------------------------------------------------------------------------
(* The inbox. *)

Recorded == {o \in Orders : EventsOf(o) # {}}
Filed == {o \in Orders : stored[o] > 0}
Settled == {o \in Orders : \E n \in EventsOf(o) : events[n].processed}

Reachable == {o \in Orders : connected = ShopOf[o]}
Missed == {o \in Orders : \E w \in Hooks : hook[w].pc = "dropping" /\ hook[w].order = o}

LEMMA TablesKept ==
    ASSUME UNCHANGED <<connected, stored, events>>
    PROVE  UNCHANGED <<Reachable, Recorded, Filed, Settled>>
BY DEF Reachable, Recorded, Filed, Settled, EventsOf

(* A step that leaves the tables, the notices, the connection and the orders about
   to be dropped alone is not seen. *)
LEMMA Unseen ==
    ASSUME UNCHANGED <<notice, connected, stored, events>>, Missed' = Missed
    PROVE  UNCHANGED Implemented!inbox
BY DEF Implemented!inbox, EventsOf, Missed

(* Only a handler that begins or ceases to drop changes what is missed. *)
LEMMA NothingMissed ==
    ASSUME IInv, NEW w \in Hooks, \A v \in Hooks \ {w} : hook'[v] = hook[v],
           hook[w].pc # "dropping", hook'[w].pc # "dropping"
    PROVE  Missed' = Missed
BY DEF Missed

LEMMA StartsDropping ==
    ASSUME IInv, NEW w \in Hooks, \A v \in Hooks \ {w} : hook'[v] = hook[v],
           NEW o \in Orders, hook[w].pc # "dropping",
           hook'[w].pc = "dropping", hook'[w].order = o
    PROVE  Missed' = Missed \cup {o}
BY DEF Missed

LEMMA CeasesDropping ==
    ASSUME IInv, NEW w \in Hooks, \A v \in Hooks \ {w} : hook'[v] = hook[v],
           NEW o \in Orders, hook[w].order = o,
           hook'[w].pc # "dropping"
    PROVE  Missed' = Missed \/ Missed' = Missed \ {o}
BY DEF Missed

(* What a handler's step makes of its own and of the others' state. *)
LEMMA HookMoves ==
    ASSUME IInv, NEW w \in Hooks, HandleHook(w) \/ KillHook(w)
    PROVE  /\ \A v \in Hooks \ {w} : hook'[v] = hook[v]
           /\ hook'[w].pc # "dropping"
           /\ hook[w].pc # "idle" /\ hook[w].order \in Orders
<1>1. hook \in [Hooks -> Hook] /\ HookFine(hook[w])
  BY DEF IInv, TypeOK
<1>2. PICK q \in Hook : q = hook[w]
  BY <1>1
<1>3. hook[w].pc # "idle" /\ hook[w].order \in Orders
  <2>1. hook[w].pc # "idle"
    BY DEF HandleHook, Check, UpsertOrder, UpsertRaises, UpsertAborts, MarkProcessed,
           Drop, Acknowledge, KillHook
  <2> QED BY <1>1, <2>1 DEF HookFine
<1>4. ASSUME NEW h, h.pc # "dropping", hook' = [hook EXCEPT ![w] = h]
      PROVE  (\A v \in Hooks \ {w} : hook'[v] = hook[v]) /\ hook'[w].pc # "dropping"
  BY <1>1, <1>4
<1>5. ASSUME NEW pc, pc # "dropping", Goto(w, pc)
      PROVE  (\A v \in Hooks \ {w} : hook'[v] = hook[v]) /\ hook'[w].pc # "dropping"
  <2>1. [q EXCEPT !.pc = pc].pc = pc
    BY DEF Hook
  <2>2. hook' = [hook EXCEPT ![w] = [q EXCEPT !.pc = pc]]
    BY <1>2, <1>5 DEF Goto
  <2> QED BY <1>4, <1>5, <2>1, <2>2
<1>6. IdleHook.pc # "dropping"
  BY DEF IdleHook
<1>7. CASE Check(w)
  BY <1>3, <1>5, <1>7 DEF Check
<1>8. CASE UpsertRaises(w)
  BY <1>3, <1>5, <1>8 DEF UpsertRaises
<1>9. CASE UpsertOrder(w)
  <2>1. PICK h : h = [q EXCEPT !.pc = "marking", !.event = Len(events')]
    OBVIOUS
  <2>2. h.pc = "marking"
    BY <2>1 DEF Hook
  <2>3. hook' = [hook EXCEPT ![w] = h]
    BY <1>2, <1>9, <2>1 DEF UpsertOrder
  <2> QED BY <1>3, <1>4, <2>2, <2>3
<1>10. CASE MarkProcessed(w)
  <2>1. PICK h : h = [q EXCEPT !.pc = "answering", !.event = 0]
    OBVIOUS
  <2>2. h.pc = "answering"
    BY <2>1 DEF Hook
  <2>3. hook' = [hook EXCEPT ![w] = h]
    BY <1>2, <1>10, <2>1 DEF MarkProcessed
  <2> QED BY <1>3, <1>4, <2>2, <2>3
<1>11. CASE \/ UpsertAborts(w) \/ KillHook(w)
            \/ \E heard \in BOOLEAN : Drop(w, heard) \/ Acknowledge(w, heard)
  BY <1>3, <1>4, <1>6, <1>11 DEF UpsertAborts, KillHook, Drop, Acknowledge, Answer
<1> QED BY <1>7, <1>8, <1>9, <1>10, <1>11 DEF HandleHook

(* The event that an append adds records its order and settles nothing. *)
LEMMA AppendRecords ==
    ASSUME IInv, NEW o \in Orders, events' = Append(events, NewEvent(o))
    PROVE  Recorded' = Recorded \cup {o} /\ Settled' = Settled
<1>1. /\ Len(events') \in DOMAIN events'
      /\ events'[Len(events')] = NewEvent(o)
      /\ DOMAIN events' = DOMAIN events \cup {Len(events')}
      /\ \A n \in DOMAIN events : events'[n] = events[n]
  BY Appended
<1>2. NewEvent(o).external_id = o /\ NewEvent(o).processed = FALSE
  BY DEF NewEvent
<1>3. \A k : (EventsOf(k) # {})' <=> EventsOf(k) # {} \/ k = o
  BY <1>1, <1>2 DEF EventsOf
<1>4. \A k : (\E n \in EventsOf(k) : events[n].processed)'
               <=> \E n \in EventsOf(k) : events[n].processed
  BY <1>1, <1>2 DEF EventsOf
<1> QED BY <1>3, <1>4 DEF Recorded, Settled

(* A handler that was not about to drop its order leaves the missed ones alone. *)
LEMMA MissedStays ==
    ASSUME IInv, NEW w \in Hooks, HandleHook(w) \/ KillHook(w), hook[w].pc # "dropping"
    PROVE  Missed' = Missed
<1>1. (\A v \in Hooks \ {w} : hook'[v] = hook[v]) /\ hook'[w].pc # "dropping"
  BY HookMoves
<1> QED BY <1>1, NothingMissed

LEMMA UpsertOrderRecords ==
    ASSUME IInv, NEW w \in Hooks, UpsertOrder(w)
    PROVE  \E o \in Orders : Implemented!Record(o)
<1>1. PICK o : o = hook[w].order
  OBVIOUS
<1>2. /\ o \in Orders /\ o \in Items /\ upstream[o] > 0
      /\ notice[o] # "none" /\ stored \in [Items -> Versions]
  BY <1>1 DEF IInv, TypeOK, HookFine, OnlyShopifys, UpsertOrder, Items
<1>3. /\ stored' = [stored EXCEPT ![o] = 1]
      /\ events' = Append(events, NewEvent(o))
      /\ UNCHANGED <<notice, connected>>
  BY <1>1 DEF UpsertOrder, PayloadVersion, shopify, listing
<1>4. Recorded' = Recorded \cup {o} /\ Settled' = Settled
  BY <1>2, <1>3, AppendRecords
<1>5. Filed' = Filed \cup {o}
  <2>1. \A k \in Orders : stored'[k] = IF k = o THEN 1 ELSE stored[k]
    BY <1>2, <1>3 DEF Items
  <2> QED BY <1>2, <2>1 DEF Filed
<1>6. o \in Implemented!Known
  BY <1>2 DEF Implemented!Known
<1>7. Missed' = Missed
  BY MissedStays DEF HandleHook, UpsertOrder
<1>8. Implemented!Record(o)
  BY <1>3, <1>4, <1>5, <1>6, <1>7 DEF Implemented!Record, Recorded, Filed, Settled, Missed
<1> QED BY <1>2, <1>8

LEMMA UpsertRaisesRecords ==
    ASSUME IInv, NEW w \in Hooks, UpsertRaises(w)
    PROVE  \E o \in Orders : Implemented!Record(o)
<1>1. PICK o : o = hook[w].order
  OBVIOUS
<1>2. o \in Orders /\ notice[o] # "none"
  BY <1>1 DEF IInv, HookFine, OnlyShopifys, UpsertRaises
<1>3. /\ events' = Append(events, NewEvent(o))
      /\ UNCHANGED <<notice, connected, stored>>
  BY <1>1 DEF UpsertRaises, shopify, listing
<1>4. Recorded' = Recorded \cup {o} /\ Settled' = Settled
  BY <1>2, <1>3, AppendRecords
<1>5. Filed' = Filed
  BY <1>3 DEF Filed
<1>6. o \in Implemented!Known
  BY <1>2 DEF Implemented!Known
<1>7. Missed' = Missed
  BY MissedStays DEF HandleHook, UpsertRaises
<1>8. Implemented!Record(o)
  BY <1>3, <1>4, <1>5, <1>6, <1>7 DEF Implemented!Record, Recorded, Filed, Settled, Missed
<1> QED BY <1>2, <1>8

(* The mark settles the order of the event that the handler stored: by then it
   is recorded and its row is in. *)
LEMMA MarkProcessedSettles ==
    ASSUME IInv, NEW w \in Hooks, MarkProcessed(w)
    PROVE  \E o \in Orders : Implemented!Settle(o)
<1>1. PICK o : o = hook[w].order
  OBVIOUS
<1>2. PICK e : e = hook[w].event
  OBVIOUS
<1>3. /\ o \in Orders /\ stored[o] > 0 /\ events \in Seq(Event)
      /\ e \in DOMAIN events /\ events[e].external_id = o
  BY <1>1, <1>2 DEF IInv, TypeOK, HookFine, MarkProcessed
<1>4. PICK row : row = [events[e] EXCEPT !.processed = TRUE]
  OBVIOUS
<1>5. events[e] \in Event
  BY <1>3, EventTyped
<1>6. row.external_id = o /\ row.processed = TRUE
  BY <1>3, <1>4, <1>5 DEF Event
<1>7. events' = [events EXCEPT ![e] = row] /\ UNCHANGED <<notice, connected, stored>>
  BY <1>2, <1>4 DEF MarkProcessed, shopify, listing
<1>8. /\ DOMAIN events' = DOMAIN events
      /\ \A n \in DOMAIN events : events'[n] = IF n = e THEN row ELSE events[n]
  BY <1>7
<1>9. \A k : EventsOf(k)' = EventsOf(k)
  BY <1>3, <1>6, <1>8 DEF EventsOf
<1>10. e \in EventsOf(o) /\ \A k, n : n \in EventsOf(k) => n \in DOMAIN events
  BY <1>3 DEF EventsOf
<1>11. Recorded' = Recorded /\ Filed' = Filed /\ o \in Recorded /\ o \in Filed
  BY <1>3, <1>7, <1>9, <1>10 DEF Recorded, Filed
<1>12. Settled' = Settled \cup {o}
  <2>1. ASSUME NEW k \in Orders
        PROVE  (\E n \in EventsOf(k) : events[n].processed)'
                  <=> (\E n \in EventsOf(k) : events[n].processed) \/ k = o
    <3>1. CASE k = o
      BY <1>6, <1>8, <1>9, <1>10, <3>1
    <3>2. CASE k # o
      <4>1. \A n \in EventsOf(k) : n # e /\ n \in DOMAIN events
        BY <1>3, <3>2 DEF EventsOf
      <4> QED BY <1>8, <1>9, <3>2, <4>1
    <3> QED BY <3>1, <3>2
  <2> QED BY <1>3, <2>1 DEF Settled
<1>13. Missed' = Missed
  BY MissedStays DEF HandleHook, MarkProcessed
<1>14. Implemented!Settle(o)
  BY <1>7, <1>11, <1>12, <1>13 DEF Implemented!Settle, Recorded, Filed, Settled, Missed
<1> QED BY <1>3, <1>14

LEMMA UpsertPageFiles ==
    ASSUME IInv, NEW s \in Syncs, UpsertPage(s)
    PROVE  Implemented!File
<1>1. PICK page : page = sync[s].page
  OBVIOUS
<1>2. /\ page \in [Items -> Versions] /\ stored \in [Items -> Versions]
      /\ \A i \in Items : page[i] > 0 => upstream[i] > 0
      /\ \A o \in Orders : notice[o] # "none" <=> upstream[o] > 0
  BY <1>1 DEF IInv, TypeOK, Sync, SyncFine, OnlyShopifys, UpsertPage
<1>3. stored' = Merged(page) /\ UNCHANGED <<notice, connected, events, hook>>
  BY <1>1 DEF UpsertPage, shopify, listing
<1>4. Recorded' = Recorded /\ Settled' = Settled
  BY <1>3 DEF Recorded, Settled, EventsOf
<1>5. \A o \in Orders : stored'[o] = IF page[o] = 0 THEN stored[o] ELSE page[o]
  BY <1>3 DEF Merged, Items
<1>6. \A o \in Orders : o \in Items /\ page[o] \in Nat
  BY <1>2, ConstantsTyped DEF Items, Versions
<1>7. Filed \subseteq Filed'
  BY <1>5, <1>6 DEF Filed
<1>8. Filed' \subseteq Filed \cup Implemented!Known
  BY <1>2, <1>5, <1>6 DEF Filed, Implemented!Known
<1> QED BY <1>3, <1>4, <1>7, <1>8 DEF Implemented!File, Recorded, Filed, Settled

LEMMA ChangeAnnounces ==
    ASSUME IInv, NEW i \in Items, Change(i)
    PROVE  UNCHANGED Implemented!inbox \/ \E o \in Orders : Implemented!Announce(o)
<1>1. /\ notice' = [o \in Orders |-> IF o = i /\ notice[o] = "none" THEN "unacked"
                                     ELSE notice[o]]
      /\ UNCHANGED <<connected, stored, events, hook>> /\ Missed' = Missed
  BY DEF Change, database, Missed
<1>2. notice = [o \in Orders |-> notice[o]]
  BY DEF IInv, TypeOK
<1>3. CASE i \in Orders /\ notice[i] = "none"
  <2>1. notice' = [notice EXCEPT ![i] = "unacked"]
    BY <1>1, <1>2, <1>3
  <2> QED BY <1>1, <1>3, <2>1 DEF Implemented!Announce, EventsOf
<1>4. CASE ~(i \in Orders /\ notice[i] = "none")
  <2>1. notice' = notice
    BY <1>1, <1>2, <1>4
  <2> QED BY <1>1, <2>1, Unseen
<1> QED BY <1>3, <1>4

(* An answer is seen only by Shopify, and only once. *)
LEMMA AnswerSeen ==
    ASSUME IInv, NEW w \in Hooks, NEW verdict, NEW heard \in BOOLEAN,
           Answer(w, verdict, heard)
    PROVE  \/ notice' = notice
           \/ /\ notice[hook[w].order] = "unacked"
              /\ notice' = [notice EXCEPT ![hook[w].order] = verdict]
<1>1. PICK o : o = hook[w].order
  OBVIOUS
<1>2. notice' = [notice EXCEPT ![o] = IF heard /\ @ = "unacked" THEN verdict ELSE @]
  BY <1>1 DEF Answer
<1>3. CASE heard /\ notice[o] = "unacked"
  BY <1>1, <1>2, <1>3
<1>4. CASE ~(heard /\ notice[o] = "unacked")
  BY <1>2, <1>4 DEF IInv, TypeOK
<1> QED BY <1>3, <1>4

(* A handler that stops without an answer: what it was about to drop may be
   forgotten. *)
LEMMA StopForgets ==
    ASSUME IInv, NEW w \in Hooks, HandleHook(w) \/ KillHook(w),
           UNCHANGED <<notice, connected, stored, events>>
    PROVE  UNCHANGED Implemented!inbox \/ \E o \in Orders : Implemented!Forget(o)
<1>1. PICK o \in Orders : o = hook[w].order
  BY HookMoves
<1>2. Missed' = Missed \/ Missed' = Missed \ {o}
  BY <1>1, HookMoves, CeasesDropping
<1>3. CASE Missed' = Missed
  BY <1>3, Unseen
<1>4. CASE Missed' = Missed \ {o}
  BY <1>4 DEF Implemented!Forget, Missed, EventsOf
<1> QED BY <1>2, <1>3, <1>4

LEMMA DropSeen ==
    ASSUME IInv, NEW w \in Hooks, NEW heard \in BOOLEAN, Drop(w, heard)
    PROVE  \/ UNCHANGED Implemented!inbox
           \/ \E o \in Orders : Implemented!Drop(o) \/ Implemented!Forget(o)
<1>1. /\ HandleHook(w) /\ hook[w].pc = "dropping" /\ Answer(w, "dropped", heard)
      /\ UNCHANGED <<connected, stored, events>>
  BY DEF Drop, HandleHook, database
<1>2. PICK o \in Orders : o = hook[w].order
  BY <1>1, HookMoves
<1>3. Missed' = Missed \/ Missed' = Missed \ {o}
  BY <1>1, <1>2, HookMoves, CeasesDropping
<1>4. o \in Missed
  BY <1>1, <1>2 DEF Missed
<1>5. CASE notice' = notice
  BY <1>1, <1>5, StopForgets
<1>6. CASE notice[o] = "unacked" /\ notice' = [notice EXCEPT ![o] = "dropped"]
  <2>1. UNCHANGED <<Reachable, Recorded, Filed, Settled>>
    BY <1>1, TablesKept
  <2>2. Implemented!Drop(o)
    BY <1>3, <1>4, <1>6, <2>1
       DEF Implemented!Drop, Missed, Reachable, Recorded, Filed, Settled
  <2> QED BY <2>2
<1> QED BY <1>1, <1>2, <1>5, <1>6, AnswerSeen

LEMMA AcknowledgeSeen ==
    ASSUME IInv, NEW w \in Hooks, NEW heard \in BOOLEAN, Acknowledge(w, heard)
    PROVE  UNCHANGED Implemented!inbox \/ \E o \in Orders : Implemented!Acknowledge(o)
<1>1. /\ HandleHook(w) /\ hook[w].pc = "answering" /\ Answer(w, "acked", heard)
      /\ UNCHANGED <<connected, stored, events>>
  BY DEF Acknowledge, HandleHook, database
<1>2. PICK o \in Orders : o = hook[w].order
  BY <1>1, HookMoves
<1>3. EventsOf(o) # {}
  BY <1>1, <1>2 DEF IInv, HookFine
<1>4. Missed' = Missed
  BY <1>1, MissedStays
<1>5. CASE notice' = notice
  BY <1>1, <1>4, <1>5, Unseen
<1>6. CASE notice[o] = "unacked" /\ notice' = [notice EXCEPT ![o] = "acked"]
  <2>1. UNCHANGED <<Reachable, Recorded, Filed, Settled>>
    BY <1>1, TablesKept
  <2>2. Implemented!Acknowledge(o)
    BY <1>3, <1>4, <1>6, <2>1
       DEF Implemented!Acknowledge, Missed, Reachable, Recorded, Filed, Settled
  <2> QED BY <2>2
<1> QED BY <1>1, <1>2, <1>5, <1>6, AnswerSeen

(* A delivery that finds its shop connected to nobody is missed; one that finds it
   is not seen yet. *)
LEMMA PostSeen ==
    ASSUME IInv, NEW w \in Hooks, NEW o \in Orders, Miss(w, o) \/ Resolve(w, o)
    PROVE  UNCHANGED Implemented!inbox \/ Implemented!Miss(o)
<1>1. hook \in [Hooks -> Hook] /\ UNCHANGED <<notice, connected, stored, events>>
  BY DEF IInv, TypeOK, Miss, Resolve, Post, database
<1>2. ASSUME NEW pc, Post(w, o, pc)
      PROVE  /\ \A v \in Hooks \ {w} : hook'[v] = hook[v]
             /\ hook[w].pc # "dropping" /\ hook'[w].pc = pc /\ hook'[w].order = o
             /\ notice[o] = "unacked"
  <2>1. PICK h : h = [pc |-> pc, order |-> o, event |-> 0]
    OBVIOUS
  <2>2. hook' = [hook EXCEPT ![w] = h] /\ hook[w].pc = "idle" /\ notice[o] = "unacked"
    BY <1>2, <2>1 DEF Post
  <2>3. h.pc = pc /\ h.order = o
    BY <2>1
  <2> QED BY <1>1, <2>2, <2>3
<1>3. CASE Resolve(w, o)
  <2>1. Missed' = Missed
    BY <1>2, <1>3, NothingMissed DEF Resolve
  <2> QED BY <1>1, <2>1, Unseen
<1>4. CASE Miss(w, o)
  <2>1. /\ Missed' = Missed \cup {o} /\ notice[o] = "unacked" /\ connected # ShopOf[o]
    BY <1>2, <1>4, StartsDropping DEF Miss
  <2> QED BY <1>1, <2>1 DEF Implemented!Miss, Implemented!Known, Missed, EventsOf
<1> QED BY <1>3, <1>4

LEMMA NextRefines ==
    ASSUME IInv, [Next]_vars
    PROVE  [Implemented!Step]_(Implemented!inbox)
<1>1. CASE UNCHANGED vars
  BY <1>1, Unseen DEF vars, Missed
<1>2. CASE Connect \/ \E d \in Shops : Callback(d)
  <2>1. UNCHANGED <<notice, stored, events, hook>>
    BY <1>2 DEF Connect, Callback, shopify
  <2> QED BY <2>1 DEF Implemented!Step, Implemented!Switch, EventsOf
<1>3. ASSUME NEW i \in Items, Change(i)
      PROVE  [Implemented!Step]_(Implemented!inbox)
  BY <1>3, ChangeAnnounces DEF Implemented!Step
<1>7. ASSUME NEW i \in Items, Remove(i)
      PROVE  [Implemented!Step]_(Implemented!inbox)
  BY <1>7, Unseen DEF Remove, database, Missed
<1>4. ASSUME NEW w \in Hooks, NEW o \in Orders, Miss(w, o) \/ Resolve(w, o)
      PROVE  [Implemented!Step]_(Implemented!inbox)
  BY <1>4, PostSeen DEF Implemented!Step
<1>5. ASSUME NEW w \in Hooks, HandleHook(w) \/ KillHook(w)
      PROVE  [Implemented!Step]_(Implemented!inbox)
  <2>1. CASE Check(w) \/ UpsertAborts(w) \/ KillHook(w)
    <3>1. UNCHANGED <<notice, connected, stored, events>>
      BY <2>1 DEF Check, UpsertAborts, KillHook, shopify, database
    <3> QED BY <1>5, <3>1, StopForgets DEF Implemented!Step
  <2>2. CASE UpsertOrder(w) \/ UpsertRaises(w)
    <3>1. \E o \in Orders : Implemented!Record(o)
      BY <2>2, UpsertOrderRecords, UpsertRaisesRecords
    <3> QED BY <3>1 DEF Implemented!Step
  <2>3. CASE MarkProcessed(w)
    <3>1. \E o \in Orders : Implemented!Settle(o)
      BY <2>3, MarkProcessedSettles
    <3> QED BY <3>1 DEF Implemented!Step
  <2>4. ASSUME NEW heard \in BOOLEAN, Drop(w, heard) \/ Acknowledge(w, heard)
        PROVE  [Implemented!Step]_(Implemented!inbox)
    <3>1. \/ UNCHANGED Implemented!inbox
          \/ \E o \in Orders : \/ Implemented!Drop(o) \/ Implemented!Forget(o)
                               \/ Implemented!Acknowledge(o)
      BY <2>4, DropSeen, AcknowledgeSeen
    <3> QED BY <3>1 DEF Implemented!Step
  <2> QED BY <1>5, <2>1, <2>2, <2>3, <2>4 DEF HandleHook
<1>6. ASSUME NEW s \in Syncs,
             StartSync(s) \/ Fetch(s) \/ UpsertPage(s) \/ Stamp(s) \/ KillSync(s)
      PROVE  [Implemented!Step]_(Implemented!inbox)
  <2>1. CASE UpsertPage(s)
    BY <2>1, UpsertPageFiles DEF Implemented!Step
  <2>2. CASE StartSync(s) \/ Fetch(s) \/ Stamp(s) \/ KillSync(s)
    <3>1. UNCHANGED <<notice, connected, stored, events, hook>>
      BY <2>2 DEF StartSync, Fetch, Stamp, KillSync, shopify, database
    <3> QED BY <3>1, Unseen DEF Missed
  <2> QED BY <1>6, <2>1, <2>2
<1> QED BY <1>1, <1>2, <1>3, <1>4, <1>5, <1>6, <1>7 DEF Next

(* Webhook handling and syncs together implement InboxContract: recorded before
   acknowledged, filed before processed, dropped only after the shop was found
   connected to nobody, and nothing lost, for any orders, shops, handlers, syncs,
   duplicates, crashes and reconnects. *)
THEOREM ContractKept == Spec => KeepsContract
<1>1. Init => Implemented!Empty
  <2> SUFFICES ASSUME Init PROVE Implemented!Empty
    OBVIOUS
  <2>1. \A o : EventsOf(o) = {}
    BY DEF Init, EventsOf
  <2>2. \A o \in Orders : ~(stored[o] > 0)
    BY DEF Init, NoPage, Items
  <2>3. \A w \in Hooks : hook[w].pc # "dropping"
    BY DEF Init, IdleHook
  <2> QED BY <2>1, <2>2, <2>3 DEF Init, Implemented!Empty
<1> QED BY <1>1, Invariance, NextRefines, PTL
        DEF Spec, KeepsContract, Implemented!Contract
=============================================================================
