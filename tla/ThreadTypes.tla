---------------------------- MODULE ThreadTypes ----------------------------
(***************************************************************************)
(* The machines of MCThreads together keep their types: every step of a    *)
(* behaviour is a step of the part that runs and a stutter of the others,  *)
(* so what each part keeps by itself all of them keep.                     *)
(***************************************************************************)
EXTENDS MCThreads, ThreadProofs, ClientProofs

-----------------------------------------------------------------------------
(***************************************************************************)
(* The poster, its slot and its encode worker.                             *)
(***************************************************************************)
Framed == Posters \cup {NoPoster}
Jobs == [img : Framed, num : Nat]

\* The state holds the art of a poster, drawn from the slot; what the encode worker has
\* is of posters.
SlotKept ==
    /\ [id |-> art.for, url |-> art.url] \in Framed
    /\ failure.what \in Framed
    /\ ~(art.loading /\ art.pixels) /\ (art.pixels => slot.src.id = art.for)
    /\ slot \in [src : Framed, num : Nat, shaped : BOOLEAN,
                 inner : {"none", "raw", "asked", "encoded"}, img : Framed]
    /\ encodes \in [todo : Seq(Jobs), done : Seq(Jobs)]

CoversInv == PosterTypes /\ SlotKept

\* What stands for no poster, no art and no slot.
LEMMA NothingFramed ==
    /\ NoPoster \in Framed /\ NoPoster.id = 0 /\ NoPoster.url = NoUrl
    /\ [id |-> NoArt.for, url |-> NoArt.url] = NoPoster
    /\ ~NoArt.loading /\ ~NoArt.pixels /\ NoFailure.what = NoPoster
    /\ NoSlot \in [src : Framed, num : Nat, shaped : BOOLEAN,
                   inner : {"none", "raw", "asked", "encoded"}, img : Framed]
    /\ \A p \in Framed : p = [id |-> p.id, url |-> p.url]
    /\ \A p \in Framed : NewSlot(p) \in [src : Framed, num : Nat, shaped : BOOLEAN,
                                         inner : {"none", "raw", "asked", "encoded"}, img : Framed]
                         /\ NewSlot(p).src = p
  <1>1. NoPoster \in Framed /\ NoPoster.id = 0 /\ NoPoster.url = NoUrl
    BY DEF Framed, NoPoster
  <1>2. \A p \in Framed : p = [id |-> p.id, url |-> p.url]
    BY CoversAssumption DEF Framed, NoPoster
  <1>3. [id |-> NoArt.for, url |-> NoArt.url] = NoPoster /\ ~NoArt.loading /\ ~NoArt.pixels
    BY DEF NoArt, NoPoster
  <1> QED
    BY <1>1, <1>2, <1>3 DEF NoFailure, NoSlot, NewSlot

LEMMA CoversInitKept == CoversInit => CoversInv
  <1>1. CoversInit => PosterTypes
    BY NoPosterTypes DEF CoversInit, PosterTypes, NoFailure
  <1> SUFFICES ASSUME CoversInit
               PROVE  SlotKept
    BY <1>1 DEF CoversInv
  <1>2. encodes \in [todo : Seq(Jobs), done : Seq(Jobs)]
    BY DEF CoversInit
  <1> QED
    BY <1>2, NothingFramed DEF CoversInit, SlotKept

LEMMA CoversNextKept ==
    ASSUME CoversInv, [CoversNext]_coversVars
    PROVE  CoversInv'
  <1> DEFINE Slots == [src : Framed, num : Nat, shaped : BOOLEAN,
                       inner : {"none", "raw", "asked", "encoded"}, img : Framed]
             Queues == [todo : Seq(Jobs), done : Seq(Jobs)]
  <1>1. PosterTypes'
    BY CoversNextGood DEF CoversInv
  <1>2. SUFFICES SlotKept'
    BY <1>1 DEF CoversInv
  <1>3. /\ [id |-> art.for, url |-> art.url] \in Framed /\ failure.what \in Framed
        /\ ~(art.loading /\ art.pixels) /\ (art.pixels => slot.src.id = art.for)
        /\ slot \in Slots /\ encodes \in Queues
    BY DEF CoversInv, SlotKept
  <1>4. target \in Framed /\ drawer.of \in Framed /\ arrivals \in Seq([of : Framed, ok : BOOLEAN])
    BY DEF CoversInv, PosterTypes, Framed
  <1>5. CASE Retarget \/ WindowCloses \/ DrawerPosts \/ DrawerEnds \/ UNCHANGED coversVars
    <2>1. UNCHANGED <<art, failure, slot, encodes>>
      BY <1>5 DEF Retarget, WindowCloses, DrawerPosts, DrawerEnds, coversVars, artVars
    <2> QED
      BY <1>3, <2>1 DEF SlotKept
  <1>6. CASE Untarget \/ SyncClears
    <2>1. art' = NoArt /\ slot' = NoSlot /\ UNCHANGED <<failure, encodes>>
      BY <1>6 DEF Untarget, SyncClears
    <2> QED
      BY <1>3, <2>1, NothingFramed DEF SlotKept
  <1>7. CASE SyncFetches
    <2>1. failure' = NoFailure /\ UNCHANGED <<slot, encodes>>
      BY <1>7 DEF SyncFetches
    <2>2. art' = NoArt \/ art' = [for |-> target.id, url |-> target.url, loading |-> TRUE, pixels |-> FALSE]
      BY <1>7 DEF SyncFetches
    <2>3. [id |-> art'.for, url |-> art'.url] \in Framed /\ ~art'.pixels
      BY <1>4, <2>2, NothingFramed
    <2> QED
      BY <1>3, <2>1, <2>3, NothingFramed DEF SlotKept
  <1>8. CASE CooldownPasses
    <2>1. failure' = [failure EXCEPT !.hot = FALSE] /\ UNCHANGED <<art, slot, encodes>>
      BY <1>8 DEF CooldownPasses
    <2>2. failure'.what = failure.what
      BY <2>1 DEF CoversInv, PosterTypes
    <2> QED
      BY <1>3, <2>1, <2>2 DEF SlotKept
  <1>9. CASE CoverArrives
    <2> DEFINE p == Head(arrivals).of
               Landed == [of : Framed, ok : BOOLEAN]
    <2>1. arrivals # <<>> /\ encodes' = encodes
      BY <1>9 DEF CoverArrives
    <2>2. p \in Framed
      <3>1. arrivals \in Seq(Landed)
        BY <1>4
      <3> HIDE DEF Landed
      <3>2. Head(arrivals) \in Landed
        BY <2>1, <3>1
      <3> QED
        BY <3>2 DEF Landed
    <2>3. Arrived(p) \/ (Missed(p) /\ slot' = slot)
      BY <1>9 DEF CoverArrives
    <2> HIDE DEF p
    <2>4. CASE Arrived(p) /\ Awaits(p) /\ Keeps(p)
      <3>1. failure' = NoFailure /\ art' = [art EXCEPT !.loading = FALSE, !.pixels = TRUE]
            /\ slot' = NewSlot(p) /\ art.for = p.id
        BY <2>4 DEF Arrived, Awaits
      <3>2. art'.for = art.for /\ art'.url = art.url /\ ~art'.loading
        BY <3>1 DEF CoversInv, PosterTypes
      <3> QED
        BY <1>3, <2>1, <2>2, <3>1, <3>2, NothingFramed DEF SlotKept
    <2>5. CASE Arrived(p) /\ Awaits(p) /\ ~Keeps(p)
      <3>1. failure' = NoFailure /\ art' = NoArt /\ slot' = slot
        BY <2>5 DEF Arrived
      <3> QED
        BY <1>3, <2>1, <3>1, NothingFramed DEF SlotKept
    <2>6. CASE Missed(p) /\ slot' = slot /\ Awaits(p)
      <3>1. /\ failure' = [what |-> [id |-> p.id, url |-> art.url], hot |-> TRUE] /\ art' = NoArt
            /\ art.for = p.id
        BY <2>6 DEF Missed, Awaits
      <3>2. failure'.what \in Framed
        BY <1>3, <3>1
      <3> QED
        BY <1>3, <2>1, <2>6, <3>1, <3>2, NothingFramed DEF SlotKept
    <2>7. CASE ~Awaits(p)
      <3>1. UNCHANGED <<art, failure, slot>>
        BY <2>3, <2>7 DEF Arrived, Missed
      <3> QED
        BY <1>3, <2>1, <3>1 DEF SlotKept
    <2> QED
      BY <2>3, <2>4, <2>5, <2>6, <2>7
  <1>10. CASE DrawCover \/ Reshape
    <2>1. /\ UNCHANGED <<art, failure>>
          /\ \E n \in Nat, img \in Framed :
                /\ slot'.src = slot.src /\ slot' \in Slots
                /\ encodes' = [encodes EXCEPT !.todo = Append(@, [img |-> img, num |-> n])]
      <3>1. CASE DrawCover
        <4> DEFINE n == slot.num + (IF slot.shaped THEN 1 ELSE 2)
        <4>1. n \in Nat /\ slot.img \in Framed
          BY <1>3
        <4>2. /\ UNCHANGED <<art, failure>>
              /\ slot' = [slot EXCEPT !.num = n, !.shaped = TRUE, !.inner = "asked"]
              /\ encodes' = [encodes EXCEPT !.todo = Append(@, [img |-> slot.img, num |-> n])]
          BY <3>1 DEF DrawCover, artVars
        <4> HIDE DEF n
        <4>3. slot'.src = slot.src /\ slot' \in Slots
          BY <1>3, <4>1, <4>2
        <4> QED
          BY <4>1, <4>2, <4>3
      <3>2. CASE Reshape
        <4>1. slot.num + 2 \in Nat /\ slot.src \in Framed
          BY <1>3
        <4>2. /\ UNCHANGED <<art, failure>>
              /\ slot' = [slot EXCEPT !.num = @ + 2, !.inner = "asked", !.img = slot.src]
              /\ encodes' = [encodes EXCEPT !.todo = Append(@, [img |-> slot.src, num |-> slot.num + 2])]
          BY <3>2 DEF Reshape, artVars
        <4>3. slot'.src = slot.src /\ slot' \in Slots
          BY <1>3, <4>1, <4>2
        <4> QED
          BY <4>1, <4>2, <4>3
      <3> QED
        BY <1>10, <3>1, <3>2
    <2>2. PICK n \in Nat, img \in Framed :
                /\ slot'.src = slot.src /\ slot' \in Slots
                /\ encodes' = [encodes EXCEPT !.todo = Append(@, [img |-> img, num |-> n])]
      BY <2>1
    <2>3. [img |-> img, num |-> n] \in Jobs
      BY DEF Jobs
    <2>4. encodes' \in Queues
      <3> DEFINE job == [img |-> img, num |-> n]
      <3>1. job \in Jobs /\ encodes' = [encodes EXCEPT !.todo = Append(encodes.todo, job)]
        BY <2>2, <2>3
      <3> HIDE DEF job
      <3>2. Append(encodes.todo, job) \in Seq(Jobs)
        BY <1>3, <3>1
      <3> QED
        BY <1>3, <3>1, <3>2
    <2> QED
      BY <1>3, <2>1, <2>2, <2>4 DEF SlotKept
  <1>11. CASE Encode
    <2>1. /\ UNCHANGED <<art, failure, slot>> /\ encodes.todo # <<>>
          /\ encodes' = [todo |-> Tail(encodes.todo), done |-> Append(encodes.done, Head(encodes.todo))]
      BY <1>11 DEF Encode, artVars
    <2>2. encodes.todo \in Seq(Jobs) /\ encodes.done \in Seq(Jobs)
      BY <1>3
    <2>3. Head(encodes.todo) \in Jobs /\ Tail(encodes.todo) \in Seq(Jobs)
      BY <2>1, <2>2
    <2>4. Append(encodes.done, Head(encodes.todo)) \in Seq(Jobs)
      BY <2>2, <2>3
    <2>5. encodes' \in Queues
      BY <2>1, <2>3, <2>4
    <2> QED
      BY <1>3, <2>1, <2>5 DEF SlotKept
  <1>12. CASE ApplyResponse
    <2> DEFINE r == Head(encodes.done)
    <2>1. /\ UNCHANGED <<art, failure>> /\ encodes.done # <<>>
          /\ encodes' = [encodes EXCEPT !.done = Tail(@)]
          /\ slot' = slot \/ slot' = [slot EXCEPT !.inner = "encoded", !.img = r.img]
      BY <1>12 DEF ApplyResponse, artVars
    <2>2. encodes.done \in Seq(Jobs)
      BY <1>3
    <2>3. r \in Jobs /\ Tail(encodes.done) \in Seq(Jobs)
      BY <2>1, <2>2
    <2>4. encodes' \in Queues
      BY <1>3, <2>1, <2>3
    <2>5. r.img \in Framed
      BY <2>3 DEF Jobs
    <2> HIDE DEF r
    <2>6. slot' \in Slots /\ slot'.src = slot.src
      BY <1>3, <2>1, <2>5
    <2> QED
      BY <1>3, <2>1, <2>4, <2>6 DEF SlotKept
  <1> QED
    BY <1>5, <1>6, <1>7, <1>8, <1>9, <1>10, <1>11, <1>12 DEF CoversNext

LEMMA CoversTyped == CoversInv => CoversTypeOK
  BY DEF CoversInv, SlotKept, PosterTypes, CoversTypeOK, Framed

-----------------------------------------------------------------------------
(***************************************************************************)
(* The calls of the providers.                                             *)
(***************************************************************************)
CallStages == {"read", "probe", "bisect", "hosts", "sources", "cap", "sidecar", "cues", "done"}
Kinds == {"err", "absent", "hits", "listing", "link"}

\* The budget of a set of places is of no more than HostTries of them: the last of them
\* has less than HostTries before it.
LEMMA BudgetBounds ==
    ASSUME NEW n \in Nat, NEW places \in SUBSET (1 .. n)
    PROVE  IsFiniteSet(Budget(places)) /\ Cardinality(Budget(places)) <= HostTries
  <1> DEFINE few == Budget(places)
  <1>0. IsFiniteSet(1 .. n) /\ few \subseteq places
    BY FS_Interval DEF Budget
  <1>4. IsFiniteSet(places) /\ few \subseteq 1 .. n
    BY <1>0, FS_Subset
  <1>5. IsFiniteSet(few)
    BY <1>0, <1>4, FS_Subset
  <1>1. IsFiniteSet(places) /\ few \subseteq places /\ IsFiniteSet(few) /\ HostTries \in Nat \ {0}
    BY <1>0, <1>4, <1>5, AdaptersAssumption
  <1>2. CASE few = {}
    BY <1>1, <1>2, FS_EmptySet
  <1>3. CASE few # {}
    <2>1. PICK k \in few : \A j \in few : j <= k
      <3> DEFINE T == {n - k : k \in few}
      <3> HIDE DEF few
      <3>1. \A j \in few : j \in Nat /\ n - j \in Nat
        BY <1>4
      <3>2. T \in SUBSET Nat /\ T # {}
        BY <1>3, <3>1
      <3>3. PICK m \in T : \A i \in T : m <= i
        BY <3>2, LeastOf
      <3>4. PICK k \in few : m = n - k
        BY <3>3
      <3>5. \A j \in few : n - k <= n - j
        BY <3>3, <3>4
      <3> HIDE DEF T
      <3>6. \A j \in few : j <= k
        BY <3>1, <3>4, <3>5
      <3> QED
        BY <3>6
    <2>2. Cardinality({j \in places : j < k}) < HostTries
      BY <2>1 DEF Budget
    <2>3. IsFiniteSet({j \in places : j < k})
      BY <1>1, FS_Subset
    <2>4. few \ {k} \subseteq {j \in places : j < k}
      <3> HIDE DEF few
      <3>1. \A j \in few : j \in Nat /\ j \in places
        BY <1>1, <1>4
      <3> QED
        BY <2>1, <3>1
    <2>5. Cardinality(few \ {k}) <= Cardinality({j \in places : j < k})
      BY <2>3, <2>4, FS_Subset
    <2>6. Cardinality(few \ {k}) = Cardinality(few) - 1
      BY <1>1, <2>1, FS_RemoveElement
    <2>7. Cardinality(few) \in Nat /\ Cardinality({j \in places : j < k}) \in Nat
      BY <1>1, <2>3, FS_CardinalityType
    <2> DEFINE all == Cardinality(few)  rest == Cardinality(few \ {k})  less == Cardinality({j \in places : j < k})
    <2>8. less < HostTries /\ rest <= less /\ rest = all - 1 /\ all \in Nat /\ less \in Nat
      BY <2>2, <2>5, <2>6, <2>7
    <2> HIDE DEF all, rest, less
    <2>9. all <= HostTries
      BY <1>1, <2>8
    <2> QED
      BY <1>1, <2>9 DEF all
  <1> QED
    BY <1>2, <1>3

\* A set of hosts within the budget.
FewHosts(left) == IsFiniteSet(left) /\ Cardinality(left) <= HostTries

LEMMA VettedFew ==
    ASSUME NEW offered \in Offers
    PROVE  FewHosts(Vetted(offered)) /\ FewHosts(VettedLate(offered))
  <1>1. Len(offered) \in Nat /\ DOMAIN offered = 1 .. Len(offered)
    BY OffersAre
  <1>2. Vettable(offered) \subseteq 1 .. Len(offered)
    BY <1>1 DEF Vettable
  <1>3. FewHosts(Vetted(offered))
    BY <1>1, <1>2, BudgetBounds DEF Vetted, FewHosts
  <1>4. FewHosts(Budget(DOMAIN offered))
    BY <1>1, BudgetBounds DEF FewHosts
  <1>5. \A S, T : FewHosts(S) /\ T \subseteq S => FewHosts(T)
    <2> SUFFICES ASSUME NEW S, NEW T, FewHosts(S), T \subseteq S
                 PROVE  FewHosts(T)
      OBVIOUS
    <2>1. IsFiniteSet(T) /\ Cardinality(T) <= Cardinality(S) /\ IsFiniteSet(S) /\ Cardinality(S) <= HostTries
      BY FS_Subset DEF FewHosts
    <2>2. Cardinality(T) \in Nat /\ Cardinality(S) \in Nat /\ HostTries \in Nat
      BY <2>1, FS_CardinalityType, AdaptersAssumption
    <2> QED
      BY <2>1, <2>2 DEF FewHosts
  <1>6. VettedLate(offered) \subseteq Budget(DOMAIN offered)
    BY DEF VettedLate
  <1> QED
    BY <1>3, <1>4, <1>5, <1>6

CallTyped ==
    /\ call \in [who : Roster, op : {"search", "episodes", "resolve"}, track : {"sub", "dub"}]
    /\ site.eps \in 1 .. MaxEps /\ stage \in CallStages
    /\ (stage = "done") <=> (reply # Unanswered)
    /\ reply.kind \in Kinds \cup {"none"}
    /\ stage = "hosts" => FewHosts(kept.left)

LEMMA CallInitTyped == AdaptersInit => CallTyped
  <1> SUFFICES ASSUME AdaptersInit
               PROVE  CallTyped
    OBVIOUS
  <1>1. site.eps \in 1 .. MaxEps
    BY DEF AdaptersInit
  <1>2. reply.kind = "none" /\ stage = "read" /\ reply = Unanswered
    BY DEF AdaptersInit, Unanswered
  <1> QED
    BY <1>1, <1>2 DEF AdaptersInit, CallTyped, CallStages

LEMMA KindsAre ==
    /\ \A e : Errs(e).kind \in Kinds
    /\ NotStocked.kind \in Kinds
    /\ \A i : [kind |-> "hits", ids |-> i].kind \in Kinds
    /\ \A n : [kind |-> "listing", upto |-> n].kind \in Kinds
    /\ \A i : [kind |-> "link", sub |-> i].kind \in Kinds
    /\ \A i, c : [kind |-> "link", sub |-> i, cues |-> c].kind \in Kinds
  BY DEF Errs, NotStocked, Kinds

\* An answer of some kind ends the call.
LEMMA RepliesTyped ==
    ASSUME CallTyped, NEW r, Replies(r), r.kind \in Kinds
    PROVE  CallTyped'
  <1>1. reply' = r /\ stage' = "done" /\ UNCHANGED <<call, site>>
    BY DEF Replies
  <1>2. reply' # Unanswered
    BY <1>1 DEF Unanswered, Kinds
  <1> QED
    BY <1>1, <1>2 DEF CallTyped, CallStages

\* A step on the way leaves it unanswered.
LEMMA TriesTyped ==
    ASSUME CallTyped, NEW s \in CallStages \ {"done"}, NEW q, NEW k, Tries(s, q, k), stage # "done",
           s = "hosts" => FewHosts(k.left)
    PROVE  CallTyped'
  <1>1. stage' = s /\ kept' = k /\ UNCHANGED <<call, site, reply>>
    BY DEF Tries
  <1> QED
    BY <1>1 DEF CallTyped

LEMMA CallStepTyped ==
    ASSUME CallInv, CallTyped, [Answered]_adapterVars
    PROVE  CallTyped'
  <1>1. CASE UNCHANGED adapterVars
    BY <1>1 DEF adapterVars, CallTyped
  <1>2. {"read", "probe", "bisect", "hosts", "sources", "cap", "sidecar", "cues"} = CallStages \ {"done"}
    BY DEF CallStages
  <1>3. CASE Unsupported \/ DocumentFails \/ Challenged
    BY <1>3, RepliesTyped, KindsAre DEF Unsupported, DocumentFails, Challenged, ReadsChallenge
  <1>4. CASE DocumentEmpty
    BY <1>4, RepliesTyped, KindsAre DEF DocumentEmpty, ReadsEmpty
  <1>5. CASE NextDocument
    BY <1>2, <1>5, TriesTyped DEF NextDocument, Reading
  <1>6. CASE SearchRead
    <2>1. CASE call.who = "anidbapp"
      <3>1. PICK n \in 1 .. 2 : Tries("probe", [k \in 1 .. n |-> k], <<>>)
        BY <1>6, <2>1 DEF SearchRead
      <3> QED
        BY <1>2, <1>6, <3>1, TriesTyped DEF SearchRead, LastRead, Reading
    <2>2. CASE call.who # "anidbapp"
      BY <1>6, <2>2, RepliesTyped, KindsAre DEF SearchRead
    <2> QED
      BY <2>1, <2>2
  <1>7. CASE ListingRead
    <2>1. \/ Tries("bisect", <<>>, [lo |-> 0, hi |-> site.eps + 1])
          \/ Replies(NotStocked)
          \/ \E n : Replies([kind |-> "listing", upto |-> n])
      <3> DEFINE greatest == Max(site.dubbed)
                 bounds == [lo |-> 0, hi |-> site.eps + 1]
      <3>1. \/ Tries("bisect", <<>>, bounds)
            \/ Replies(IF site.dubbed = {} THEN NotStocked ELSE [kind |-> "listing", upto |-> greatest])
            \/ Replies([kind |-> "listing", upto |-> site.eps])
        BY <1>7 DEF ListingRead
      <3> HIDE DEF greatest, bounds
      <3>2. \/ Tries("bisect", <<>>, bounds)
            \/ Replies(NotStocked)
            \/ \E n : Replies([kind |-> "listing", upto |-> n])
        BY <3>1
      <3> QED
        BY <3>2 DEF bounds
    <2>2. CASE Tries("bisect", <<>>, [lo |-> 0, hi |-> site.eps + 1])
      BY <1>2, <1>7, <2>2, TriesTyped DEF ListingRead, LastRead, Reading
    <2>3. CASE Replies(NotStocked)
      BY <2>3, RepliesTyped, KindsAre
    <2>4. CASE \E n : Replies([kind |-> "listing", upto |-> n])
      BY <2>4, RepliesTyped, KindsAre
    <2> QED
      BY <2>1, <2>2, <2>3, <2>4
  <1>8. CASE StreamRead
    <2>0. stage # "done"
      BY <1>8 DEF StreamRead, LastRead, Reading
    <2>1. CASE MegaplayStream
      <3>1. CASE call.track = "dub"
        BY <2>1, <3>1, RepliesTyped, KindsAre DEF MegaplayStream
      <3>2. CASE call.track # "dub"
        <4>1. PICK cues \in [1 .. 3 -> 0 .. 2] : Tries("cues", <<1, 2, 3>>, [best |-> 0, cues |-> cues])
          BY <2>1, <3>2 DEF MegaplayStream
        <4> QED
          BY <1>2, <2>0, <4>1, TriesTyped
      <3> QED
        BY <3>1, <3>2
    <2>2. CASE MasterStream
      BY <1>2, <2>0, <2>2, TriesTyped DEF MasterStream
    <2>3. CASE AnibdStream \/ AninekoStream
      <3>1. PICK offered \in Offers :
                \/ Tries("hosts", <<>>, [offered |-> offered, left |-> Vetted(offered)])
                \/ Tries("hosts", <<>>, [offered |-> offered, left |-> VettedLate(offered)])
        BY <2>3 DEF AnibdStream, AninekoStream
      <3>2. PICK left : FewHosts(left) /\ Tries("hosts", <<>>, [offered |-> offered, left |-> left])
        BY <3>1, VettedFew
      <3>3. [offered |-> offered, left |-> left].left = left
        OBVIOUS
      <3> QED
        BY <1>2, <2>0, <3>2, <3>3, TriesTyped
    <2>4. CASE AllanimeStream
      <3>1. CASE Replies([kind |-> "link", sub |-> 0])
        BY <3>1, RepliesTyped, KindsAre
      <3>2. ASSUME NEW n \in 0 .. 2, Tries("sources", [k \in 1 .. n |-> k], <<>>)
            PROVE  CallTyped'
        BY <1>2, <2>0, <3>2, TriesTyped
      <3> QED
        BY <2>4, <3>1, <3>2 DEF AllanimeStream
    <2> QED
      BY <1>8, <2>1, <2>2, <2>3, <2>4 DEF StreamRead
  <1>9. CASE Probes
    <2>1. \/ \E r : Replies(r) /\ r.kind \in Kinds
          \/ \E q, k : Tries("probe", q, k)
      BY <1>9, KindsAre DEF Probes
    <2>2. stage # "done"
      BY <1>9 DEF Probes
    <2> QED
      BY <1>2, <2>1, <2>2, RepliesTyped, TriesTyped
  <1>10. CASE BisectDub
    <2>1. \/ \E r : Replies(r) /\ r.kind \in Kinds
          \/ \E q, k : Tries("bisect", q, k)
      BY <1>10, KindsAre DEF BisectDub
    <2>2. stage # "done"
      BY <1>10 DEF BisectDub
    <2> QED
      BY <1>2, <2>1, <2>2, RepliesTyped, TriesTyped
  <1>11. CASE HostTry
    <2>0. stage = "hosts" /\ stage # "done"
      BY <1>11 DEF HostTry
    <2>1. CASE kept.left = {} /\ Replies(Errs("decode"))
      BY <2>1, RepliesTyped, KindsAre
    <2>2. ASSUME NEW k \in kept.left, Tries("hosts", <<>>, [kept EXCEPT !.left = kept.left \ {k}])
          PROVE  CallTyped'
      <3>1. FewHosts(kept.left \ {k})
        <4>1. FewHosts(kept.left)
          BY <2>0 DEF CallTyped
        <4>2. /\ IsFiniteSet(kept.left \ {k}) /\ Cardinality(kept.left) \in Nat /\ HostTries \in Nat
              /\ Cardinality(kept.left \ {k}) = Cardinality(kept.left) - 1
          BY <2>2, <4>1, FS_RemoveElement, FS_CardinalityType, AdaptersAssumption DEF FewHosts
        <4> QED
          BY <4>1, <4>2 DEF FewHosts
      <3>2. [kept EXCEPT !.left = kept.left \ {k}].left = kept.left \ {k}
        BY <2>0 DEF CallInv, StageOk, HostsOk
      <3> QED
        BY <1>2, <2>0, <2>2, <3>1, <3>2, TriesTyped
    <2>3. CASE Replies([kind |-> "link", sub |-> 0])
      BY <2>3, RepliesTyped, KindsAre
    <2>4. CASE Tries("cap", <<>>, <<>>)
      BY <1>2, <2>0, <2>4, TriesTyped
    <2> QED
      BY <1>11, <2>1, <2>2, <2>3, <2>4 DEF HostTry
  <1>12. CASE CapVariant
    <2>1. \/ \E r : Replies(r) /\ r.kind \in Kinds
          \/ \E q, k : Tries("sidecar", q, k)
      BY <1>12, KindsAre DEF CapVariant
    <2>2. stage # "done"
      BY <1>12 DEF CapVariant
    <2> QED
      BY <1>2, <2>1, <2>2, RepliesTyped, TriesTyped
  <1>13. CASE Sidecar
    <2>1. \/ \E r : Replies(r) /\ r.kind \in Kinds
          \/ \E q, k : Tries("sidecar", q, k)
      BY <1>13, KindsAre DEF Sidecar
    <2>2. stage # "done"
      BY <1>13 DEF Sidecar
    <2> QED
      BY <1>2, <2>1, <2>2, RepliesTyped, TriesTyped
  <1>14. CASE FollowSource
    <2>1. \/ \E r : Replies(r) /\ r.kind \in Kinds
          \/ \E q, k : Tries("sources", q, k)
      BY <1>14, KindsAre DEF FollowSource
    <2>2. stage # "done"
      BY <1>14 DEF FollowSource
    <2> QED
      BY <1>2, <2>1, <2>2, RepliesTyped, TriesTyped
  <1>15. CASE CueProbe
    <2>1. \/ \E r : Replies(r) /\ r.kind \in Kinds
          \/ \E q, k : Tries("cues", q, k)
      BY <1>15, KindsAre DEF CueProbe
    <2>2. stage # "done"
      BY <1>15 DEF CueProbe
    <2> QED
      BY <1>2, <2>1, <2>2, RepliesTyped, TriesTyped
  <1> QED
    BY <1>1, <1>3, <1>4, <1>5, <1>6, <1>7, <1>8, <1>9, <1>10, <1>11, <1>12, <1>13, <1>14, <1>15 DEF Answered

LEMMA CallsTyped ==
    ASSUME CallInv, CallTyped
    PROVE  AdaptersTypeOK
  <1>1. stage = "bisect" => kept.lo <= kept.hi
    <2> SUFFICES ASSUME stage = "bisect"
                 PROVE  kept.lo <= kept.hi
      OBVIOUS
    <2>1. kept.lo \in Nat /\ kept.hi \in Nat /\ kept.lo < kept.hi
      BY DEF CallInv, StageOk, BisectOk
    <2> QED
      BY <2>1
  <1>2. site.dubbed \subseteq 1 .. site.eps
    BY DEF CallInv, SiteTypes
  <1>3. reply.kind \in {"none", "err", "absent", "hits", "listing", "link"}
    BY DEF CallTyped, Kinds
  <1>4. stage \in {"read", "probe", "bisect", "hosts", "sources", "cap", "sidecar", "cues", "done"}
    BY DEF CallTyped, CallStages
  <1> QED
    BY <1>1, <1>2, <1>3, <1>4 DEF AdaptersTypeOK, CallTyped, FewHosts

-----------------------------------------------------------------------------
(***************************************************************************)
(* What is known of a show.                                                *)
(***************************************************************************)
Statuses == {a.status : a \in CatalogAnswers} \cup {"none"}
CacheRow == [known : {k \in Known : k.status \in Statuses}, expires : {e \in Int : e >= -1}, row : BOOLEAN]
Letter == {m \in Answer : m.kind = "answer" => m.says \in CatalogAnswers}

\* No stamp is ahead of the clock's end, a row that is gone left nothing, and every
\* answer posted, or on its way, was a fetch.
EnrichTyped ==
    /\ hour \in 0 .. LastHour /\ hits \in [Titles -> CacheRow]
    /\ \A s \in Titles : meta[s].stamp \in -1 .. LastHour /\ (~meta[s].row => meta[s] = NoMeta)
    /\ mail \in Seq(Letter) /\ checked \in Titles \cup {NoTitle}
    /\ spent \in [pages : Nat, fetches : Nat]
    /\ Len(mail) + (IF inquiry = NoTitle THEN 0 ELSE 1) <= spent.fetches

LEMMA EnrichInitTyped == EnrichInit => EnrichTyped
  <1> SUFFICES ASSUME EnrichInit
               PROVE  EnrichTyped
    OBVIOUS
  <1>1. NoHit \in CacheRow
    BY EntriesAre DEF NoHit, CacheRow, Statuses, NoEntry, Null
  <1>2. NoMeta.stamp = -1 /\ 0 \in 0 .. LastHour /\ -1 \in -1 .. LastHour
    BY EnrichmentAssumption DEF NoMeta
  <1> QED
    BY <1>1, <1>2 DEF EnrichInit, EnrichTyped

\* A cache row written at an hour expires no earlier.
LEMMA CachedTyped ==
    ASSUME EnrichTyped, NEW s \in Titles, NEW a \in CatalogAnswers
    PROVE  Cached(s, a) \in CacheRow
  <1>1. a \in Known /\ hits[s] \in CacheRow /\ a.status \in Statuses
    BY EnrichmentAssumption DEF EnrichTyped, Statuses
  <1>2. hits[s].known \in Known /\ hits[s].known.status \in Statuses
    BY <1>1 DEF CacheRow
  <1>3. Merged(a, hits[s].known) \in Known
    BY <1>1, <1>2, MergeKeeps
  <1>4. Merged(a, hits[s].known).status \in Statuses
    BY <1>1, <1>2 DEF Merged, Kept
  <1>5. hour \in Nat /\ EnrichTtl[a.status] \in Nat
    BY EnrichmentAssumption DEF EnrichTyped
  <1>6. hour + EnrichTtl[a.status] \in Int /\ hour + EnrichTtl[a.status] >= -1
    BY <1>5
  <1> QED
    BY <1>3, <1>4, <1>6 DEF Cached, CacheRow

\* The rows of one step.
RowsTyped ==
    /\ hits' \in [Titles -> CacheRow]
    /\ \A s \in Titles : meta'[s].stamp \in -1 .. LastHour /\ (~meta'[s].row => meta'[s] = NoMeta)

LEMMA HandledTyped ==
    ASSUME EnrichInv, EnrichTyped, EnrichHandled
    PROVE  RowsTyped /\ mail' \in Seq(Letter) /\ Len(mail') = Len(mail) - 1
  <1> DEFINE m == Head(mail)
  <1>1. mail # <<>> /\ mail' = Tail(mail) /\ mail \in Seq(Letter)
    BY DEF EnrichHandled, EnrichTyped
  <1>2. m \in Letter /\ mail' \in Seq(Letter) /\ Len(mail') = Len(mail) - 1
    BY <1>1
  <1>3. m.id \in Titles /\ m.kind \in {"answer", "null", "failed"} /\ (m.kind = "answer" => m.says \in CatalogAnswers)
    BY <1>2 DEF Letter, Answer
  <1>4. \/ CheckedNull(m.id)
        \/ UNCHANGED <<meta, hits>>
        \/ m.says \in CatalogAnswers /\ Refreshed(m.id, m.says)
    BY <1>3 DEF EnrichHandled, tableVars
  <1>5. /\ meta \in [Titles -> MetaRow] /\ hits \in [Titles -> CacheRow] /\ hour \in -1 .. LastHour
        /\ \A s \in Titles : meta[s].stamp \in -1 .. LastHour /\ (~meta[s].row => meta[s] = NoMeta)
    BY DEF EnrichInv, EnrichTyped
  <1> HIDE DEF m
  <1>6. CASE CheckedNull(m.id)
    <2> DEFINE old == hits[m.id]
               until == hour + EnrichTtl[old.known.status]
    <2>1. old \in CacheRow /\ old.known.status \in Statuses
      BY <1>3, <1>5 DEF CacheRow
    <2>2. hour \in Nat /\ EnrichTtl[old.known.status] \in Nat
      BY <2>1, EnrichmentAssumption DEF EnrichTyped, Statuses
    <2>3. until \in {e \in Int : e >= -1}
      BY <2>2
    <2>4. hits' = [hits EXCEPT ![m.id] = IF hits[m.id].row THEN [old EXCEPT !.expires = until] ELSE old]
      BY <1>6 DEF CheckedNull
    <2> HIDE DEF until
    <2>5. [old EXCEPT !.expires = until] \in CacheRow
      BY <2>1, <2>3 DEF CacheRow
    <2>6. hits' \in [Titles -> CacheRow]
      <3> HIDE DEF old
      <3> QED
        BY <1>3, <1>5, <2>1, <2>4, <2>5
    <2>7. meta' = [meta EXCEPT ![m.id] = IF Patches(m.id) THEN [meta[m.id] EXCEPT !.stamp = hour] ELSE meta[m.id]]
      BY <1>6 DEF CheckedNull
    <2>8. ASSUME NEW s \in Titles
          PROVE  meta'[s].stamp \in -1 .. LastHour /\ (~meta'[s].row => meta'[s] = NoMeta)
      <3>1. CASE s = m.id /\ Patches(m.id)
        <4>1. meta'[s] = [meta[s] EXCEPT !.stamp = hour] /\ meta[s] \in MetaRow /\ meta[s].row
          BY <1>5, <2>7, <3>1 DEF Patches
        <4> QED
          BY <1>5, <4>1 DEF MetaRow
      <3>2. CASE ~(s = m.id /\ Patches(m.id))
        BY <1>5, <2>7, <3>2
      <3> QED
        BY <3>1, <3>2
    <2> QED
      BY <1>2, <2>6, <2>8 DEF RowsTyped
  <1>7. CASE UNCHANGED <<meta, hits>>
    BY <1>2, <1>5, <1>7 DEF RowsTyped
  <1>8. CASE m.says \in CatalogAnswers /\ Refreshed(m.id, m.says)
    <2>1. /\ hits' = [hits EXCEPT ![m.id] = Cached(m.id, m.says)]
          /\ meta' = [meta EXCEPT ![m.id] = IF Patches(m.id) THEN Patched(m.id, m.says) ELSE meta[m.id]]
      BY <1>8 DEF Refreshed
    <2>2. Cached(m.id, m.says) \in CacheRow
      BY <1>3, <1>8, CachedTyped
    <2>3. hits' \in [Titles -> CacheRow]
      BY <1>5, <2>1, <2>2
    <2>4. ASSUME NEW s \in Titles
          PROVE  meta'[s].stamp \in -1 .. LastHour /\ (~meta'[s].row => meta'[s] = NoMeta)
      <3>1. CASE s = m.id /\ Patches(m.id)
        <4>1. meta'[s] = Patched(s, m.says) /\ meta[s] \in MetaRow
          BY <1>5, <2>1, <3>1
        <4>2. meta'[s].stamp = hour /\ meta'[s].row = TRUE
          BY <4>1 DEF Patched, MetaRow
        <4> QED
          BY <1>5, <4>2
      <3>2. CASE ~(s = m.id /\ Patches(m.id))
        BY <1>5, <2>1, <3>2
      <3> QED
        BY <3>1, <3>2
    <2> QED
      BY <1>2, <2>3, <2>4 DEF RowsTyped
  <1> QED
    BY <1>4, <1>6, <1>7, <1>8

LEMMA EnrichStepTyped ==
    ASSUME EnrichInv, EnrichTyped, [EnrichNext]_enrichVars
    PROVE  EnrichTyped'
  <1>1. /\ meta \in [Titles -> MetaRow] /\ hits \in [Titles -> CacheRow] /\ hour \in 0 .. LastHour
        /\ \A s \in Titles : meta[s].stamp \in -1 .. LastHour /\ (~meta[s].row => meta[s] = NoMeta)
        /\ mail \in Seq(Letter) /\ checked \in Titles \cup {NoTitle} /\ inquiry \in Titles \cup {NoTitle}
        /\ spent \in [pages : Nat, fetches : Nat] /\ shown.id \in Titles \cup {NoTitle}
        /\ Len(mail) + (IF inquiry = NoTitle THEN 0 ELSE 1) <= spent.fetches
    BY DEF EnrichInv, EnrichTyped
  <1>2. CASE ChooseNothing \/ SettleFires \/ UNCHANGED enrichVars
    <2>1. UNCHANGED <<meta, hits, checked, inquiry, mail, hour, spent>>
      BY <1>2 DEF ChooseNothing, SettleFires, tableVars, enrichVars
    <2> QED
      BY <1>1, <2>1 DEF EnrichTyped
  <1>3. ASSUME NEW s \in Titles, Choose(s)
        PROVE  EnrichTyped'
    <2>1. UNCHANGED <<meta, hits, inquiry, mail, hour, spent>> /\ checked' \in {checked, NoTitle}
      BY <1>3 DEF Choose, SetTarget, tableVars
    <2> QED
      BY <1>1, <2>1 DEF EnrichTyped
  <1>4. CASE HourPasses
    <2>1. UNCHANGED <<meta, hits, checked, inquiry, mail, spent>> /\ hour < LastHour /\ hour' = hour + 1
      BY <1>4 DEF HourPasses, tableVars, detailVars
    <2>2. hour' \in 0 .. LastHour
      BY <1>1, <2>1, EnrichmentAssumption
    <2> QED
      BY <1>1, <2>1, <2>2 DEF EnrichTyped
  <1>5. CASE PageRow
    <2>1. /\ UNCHANGED <<meta, checked, inquiry, mail, hour>> /\ spent' = [spent EXCEPT !.pages = @ + 1]
          /\ \E s \in Titles, a \in CatalogAnswers : hits' = [hits EXCEPT ![s] = Cached(s, a)]
      BY <1>5 DEF PageRow, detailVars
    <2>2. hits' \in [Titles -> CacheRow]
      BY <1>1, <2>1, CachedTyped
    <2>3. spent' \in [pages : Nat, fetches : Nat] /\ spent'.fetches = spent.fetches
      BY <1>1, <2>1
    <2> QED
      BY <1>1, <2>1, <2>2, <2>3 DEF EnrichTyped
  <1>6. ASSUME NEW s \in Titles, PlanShow(s)
        PROVE  EnrichTyped'
    <2>1. meta' = [meta EXCEPT ![s] = Added(s, cards[s])] /\ UNCHANGED <<hits, checked, inquiry, mail, hour, spent>>
      BY <1>6 DEF PlanShow, detailVars
    <2>2. Added(s, cards[s]).stamp = meta[s].stamp /\ Added(s, cards[s]).row
      BY DEF Added
    <2>3. \A t \in Titles : meta'[t].stamp \in -1 .. LastHour /\ (~meta'[t].row => meta'[t] = NoMeta)
      BY <1>1, <2>1, <2>2
    <2> QED
      BY <1>1, <2>1, <2>3 DEF EnrichTyped
  <1>7. ASSUME NEW s \in Titles, DeleteShow(s)
        PROVE  EnrichTyped'
    <2>1. meta' = [meta EXCEPT ![s] = NoMeta] /\ UNCHANGED <<hits, checked, inquiry, mail, hour, spent>>
      BY <1>7 DEF DeleteShow
    <2>2. NoMeta.stamp \in -1 .. LastHour
      BY EnrichmentAssumption DEF NoMeta
    <2>3. \A t \in Titles : meta'[t].stamp \in -1 .. LastHour /\ (~meta'[t].row => meta'[t] = NoMeta)
      BY <1>1, <2>1, <2>2
    <2> QED
      BY <1>1, <2>1, <2>3 DEF EnrichTyped
  <1>8. CASE MaybeEnrich
    <2>1. /\ UNCHANGED <<meta, hits, mail, hour>> /\ checked' = shown.id /\ inquiry = NoTitle
          /\ \/ UNCHANGED <<inquiry, spent>>
             \/ inquiry' = shown.id /\ spent' = [spent EXCEPT !.fetches = @ + 1]
      BY <1>8 DEF MaybeEnrich, tableVars
    <2>2. Len(mail) \in Nat
      BY <1>1
    <2>3. /\ spent' \in [pages : Nat, fetches : Nat]
          /\ Len(mail') + (IF inquiry' = NoTitle THEN 0 ELSE 1) <= spent'.fetches
      <3>1. CASE UNCHANGED <<inquiry, spent>>
        BY <1>1, <2>1, <3>1
      <3>2. CASE spent' = [spent EXCEPT !.fetches = @ + 1]
        <4>1. spent' \in [pages : Nat, fetches : Nat] /\ spent'.fetches = spent.fetches + 1
          BY <1>1, <3>2
        <4> QED
          BY <1>1, <2>1, <2>2, <4>1
      <3> QED
        BY <2>1, <3>1, <3>2
    <2> QED
      BY <1>1, <2>1, <2>3 DEF EnrichTyped
  <1>9. CASE EnrichAnswers
    <2>1. PICK kind \in {"answer", "null", "failed"}, a \in CatalogAnswers :
              mail' = Append(mail, [id |-> inquiry, kind |-> kind, says |-> IF kind = "answer" THEN a ELSE NoEntry])
      BY <1>9 DEF EnrichAnswers
    <2>2. inquiry \in Titles /\ inquiry' = NoTitle /\ UNCHANGED <<meta, hits, checked, hour, spent>>
      BY <1>1, <1>9 DEF EnrichAnswers, AfterEnrich, tableVars, detailVars
    <2> DEFINE m == [id |-> inquiry, kind |-> kind, says |-> IF kind = "answer" THEN a ELSE NoEntry]
    <2>3. m \in Letter
      BY <2>2, EntriesAre DEF Letter, Answer
    <2> HIDE DEF m
    <2>4. mail' = Append(mail, m)
      BY <2>1 DEF m
    <2>5. mail' \in Seq(Letter) /\ Len(mail') = Len(mail) + 1 /\ Len(mail) \in Nat
      BY <1>1, <2>3, <2>4
    <2>6. inquiry # NoTitle
      BY <2>2, EnrichmentAssumption
    <2>7. Len(mail') + (IF inquiry' = NoTitle THEN 0 ELSE 1) <= spent'.fetches
      BY <1>1, <2>2, <2>5, <2>6
    <2> QED
      BY <1>1, <2>2, <2>5, <2>7 DEF EnrichTyped
  <1>10. CASE EnrichHandled
    <2>1. RowsTyped /\ mail' \in Seq(Letter) /\ Len(mail') = Len(mail) - 1
      BY <1>10, HandledTyped
    <2>2. UNCHANGED <<checked, inquiry, hour, spent>>
      BY <1>10 DEF EnrichHandled
    <2>3. Len(mail) \in Nat /\ spent.fetches \in Nat
      BY <1>1
    <2>4. Len(mail') + (IF inquiry' = NoTitle THEN 0 ELSE 1) <= spent'.fetches
      BY <1>1, <2>1, <2>2, <2>3
    <2> QED
      BY <1>1, <2>1, <2>2, <2>4 DEF EnrichTyped, RowsTyped
  <1> QED
    BY <1>2, <1>3, <1>4, <1>5, <1>6, <1>7, <1>8, <1>9, <1>10 DEF EnrichNext, EnrichProgress

LEMMA EnrichTypesKept ==
    ASSUME EnrichInv, EnrichTyped
    PROVE  EnrichTypeOK
  <1>1. \A s \in Titles : hits[s].expires >= -1
    BY DEF EnrichTyped, CacheRow
  <1>2. Len(mail) \in Nat /\ spent.fetches \in Nat
    BY DEF EnrichTyped
  <1>3. Len(mail) <= spent.fetches
    BY <1>2 DEF EnrichTyped
  <1> QED
    BY <1>1, <1>3 DEF EnrichTyped, EnrichInv, EnrichTypeOK

-----------------------------------------------------------------------------
(***************************************************************************)
(* The types that the invariants of the other parts hold already.          *)
(***************************************************************************)
LEMMA UpdateTyped == UpdateInv => UpdateTypeOK
  <1> SUFFICES ASSUME UpdateInv
               PROVE  UpdateTypeOK
    OBVIOUS
  <1>1. \A w \in {"boot", "cli"} :
            /\ writer[w].step \in {"idle", "read", "fetch", "open", "fill", "rename"}
            /\ writer[w].fd \in {"none", "temp", "memo", "lost"}
            /\ writer[w].step = "fill" <=> writer[w].fd # "none"
    BY DEF UpdateInv, UpdateTypes, Handles, Checkers, Check
  <1>2. cli.step \in {"idle", "asking", "deciding", "installing"}
    BY DEF UpdateInv, UpdateTypes, Command
  <1>3. script.step # "none" => script.tag # NoTag
    <2> SUFFICES ASSUME script.step # "none"
                 PROVE  script.tag # NoTag
      OBVIOUS
    <2>1. script.step \in {"download", "staged", "placed", "failed"} /\ script.tag \in Tag /\ binary \in Tag
      BY DEF UpdateInv, UpdateTypes, Script
    <2>2. CASE script.step = "placed"
      BY <2>2 DEF UpdateInv, Commanded
    <2>3. CASE script.step # "placed"
      BY <2>1, <2>3, NewerIsOther DEF UpdateInv, Commanded
    <2> QED
      BY <2>2, <2>3
  <1> QED
    BY <1>1, <1>2, <1>3 DEF UpdateInv, UpdateTypes, UpdateTypeOK

LEMMA CatalogTyped == CatalogInv => CatalogTypeOK
  <1> SUFFICES ASSUME CatalogInv
               PROVE  CatalogTypeOK
    OBVIOUS
  <1>1. CatalogTypes
    BY DEF CatalogInv
  <1>2. post.op \in Ops \cup {"none"}
    BY <1>1, PostedAre DEF CatalogTypes
  <1>3. result.op \in Ops \cup {"none"}
    <2>1. NoResult.op = "none"
      BY DEF NoResult
    <2>2. result = NoResult \/ result.op \in Ops
      BY <1>1 DEF CatalogTypes
    <2> QED
      BY <2>1, <2>2
  <1> QED
    BY <1>1, <1>2, <1>3 DEF CatalogTypes, CatalogTypeOK

LEMMA SkipTyped == SkipInv => SkipTypeOK
  BY DEF SkipInv, SkipTypes, AnnouncedOnce, SkipTypeOK

-----------------------------------------------------------------------------
(***************************************************************************)
(* The parts together.                                                     *)
(***************************************************************************)
PartsInv ==
    /\ RuntimeInv /\ LoginInv /\ SearchInv /\ CallInv /\ CallTyped /\ MpvInv
    /\ EnrichInv /\ EnrichTyped /\ CoversInv /\ UpdateInv /\ RelayInv
    /\ CatalogInv /\ SkipInv /\ NoticesInv /\ PrefInv /\ TabPlaces

LEMMA PartsInitGood == ThreadsInit => PartsInv
  <1> SUFFICES ASSUME ThreadsInit
               PROVE  PartsInv
    OBVIOUS
  <1>1. RuntimeInv /\ LoginInv /\ SearchInv /\ MpvInv
    BY RuntimeInitGood, LoginInductive, SearchInitGood, MpvInitGood DEF ThreadsInit
  <1>2. CallInv /\ CallTyped
    BY CallInitGood, CallInitTyped DEF ThreadsInit
  <1>3. EnrichInv /\ EnrichTyped /\ CoversInv
    BY EnrichInitGood, EnrichInitTyped, CoversInitKept DEF ThreadsInit
  <1>4. UpdateInv /\ RelayInv /\ CatalogInv /\ SkipInv
    BY UpdateInitGood, RelayInitGood, CatalogInitGood, SkipInitGood DEF ThreadsInit
  <1>5. NoticesInv /\ PrefInv /\ TabPlaces
    BY NoticesInit_Good, PrefInitGood DEF ThreadsInit, PreferencesInit, TabPlaces
  <1> QED
    BY <1>1, <1>2, <1>3, <1>4, <1>5 DEF PartsInv

\* A step of the whole is, for each part, a step of its own or none.
LEMMA EachSteps ==
    ASSUME [ThreadsNext]_threadVars
    PROVE  /\ [RuntimeNext]_runtimeVars /\ [LoginNext]_loginVars /\ [SearchNext]_searchVars
           /\ [Answered]_adapterVars /\ [MpvNext]_mpvVars /\ [EnrichNext]_enrichVars
           /\ [CoversNext]_coversVars /\ [UpdateNext]_updateVars /\ [RelayNext]_relayVars
           /\ [CatalogNext]_catalogVars /\ [SkipNext]_skipVars /\ [NoticesNext]_noticeVars
           /\ [PreferencesNext]_prefVars
  <1>1. CASE UNCHANGED threadVars
    BY <1>1 DEF threadVars
  <1>2. CASE ThreadsNext
    BY <1>2 DEF ThreadsNext, PartSteps, OthersRest
  <1> QED
    BY <1>1, <1>2

LEMMA PartsNextGood ==
    ASSUME PartsInv, [ThreadsNext]_threadVars
    PROVE  PartsInv'
  <1>1. RuntimeInv' /\ LoginInv' /\ SearchInv' /\ MpvInv'
    BY EachSteps, RuntimeNextGood, LoginInductive, SearchStep, MpvNextGood DEF PartsInv
  <1>2. CallInv' /\ CallTyped'
    BY EachSteps, AnsweredGood, CallStepTyped DEF PartsInv, CallStep
  <1>3. EnrichInv' /\ EnrichTyped' /\ CoversInv'
    BY EachSteps, EnrichNextGood, EnrichStepTyped, CoversNextKept DEF PartsInv, EnrichStep
  <1>4. UpdateInv' /\ RelayInv' /\ CatalogInv' /\ SkipInv'
    BY EachSteps, UpdateNextGood, RelayStep, CatalogNextGood, SkipNextGood DEF PartsInv
  <1>5. NoticesInv' /\ PrefInv' /\ TabPlaces'
    BY EachSteps, NoticesStep, PrefStep, PlacesStep DEF PartsInv
  <1> QED
    BY <1>1, <1>2, <1>3, <1>4, <1>5 DEF PartsInv

LEMMA PartsTyped == PartsInv => ThreadsTypeOK
  <1> SUFFICES ASSUME PartsInv
               PROVE  ThreadsTypeOK
    OBVIOUS
  <1>1. RuntimeTypeOK /\ LoginTypeOK /\ MpvTypeOK
    BY DEF PartsInv, RuntimeInv, LoginInv, MpvInv
  <1>2. SearchTypeOK /\ AdaptersTypeOK /\ EnrichTypeOK /\ CoversTypeOK
    BY SearchGood, CallsTyped, EnrichTypesKept, CoversTyped DEF PartsInv
  <1>3. UpdateTypeOK /\ RelayTypeOK /\ CatalogTypeOK /\ SkipTypeOK
    BY UpdateTyped, RelayGood, CatalogTyped, SkipTyped DEF PartsInv
  <1>4. NoticesTypeOK
    BY DEF PartsInv, NoticesInv, NoticesTypeOK
  <1>5. PreferencesTypeOK
    BY DEF PartsInv, PrefInv, PreferencesTypeOK, Whole
  <1> QED
    BY <1>1, <1>2, <1>3, <1>4, <1>5 DEF ThreadsTypeOK

\* The threads, processes, files and timers of every part keep their types: a spinner
\* is not left over an answer, a handle not over a file that is not being written, a
\* poster not over another show's slot; whichever part runs, for every value of the
\* constants (src/tui, src/update.rs, src/player.rs, src/proxy.rs, src/providers).
THEOREM ThreadsTypeCorrect == ThreadsSpec => []ThreadsTypeOK
  <1>1. ThreadsInit => PartsInv
    BY PartsInitGood
  <1>2. PartsInv /\ [ThreadsNext]_threadVars => PartsInv'
    BY PartsNextGood
  <1>3. PartsInv => ThreadsTypeOK
    BY PartsTyped
  <1>4. ThreadsInit /\ [][ThreadsNext]_threadVars => []ThreadsTypeOK
    BY <1>1, <1>2, <1>3, PTL
  <1> QED
    BY <1>4, PTL DEF ThreadsSpec
=============================================================================
