-------------------------- MODULE SlideshowProofs ---------------------------
(***************************************************************************)
(* Theorems about Slideshow, for any events, galleries, polls and clicks:  *)
(* the variables keep their types, and the stage is never left dark.       *)
(***************************************************************************)
EXTENDS Slideshow, FiniteSetTheorems, SequenceTheorems, TLAPS

(* Whether the stage is dark without a timeout is told by the length of     *)
(* swaps, which says so only of a sequence.                                 *)
Inv == (\E S : swaps \in Seq(S)) /\ DarkOnlyWhileSwapping

LEMMA SwapIsOnItsWay ==
  ASSUME NEW S, swaps \in Seq(S), NEW go, NEW n, Swap(go, n)
  PROVE  Inv'
<1> DEFINE e == [go |-> go, n |-> n]
           T == S \cup {e}
<1>1. swaps \in Seq(T) /\ e \in T
  OBVIOUS
<1>2. swaps' = Append(swaps, e)
  BY DEF Swap
<1> HIDE DEF e, T
<1>3. swaps' \in Seq(T) /\ swaps' # <<>>
  BY <1>1, <1>2
<1> QED
  BY <1>3 DEF Inv, DarkOnlyWhileSwapping

LEMMA LandingIsSeen ==
  ASSUME NEW S, swaps \in Seq(S), NEW i, Land(i)
  PROVE  Inv'
<1>1. i \in 1..Len(swaps) /\ fadeIn'
  BY DEF Land
<1>2. swaps' = SubSeq(swaps, 1, i - 1) \o SubSeq(swaps, i + 1, Len(swaps))
  BY DEF Land, RemoveAt
<1>3. swaps' \in Seq(S)
  <2>1. /\ SubSeq(swaps, 1, i - 1) \in Seq(S)
        /\ SubSeq(swaps, i + 1, Len(swaps)) \in Seq(S)
    BY <1>1
  <2> QED
    BY <1>2, <2>1
<1> QED
  BY <1>1, <1>3 DEF Inv, DarkOnlyWhileSwapping

LEMMA InvStep == Inv /\ [Next]_vars => Inv'
<1> SUFFICES ASSUME NEW S, swaps \in Seq(S), DarkOnlyWhileSwapping, [Next]_vars
             PROVE  Inv'
  BY DEF Inv
<1>1. ASSUME UNCHANGED swaps, fadeIn => fadeIn' PROVE Inv'
  BY <1>1 DEF Inv, DarkOnlyWhileSwapping
<1>2. ASSUME NEW e, NEW im, NEW u, Settle(e, im, u), UNCHANGED swaps PROVE Inv'
  BY <1>2 DEF Settle, Inv, DarkOnlyWhileSwapping
<1>3. CASE ServerChanges \/ TogglePlayPause \/ UNCHANGED vars
  BY <1>1, <1>3 DEF ServerChanges, TogglePlayPause, show, vars
<1>4. ASSUME NEW p \in Polls, Load(p) \/ LoadFailed(p) PROVE Inv'
  <2>1. CASE Loaded(p)
    BY <1>2, <2>1 DEF Loaded
  <2>2. CASE ~Loaded(p)
    BY <1>1, <1>4, <2>2 DEF Load, Ask, Read, LoadFailed, show
  <2> QED
    BY <2>1, <2>2
<1>5. CASE Tick
  BY <1>5, SwapIsOnItsWay DEF Tick
<1>6. CASE Landing
  BY <1>6, LandingIsSeen DEF Landing
<1>7. ASSUME NEW go, GoTo(go) PROVE Inv'
  BY <1>1, <1>7, SwapIsOnItsWay DEF GoTo, show
<1>8. ASSUME NEW i, JumpTo(i) PROVE Inv'
  BY <1>8, SwapIsOnItsWay DEF JumpTo
<1>9. ASSUME NEW i, PickAlbum(i) PROVE Inv'
  BY <1>2, <1>9 DEF PickAlbum
<1> QED
  BY <1>3, <1>4, <1>5, <1>6, <1>7, <1>8, <1>9 DEF Next

(* The stage is never left dark: whatever polls, clicks, album switches and *)
(* timers come in between, a picture that faded out has a successor on the  *)
(* way.                                                                     *)
THEOREM NeverLeftDark == Spec => []DarkOnlyWhileSwapping
<1>1. Init => Inv
  <2>1. <<>> \in Seq({})
    OBVIOUS
  <2> QED
    BY <2>1 DEF Init, Inv, DarkOnlyWhileSwapping
<1>2. Inv => DarkOnlyWhileSwapping
  BY DEF Inv
<1> QED
  BY <1>1, <1>2, InvStep, PTL DEF Spec

-----------------------------------------------------------------------------
(* The types. A timeout that counts comes back to what it counted with a    *)
(* remainder or from its last picture, so it must have counted some.        *)
Counting == [go : {"tick", "next", "prev"}, n : Nat \ {0}]
Jumping  == [go : {"jump"}, n : Nat]

TypeInv == TypeOK /\ swaps \in Seq(Counting \cup Jumping)

(* The address stands for an album of the event.                            *)
LEMMA ActiveAlbumIsListed ==
  ASSUME NEW e \in Events, NEW u
  PROVE  \E i \in DOMAIN e : ActiveAlbum(e, u) = e[i]
<1> DEFINE T == {i \in DOMAIN e : e[i].slug = u}
           R == OpToRel(<, Nat)
<1>0. e # None /\ DOMAIN e \subseteq Nat /\ 1 \in DOMAIN e
  BY EventsHaveAlbums, NothingIsNew
<1>1. CASE T = {}
  BY <1>0, <1>1 DEF ActiveAlbum
<1>2. CASE T # {}
  <2>1. T \subseteq Nat /\ IsWellFoundedOn(R, Nat)
    BY <1>0, NatLessThanWellFounded
  <2>2. \A x, y \in Nat : x < y => <<x, y>> \in R
    BY DEF OpToRel
  <2>3. \E i \in T : \A j \in T : i <= j
    <3> HIDE DEF T, R
    <3>1. PICK i \in T : \A j \in T : <<j, i>> \notin R
      BY <1>2, <2>1, WFMin
    <3>2. ASSUME NEW j \in T PROVE i <= j
      <4>1. i \in Nat /\ j \in Nat
        BY <2>1
      <4>2. ~(j < i)
        BY <2>2, <3>1, <4>1
      <4> QED
        BY <4>1, <4>2
    <3> QED
      BY <3>2
  <2> DEFINE first == CHOOSE k \in DOMAIN e :
                        /\ e[k].slug = u
                        /\ \A j \in DOMAIN e : e[j].slug = u => k <= j
  <2>4. first \in DOMAIN e
    BY <2>3
  <2>5. ActiveAlbum(e, u) = e[first]
    BY <1>0, <1>2 DEF ActiveAlbum
  <2> QED
    BY <2>4, <2>5
<1> QED
  BY <1>1, <1>2

(* An album has a number of pictures.                                       *)
LEMMA AlbumIsCounted ==
  ASSUME NEW album, NEW im \in Galleries \cup {<<>>}
  PROVE  Cardinality(ActiveImages(album, im)) \in Nat
<1>1. IsFiniteSet(DOMAIN im)
  BY GalleriesAreFinite, FS_EmptySet
<1>2. ActiveImages(album, im) \in SUBSET DOMAIN im
  BY DEF ActiveImages
<1> QED
  BY <1>1, <1>2, FS_Subset, FS_CardinalityType

LEMMA SettleType ==
  ASSUME TypeInv, NEW e \in Events, NEW im \in Galleries \cup {<<>>},
         NEW u \in Slugs \cup {None}, Settle(e, im, u)
  PROVE  /\ event' \in Events \cup {None}
         /\ images' \in Galleries \cup {<<>>}
         /\ currentIndex' \in Nat
         /\ fadeIn' \in BOOLEAN
         /\ url' \in Slugs \cup {None}
<1>1. PICK i \in DOMAIN e : ActiveAlbum(e, u) = e[i]
  BY ActiveAlbumIsListed
<1>2. e[i].slug \in Slugs
  BY DEF Slugs
<1> QED
  BY <1>1, <1>2 DEF Settle, TypeInv, TypeOK

LEMMA SwapsAreTyped ==
  Seq(Counting \cup Jumping) \subseteq Seq([go : {"tick", "next", "prev", "jump"}, n : Nat])
<1>1. Counting \cup Jumping \subseteq [go : {"tick", "next", "prev", "jump"}, n : Nat]
  BY DEF Counting, Jumping
<1> QED
  BY <1>1, SeqMonotonic

LEMMA SwapType ==
  ASSUME TypeInv, NEW go, NEW n, [go |-> go, n |-> n] \in Counting \cup Jumping,
         Swap(go, n)
  PROVE  /\ swaps' \in Seq(Counting \cup Jumping)
         /\ UNCHANGED <<currentIndex, url>> /\ fadeIn' \in BOOLEAN
<1> DEFINE S == Counting \cup Jumping
           e == [go |-> go, n |-> n]
<1>1. swaps \in Seq(S) /\ e \in S
  BY DEF TypeInv
<1>2. swaps' = Append(swaps, e)
  BY DEF Swap
<1> HIDE DEF S, e
<1>3. swaps' \in Seq(S)
  BY <1>1, <1>2
<1> QED
  BY <1>3 DEF S, Swap

LEMMA LandType ==
  ASSUME TypeInv, NEW i, Land(i)
  PROVE  TypeInv'
<1>1. i \in 1..Len(swaps)
  BY DEF Land, TypeInv
<1>2. swaps' = SubSeq(swaps, 1, i - 1) \o SubSeq(swaps, i + 1, Len(swaps))
  BY DEF Land, RemoveAt
<1>3. swaps' \in Seq(Counting \cup Jumping)
  <2> DEFINE S == Counting \cup Jumping
  <2>0. swaps \in Seq(S)
    BY DEF TypeInv
  <2> HIDE DEF S
  <2>1. /\ SubSeq(swaps, 1, i - 1) \in Seq(S)
        /\ SubSeq(swaps, i + 1, Len(swaps)) \in Seq(S)
    BY <1>1, <2>0
  <2>2. swaps' \in Seq(S)
    BY <1>2, <2>1
  <2> QED
    BY <2>2 DEF S
<1>4. swaps[i] \in Counting \cup Jumping
  BY <1>1 DEF TypeInv
<1>5. Target(swaps[i]) \in Nat
  <2>1. CASE swaps[i] \in Counting
    <3>1. swaps[i].n \in Nat \ {0} /\ swaps[i].go # "jump" /\ currentIndex \in Nat
      BY <2>1 DEF Counting, TypeInv, TypeOK
    <3> QED
      BY <3>1 DEF Target
  <2>2. CASE swaps[i] \in Jumping
    BY <2>2 DEF Jumping, Target
  <2> QED
    BY <1>4, <2>1, <2>2
<1> QED
  BY <1>3, <1>5, SwapsAreTyped DEF Land, data, TypeInv, TypeOK

LEMMA TypeStep == TypeInv /\ [Next]_vars => TypeInv'
<1> SUFFICES ASSUME TypeInv, [Next]_vars PROVE TypeInv'
  OBVIOUS
<1> USE DEF TypeInv, TypeOK, data, show
<1>0. Count \in Nat
  BY AlbumIsCounted DEF Count
<1>s. Spend => left' \in 0..MaxInputs
  BY BoundsAreNumbers DEF Spend
<1>1. ASSUME NEW p \in Polls, Load(p) \/ LoadFailed(p) PROVE TypeInv'
  <2>1. CASE Loaded(p)
    BY <2>1, SettleType DEF Loaded, Unread, Resting
  <2>2. CASE LoadFailed(p)
    BY <1>s, <2>2 DEF LoadFailed, Spend, Unread, Resting
  <2>3. CASE Ask(p)
    BY <2>3 DEF Ask, Unread
  <2>4. ASSUME NEW what \in {"event", "images"}, Read(p, what) PROVE TypeInv'
    BY <2>4 DEF Read
  <2> QED
    BY <1>1, <2>1, <2>2, <2>3, <2>4 DEF Load
<1>2. CASE ServerChanges
  BY <1>s, <1>2 DEF ServerChanges
<1>3. CASE TogglePlayPause
  BY <1>s, <1>3 DEF TogglePlayPause
<1>4. CASE Tick
  <2>1. [go |-> "tick", n |-> Count] \in Counting
    BY <1>0, <1>4 DEF Tick, Counting
  <2> QED
    BY <1>4, <2>1, SwapType, SwapsAreTyped DEF Tick
<1>5. CASE Landing
  BY <1>5, LandType DEF Landing
<1>6. ASSUME NEW go \in {"next", "prev"}, GoTo(go) PROVE TypeInv'
  <2>1. CASE Count > 1
    <3>1. [go |-> go, n |-> Count] \in Counting
      BY <1>0, <2>1 DEF Counting
    <3> QED
      BY <1>s, <1>6, <2>1, <3>1, SwapType, SwapsAreTyped DEF GoTo
  <2>2. CASE ~(Count > 1)
    BY <1>s, <1>6, <2>2 DEF GoTo
  <2> QED
    BY <2>1, <2>2
<1>7. ASSUME NEW i \in 0..Count, JumpTo(i) PROVE TypeInv'
  <2>1. [go |-> "jump", n |-> i] \in Jumping
    BY <1>0 DEF Jumping
  <2> QED
    BY <1>s, <1>7, <2>1, SwapType, SwapsAreTyped DEF JumpTo
<1>8. ASSUME NEW i, PickAlbum(i) PROVE TypeInv'
  <2>1. event \in Events /\ event[i].slug \in Slugs
    BY <1>8 DEF PickAlbum, Slugs
  <2> QED
    BY <1>s, <1>8, <2>1, SettleType DEF PickAlbum
<1>9. CASE UNCHANGED vars
  BY <1>9 DEF vars
<1> QED
  BY <1>1, <1>2, <1>3, <1>4, <1>5, <1>6, <1>7, <1>8, <1>9 DEF Next

(* The variables keep their types: no timeout brings an index that is not a *)
(* number, whatever the album had become when it was set and when it lands. *)
THEOREM Types == Spec => []TypeOK
<1>1. Init => TypeInv
  <2>1. <<>> \in Seq(Counting \cup Jumping)
    OBVIOUS
  <2>2. <<>> \in Seq([go : {"tick", "next", "prev", "jump"}, n : Nat])
    OBVIOUS
  <2>3. Init => left \in 0..MaxInputs
    BY BoundsAreNumbers DEF Init
  <2> SUFFICES ASSUME Init PROVE TypeInv
    OBVIOUS
  <2>4. poll \in [Polls -> [at : {"resting", "asked"},
                           has : [event : Events \cup {None},
                                  images : Galleries \cup {None}]]]
    BY DEF Init, Resting, Unread
  <2> QED
    BY <2>1, <2>2, <2>3, <2>4 DEF Init, TypeInv, TypeOK
<1>2. TypeInv => TypeOK
  BY DEF TypeInv
<1> QED
  BY <1>1, <1>2, TypeStep, PTL DEF Spec

=============================================================================
