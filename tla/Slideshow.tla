----------------------------- MODULE Slideshow -----------------------------
(***************************************************************************)
(* One visit to the slideshow page of an event. The page polls the event   *)
(* and its pictures, shows those of one of the albums of the event, and    *)
(* advances by a timer or by hand: a picture fades out at once, and the    *)
(* next comes in when a timeout lands, by what the page knew when the      *)
(* timeout was set.                                                        *)
(*                                                                         *)
(* Answers of polls that overlap come in any order. What follows from a    *)
(* change of state in the same turn (React's render and effects) is part   *)
(* of the step that makes it.                                              *)
(***************************************************************************)
EXTENDS Integers, FiniteSets, SequencesExt

CONSTANTS
  Events,       \* the album lists the event may have
  Galleries,    \* the picture lists it may have
  Polls,        \* polls that may be in flight at a time
  MaxInputs,    \* bound: clicks, changes at the server, failures of a visit
  MaxSwaps,     \* bound: pictures on their way in at a time
  None          \* nothing loaded yet, nothing read yet, no album asked for

Sources == {"all", "guest", "couple"}
Modes == {"cinema", "mosaic", "spotlight"}

(* DefaultAlbums of the server: an event without albums is given some.      *)
ASSUME EventsHaveAlbums ==
  \A e \in Events : Len(e) \in Nat \ {0} /\ DOMAIN e = 1..Len(e)
ASSUME AlbumsAreKnown ==
  \A e \in Events : \A i \in DOMAIN e :
    e[i].source \in Sources /\ e[i].mode \in Modes
ASSUME GalleriesAreFinite == \A g \in Galleries : IsFiniteSet(DOMAIN g)
ASSUME BoundsAreNumbers == MaxInputs \in Nat /\ MaxSwaps \in Nat
ASSUME NothingIsNew == None \notin Events \cup Galleries

VARIABLES
  server,       \* the event and the pictures in the database
  poll,         \* what each call of loadData has read
  event, images, error,
  currentIndex, fadeIn, isPlaying,
  url,          \* the album that the address asks for
  swaps,        \* timeouts that have not landed
  left          \* inputs that may still come

data == <<event, images, error>>
show == <<currentIndex, fadeIn, url>>
vars == <<server, poll, data, show, isPlaying, swaps, left>>

Slugs == UNION {{e[i].slug : i \in DOMAIN e} : e \in Events}

Unread == [event |-> None, images |-> None]
Resting == [at |-> "resting", has |-> Unread]

Init ==
  /\ server \in [event : Events, images : Galleries]
  /\ poll = [p \in Polls |-> Resting]
  /\ event = None /\ images = <<>> /\ error = FALSE
  /\ currentIndex = 0 /\ fadeIn = TRUE /\ isPlaying = TRUE
  /\ url \in Slugs \cup {None}
  /\ swaps = <<>>
  /\ left = MaxInputs

-----------------------------------------------------------------------------
(* The album of an event that an address stands for: the first without one. *)
ActiveAlbum(e, u) ==
  IF e = None THEN None
  ELSE IF \E i \in DOMAIN e : e[i].slug = u
    THEN e[CHOOSE i \in DOMAIN e :
             /\ e[i].slug = u
             /\ \A j \in DOMAIN e : e[j].slug = u => i <= j]
    ELSE e[1]

(* filterImagesForAlbum: where in the list the pictures of an album are.    *)
ActiveImages(album, pictures) ==
  {i \in DOMAIN pictures :
     \/ album = None \/ album.source = "all"
     \/ pictures[i].type = IF album.source = "guest" THEN "Guest" ELSE "Couple"}

Album == ActiveAlbum(event, url)
Count == Cardinality(ActiveImages(Album, images))

(* The picture on the stage: that of the index, which wraps round; none     *)
(* while the page loads or shows an error instead.                          *)
currentImage == IF Count = 0 THEN None ELSE currentIndex % Count

OnStage(i) == ~error /\ event # None /\ currentImage = i /\ fadeIn

(* The renders and effects of a turn that leaves event e, pictures im and   *)
(* the address u: the address names the album shown, another album starts   *)
(* at its first picture, and another number of pictures keeps the index     *)
(* within it.                                                               *)
Settle(e, im, u) ==
  LET album == ActiveAlbum(e, u)
      count == Cardinality(ActiveImages(album, im))
      switched == album # None /\ (Album = None \/ Album.slug # album.slug) IN
  /\ event' = e /\ images' = im
  /\ url' = IF album = None THEN u ELSE album.slug
  /\ currentIndex' = IF switched \/ (count # Count /\ currentIndex >= count)
                       THEN 0 ELSE currentIndex
  /\ fadeIn' = (fadeIn \/ switched)

Spend == left > 0 /\ left' = left - 1

-----------------------------------------------------------------------------
(* The event is edited, pictures come and go.                               *)
ServerChanges ==
  /\ Spend
  /\ server' \in [event : Events, images : Galleries]
  /\ \/ server'.event = server.event
     \/ server'.images = server.images
  /\ UNCHANGED <<poll, data, show, isPlaying, swaps>>

(* loadData asks for the event and the pictures at once, at the start and   *)
(* every fifteen seconds, whether the last call has ended or not.           *)
Ask(p) ==
  /\ poll[p] = Resting
  /\ poll' = [poll EXCEPT ![p] = [at |-> "asked", has |-> Unread]]
  /\ UNCHANGED <<server, data, show, isPlaying, swaps, left>>

Read(p, what) ==
  /\ poll[p].at = "asked" /\ poll[p].has[what] = None
  /\ poll' = [poll EXCEPT ![p].has[what] = server[what]]
  /\ UNCHANGED <<server, data, show, isPlaying, swaps, left>>

(* Mutant: an answer does not take the error away.                          *)
LoadedWithError(p) ==
  /\ poll[p].has.event # None /\ poll[p].has.images # None
  /\ Settle(poll[p].has.event, poll[p].has.images, url)
  /\ poll' = [poll EXCEPT ![p] = Resting]
  /\ UNCHANGED <<server, error, isPlaying, swaps, left>>

(* Both answers are in.                                                     *)
Loaded(p) ==
  /\ poll[p].has.event # None /\ poll[p].has.images # None
  /\ Settle(poll[p].has.event, poll[p].has.images, url)
  /\ error' = FALSE
  /\ poll' = [poll EXCEPT ![p] = Resting]
  /\ UNCHANGED <<server, isPlaying, swaps, left>>

(* One of them is an error: the page shows that until another call gets     *)
(* through, and goes on with what it had.                                   *)
LoadFailed(p) ==
  /\ Spend
  /\ poll[p].at = "asked"
  /\ error' = TRUE
  /\ poll' = [poll EXCEPT ![p] = Resting]
  /\ UNCHANGED <<server, event, images, show, isPlaying, swaps>>

-----------------------------------------------------------------------------
(* A picture fades out, and a timeout remembers how to go on.               *)
Swap(go, n) ==
  /\ Len(swaps) < MaxSwaps
  /\ fadeIn' = FALSE
  /\ swaps' = Append(swaps, [go |-> go, n |-> n])
  /\ UNCHANGED <<currentIndex, url>>

(* Mutant: the timer takes the number of pictures for their last index.     *)
TickShort ==
  /\ isPlaying /\ Album # None /\ Count > 1
  /\ \A i \in DOMAIN swaps : swaps[i].go # "tick"
  /\ Swap("tick", Count - 1)
  /\ UNCHANGED <<server, poll, data, isPlaying, left>>

(* The timer of the album: slower than the timeout of its last picture.     *)
Tick ==
  /\ isPlaying /\ Album # None /\ Count > 1
  /\ \A i \in DOMAIN swaps : swaps[i].go # "tick"
  /\ Swap("tick", Count)
  /\ UNCHANGED <<server, poll, data, isPlaying, left>>

(* goToNext and goToPrevious: the arrow keys and buttons pause the show, a  *)
(* swipe does not.                                                          *)
GoTo(go) ==
  /\ Spend
  /\ IF Count > 1 THEN Swap(go, Count) ELSE UNCHANGED <<show, swaps>>
  /\ isPlaying' \in {isPlaying, FALSE}
  /\ UNCHANGED <<server, poll, data>>

(* jumpToImage: a click on the filmstrip of a spotlight album.              *)
JumpTo(i) ==
  /\ Spend /\ ~error
  /\ Album # None /\ Album.mode = "spotlight"
  /\ i < Count
  /\ Swap("jump", i)
  /\ isPlaying' = FALSE
  /\ UNCHANGED <<server, poll, data>>

(* Mutant: before the first picture there is none.                          *)
TargetNoWrap(swap) ==
  CASE swap.go = "jump" -> swap.n
    [] swap.go = "prev" -> currentIndex - 1
    [] OTHER -> (currentIndex + 1) % swap.n

(* The picture a timeout brings, from the index of that moment and the      *)
(* number of pictures when it was set.                                      *)
Target(swap) ==
  CASE swap.go = "jump" -> swap.n
    [] swap.go = "prev" -> IF currentIndex = 0 THEN swap.n - 1 ELSE currentIndex - 1
    [] OTHER -> (currentIndex + 1) % swap.n

(* Mutant: the picture a jump brings stays invisible.                       *)
LandDark(i) ==
  /\ i \in DOMAIN swaps
  /\ currentIndex' = Target(swaps[i])
  /\ fadeIn' = (fadeIn \/ swaps[i].go # "jump")
  /\ swaps' = RemoveAt(swaps, i)
  /\ UNCHANGED <<server, poll, data, url, isPlaying, left>>

(* A timeout lands.                                                         *)
Land(i) ==
  /\ i \in DOMAIN swaps
  /\ currentIndex' = Target(swaps[i])
  /\ fadeIn' = TRUE
  /\ swaps' = RemoveAt(swaps, i)
  /\ UNCHANGED <<server, poll, data, url, isPlaying, left>>

TogglePlayPause ==
  /\ Spend
  /\ isPlaying' = ~isPlaying
  /\ UNCHANGED <<server, poll, data, show, swaps>>

(* A click on the name of another album.                                    *)
PickAlbum(i) ==
  /\ Spend /\ ~error
  /\ event # None /\ i \in DOMAIN event
  /\ Settle(event, images, event[i].slug)
  /\ isPlaying' = TRUE
  /\ UNCHANGED <<server, poll, error, swaps>>

Indices == 1..MaxSwaps

Load(p) == Ask(p) \/ Loaded(p) \/ \E what \in {"event", "images"} : Read(p, what)

Landing == \E i \in Indices : Land(i)

Next ==
  \/ ServerChanges
  \/ \E p \in Polls : Load(p) \/ LoadFailed(p)
  \/ Tick \/ Landing \/ TogglePlayPause
  \/ \E go \in {"next", "prev"} : GoTo(go)
  \/ \E i \in 0..Count : JumpTo(i) \/ PickAlbum(i)

Spec == Init /\ [][Next]_vars

(* Calls are answered, and timers and timeouts fire. An interval of at most *)
(* 5.6 seconds fires between two answers of polls fifteen seconds apart,    *)
(* each of which starts it anew.                                            *)
Fairness ==
  /\ \A p \in Polls : WF_vars(Load(p))
  /\ WF_vars(Tick) /\ WF_vars(Landing)

FairSpec == Spec /\ Fairness

-----------------------------------------------------------------------------
(* The variables stay in the sets of values the code can give them. An      *)
(* index is never negative, but it may be beyond the pictures of the album. *)
TypeOK ==
  /\ server \in [event : Events, images : Galleries]
  /\ poll \in [Polls -> [at : {"resting", "asked"},
                         has : [event : Events \cup {None},
                                images : Galleries \cup {None}]]]
  /\ event \in Events \cup {None}
  /\ images \in Galleries \cup {<<>>}
  /\ error \in BOOLEAN
  /\ currentIndex \in Nat
  /\ fadeIn \in BOOLEAN
  /\ isPlaying \in BOOLEAN
  /\ url \in Slugs \cup {None}
  /\ swaps \in Seq([go : {"tick", "next", "prev", "jump"}, n : Nat])
  /\ left \in 0..MaxInputs

(* The stage is never left dark: whatever answers, clicks and timers come   *)
(* in between, a picture that faded out has its successor on the way.       *)
DarkOnlyWhileSwapping == fadeIn \/ swaps # <<>>

(* A playing show brings every picture of its album on the stage again and  *)
(* again, also after the album shrank or was changed under a timeout that   *)
(* counted the pictures of another one.                                     *)
EveryPictureShown ==
  \A i \in 0..2 :
    []<>(isPlaying /\ Album # None /\ i < Count => OnStage(i))

(* The page shows the event and the pictures as they are, and no error, a   *)
(* while after the last change, although an older answer may overtake a     *)
(* newer one.                                                               *)
ShowCatchesUp ==
  <>[](~error /\ event = server.event /\ images = server.images)

=============================================================================
