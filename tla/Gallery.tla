------------------------------ MODULE Gallery ------------------------------
(***************************************************************************)
(* The gallery of an article's images (assets/main.js 763-869).  Each      *)
(* Goto asks the browser for one image; the images arrive in any order,    *)
(* and whichever arrives puts itself on the page.                          *)
(***************************************************************************)
EXTENDS Integers, Sequences

CONSTANTS MaxImages,    \* the most images of an article
          MaxLoads      \* how many images are asked for

ASSUME GalleryAssumption == MaxImages \in Nat /\ MaxLoads \in Nat

Page   == 0 .. MaxImages - 1
NoPage == -1

VARIABLES
    images,     \* Len of the article's imgList
    gallery,    \* whether the gallery is displayed, and not the article
    index,      \* Gallery._Gallery.index
    loads,      \* the images asked for: which page, and what came of it
    shown,      \* the page whose image is displayed
    black,      \* the pages whose numbers are black
    loadingSign,\* whether gallery-loading is displayed
    late        \* whether an image has arrived after one asked for later

galleryVars == <<images, gallery, index, loads, shown, black, loadingSign, late>>

GalleryInit ==
    /\ images \in 0 .. MaxImages
    /\ gallery = FALSE
    /\ index = 0
    /\ loads = <<>>
    /\ shown = NoPage
    /\ black = {}
    /\ loadingSign = FALSE
    /\ late = FALSE

\* Mutant: the page is not cut off at the last one.
CutBelowOnly(p) == IF p < 0 THEN 0 ELSE p

Cut(p) == IF p < 0 THEN 0 ELSE IF p >= images THEN images - 1 ELSE p

\* _Gallery_Goto(p): cut off, all numbers grey, the image asked for, the sign shown.
Goto(p) ==
    /\ index' = Cut(p)
    /\ black' = {}
    /\ loads' = Append(loads, [page |-> Cut(p), state |-> "loading"])
    /\ loadingSign' = TRUE
    /\ late' = FALSE
    /\ UNCHANGED <<images, shown>>

CanAsk == Len(loads) < MaxLoads

\* _Gallery: back to the first image, whatever was displayed before.
OpenGallery ==
    /\ CanAsk /\ images > 0
    /\ gallery' = TRUE
    /\ Goto(0)

\* _Gallery of an article without images returns, its index set.
OpenNothing ==
    /\ images = 0
    /\ index' = 0
    /\ UNCHANGED <<images, gallery, loads, shown, black, loadingSign, late>>

\* _Normal.
CloseGallery ==
    /\ gallery
    /\ gallery' = FALSE
    /\ UNCHANGED <<images, index, loads, shown, black, loadingSign, late>>

Browse(p) == CanAsk /\ gallery /\ Goto(p) /\ UNCHANGED gallery

Next_ == Browse(index + 1)
Prev_ == Browse(index - 1)
\* _Gallery_Goto(true) loads the page again, a number goes to that page.
Reload == Browse(index)
Pick   == \E p \in 0 .. images - 1 : Browse(p)

Arrived(l) == [loads EXCEPT ![l].state = "loaded"]

\* img.onload.
ImageLoads(l) ==
    /\ loads[l].state = "loading"
    /\ loads' = Arrived(l)
    /\ shown' = loads[l].page
    /\ black' = black \cup {loads[l].page}
    /\ loadingSign' = FALSE
    /\ late' = (late \/ \E m \in l + 1 .. Len(loads) : loads[m].state = "loaded")
    /\ UNCHANGED <<images, gallery, index>>

\* An image that cannot be loaded: nothing listens for that.
ImageFails(l) ==
    /\ loads[l].state = "loading"
    /\ loads' = [loads EXCEPT ![l].state = "failed"]
    /\ UNCHANGED <<images, gallery, index, shown, black, loadingSign, late>>

GalleryNext == \/ OpenGallery \/ OpenNothing \/ CloseGallery
               \/ Next_ \/ Prev_ \/ Reload \/ Pick
               \/ \E l \in DOMAIN loads : ImageLoads(l) \/ ImageFails(l)

GallerySpec == GalleryInit /\ [][GalleryNext]_galleryVars

-----------------------------------------------------------------------------
GalleryTypeOK ==
    /\ images \in 0 .. MaxImages
    /\ gallery \in BOOLEAN /\ loadingSign \in BOOLEAN /\ late \in BOOLEAN
    /\ index \in Page \cup {0}
    /\ loads \in Seq([page : Page, state : {"loading", "loaded", "failed"}])
    /\ shown \in Page \cup {NoPage}
    /\ black \subseteq Page

\* The pages asked for are pages of the article, the one asked for last is the index.
AsksForIndex ==
    /\ \A l \in DOMAIN loads : loads[l].page \in 0 .. images - 1
    /\ gallery => loads # <<>>
    /\ loads # <<>> => index = loads[Len(loads)].page

Quiet == \A l \in DOMAIN loads : loads[l].state # "loading"
LastLoad == loads[Len(loads)]

\* When all images asked for have come, the gallery shows the one its index says, unless
\* an image asked for earlier came after it; both have black numbers; and the sign stays
\* only for an image that could not be loaded (main.js 823-868).
GalleryShowsIndex ==
    /\ AsksForIndex
    /\ loads # <<>> /\ LastLoad.state = "loaded" =>
           /\ index \in black /\ shown \in black
           /\ ~late => shown = index
    /\ loadingSign /\ Quiet => LastLoad.state = "failed"
=============================================================================
