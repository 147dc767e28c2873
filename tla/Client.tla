-------------------------------- MODULE Client --------------------------------
(***************************************************************************)
(* The parts of the pages' scripts: a behaviour works on one of them and   *)
(* leaves the others as they begin.  They share no state; what one expects *)
(* of another is said in its module.                                       *)
(***************************************************************************)
EXTENDS Ajax, Uploads, LazyLoad, Gallery, NicEditor, StringTools

VARIABLE part

clientVars == <<part, ajaxVars, uploadVars, lazyVars, galleryVars, nicVars, stringVars>>

\* A part that is left alone begins in one state.
AjaxAlone    == plan = "each" /\ hasXhr
UploadsAlone == ~inside
LazyAlone    == ~prefixed
GalleryAlone == images = 0

ClientInit ==
    /\ part \in {"ajax", "uploads", "lazy", "gallery", "nic", "string"}
    /\ IF part = "string" THEN s \in Text ELSE s = <<>>
    /\ IF part = "ajax" THEN plan \in Plans ELSE plan = "each"
    /\ AjaxInit /\ UploadsInit /\ LazyInit /\ GalleryInit /\ NicInit /\ StringInit
    /\ part # "ajax" => AjaxAlone
    /\ part # "uploads" => UploadsAlone
    /\ part # "lazy" => LazyAlone
    /\ part # "gallery" => GalleryAlone

Alone(p) == part = p /\ UNCHANGED part

ClientNext ==
    \/ /\ Alone("ajax") /\ AjaxNext
       /\ UNCHANGED <<uploadVars, lazyVars, galleryVars, nicVars, stringVars>>
    \/ /\ Alone("uploads") /\ UploadsNext
       /\ UNCHANGED <<ajaxVars, lazyVars, galleryVars, nicVars, stringVars>>
    \/ /\ Alone("lazy") /\ LazyNext
       /\ UNCHANGED <<ajaxVars, uploadVars, galleryVars, nicVars, stringVars>>
    \/ /\ Alone("gallery") /\ GalleryNext
       /\ UNCHANGED <<ajaxVars, uploadVars, lazyVars, nicVars, stringVars>>
    \/ /\ Alone("nic") /\ NicNext
       /\ UNCHANGED <<ajaxVars, uploadVars, lazyVars, galleryVars, stringVars>>
    \/ /\ Alone("string") /\ StringNext
       /\ UNCHANGED <<ajaxVars, uploadVars, lazyVars, galleryVars, nicVars>>

\* The parts that are left alone enable none of their fair actions.
ClientSpec == ClientInit /\ [][ClientNext]_clientVars /\ AjaxFair /\ UploadsFair

\* Every part keeps its types (assets/main.js, assets/editor.js).
ClientTypeOK == /\ AjaxTypeOK /\ UploadsTypeOK /\ LazyTypeOK /\ GalleryTypeOK /\ NicTypeOK
                /\ part = "string" => StringTypeOK
=============================================================================
