------------------------------ MODULE Uploads ------------------------------
(***************************************************************************)
(* Images put into an article (assets/main.js 247-329, 639-714, 873-901):  *)
(* uploadImage takes the files of one drop, paste or choice one after the  *)
(* other, each from decoding through the request to the place of the       *)
(* caret; the sign that something is uploaded is one for the whole page.   *)
(* The request is that of module Ajax: it is answered, or it hangs after   *)
(* its first byte.                                                         *)
(***************************************************************************)
EXTENDS Integers, Sequences

CONSTANTS Batch,        \* the calls of uploadImage by the page
          MaxFiles,     \* files of one batch
          MaxMoves      \* how often the author leaves or enters the editor

ASSUME UploadsAssumption == MaxFiles \in Nat \ {0} /\ MaxMoves \in Nat

\* An image by its type, one by its name only (Twitter's), something else; or no file but
\* the path of one, from a browser that gives no files.
Sort == {"image", "named", "other", "path"}

\* The files of a batch; they are told apart by their places.  A path comes alone.
Batches == {<<"path">>} \cup UNION {[1 .. n -> Sort \ {"path"}] : n \in 0 .. MaxFiles}

VARIABLES
    files,      \* what a batch was begun with
    next,       \* the place of its next file
    at,         \* where a batch is
    inside,     \* whether the selection is in the editor (_insideEditor)
    inserted,   \* the images in the article, in the order they came in
    ended,      \* how often the callback of a batch has run
    handle,     \* whether the sign turns (Animation's handle)
    moves       \* how often the author has moved

uploadVars == <<files, next, at, inside, inserted, ended, handle, moves>>

\* A broken one is where an exception has left it.
At == {"unbegun", "decoding", "undecodable", "posting", "hanging", "broken", "over"}

\* The batches that have begun and have not called back, nor may they ever.
Working == {b \in Batch : at[b] \notin {"unbegun", "over"}}

UploadsInit ==
    /\ files = [b \in Batch |-> <<>>]
    /\ next = [b \in Batch |-> 1]
    /\ at = [b \in Batch |-> "unbegun"]
    /\ inside \in BOOLEAN
    /\ inserted = <<>>
    /\ ended = [b \in Batch |-> 0]
    /\ handle = FALSE
    /\ moves = 0

\* Mutant: the sign is not stopped.
CallbackLeavingSign(b) ==
    /\ ended' = [ended EXCEPT ![b] = @ + 1]
    /\ handle' = handle
    /\ at' = [at EXCEPT ![b] = "over"]

\* The callback the page passes: Animation.stop().
Callback(b) ==
    /\ ended' = [ended EXCEPT ![b] = @ + 1]
    /\ handle' = FALSE
    /\ at' = [at EXCEPT ![b] = "over"]

\* Mutant: the type of a file is not looked at.
UploadAnything(b, fs, n, isInside) ==
    LET usable == n <= Len(fs) /\ isInside IN
    /\ files' = [files EXCEPT ![b] = fs]
    /\ next' = [next EXCEPT ![b] = IF n <= Len(fs) THEN n + 1 ELSE n]
    /\ IF usable THEN at' = [at EXCEPT ![b] = "decoding"] /\ UNCHANGED ended
                 ELSE Callback(b)

\* uploadImage with what fs has left from place n on, while the selection is where it
\* is: nothing left, not in the editor, no image, or an image to decode; the type of a
\* path cannot be looked at without an exception.
Upload(b, fs, n, isInside) ==
    LET usable == n <= Len(fs) /\ isInside /\ fs[n] # "other" IN
    /\ files' = [files EXCEPT ![b] = fs]
    /\ next' = [next EXCEPT ![b] = IF n <= Len(fs) THEN n + 1 ELSE n]
    /\ IF usable THEN /\ at' = [at EXCEPT ![b] = IF fs[n] = "path" THEN "broken" ELSE "decoding"]
                      /\ UNCHANGED ended
                 ELSE Callback(b)

\* A drop, a paste or a choice: the sign starts, if it is not turning already.
Begin(b) ==
    /\ at[b] = "unbegun"
    /\ \E fs \in Batches : Upload(b, fs, 1, inside)
    /\ at'[b] # "over" => handle' = TRUE
    /\ UNCHANGED <<inside, inserted, moves>>

\* img.onload: the file is sent.
Decoded(b) ==
    /\ at[b] = "decoding"
    /\ at' = [at EXCEPT ![b] = "posting"]
    /\ UNCHANGED <<files, next, inside, inserted, ended, handle, moves>>

\* The browser cannot read the file: nothing listens for that.
Undecodable(b) ==
    /\ at[b] = "decoding"
    /\ at' = [at EXCEPT ![b] = "undecodable"]
    /\ UNCHANGED <<files, next, inside, inserted, ended, handle, moves>>

\* The server stops in the middle of its answer (module Ajax).
Hang(b) ==
    /\ at[b] = "posting"
    /\ at' = [at EXCEPT ![b] = "hanging"]
    /\ UNCHANGED <<files, next, inside, inserted, ended, handle, moves>>

\* The image is stored: the editor is focused, the image goes where the caret is, and
\* the rest of the batch follows.
Stored(b) ==
    /\ at[b] = "posting"
    /\ inside' = TRUE
    /\ inserted' = Append(inserted, <<b, next[b] - 1>>)
    /\ Upload(b, files[b], next[b], TRUE)
    /\ at'[b] # "over" => UNCHANGED handle
    /\ UNCHANGED moves

\* An answer that is no error and has no link: an exception, which nobody is told of.
Linkless(b) ==
    /\ at[b] = "posting"
    /\ at' = [at EXCEPT ![b] = "broken"]
    /\ UNCHANGED <<files, next, inside, inserted, ended, handle, moves>>

\* Mutant: the file is tried again for ever.
RefusedAndRetried(b) ==
    /\ at[b] = "posting"
    /\ at' = [at EXCEPT ![b] = "decoding"]
    /\ UNCHANGED <<files, next, inside, inserted, ended, handle, moves>>

\* No answer, no JSON or an error of the server: the author is told, the batch ends.
Refused(b) ==
    /\ at[b] = "posting"
    /\ Callback(b)
    /\ UNCHANGED <<files, next, inside, inserted, moves>>

\* The author clicks into the editor or out of it.
Move ==
    /\ moves < MaxMoves
    /\ moves' = moves + 1
    /\ inside' = ~inside
    /\ UNCHANGED <<files, next, at, inserted, ended, handle>>

UploadsNext ==
    \/ Move
    \/ \E b \in Batch : \/ Begin(b) \/ Decoded(b) \/ Undecodable(b)
                        \/ Stored(b) \/ Refused(b) \/ Linkless(b) \/ Hang(b)

\* The browser reads a file or gives up; a request is answered or hangs (Ajax).
UploadsFair ==
    \A b \in Batch : /\ WF_uploadVars(Decoded(b) \/ Undecodable(b))
                     /\ WF_uploadVars(Stored(b) \/ Refused(b) \/ Linkless(b) \/ Hang(b))

UploadsSpec == UploadsInit /\ [][UploadsNext]_uploadVars /\ UploadsFair

-----------------------------------------------------------------------------
UploadsTypeOK ==
    /\ files \in [Batch -> Batches]
    /\ next \in [Batch -> 1 .. MaxFiles + 1]
    /\ at \in [Batch -> At]
    /\ inside \in BOOLEAN /\ handle \in BOOLEAN
    /\ inserted \in Seq(Batch \X (1 .. MaxFiles))
    /\ ended \in [Batch -> 0 .. 1]
    /\ moves \in 0 .. MaxMoves

\* The places of the files of a batch that are in the article.
InArticle(b) == {inserted[p][2] : p \in {q \in DOMAIN inserted : inserted[q][1] = b}}

\* Of each batch the article holds the first images, in the order of the files and each
\* of them once, however the batches mix; all before the one at work, and none that is
\* no image (main.js 642-666, 694-702).
InsertedInOrder ==
    /\ \A p, q \in DOMAIN inserted :
           p < q /\ inserted[p][1] = inserted[q][1] => inserted[p][2] < inserted[q][2]
    /\ \A b \in Batch :
           /\ \A i \in InArticle(b) : i \in DOMAIN files[b] /\ files[b][i] # "other"
           /\ b \in Working => InArticle(b) = 1 .. next[b] - 2
           /\ at[b] = "over" => \E n \in 0 .. Len(files[b]) : InArticle(b) = 1 .. n

\* The sign turns only while some batch has not called back, and each batch calls back
\* once; before one has, the sign stands still only because another one has ended and
\* stopped it for all (main.js 873-901).
SignMeansWork ==
    /\ handle => Working # {}
    /\ \A b \in Batch : ended[b] = IF at[b] = "over" THEN 1 ELSE 0
    /\ Working # {} /\ ~handle => \E b \in Batch : at[b] = "over"

\* A batch does not go on for ever: it ends, or it stops at a file that cannot be read, a
\* server that hangs or an answer without a link, and then never calls back (main.js
\* 639-714).
UploadsEnd ==
    \A b \in Batch : at[b] \in {"decoding", "posting"}
                         ~> at[b] \in {"over", "undecodable", "hanging", "broken"}
=============================================================================
