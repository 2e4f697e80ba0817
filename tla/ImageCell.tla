------------------------------ MODULE ImageCell ------------------------------
(***************************************************************************)
(* The cells that show a downloaded picture, and ImageCallURL.             *)
(*                                                                         *)
(* A cell is set up again each time UIKit reuses it; the download started  *)
(* by an earlier set-up goes on and its answer comes to the main queue     *)
(* when it likes.  The three classes of cell differ in what they compare   *)
(* before they show the picture:                                           *)
(*                                                                         *)
(*   "home"      PodcastHomePageCollectionViewCell: the cell's address of  *)
(*               the moment with the address of the answer;                *)
(*   "episode"   CellEpisodeTabViewCell: the address it asked for with the *)
(*               address of the answer, which is the same one;             *)
(*   "carousel"  CellPodcastCollectionViewCell: nothing.                   *)
(***************************************************************************)
EXTENDS Naturals

CONSTANTS
    Cells,          \* the reusable cells
    Kind,           \* Kind[c]: the class of c
    Urls,           \* the addresses of the pictures
    Downloads,      \* bound: the downloads under way at one time
    NoUrl,          \* a cell that was never set up, an unused download
    Placeholder,    \* Assets.placeholderImage
    DownloadFails   \* the cells whose downloads may fail

ASSUME CellAssumption ==
    /\ Kind \in [Cells -> {"home", "episode", "carousel"}]
    /\ NoUrl \notin Urls
    /\ Placeholder \notin Urls
    /\ DownloadFails \subseteq Cells

VARIABLES
    imageName,      \* imageName[c]: the address c was last set up with
    image,          \* image[c]: the address of the picture c shows
    download        \* download[d]: the cell and the address

cellVars == <<imageName, image, download>>

NoDownload == [cell |-> NoUrl, url |-> NoUrl]

CellTypeOK ==
    /\ imageName \in [Cells -> Urls \cup {NoUrl}]
    /\ image \in [Cells -> Urls \cup {Placeholder}]
    /\ download \in [Downloads -> {NoDownload} \cup [cell : Cells, url : Urls]]

CellInit ==
    /\ imageName = [c \in Cells |-> NoUrl]
    /\ image = [c \in Cells |-> Placeholder]
    /\ download = [d \in Downloads |-> NoDownload]

UnderWay(c) == {d \in Downloads : download[d].cell = c}

------------------------------------------------------------------------------
\* Mutant of Setup: the old picture stays until the new one is there.
SetupKeepsImage(c, u) ==
    /\ imageName' = [imageName EXCEPT ![c] = u]
    /\ \E d \in Downloads :
          /\ download[d] = NoDownload
          /\ download' = [download EXCEPT ![d] = [cell |-> c, url |-> u]]
    /\ UNCHANGED image

\* setup, setupCell, setUpUI: the placeholder, and a download of the picture.
Setup(c, u) ==
    /\ imageName' = [imageName EXCEPT ![c] = u]
    /\ image' = [image EXCEPT ![c] = Placeholder]
    /\ \E d \in Downloads :
          /\ download[d] = NoDownload
          /\ download' = [download EXCEPT ![d] = [cell |-> c, url |-> u]]

\* Mutant of Accepts: only a cell that shows nothing yet takes a picture.
AcceptsFirst(c, u) == image[c] = Placeholder

\* The comparison on the main queue.
Accepts(c, u) == Kind[c] = "home" => imageName[c] = u

\* ImageCallURL.downloadImage with a picture, and the cell's completion.
DownloadDone(d) ==
    LET c == download[d].cell
        u == download[d].url
    IN  /\ download[d] # NoDownload
        /\ download' = [download EXCEPT ![d] = NoDownload]
        /\ image' = IF Accepts(c, u) THEN [image EXCEPT ![c] = u] ELSE image
        /\ UNCHANGED imageName

\* No address, an error, a status outside 200...299 or no picture in the answer:
\* the completion gets nil.
DownloadFailed(d) ==
    /\ download[d] # NoDownload
    /\ download[d].cell \in DownloadFails
    /\ download' = [download EXCEPT ![d] = NoDownload]
    /\ UNCHANGED <<imageName, image>>

Downloading == \E d \in Downloads : DownloadDone(d) \/ DownloadFailed(d)

------------------------------------------------------------------------------
\* Properties

\* A cell of the home screen shows the placeholder or the picture it was last set
\* up for, however often it was reused and in whatever order the pictures came.
HomeCellOwnImage ==
    \A c \in Cells : Kind[c] = "home" => image[c] \in {imageName[c], Placeholder}

\* A cell none of whose downloads is under way or can have failed shows a picture,
\* and a cell of the home screen its own: the comparison drops foreign pictures
\* and never the cell's, even when the same address was asked for twice.
CellComplete ==
    \A c \in Cells :
        c \notin DownloadFails /\ imageName[c] # NoUrl /\ UnderWay(c) = {}
            => /\ image[c] # Placeholder
               /\ Kind[c] = "home" => image[c] = imageName[c]
==============================================================================
