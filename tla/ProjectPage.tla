------------------------------- MODULE ProjectPage -------------------------------
(***************************************************************************)
(* The public page of one project, the files uploaded for it, and the      *)
(* stage of the project: what ProjectsService and AdminProjectsService     *)
(* write to the row of projects once the approval has made it.             *)
(*                                                                         *)
(* No request has a transaction: an upload stores the object, inserts the  *)
(* file's row and updates the project; the assets are read, and both URLs  *)
(* written; a defence is inserted and then the stage updated.  Any of them *)
(* may stop half way.  "faults" of this module: "hand" lets clients give   *)
(* URLs of their own, "overlap" lets requests with URLs overlap others.    *)
(*                                                                         *)
(* Left out: who asks (the project's PI, who stays that), the contents of  *)
(* files, descriptions, mails, audit; file ids that a client sends with    *)
(* URLs, which the service ignores.                                        *)
(*                                                                         *)
(* A definition marked "Fault" is no part of the model: it is the          *)
(* definition after it with a mistake, which the properties must notice.   *)
(***************************************************************************)
EXTENDS Naturals, FiniteSets

CONSTANTS
    Clients,        \* each with a request at the most
    Uploads,        \* uploaded files: an object, its URL, and the row of files
    ForeignUrls,    \* URLs that are of no upload
    MaxDefences,    \* bound: defences scheduled
    PageFaults      \* the sets of mishaps to look at

ASSUME PageAssumption == {"none", "same"} \cap (Uploads \cup ForeignUrls) = {}

VARIABLES
    page,       \* is_public, published_at is set; file id and URL of banner and public file
    stage,      \* project_stage
    defences,   \* rows of project_defences
    stored,     \* objects in the public bucket
    records,    \* rows of files, which are ATTACHED to the project from the start
    visit,      \* the requests in progress
    faults      \* the mishaps

pageVars == <<page, stage, defences, stored, records, visit, faults>>

Assets == {"banner", "file"}
Urls == Uploads \cup ForeignUrls
NoAsset == [id |-> "none", url |-> "none"]
NoVisit == [at |-> "idle", asset |-> "none", upload |-> "none", banner |-> "same", file |-> "same"]

Used == stored \cup records \cup {visit[c].upload : c \in Clients}
Proceed(c, at) == visit' = [visit EXCEPT ![c].at = at]
Leave(c) == visit' = [visit EXCEPT ![c] = NoVisit]
Arrive(c, v) ==
    /\ visit[c] = NoVisit
    /\ visit' = [visit EXCEPT ![c] = v]

\* Nobody else is at work, and nobody may begin while a URL given by hand is being written.
Undivided == "overlap" \in faults \/ \A c \in Clients : visit[c] = NoVisit
Given == "hand" \in faults

-----------------------------------------------------------------------------
(* uploadBanner, uploadPublicFile *)

\* Fault: the project is updated before the file's row is there.
UploadUnrecorded(c, asset, f) ==
    /\ visit[c] = NoVisit
    /\ f \notin Used
    /\ stored' = stored \cup {f}
    /\ visit' = [visit EXCEPT ![c] = [NoVisit EXCEPT !.at = "record", !.asset = asset,
                                                     !.upload = f]]
    /\ page' = [page EXCEPT ![asset] = [id |-> f, url |-> f]]
    /\ UNCHANGED <<stage, defences, records, faults>>

Upload(c, asset, f) ==
    /\ Undivided \/ ~Given
    /\ f \notin Used
    /\ Arrive(c, [NoVisit EXCEPT !.at = "record", !.asset = asset, !.upload = f])
    /\ stored' = stored \cup {f}
    /\ UNCHANGED <<page, stage, defences, records, faults>>

CreateFile(c) ==
    /\ visit[c].at = "record"
    /\ records' = records \cup {visit[c].upload}
    /\ Proceed(c, "place")
    /\ UNCHANGED <<page, stage, defences, stored, faults>>

PlaceUpload(c) ==
    LET f == visit[c].upload
    IN  /\ visit[c].at = "place"
        /\ page' = [page EXCEPT ![visit[c].asset] = [id |-> f, url |-> f]]
        /\ Leave(c)
        /\ UNCHANGED <<stage, defences, stored, records, faults>>

-----------------------------------------------------------------------------
(* URLs *)

\* The URLs of the public file that a client has been shown: an upload's too, if they overlap.
Shown == {page["file"].url} \cup (IF "overlap" \in faults THEN records ELSE {})

\* publishProject: the public file's URL must be given, a banner's may be.
PublishProject(c, banner, file) ==
    /\ Undivided
    /\ visit[c] = NoVisit
    /\ ~Given => banner = "same" /\ file \in Shown
    /\ page' = [page EXCEPT !.public = TRUE, !.published = TRUE,
                            !["file"].url = file,
                            !["banner"].url = IF banner = "same" THEN @ ELSE banner]
    /\ UNCHANGED <<stage, defences, stored, records, visit, faults>>

\* updateProjectVisibility
UpdateVisibility(c, public) ==
    /\ visit[c] = NoVisit
    /\ page' = [page EXCEPT !.public = public, !.published = public]
    /\ UNCHANGED <<stage, defences, stored, records, visit, faults>>

\* updateProjectAssets: what is not given is read, and written again; nothing for NULL.
ReadAssets(c, banner, file) ==
    LET OrRead(url, asset) ==
          IF url # "same" THEN url
          ELSE IF page[asset].url = "none" THEN "same" ELSE page[asset].url
    IN  /\ Undivided
        /\ Given
        /\ Arrive(c, [NoVisit EXCEPT !.at = "assets", !.banner = OrRead(banner, "banner"),
                                     !.file = OrRead(file, "file")])
        /\ UNCHANGED <<page, stage, defences, stored, records, faults>>

WriteAssets(c) ==
    LET v == visit[c]
    IN  /\ v.at = "assets"
        /\ page' = [page EXCEPT !["banner"].url = IF v.banner = "same" THEN @ ELSE v.banner,
                                !["file"].url = IF v.file = "same" THEN @ ELSE v.file]
        /\ Leave(c)
        /\ UNCHANGED <<stage, defences, stored, records, faults>>

-----------------------------------------------------------------------------
(* The stage. *)

CreateDefence(c) ==
    /\ defences < MaxDefences
    /\ Arrive(c, [NoVisit EXCEPT !.at = "defence"])
    /\ defences' = defences + 1
    /\ UNCHANGED <<page, stage, stored, records, faults>>

\* scheduleProjectDefence: whatever the stage was.
ReviewProject(c) ==
    /\ visit[c].at = "defence"
    /\ stage' = "Under_Review"
    /\ Leave(c)
    /\ UNCHANGED <<page, defences, stored, records, faults>>

\* terminateProject
TerminateProject(c) ==
    /\ visit[c] = NoVisit
    /\ stage' = "Rejected"
    /\ UNCHANGED <<page, defences, stored, records, visit, faults>>

\* A statement fails, the store does, or the server stops.
Stop(c) ==
    /\ visit[c] # NoVisit
    /\ Leave(c)
    /\ UNCHANGED <<page, stage, defences, stored, records, faults>>

-----------------------------------------------------------------------------

\* As createProjectFromApprovedProposal leaves it.
PageInit ==
    /\ page = [public |-> FALSE, published |-> FALSE, banner |-> NoAsset, file |-> NoAsset]
    /\ stage = "Approved"
    /\ defences = 0
    /\ stored = {}
    /\ records = {}
    /\ visit = [c \in Clients |-> NoVisit]
    /\ faults \in PageFaults

PageNext ==
    \E c \in Clients :
        \/ \E asset \in Assets, f \in Uploads : Upload(c, asset, f)
        \/ CreateFile(c)
        \/ PlaceUpload(c)
        \/ \E b \in Urls \cup {"same"}, f \in Urls : PublishProject(c, b, f)
        \/ \E public \in BOOLEAN : UpdateVisibility(c, public)
        \/ \E b, f \in Urls \cup {"same"} : ReadAssets(c, b, f)
        \/ WriteAssets(c)
        \/ CreateDefence(c)
        \/ ReviewProject(c)
        \/ TerminateProject(c)
        \/ Stop(c)

PageSpec == PageInit /\ [][PageNext]_pageVars
=============================================================================
