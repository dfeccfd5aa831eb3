--------------------------- MODULE ProjectRoomProofs ---------------------------
(***************************************************************************)
(* The public page of a project, the accounts of its people, the scores of *)
(* its evaluations, the activity of its tasks, and its chat.               *)
(***************************************************************************)
EXTENDS ProjectRoomProps, FiniteSetTheorems, SequenceTheorems, TLAPS

-----------------------------------------------------------------------------
(* The public page. *)

Asset == [id : Uploads \cup {"none"}, url : Urls \cup {"none"}]
Page == [public : BOOLEAN, published : BOOLEAN, banner : Asset, file : Asset]
Visit == [at : {"idle", "record", "place", "assets", "defence"}, asset : Assets \cup {"none"},
          upload : Uploads \cup {"none"}, banner : Urls \cup {"same"}, file : Urls \cup {"same"}]

PageTypes ==
    /\ page \in Page
    /\ visit \in [Clients -> Visit]
    /\ defences \in Nat
    /\ stored \subseteq Uploads

\* An upload that goes on was stored, and recorded before it is placed.
UploadsGoOn ==
    \A c \in Clients :
        /\ visit[c].at \in {"record", "place"} => visit[c].asset \in Assets /\ visit[c].upload \in stored
        /\ visit[c].at = "place" => visit[c].upload \in records

\* Who writes URLs gives them, and who schedules a defence has made one.
VisitsAreDue ==
    \A c \in Clients :
        /\ visit[c].at = "assets" => Given
        /\ visit[c].at = "defence" => defences > 0

AssetsFit ==
    /\ \A a \in Assets : page[a].id # "none" => page[a].id \in stored \cap records
    /\ ~Given => page["banner"].id = page["banner"].url
    /\ faults = {} => page["file"].id = page["file"].url

Dated == page.public = page.published
Due == stage = "Under_Review" => defences > 0

PageInv == PageTypes /\ UploadsGoOn /\ VisitsAreDue /\ AssetsFit /\ Dated /\ Due

\* What a page holds when one of its assets is an upload.
LEMMA PlacedUpload ==
    ASSUME NEW asset \in Assets, NEW f \in Uploads, page \in Page,
           page' = [page EXCEPT ![asset] = [id |-> f, url |-> f]]
    PROVE  /\ page' \in Page
           /\ page'.public = page.public /\ page'.published = page.published
           /\ page'[asset].id = f /\ page'[asset].url = f
           /\ \A a \in Assets \ {asset} : page'[a] = page[a]
BY DEF Assets, Page, Asset, Urls

\* What it holds when its URLs are written.
LEMMA WrittenUrls ==
    ASSUME NEW b \in Urls \cup {"none"}, NEW f \in Urls \cup {"none"},
           NEW public \in BOOLEAN, NEW published \in BOOLEAN, page \in Page,
           page' = [page EXCEPT !.public = public, !.published = published,
                                !["file"].url = f, !["banner"].url = b]
    PROVE  /\ page' \in Page
           /\ page'.public = public /\ page'.published = published
           /\ page'["banner"] = [id |-> page["banner"].id, url |-> b]
           /\ page'["file"] = [id |-> page["file"].id, url |-> f]
BY DEF Page, Asset

LEMMA IdleVisit == NoVisit \in Visit /\ NoVisit.at = "idle"
BY DEF NoVisit, Visit

\* Nothing but the requests is changed, and none is further than it was.
LEMMA VisitChanges ==
    ASSUME PageInv, NEW c \in Clients, NEW v \in Visit, visit' = [visit EXCEPT ![c] = v],
           UNCHANGED <<page, stage, defences, faults>>,
           stored \subseteq stored', stored' \subseteq Uploads, records \subseteq records',
           v.at \in {"record", "place"} => v.asset \in Assets /\ v.upload \in stored',
           v.at = "place" => v.upload \in records',
           v.at = "assets" => Given,
           v.at = "defence" => defences > 0
    PROVE  PageInv'
<1>1. \A d \in Clients : visit'[d] = IF d = c THEN v ELSE visit[d]
  BY DEF PageInv, PageTypes
<1>2. PageTypes'
  BY DEF PageInv, PageTypes
<1>3. UploadsGoOn'
  BY <1>1 DEF PageInv, UploadsGoOn
<1>4. VisitsAreDue'
  BY <1>1 DEF PageInv, PageTypes, VisitsAreDue, Given
<1>5. AssetsFit'
  BY DEF PageInv, AssetsFit, Given
<1>6. Dated'
  BY DEF PageInv, Dated
<1>7. Due'
  BY DEF PageInv, Due
<1> QED BY <1>2, <1>3, <1>4, <1>5, <1>6, <1>7 DEF PageInv

\* The page is changed, by a request that stays or leaves.
LEMMA PageChanges ==
    ASSUME PageInv, NEW c \in Clients,
           visit' = visit \/ visit' = [visit EXCEPT ![c] = NoVisit],
           UNCHANGED <<stage, defences, stored, records, faults>>,
           page' \in Page, page'.public = page'.published,
           \A a \in Assets : page'[a].id # "none" => page'[a].id \in stored \cap records,
           ~Given => page'["banner"].id = page'["banner"].url,
           faults = {} => page'["file"].id = page'["file"].url
    PROVE  PageInv'
<1>1. visit' \in [Clients -> Visit] /\ \A d \in Clients : visit'[d] \in {visit[d], NoVisit}
  BY IdleVisit DEF PageInv, PageTypes
<1>2. UploadsGoOn' /\ VisitsAreDue'
  BY <1>1, IdleVisit DEF PageInv, UploadsGoOn, VisitsAreDue, Given
<1>3. AssetsFit' /\ Dated'
  BY DEF PageInv, AssetsFit, Dated, Given
<1>4. PageTypes' /\ Due'
  BY <1>1 DEF PageInv, PageTypes, Due
<1> QED BY <1>2, <1>3, <1>4 DEF PageInv

LEMMA PageStart == PageInit => PageInv
<1> SUFFICES ASSUME PageInit PROVE PageInv
  OBVIOUS
<1>1. PageTypes
  BY IdleVisit DEF PageInit, PageTypes, Page, Asset, NoAsset
<1>2. UploadsGoOn /\ VisitsAreDue
  BY IdleVisit DEF PageInit, UploadsGoOn, VisitsAreDue
<1>3. AssetsFit /\ Dated /\ Due
  BY DEF PageInit, AssetsFit, Dated, Due, NoAsset, Assets
<1> QED BY <1>1, <1>2, <1>3 DEF PageInv

LEMMA PageStep == PageInv /\ [PageNext]_pageVars => PageInv'
<1> SUFFICES ASSUME PageInv, [PageNext]_pageVars PROVE PageInv'
  OBVIOUS
<1>0. /\ page \in Page /\ page["banner"] \in Asset /\ page["file"] \in Asset
      /\ defences \in Nat /\ stored \subseteq Uploads
      /\ \A c \in Clients : visit[c] \in Visit
  BY DEF PageInv, PageTypes, Page
<1>1. CASE UNCHANGED pageVars
  BY <1>1 DEF pageVars, PageInv, PageTypes, UploadsGoOn, VisitsAreDue, AssetsFit,
    Dated, Due, Given
<1>2. ASSUME NEW c \in Clients, NEW asset \in Assets, NEW f \in Uploads, Upload(c, asset, f)
      PROVE  PageInv'
  <2> DEFINE v == [NoVisit EXCEPT !.at = "record", !.asset = asset, !.upload = f]
  <2>1. v \in Visit /\ v.at = "record" /\ v.asset = asset /\ v.upload = f
    BY DEF NoVisit, Visit, Urls
  <2>2. visit' = [visit EXCEPT ![c] = v]
    BY <1>2 DEF Upload, Arrive
  <2>3. stored' = stored \cup {f} /\ UNCHANGED <<page, stage, defences, records, faults>>
    BY <1>2 DEF Upload
  <2> HIDE DEF v
  <2> QED BY <1>0, <2>1, <2>2, <2>3, VisitChanges
<1>3. ASSUME NEW c \in Clients, CreateFile(c) PROVE PageInv'
  <2> DEFINE v == [visit[c] EXCEPT !.at = "place"]
  <2>1. v \in Visit /\ v.at = "place" /\ v.asset = visit[c].asset /\ v.upload = visit[c].upload
    BY <1>0 DEF Visit
  <2>2. visit' = [visit EXCEPT ![c] = v]
    BY <1>3 DEF CreateFile, Proceed
  <2>3. visit[c].asset \in Assets /\ visit[c].upload \in stored
    BY <1>3 DEF CreateFile, PageInv, UploadsGoOn
  <2>4. /\ records' = records \cup {visit[c].upload}
        /\ UNCHANGED <<page, stage, defences, stored, faults>>
    BY <1>3 DEF CreateFile
  <2> HIDE DEF v
  <2> QED BY <1>0, <2>1, <2>2, <2>3, <2>4, VisitChanges
<1>4. ASSUME NEW c \in Clients, PlaceUpload(c) PROVE PageInv'
  <2> DEFINE f == visit[c].upload
             asset == visit[c].asset
  <2>1. asset \in Assets /\ f \in stored \cap records /\ f \in Uploads \cup {"none"}
    BY <1>0, <1>4 DEF PlaceUpload, PageInv, UploadsGoOn, Visit
  <2>2. page' = [page EXCEPT ![asset] = [id |-> f, url |-> f]]
    BY <1>4 DEF PlaceUpload
  <2>3. f \in Uploads
    BY <2>1 DEF PageInv, PageTypes
  <2> HIDE DEF f, asset
  <2>4. /\ page' \in Page /\ page'.public = page.public /\ page'.published = page.published
        /\ page'[asset].id = f /\ page'[asset].url = f
        /\ \A a \in Assets \ {asset} : page'[a] = page[a]
    BY <1>0, <2>1, <2>2, <2>3, PlacedUpload
  <2>5. \A a \in Assets : page'[a].id # "none" => page'[a].id \in stored \cap records
    BY <2>1, <2>4 DEF PageInv, AssetsFit
  <2>6. /\ ~Given => page'["banner"].id = page'["banner"].url
        /\ faults = {} => page'["file"].id = page'["file"].url
    BY <2>4 DEF PageInv, AssetsFit, Assets
  <2>7. page'.public = page'.published
    BY <2>4 DEF PageInv, Dated
  <2>8. /\ visit' = [visit EXCEPT ![c] = NoVisit]
        /\ UNCHANGED <<stage, defences, stored, records, faults>>
    BY <1>4 DEF PlaceUpload, Leave
  <2> QED BY <2>4, <2>5, <2>6, <2>7, <2>8, PageChanges
<1>5. ASSUME NEW c \in Clients, NEW b \in Urls \cup {"same"}, NEW f \in Urls, PublishProject(c, b, f)
      PROVE  PageInv'
  <2> DEFINE banner == IF b = "same" THEN page["banner"].url ELSE b
  <2>1. banner \in Urls \cup {"none"}
    BY <1>0 DEF Asset
  <2>2. page' = [page EXCEPT !.public = TRUE, !.published = TRUE,
                             !["file"].url = f, !["banner"].url = banner]
    BY <1>5 DEF PublishProject
  <2>3. ~Given => banner = page["banner"].url
    BY <1>5 DEF PublishProject
  <2>4. faults = {} => f = page["file"].url
    BY <1>5 DEF PublishProject, Given, Shown
  <2> HIDE DEF banner
  <2>5. /\ page' \in Page /\ page'.public = TRUE /\ page'.published = TRUE
        /\ page'["banner"] = [id |-> page["banner"].id, url |-> banner]
        /\ page'["file"] = [id |-> page["file"].id, url |-> f]
    BY <1>0, <2>1, <2>2, WrittenUrls
  <2>6. \A a \in Assets : page'[a].id # "none" => page'[a].id \in stored \cap records
    BY <2>5 DEF PageInv, AssetsFit, Assets
  <2>7. /\ ~Given => page'["banner"].id = page'["banner"].url
        /\ faults = {} => page'["file"].id = page'["file"].url
    BY <2>3, <2>4, <2>5 DEF PageInv, AssetsFit
  <2>8. UNCHANGED <<visit, stage, defences, stored, records, faults>>
    BY <1>5 DEF PublishProject
  <2> QED BY <2>5, <2>6, <2>7, <2>8, PageChanges
<1>6. ASSUME NEW c \in Clients, NEW public \in BOOLEAN, UpdateVisibility(c, public) PROVE PageInv'
  <2>1. page' = [page EXCEPT !.public = public, !.published = public]
    BY <1>6 DEF UpdateVisibility
  <2>2. /\ page' \in Page /\ page'.public = public /\ page'.published = public
        /\ page'["banner"] = page["banner"] /\ page'["file"] = page["file"]
    BY <1>0, <2>1 DEF Page
  <2> QED BY <1>6, <2>2, PageChanges DEF UpdateVisibility, PageInv, AssetsFit, Dated, Assets
<1>7. ASSUME NEW c \in Clients, NEW b \in Urls \cup {"same"}, NEW f \in Urls \cup {"same"},
             ReadAssets(c, b, f)
      PROVE  PageInv'
  <2>1. PICK banner, file \in Urls \cup {"same"} :
            visit' = [visit EXCEPT ![c] = [NoVisit EXCEPT !.at = "assets", !.banner = banner,
                                                          !.file = file]]
    BY <1>0, <1>7 DEF ReadAssets, Arrive, Asset
  <2> DEFINE v == [NoVisit EXCEPT !.at = "assets", !.banner = banner, !.file = file]
  <2>2. v \in Visit /\ v.at = "assets"
    BY DEF NoVisit, Visit, Urls
  <2>3. visit' = [visit EXCEPT ![c] = v]
    BY <2>1
  <2>4. Given /\ UNCHANGED <<page, stage, defences, stored, records, faults>>
    BY <1>7 DEF ReadAssets
  <2> HIDE DEF v
  <2> QED BY <1>0, <2>2, <2>3, <2>4, VisitChanges
<1>8. ASSUME NEW c \in Clients, WriteAssets(c) PROVE PageInv'
  <2> DEFINE v == visit[c]
             b == IF v.banner = "same" THEN page["banner"].url ELSE v.banner
             f == IF v.file = "same" THEN page["file"].url ELSE v.file
  <2>1. b \in Urls \cup {"none"} /\ f \in Urls \cup {"none"}
    BY <1>0 DEF Asset, Visit
  <2>2. page' = [page EXCEPT !["banner"].url = b, !["file"].url = f]
    BY <1>8 DEF WriteAssets
  <2> HIDE DEF b, f
  <2>3. /\ page' \in Page /\ page'.public = page.public /\ page'.published = page.published
        /\ page'["banner"].id = page["banner"].id /\ page'["file"].id = page["file"].id
    BY <1>0, <2>1, <2>2 DEF Page, Asset
  <2>4. Given /\ faults # {}
    BY <1>8 DEF WriteAssets, PageInv, VisitsAreDue, Given
  <2> QED BY <1>8, <2>3, <2>4, PageChanges DEF WriteAssets, Leave, PageInv, AssetsFit, Dated, Given, Assets
<1>9. ASSUME NEW c \in Clients, CreateDefence(c) PROVE PageInv'
  <2> DEFINE v == [NoVisit EXCEPT !.at = "defence"]
  <2>1. v \in Visit /\ v.at = "defence"
    BY DEF NoVisit, Visit, Urls
  <2>2. visit' = [visit EXCEPT ![c] = v]
    BY <1>9 DEF CreateDefence, Arrive
  <2>3. defences' = defences + 1 /\ UNCHANGED <<page, stage, stored, records, faults>>
    BY <1>9 DEF CreateDefence
  <2> HIDE DEF v
  <2>4. defences' \in Nat /\ defences' > 0
    BY <1>0, <2>3
  <2>5. \A d \in Clients : visit'[d] = IF d = c THEN v ELSE visit[d]
    BY <2>2 DEF PageInv, PageTypes
  <2>6. PageTypes'
    BY <2>1, <2>2, <2>3, <2>4 DEF PageInv, PageTypes
  <2>7. UploadsGoOn' /\ VisitsAreDue'
    BY <2>1, <2>3, <2>4, <2>5 DEF PageInv, UploadsGoOn, VisitsAreDue, Given
  <2>8. AssetsFit' /\ Dated' /\ Due'
    BY <2>3, <2>4 DEF PageInv, AssetsFit, Dated, Due, Given
  <2> QED BY <2>6, <2>7, <2>8 DEF PageInv
<1>10. ASSUME NEW c \in Clients, ReviewProject(c) \/ TerminateProject(c) PROVE PageInv'
  <2>1. visit' \in [Clients -> Visit] /\ \A d \in Clients : visit'[d] \in {visit[d], NoVisit}
    BY <1>10, IdleVisit DEF ReviewProject, TerminateProject, Leave, PageInv, PageTypes
  <2>2. UNCHANGED <<page, defences, stored, records, faults>>
    BY <1>10 DEF ReviewProject, TerminateProject
  <2>3. stage' = "Under_Review" => defences > 0
    BY <1>10 DEF ReviewProject, TerminateProject, PageInv, VisitsAreDue, Due
  <2>4. UploadsGoOn' /\ VisitsAreDue'
    BY <2>1, <2>2, IdleVisit DEF PageInv, UploadsGoOn, VisitsAreDue, Given
  <2>5. AssetsFit' /\ Dated' /\ Due'
    BY <2>2, <2>3 DEF PageInv, AssetsFit, Dated, Due, Given
  <2> QED BY <2>1, <2>2, <2>4, <2>5 DEF PageInv, PageTypes
<1>11. ASSUME NEW c \in Clients, Stop(c) PROVE PageInv'
  BY <1>0, <1>11, IdleVisit, VisitChanges DEF Stop, Leave
<1> QED BY <1>1, <1>2, <1>3, <1>4, <1>5, <1>6, <1>7, <1>8, <1>9, <1>10, <1>11 DEF PageNext

\* A file of the page is stored and recorded, wherever an upload stops and whatever overlaps, and
\* its URL is the file's unless clients give URLs of their own or publishing overlaps an upload;
\* what is public has a date, and a project under review a defence.
THEOREM PageStaysSound == PageSpec => []PageIsSound
<1>1. PageInv => PageIsSound
  BY DEF PageInv, PageTypes, Page, AssetsFit, Dated, Due, PageIsSound, Given
<1> QED BY <1>1, PageStart, PageStep, PTL DEF PageSpec

-----------------------------------------------------------------------------
(* Accounts. *)

AllRoles == InvitedRoles \cup {"STUDENT", "SYSTEM_ADMIN"}
Account == [email : Emails \cup {"admin", "deputy"}, roles : SUBSET AllRoles, by : Nat,
            status : {"active", "deactive", "suspended"}]
Invitation == [email : Emails, role : InvitedRoles \cup {"none"}, accepted : BOOLEAN,
               expired : BOOLEAN]
Joining == [at : {"idle", "make"}, email : Emails \cup {"none"}, invitation : Nat,
            role : AllRoles \cup {"none"}]
Changing == [at : {"idle", "status"}, user : Nat, status : {"none", "active", "suspended"}]

AccountTypes ==
    /\ \E n \in Nat : n >= 2 /\ accounts \in [1..n -> Account]
    /\ \E n \in Nat : invitations \in [1..n -> Invitation]
    /\ joining \in [People -> Joining]
    /\ changing \in [Administrators -> Changing]
    /\ \A u \in UserIds : accounts[u].by \in DOMAIN invitations \cup {0}
    /\ \A p \in People :
           joining[p].at = "make" =>
               joining[p].email \in Emails /\ joining[p].invitation \in DOMAIN invitations \cup {0}
    /\ \A a \in Administrators : changing[a].at = "status" =>
           changing[a].user \in UserIds /\ changing[a].status # "none"

\* No two accounts have one address, and each was logged in when it was made.
OneEach ==
    /\ \A u, v \in UserIds : accounts[u].email = accounts[v].email => u = v
    /\ \A u \in UserIds : \E t \in tokens : t[1] = u

\* A request keeps the role of its invitation, which may have lost it meanwhile.
RolesFit ==
    /\ "none" \notin roleRows
    /\ \A u \in UserIds : MadeWith(u) \in roleRows => MadeWith(u) \in accounts[u].roles
    /\ \A p \in People : joining[p].at = "make" =>
           IF joining[p].invitation = 0 THEN joining[p].role = "STUDENT"
           ELSE invitations[joining[p].invitation].role \in {joining[p].role, "none"}

\* As long as addresses stay, an account has its invitation's, which no other can have then.
InvitationsFit ==
    /\ \A u \in UserIds : accounts[u].by # 0 =>
           /\ invitations[accounts[u].by].accepted
           /\ accounts[u].email = invitations[accounts[u].by].email
    /\ \A i \in DOMAIN invitations : invitations[i].accepted => \E u \in UserIds : accounts[u].by = i
    /\ \A p \in People : joining[p].at = "make" /\ joining[p].invitation # 0 =>
           joining[p].email = invitations[joining[p].invitation].email

\* An administrator who changes another's status is the only one at it, and active.
AdministratorsFit ==
    /\ \E a \in Administrators : accounts[a].status = "active"
    /\ \A a \in Administrators : changing[a] # NotChanging =>
           /\ changing[a].user # a
           /\ accounts[a].status = "active"
           /\ \A b \in Administrators \ {a} : changing[b] = NotChanging

AccountsInv ==
    /\ AccountTypes /\ OneEach /\ RolesFit
    /\ "rename" \notin snags => InvitationsFit
    /\ "rival" \notin snags => AdministratorsFit

LEMMA RowAdded ==
    ASSUME NEW n \in Nat, NEW f, DOMAIN f = 1..n, NEW x
    PROVE  RowOf(f, x) = [i \in 1..(n + 1) |-> IF i \in 1..n THEN f[i] ELSE x]
<1>1. Cardinality(1..n) = n
  BY FS_Interval
<1> QED BY <1>1 DEF RowOf

\* Nothing happens to the accounts but that somebody logs in.
LEMMA LoginKeeps ==
    ASSUME AccountsInv, tokens \subseteq tokens',
           UNCHANGED <<accounts, invitations, roleRows, joining, changing, snags>>
    PROVE  AccountsInv'
<1>1. AccountTypes'
  BY DEF AccountsInv, AccountTypes, UserIds
<1>2. OneEach'
  BY DEF AccountsInv, OneEach, UserIds
<1>3. RolesFit'
  BY DEF AccountsInv, RolesFit, MadeWith, UserIds
<1>4. "rename" \notin snags' => InvitationsFit'
  BY DEF AccountsInv, InvitationsFit, UserIds
<1>5. "rival" \notin snags' => AdministratorsFit'
  BY DEF AccountsInv, AdministratorsFit
<1> QED BY <1>1, <1>2, <1>3, <1>4, <1>5 DEF AccountsInv

\* A request to make an account begins or is given up.
LEMMA JoiningKeeps ==
    ASSUME AccountsInv, NEW p \in People, NEW j \in Joining, joining' = [joining EXCEPT ![p] = j],
           UNCHANGED <<accounts, invitations, tokens, roleRows, changing, snags>>,
           j.at = "make" => j.email \in Emails /\ j.invitation \in DOMAIN invitations \cup {0},
           j.at = "make" /\ j.invitation = 0 => j.role = "STUDENT",
           j.at = "make" /\ j.invitation # 0 =>
               /\ invitations[j.invitation].role = j.role
               /\ invitations[j.invitation].email = j.email
    PROVE  AccountsInv'
<1>0. joining' \in [People -> Joining] /\ \A q \in People : joining'[q] = IF q = p THEN j ELSE joining[q]
  BY DEF AccountsInv, AccountTypes
<1>1. AccountTypes'
  BY <1>0 DEF AccountsInv, AccountTypes, UserIds
<1>2. OneEach'
  BY DEF AccountsInv, OneEach, UserIds
<1>3. RolesFit'
  BY <1>0 DEF AccountsInv, RolesFit, MadeWith, UserIds
<1>4. "rename" \notin snags' => InvitationsFit'
  BY <1>0 DEF AccountsInv, InvitationsFit, UserIds
<1>5. "rival" \notin snags' => AdministratorsFit'
  BY DEF AccountsInv, AdministratorsFit
<1> QED BY <1>1, <1>2, <1>3, <1>4, <1>5 DEF AccountsInv

\* An administrator is authorised to change a status.
LEMMA ChangingKeeps ==
    ASSUME AccountsInv, NEW a \in Administrators, NEW c \in Changing,
           changing' = [changing EXCEPT ![a] = c],
           UNCHANGED <<accounts, invitations, tokens, roleRows, joining, snags>>,
           c.at = "status" /\ c.user \in UserIds /\ c.status # "none",
           "rival" \notin snags =>
               /\ c.user # a /\ accounts[a].status = "active"
               /\ \A b \in Administrators : changing[b] = NotChanging
    PROVE  AccountsInv'
<1>0. changing' \in [Administrators -> Changing]
      /\ \A b \in Administrators : changing'[b] = IF b = a THEN c ELSE changing[b]
  BY DEF AccountsInv, AccountTypes
<1>1. AccountTypes'
  BY <1>0 DEF AccountsInv, AccountTypes, UserIds
<1>2. OneEach'
  BY DEF AccountsInv, OneEach, UserIds
<1>3. RolesFit'
  BY DEF AccountsInv, RolesFit, MadeWith, UserIds
<1>4. "rename" \notin snags' => InvitationsFit'
  BY DEF AccountsInv, InvitationsFit, UserIds
<1>5. "rival" \notin snags' => AdministratorsFit'
  BY <1>0 DEF AccountsInv, AdministratorsFit
<1> QED BY <1>1, <1>2, <1>3, <1>4, <1>5 DEF AccountsInv

LEMMA RegisterKeeps ==
    ASSUME AccountsInv, NEW p \in People, NEW email \in Emails, Register(p, email) PROVE AccountsInv'
<1> DEFINE j == [at |-> "make", email |-> email, invitation |-> 0, role |-> "STUDENT"]
<1>1. j \in Joining /\ j.at = "make" /\ j.email = email /\ j.invitation = 0 /\ j.role = "STUDENT"
  BY DEF Joining, AllRoles
<1>2. joining' = [joining EXCEPT ![p] = j]
  BY DEF Register
<1>3. UNCHANGED <<accounts, invitations, tokens, roleRows, changing, snags>>
  BY DEF Register
<1> HIDE DEF j
<1> QED BY <1>1, <1>2, <1>3, JoiningKeeps

LEMMA AcceptKeeps ==
    ASSUME AccountsInv, NEW p \in People, NEW i \in DOMAIN invitations, AcceptInvitation(p, i)
    PROVE  AccountsInv'
<1>0. i \in Nat /\ i # 0 /\ invitations[i] \in Invitation
  BY DEF AccountsInv, AccountTypes
<1>1. invitations[i].role # "none"
  BY DEF AcceptInvitation, GetInvitationDetails
<1> DEFINE j == [at |-> "make", email |-> invitations[i].email, invitation |-> i,
                 role |-> invitations[i].role]
<1>2. /\ j \in Joining /\ j.email \in Emails
      /\ j.at = "make" /\ j.email = invitations[i].email /\ j.invitation = i
      /\ j.role = invitations[i].role
  BY <1>0 DEF Joining, Invitation, AllRoles
<1>3. joining' = [joining EXCEPT ![p] = j]
  BY DEF AcceptInvitation, GetInvitationDetails
<1>4. UNCHANGED <<accounts, invitations, tokens, roleRows, changing, snags>>
  BY DEF AcceptInvitation
<1> HIDE DEF j
<1> QED BY <1>0, <1>2, <1>3, <1>4, JoiningKeeps

LEMMA FailKeeps ==
    ASSUME AccountsInv, NEW p \in People, FailToJoin(p) PROVE AccountsInv'
<1>1. NotJoining \in Joining /\ NotJoining.at = "idle"
  BY DEF NotJoining, Joining
<1>2. UNCHANGED <<accounts, invitations, tokens, roleRows, changing, snags>>
  BY DEF FailToJoin
<1>3. joining' = [joining EXCEPT ![p] = NotJoining]
  BY DEF FailToJoin
<1> QED BY <1>1, <1>2, <1>3, JoiningKeeps


\* The rows that MakeAccount leaves: one more account, and the invitation accepted.
LEMMA MadeRows ==
    ASSUME AccountsInv, NEW p \in People, MakeAccount(p)
    PROVE  \E n \in Nat :
               /\ n >= 2 /\ accounts \in [1..n -> Account]
               /\ accounts' \in [1..(n + 1) -> Account]
               /\ \A u \in 1..n : accounts'[u] = accounts[u]
               /\ accounts'[n + 1].email = joining[p].email
               /\ accounts'[n + 1].by = joining[p].invitation
               /\ accounts'[n + 1].roles = {joining[p].role}
               /\ <<n + 1, second>> \in tokens' /\ tokens \subseteq tokens'
<1>1. PICK n \in Nat : n >= 2 /\ accounts \in [1..n -> Account]
  BY DEF AccountsInv, AccountTypes
<1>2. Cardinality(UserIds) = n
  BY <1>1, FS_Interval DEF UserIds
<1>3. joining[p] \in Joining /\ joining[p].at = "make" /\ joining[p].role \in roleRows
  BY DEF MakeAccount, Made, AccountsInv, AccountTypes
<1> DEFINE x == [email |-> joining[p].email, roles |-> {joining[p].role},
                 by |-> joining[p].invitation,
                 status |-> IF joining[p].invitation = 0 THEN "deactive" ELSE "active"]
<1>4. joining[p].email \in Emails /\ joining[p].role \in AllRoles
  BY <1>3 DEF AccountsInv, AccountTypes, RolesFit, Joining
<1>5. /\ x \in Account /\ x.email = joining[p].email /\ x.by = joining[p].invitation
      /\ x.roles = {joining[p].role}
  BY <1>3, <1>4 DEF Account, Joining
<1>6. accounts' = RowOf(accounts, x)
  BY DEF MakeAccount, Made
<1>7. tokens' = tokens \cup {<<n + 1, second>>}
  BY <1>2 DEF MakeAccount, Made, Token
<1> HIDE DEF x
<1>8. accounts' = [i \in 1..(n + 1) |-> IF i \in 1..n THEN accounts[i] ELSE x]
  <2>1. DOMAIN accounts = 1..n
    BY <1>1
  <2> QED BY <1>6, <2>1, RowAdded
<1>10. /\ accounts' \in [1..(n + 1) -> Account]
       /\ accounts'[n + 1] = x
       /\ \A u \in 1..n : accounts'[u] = accounts[u]
  BY <1>1, <1>5, <1>8
<1>9. <<n + 1, second>> \in tokens' /\ tokens \subseteq tokens'
  BY <1>7
<1> QED BY <1>1, <1>5, <1>9, <1>10

LEMMA MakeKeeps ==
    ASSUME AccountsInv, NEW p \in People, MakeAccount(p) PROVE AccountsInv'
<1> DEFINE j == joining[p]
<1>0. PICK n \in Nat :
          /\ n >= 2 /\ accounts \in [1..n -> Account]
          /\ accounts' \in [1..(n + 1) -> Account]
          /\ \A u \in 1..n : accounts'[u] = accounts[u]
          /\ accounts'[n + 1].email = j.email
          /\ accounts'[n + 1].by = j.invitation
          /\ accounts'[n + 1].roles = {j.role}
          /\ <<n + 1, second>> \in tokens' /\ tokens \subseteq tokens'
  BY MadeRows
<1>1. /\ UserIds = 1..n /\ UserIds' = 1..(n + 1)
      /\ \A u \in 1..(n + 1) : u \in 1..n \/ u = n + 1
  BY <1>0 DEF UserIds
<1>2. /\ j \in Joining /\ j.at = "make" /\ j.role \in roleRows
      /\ j.email \in Emails /\ j.invitation \in DOMAIN invitations \cup {0}
      /\ \A u \in 1..n : accounts[u].email # j.email
      /\ UNCHANGED <<roleRows, changing, snags>>
  BY <1>1 DEF MakeAccount, Made, AccountsInv, AccountTypes, FindByEmail
<1>3. joining' = [joining EXCEPT ![p] = NotJoining] /\ NotJoining \in Joining /\ NotJoining.at = "idle"
  BY DEF MakeAccount, Made, NotJoining, Joining
<1>4. /\ joining' \in [People -> Joining]
      /\ \A q \in People : joining'[q] = IF q = p THEN NotJoining ELSE joining[q]
  BY <1>3 DEF AccountsInv, AccountTypes
<1>5. PICK m \in Nat : invitations \in [1..m -> Invitation]
  BY DEF AccountsInv, AccountTypes
<1>6. invitations' = [i \in 1..m |-> IF i = j.invitation THEN [invitations[i] EXCEPT !.accepted = TRUE]
                                     ELSE invitations[i]]
  BY <1>5 DEF MakeAccount, Made
<1>7. \A x \in Invitation : /\ [x EXCEPT !.accepted = TRUE] \in Invitation
                            /\ [x EXCEPT !.accepted = TRUE].accepted
                            /\ [x EXCEPT !.accepted = TRUE].role = x.role
                            /\ [x EXCEPT !.accepted = TRUE].email = x.email
  BY DEF Invitation
<1>8. /\ invitations' \in [1..m -> Invitation]
      /\ \A i \in 1..m : /\ invitations'[i].role = invitations[i].role
                         /\ invitations'[i].email = invitations[i].email
                         /\ i = j.invitation => invitations'[i].accepted
                         /\ i # j.invitation => invitations'[i] = invitations[i]
  BY <1>5, <1>6, <1>7
<1>9. DOMAIN invitations = 1..m /\ DOMAIN invitations' = 1..m
  BY <1>5, <1>8
<1> HIDE DEF j
<1>10. AccountTypes'
  <2>1. \A u \in UserIds' : accounts'[u].by \in DOMAIN invitations' \cup {0}
    BY <1>0, <1>1, <1>2, <1>9 DEF AccountsInv, AccountTypes
  <2>2. \A q \in People : joining'[q].at = "make" =>
            joining'[q].email \in Emails /\ joining'[q].invitation \in DOMAIN invitations' \cup {0}
    BY <1>3, <1>4, <1>9 DEF AccountsInv, AccountTypes
  <2>3. \A a \in Administrators : changing'[a].at = "status" =>
            changing'[a].user \in UserIds' /\ changing'[a].status # "none"
    BY <1>1, <1>2 DEF AccountsInv, AccountTypes
  <2>4. changing' \in [Administrators -> Changing]
    BY <1>2 DEF AccountsInv, AccountTypes
  <2>5. \E k \in Nat : k >= 2 /\ accounts' \in [1..k -> Account]
    BY <1>0
  <2> QED BY <1>4, <1>8, <2>1, <2>2, <2>3, <2>4, <2>5 DEF AccountTypes
<1>11. OneEach'
  <2>1. ASSUME NEW u \in UserIds', NEW v \in UserIds', accounts'[u].email = accounts'[v].email
        PROVE  u = v
    BY <1>0, <1>1, <1>2, <2>1 DEF AccountsInv, OneEach
  <2>2. ASSUME NEW u \in UserIds' PROVE \E t \in tokens' : t[1] = u
    <3>1. CASE u = n + 1
      <4>1. <<n + 1, second>>[1] = u
        BY <3>1
      <4> QED BY <1>0, <4>1
    <3>2. CASE u \in UserIds
      BY <1>0, <3>2 DEF AccountsInv, OneEach
    <3> QED BY <1>1, <3>1, <3>2
  <2> QED BY <2>1, <2>2 DEF OneEach
<1>12. RolesFit'
  <2>1. \A u \in UserIds : MadeWith(u)' = MadeWith(u)
    BY <1>0, <1>1, <1>8, <1>9 DEF MadeWith, AccountsInv, AccountTypes
  <2>2. MadeWith(n + 1)' \in {j.role, "none"}
    <3>1. n + 1 \notin Administrators
      BY <1>0 DEF Administrators
    <3>2. CASE j.invitation = 0
      BY <1>0, <1>2, <3>1, <3>2 DEF MadeWith, j, AccountsInv, RolesFit
    <3>3. CASE j.invitation # 0
      BY <1>0, <1>2, <1>8, <1>9, <3>1, <3>3 DEF MadeWith, j, AccountsInv, RolesFit
    <3> QED BY <3>2, <3>3
  <2>3. "none" \notin roleRows'
    BY <1>2 DEF AccountsInv, RolesFit
  <2>4. ASSUME NEW u \in UserIds', MadeWith(u)' \in roleRows' PROVE MadeWith(u)' \in accounts'[u].roles
    <3>1. CASE u = n + 1
      BY <1>0, <2>2, <2>3, <2>4, <3>1
    <3>2. CASE u \in UserIds
      BY <1>0, <1>1, <1>2, <2>1, <2>4, <3>2 DEF AccountsInv, RolesFit
    <3> QED BY <1>1, <3>1, <3>2
  <2>5. \A q \in People : joining'[q].at = "make" =>
            IF joining'[q].invitation = 0 THEN joining'[q].role = "STUDENT"
            ELSE invitations'[joining'[q].invitation].role \in {joining'[q].role, "none"}
    BY <1>3, <1>4, <1>8, <1>9 DEF AccountsInv, RolesFit, AccountTypes
  <2> QED BY <2>3, <2>4, <2>5 DEF RolesFit
<1>13. ASSUME "rename" \notin snags' PROVE InvitationsFit'
  <2>0. InvitationsFit
    BY <1>2, <1>13 DEF AccountsInv
  <2>1. ASSUME NEW u \in UserIds', accounts'[u].by # 0
        PROVE  /\ invitations'[accounts'[u].by].accepted
               /\ accounts'[u].email = invitations'[accounts'[u].by].email
    <3>1. CASE u = n + 1
      BY <1>0, <1>2, <1>8, <1>9, <2>0, <2>1, <3>1 DEF InvitationsFit, j
    <3>2. CASE u \in UserIds
      <4>1. accounts'[u].by = accounts[u].by /\ accounts[u].by \in 1..m
        BY <1>0, <1>1, <1>9, <2>1, <3>2 DEF AccountsInv, AccountTypes
      <4> QED BY <1>0, <1>1, <1>8, <2>0, <3>2, <4>1 DEF InvitationsFit
    <3> QED BY <1>1, <3>1, <3>2
  <2>2. ASSUME NEW i \in DOMAIN invitations', invitations'[i].accepted
        PROVE  \E u \in UserIds' : accounts'[u].by = i
    BY <1>0, <1>1, <1>8, <1>9, <2>0, <2>2 DEF InvitationsFit
  <2>3. \A q \in People : joining'[q].at = "make" /\ joining'[q].invitation # 0 =>
            joining'[q].email = invitations'[joining'[q].invitation].email
    BY <1>3, <1>4, <1>8, <1>9, <2>0 DEF InvitationsFit, AccountsInv, AccountTypes
  <2> QED BY <2>1, <2>2, <2>3 DEF InvitationsFit
<1>14. ASSUME "rival" \notin snags' PROVE AdministratorsFit'
  BY <1>0, <1>2, <1>14 DEF AccountsInv, AdministratorsFit, Administrators
<1> QED BY <1>10, <1>11, <1>12, <1>13, <1>14 DEF AccountsInv


\* Only invitations change, and keep what has come of them.
LEMMA InvitationsKeep ==
    ASSUME AccountsInv, UNCHANGED <<accounts, tokens, roleRows, joining, changing, snags>>,
           NEW m \in Nat, invitations \in [1..m -> Invitation],
           NEW k \in Nat, k >= m, invitations' \in [1..k -> Invitation],
           \A i \in 1..m : /\ invitations'[i].email = invitations[i].email
                           /\ invitations'[i].role = invitations[i].role
                           /\ invitations'[i].accepted = invitations[i].accepted,
           \A i \in 1..k : i \notin 1..m => ~invitations'[i].accepted
    PROVE  AccountsInv'
<1>0. DOMAIN invitations = 1..m /\ DOMAIN invitations' = 1..k /\ 1..m \subseteq 1..k
  OBVIOUS
<1>1. AccountTypes'
  BY <1>0 DEF AccountsInv, AccountTypes, UserIds
<1>2. OneEach'
  BY DEF AccountsInv, OneEach, UserIds
<1>3. RolesFit'
  <2>1. \A u \in UserIds : MadeWith(u)' = MadeWith(u)
    BY <1>0 DEF MadeWith, AccountsInv, AccountTypes
  <2>2. \A p \in People : joining[p].at = "make" => joining[p].invitation \in 1..m \cup {0}
    BY <1>0 DEF AccountsInv, AccountTypes
  <2> QED BY <2>1, <2>2 DEF AccountsInv, RolesFit, UserIds
<1>4. ASSUME "rename" \notin snags' PROVE InvitationsFit'
  <2>0. InvitationsFit
    BY <1>4 DEF AccountsInv
  <2>1. \A u \in UserIds : accounts[u].by \in 1..m \cup {0}
    BY <1>0 DEF AccountsInv, AccountTypes
  <2>2. \A p \in People : joining[p].at = "make" => joining[p].invitation \in 1..m \cup {0}
    BY <1>0 DEF AccountsInv, AccountTypes
  <2>3. \A u \in UserIds : accounts[u].by # 0 =>
            /\ invitations'[accounts[u].by].accepted
            /\ accounts[u].email = invitations'[accounts[u].by].email
    BY <2>0, <2>1 DEF InvitationsFit
  <2>4. \A j \in 1..k : invitations'[j].accepted => \E u \in UserIds : accounts[u].by = j
    BY <1>0, <2>0 DEF InvitationsFit
  <2>5. \A p \in People : joining[p].at = "make" /\ joining[p].invitation # 0 =>
            joining[p].email = invitations'[joining[p].invitation].email
    BY <2>0, <2>2 DEF InvitationsFit
  <2> QED BY <1>0, <2>3, <2>4, <2>5 DEF InvitationsFit, UserIds
<1>5. "rival" \notin snags' => AdministratorsFit'
  BY DEF AccountsInv, AdministratorsFit
<1> QED BY <1>1, <1>2, <1>3, <1>4, <1>5 DEF AccountsInv

LEMMA InviteKeeps ==
    ASSUME AccountsInv, NEW a \in Administrators, NEW email \in Emails, NEW role \in InvitedRoles,
           InviteUser(a, email, role)
    PROVE  AccountsInv'
<1>1. PICK m \in Nat : invitations \in [1..m -> Invitation]
  BY DEF AccountsInv, AccountTypes
<1> DEFINE x == [email |-> LowerCase[email], role |-> role, accepted |-> FALSE, expired |-> FALSE]
<1>2. x \in Invitation /\ x.accepted = FALSE
  BY AccountsAssumption DEF Invitation
<1>3. invitations' = RowOf(invitations, x)
  BY DEF InviteUser
<1>4. UNCHANGED <<accounts, tokens, roleRows, joining, changing, snags>>
  BY DEF InviteUser
<1> HIDE DEF x
<1>5. invitations' = [i \in 1..(m + 1) |-> IF i \in 1..m THEN invitations[i] ELSE x]
  <2>1. DOMAIN invitations = 1..m
    BY <1>1
  <2> QED BY <1>3, <2>1, RowAdded
<1>6. invitations' \in [1..(m + 1) -> Invitation]
  BY <1>1, <1>2, <1>5
<1>7. \A i \in 1..m : invitations'[i] = invitations[i]
  BY <1>5
<1>8. \A i \in 1..(m + 1) : i \notin 1..m => ~invitations'[i].accepted
  BY <1>2, <1>5
<1>9. m + 1 \in Nat /\ m + 1 >= m
  OBVIOUS
<1> QED BY <1>1, <1>4, <1>6, <1>7, <1>8, <1>9, InvitationsKeep

LEMMA ExpireKeeps ==
    ASSUME AccountsInv, NEW i \in DOMAIN invitations, Expire(i) PROVE AccountsInv'
<1>1. PICK m \in Nat : invitations \in [1..m -> Invitation]
  BY DEF AccountsInv, AccountTypes
<1>2. invitations' = [invitations EXCEPT ![i] = [invitations[i] EXCEPT !.expired = TRUE]]
  BY DEF Expire
<1>3. \A x \in Invitation : /\ [x EXCEPT !.expired = TRUE] \in Invitation
                            /\ [x EXCEPT !.expired = TRUE].accepted = x.accepted
                            /\ [x EXCEPT !.expired = TRUE].role = x.role
                            /\ [x EXCEPT !.expired = TRUE].email = x.email
  BY DEF Invitation
<1>4. UNCHANGED <<accounts, tokens, roleRows, joining, changing, snags>>
  BY DEF Expire
<1>5. invitations' \in [1..m -> Invitation]
  BY <1>1, <1>2, <1>3
<1>6. \A j \in 1..m : /\ invitations'[j].email = invitations[j].email
                      /\ invitations'[j].role = invitations[j].role
                      /\ invitations'[j].accepted = invitations[j].accepted
  BY <1>1, <1>2, <1>3
<1> QED BY <1>1, <1>4, <1>5, <1>6, InvitationsKeep

LEMMA UpdateStatusKeeps ==
    ASSUME AccountsInv, NEW a \in Administrators, NEW u \in UserIds,
           NEW status \in {"active", "suspended"}, UpdateUserStatus(a, u, status)
    PROVE  AccountsInv'
<1> DEFINE c == [at |-> "status", user |-> u, status |-> status]
<1>1. u \in Nat
  BY DEF AccountsInv, AccountTypes, UserIds
<1>2. c \in Changing /\ c.at = "status" /\ c.user = u /\ c.status # "none"
  BY <1>1 DEF Changing
<1>3. changing' = [changing EXCEPT ![a] = c]
  BY DEF UpdateUserStatus
<1>4. UNCHANGED <<accounts, invitations, tokens, roleRows, joining, snags>>
  BY DEF UpdateUserStatus
<1>5. "rival" \notin snags =>
          /\ u # a /\ accounts[a].status = "active"
          /\ \A b \in Administrators : changing[b] = NotChanging
  BY DEF UpdateUserStatus, Authorised, Validate
<1> HIDE DEF c
<1> QED BY <1>2, <1>3, <1>4, <1>5, ChangingKeeps

LEMMA SetStatusKeeps ==
    ASSUME AccountsInv, NEW a \in Administrators, SetStatus(a) PROVE AccountsInv'
<1> DEFINE c == changing[a]
<1>1. PICK n \in Nat : n >= 2 /\ accounts \in [1..n -> Account]
  BY DEF AccountsInv, AccountTypes
<1>2. /\ c.at = "status" /\ c.user \in 1..n /\ c.status \in {"active", "suspended"}
      /\ UNCHANGED <<invitations, tokens, roleRows, joining, snags>>
  BY <1>1 DEF SetStatus, AccountsInv, AccountTypes, Changing, UserIds
<1>3. accounts' = [accounts EXCEPT ![c.user] = [accounts[c.user] EXCEPT !.status = c.status]]
  BY DEF SetStatus
<1>4. changing' = [changing EXCEPT ![a] = NotChanging]
  BY DEF SetStatus
<1> HIDE DEF c
<1>5. \A x \in Account : LET y == [x EXCEPT !.status = c.status]
                         IN  /\ y \in Account /\ y.status = c.status
                             /\ y.email = x.email /\ y.by = x.by /\ y.roles = x.roles
  BY <1>2 DEF Account
<1>6. /\ accounts' \in [1..n -> Account]
      /\ \A u \in 1..n : /\ accounts'[u].email = accounts[u].email
                         /\ accounts'[u].by = accounts[u].by
                         /\ accounts'[u].roles = accounts[u].roles
                         /\ u # c.user => accounts'[u] = accounts[u]
  BY <1>1, <1>2, <1>3, <1>5
<1>7. /\ changing' \in [Administrators -> Changing]
      /\ \A b \in Administrators : changing'[b] = IF b = a THEN NotChanging ELSE changing[b]
      /\ NotChanging.at = "idle"
  BY <1>4 DEF AccountsInv, AccountTypes, Changing, NotChanging
<1>8. UserIds = 1..n /\ UserIds' = 1..n
  BY <1>1, <1>6 DEF UserIds
<1>9. AccountTypes'
  BY <1>1, <1>2, <1>6, <1>7, <1>8 DEF AccountsInv, AccountTypes
<1>10. OneEach'
  BY <1>2, <1>6, <1>8 DEF AccountsInv, OneEach
<1>11. RolesFit'
  <2>1. \A u \in UserIds : MadeWith(u)' = MadeWith(u)
    BY <1>2, <1>6, <1>8 DEF MadeWith
  <2> QED BY <1>2, <1>6, <1>8, <2>1 DEF AccountsInv, RolesFit
<1>12. "rename" \notin snags' => InvitationsFit'
  BY <1>2, <1>6, <1>8 DEF AccountsInv, InvitationsFit
<1>13. ASSUME "rival" \notin snags' PROVE AdministratorsFit'
  <2>1. AdministratorsFit /\ a \in 1..n
    BY <1>1, <1>2, <1>13 DEF AccountsInv, Administrators
  <2>2. c # NotChanging
    BY <1>2, <1>7
  <2>3. /\ c.user # a /\ accounts[a].status = "active"
        /\ \A b \in Administrators \ {a} : changing[b] = NotChanging
    BY <2>1, <2>2 DEF AdministratorsFit, c
  <2>4. accounts'[a].status = "active"
    BY <1>6, <2>1, <2>3
  <2> QED BY <1>7, <2>3, <2>4 DEF AdministratorsFit
<1> QED BY <1>9, <1>10, <1>11, <1>12, <1>13 DEF AccountsInv

LEMMA RenameKeeps ==
    ASSUME AccountsInv, NEW a \in Administrators, NEW u \in UserIds, NEW email \in Emails,
           UpdateUserByAdmin(a, u, email)
    PROVE  AccountsInv'
<1>1. PICK n \in Nat : n >= 2 /\ accounts \in [1..n -> Account]
  BY DEF AccountsInv, AccountTypes
<1>2. /\ "rename" \in snags /\ u \in 1..n
      /\ \A v \in UserIds : accounts[v].email # email
      /\ UNCHANGED <<invitations, tokens, roleRows, joining, changing, snags>>
  BY <1>1 DEF UpdateUserByAdmin, FindByEmail, UserIds
<1>3. accounts' = [accounts EXCEPT ![u] = [accounts[u] EXCEPT !.email = email]]
  BY DEF UpdateUserByAdmin
<1>4. \A x \in Account : LET y == [x EXCEPT !.email = email]
                         IN  /\ y \in Account /\ y.email = email
                             /\ y.status = x.status /\ y.by = x.by /\ y.roles = x.roles
  BY DEF Account
<1>5. /\ accounts' \in [1..n -> Account]
      /\ \A v \in 1..n : /\ accounts'[v].email = IF v = u THEN email ELSE accounts[v].email
                         /\ accounts'[v].by = accounts[v].by
                         /\ accounts'[v].roles = accounts[v].roles
                         /\ accounts'[v].status = accounts[v].status
  BY <1>1, <1>2, <1>3, <1>4
<1>6. UserIds = 1..n /\ UserIds' = 1..n
  BY <1>1, <1>5 DEF UserIds
<1>7. AccountTypes'
  BY <1>1, <1>2, <1>5, <1>6 DEF AccountsInv, AccountTypes
<1>8. OneEach'
  BY <1>2, <1>5, <1>6 DEF AccountsInv, OneEach
<1>9. RolesFit'
  <2>1. \A v \in UserIds : MadeWith(v)' = MadeWith(v)
    BY <1>2, <1>5, <1>6 DEF MadeWith
  <2> QED BY <1>2, <1>5, <1>6, <2>1 DEF AccountsInv, RolesFit
<1>10. "rival" \notin snags' => AdministratorsFit'
  <2>1. \A b \in Administrators : accounts'[b].status = accounts[b].status
    BY <1>1, <1>5 DEF Administrators
  <2> QED BY <1>2, <2>1 DEF AccountsInv, AdministratorsFit
<1> QED BY <1>2, <1>7, <1>8, <1>9, <1>10 DEF AccountsInv

LEMMA DeleteRoleKeeps ==
    ASSUME AccountsInv, NEW a \in Administrators, NEW role \in roleRows, DeleteRoleRow(a, role)
    PROVE  AccountsInv'
<1>1. PICK n \in Nat : n >= 2 /\ accounts \in [1..n -> Account]
  BY DEF AccountsInv, AccountTypes
<1>2. PICK m \in Nat : invitations \in [1..m -> Invitation]
  BY DEF AccountsInv, AccountTypes
<1>3. /\ roleRows' = roleRows \ {role}
      /\ UNCHANGED <<tokens, joining, changing, snags>>
  BY DEF DeleteRoleRow
<1>4. accounts' = [u \in 1..n |-> [accounts[u] EXCEPT !.roles = accounts[u].roles \ {role}]]
  BY <1>1 DEF DeleteRoleRow, UserIds
<1>5. invitations' = [i \in 1..m |-> IF invitations[i].role = role
                                     THEN [invitations[i] EXCEPT !.role = "none"] ELSE invitations[i]]
  BY <1>2 DEF DeleteRoleRow
<1>6. \A x \in Account : LET y == [x EXCEPT !.roles = x.roles \ {role}]
                         IN  /\ y \in Account /\ y.roles = x.roles \ {role}
                             /\ y.email = x.email /\ y.status = x.status /\ y.by = x.by
  BY DEF Account
<1>7. \A x \in Invitation : LET y == [x EXCEPT !.role = "none"]
                            IN  /\ y \in Invitation /\ y.role = "none"
                                /\ y.email = x.email /\ y.accepted = x.accepted
  BY DEF Invitation
<1>8. /\ accounts' \in [1..n -> Account]
      /\ \A u \in 1..n : /\ accounts'[u].email = accounts[u].email
                         /\ accounts'[u].by = accounts[u].by
                         /\ accounts'[u].status = accounts[u].status
                         /\ accounts'[u].roles = accounts[u].roles \ {role}
  BY <1>1, <1>4, <1>6
<1>9. /\ invitations' \in [1..m -> Invitation]
      /\ \A i \in 1..m : /\ invitations'[i].email = invitations[i].email
                         /\ invitations'[i].accepted = invitations[i].accepted
                         /\ invitations'[i].role = IF invitations[i].role = role THEN "none"
                                                   ELSE invitations[i].role
  BY <1>2, <1>5, <1>7
<1>10. /\ UserIds = 1..n /\ UserIds' = 1..n
       /\ DOMAIN invitations = 1..m /\ DOMAIN invitations' = 1..m
  BY <1>1, <1>2, <1>8, <1>9 DEF UserIds
<1>11. /\ \A u \in 1..n : accounts[u].by \in 1..m \cup {0}
       /\ \A p \in People : joining[p].at = "make" => joining[p].invitation \in 1..m \cup {0}
  BY <1>10 DEF AccountsInv, AccountTypes
<1>12. AccountTypes'
  BY <1>1, <1>3, <1>8, <1>9, <1>10 DEF AccountsInv, AccountTypes
<1>13. OneEach'
  BY <1>3, <1>8, <1>10 DEF AccountsInv, OneEach
<1>14. RolesFit'
  <2>1. \A u \in 1..n : MadeWith(u)' = MadeWith(u) \/ MadeWith(u)' = "none"
    BY <1>8, <1>9, <1>11 DEF MadeWith, Administrators
  <2>2. \A u \in 1..n : MadeWith(u)' \in roleRows' => MadeWith(u)' \in accounts'[u].roles
    BY <1>3, <1>8, <1>10, <2>1 DEF AccountsInv, RolesFit
  <2>3. \A p \in People : joining[p].at = "make" =>
            IF joining[p].invitation = 0 THEN joining[p].role = "STUDENT"
            ELSE invitations'[joining[p].invitation].role \in {joining[p].role, "none"}
    BY <1>9, <1>11 DEF AccountsInv, RolesFit
  <2> QED BY <1>3, <1>10, <2>2, <2>3 DEF AccountsInv, RolesFit
<1>15. ASSUME "rename" \notin snags' PROVE InvitationsFit'
  <2>0. InvitationsFit
    BY <1>3, <1>15 DEF AccountsInv
  <2>1. \A u \in 1..n : accounts'[u].by # 0 =>
            /\ invitations'[accounts'[u].by].accepted
            /\ accounts'[u].email = invitations'[accounts'[u].by].email
    BY <1>8, <1>9, <1>10, <1>11, <2>0 DEF InvitationsFit
  <2>2. \A i \in 1..m : invitations'[i].accepted => \E u \in 1..n : accounts'[u].by = i
    BY <1>8, <1>9, <1>10, <2>0 DEF InvitationsFit
  <2>3. \A p \in People : joining[p].at = "make" /\ joining[p].invitation # 0 =>
            joining[p].email = invitations'[joining[p].invitation].email
    BY <1>9, <1>11, <2>0 DEF InvitationsFit
  <2> QED BY <1>3, <1>10, <2>1, <2>2, <2>3 DEF InvitationsFit
<1>16. "rival" \notin snags' => AdministratorsFit'
  <2>1. \A b \in Administrators : accounts'[b].status = accounts[b].status
    BY <1>1, <1>8 DEF Administrators
  <2> QED BY <1>3, <2>1 DEF AccountsInv, AdministratorsFit
<1> QED BY <1>12, <1>13, <1>14, <1>15, <1>16 DEF AccountsInv

LEMMA AccountsStep == AccountsInv /\ [AccountsNext]_accountVars => AccountsInv'
<1> SUFFICES ASSUME AccountsInv, [AccountsNext]_accountVars PROVE AccountsInv'
  OBVIOUS
<1>1. CASE UNCHANGED accountVars
  BY <1>1, LoginKeeps DEF accountVars
<1>2. CASE Tick
  BY <1>2, LoginKeeps DEF Tick
<1>3. ASSUME NEW u \in UserIds, Login(u) PROVE AccountsInv'
  BY <1>3, LoginKeeps DEF Login
<1>4. CASE JoinNext
  BY <1>2, <1>3, <1>4, RegisterKeeps, AcceptKeeps, MakeKeeps, FailKeeps, ExpireKeeps, InviteKeeps,
     RenameKeeps, DeleteRoleKeeps DEF JoinNext
<1>5. CASE StatusNext
  BY <1>5, UpdateStatusKeeps, SetStatusKeeps DEF StatusNext
<1> QED BY <1>1, <1>4, <1>5 DEF AccountsNext

LEMMA AccountsStart == AccountsInit => AccountsInv
<1> SUFFICES ASSUME AccountsInit PROVE AccountsInv
  OBVIOUS
<1>1. /\ accounts \in [1..2 -> Account]
      /\ \A u \in 1..2 : /\ accounts[u].email = IF u = 1 THEN "admin" ELSE "deputy"
                         /\ accounts[u].by = 0 /\ accounts[u].status = "active"
  BY DEF AccountsInit, Administrators, Account, AllRoles
<1>2. UserIds = 1..2 /\ Administrators = 1..2
  BY <1>1 DEF UserIds, Administrators
<1>3. invitations \in [1..0 -> Invitation] /\ DOMAIN invitations = {}
  BY DEF AccountsInit
<1>4. /\ joining \in [People -> Joining] /\ \A p \in People : joining[p].at = "idle"
      /\ changing \in [Administrators -> Changing]
      /\ \A a \in Administrators : changing[a] = NotChanging /\ changing[a].at = "idle"
  BY DEF AccountsInit, NotJoining, Joining, NotChanging, Changing
<1>5. AccountTypes
  BY <1>1, <1>2, <1>3, <1>4 DEF AccountTypes
<1>6. OneEach
  <2>1. \A u \in 1..2 : <<u, 0>> \in tokens /\ <<u, 0>>[1] = u
    BY <1>2, MaxSecondsAssumption DEF AccountsInit
  <2> QED BY <1>1, <1>2, <2>1 DEF OneEach
<1>7. RolesFit
  BY <1>2, <1>4, RolesAssumption DEF AccountsInit, RolesFit, MadeWith
<1>8. InvitationsFit
  BY <1>1, <1>2, <1>3, <1>4 DEF InvitationsFit
<1>9. AdministratorsFit
  BY <1>1, <1>2, <1>4 DEF AdministratorsFit
<1> QED BY <1>5, <1>6, <1>7, <1>8, <1>9 DEF AccountsInv

\* However registrations and acceptances overlap, roles are deleted and transactions fail, there is
\* one account for an address, with a token and its role while that exists; an invitation is
\* accepted if and only if it made one account, unless an address was changed; and an
\* administrator is left, unless administrators suspend themselves or each other at once or delete
\* the role that makes them so.
THEOREM AccountsStaySound == AccountsSpec => []AccountsAreSound
<1>1. AccountsInv => AccountsAreSound
  <2> SUFFICES ASSUME AccountsInv PROVE AccountsAreSound
    OBVIOUS
  <2>1. ASSUME NEW u \in UserIds
        PROVE  /\ FindByEmail(accounts[u].email) = {u}
               /\ \E t \in tokens : t[1] = u
               /\ MadeWith(u) \in roleRows => MadeWith(u) \in accounts[u].roles
    BY DEF AccountsInv, OneEach, RolesFit, FindByEmail
  <2>2. ASSUME "rename" \notin snags, NEW i \in DOMAIN invitations
        PROVE  Cardinality(MadeBy(i)) = IF invitations[i].accepted THEN 1 ELSE 0
    <3>1. InvitationsFit /\ i # 0
      BY <2>2 DEF AccountsInv, AccountTypes
    <3>2. CASE invitations[i].accepted
      <4>1. PICK u \in UserIds : accounts[u].by = i
        BY <3>1, <3>2 DEF InvitationsFit
      <4>2. \A v \in UserIds : accounts[v].by = i => v = u
        BY <3>1, <4>1 DEF InvitationsFit, AccountsInv, OneEach
      <4>3. MadeBy(i) = {u}
        BY <4>1, <4>2 DEF MadeBy
      <4> QED BY <3>2, <4>3, FS_Singleton
    <3>3. CASE ~invitations[i].accepted
      <4>1. MadeBy(i) = {}
        BY <3>1, <3>3 DEF MadeBy, InvitationsFit
      <4> QED BY <3>3, <4>1, FS_EmptySet
    <3> QED BY <3>2, <3>3
  <2>3. ASSUME "rival" \notin snags, "SYSTEM_ADMIN" \in roleRows
        PROVE  \E a \in Administrators : Authorised(a)
    <3>1. PICK a \in Administrators : accounts[a].status = "active"
      BY <2>3 DEF AccountsInv, AdministratorsFit
    <3>2. a \in UserIds /\ MadeWith(a) = "SYSTEM_ADMIN"
      BY <3>1 DEF AccountsInv, AccountTypes, UserIds, Administrators, MadeWith
    <3>3. "SYSTEM_ADMIN" \in accounts[a].roles
      BY <2>3, <3>2 DEF AccountsInv, RolesFit
    <3> QED BY <3>1, <3>2, <3>3 DEF Authorised, Validate
  <2> QED BY <2>1, <2>2, <2>3 DEF AccountsAreSound
<1> QED BY <1>1, AccountsStart, AccountsStep, PTL DEF AccountsSpec

-----------------------------------------------------------------------------
(* Scores. *)

ScoredRow == [points : Points, by : Evaluators, project : BOOLEAN]
Score == ScoredRow \cup {NoScore}
Submission == [at : {"idle", "insert", "upsert"}, project : BOOLEAN,
               left : Seq(Entries), written : Seq(Entries)]

ScoreTypes ==
    /\ scores \in [Cells -> Score]
    /\ submit \in [Evaluators -> Submission]

\* The rubrics that every list scores for all the students alike, or not at all.
EvenRubrics == Rubrics \ uneven
Even(X, r) == OfRubric(X, r) = {} \/ Whole(X, r)

ListOf(e) == Range(submit[e].left) \cup Range(submit[e].written)
Transactions == \A e \in Evaluators : submit[e].at = "insert" => \A r \in EvenRubrics : Even(ListOf(e), r)

Uniform(r) == \A s, t \in Students : scores[r, s] = scores[r, t]

\* What a statement of its own makes of a row.
Rescored(e, n, x) == [points |-> n, by |-> e, project |-> submit[e].project \/ x.project]

\* Statements in parallel turn the rows of their rubric, which were alike, into rows that are alike.
HalfWritten(e, r) ==
    \E x \in Score, n \in Points :
        /\ \A y \in OfRubric(Range(submit[e].left), r) : y.points = n
        /\ \A s \in Students :
            \/ scores[r, s] = Rescored(e, n, x)
            \/ scores[r, s] = x /\ [cell |-> <<r, s>>, points |-> n] \in Range(submit[e].left)

\* They are not of this rubric, or have written a part of it.
InPart(e, r) ==
    \/ Uniform(r) /\ OfRubric(Range(submit[e].left), r) = {}
    \/ HalfWritten(e, r)

ScoresFit ==
    /\ \A e \in Evaluators : Parallel(e) => Alone(e) /\ \A r \in EvenRubrics : InPart(e, r)
    /\ (\A e \in Evaluators : ~Parallel(e)) => \A r \in EvenRubrics : Uniform(r)

ScoresInv == ScoreTypes /\ Transactions /\ ("parallel" \notin trouble => ScoresFit)

LEMMA NoScoreIsNobodys == NoScore.by \notin Evaluators /\ NoScore.project = FALSE
BY EvaluationsAssumption DEF NoScore

LEMMA RescoredIsScore ==
    ASSUME NEW e \in Evaluators, submit[e] \in Submission, NEW n \in Points, NEW x \in Score
    PROVE  /\ Rescored(e, n, x) \in ScoredRow
           /\ Rescored(e, n, Rescored(e, n, x)) = Rescored(e, n, x)
<1>1. x.project \in BOOLEAN
  <2>1. CASE x \in ScoredRow
    BY <2>1 DEF ScoredRow
  <2>2. CASE x = NoScore
    BY <2>2, NoScoreIsNobodys
  <2> QED BY <2>1, <2>2 DEF Score
<1>2. submit[e].project \in BOOLEAN
  BY DEF Submission
<1> QED BY <1>1, <1>2 DEF Rescored, ScoredRow

LEMMA CellsOfStudents ==
    ASSUME NEW r \in Rubrics, NEW s \in Students PROVE <<r, s>> \in Cells
BY DEF Cells

\* Of a set of natural numbers the least, and if it is bounded the greatest.
LEMMA LeastNumber ==
    ASSUME NEW S \in SUBSET Nat, S # {}
    PROVE  \E x \in S : \A y \in S : x <= y
<1>1. PICK x \in S : \A y \in S : ~(<<y, x>> \in OpToRel(<, Nat))
  BY NatLessThanWellFounded, WFMin
<1>2. \A y \in S : ~(y < x)
  BY <1>1 DEF OpToRel
<1> QED BY <1>2

LEMMA GreatestNumber ==
    ASSUME NEW S \in SUBSET Nat, S # {}, NEW bound \in Nat, \A x \in S : x <= bound
    PROVE  \E x \in S : \A y \in S : y <= x
<1> DEFINE below == {bound - x : x \in S}
<1>1. below \in SUBSET Nat /\ below # {}
  <2>1. \A x \in S : bound - x \in Nat /\ bound - x \in below
    OBVIOUS
  <2> QED BY <2>1
<1>2. PICK least \in below : \A z \in below : least <= z
  BY <1>1, LeastNumber
<1>3. PICK x \in S : least = bound - x
  BY <1>2
<1>4. ASSUME NEW y \in S PROVE y <= x
  <2>1. bound - x <= bound - y
    BY <1>2, <1>3
  <2> QED BY <2>1
<1> QED BY <1>4

LEMMA TailKeeps ==
    ASSUME NEW S, NEW q \in Seq(S), q # <<>>
    PROVE  /\ Tail(q) \in Seq(S)
           /\ Range(q) = Range(Tail(q)) \cup {Head(q)}
<1>1. Len(q) \in Nat /\ Len(q) > 0 /\ DOMAIN q = 1..Len(q)
  OBVIOUS
<1>2. /\ Tail(q) \in Seq(S) /\ Len(Tail(q)) = Len(q) - 1 /\ DOMAIN Tail(q) = 1..(Len(q) - 1)
      /\ \A i \in 1..(Len(q) - 1) : Tail(q)[i] = q[i + 1]
      /\ Head(q) = q[1]
  BY <1>1
<1>3. ASSUME NEW i \in 1..Len(q) PROVE q[i] \in Range(Tail(q)) \cup {Head(q)}
  <2>1. CASE i = 1
    BY <1>2, <2>1
  <2>2. CASE i # 1
    <3>1. i - 1 \in 1..(Len(q) - 1) /\ q[i] = Tail(q)[i - 1]
      BY <1>1, <1>2, <2>2
    <3> QED BY <1>2, <3>1 DEF Range
  <2> QED BY <2>1, <2>2
<1>4. ASSUME NEW i \in 1..(Len(q) - 1) PROVE Tail(q)[i] \in Range(q)
  <2>1. i + 1 \in 1..Len(q)
    BY <1>1
  <2> QED BY <1>1, <1>2, <2>1 DEF Range
<1>5. Head(q) \in Range(q)
  BY <1>1, <1>2 DEF Range
<1>6. Range(q) \subseteq Range(Tail(q)) \cup {Head(q)}
  BY <1>1, <1>3 DEF Range
<1>7. Range(Tail(q)) \subseteq Range(q)
  BY <1>2, <1>4 DEF Range
<1> QED BY <1>2, <1>5, <1>6, <1>7

LEMMA RemoveKeeps ==
    ASSUME NEW S, NEW q \in Seq(S), NEW i \in DOMAIN q
    PROVE  /\ RemoveAt(q, i) \in Seq(S)
           /\ Range(RemoveAt(q, i)) \subseteq Range(q)
           /\ Range(q) \subseteq Range(RemoveAt(q, i)) \cup {q[i]}
<1>1. /\ Len(q) \in Nat /\ DOMAIN q = 1..Len(q) /\ i \in 1..Len(q)
      /\ \A k \in 1..Len(q) : q[k] \in S
  OBVIOUS
<1> DEFINE a == SubSeq(q, 1, i - 1)
           b == SubSeq(q, i + 1, Len(q))
<1>2. /\ a \in Seq(S) /\ Len(a) = i - 1
      /\ \A k \in 1..(i - 1) : a[k] = q[k]
  BY <1>1, SubSeqProperties
<1>3. /\ b \in Seq(S) /\ Len(b) = Len(q) - i
      /\ \A k \in 1..(Len(q) - i) : b[k] = q[k + i]
  BY <1>1, SubSeqProperties
<1>4. RemoveAt(q, i) = a \o b
  BY DEF RemoveAt
<1> HIDE DEF a, b
<1>5. RemoveAt(q, i) \in Seq(S) /\ Range(RemoveAt(q, i)) = Range(a) \cup Range(b)
  BY <1>2, <1>3, <1>4, RangeConcatenation, ConcatProperties
<1>6. DOMAIN a = 1..(i - 1) /\ DOMAIN b = 1..(Len(q) - i)
  BY <1>2, <1>3
<1>7. ASSUME NEW k \in 1..(i - 1) PROVE a[k] \in Range(q)
  BY <1>1, <1>2 DEF Range
<1>8. ASSUME NEW k \in 1..(Len(q) - i) PROVE b[k] \in Range(q)
  <2>1. k + i \in 1..Len(q)
    BY <1>1
  <2> QED BY <1>1, <1>3, <2>1 DEF Range
<1>9. ASSUME NEW k \in 1..Len(q), k # i PROVE q[k] \in Range(a) \cup Range(b)
  <2>1. CASE k < i
    <3>1. k \in 1..(i - 1)
      BY <1>1, <2>1
    <3> QED BY <1>2, <1>6, <3>1 DEF Range
  <2>2. CASE k > i
    <3>1. k - i \in 1..(Len(q) - i) /\ (k - i) + i = k
      BY <1>1, <2>2
    <3> QED BY <1>3, <1>6, <3>1 DEF Range
  <2> QED BY <1>1, <1>9, <2>1, <2>2
<1>10. Range(a) \subseteq Range(q) /\ Range(b) \subseteq Range(q)
  BY <1>6, <1>7, <1>8 DEF Range
<1>11. Range(q) \subseteq Range(a) \cup Range(b) \cup {q[i]}
  BY <1>1, <1>9 DEF Range
<1> QED BY <1>5, <1>10, <1>11

LEMMA AppendAdds ==
    ASSUME NEW S, NEW q \in Seq(S), NEW x \in S
    PROVE  Append(q, x) \in Seq(S) /\ Range(Append(q, x)) = Range(q) \cup {x}
<1>1. Append(q, x) = q \o <<x>> /\ <<x>> \in Seq(S)
  OBVIOUS
<1>2. Range(<<x>>) = {x}
  BY DEF Range
<1>3. Append(q, x) \in Seq(S)
  BY AppendProperties
<1>4. Range(q \o <<x>>) = Range(q) \cup Range(<<x>>)
  BY <1>1, RangeConcatenation
<1> QED BY <1>1, <1>2, <1>3, <1>4

LEMMA NobodySubmits ==
    /\ NotSubmitting \in Submission /\ NotSubmitting.at = "idle"
    /\ Range(NotSubmitting.left) = {}
BY DEF NotSubmitting, Submission, Range

\* A whole rubric has an entry for each student, all with the same points.
LEMMA WholeRubric ==
    ASSUME NEW X \in SUBSET Entries, NEW r \in Rubrics, Whole(X, r)
    PROVE  \E n \in Points :
               /\ \A y \in OfRubric(X, r) : y.points = n
               /\ \A s \in Students : [cell |-> <<r, s>>, points |-> n] \in X
<1>1. PICK n \in Points : OfRubric(X, r) = [cell : {r} \X Students, points : {n}]
  BY DEF Whole
<1>2. \A s \in Students : [cell |-> <<r, s>>, points |-> n] \in OfRubric(X, r)
  BY <1>1
<1>3. \A y \in OfRubric(X, r) : y.points = n
  BY <1>1
<1> QED BY <1>2, <1>3 DEF OfRubric

\* A list begins: the rows are alike then.
LEMMA BeginKeeps ==
    ASSUME ScoresInv, NEW e \in Evaluators, NEW b \in Batches, NEW at \in {"insert", "upsert"},
           Begin(e, b, at), at = "upsert" /\ "parallel" \notin trouble => Alone(e)
    PROVE  ScoresInv'
<1> DEFINE q == [at |-> at, project |-> project # "none", left |-> b, written |-> <<>>]
<1>1. b \in Seq(Entries) /\ Range(b) \subseteq Entries
  BY EvaluationsAssumption, RangeOfSeq
<1>2. q \in Submission /\ q.at = at /\ q.left = b /\ q.written = <<>>
  BY <1>1 DEF Submission
<1>3. /\ submit' = [submit EXCEPT ![e] = q] /\ UNCHANGED <<scores, trouble>>
      /\ uneven' = uneven \cup Uneven(b)
  BY DEF Begin, proposalVars
<1>4. submit[e] = NotSubmitting
  BY DEF Begin
<1> HIDE DEF q
<1>5. \A f \in Evaluators : submit'[f] = IF f = e THEN q ELSE submit[f]
  BY <1>3 DEF ScoresInv, ScoreTypes
<1>6. ScoreTypes'
  BY <1>2, <1>3 DEF ScoresInv, ScoreTypes
<1>7. EvenRubrics' \subseteq EvenRubrics /\ \A r \in EvenRubrics' : Even(Range(b), r)
  BY <1>3 DEF EvenRubrics, Uneven, Even
<1>8. Transactions'
  <2>1. ListOf(e)' = Range(b)
    BY <1>2, <1>5 DEF ListOf, Range
  <2>2. \A f \in Evaluators : f # e => submit'[f] = submit[f] /\ ListOf(f)' = ListOf(f)
    BY <1>5 DEF ListOf
  <2> QED BY <1>7, <2>1, <2>2 DEF ScoresInv, Transactions
<1>9. ASSUME "parallel" \notin trouble' PROVE ScoresFit'
  <2>1. /\ \A f \in Evaluators : submit[f].at # "upsert"
        /\ \A r \in EvenRubrics : Uniform(r)
    BY <1>3, <1>9 DEF ScoresInv, ScoresFit, Begin, Parallel
  <2>2. ASSUME NEW r \in EvenRubrics' PROVE Uniform(r)'
    BY <1>3, <1>7, <2>1 DEF Uniform
  <2>3. ASSUME NEW f \in Evaluators, Parallel(f)'
        PROVE  Alone(f)' /\ \A r \in EvenRubrics' : InPart(f, r)'
    <3>1. f = e /\ at = "upsert"
      BY <1>2, <1>5, <2>1, <2>3 DEF Parallel
    <3>2. Alone(f)'
      BY <1>3, <1>5, <1>9, <3>1 DEF Alone
    <3>3. ASSUME NEW r \in EvenRubrics' PROVE InPart(e, r)'
      <4>0. submit'[e].left = b /\ r \in Rubrics
        BY <1>2, <1>5, <3>3 DEF EvenRubrics
      <4>1. CASE OfRubric(Range(b), r) = {}
        BY <2>2, <3>3, <4>0, <4>1 DEF InPart
      <4>2. CASE Whole(Range(b), r)
        <5>1. PICK t : t \in Students
          BY StudentsAssumption
        <5>2. PICK x \in Score : x = scores[r, t]
          BY <4>0, <5>1, CellsOfStudents DEF ScoresInv, ScoreTypes
        <5>3. \A s \in Students : scores'[r, s] = x
          BY <1>3, <1>7, <2>1, <3>3, <5>1, <5>2 DEF Uniform
        <5>4. PICK n \in Points :
                  /\ \A y \in OfRubric(Range(b), r) : y.points = n
                  /\ \A s \in Students : [cell |-> <<r, s>>, points |-> n] \in Range(b)
          BY <1>1, <4>0, <4>2, WholeRubric
        <5>5. HalfWritten(e, r)'
          BY <4>0, <5>3, <5>4 DEF HalfWritten
        <5> QED BY <5>5 DEF InPart
      <4> QED BY <1>7, <3>3, <4>1, <4>2 DEF Even
    <3> QED BY <3>1, <3>2, <3>3
  <2> QED BY <2>2, <2>3 DEF ScoresFit
<1> QED BY <1>6, <1>8, <1>9 DEF ScoresInv

\* A step that touches neither the rows nor the list of f leaves its rubrics as they are.
LEMMA InPartStays ==
    ASSUME NEW f \in Evaluators, NEW r \in Rubrics, scores' = scores, submit'[f] = submit[f],
           InPart(f, r)
    PROVE  InPart(f, r)'
<1>1. CASE HalfWritten(f, r)
  <2>1. PICK x \in Score, n \in Points :
            /\ \A y \in OfRubric(Range(submit[f].left), r) : y.points = n
            /\ \A s \in Students :
                \/ scores[r, s] = Rescored(f, n, x)
                \/ scores[r, s] = x /\ [cell |-> <<r, s>>, points |-> n] \in Range(submit[f].left)
    BY <1>1 DEF HalfWritten
  <2>2. Rescored(f, n, x)' = Rescored(f, n, x)
    BY DEF Rescored
  <2>3. HalfWritten(f, r)'
    BY <2>1, <2>2 DEF HalfWritten
  <2> QED BY <2>3 DEF InPart
<1>2. CASE Uniform(r) /\ OfRubric(Range(submit[f].left), r) = {}
  <2>1. Uniform(r)' /\ OfRubric(Range(submit'[f].left), r) = {}
    BY <1>2 DEF Uniform
  <2> QED BY <2>1 DEF InPart
<1> QED BY <1>1, <1>2 DEF InPart

\* A list ends: in parallel, when all of it is written.
LEMMA EndKeeps ==
    ASSUME ScoresInv, NEW e \in Evaluators, submit' = [submit EXCEPT ![e] = NotSubmitting],
           UNCHANGED <<scores, uneven, trouble>>,
           "parallel" \notin trouble /\ Parallel(e) => submit[e].left = <<>>
    PROVE  ScoresInv'
<1>1. \A f \in Evaluators : submit'[f] = IF f = e THEN NotSubmitting ELSE submit[f]
  BY DEF ScoresInv, ScoreTypes
<1>2. ScoreTypes'
  BY NobodySubmits DEF ScoresInv, ScoreTypes
<1>3. EvenRubrics' = EvenRubrics /\ EvenRubrics \subseteq Rubrics
  BY DEF EvenRubrics
<1>4. Transactions'
  <2>1. \A f \in Evaluators : f # e => submit'[f] = submit[f] /\ ListOf(f)' = ListOf(f)
    BY <1>1 DEF ListOf
  <2> QED BY <1>1, <1>3, <2>1, NobodySubmits DEF ScoresInv, Transactions
<1>5. ASSUME "parallel" \notin trouble' PROVE ScoresFit'
  <2>0. ScoresFit /\ "parallel" \notin trouble
    BY <1>5 DEF ScoresInv
  <2>1. CASE Parallel(e)
    <3>1. submit[e].left = <<>> /\ Range(submit[e].left) = {}
      BY <2>0, <2>1 DEF Range
    <3>2. ASSUME NEW r \in EvenRubrics PROVE Uniform(r)
      <4>1. InPart(e, r)
        BY <2>0, <2>1 DEF ScoresFit
      <4>2. CASE HalfWritten(e, r)
        <5>1. PICK x \in Score, n \in Points : \A s \in Students : scores[r, s] = Rescored(e, n, x)
          BY <3>1, <4>2 DEF HalfWritten
        <5> QED BY <5>1 DEF Uniform
      <4> QED BY <4>1, <4>2 DEF InPart
    <3>3. \A f \in Evaluators : ~Parallel(f)'
      BY <1>1, <2>0, <2>1, NobodySubmits DEF ScoresFit, Alone, Parallel
    <3>4. \A r \in EvenRubrics : Uniform(r)'
      BY <3>2 DEF Uniform
    <3> QED BY <1>3, <3>3, <3>4 DEF ScoresFit
  <2>2. CASE ~Parallel(e)
    <3>1. \A f \in Evaluators : Parallel(f)' => Parallel(f) /\ f # e /\ submit'[f] = submit[f]
      BY <1>1, NobodySubmits DEF Parallel
    <3>2. \A f \in Evaluators : Alone(f) => Alone(f)'
      BY <1>1 DEF Alone
    <3>3. \A f \in Evaluators, r \in EvenRubrics : f # e /\ InPart(f, r) => InPart(f, r)'
      BY <1>1, <1>3, InPartStays
    <3>4. (\A f \in Evaluators : ~Parallel(f)') => \A f \in Evaluators : ~Parallel(f)
      BY <1>1, <2>2 DEF Parallel
    <3>5. \A r \in EvenRubrics : Uniform(r) => Uniform(r)'
      BY DEF Uniform
    <3> QED BY <1>3, <2>0, <3>1, <3>2, <3>3, <3>4, <3>5 DEF ScoresFit
  <2> QED BY <2>1, <2>2
<1> QED BY <1>2, <1>4, <1>5 DEF ScoresInv

LEMMA InsertKeeps ==
    ASSUME ScoresInv, NEW e \in Evaluators, InsertScore(e) PROVE ScoresInv'
<1>0. /\ submit[e] \in Submission /\ submit[e].at = "insert" /\ submit[e].left # <<>>
      /\ UNCHANGED <<scores, uneven, trouble>>
  BY DEF InsertScore, ScoresInv, ScoreTypes
<1>1. /\ submit[e].left \in Seq(Entries) /\ Tail(submit[e].left) \in Seq(Entries)
      /\ Range(submit[e].left) = Range(Tail(submit[e].left)) \cup {Head(submit[e].left)}
      /\ Range(submit[e].left) \subseteq Entries
  BY <1>0, TailKeeps, RangeOfSeq DEF Submission
<1>2. /\ submit[e].written \in Seq(Entries)
      /\ Append(submit[e].written, Head(submit[e].left)) \in Seq(Entries)
      /\ Range(Append(submit[e].written, Head(submit[e].left)))
             = Range(submit[e].written) \cup {Head(submit[e].left)}
  BY <1>0, <1>1, AppendAdds DEF Submission
<1> DEFINE q == [submit[e] EXCEPT !.left = Tail(submit[e].left),
                                  !.written = Append(submit[e].written, Head(submit[e].left))]
<1>3. /\ q \in Submission /\ q.at = "insert" /\ q.left = Tail(submit[e].left)
      /\ q.written = Append(submit[e].written, Head(submit[e].left))
  BY <1>0, <1>1, <1>2 DEF Submission
<1>4. submit' = [submit EXCEPT ![e] = q]
  BY DEF InsertScore
<1> HIDE DEF q
<1>5. \A f \in Evaluators : submit'[f] = IF f = e THEN q ELSE submit[f]
  BY <1>4 DEF ScoresInv, ScoreTypes
<1>6. ScoreTypes'
  BY <1>0, <1>3, <1>4 DEF ScoresInv, ScoreTypes
<1>7. EvenRubrics' = EvenRubrics
  BY <1>0 DEF EvenRubrics
<1>8. Transactions'
  <2>1. ListOf(e)' = ListOf(e)
    BY <1>1, <1>2, <1>3, <1>5 DEF ListOf
  <2>2. \A f \in Evaluators : f # e => submit'[f] = submit[f] /\ ListOf(f)' = ListOf(f)
    BY <1>5 DEF ListOf
  <2> QED BY <1>0, <1>7, <2>1, <2>2 DEF ScoresInv, Transactions
<1>9. ASSUME "parallel" \notin trouble' PROVE ScoresFit'
  <2>0. ScoresFit
    BY <1>0, <1>9 DEF ScoresInv
  <2>1. \A f \in Evaluators : ~Parallel(f)
    BY <1>0, <2>0, NobodySubmits DEF ScoresFit, Alone, Parallel
  <2>2. \A f \in Evaluators : ~Parallel(f)'
    BY <1>3, <1>5, <2>1 DEF Parallel
  <2> QED BY <1>0, <1>7, <2>0, <2>1, <2>2 DEF ScoresFit, Uniform
<1> QED BY <1>6, <1>8, <1>9 DEF ScoresInv

\* The last entry of a list for a cell.
LEMMA LastEntry ==
    ASSUME NEW w \in Seq(Entries), NEW c \in CellsOf(w),
           NEW i, i = CHOOSE k \in DOMAIN w : w[k].cell = c /\ \A j \in DOMAIN w : w[j].cell = c => j <= k
    PROVE  w[i] \in Range(w) /\ w[i] \in Entries /\ w[i].cell = c
<1>1. DOMAIN w = 1..Len(w) /\ Len(w) \in Nat
  OBVIOUS
<1> DEFINE S == {k \in DOMAIN w : w[k].cell = c}
<1>2. S \in SUBSET Nat /\ \A k \in S : k <= Len(w)
  BY <1>1
<1>3. S # {}
  <2>1. PICK x \in Range(w) : x.cell = c
    BY DEF CellsOf
  <2> QED BY <2>1 DEF Range
<1>4. \E k \in S : \A j \in S : j <= k
  BY <1>1, <1>2, <1>3, GreatestNumber
<1>5. \E k \in DOMAIN w : w[k].cell = c /\ \A j \in DOMAIN w : w[j].cell = c => j <= k
  BY <1>4
<1>6. i \in DOMAIN w /\ w[i].cell = c
  BY <1>5
<1>7. w[i] \in Range(w)
  BY <1>6 DEF Range
<1> QED BY <1>6, <1>7, RangeOfSeq

LEMMA CommitKeeps ==
    ASSUME ScoresInv, NEW e \in Evaluators, CommitScores(e) PROVE ScoresInv'
<1>0. /\ submit[e] \in Submission /\ submit[e].at = "insert" /\ submit[e].left = <<>>
      /\ submit' = [submit EXCEPT ![e] = NotSubmitting]
      /\ UNCHANGED <<uneven, trouble>>
      /\ scores \in [Cells -> Score]
  BY DEF CommitScores, ScoresInv, ScoreTypes
<1>1. \A f \in Evaluators : submit'[f] = IF f = e THEN NotSubmitting ELSE submit[f]
  BY <1>0 DEF ScoresInv, ScoreTypes
<1> DEFINE w == submit[e].written
           last(c) == CHOOSE i \in DOMAIN w :
                          w[i].cell = c /\ \A j \in DOMAIN w : w[j].cell = c => j <= i
           entry(c) == w[last(c)]
<1>2. scores' = [c \in Cells |-> IF c \in CellsOf(w) THEN Scored(entry(c), e) ELSE scores[c]]
  BY DEF CommitScores
<1>3. w \in Seq(Entries) /\ Range(w) \subseteq Entries
  BY <1>0, RangeOfSeq DEF Submission
<1>4. \A c \in CellsOf(w) : entry(c) \in Range(w) /\ entry(c) \in Entries /\ entry(c).cell = c
  BY <1>3, LastEntry
<1>5. ListOf(e) = Range(w)
  BY <1>0 DEF ListOf, Range
<1> HIDE DEF w, entry
<1>6. ASSUME NEW c \in Cells, c \in CellsOf(w) PROVE Scored(entry(c), e) \in ScoredRow
  <2>1. entry(c).points \in Points /\ entry(c).cell = c
    BY <1>4, <1>6 DEF Entries
  <2>2. submit[e].project \in BOOLEAN
    BY <1>0 DEF Submission
  <2>3. [points |-> entry(c).points, by |-> e, project |-> submit[e].project] \in ScoredRow
    BY <2>1, <2>2 DEF ScoredRow
  <2>4. CASE scores[c] # NoScore
    <3>1. scores[c] \in ScoredRow
      BY <1>0, <1>6, <2>4 DEF Score
    <3>2. [scores[c] EXCEPT !.points = entry(c).points] \in ScoredRow
      BY <2>1, <3>1 DEF ScoredRow
    <3> QED BY <2>1, <2>4, <3>2 DEF Scored
  <2> QED BY <2>1, <2>3, <2>4 DEF Scored
<1>7. ScoreTypes'
  <2>1. scores' \in [Cells -> Score]
    BY <1>0, <1>2, <1>6 DEF Score
  <2> QED BY <1>0, <2>1, NobodySubmits DEF ScoresInv, ScoreTypes
<1>8. EvenRubrics' = EvenRubrics /\ EvenRubrics \subseteq Rubrics
  BY <1>0 DEF EvenRubrics
<1>9. Transactions'
  <2>1. \A f \in Evaluators : f # e => submit'[f] = submit[f] /\ ListOf(f)' = ListOf(f)
    BY <1>1 DEF ListOf
  <2> QED BY <1>1, <1>8, <2>1, NobodySubmits DEF ScoresInv, Transactions
<1>10. ASSUME "parallel" \notin trouble' PROVE ScoresFit'
  <2>0. ScoresFit
    BY <1>0, <1>10 DEF ScoresInv
  <2>1. \A f \in Evaluators : ~Parallel(f)
    BY <1>0, <2>0, NobodySubmits DEF ScoresFit, Alone, Parallel
  <2>2. \A f \in Evaluators : ~Parallel(f)'
    BY <1>1, <2>1, NobodySubmits DEF Parallel
  <2>3. ASSUME NEW r \in EvenRubrics PROVE Uniform(r)'
    <3>0. /\ r \in Rubrics /\ Uniform(r)
          /\ Even(Range(w), r)
      BY <1>0, <1>5, <1>8, <2>0, <2>1 DEF ScoresInv, ScoresFit, Transactions
    <3>1. CASE OfRubric(Range(w), r) = {}
      <4>1. \A s \in Students : <<r, s>> \notin CellsOf(w)
        BY <3>1 DEF CellsOf, OfRubric
      <4>2. \A s \in Students : scores'[r, s] = scores[r, s]
        BY <1>2, <3>0, <4>1, CellsOfStudents
      <4> QED BY <3>0, <4>2 DEF Uniform
    <3>2. CASE Whole(Range(w), r)
      <4>1. PICK n \in Points :
                /\ \A y \in OfRubric(Range(w), r) : y.points = n
                /\ \A s \in Students : [cell |-> <<r, s>>, points |-> n] \in Range(w)
        BY <1>3, <3>0, <3>2, WholeRubric
      <4>2. ASSUME NEW s \in Students
            PROVE  /\ <<r, s>> \in CellsOf(w) /\ entry(<<r, s>>).points = n
                   /\ entry(<<r, s>>).cell = <<r, s>>
        <5>1. <<r, s>> \in CellsOf(w)
          <6>1. PICK y \in Range(w) : y = [cell |-> <<r, s>>, points |-> n]
            BY <4>1
          <6> QED BY <6>1 DEF CellsOf
        <5>2. entry(<<r, s>>) \in OfRubric(Range(w), r)
          BY <1>4, <5>1 DEF OfRubric
        <5> QED BY <1>4, <4>1, <5>1, <5>2
      <4>3. ASSUME NEW s \in Students, NEW t \in Students PROVE scores'[r, s] = scores'[r, t]
        <5>1. scores[r, s] = scores[r, t]
          BY <3>0 DEF Uniform
        <5>2. Scored(entry(<<r, s>>), e) = Scored(entry(<<r, t>>), e)
          BY <4>2, <5>1 DEF Scored
        <5> QED BY <1>2, <3>0, <4>2, <5>2, CellsOfStudents
      <4> QED BY <4>3 DEF Uniform
    <3> QED BY <3>0, <3>1, <3>2 DEF Even
  <2> QED BY <1>8, <2>2, <2>3 DEF ScoresFit
<1> QED BY <1>7, <1>9, <1>10 DEF ScoresInv

LEMMA UpsertKeeps ==
    ASSUME ScoresInv, NEW e \in Evaluators, UpsertEvaluationScore(e) PROVE ScoresInv'
<1>0. /\ submit[e] \in Submission /\ submit[e].at = "upsert" /\ submit[e].left \in Seq(Entries)
      /\ UNCHANGED <<uneven, trouble>>
      /\ scores \in [Cells -> Score]
  BY DEF UpsertEvaluationScore, Parallel, ScoresInv, ScoreTypes, Submission
<1>1. PICK i \in DOMAIN submit[e].left :
          /\ scores' = [scores EXCEPT ![submit[e].left[i].cell] =
                 [points |-> submit[e].left[i].points, by |-> e,
                  project |-> submit[e].project \/ scores[submit[e].left[i].cell].project]]
          /\ submit' = [submit EXCEPT ![e] = [submit[e] EXCEPT !.left = RemoveAt(submit[e].left, i)]]
  BY DEF UpsertEvaluationScore
<1> DEFINE x == submit[e].left[i]
           left == RemoveAt(submit[e].left, i)
           New(y) == Rescored(e, x.points, y)
           q == [submit[e] EXCEPT !.left = left]
<1>2. /\ left \in Seq(Entries) /\ Range(left) \subseteq Range(submit[e].left)
      /\ Range(submit[e].left) \subseteq Range(left) \cup {x}
  BY <1>0, RemoveKeeps
<1>3. x \in Range(submit[e].left) /\ x \in Entries
  BY <1>0 DEF Range
<1>4. x.cell \in Cells /\ x.points \in Points
  BY <1>3 DEF Entries
<1>5. /\ q \in Submission /\ q.at = "upsert" /\ q.left = left /\ q.project = submit[e].project
  BY <1>0, <1>2 DEF Submission
<1>6. submit' = [submit EXCEPT ![e] = q] /\ scores' = [scores EXCEPT ![x.cell] = New(scores[x.cell])]
  BY <1>1 DEF Rescored
<1>7. \A y \in Score : New(y) \in ScoredRow /\ New(New(y)) = New(y)
  BY <1>0, <1>4, RescoredIsScore
<1> HIDE DEF x, left, q
<1>8. \A f \in Evaluators : submit'[f] = IF f = e THEN q ELSE submit[f]
  BY <1>6 DEF ScoresInv, ScoreTypes
<1>9. /\ scores' \in [Cells -> Score]
      /\ \A c \in Cells : scores'[c] = IF c = x.cell THEN New(scores[c]) ELSE scores[c]
  BY <1>0, <1>4, <1>6, <1>7 DEF Score
<1>10. ScoreTypes'
  BY <1>0, <1>5, <1>6, <1>9 DEF ScoresInv, ScoreTypes
<1>11. EvenRubrics' = EvenRubrics /\ EvenRubrics \subseteq Rubrics
  BY <1>0 DEF EvenRubrics
<1>12. Transactions'
  <2>1. \A f \in Evaluators : f # e => submit'[f] = submit[f] /\ ListOf(f)' = ListOf(f)
    BY <1>8 DEF ListOf
  <2> QED BY <1>5, <1>8, <1>11, <2>1 DEF ScoresInv, Transactions
<1>13. ASSUME "parallel" \notin trouble' PROVE ScoresFit'
  <2>0. ScoresFit /\ Parallel(e) /\ Alone(e)
    BY <1>0, <1>13 DEF ScoresInv, ScoresFit, Parallel
  <2>1. Parallel(e)' /\ Alone(e)' /\ \A f \in Evaluators \ {e} : ~Parallel(f)'
    BY <1>5, <1>8, <2>0, NobodySubmits DEF Parallel, Alone
  <2>2. ASSUME NEW r \in EvenRubrics PROVE InPart(e, r)'
    <3>0. InPart(e, r) /\ submit'[e].left = left /\ \A s \in Students : <<r, s>> \in Cells
      BY <1>5, <1>8, <1>11, <2>0, CellsOfStudents DEF ScoresFit
    <3>1. CASE Uniform(r) /\ OfRubric(Range(submit[e].left), r) = {}
      <4>1. \A y \in Range(submit[e].left) : y.cell[1] # r
        BY <3>1 DEF OfRubric
      <4>2. x.cell[1] # r /\ OfRubric(Range(left), r) = {}
        BY <1>2, <1>3, <4>1 DEF OfRubric
      <4>3. ASSUME NEW s \in Students PROVE scores'[r, s] = scores[r, s]
        <5>1. <<r, s>> # x.cell
          BY <4>2
        <5> QED BY <1>9, <3>0, <5>1
      <4> QED BY <3>0, <3>1, <4>2, <4>3 DEF InPart, Uniform
    <3>2. CASE HalfWritten(e, r)
      <4>1. PICK y \in Score, n \in Points :
                /\ \A z \in OfRubric(Range(submit[e].left), r) : z.points = n
                /\ \A s \in Students :
                    \/ scores[r, s] = Rescored(e, n, y)
                    \/ scores[r, s] = y /\ [cell |-> <<r, s>>, points |-> n] \in Range(submit[e].left)
        BY <3>2 DEF HalfWritten
      <4>2. \A z \in OfRubric(Range(left), r) : z.points = n
        BY <1>2, <4>1 DEF OfRubric
      <4>3. ASSUME NEW s \in Students
            PROVE  \/ scores'[r, s] = Rescored(e, n, y)
                   \/ scores'[r, s] = y /\ [cell |-> <<r, s>>, points |-> n] \in Range(left)
        <5>1. CASE <<r, s>> = x.cell
          <6>1. x.cell[1] = r
            BY <5>1
          <6>2. x.points = n
            BY <1>3, <4>1, <6>1 DEF OfRubric
          <6>3. scores'[r, s] = Rescored(e, n, scores[r, s])
            BY <1>9, <3>0, <5>1, <6>2
          <6>4. Rescored(e, n, Rescored(e, n, y)) = Rescored(e, n, y)
            BY <1>7, <6>2
          <6> QED BY <4>1, <6>3, <6>4
        <5>2. CASE <<r, s>> # x.cell
          <6>1. scores'[r, s] = scores[r, s]
            BY <1>9, <3>0, <5>2
          <6>2. [cell |-> <<r, s>>, points |-> n] # x
            BY <5>2
          <6> QED BY <1>2, <4>1, <6>1, <6>2
        <5> QED BY <5>1, <5>2
      <4>4. Rescored(e, n, y)' = Rescored(e, n, y)
        BY <1>5, <1>8 DEF Rescored
      <4>5. HalfWritten(e, r)'
        BY <3>0, <4>2, <4>3, <4>4 DEF HalfWritten
      <4> QED BY <4>5 DEF InPart
    <3> QED BY <3>0, <3>1, <3>2 DEF InPart
  <2> QED BY <1>11, <2>1, <2>2 DEF ScoresFit
<1> QED BY <1>10, <1>12, <1>13 DEF ScoresInv

LEMMA ScoresStep == ScoresInv /\ [EvaluationsNext]_evaluationVars => ScoresInv'
<1> SUFFICES ASSUME ScoresInv, [EvaluationsNext]_evaluationVars PROVE ScoresInv'
  OBVIOUS
<1>1. CASE UNCHANGED <<scores, submit, uneven, trouble>>
  <2>0. EvenRubrics' = EvenRubrics /\ EvenRubrics \subseteq Rubrics
    BY <1>1 DEF EvenRubrics
  <2>1. ScoreTypes' /\ Transactions'
    BY <1>1, <2>0 DEF ScoresInv, ScoreTypes, Transactions, ListOf
  <2>2. \A e \in Evaluators : (Parallel(e)' => Parallel(e)) /\ (Parallel(e) => Parallel(e)')
    BY <1>1 DEF Parallel
  <2>3. \A e \in Evaluators : Alone(e) => Alone(e)'
    BY <1>1 DEF Alone
  <2>4. \A r \in EvenRubrics : Uniform(r) => Uniform(r)'
    BY <1>1 DEF Uniform
  <2>5. \A e \in Evaluators, r \in EvenRubrics : InPart(e, r) => InPart(e, r)'
    BY <1>1, <2>0, InPartStays
  <2>6. ScoresFit => ScoresFit'
    BY <2>0, <2>2, <2>3, <2>4, <2>5 DEF ScoresFit
  <2> QED BY <1>1, <2>1, <2>6 DEF ScoresInv
<1>2. CASE UNCHANGED evaluationVars
  BY <1>1, <1>2 DEF evaluationVars
<1>3. CASE Approve \/ MakeDecision \/ Reopen \/ CloseProject
  BY <1>1, <1>3 DEF Approve, MakeDecision, Reopen, CloseProject
<1>4. ASSUME NEW e \in Evaluators, NEW b \in Batches, SubmitScores(e, b) \/ SubmitEvaluationScore(e, b)
      PROVE  ScoresInv'
  BY <1>4, BeginKeeps DEF SubmitScores, SubmitEvaluationScore
<1>5. ASSUME NEW e \in Evaluators, AbortScores(e) \/ EndUpserts(e) PROVE ScoresInv'
  BY <1>5, EndKeeps DEF AbortScores, EndUpserts, Parallel
<1> QED BY <1>2, <1>3, <1>4, <1>5, InsertKeeps, CommitKeeps, UpsertKeeps DEF EvaluationsNext

LEMMA ScoresStart == EvaluationsInit => ScoresInv
<1> SUFFICES ASSUME EvaluationsInit PROVE ScoresInv
  OBVIOUS
<1>1. ScoreTypes
  BY NobodySubmits DEF EvaluationsInit, ScoreTypes, Score
<1>2. \A e \in Evaluators : submit[e].at = "idle"
  BY NobodySubmits DEF EvaluationsInit
<1>3. \A r \in EvenRubrics : Uniform(r)
  BY DEF EvaluationsInit, Uniform, Cells, EvenRubrics
<1> QED BY <1>1, <1>2, <1>3 DEF ScoresInv, Transactions, ScoresFit, Parallel

\* A rubric that every list scores for all the students alike has one score, and is done for the
\* one evaluator whose that is and asked of all the others while the proposal is in a list,
\* whatever else is scored, whatever transactions overlap, wait for each other or are aborted and
\* whatever is decided, unless lists written in parallel overlap or fail.
THEOREM ScoresAlwaysAddUp == EvaluationsSpec => []ScoresAddUp
<1>1. ScoresInv => ScoresAddUp
  <2> SUFFICES ASSUME ScoresInv, "parallel" \notin trouble, NEW r \in Rubrics \ uneven,
                      \A e \in Evaluators : ~Parallel(e)
               PROVE  /\ Cardinality({scores[r, s] : s \in Students}) = 1
                      /\ Offered(r) =>
                             Cardinality(DoneFor(r)) =
                                 IF \E s \in Students : scores[r, s] # NoScore THEN 1 ELSE 0
    BY DEF ScoresAddUp
  <2>1. PICK t : t \in Students
    BY StudentsAssumption
  <2>2. PICK x \in Score : \A s \in Students : scores[r, s] = x
    BY <2>1, CellsOfStudents DEF ScoresInv, ScoreTypes, ScoresFit, Uniform, EvenRubrics
  <2>3. Cardinality({scores[r, s] : s \in Students}) = 1
    <3>1. {scores[r, s] : s \in Students} = {x}
      BY <2>1, <2>2
    <3> QED BY <3>1, FS_Singleton
  <2>4. ASSUME Offered(r)
        PROVE  Cardinality(DoneFor(r)) = IF \E s \in Students : scores[r, s] # NoScore THEN 1 ELSE 0
    <3>1. DoneFor(r) = {e \in Evaluators : x.by = e}
      BY <2>1, <2>2, <2>4 DEF DoneFor, Offered, GetProposals, GetProjects, MissingRubrics
    <3>2. CASE x = NoScore
      <4>1. DoneFor(r) = {}
        BY <3>1, <3>2, NoScoreIsNobodys
      <4> QED BY <2>2, <3>2, <4>1, FS_EmptySet
    <3>3. CASE x # NoScore
      <4>1. x.by \in Evaluators
        BY <3>3 DEF Score, ScoredRow
      <4>2. DoneFor(r) = {x.by}
        BY <3>1, <4>1
      <4>3. Cardinality(DoneFor(r)) = 1
        BY <4>2, FS_Singleton
      <4>4. \E s \in Students : scores[r, s] # NoScore
        BY <2>1, <2>2, <3>3
      <4> QED BY <4>3, <4>4
    <3> QED BY <3>2, <3>3
  <2> QED BY <2>3, <2>4
<1> QED BY <1>1, ScoresStart, ScoresStep, PTL DEF EvaluationsSpec

-----------------------------------------------------------------------------
(* Tasks. *)

Status == TaskStatuses \cup {"none"}
TaskRow == [code : Nat, status : Status, by : Members \cup {"none"}]
ActivityRow == [by : Members, action : {"created", "status_changed", "commented"},
                from : Status \cup {"same"}, to : Status \cup {"same"}]
Work == [at : {"idle", "insert", "created", "update", "updated", "comment", "reply"},
         task : Tasks \cup {"none"}, status : Status \cup {"same"}, before : Status, count : Nat]
AboutATask == {"created", "update", "updated", "comment", "reply"}

WellFormed(w) ==
    /\ w.at = "idle" => w = NotWorking
    /\ w.at \in AboutATask => w.task \in Tasks
    /\ w.at = "insert" => w.task = "none"
    /\ w.at = "update" => w.status \in TaskStatuses \cup {"same"}
    /\ w.at = "updated" => w.status \in TaskStatuses

\* Rows that are there have a code; what is not there has no activity and no comments.
TaskTypes ==
    /\ task \in [Tasks -> TaskRow]
    /\ feed \in [Tasks -> Seq(ActivityRow)]
    /\ comments \in [Tasks -> Nat]
    /\ working \in [Members -> Work]
    /\ IsFiniteSet(Rows) /\ "none" \notin Rows
    /\ \A t \in Rows : task[t].code > 0 /\ task[t].status \in TaskStatuses
    /\ \A t \in Tasks \ Rows : feed[t] = <<>> /\ comments[t] = 0
    /\ \A m \in Members : WellFormed(working[m])

Others(m) == \A n \in Members \ {m} : working[n] = NotWorking

\* Requests that do not overlap: what the one in progress has read is still so.
OneRequest ==
    \A m \in Members : working[m] # NotWorking =>
        /\ Others(m)
        /\ working[m].at = "insert" => working[m].count = CountTasks
        /\ working[m].at = "reply" =>
               /\ feed[working[m].task] # <<>>
               /\ feed[working[m].task][Len(feed[working[m].task])].action = "commented"
               /\ feed[working[m].task][Len(feed[working[m].task])].by = m

Answered == answer.commentOf = answer.to
Numbered == {task[t].code : t \in Rows} = 1..CountTasks

Settled(t) == Tells(t, task[t].status) /\ comments[t] = Cardinality(CommentsOf(t))

\* The activity of a task, as far as the request in progress has come with it.
Fits(w, t) ==
    \/ w.at = "created" /\ feed[t] = <<>> /\ comments[t] = 0
    \/ w.at = "update" /\ Settled(t) /\ w.before = task[t].status
    \/ /\ w.at = "updated" /\ w.status = task[t].status
       /\ Tells(t, w.before) /\ comments[t] = Cardinality(CommentsOf(t))
    \/ /\ w.at = "comment"
       /\ Tells(t, task[t].status) /\ comments[t] = Cardinality(CommentsOf(t)) + 1
    \/ w.at = "reply" /\ Settled(t)

FeedFits(t) ==
    \/ Idle(t) /\ Settled(t)
    \/ \E m \in Members : working[m].task = t /\ Fits(working[m], t)

TasksInv ==
    /\ TaskTypes
    /\ "overlap" \notin wrong => OneRequest /\ Answered
    /\ wrong \cap {"overlap", "delete"} = {} => Numbered
    /\ wrong \cap {"overlap", "failed"} = {} => \A t \in Rows : FeedFits(t)

\* What an append to the activity of a task does to what it tells.
LEMMA Appended ==
    ASSUME NEW t \in Tasks, feed \in [Tasks -> Seq(ActivityRow)], NEW r \in ActivityRow,
           feed'[t] = Append(feed[t], r)
    PROVE  /\ Len(feed[t]) \in Nat /\ Len(feed'[t]) = Len(feed[t]) + 1
           /\ DOMAIN feed[t] = 1..Len(feed[t]) /\ DOMAIN feed'[t] = 1..(Len(feed[t]) + 1)
           /\ \A i \in 1..Len(feed[t]) : feed'[t][i] = feed[t][i]
           /\ feed'[t][Len(feed[t]) + 1] = r
           /\ IsFiniteSet(CommentsOf(t)) /\ Len(feed[t]) + 1 \notin CommentsOf(t)
           /\ r.action = "commented" =>
                  /\ Changes(t)' = Changes(t)
                  /\ CommentsOf(t)' = CommentsOf(t) \cup {Len(feed[t]) + 1}
           /\ r.action # "commented" =>
                  /\ Changes(t)' = Changes(t) \cup {Len(feed[t]) + 1}
                  /\ CommentsOf(t)' = CommentsOf(t)
<1>1. feed[t] \in Seq(ActivityRow) /\ Len(feed[t]) \in Nat
  OBVIOUS
<1>0. PICK n \in Nat : n = Len(feed[t])
  BY <1>1
<1>2. /\ Len(feed[t]) = n /\ Len(feed'[t]) = n + 1
      /\ DOMAIN feed[t] = 1..n /\ DOMAIN feed'[t] = 1..(n + 1)
      /\ \A i \in 1..n : feed'[t][i] = feed[t][i]
      /\ feed'[t][n + 1] = r
  BY <1>0, <1>1
<1>3. IsFiniteSet(CommentsOf(t))
  <2>1. IsFiniteSet(1..n) /\ CommentsOf(t) \subseteq 1..n
    BY <1>2, FS_Interval DEF CommentsOf
  <2> QED BY <2>1, FS_Subset
<1>4. n + 1 \notin 1..n /\ 1..(n + 1) = (1..n) \cup {n + 1}
  BY <1>2
<1>5. Changes(t)' = Changes(t) \cup (IF r.action = "commented" THEN {} ELSE {n + 1})
  <2>1. \A i \in 1..n : i \in Changes(t)' <=> i \in Changes(t)
    BY <1>2, <1>4 DEF Changes
  <2>2. n + 1 \in Changes(t)' <=> r.action # "commented"
    BY <1>2, <1>4 DEF Changes
  <2>3. Changes(t)' \subseteq 1..(n + 1) /\ Changes(t) \subseteq 1..n
    BY <1>2 DEF Changes
  <2> QED BY <1>4, <2>1, <2>2, <2>3
<1>6. n + 1 \notin Changes(t) /\ n + 1 \notin CommentsOf(t)
  BY <1>2, <1>4 DEF Changes, CommentsOf
<1>7. CommentsOf(t)' = (1..(n + 1)) \ Changes(t)' /\ CommentsOf(t) = (1..n) \ Changes(t)
  BY <1>2 DEF CommentsOf
<1>8. CASE r.action = "commented"
  BY <1>2, <1>3, <1>4, <1>5, <1>6, <1>7, <1>0, <1>8
<1>9. CASE r.action # "commented"
  BY <1>2, <1>3, <1>4, <1>5, <1>6, <1>7, <1>0, <1>9
<1> QED BY <1>8, <1>9

LEMMA CommentsAreCounted ==
    ASSUME NEW t \in Tasks, feed \in [Tasks -> Seq(ActivityRow)], NEW r \in ActivityRow,
           feed'[t] = Append(feed[t], r), r.action = "commented"
    PROVE  /\ Cardinality(CommentsOf(t)') = Cardinality(CommentsOf(t)) + 1
           /\ \A s : Tells(t, s) => Tells(t, s)'
<1>1. /\ Len(feed[t]) \in Nat /\ DOMAIN feed[t] = 1..Len(feed[t])
      /\ \A i \in 1..Len(feed[t]) : feed'[t][i] = feed[t][i]
      /\ IsFiniteSet(CommentsOf(t)) /\ Len(feed[t]) + 1 \notin CommentsOf(t)
      /\ Changes(t)' = Changes(t)
      /\ CommentsOf(t)' = CommentsOf(t) \cup {Len(feed[t]) + 1}
  BY Appended
<1>2. Cardinality(CommentsOf(t)') = Cardinality(CommentsOf(t)) + 1
  BY <1>1, FS_AddElement
<1>3. ASSUME NEW s, Tells(t, s) PROVE Tells(t, s)'
  <2>1. \A i \in Changes(t) : feed'[t][i] = feed[t][i] /\ Later(t, i)' = Later(t, i)
    BY <1>1 DEF Changes, Later
  <2>2. \A i : Later(t, i) \subseteq Changes(t)
    BY DEF Later
  <2>3. 1 \in Changes(t)' /\ feed'[t][1].action = "created"
    BY <1>1, <1>3, <2>1 DEF Tells
  <2>4. ASSUME NEW i \in Changes(t)' \ {1}
        PROVE  /\ feed'[t][i].action = "status_changed"
               /\ Later(t, i)' = {} => feed'[t][i].to = s
               /\ \A j \in Later(t, i)' :
                      (\A k \in Later(t, i)' : j <= k) => feed'[t][i].to = feed'[t][j].from
    <3>1. i \in Changes(t) \ {1} /\ feed'[t][i] = feed[t][i] /\ Later(t, i)' = Later(t, i)
      BY <1>1, <2>1, <2>4
    <3>2. \A j \in Later(t, i) : feed'[t][j] = feed[t][j]
      BY <2>1, <2>2
    <3>3. ASSUME NEW j \in Later(t, i)', \A k \in Later(t, i)' : j <= k
          PROVE  feed'[t][i].to = feed'[t][j].from
      <4>1. j \in Later(t, i) /\ \A k \in Later(t, i) : j <= k
        BY <3>1, <3>3
      <4>2. feed[t][i].to = feed[t][j].from
        BY <1>3, <3>1, <4>1 DEF Tells
      <4> QED BY <3>1, <3>2, <4>1, <4>2
    <3>4. feed[t][i].action = "status_changed" /\ (Later(t, i) = {} => feed[t][i].to = s)
      BY <1>3, <3>1 DEF Tells
    <3> QED BY <3>1, <3>3, <3>4
  <2> QED BY <2>3, <2>4 DEF Tells
<1> QED BY <1>2, <1>3

LEMMA ChangesAreTold ==
    ASSUME NEW t \in Tasks, feed \in [Tasks -> Seq(ActivityRow)], NEW r \in ActivityRow,
           feed'[t] = Append(feed[t], r), r.action = "status_changed", Tells(t, r.from)
    PROVE  Tells(t, r.to)' /\ CommentsOf(t)' = CommentsOf(t)
<1>0. PICK n \in Nat : n = Len(feed[t])
  BY Appended
<1>1. /\ Len(feed[t]) = n /\ DOMAIN feed[t] = 1..n
      /\ \A i \in 1..n : feed'[t][i] = feed[t][i]
      /\ feed'[t][n + 1] = r
      /\ Changes(t)' = Changes(t) \cup {n + 1}
      /\ CommentsOf(t)' = CommentsOf(t)
  BY <1>0, Appended
<1>2. Changes(t) \subseteq 1..n /\ n + 1 \notin 1..n
  BY <1>1 DEF Changes
<1>3. \A i \in Changes(t) : Later(t, i)' = Later(t, i) \cup {n + 1}
  BY <1>1, <1>2 DEF Later
<1>4. Later(t, n + 1)' = {}
  BY <1>1, <1>2 DEF Later
<1>5. 1 \in Changes(t) /\ feed[t][1].action = "created"
  BY DEF Tells
<1>6. ASSUME NEW i \in Changes(t)' \ {1}
      PROVE  /\ feed'[t][i].action = "status_changed"
             /\ Later(t, i)' = {} => feed'[t][i].to = r.to
             /\ \A j \in Later(t, i)' : (\A k \in Later(t, i)' : j <= k) => feed'[t][i].to = feed'[t][j].from
  <2>1. CASE i = n + 1
    BY <1>1, <1>4, <2>1
  <2>2. CASE i # n + 1
    <3>1. i \in Changes(t) /\ i \in 1..n /\ feed'[t][i] = feed[t][i]
      BY <1>1, <1>2, <1>6, <2>2
    <3>2. feed[t][i].action = "status_changed"
      BY <1>6, <3>1 DEF Tells
    <3>3. ASSUME NEW j \in Later(t, i)', \A k \in Later(t, i)' : j <= k
          PROVE  feed'[t][i].to = feed'[t][j].from
      <4>1. CASE j \in Later(t, i)
        <5>1. \A k \in Later(t, i) : j <= k
          BY <1>3, <3>1, <3>3
        <5>2. j \in 1..n
          BY <1>2, <4>1 DEF Later
        <5> QED BY <1>1, <1>6, <3>1, <4>1, <5>1, <5>2 DEF Tells
      <4>2. CASE j = n + 1
        <5>1. Later(t, i) = {}
          BY <1>1, <1>2, <1>3, <3>1, <3>3, <4>2 DEF Later
        <5> QED BY <1>1, <1>6, <3>1, <4>2, <5>1 DEF Tells
      <4> QED BY <1>3, <3>1, <3>3, <4>1, <4>2
    <3>4. Later(t, i)' # {}
      BY <1>3, <3>1
    <3> QED BY <3>1, <3>2, <3>3, <3>4
  <2> QED BY <2>1, <2>2
<1>7. 1 \in Changes(t)' /\ feed'[t][1].action = "created"
  BY <1>1, <1>2, <1>5
<1> QED BY <1>1, <1>6, <1>7 DEF Tells

LEMMA CreationIsTold ==
    ASSUME NEW t \in Tasks, feed \in [Tasks -> Seq(ActivityRow)], NEW r \in ActivityRow,
           feed'[t] = Append(feed[t], r), r.action = "created", feed[t] = <<>>
    PROVE  CommentsOf(t)' = {} /\ \A s : Tells(t, s)'
<1>1. Len(feed[t]) = 0 /\ feed'[t][1] = r /\ DOMAIN feed'[t] = 1..1 /\ DOMAIN feed[t] = 1..0
  BY Appended
<1>2. Changes(t)' = {1}
  BY <1>1 DEF Changes
<1> QED BY <1>1, <1>2 DEF Tells, CommentsOf

LEMMA FeedStays ==
    ASSUME NEW t \in Tasks, feed'[t] = feed[t]
    PROVE  /\ CommentsOf(t)' = CommentsOf(t) /\ \A s : Tells(t, s)' = Tells(t, s)
<1>1. Changes(t)' = Changes(t) /\ CommentsOf(t)' = CommentsOf(t)
  BY DEF Changes, CommentsOf
<1>2. \A i : Later(t, i)' = Later(t, i)
  BY <1>1 DEF Later
<1>3. \A s : Tells(t, s)' <=> Tells(t, s)
  BY <1>1, <1>2 DEF Tells
<1>4. \A s : Tells(t, s) \in BOOLEAN /\ Tells(t, s)' \in BOOLEAN
  BY DEF Tells
<1> QED BY <1>1, <1>3, <1>4

\* A request's own record, and those of the others.
LEMMA Working ==
    ASSUME TaskTypes, NEW m \in Members, NEW w \in Work, working' = [working EXCEPT ![m] = w]
    PROVE  /\ working' \in [Members -> Work]
           /\ \A n \in Members : working'[n] = IF n = m THEN w ELSE working[n]
BY DEF TaskTypes

LEMMA NotWorkingIsWork ==
    NotWorking \in Work /\ NotWorking.at = "idle" /\ NotWorking.task = "none" /\ WellFormed(NotWorking)
BY DEF NotWorking, Work, Status, WellFormed, AboutATask

LEMMA RowsStay ==
    ASSUME task' = task
    PROVE  Rows' = Rows /\ CountTasks' = CountTasks
BY DEF Rows, CountTasks

\* What a step must leave so that the types stay: the tables, and the request that made it.
LEMMA TypesKeep ==
    ASSUME TaskTypes, NEW m \in Members, NEW w \in Work, working' = [working EXCEPT ![m] = w],
           WellFormed(w),
           task' \in [Tasks -> TaskRow], feed' \in [Tasks -> Seq(ActivityRow)],
           comments' \in [Tasks -> Nat],
           IsFiniteSet(Rows'), "none" \notin Rows',
           \A t \in Rows' : task'[t].code > 0 /\ task'[t].status \in TaskStatuses,
           \A t \in Tasks \ Rows' : feed'[t] = <<>> /\ comments'[t] = 0
    PROVE  TaskTypes'
<1>1. /\ working' \in [Members -> Work]
      /\ \A n \in Members : working'[n] = IF n = m THEN w ELSE working[n]
  BY Working
<1>2. \A n \in Members : WellFormed(working'[n])
  BY <1>1 DEF TaskTypes
<1> QED BY <1>1, <1>2 DEF TaskTypes

\* The same for a step that leaves the tasks and their activity.
LEMMA TypesKeepRows ==
    ASSUME TaskTypes, NEW m \in Members, NEW w \in Work, working' = [working EXCEPT ![m] = w],
           WellFormed(w),
           UNCHANGED <<task, feed, comments>>
    PROVE  TaskTypes'
<1>1. Rows' = Rows
  BY RowsStay
<1> QED BY <1>1, TypesKeep DEF TaskTypes

\* A request that began a step is as the types say, and so it is in its next state.
LEMMA GoesOn ==
    ASSUME TaskTypes, NEW m \in Members, NEW at \in {"reply", "updated"}
    PROVE  /\ working[m] \in Work
           /\ [working[m] EXCEPT !.at = at] \in Work
           /\ [working[m] EXCEPT !.at = at].at = at
           /\ [working[m] EXCEPT !.at = at].task = working[m].task
           /\ [working[m] EXCEPT !.at = at].status = working[m].status
           /\ [working[m] EXCEPT !.at = at].before = working[m].before
BY DEF TaskTypes, Work

\* A record of activity of a task that is there.
LEMMA Recorded ==
    ASSUME TaskTypes, NEW t \in Rows, NEW m \in Members,
           NEW action \in {"created", "status_changed", "commented"},
           NEW from \in Status \cup {"same"}, NEW to \in Status \cup {"same"},
           CreateActivity(t, m, action, from, to)
    PROVE  LET r == [by |-> m, action |-> action, from |-> from, to |-> to]
           IN  /\ r \in ActivityRow
               /\ feed'[t] = Append(feed[t], r)
               /\ feed' \in [Tasks -> Seq(ActivityRow)]
               /\ \A u \in Tasks \ {t} : feed'[u] = feed[u]
<1>1. t \in Tasks /\ feed \in [Tasks -> Seq(ActivityRow)]
  BY DEF TaskTypes, Rows
<1> DEFINE r == [by |-> m, action |-> action, from |-> from, to |-> to]
<1>2. r \in ActivityRow
  BY DEF ActivityRow
<1>3. feed' = [feed EXCEPT ![t] = Append(feed[t], r)]
  BY DEF CreateActivity
<1> HIDE DEF r
<1>4. Append(feed[t], r) \in Seq(ActivityRow)
  BY <1>1, <1>2
<1>5. feed'[t] = Append(feed[t], r) /\ feed' \in [Tasks -> Seq(ActivityRow)]
      /\ \A u \in Tasks \ {t} : feed'[u] = feed[u]
  BY <1>1, <1>3, <1>4
<1> QED BY <1>2, <1>5 DEF r

LEMMA UpdatedTask ==
    ASSUME TaskTypes, NEW m \in Members, UpdateTask(m), working[m].task \in Rows
    PROVE  /\ task' \in [Tasks -> TaskRow]
           /\ \A u \in Tasks \ {working[m].task} : task'[u] = task[u]
           /\ task'[working[m].task].code = task[working[m].task].code
           /\ task'[working[m].task].status =
                  IF working[m].status = "same" THEN task[working[m].task].status ELSE working[m].status
<1>1. /\ working[m] \in Work /\ working[m].task \in Tasks /\ task \in [Tasks -> TaskRow]
      /\ working[m].status \in TaskStatuses \cup {"same"}
  BY DEF UpdateTask, TaskTypes, WellFormed, Rows
<1>2. PICK t \in Tasks : t = working[m].task
  BY <1>1
<1>3. PICK s \in Status : s = IF working[m].status = "same" THEN task[t].status ELSE working[m].status
  BY <1>1 DEF TaskRow, Status
<1>4. task[t] \in TaskRow /\ "same" \notin TaskStatuses
  BY <1>1, TasksAssumption
<1>5. CASE working[m].status = "same"
  <2>1. task' = task /\ s = task[t].status
    BY <1>2, <1>3, <1>5 DEF UpdateTask
  <2> QED BY <1>1, <1>2, <1>3, <2>1
<1>6. CASE working[m].status # "same"
  <2>1. task' = [task EXCEPT ![t] = [task[t] EXCEPT !.status = s]]
    BY <1>2, <1>3, <1>6 DEF UpdateTask
  <2>2. /\ [task[t] EXCEPT !.status = s] \in TaskRow
        /\ [task[t] EXCEPT !.status = s].code = task[t].code
        /\ [task[t] EXCEPT !.status = s].status = s
    BY <1>4 DEF TaskRow
  <2>3. /\ task' \in [Tasks -> TaskRow]
        /\ \A u \in Tasks \ {t} : task'[u] = task[u]
        /\ task'[t].code = task[t].code /\ task'[t].status = s
    BY <1>1, <2>1, <2>2
  <2> QED BY <1>2, <1>3, <2>3
<1> QED BY <1>5, <1>6

LEMMA TypesStep == TaskTypes /\ [TasksNext]_taskVars => TaskTypes'
<1> SUFFICES ASSUME TaskTypes, [TasksNext]_taskVars PROVE TaskTypes'
  OBVIOUS
<1>1. CASE UNCHANGED taskVars
  <2>1. Rows' = Rows
    BY <1>1, RowsStay DEF taskVars
  <2> QED BY <1>1, <2>1 DEF taskVars, TaskTypes
<1>2. ASSUME NEW m \in Members, NEW w \in Work, WellFormed(w), Start(m, w),
             UNCHANGED <<task, feed, comments>>
      PROVE  TaskTypes'
  BY <1>2, TypesKeepRows DEF Start
<1>3. ASSUME NEW m \in Members, Count(m) PROVE TaskTypes'
  <2> DEFINE w == [NotWorking EXCEPT !.at = "insert", !.count = CountTasks]
  <2>1. CountTasks \in Nat
    BY FS_CardinalityType DEF CountTasks, TaskTypes
  <2>2. w \in Work /\ WellFormed(w)
    BY <2>1 DEF NotWorking, Work, Status, WellFormed, AboutATask
  <2>3. Start(m, w) /\ UNCHANGED <<task, feed, comments>>
    BY <1>3 DEF Count
  <2> HIDE DEF w
  <2> QED BY <1>2, <2>2, <2>3
<1>5. ASSUME NEW m \in Members, NEW t \in Tasks, NEW s \in TaskStatuses \cup {"same"}, ReadTask(m, t, s)
      PROVE  TaskTypes'
  <2> DEFINE w == [NotWorking EXCEPT !.at = "update", !.task = t, !.status = s,
                                     !.before = task[t].status]
  <2>1. task[t].status \in Status
    BY DEF TaskTypes, TaskRow
  <2>2. w \in Work /\ WellFormed(w)
    BY <2>1 DEF NotWorking, Work, Status, WellFormed, AboutATask
  <2>3. Start(m, w) /\ UNCHANGED <<task, feed, comments>>
    BY <1>5 DEF ReadTask
  <2> HIDE DEF w
  <2> QED BY <1>2, <2>2, <2>3
<1>6. ASSUME NEW m \in Members, NEW t \in Tasks, CreateComment(m, t) PROVE TaskTypes'
  <2> DEFINE w == [NotWorking EXCEPT !.at = "comment", !.task = t]
  <2>1. w \in Work /\ WellFormed(w)
    BY DEF NotWorking, Work, Status, WellFormed, AboutATask
  <2>2. working' = [working EXCEPT ![m] = w] /\ UNCHANGED <<task, feed>>
        /\ t \in Rows /\ comments' = [comments EXCEPT ![t] = comments[t] + 1]
    BY <1>6 DEF CreateComment, Start
  <2> HIDE DEF w
  <2>3. Rows' = Rows
    BY <2>2, RowsStay
  <2>4. comments' \in [Tasks -> Nat] /\ \A u \in Tasks \ Rows : comments'[u] = comments[u]
    BY <2>2 DEF TaskTypes
  <2> QED BY <2>1, <2>2, <2>3, <2>4, TypesKeep DEF TaskTypes
<1>7. ASSUME NEW m \in Members, Finish(m), UNCHANGED <<task, feed, comments>> PROVE TaskTypes'
  BY <1>7, NotWorkingIsWork, TypesKeepRows DEF Finish
<1>8. ASSUME NEW m \in Members, ReplyComment(m) \/ Abort(m) PROVE TaskTypes'
  BY <1>7, <1>8 DEF ReplyComment, Abort
<1>9. ASSUME NEW m \in Members, NEW t \in Tasks, NEW s \in TaskStatuses, InsertTask(m, t, s)
      PROVE  TaskTypes'
  <2> DEFINE r == [code |-> working[m].count + 1, status |-> s, by |-> m]
             w == [working[m] EXCEPT !.at = "created", !.task = t]
  <2>1. /\ task' = [task EXCEPT ![t] = r] /\ t \notin Rows /\ UNCHANGED <<feed, comments>>
        /\ working[m].at = "insert" /\ t # "none"
    BY <1>9 DEF InsertTask, TaskTypes, WellFormed
  <2>2. working' = [working EXCEPT ![m] = w]
    BY <1>9 DEF InsertTask
  <2>3. w \in Work /\ WellFormed(w)
    BY DEF TaskTypes, Work, WellFormed, AboutATask
  <2>4. working[m].count \in Nat
    BY DEF TaskTypes, Work
  <2>5. r \in TaskRow /\ r.code > 0 /\ r.status = s
    BY <2>4 DEF TaskRow, Status
  <2> HIDE DEF r, w
  <2>6. task' \in [Tasks -> TaskRow] /\ \A u \in Tasks : task'[u] = IF u = t THEN r ELSE task[u]
    BY <2>1, <2>5 DEF TaskTypes
  <2>7. r # NoTaskRow
    BY <2>5 DEF NoTaskRow
  <2>8. Rows' = Rows \cup {t}
    BY <2>6, <2>7 DEF Rows
  <2>9. IsFiniteSet(Rows')
    BY <2>8, FS_AddElement DEF TaskTypes
  <2>10. \A u \in Rows' : task'[u].code > 0 /\ task'[u].status \in TaskStatuses
    BY <2>5, <2>6, <2>8 DEF TaskTypes, Rows
  <2>11. \A u \in Tasks \ Rows' : feed'[u] = <<>> /\ comments'[u] = 0
    BY <2>1, <2>8 DEF TaskTypes
  <2>12. "none" \notin Rows'
    BY <2>1, <2>8 DEF TaskTypes
  <2>13. feed' \in [Tasks -> Seq(ActivityRow)] /\ comments' \in [Tasks -> Nat]
    BY <2>1 DEF TaskTypes
  <2> QED BY <2>2, <2>3, <2>6, <2>9, <2>10, <2>11, <2>12, <2>13, TypesKeep
<1>10. ASSUME NEW m \in Members, NEW w \in Work, working' = [working EXCEPT ![m] = w],
              WellFormed(w),
              NEW t \in Rows, NEW action \in {"created", "status_changed", "commented"},
              NEW from \in Status \cup {"same"}, NEW to \in Status \cup {"same"},
              CreateActivity(t, m, action, from, to), UNCHANGED <<task, comments>>
       PROVE  TaskTypes'
  <2>1. /\ feed' \in [Tasks -> Seq(ActivityRow)]
        /\ \A u \in Tasks \ {t} : feed'[u] = feed[u]
    BY <1>10, Recorded
  <2>2. Rows' = Rows
    BY <1>10, RowsStay
  <2>3. \A u \in Tasks \ Rows' : feed'[u] = <<>> /\ comments'[u] = 0
    BY <1>10, <2>1, <2>2 DEF TaskTypes
  <2> QED BY <1>10, <2>1, <2>2, <2>3, TypesKeep DEF TaskTypes
<1>11. ASSUME NEW m \in Members, RecordCreated(m) PROVE TaskTypes'
  <2>1. CASE working[m].task \in Rows
    <3>1. CreateActivity(working[m].task, m, "created", "none", "none") /\ Finish(m)
          /\ UNCHANGED <<task, comments>>
      BY <1>11, <2>1 DEF RecordCreated
    <3> QED BY <1>10, <2>1, <3>1, NotWorkingIsWork DEF Finish, Status
  <2>2. CASE working[m].task \notin Rows
    BY <1>7, <1>11, <2>2 DEF RecordCreated
  <2> QED BY <2>1, <2>2
<1>12. ASSUME NEW m \in Members, RecordUpdate(m) PROVE TaskTypes'
  <2>0. working[m].before \in Status \cup {"same"} /\ working[m].status \in Status \cup {"same"}
    BY DEF TaskTypes, Work
  <2>1. CASE working[m].task \in Rows
    <3>1. CreateActivity(working[m].task, m, "status_changed", working[m].before, working[m].status)
          /\ Finish(m) /\ UNCHANGED <<task, comments>>
      BY <1>12, <2>1 DEF RecordUpdate
    <3> QED BY <1>10, <2>0, <2>1, <3>1, NotWorkingIsWork DEF Finish
  <2>2. CASE working[m].task \notin Rows
    BY <1>7, <1>12, <2>2 DEF RecordUpdate
  <2> QED BY <2>1, <2>2
<1>13. ASSUME NEW m \in Members, RecordComment(m) PROVE TaskTypes'
  <2>1. CASE working[m].task \in Rows
    <3> DEFINE w == [working[m] EXCEPT !.at = "reply"]
    <3>1. /\ CreateActivity(working[m].task, m, "commented", "none", "none")
          /\ working' = [working EXCEPT ![m] = w] /\ UNCHANGED <<task, comments>>
      BY <1>13, <2>1 DEF RecordComment, Continue
    <3>2. w \in Work /\ w.at = "reply" /\ w.task = working[m].task
      BY GoesOn
    <3>3. WellFormed(w)
      BY <2>1, <3>2 DEF Rows, WellFormed
    <3> HIDE DEF w
    <3> QED BY <1>10, <2>1, <3>1, <3>2, <3>3 DEF Status
  <2>2. CASE working[m].task \notin Rows
    BY <1>7, <1>13, <2>2 DEF RecordComment
  <2> QED BY <2>1, <2>2
<1>14. ASSUME NEW m \in Members, UpdateTask(m) PROVE TaskTypes'
  <2> DEFINE v == working[m]
             w == IF v.status \in {"same", v.before} THEN NotWorking ELSE [v EXCEPT !.at = "updated"]
  <2>1. /\ v \in Work /\ v.at = "update" /\ v.task \in Tasks
        /\ v.status \in TaskStatuses \cup {"same"} /\ UNCHANGED <<feed, comments>>
    BY <1>14 DEF UpdateTask, TaskTypes, WellFormed, AboutATask
  <2>2. working' = [working EXCEPT ![m] = w]
    BY <1>14 DEF UpdateTask, Finish, Continue
  <2>3. w \in Work /\ WellFormed(w)
    <3>1. CASE v.status \in {"same", v.before}
      BY <3>1, NotWorkingIsWork
    <3>2. CASE v.status \notin {"same", v.before}
      <4> DEFINE x == [v EXCEPT !.at = "updated"]
      <4>1. x \in Work /\ x.at = "updated" /\ x.task = v.task /\ x.status = v.status
        BY GoesOn
      <4> HIDE DEF x
      <4>2. WellFormed(x)
        BY <2>1, <3>2, <4>1 DEF WellFormed
      <4> QED BY <3>2, <4>1, <4>2 DEF x
    <3> QED BY <3>1, <3>2
  <2> HIDE DEF w
  <2>4. /\ task' \in [Tasks -> TaskRow] /\ Rows' = Rows
        /\ \A u \in Rows : task'[u].code = task[u].code /\ task'[u].status \in TaskStatuses
    <3>1. CASE v.task \notin Rows
      <4>1. task' = task
        BY <1>14, <3>1 DEF UpdateTask
      <4> QED BY <4>1, RowsStay DEF TaskTypes
    <3>2. CASE v.task \in Rows
      <4>1. /\ task' \in [Tasks -> TaskRow]
            /\ \A u \in Tasks \ {v.task} : task'[u] = task[u]
            /\ task'[v.task].code = task[v.task].code
            /\ task'[v.task].status = IF v.status = "same" THEN task[v.task].status ELSE v.status
        BY <1>14, <3>2, UpdatedTask
      <4>2. task[v.task].code > 0 /\ task[v.task].code \in Nat /\ task[v.task].status \in TaskStatuses
        BY <3>2 DEF TaskTypes, TaskRow, Rows
      <4>3. task'[v.task] # NoTaskRow
        BY <4>1, <4>2 DEF NoTaskRow
      <4>4. Rows' = Rows
        BY <3>2, <4>1, <4>3 DEF Rows
      <4> QED BY <2>1, <3>2, <4>1, <4>2, <4>4 DEF TaskTypes, Rows
    <3> QED BY <3>1, <3>2
  <2>5. feed' \in [Tasks -> Seq(ActivityRow)] /\ comments' \in [Tasks -> Nat]
    BY <2>1 DEF TaskTypes
  <2>6. \A u \in Tasks \ Rows' : feed'[u] = <<>> /\ comments'[u] = 0
    BY <2>1, <2>4 DEF TaskTypes
  <2>7. \A u \in Rows' : task'[u].code > 0 /\ task'[u].status \in TaskStatuses
    BY <2>4 DEF TaskTypes
  <2>8. IsFiniteSet(Rows') /\ "none" \notin Rows'
    BY <2>4 DEF TaskTypes
  <2> QED BY <2>2, <2>3, <2>4, <2>5, <2>6, <2>7, <2>8, TypesKeep
<1>15. ASSUME NEW m \in Members, NEW t \in Tasks, DeleteTask(m, t) PROVE TaskTypes'
  <2>1. /\ task' = [task EXCEPT ![t] = NoTaskRow] /\ t \in Rows
        /\ feed' = [feed EXCEPT ![t] = <<>>] /\ comments' = [comments EXCEPT ![t] = 0]
        /\ UNCHANGED working
    BY <1>15 DEF DeleteTask
  <2>2. NoTaskRow \in TaskRow
    BY DEF NoTaskRow, TaskRow, Status
  <2>3. task' \in [Tasks -> TaskRow] /\ \A u \in Tasks : task'[u] = IF u = t THEN NoTaskRow ELSE task[u]
    BY <2>1, <2>2 DEF TaskTypes
  <2>4. Rows' = Rows \ {t}
    BY <2>1, <2>3 DEF Rows
  <2>5. IsFiniteSet(Rows') /\ "none" \notin Rows'
    BY <2>4, FS_RemoveElement DEF TaskTypes
  <2>6. <<>> \in Seq(ActivityRow)
    OBVIOUS
  <2>7. /\ feed' \in [Tasks -> Seq(ActivityRow)]
        /\ \A u \in Tasks : feed'[u] = IF u = t THEN <<>> ELSE feed[u]
    BY <2>1, <2>6 DEF TaskTypes
  <2>8. /\ comments' \in [Tasks -> Nat]
        /\ \A u \in Tasks : comments'[u] = IF u = t THEN 0 ELSE comments[u]
    BY <2>1 DEF TaskTypes
  <2>9. \A u \in Rows' : task'[u].code > 0 /\ task'[u].status \in TaskStatuses
    BY <2>3, <2>4 DEF TaskTypes, Rows
  <2>10. \A u \in Tasks \ Rows' : feed'[u] = <<>> /\ comments'[u] = 0
    BY <2>4, <2>7, <2>8 DEF TaskTypes
  <2> QED BY <2>1, <2>3, <2>5, <2>7, <2>8, <2>9, <2>10 DEF TaskTypes
<1> QED BY <1>1, <1>3, <1>5, <1>6, <1>8, <1>9, <1>11, <1>12, <1>13, <1>14, <1>15 DEF TasksNext

LEMMA WrongStays ==
    [TasksNext]_taskVars =>
        /\ "overlap" \in wrong' <=> "overlap" \in wrong
        /\ "delete" \in wrong' <=> "delete" \in wrong
        /\ "failed" \notin wrong' => "failed" \notin wrong /\ wrong' = wrong
<1> SUFFICES ASSUME [TasksNext]_taskVars PROVE wrong' = wrong \/ wrong' = (wrong \ {"fail"}) \cup {"failed"}
  OBVIOUS
<1> QED BY DEF TasksNext, taskVars, Count, InsertTask, RecordCreated, ReadTask, UpdateTask, RecordUpdate,
               DeleteTask, CreateComment, RecordComment, ReplyComment, Abort

\* Whoever makes a step does so alone.
LEMMA OneAtWork ==
    ASSUME TaskTypes, OneRequest, "overlap" \notin wrong, NEW m \in Members
    PROVE  /\ working[m].at # "idle" => Others(m)
           /\ \A w : Start(m, w) => working[m] = NotWorking /\ Others(m)
           /\ \A t : DeleteTask(m, t) => working[m] = NotWorking /\ Others(m)
BY NotWorkingIsWork DEF OneRequest, Start, DeleteTask, Quiet, Others

LEMMA OneGoesOn ==
    ASSUME TaskTypes, NEW m \in Members, Others(m), NEW w \in Work, working' = [working EXCEPT ![m] = w],
           w.at = "insert" => w.count = CountTasks',
           w.at = "reply" =>
               /\ feed'[w.task] # <<>>
               /\ feed'[w.task][Len(feed'[w.task])].action = "commented"
               /\ feed'[w.task][Len(feed'[w.task])].by = m
    PROVE  OneRequest'
<1>1. \A n \in Members : working'[n] = IF n = m THEN w ELSE NotWorking
  BY Working DEF Others
<1>2. \A n \in Members : working'[n] # NotWorking => n = m
  BY <1>1
<1>3. Others(m)'
  BY <1>1 DEF Others
<1>4. ASSUME NEW n \in Members, working'[n] # NotWorking
      PROVE  /\ Others(n)'
             /\ working'[n].at = "insert" => working'[n].count = CountTasks'
             /\ working'[n].at = "reply" =>
                   /\ feed'[working'[n].task] # <<>>
                   /\ feed'[working'[n].task][Len(feed'[working'[n].task])].action = "commented"
                   /\ feed'[working'[n].task][Len(feed'[working'[n].task])].by = n
  <2>1. n = m /\ working'[n] = w
    BY <1>1, <1>2, <1>4
  <2> QED BY <1>3, <2>1
<1> QED BY <1>4 DEF OneRequest

LEMMA OneFinishes ==
    ASSUME TaskTypes, NEW m \in Members, Others(m), Finish(m) PROVE OneRequest'
BY NotWorkingIsWork, OneGoesOn DEF Finish

LEMMA NothingAnswered == ASSUME answer' = NoAnswer PROVE Answered'
BY DEF NoAnswer, Answered

LEMMA RequestStep ==
    TaskTypes /\ OneRequest /\ Answered /\ "overlap" \notin wrong /\ [TasksNext]_taskVars
        => OneRequest' /\ Answered'
<1> SUFFICES ASSUME TaskTypes, OneRequest, Answered, "overlap" \notin wrong, [TasksNext]_taskVars
             PROVE  OneRequest' /\ Answered'
  OBVIOUS
<1>1. CASE UNCHANGED taskVars
  <2>1. CountTasks' = CountTasks
    BY <1>1, RowsStay DEF taskVars
  <2>2. \A m \in Members : Others(m) => Others(m)'
    BY <1>1 DEF taskVars, Others
  <2>3. OneRequest'
    BY <1>1, <2>1, <2>2 DEF taskVars, OneRequest
  <2> QED BY <1>1, <2>3 DEF taskVars, Answered
<1>2. ASSUME NEW m \in Members, Count(m) PROVE OneRequest' /\ Answered'
  <2> DEFINE w == [NotWorking EXCEPT !.at = "insert", !.count = CountTasks]
  <2>1. Start(m, w) /\ UNCHANGED task
    BY <1>2 DEF Count
  <2>2. CountTasks \in Nat
    BY FS_CardinalityType DEF CountTasks, TaskTypes
  <2>3. w \in Work /\ w.at = "insert" /\ w.count = CountTasks
    BY <2>2 DEF NotWorking, Work, Status
  <2> HIDE DEF w
  <2>4. Others(m) /\ working' = [working EXCEPT ![m] = w] /\ answer' = NoAnswer /\ CountTasks' = CountTasks
    BY <2>1, OneAtWork, RowsStay DEF Start
  <2>5. OneRequest'
    BY <2>3, <2>4, OneGoesOn
  <2> QED BY <2>4, <2>5, NothingAnswered
<1>4. ASSUME NEW m \in Members, NEW w \in Work, Start(m, w), w.at \in {"update", "comment"}
      PROVE  OneRequest' /\ Answered'
  <2>1. Others(m) /\ working' = [working EXCEPT ![m] = w] /\ answer' = NoAnswer
    BY <1>4, OneAtWork DEF Start
  <2>2. OneRequest'
    BY <1>4, <2>1, OneGoesOn
  <2> QED BY <2>1, <2>2, NothingAnswered
<1>5. ASSUME NEW m \in Members, NEW t \in Tasks, NEW s \in TaskStatuses \cup {"same"}, ReadTask(m, t, s)
      PROVE  OneRequest' /\ Answered'
  <2> DEFINE w == [NotWorking EXCEPT !.at = "update", !.task = t, !.status = s,
                                     !.before = task[t].status]
  <2>1. task[t].status \in Status
    BY DEF TaskTypes, TaskRow
  <2>2. w \in Work /\ w.at = "update"
    BY <2>1 DEF NotWorking, Work, Status
  <2>3. Start(m, w)
    BY <1>5 DEF ReadTask
  <2> HIDE DEF w
  <2> QED BY <1>4, <2>2, <2>3
<1>6. ASSUME NEW m \in Members, NEW t \in Tasks, CreateComment(m, t) PROVE OneRequest' /\ Answered'
  <2> DEFINE w == [NotWorking EXCEPT !.at = "comment", !.task = t]
  <2>1. w \in Work /\ w.at = "comment"
    BY DEF NotWorking, Work, Status
  <2>2. Start(m, w)
    BY <1>6 DEF CreateComment
  <2> HIDE DEF w
  <2> QED BY <1>4, <2>1, <2>2
<1>7. ASSUME NEW m \in Members, working[m].at # "idle", Finish(m), UNCHANGED answer
      PROVE  OneRequest' /\ Answered'
  BY <1>7, OneAtWork, OneFinishes DEF Answered
<1>8. ASSUME NEW m \in Members, RecordCreated(m) \/ RecordUpdate(m) \/ Abort(m)
      PROVE  OneRequest' /\ Answered'
  BY <1>7, <1>8, NotWorkingIsWork DEF RecordCreated, RecordUpdate, Abort, TaskTypes, WellFormed
<1>9. ASSUME NEW m \in Members, NEW w \in Work, working[m].at # "idle", working' = [working EXCEPT ![m] = w],
             w.at \in {"created", "updated"}, UNCHANGED answer
      PROVE  OneRequest' /\ Answered'
  <2>1. OneRequest'
    BY <1>9, OneAtWork, OneGoesOn
  <2> QED BY <1>9, <2>1 DEF Answered
<1>10. ASSUME NEW m \in Members, NEW t \in Tasks, NEW s \in TaskStatuses, InsertTask(m, t, s)
       PROVE  OneRequest' /\ Answered'
  <2> DEFINE w == [working[m] EXCEPT !.at = "created", !.task = t]
  <2>1. w \in Work /\ w.at = "created"
    BY DEF TaskTypes, Work
  <2>2. working' = [working EXCEPT ![m] = w] /\ working[m].at = "insert" /\ UNCHANGED answer
    BY <1>10 DEF InsertTask
  <2> HIDE DEF w
  <2> QED BY <1>9, <2>1, <2>2
<1>11. ASSUME NEW m \in Members, UpdateTask(m) PROVE OneRequest' /\ Answered'
  <2>1. working[m].at = "update" /\ UNCHANGED answer
    BY <1>11 DEF UpdateTask
  <2>2. CASE Finish(m)
    BY <1>7, <2>1, <2>2
  <2>3. CASE Continue(m, "updated")
    <3> DEFINE w == [working[m] EXCEPT !.at = "updated"]
    <3>1. w \in Work /\ w.at = "updated"
      BY GoesOn
    <3>2. working' = [working EXCEPT ![m] = w]
      BY <2>3 DEF Continue
    <3> HIDE DEF w
    <3> QED BY <1>9, <2>1, <3>1, <3>2
  <2> QED BY <1>11, <2>2, <2>3 DEF UpdateTask
<1>12. ASSUME NEW m \in Members, NEW t \in Tasks, DeleteTask(m, t) PROVE OneRequest' /\ Answered'
  <2>1. \A n \in Members : working'[n] = NotWorking
    BY <1>12, OneAtWork DEF DeleteTask, Others
  <2> QED BY <1>12, <2>1 DEF DeleteTask, OneRequest, Answered
<1>13. ASSUME NEW m \in Members, RecordComment(m) PROVE OneRequest' /\ Answered'
  <2>1. working[m].at = "comment" /\ UNCHANGED <<task, answer>>
    BY <1>13 DEF RecordComment
  <2>2. CASE working[m].task \in Rows
    <3>1. PICK t \in Rows : t = working[m].task
      BY <2>2
    <3> DEFINE w == [working[m] EXCEPT !.at = "reply"]
               r == [by |-> m, action |-> "commented", from |-> "none", to |-> "none"]
    <3>2. /\ CreateActivity(t, m, "commented", "none", "none")
          /\ working' = [working EXCEPT ![m] = w]
      BY <1>13, <2>2, <3>1 DEF RecordComment, Continue
    <3>3. w \in Work /\ w.at = "reply" /\ w.task = t
      BY <3>1, GoesOn
    <3>4. r \in ActivityRow /\ feed'[t] = Append(feed[t], r) /\ r.action = "commented" /\ r.by = m
      BY <3>2, Recorded DEF Status
    <3> HIDE DEF w, r
    <3>5. feed'[t] # <<>> /\ feed'[t][Len(feed'[t])] = r
      <4>1. feed[t] \in Seq(ActivityRow)
        BY DEF TaskTypes, Rows
      <4> QED BY <3>4, <4>1
    <3>6. OneRequest'
      BY <2>1, <3>2, <3>3, <3>4, <3>5, OneAtWork, OneGoesOn
    <3> QED BY <2>1, <3>6 DEF Answered
  <2>3. CASE working[m].task \notin Rows
    BY <1>7, <1>13, <2>1, <2>3 DEF RecordComment
  <2> QED BY <2>2, <2>3
<1>14. ASSUME NEW m \in Members, ReplyComment(m) PROVE OneRequest' /\ Answered'
  <2>1. working[m].at = "reply" /\ Finish(m)
    BY <1>14 DEF ReplyComment
  <2>2. OneRequest'
    BY <2>1, OneAtWork, OneFinishes
  <2>3. answer' = [NoAnswer EXCEPT !.to = m, !.commentOf = m]
    BY <1>14, <2>1, NotWorkingIsWork DEF ReplyComment, OneRequest
  <2> QED BY <2>2, <2>3 DEF Answered, NoAnswer
<1> QED BY <1>1, <1>2, <1>5, <1>6, <1>8, <1>10, <1>11, <1>12, <1>13, <1>14 DEF TasksNext

LEMMA CodesStep ==
    TaskTypes /\ OneRequest /\ Numbered /\ "overlap" \notin wrong /\ "delete" \notin wrong /\ [TasksNext]_taskVars
        => Numbered'
<1> SUFFICES ASSUME TaskTypes, OneRequest, Numbered, "overlap" \notin wrong, "delete" \notin wrong,
                    [TasksNext]_taskVars
             PROVE  Numbered'
  OBVIOUS
<1>1. CASE task' = task
  BY <1>1, RowsStay DEF Numbered
<1>2. ASSUME NEW m \in Members, NEW t \in Tasks, NEW s \in TaskStatuses, InsertTask(m, t, s)
      PROVE  Numbered'
  <2>1. PICK n \in Nat : n = CountTasks
    BY FS_CardinalityType DEF CountTasks, TaskTypes
  <2>2. /\ task' = [task EXCEPT ![t] = [code |-> n + 1, status |-> s, by |-> m]]
        /\ t \notin Rows
    BY <1>2, <2>1, NotWorkingIsWork DEF InsertTask, OneRequest
  <2>3. \A u \in Tasks : task'[u] = IF u = t THEN [code |-> n + 1, status |-> s, by |-> m]
                                    ELSE task[u]
    BY <2>2 DEF TaskTypes
  <2>4. Rows' = Rows \cup {t}
    BY <2>1, <2>3 DEF Rows, NoTaskRow
  <2>5. CountTasks' = n + 1
    BY <2>1, <2>2, <2>4, FS_AddElement DEF TaskTypes, CountTasks
  <2>6. {task'[u].code : u \in Rows'} = {task[u].code : u \in Rows} \cup {n + 1}
    BY <2>2, <2>3, <2>4 DEF Rows
  <2>7. (1..n) \cup {n + 1} = 1..(n + 1)
    BY <2>1
  <2> QED BY <2>1, <2>5, <2>6, <2>7 DEF Numbered
<1>3. ASSUME NEW m \in Members, UpdateTask(m), working[m].task \in Rows PROVE Numbered'
  <2>1. PICK t \in Rows : t = working[m].task
    BY <1>3
  <2>2. /\ task' \in [Tasks -> TaskRow]
        /\ \A u \in Tasks \ {t} : task'[u] = task[u]
        /\ task'[t].code = task[t].code
    BY <1>3, <2>1, UpdatedTask
  <2>3. task'[t] # NoTaskRow
    BY <2>2 DEF TaskTypes, NoTaskRow
  <2>4. Rows' = Rows
    BY <2>2, <2>3 DEF Rows
  <2>5. \A u \in Rows : task'[u].code = task[u].code
    BY <2>2 DEF Rows
  <2>6. CountTasks' = CountTasks
    BY <2>4 DEF CountTasks
  <2> QED BY <2>4, <2>5, <2>6 DEF Numbered
<1>4. ASSUME NEW m \in Members, UpdateTask(m), working[m].task \notin Rows PROVE Numbered'
  BY <1>1, <1>4 DEF UpdateTask
<1> QED BY <1>1, <1>2, <1>3, <1>4 DEF TasksNext, taskVars, Count, RecordCreated, ReadTask, RecordUpdate,
            DeleteTask, CreateComment, RecordComment, ReplyComment, Abort

\* The tasks that the request in progress is not about.
LEMMA TheOthersAreSettled ==
    ASSUME NEW m \in Members, Others(m), NEW t \in Tasks, t # "none", FeedFits(t), working[m].task # t
    PROVE  Settled(t)
<1>1. \A n \in Members : working[n].task # t
  BY NotWorkingIsWork DEF Others
<1> QED BY <1>1 DEF FeedFits

\* The one that it is about.
LEMMA ItsTaskFits ==
    ASSUME NEW m \in Members, Others(m), NEW t \in Tasks, t # "none", FeedFits(t), working[m].task = t
    PROVE  Fits(working[m], t)
<1>1. \A n \in Members : working[n].task = t => n = m
  BY NotWorkingIsWork DEF Others
<1>2. ~Idle(t)
  BY DEF Idle
<1> QED BY <1>1, <1>2 DEF FeedFits

LEMMA SettledStays ==
    ASSUME NEW t \in Tasks, Settled(t), feed'[t] = feed[t], comments'[t] = comments[t],
           task'[t].status = task[t].status
    PROVE  Settled(t)'
BY FeedStays DEF Settled

\* What the step of a request leaves of the tasks: those it is not about, and its own.
LEMMA FeedsKeep ==
    ASSUME TaskTypes, NEW m \in Members, NEW w \in Work, Others(m), working' = [working EXCEPT ![m] = w],
           \A t \in Rows : FeedFits(t), NEW own, Rows' \subseteq Rows \cup {own},
           working[m].task \in {"none", own},
           \A t \in Rows \ {own} : /\ feed'[t] = feed[t] /\ comments'[t] = comments[t]
                                   /\ task'[t].status = task[t].status,
           w.task \in {"none", own},
           own \in Rows' => IF w.task = own THEN Fits(w, own)' ELSE Settled(own)'
    PROVE  \A t \in Rows' : FeedFits(t)'
<1>0. /\ \A n \in Members : working'[n] = IF n = m THEN w ELSE working[n]
      /\ "none" \notin Rows /\ Rows \subseteq Tasks /\ Rows' \subseteq Tasks
  BY Working DEF TaskTypes, Rows
<1> SUFFICES ASSUME NEW t \in Rows' PROVE FeedFits(t)'
  OBVIOUS
<1>1. CASE t # own
  <2>1. t \in Rows /\ t # "none" /\ working[m].task # t /\ w.task # t
    BY <1>0, <1>1
  <2>2. Settled(t)'
    BY <1>0, <1>1, <2>1, TheOthersAreSettled, SettledStays
  <2>3. Idle(t)'
    BY <1>0, <2>1, NotWorkingIsWork DEF Idle, Others
  <2> QED BY <2>2, <2>3 DEF FeedFits
<1>2. CASE t = own /\ w.task = own
  <2>1. working'[m] = w
    BY <1>0
  <2>2. Fits(working[m], t)'
    BY <1>2, <2>1 DEF Fits
  <2> QED BY <1>2, <2>1, <2>2 DEF FeedFits
<1>3. CASE t = own /\ w.task # own
  <2>1. CASE t = "none"
    BY <1>3, <2>1
  <2>2. CASE t # "none"
    <3>1. Idle(t)'
      BY <1>0, <1>3, <2>2, NotWorkingIsWork DEF Idle, Others
    <3> QED BY <1>3, <3>1 DEF FeedFits
  <2> QED BY <2>1, <2>2
<1> QED BY <1>1, <1>2, <1>3

LEMMA FeedStep ==
    ASSUME TaskTypes, OneRequest, "overlap" \notin wrong, "failed" \notin wrong',
           \A t \in Rows : FeedFits(t), [TasksNext]_taskVars
    PROVE  \A t \in Rows' : FeedFits(t)'
<1>0. Rows \subseteq Tasks /\ "none" \notin Rows
  BY DEF Rows, TaskTypes
<1>1. CASE UNCHANGED taskVars
  <2>1. Rows' = Rows
    BY <1>1, RowsStay DEF taskVars
  <2>2. ASSUME NEW t \in Rows PROVE FeedFits(t)'
    <3>1. CommentsOf(t)' = CommentsOf(t) /\ \A s : Tells(t, s)' = Tells(t, s)
      BY <1>0, <1>1, FeedStays DEF taskVars
    <3>2. Settled(t)' = Settled(t) /\ Idle(t)' = Idle(t)
      BY <1>1, <3>1 DEF taskVars, Settled, Idle
    <3>3. \A m \in Members : Fits(working[m], t) => Fits(working[m], t)'
      BY <1>1, <3>1, <3>2 DEF taskVars, Fits
    <3> QED BY <1>1, <3>2, <3>3 DEF taskVars, FeedFits
  <2> QED BY <2>1, <2>2
<1>2. ASSUME NEW m \in Members, NEW w \in Work, Start(m, w), UNCHANGED <<task, feed>>,
             NEW own, w.task \in {"none", own}, w.task = "none" => UNCHANGED comments,
             \A t \in Rows \ {own} : comments'[t] = comments[t],
             own \in Rows /\ Settled(own) => IF w.task = own THEN Fits(w, own)' ELSE Settled(own)'
      PROVE  \A t \in Rows' : FeedFits(t)'
  <2>1. Others(m) /\ working[m] = NotWorking /\ working' = [working EXCEPT ![m] = w]
    BY <1>2, OneAtWork DEF Start
  <2>2. Rows' = Rows
    BY <1>2, RowsStay
  <2>3. own \in Rows => Settled(own)
    BY <1>0, <2>1, NotWorkingIsWork, TheOthersAreSettled
  <2> QED BY <1>2, <2>1, <2>2, <2>3, NotWorkingIsWork, FeedsKeep
<1>3. ASSUME NEW m \in Members, NEW w \in Work, Start(m, w), UNCHANGED <<task, feed, comments>>, w.task = "none"
      PROVE  \A t \in Rows' : FeedFits(t)'
  BY <1>0, <1>2, <1>3
<1>4. ASSUME NEW m \in Members, Count(m) PROVE \A t \in Rows' : FeedFits(t)'
  <2> DEFINE w == [NotWorking EXCEPT !.at = "insert", !.count = CountTasks]
  <2>1. CountTasks \in Nat
    BY FS_CardinalityType DEF CountTasks, TaskTypes
  <2>2. w \in Work /\ w.task = "none"
    BY <2>1 DEF NotWorking, Work, Status
  <2>3. Start(m, w) /\ UNCHANGED <<task, feed, comments>>
    BY <1>4 DEF Count
  <2> HIDE DEF w
  <2> QED BY <1>3, <2>2, <2>3
<1>6. ASSUME NEW m \in Members, NEW t \in Tasks, NEW s \in TaskStatuses \cup {"same"}, ReadTask(m, t, s)
      PROVE  \A u \in Rows' : FeedFits(u)'
  <2>0. PICK before \in Status : before = task[t].status
    BY DEF TaskTypes, TaskRow
  <2>1. PICK w : w = [NotWorking EXCEPT !.at = "update", !.task = t, !.status = s,
                                        !.before = before]
    OBVIOUS
  <2>2. w \in Work /\ w.at = "update" /\ w.task = t /\ w.before = task[t].status
    BY <2>0, <2>1 DEF NotWorking, Work, Status
  <2>3. Start(m, w) /\ UNCHANGED <<task, feed, comments>> /\ t \in Rows
    BY <1>6, <2>0, <2>1 DEF ReadTask
  <2>4. Settled(t) => Settled(t)'
    BY <2>3, SettledStays
  <2>5. Settled(t) => Fits(w, t)'
    BY <2>2, <2>3, <2>4 DEF Fits
  <2> QED BY <1>2, <2>2, <2>3, <2>5
<1>7. ASSUME NEW m \in Members, NEW t \in Tasks, CreateComment(m, t) PROVE \A u \in Rows' : FeedFits(u)'
  <2> DEFINE w == [NotWorking EXCEPT !.at = "comment", !.task = t]
  <2>1. w \in Work /\ w.at = "comment" /\ w.task = t
    BY DEF NotWorking, Work, Status
  <2>2. /\ Start(m, w) /\ UNCHANGED <<task, feed>> /\ t \in Rows
        /\ comments'[t] = comments[t] + 1
        /\ \A u \in Rows \ {t} : comments'[u] = comments[u]
    BY <1>7 DEF CreateComment, TaskTypes, Rows
  <2> HIDE DEF w
  <2>3. CommentsOf(t)' = CommentsOf(t) /\ \A s : Tells(t, s)' = Tells(t, s)
    BY <2>2, FeedStays
  <2>4. Settled(t) => Fits(w, t)'
    BY <2>1, <2>2, <2>3 DEF Fits, Settled
  <2>5. t # "none"
    BY <1>0, <2>2
  <2> QED BY <1>2, <2>1, <2>2, <2>4, <2>5
<1>8. ASSUME NEW m \in Members, working[m].at # "idle", Finish(m), UNCHANGED <<task, feed, comments>>,
             working[m].task \in Rows => (Fits(working[m], working[m].task) => Settled(working[m].task))
      PROVE  \A t \in Rows' : FeedFits(t)'
  <2>1. PICK own : own = working[m].task
    OBVIOUS
  <2>2. Others(m) /\ working' = [working EXCEPT ![m] = NotWorking] /\ Rows' = Rows
    BY <1>8, OneAtWork, RowsStay DEF Finish
  <2>3. own \in Rows => Settled(own)'
    BY <1>0, <1>8, <2>1, <2>2, ItsTaskFits, SettledStays
  <2>4. own \in Rows => NotWorking.task # own
    BY <1>0, NotWorkingIsWork
  <2> QED BY <1>8, <2>1, <2>2, <2>3, <2>4, NotWorkingIsWork, FeedsKeep
<1>9. ASSUME NEW m \in Members, ReplyComment(m) PROVE \A t \in Rows' : FeedFits(t)'
  <2>1. working[m].at = "reply" /\ Finish(m) /\ UNCHANGED <<task, feed, comments>>
    BY <1>9 DEF ReplyComment
  <2>2. \A t : Fits(working[m], t) => Settled(t)
    BY <2>1 DEF Fits
  <2> QED BY <1>8, <2>1, <2>2
<1>10. ASSUME NEW m \in Members, NEW t \in Tasks, NEW s \in TaskStatuses, InsertTask(m, t, s)
       PROVE  \A u \in Rows' : FeedFits(u)'
  <2>0. PICK w : w = [working[m] EXCEPT !.at = "created", !.task = t]
    OBVIOUS
  <2>1. w \in Work /\ w.at = "created" /\ w.task = t
    BY <2>0 DEF TaskTypes, Work
  <2>2. /\ working' = [working EXCEPT ![m] = w] /\ working[m].at = "insert" /\ t \notin Rows
        /\ task' = [task EXCEPT ![t] = [code |-> working[m].count + 1, status |-> s, by |-> m]]
        /\ UNCHANGED <<feed, comments>>
    BY <1>10, <2>0 DEF InsertTask
  <2>3. Others(m) /\ working[m].task = "none"
    BY <2>2, OneAtWork DEF TaskTypes, WellFormed
  <2>4. \A u \in Tasks \ {t} : task'[u] = task[u]
    BY <2>2 DEF TaskTypes
  <2>5. Rows' \subseteq Rows \cup {t}
    BY <2>4 DEF Rows
  <2>6. feed'[t] = <<>> /\ comments'[t] = 0
    BY <2>2 DEF TaskTypes
  <2>7. Fits(w, t)'
    BY <2>1, <2>6 DEF Fits
  <2>8. \A u \in Rows \ {t} : /\ feed'[u] = feed[u] /\ comments'[u] = comments[u]
                              /\ task'[u].status = task[u].status
    BY <1>0, <2>2, <2>4
  <2> QED BY <2>1, <2>2, <2>3, <2>5, <2>7, <2>8, FeedsKeep
\* A step that records something of its task.
<1>11. ASSUME NEW m \in Members, NEW w \in Work, working[m].at # "idle", working' = [working EXCEPT ![m] = w],
              NEW t \in Rows, t = working[m].task, UNCHANGED <<task, comments>>,
              \A u \in Tasks \ {t} : feed'[u] = feed[u], w.task \in {"none", t},
              Fits(working[m], t) => IF w.task = t THEN Fits(w, t)' ELSE Settled(t)'
       PROVE  \A u \in Rows' : FeedFits(u)'
  <2>1. Others(m) /\ Rows' = Rows
    BY <1>11, OneAtWork, RowsStay
  <2>2. Fits(working[m], t)
    BY <1>0, <1>11, <2>1, ItsTaskFits
  <2> QED BY <1>0, <1>11, <2>1, <2>2, FeedsKeep
<1>12. ASSUME NEW m \in Members, RecordCreated(m) PROVE \A t \in Rows' : FeedFits(t)'
  <2>1. working[m].at = "created" /\ Finish(m) /\ UNCHANGED <<task, comments>>
    BY <1>12 DEF RecordCreated
  <2>2. CASE working[m].task \in Rows
    <3>1. PICK t \in Rows : t = working[m].task
      BY <2>2
    <3> DEFINE r == [by |-> m, action |-> "created", from |-> "none", to |-> "none"]
    <3>2. CreateActivity(t, m, "created", "none", "none")
      BY <1>12, <2>2, <3>1 DEF RecordCreated
    <3>3. /\ r \in ActivityRow /\ feed'[t] = Append(feed[t], r) /\ r.action = "created"
          /\ \A u \in Tasks \ {t} : feed'[u] = feed[u]
      BY <3>2, Recorded DEF Status
    <3> HIDE DEF r
    <3>4. ASSUME Fits(working[m], t) PROVE Settled(t)'
      <4>1. feed[t] = <<>> /\ comments'[t] = 0
        BY <2>1, <3>4 DEF Fits
      <4>2. CommentsOf(t)' = {} /\ \A s : Tells(t, s)'
        BY <1>0, <3>3, <4>1, CreationIsTold DEF TaskTypes
      <4> QED BY <4>1, <4>2, FS_EmptySet DEF Settled
    <3>5. NotWorking.task = "none" /\ t # "none"
      BY <1>0, NotWorkingIsWork
    <3> QED BY <1>11, <2>1, <3>1, <3>3, <3>4, <3>5, NotWorkingIsWork DEF Finish
  <2>3. CASE working[m].task \notin Rows
    BY <1>8, <1>12, <2>1, <2>3 DEF RecordCreated
  <2> QED BY <2>2, <2>3
<1>13. ASSUME NEW m \in Members, RecordUpdate(m) PROVE \A t \in Rows' : FeedFits(t)'
  <2>1. working[m].at = "updated" /\ Finish(m) /\ UNCHANGED <<task, comments>>
    BY <1>13 DEF RecordUpdate
  <2>2. CASE working[m].task \in Rows
    <3>1. PICK t \in Rows : t = working[m].task
      BY <2>2
    <3>2. PICK before \in Status \cup {"same"}, status \in Status \cup {"same"} :
              before = working[m].before /\ status = working[m].status
      BY DEF TaskTypes, Work
    <3>0. PICK r : r = [by |-> m, action |-> "status_changed", from |-> before, to |-> status]
      OBVIOUS
    <3>3. CreateActivity(t, m, "status_changed", before, status)
      BY <1>13, <2>2, <3>1, <3>2 DEF RecordUpdate
    <3>4. /\ r \in ActivityRow /\ feed'[t] = Append(feed[t], r) /\ r.action = "status_changed"
          /\ r.from = before /\ r.to = status
          /\ \A u \in Tasks \ {t} : feed'[u] = feed[u]
      BY <3>0, <3>3, Recorded
    <3>5. ASSUME Fits(working[m], t) PROVE Settled(t)'
      <4>1. Tells(t, before) /\ status = task'[t].status /\ comments'[t] = Cardinality(CommentsOf(t))
        BY <2>1, <3>2, <3>5 DEF Fits
      <4>2. Tells(t, r.to)' /\ CommentsOf(t)' = CommentsOf(t)
        <5>1. Tells(t, r.from) /\ t \in Tasks /\ feed \in [Tasks -> Seq(ActivityRow)]
          BY <1>0, <3>4, <4>1 DEF TaskTypes
        <5> QED BY <3>4, <5>1, ChangesAreTold
      <4> QED BY <3>4, <4>1, <4>2 DEF Settled
    <3>6. NotWorking.task = "none" /\ t # "none"
      BY <1>0, NotWorkingIsWork
    <3> QED BY <1>11, <2>1, <3>1, <3>4, <3>5, <3>6, NotWorkingIsWork DEF Finish
  <2>3. CASE working[m].task \notin Rows
    BY <1>8, <1>13, <2>1, <2>3 DEF RecordUpdate
  <2> QED BY <2>2, <2>3
<1>14. ASSUME NEW m \in Members, RecordComment(m) PROVE \A t \in Rows' : FeedFits(t)'
  <2>1. working[m].at = "comment" /\ UNCHANGED <<task, comments>>
    BY <1>14 DEF RecordComment
  <2>2. CASE working[m].task \in Rows
    <3>1. PICK t \in Rows : t = working[m].task
      BY <2>2
    <3> DEFINE w == [working[m] EXCEPT !.at = "reply"]
               r == [by |-> m, action |-> "commented", from |-> "none", to |-> "none"]
    <3>2. /\ CreateActivity(t, m, "commented", "none", "none")
          /\ working' = [working EXCEPT ![m] = w]
      BY <1>14, <2>2, <3>1 DEF RecordComment, Continue
    <3>3. w \in Work /\ w.at = "reply" /\ w.task = t
      BY <3>1, GoesOn
    <3>4. /\ r \in ActivityRow /\ feed'[t] = Append(feed[t], r) /\ r.action = "commented"
          /\ \A u \in Tasks \ {t} : feed'[u] = feed[u]
      BY <3>2, Recorded DEF Status
    <3>5. PICK v \in Work : v = w
      BY <3>3
    <3> HIDE DEF w, r
    <3>6. ASSUME Fits(working[m], t) PROVE Fits(v, t)'
      <4>1. Tells(t, task[t].status) /\ comments'[t] = Cardinality(CommentsOf(t)) + 1
        BY <2>1, <3>6 DEF Fits
      <4>2. Cardinality(CommentsOf(t)') = Cardinality(CommentsOf(t)) + 1 /\ \A s : Tells(t, s) => Tells(t, s)'
        BY <1>0, <3>4, CommentsAreCounted DEF TaskTypes
      <4>3. Settled(t)'
        BY <2>1, <4>1, <4>2 DEF Settled
      <4> QED BY <3>3, <3>5, <4>3 DEF Fits
    <3> QED BY <1>11, <2>1, <3>1, <3>2, <3>3, <3>4, <3>5, <3>6
  <2>3. CASE working[m].task \notin Rows
    BY <1>8, <1>14, <2>1, <2>3 DEF RecordComment
  <2> QED BY <2>2, <2>3
<1>15. ASSUME NEW m \in Members, UpdateTask(m) PROVE \A t \in Rows' : FeedFits(t)'
  <2>1. working[m].at = "update" /\ UNCHANGED <<feed, comments>>
    BY <1>15 DEF UpdateTask
  <2>2. CASE working[m].task \in Rows
    <3>1. PICK t \in Rows : t = working[m].task
      BY <2>2
    <3>2. /\ task' \in [Tasks -> TaskRow]
          /\ \A u \in Tasks \ {t} : task'[u] = task[u]
          /\ task'[t].status = IF working[m].status = "same" THEN task[t].status ELSE working[m].status
      BY <1>15, <2>2, <3>1, UpdatedTask
    <3>3. Others(m) /\ Fits(working[m], t)
      BY <1>0, <2>1, <3>1, OneAtWork, ItsTaskFits
    <3>4. Settled(t) /\ working[m].before = task[t].status
      BY <2>1, <3>3 DEF Fits
    <3>5. CommentsOf(t)' = CommentsOf(t) /\ \A s : Tells(t, s)' = Tells(t, s)
      BY <1>0, <2>1, FeedStays
    <3>6. Rows' \subseteq Rows \cup {t}
      BY <3>2 DEF Rows
    <3>7. \A u \in Rows \ {t} : /\ feed'[u] = feed[u] /\ comments'[u] = comments[u]
                                /\ task'[u].status = task[u].status
      BY <1>0, <2>1, <3>2
    <3>8. CASE working[m].status \in {"same", working[m].before}
      <4>1. Finish(m)
        BY <1>15, <3>8 DEF UpdateTask
      <4>2. task'[t].status = task[t].status
        BY <3>2, <3>4, <3>8
      <4>3. Settled(t)'
        BY <2>1, <3>4, <3>5, <4>2 DEF Settled
      <4>4. NotWorking.task = "none" /\ t # "none"
        BY <1>0, NotWorkingIsWork
      <4> QED BY <3>1, <3>3, <3>6, <3>7, <4>1, <4>3, <4>4, NotWorkingIsWork, FeedsKeep DEF Finish
    <3>9. CASE working[m].status \notin {"same", working[m].before}
      <4>1. PICK w \in Work : w = [working[m] EXCEPT !.at = "updated"]
        BY GoesOn
      <4>2. /\ w.at = "updated" /\ w.task = t /\ w.before = working[m].before
            /\ w.status = working[m].status
        BY <3>1, <4>1, GoesOn
      <4>3. working' = [working EXCEPT ![m] = w]
        BY <1>15, <3>9, <4>1 DEF UpdateTask, Continue
      <4>4. Tells(t, w.before)' /\ w.status = task'[t].status /\ comments'[t] = Cardinality(CommentsOf(t)')
        BY <2>1, <3>2, <3>4, <3>5, <3>9, <4>2 DEF Settled
      <4>5. Fits(w, t)'
        BY <4>2, <4>4 DEF Fits
      <4> QED BY <3>1, <3>3, <3>6, <3>7, <4>2, <4>3, <4>5, FeedsKeep
    <3> QED BY <3>8, <3>9
  <2>3. CASE working[m].task \notin Rows
    <3>1. task' = task
      BY <1>15, <2>3 DEF UpdateTask
    <3>2. PICK own : own = working[m].task
      OBVIOUS
    <3>3. PICK w \in Work : working' = [working EXCEPT ![m] = w] /\ w.task \in {"none", own}
      BY <1>15, <3>2, NotWorkingIsWork, GoesOn DEF UpdateTask, Finish, Continue
    <3>4. Others(m) /\ Rows' = Rows
      BY <2>1, <3>1, OneAtWork, RowsStay
    <3> QED BY <2>1, <2>3, <3>1, <3>2, <3>3, <3>4, FeedsKeep
  <2> QED BY <2>2, <2>3
<1>16. ASSUME NEW m \in Members, NEW t \in Tasks, DeleteTask(m, t) PROVE \A u \in Rows' : FeedFits(u)'
  <2>1. Others(m) /\ working[m] = NotWorking /\ UNCHANGED working
    BY <1>16, OneAtWork DEF DeleteTask
  <2>2. /\ task' = [task EXCEPT ![t] = NoTaskRow]
        /\ feed' = [feed EXCEPT ![t] = <<>>]
        /\ comments' = [comments EXCEPT ![t] = 0]
    BY <1>16 DEF DeleteTask
  <2>3. Rows' = Rows \ {t} /\ \A u \in Tasks \ {t} : task'[u] = task[u]
    BY <2>2 DEF Rows, TaskTypes
  <2>4. \A u \in Tasks \ {t} : feed'[u] = feed[u] /\ comments'[u] = comments[u]
    BY <2>2 DEF TaskTypes
  <2>5. working' = [working EXCEPT ![m] = NotWorking]
    BY <2>1 DEF TaskTypes
  <2>6. /\ Rows' \subseteq Rows \cup {t} /\ t \notin Rows'
        /\ \A u \in Rows \ {t} : /\ feed'[u] = feed[u] /\ comments'[u] = comments[u]
                                 /\ task'[u].status = task[u].status
    BY <1>0, <2>3, <2>4
  <2>7. working[m].task \in {"none", t} /\ NotWorking.task \in {"none", t} /\ NotWorking \in Work
    BY <2>1, NotWorkingIsWork
  <2> QED BY <2>1, <2>5, <2>6, <2>7, FeedsKeep
<1>19. \A m \in Members : ~Abort(m)
  BY DEF Abort
<1> QED BY <1>1, <1>4, <1>6, <1>7, <1>9, <1>10, <1>12, <1>13, <1>14, <1>15, <1>16, <1>19 DEF TasksNext

LEMMA TasksStart == TasksInit => TasksInv
<1> SUFFICES ASSUME TasksInit PROVE TasksInv
  OBVIOUS
<1>1. Rows = {} /\ IsFiniteSet({}) /\ Cardinality({}) = 0
  BY FS_EmptySet DEF TasksInit, Rows
<1>2. NoTaskRow \in TaskRow /\ <<>> \in Seq(ActivityRow)
  BY DEF NoTaskRow, TaskRow, Status
<1>3. TaskTypes
  BY <1>1, <1>2, NotWorkingIsWork DEF TasksInit, TaskTypes
<1>4. OneRequest /\ Answered
  BY DEF TasksInit, OneRequest, Answered, NoAnswer
<1>5. Numbered
  BY <1>1 DEF Numbered, CountTasks
<1> QED BY <1>1, <1>3, <1>4, <1>5 DEF TasksInv

LEMMA TasksStep == TasksInv /\ [TasksNext]_taskVars => TasksInv'
<1> SUFFICES ASSUME TasksInv, [TasksNext]_taskVars PROVE TasksInv'
  OBVIOUS
<1>1. TaskTypes'
  BY TypesStep DEF TasksInv
<1>2. ASSUME "overlap" \notin wrong' PROVE OneRequest' /\ Answered'
  BY <1>2, WrongStays, RequestStep DEF TasksInv
<1>3. ASSUME "overlap" \notin wrong', "delete" \notin wrong' PROVE Numbered'
  BY <1>3, WrongStays, CodesStep DEF TasksInv
<1>4. ASSUME "overlap" \notin wrong', "failed" \notin wrong' PROVE \A t \in Rows' : FeedFits(t)'
  <2>1. "overlap" \notin wrong /\ "failed" \notin wrong
    BY <1>4, WrongStays
  <2>2. TaskTypes /\ OneRequest /\ \A t \in Rows : FeedFits(t)
    BY <2>1 DEF TasksInv
  <2> QED BY <1>4, <2>1, <2>2, FeedStep
<1> QED BY <1>1, <1>2, <1>3, <1>4 DEF TasksInv

\* Codes number the tasks, the activity of a task tells how it came to its status and counts its
\* comments, and a reply is about the comment it answers, under the mishaps each of these allows.
THEOREM TasksAlwaysAddUp == TasksSpec => []TasksAddUp
<1>1. TasksInv => TasksAddUp
  <2> SUFFICES ASSUME TasksInv PROVE TasksAddUp
    OBVIOUS
  <2>1. ASSUME "overlap" \notin wrong, "failed" \notin wrong, NEW t \in Rows, Idle(t)
        PROVE  Tells(t, task[t].status) /\ comments[t] = Cardinality(CommentsOf(t))
    BY <2>1 DEF TasksInv, FeedFits, Settled, Idle
  <2>2. "overlap" \notin wrong /\ "delete" \notin wrong => {task[t].code : t \in Rows} = 1..CountTasks
    BY DEF TasksInv, Numbered
  <2>3. "overlap" \notin wrong => answer.commentOf = answer.to
    BY DEF TasksInv, Answered
  <2> QED BY <2>1, <2>2, <2>3 DEF TasksAddUp
<1> QED BY <1>1, TasksStart, TasksStep, PTL DEF TasksSpec

-----------------------------------------------------------------------------
(* Direct chats. *)

Opening == [at : {"idle", "create", "self", "other"}, other : Users \cup {"none"}, chat : Nat]

DmTypes ==
    /\ \E n \in Nat : dms \in [1..n -> SUBSET Users]
    /\ opening \in [Users -> Opening]
    /\ \A u \in Users : opening[u].at # "idle" => opening[u].other \in Users \ {u}

NoOverlap == "overlap" \notin amiss

OneOpens == \A u, v \in Users : opening[u] # NotOpening /\ opening[v] # NotOpening => u = v

\* What was looked for is still not there, and the chat has just who was added.
StillMissing ==
    \A u \in Users :
        LET o == opening[u]
        IN  /\ o.at # "idle" => \A d \in DOMAIN dms : ~(u \in dms[d] /\ o.other \in dms[d])
            /\ o.at = "self" => o.chat \in DOMAIN dms /\ dms[o.chat] = {}
            /\ o.at = "other" => o.chat \in DOMAIN dms /\ dms[o.chat] = {u}

OneEachPair ==
    \A c, d \in DOMAIN dms : \A u, v \in dms[c] \cap dms[d] : u # v => c = d

DmInv == DmTypes /\ (NoOverlap => OneOpens /\ StillMissing /\ OneEachPair)

LEMMA IdleOpening == NotOpening \in Opening /\ NotOpening.at = "idle"
BY DEF NotOpening, Opening

LEMMA DmStart == ChatInit => DmInv
<1> SUFFICES ASSUME ChatInit PROVE DmInv
  OBVIOUS
<1>1. dms = << >> /\ dms \in [1..0 -> SUBSET Users] /\ DOMAIN dms = {}
  BY DEF ChatInit
<1>2. DmTypes
  BY <1>1, IdleOpening DEF ChatInit, DmTypes
<1>3. OneOpens /\ StillMissing
  BY <1>1, IdleOpening DEF ChatInit, OneOpens, StillMissing
<1>4. OneEachPair
  BY <1>1 DEF OneEachPair
<1> QED BY <1>2, <1>3, <1>4 DEF DmInv

\* A request begins, alone, or ends.
LEMMA OpeningChanges ==
    ASSUME DmInv, UNCHANGED <<dms, amiss>>, NEW u \in Users, NEW o \in Opening,
           opening' = [opening EXCEPT ![u] = o],
           \/ o = NotOpening
           \/ /\ o.at = "create" /\ o.other \in Users \ {u}
              /\ NoOverlap => /\ \A v \in Users : opening[v] = NotOpening
                          /\ \A d \in DOMAIN dms : ~(u \in dms[d] /\ o.other \in dms[d])
    PROVE  DmInv'
<1>1. \A v \in Users : opening'[v] = IF v = u THEN o ELSE opening[v]
  BY DEF DmInv, DmTypes
<1>2. DmTypes'
  BY <1>1, IdleOpening DEF DmInv, DmTypes
<1>3. ASSUME NoOverlap PROVE OneOpens' /\ StillMissing' /\ OneEachPair'
  <2>1. OneOpens'
    BY <1>1, <1>3 DEF DmInv, OneOpens
  <2>2. StillMissing'
    BY <1>1, <1>3, IdleOpening DEF DmInv, StillMissing
  <2>3. OneEachPair'
    BY <1>3 DEF DmInv, OneEachPair
  <2> QED BY <2>1, <2>2, <2>3
<1> QED BY <1>2, <1>3 DEF DmInv, NoOverlap

\* What a request that goes on with its chat leaves of the others.
LEMMA OpeningGoesOn ==
    ASSUME DmTypes, NEW u \in Users, opening[u].at # "idle",
           NEW at \in {"self", "other"}, NEW c \in Nat,
           opening' = [opening EXCEPT ![u].at = at, ![u].chat = c]
    PROVE  /\ opening' \in [Users -> Opening]
           /\ opening'[u].at = at /\ opening'[u].chat = c
           /\ opening'[u].other = opening[u].other
           /\ opening'[u].other \in Users \ {u}
           /\ \A v \in Users \ {u} : opening'[v] = opening[v]
           /\ \A v \in Users : opening'[v].at # "idle" => opening'[v].other \in Users \ {v}
<1>1. opening \in [Users -> Opening] /\ opening[u] \in Opening /\ opening[u].other \in Users \ {u}
  BY DEF DmTypes
<1>2. opening' = [opening EXCEPT ![u] = [opening[u] EXCEPT !.at = at, !.chat = c]]
  BY <1>1
<1>3. /\ opening'[u] = [opening[u] EXCEPT !.at = at, !.chat = c]
      /\ \A v \in Users \ {u} : opening'[v] = opening[v]
  BY <1>1, <1>2
<1>4. /\ opening'[u] \in Opening /\ opening'[u].at = at /\ opening'[u].chat = c
      /\ opening'[u].other = opening[u].other
  BY <1>1, <1>3 DEF Opening
<1>5. opening' \in [Users -> Opening]
  BY <1>1, <1>2, <1>4, <1>3
<1>6. \A v \in Users : opening'[v].at # "idle" => opening'[v].other \in Users \ {v}
  BY <1>1, <1>3, <1>4 DEF DmTypes
<1> QED BY <1>1, <1>3, <1>4, <1>5, <1>6

LEMMA DmStep == DmInv /\ [DmNext \/ GroupNext \/ SocketNext]_<<chatVars, realtimeVars>> => DmInv'
<1> SUFFICES ASSUME DmInv, [DmNext \/ GroupNext \/ SocketNext]_<<chatVars, realtimeVars>>
             PROVE  DmInv'
  OBVIOUS
<1> USE DEF NoOverlap
<1>1. CASE UNCHANGED <<dms, opening, amiss>>
  BY <1>1 DEF DmInv, DmTypes, OneOpens, StillMissing, OneEachPair
<1>2. PICK n \in Nat : dms \in [1..n -> SUBSET Users]
  BY DEF DmInv, DmTypes
<1>3. DOMAIN dms = 1..n /\ Cardinality(DOMAIN dms) = n
  BY <1>2, FS_Interval
<1>4. \A u \in Users : opening[u] \in Opening
  BY DEF DmInv, DmTypes
<1>5. ASSUME NEW u \in Users, NEW v \in Users, OpenDm(u, v) PROVE DmInv'
  <2> DEFINE o == [at |-> "create", other |-> v, chat |-> 0]
  <2>1. o \in Opening /\ o.at = "create" /\ o.other = v
    BY DEF Opening
  <2>2. NoOverlap => \A w \in Users : opening[w] = NotOpening
    BY <1>5 DEF OpenDm, Undisturbed
  <2>3. u # v /\ opening' = [opening EXCEPT ![u] = o] /\ UNCHANGED <<dms, amiss>>
    BY <1>5 DEF OpenDm
  <2>4. \A d \in DOMAIN dms : ~(u \in dms[d] /\ v \in dms[d])
    BY <1>5 DEF OpenDm, DmsBetween
  <2> HIDE DEF o
  <2> QED BY <2>1, <2>2, <2>3, <2>4, OpeningChanges
<1>6. ASSUME NEW u \in Users, FailToOpen(u) PROVE DmInv'
  BY <1>6, OpeningChanges, IdleOpening DEF FailToOpen
<1>7. ASSUME NEW u \in Users, CreateDm(u) PROVE DmInv'
  <2>1. /\ opening[u].at = "create"
        /\ dms' = [d \in 1..(n + 1) |-> IF d = n + 1 THEN {} ELSE dms[d]]
        /\ opening' = [opening EXCEPT ![u].at = "self", ![u].chat = n + 1]
        /\ amiss' = amiss
    BY <1>3, <1>7 DEF CreateDm
  <2>2. dms' \in [1..(n + 1) -> SUBSET Users]
    BY <2>1, <1>2
  <2>3. DOMAIN dms' = 1..(n + 1) /\ dms'[n + 1] = {} /\ \A d \in 1..n : dms'[d] = dms[d]
    BY <2>1
  <2>4. /\ opening' \in [Users -> Opening]
        /\ opening'[u].at = "self" /\ opening'[u].chat = n + 1
        /\ opening'[u].other = opening[u].other
        /\ \A v \in Users \ {u} : opening'[v] = opening[v]
        /\ \A v \in Users : opening'[v].at # "idle" => opening'[v].other \in Users \ {v}
    <3>1. n + 1 \in Nat /\ opening[u].at # "idle" /\ DmTypes
      BY <2>1 DEF DmInv
    <3> QED BY <3>1, <2>1, OpeningGoesOn
  <2>5. DmTypes'
    BY <2>2, <2>4 DEF DmTypes
  <2>6. ASSUME NoOverlap PROVE OneOpens' /\ StillMissing' /\ OneEachPair'
    <3>1. \A v \in Users \ {u} : opening'[v] = NotOpening
      BY <2>1, <2>4, <2>6, IdleOpening DEF DmInv, OneOpens
    <3>2. OneOpens'
      BY <3>1 DEF OneOpens
    <3>3. \A d \in DOMAIN dms' : ~(u \in dms'[d] /\ opening[u].other \in dms'[d])
      BY <2>1, <2>3, <2>6, <1>3 DEF DmInv, StillMissing
    <3>4. StillMissing'
      BY <3>1, <3>3, <2>3, <2>4, IdleOpening DEF StillMissing
    <3>5. OneEachPair'
      BY <2>3, <2>6, <1>3 DEF DmInv, OneEachPair
    <3> QED BY <3>2, <3>4, <3>5
  <2> QED BY <2>1, <2>5, <2>6 DEF DmInv
<1>8. ASSUME NEW u \in Users, AddSelf(u) PROVE DmInv'
  <2> DEFINE c == opening[u].chat
  <2>1. /\ opening[u].at = "self"
        /\ dms' = [dms EXCEPT ![c] = @ \cup {u}]
        /\ opening' = [opening EXCEPT ![u].at = "other"]
        /\ amiss' = amiss
    BY <1>8 DEF AddSelf
  <2>2. dms' \in [1..n -> SUBSET Users]
    BY <2>1, <1>2
  <2>3. DOMAIN dms' = 1..n /\ \A d \in 1..n : dms'[d] = IF d = c THEN dms[d] \cup {u} ELSE dms[d]
    BY <2>1, <1>2
  <2>7. c \in Nat /\ opening' = [opening EXCEPT ![u].at = "other", ![u].chat = c]
    BY <2>1, <1>4 DEF Opening, DmInv, DmTypes
  <2>4. /\ opening' \in [Users -> Opening]
        /\ opening'[u].at = "other" /\ opening'[u].chat = c
        /\ opening'[u].other = opening[u].other /\ opening'[u].other \in Users \ {u}
        /\ \A v \in Users \ {u} : opening'[v] = opening[v]
        /\ \A v \in Users : opening'[v].at # "idle" => opening'[v].other \in Users \ {v}
    BY <2>1, <2>7, OpeningGoesOn DEF DmInv
  <2>5. DmTypes'
    BY <2>2, <2>4 DEF DmTypes
  <2>6. ASSUME NoOverlap PROVE OneOpens' /\ StillMissing' /\ OneEachPair'
    <3>1. \A v \in Users \ {u} : opening'[v] = NotOpening
      BY <2>1, <2>4, <2>6, IdleOpening DEF DmInv, OneOpens
    <3>2. OneOpens'
      BY <3>1 DEF OneOpens
    <3>3. c \in 1..n /\ dms[c] = {} /\ dms'[c] = {u}
      BY <2>1, <2>3, <2>6, <1>3 DEF DmInv, StillMissing
    <3>4. \A d \in DOMAIN dms' : ~(u \in dms'[d] /\ opening[u].other \in dms'[d])
      BY <2>1, <2>3, <2>4, <2>6, <3>3, <1>3 DEF DmInv, StillMissing
    <3>5. StillMissing'
      BY <3>1, <3>3, <3>4, <2>3, <2>4, IdleOpening DEF StillMissing
    <3>6. OneEachPair'
      BY <3>3, <2>3, <2>6, <1>3 DEF DmInv, OneEachPair
    <3> QED BY <3>2, <3>5, <3>6
  <2> QED BY <2>1, <2>5, <2>6 DEF DmInv
<1>9. ASSUME NEW u \in Users, AddOther(u) PROVE DmInv'
  <2> DEFINE c == opening[u].chat
             v == opening[u].other
  <2>1. /\ opening[u].at = "other"
        /\ dms' = [dms EXCEPT ![c] = @ \cup {v}]
        /\ opening' = [opening EXCEPT ![u] = NotOpening]
        /\ amiss' = amiss
    BY <1>9 DEF AddOther
  <2>2. opening' \in [Users -> Opening]
    BY <2>1, IdleOpening DEF DmInv, DmTypes
  <2>3. DOMAIN dms' = 1..n /\ \A d \in 1..n : dms'[d] = IF d = c THEN dms[d] \cup {v} ELSE dms[d]
    BY <2>1, <1>2
  <2>4. v \in Users \ {u}
    BY <2>1 DEF DmInv, DmTypes
  <2>5. dms' \in [1..n -> SUBSET Users]
    BY <2>1, <2>4, <1>2
  <2>6. \A w \in Users : opening'[w] = IF w = u THEN NotOpening ELSE opening[w]
    BY <2>1 DEF DmInv, DmTypes
  <2>7. DmTypes'
    BY <2>2, <2>5, <2>6, IdleOpening DEF DmInv, DmTypes
  <2>8. ASSUME NoOverlap PROVE OneOpens' /\ StillMissing' /\ OneEachPair'
    <3>1. \A w \in Users : opening'[w] = NotOpening
      BY <2>1, <2>6, <2>8, IdleOpening DEF DmInv, OneOpens
    <3>2. OneOpens' /\ StillMissing'
      BY <3>1, IdleOpening DEF OneOpens, StillMissing
    <3>3. c \in 1..n /\ dms'[c] = {u, v} /\ \A d \in 1..n : ~(u \in dms[d] /\ v \in dms[d])
      BY <2>1, <2>3, <2>8, <1>3 DEF DmInv, StillMissing
    <3>4. OneEachPair'
      BY <3>3, <2>3, <2>8, <1>3 DEF DmInv, OneEachPair
    <3> QED BY <3>2, <3>4
  <2> QED BY <2>1, <2>7, <2>8 DEF DmInv
<1>10. ASSUME NEW u \in Users, NEW c \in DOMAIN dms, LeaveDm(u, c) PROVE DmInv'
  <2>1. /\ dms' = [dms EXCEPT ![c] = @ \ {u}] /\ UNCHANGED <<opening, amiss>>
        /\ NoOverlap => \A v \in Users : opening[v] = NotOpening
    BY <1>10 DEF LeaveDm, Undisturbed
  <2>2. dms' \in [1..n -> SUBSET Users]
    BY <2>1, <1>2
  <2>3. DOMAIN dms' = 1..n /\ \A d \in 1..n : dms'[d] \subseteq dms[d]
    BY <2>1, <1>2
  <2>5. DmTypes'
    BY <2>1, <2>2 DEF DmInv, DmTypes
  <2>6. NoOverlap => OneOpens' /\ StillMissing'
    BY <2>1, IdleOpening DEF OneOpens, StillMissing
  <2>7. NoOverlap => OneEachPair'
    BY <2>3, <1>3 DEF DmInv, OneEachPair
  <2> QED BY <2>1, <2>5, <2>6, <2>7 DEF DmInv
<1>11. DmNext => DmInv'
  BY <1>5, <1>6, <1>7, <1>8, <1>9, <1>10 DEF DmNext
<1>12. GroupNext => UNCHANGED <<dms, opening, amiss>>
  BY DEF GroupNext, Pass, AddMember, RemoveMember, SendMessage, CreateMessage, MarkChatAsRead,
    GetPage, ShowPage, dmVars
<1>13. SocketNext => UNCHANGED <<dms, opening, amiss>>
  BY DEF SocketNext, HandleConnection, RefuseConnection, Track, AutoJoin, FailToAutoJoin,
    HandlePresenceSync, DropConnection, HandleDisconnect, OnChatJoin, JoinRoom, OnChatLeave,
    chatVars, dmVars
<1> QED BY <1>1, <1>11, <1>12, <1>13 DEF chatVars, dmVars

LEMMA OneDmHolds == DmInv => OneDm
<1> SUFFICES ASSUME DmInv, NoOverlap, NEW u \in Users, NEW v \in Users, u # v
             PROVE  Cardinality({c \in DOMAIN dms : dms[c] = {u, v}}) <= 1
  BY DEF OneDm, NoOverlap
<1> DEFINE chats == {c \in DOMAIN dms : dms[c] = {u, v}}
<1>2. \A c, d \in chats : c = d
  BY DEF DmInv, OneEachPair
<1>3. chats = {} \/ \E c \in chats : chats = {c}
  BY <1>2
<1> HIDE DEF chats
<1>4. Cardinality(chats) \in {0, 1}
  BY <1>3, FS_EmptySet, FS_Singleton
<1> QED BY <1>4 DEF chats

-----------------------------------------------------------------------------
(* Who is online, and in the room. *)

Here == {"joining", "on", "join"}

PresenceInv ==
    /\ handler \in [Sockets -> Here \cup {"off", "verify", "lost", "gone"}]
    /\ activeUsers \in [Users -> SUBSET Sockets]
    /\ told \in [Sockets -> SUBSET Users]
    /\ room \subseteq Sockets
    /\ \A s \in Sockets : handler[s] \in Here => s \in activeUsers[UserOf[s]]
    /\ \A s \in Sockets : handler[s] \in {"on", "join"} => told[s] = OnlineUsers
    /\ "drop" \notin amiss =>
           /\ \A s \in Sockets : handler[s] # "lost"
           /\ \A u \in Users : \A s \in activeUsers[u] : UserOf[s] = u /\ handler[s] \in Here
    /\ "leave" \notin amiss =>
           /\ \A s \in room : UserOf[s] \in members
           /\ \A s \in Sockets : handler[s] = "join" => UserOf[s] \in members

LEMMA PresenceStart == ChatInit /\ RealtimeInit => PresenceInv
BY DEF ChatInit, RealtimeInit, PresenceInv, Here, OnlineUsers

\* A socket's handler goes on; who is online stays, and so does what is told but to that one.
LEMMA HandlerGoesOn ==
    ASSUME PresenceInv, NEW s \in Sockets, NEW h \in Here \cup {"verify", "lost", "gone"},
           At(s, h), UNCHANGED <<activeUsers, amiss, members>>,
           told' \in [Sockets -> SUBSET Users], \A x \in Sockets \ {s} : told'[x] = told[x],
           room' \subseteq Sockets,
           h \in Here => handler[s] \in Here,
           h \notin Here => handler[s] \notin Here,
           h = "lost" => "drop" \in amiss,
           h \in {"on", "join"} => told'[s] = OnlineUsers,
           h = "join" => UserOf[s] \in members,
           "leave" \notin amiss => \A x \in room' : UserOf[x] \in members
    PROVE  PresenceInv'
<1>1. /\ handler' \in [Sockets -> Here \cup {"off", "verify", "lost", "gone"}]
      /\ \A x \in Sockets : handler'[x] = IF x = s THEN h ELSE handler[x]
  BY DEF PresenceInv, At
<1>3. OnlineUsers' = OnlineUsers
  BY DEF OnlineUsers
<1>4. \A x \in Sockets : handler'[x] \in Here <=> handler[x] \in Here
  BY <1>1
<1>5. \A x \in Sockets : handler'[x] \in {"on", "join"} => told'[x] = OnlineUsers'
  BY <1>1, <1>3 DEF PresenceInv
<1>6. "drop" \notin amiss => /\ \A x \in Sockets : handler'[x] # "lost"
                             /\ \A u \in Users : \A x \in activeUsers[u] : UserOf[x] = u /\ handler'[x] \in Here
  BY <1>1, <1>4 DEF PresenceInv
<1>7. "leave" \notin amiss => \A x \in Sockets : handler'[x] = "join" => UserOf[x] \in members
  BY <1>1 DEF PresenceInv
<1> QED BY <1>1, <1>4, <1>5, <1>6, <1>7 DEF PresenceInv

LEMMA TrackKeeps ==
    ASSUME PresenceInv, NEW s \in Sockets, Track(s)
    PROVE  PresenceInv'
<1> DEFINE u == UserOf[s]
           h == IF handler[s] = "lost" THEN "gone" ELSE "joining"
<1>1. /\ u \in Users /\ handler[s] \in {"verify", "lost"}
      /\ activeUsers' = [activeUsers EXCEPT ![u] = @ \cup {s}]
      /\ IF activeUsers[u] = {} THEN Broadcast(u, TRUE) ELSE UNCHANGED told
      /\ handler' = [handler EXCEPT ![s] = h]
      /\ UNCHANGED <<amiss, members, room>>
  BY SocketsAssumption DEF Track, At, chatVars, groupVars
<1>2. /\ handler' \in [Sockets -> Here \cup {"off", "verify", "lost", "gone"}]
      /\ \A x \in Sockets : handler'[x] = IF x = s THEN h ELSE handler[x]
  BY <1>1 DEF PresenceInv, Here
<1>3. /\ activeUsers' \in [Users -> SUBSET Sockets]
      /\ \A w \in Users : activeUsers'[w] = IF w = u THEN activeUsers[w] \cup {s} ELSE activeUsers[w]
  BY <1>1 DEF PresenceInv
<1>4. OnlineUsers' = OnlineUsers \cup {u}
  BY <1>1, <1>3 DEF OnlineUsers
<1>5. u \in OnlineUsers <=> activeUsers[u] # {}
  BY <1>1 DEF OnlineUsers
<1>6. told' \in [Sockets -> SUBSET Users]
  BY <1>1 DEF Broadcast, PresenceInv
<1>7. ASSUME NEW x \in Sockets, handler'[x] \in {"on", "join"} PROVE told'[x] = OnlineUsers'
  <2>1. x # s /\ handler[x] \in {"on", "join"} /\ told[x] = OnlineUsers
    BY <1>2, <1>7 DEF PresenceInv
  <2>2. CASE activeUsers[u] = {}
    <3>1. told'[x] = told[x] \cup {u}
      BY <1>1, <2>1, <2>2 DEF Broadcast, Connected
    <3> QED BY <3>1, <2>1, <1>4
  <2>3. CASE activeUsers[u] # {}
    BY <1>1, <1>4, <1>5, <2>1, <2>3
  <2> QED BY <2>2, <2>3
<1>8. \A x \in Sockets : handler'[x] \in Here => x \in activeUsers'[UserOf[x]]
  BY <1>1, <1>2, <1>3, SocketsAssumption DEF PresenceInv
<1>9. "drop" \notin amiss => /\ \A x \in Sockets : handler'[x] # "lost"
                             /\ \A w \in Users : \A x \in activeUsers'[w] : UserOf[x] = w /\ handler'[x] \in Here
  BY <1>1, <1>2, <1>3 DEF PresenceInv, Here
<1>10. "leave" \notin amiss => /\ \A x \in room' : UserOf[x] \in members'
                               /\ \A x \in Sockets : handler'[x] = "join" => UserOf[x] \in members'
  BY <1>1, <1>2 DEF PresenceInv
<1> QED BY <1>1, <1>2, <1>3, <1>6, <1>7, <1>8, <1>9, <1>10 DEF PresenceInv

LEMMA DisconnectKeeps ==
    ASSUME PresenceInv, NEW s \in Sockets, HandleDisconnect(s)
    PROVE  PresenceInv'
<1> DEFINE u == UserOf[s]
<1>1. /\ u \in Users /\ handler[s] \in Here
      /\ activeUsers' = [activeUsers EXCEPT ![u] = @ \ {s}]
      /\ IF activeUsers[u] = {s} THEN Broadcast(u, FALSE) ELSE UNCHANGED told
      /\ room' = room \ {s}
      /\ handler' = [handler EXCEPT ![s] = "gone"]
      /\ UNCHANGED <<amiss, members>>
  BY SocketsAssumption DEF HandleDisconnect, At, chatVars, groupVars, Here
<1>2. /\ handler' \in [Sockets -> Here \cup {"off", "verify", "lost", "gone"}]
      /\ \A x \in Sockets : handler'[x] = IF x = s THEN "gone" ELSE handler[x]
  BY <1>1 DEF PresenceInv
<1>3. /\ activeUsers' \in [Users -> SUBSET Sockets]
      /\ \A w \in Users : activeUsers'[w] = IF w = u THEN activeUsers[w] \ {s} ELSE activeUsers[w]
  BY <1>1 DEF PresenceInv
<1>4. s \in activeUsers[u]
  BY <1>1 DEF PresenceInv
<1>5. OnlineUsers' = IF activeUsers[u] = {s} THEN OnlineUsers \ {u} ELSE OnlineUsers
  BY <1>1, <1>3, <1>4 DEF OnlineUsers
<1>6. told' \in [Sockets -> SUBSET Users]
  BY <1>1 DEF Broadcast, PresenceInv
<1>7. ASSUME NEW x \in Sockets, handler'[x] \in {"on", "join"} PROVE told'[x] = OnlineUsers'
  <2>1. x # s /\ handler[x] \in {"on", "join"} /\ told[x] = OnlineUsers
    BY <1>2, <1>7 DEF PresenceInv
  <2>2. CASE activeUsers[u] = {s}
    <3>1. told'[x] = told[x] \ {u}
      BY <1>1, <2>1, <2>2 DEF Broadcast, Connected
    <3> QED BY <3>1, <2>1, <2>2, <1>5
  <2>3. CASE activeUsers[u] # {s}
    BY <1>1, <1>5, <2>1, <2>3
  <2> QED BY <2>2, <2>3
<1>8. \A x \in Sockets : handler'[x] \in Here => x \in activeUsers'[UserOf[x]]
  BY <1>1, <1>2, <1>3, SocketsAssumption DEF PresenceInv, Here
<1>9. "drop" \notin amiss => /\ \A x \in Sockets : handler'[x] # "lost"
                             /\ \A w \in Users : \A x \in activeUsers'[w] : UserOf[x] = w /\ handler'[x] \in Here
  <2>1. ASSUME "drop" \notin amiss, NEW w \in Users, NEW x \in activeUsers'[w]
        PROVE  UserOf[x] = w /\ handler'[x] \in Here
    <3>1. x \in Sockets /\ x \in activeUsers[w] /\ UserOf[x] = w /\ handler[x] \in Here
      BY <1>3, <2>1 DEF PresenceInv
    <3>2. x # s
      BY <3>1, <1>3
    <3> QED BY <3>1, <3>2, <1>2
  <2> QED BY <2>1, <1>2 DEF PresenceInv
<1>10. "leave" \notin amiss => /\ \A x \in room' : UserOf[x] \in members'
                               /\ \A x \in Sockets : handler'[x] = "join" => UserOf[x] \in members'
  BY <1>1, <1>2 DEF PresenceInv
<1> QED BY <1>1, <1>2, <1>3, <1>6, <1>7, <1>8, <1>9, <1>10 DEF PresenceInv

LEMMA PresenceStep == PresenceInv /\ [DmNext \/ GroupNext \/ SocketNext]_<<chatVars, realtimeVars>>
                          /\ (SocketNext \/ UNCHANGED realtimeVars) => PresenceInv'
<1> SUFFICES ASSUME PresenceInv, [DmNext \/ GroupNext \/ SocketNext]_<<chatVars, realtimeVars>>,
                    SocketNext \/ UNCHANGED realtimeVars
             PROVE  PresenceInv'
  OBVIOUS
<1>1. ASSUME UNCHANGED <<handler, activeUsers, room, told, amiss>>,
             "leave" \notin amiss => members \subseteq members'
      PROVE  PresenceInv'
  BY <1>1 DEF PresenceInv, OnlineUsers
<1>2. CASE SocketNext
  <2> SUFFICES ASSUME NEW s \in Sockets,
                      \/ HandleConnection(s)
                      \/ RefuseConnection(s)
                      \/ Track(s)
                      \/ AutoJoin(s)
                      \/ FailToAutoJoin(s)
                      \/ HandlePresenceSync(s)
                      \/ DropConnection(s)
                      \/ HandleDisconnect(s)
                      \/ OnChatJoin(s)
                      \/ JoinRoom(s)
                      \/ OnChatLeave(s)
               PROVE  PresenceInv'
    BY <1>2 DEF SocketNext
  <2>0. /\ told \in [Sockets -> SUBSET Users] /\ room \subseteq Sockets
        /\ handler \in [Sockets -> Here \cup {"off", "verify", "lost", "gone"}]
        /\ OnlineUsers \in SUBSET Users
        /\ "leave" \notin amiss => \A x \in room : UserOf[x] \in members
    BY DEF PresenceInv, OnlineUsers
  <2>10. ASSUME told' = [told EXCEPT ![s] = OnlineUsers]
         PROVE  /\ told' \in [Sockets -> SUBSET Users] /\ told'[s] = OnlineUsers
                /\ \A x \in Sockets \ {s} : told'[x] = told[x]
    BY <2>0, <2>10
  <2>1. CASE HandleConnection(s)
    BY <2>0, <2>1, HandlerGoesOn DEF HandleConnection, Here, chatVars, groupVars
  <2>2. CASE RefuseConnection(s)
    BY <2>0, <2>2, HandlerGoesOn DEF RefuseConnection, Here, chatVars, groupVars
  <2>3. CASE AutoJoin(s)
    <3> DEFINE rooms == IF UserOf[s] \in members THEN room \cup {s} ELSE room
    <3>1. rooms \in SUBSET Sockets /\ ("leave" \notin amiss => \A x \in rooms : UserOf[x] \in members)
      BY <2>0
    <3>2. /\ handler[s] = "joining" /\ At(s, "on") /\ room' = rooms
          /\ told' = [told EXCEPT ![s] = OnlineUsers] /\ UNCHANGED <<activeUsers, amiss, members>>
      BY <2>3 DEF AutoJoin, chatVars, groupVars
    <3> HIDE DEF rooms
    <3> QED BY <2>10, <3>1, <3>2, HandlerGoesOn DEF Here
  <2>4. CASE FailToAutoJoin(s)
    <3>1. /\ handler[s] = "joining" /\ At(s, "on") /\ room' = room
          /\ told' = [told EXCEPT ![s] = OnlineUsers] /\ UNCHANGED <<activeUsers, amiss, members>>
      BY <2>4 DEF FailToAutoJoin, chatVars, groupVars
    <3> QED BY <2>0, <2>10, <3>1, HandlerGoesOn DEF Here
  <2>5. CASE HandlePresenceSync(s)
    <3>1. /\ handler[s] \in {"joining", "on"} /\ At(s, handler[s]) /\ room' = room
          /\ told' = [told EXCEPT ![s] = OnlineUsers] /\ UNCHANGED <<activeUsers, amiss, members>>
      BY <2>0, <2>5 DEF HandlePresenceSync, At, chatVars, groupVars
    <3> QED BY <2>0, <2>10, <3>1, HandlerGoesOn DEF Here
  <2>6. CASE DropConnection(s)
    BY <2>0, <2>6, HandlerGoesOn DEF DropConnection, Here, chatVars, groupVars
  <2>7. CASE OnChatJoin(s)
    <3>1. told[s] = OnlineUsers
      BY <2>7 DEF OnChatJoin, PresenceInv
    <3> QED BY <2>0, <2>7, <3>1, HandlerGoesOn DEF OnChatJoin, Here, chatVars, groupVars
  <2>8. CASE JoinRoom(s)
    <3>1. /\ told[s] = OnlineUsers /\ room \cup {s} \in SUBSET Sockets
          /\ "leave" \notin amiss => \A x \in room \cup {s} : UserOf[x] \in members
      BY <2>8 DEF JoinRoom, PresenceInv
    <3> QED BY <2>0, <2>8, <3>1, HandlerGoesOn DEF JoinRoom, Here, chatVars, groupVars
  <2>9. CASE OnChatLeave(s)
    BY <2>9 DEF OnChatLeave, PresenceInv, OnlineUsers, chatVars, groupVars
  <2> QED BY <2>1, <2>2, <2>3, <2>4, <2>5, <2>6, <2>7, <2>8, <2>9, TrackKeeps, DisconnectKeeps
<1>3. ASSUME UNCHANGED realtimeVars, GroupNext PROVE PresenceInv'
  <2>1. amiss' = amiss /\ ("leave" \notin amiss => members \subseteq members')
    BY <1>3 DEF GroupNext, Pass, AddMember, RemoveMember, SendMessage, CreateMessage, MarkChatAsRead,
      GetPage, ShowPage
  <2> QED BY <1>1, <1>3, <2>1 DEF realtimeVars
<1>4. ASSUME UNCHANGED realtimeVars, DmNext \/ UNCHANGED <<chatVars, realtimeVars>> PROVE PresenceInv'
  <2>1. amiss' = amiss /\ members' = members
    BY <1>4 DEF DmNext, OpenDm, CreateDm, AddSelf, AddOther, FailToOpen, LeaveDm, groupVars, chatVars
  <2> QED BY <1>1, <1>4, <2>1 DEF realtimeVars
<1> QED BY <1>2, <1>3, <1>4 DEF realtimeVars

LEMMA PresenceHoldsTrue == PresenceInv => PresenceIsTrue
<1> SUFFICES ASSUME PresenceInv PROVE PresenceIsTrue
  OBVIOUS
<1>1. ASSUME "drop" \notin amiss
      PROVE  OnlineUsers = {UserOf[s] : s \in {x \in Sockets : handler[x] \in {"joining", "on", "join"}}}
  <2>1. \A u \in Users : u \in OnlineUsers <=> \E s \in Sockets : handler[s] \in Here /\ UserOf[s] = u
    BY <1>1, SocketsAssumption DEF PresenceInv, OnlineUsers
  <2> QED BY <2>1, SocketsAssumption DEF OnlineUsers, Here
<1> QED BY <1>1 DEF PresenceInv, PresenceIsTrue

-----------------------------------------------------------------------------
(* Pages of the group chat. *)

LEMMA Milliseconds ==
    ASSUME NEW t \in Nat
    PROVE  /\ Millisecond(t) \in Nat /\ Millisecond(t) <= t
           /\ \A v \in Nat : Millisecond(t) <= v /\ v <= t => Millisecond(v) = Millisecond(t)
BY DEF Millisecond

\* Messages sent at different times, none after the bound.
Messages(S, bound) ==
    /\ IsFiniteSet(S)
    /\ \A m \in S : m[1] \in Nat /\ m[1] <= bound
    /\ \A m, k \in S : m[1] = k[1] => m = k

NotBefore(S, m) == {k \in S : k[1] >= m[1]}

\* A page of them goes from the newest to its oldest, without a gap, and is all if they are not more.
LEMMA PageOf ==
    ASSUME NEW S, NEW bound \in Nat, Messages(S, bound), NEW n \in Nat \ {0}
    PROVE  /\ Newest(S, n) \subseteq S
           /\ \A k \in Newest(S, n) : \A m \in S : k[1] <= m[1] => m \in Newest(S, n)
           /\ Cardinality(S) <= n => Newest(S, n) = S
           /\ S # {} => Newest(S, n) # {}
<1>1. \A m \in S : IsFiniteSet(NotBefore(S, m)) /\ Cardinality(NotBefore(S, m)) \in Nat /\ Cardinality(NotBefore(S, m)) <= Cardinality(S)
  BY FS_Subset, FS_CardinalityType DEF Messages, NotBefore
<1>2. IsFiniteSet(S) /\ Cardinality(S) \in Nat
  BY FS_CardinalityType DEF Messages
<1>3. Newest(S, n) = {m \in S : Cardinality(NotBefore(S, m)) <= n}
  BY DEF Newest, NotBefore
<1>4. ASSUME NEW k \in S, Cardinality(NotBefore(S, k)) <= n, NEW m \in S, k[1] <= m[1]
      PROVE  Cardinality(NotBefore(S, m)) <= n
  <2>1. NotBefore(S, m) \in SUBSET NotBefore(S, k)
    BY <1>4 DEF Messages, NotBefore
  <2>2. Cardinality(NotBefore(S, m)) <= Cardinality(NotBefore(S, k))
    BY <2>1, <1>1, FS_Subset
  <2> QED BY <2>2, <1>1, <1>4
<1>5. ASSUME Cardinality(S) <= n, NEW m \in S PROVE Cardinality(NotBefore(S, m)) <= n
  BY <1>1, <1>2, <1>5
<1>6. ASSUME S # {} PROVE \E m \in S : Cardinality(NotBefore(S, m)) <= n
  <2> DEFINE times == {m[1] : m \in S}
  <2>1. times \in SUBSET Nat /\ times # {} /\ \A t \in times : t <= bound
    BY <1>6 DEF Messages
  <2>2. PICK t \in times : \A v \in times : v <= t
    BY <2>1, GreatestNumber
  <2>3. PICK m \in S : m[1] = t
    BY <2>2
  <2>4. NotBefore(S, m) = {m}
    <3>1. ASSUME NEW k \in S, k[1] >= m[1] PROVE k = m
      <4>1. k[1] \in Nat /\ m[1] \in Nat /\ k[1] <= m[1]
        BY <2>2, <2>3 DEF Messages
      <4> QED BY <3>1, <4>1 DEF Messages
    <3>2. m[1] \in Nat
      BY DEF Messages
    <3> QED BY <3>1, <3>2 DEF NotBefore
  <2>5. Cardinality(NotBefore(S, m)) = 1
    BY <2>4, FS_Singleton
  <2>6. Cardinality(NotBefore(S, m)) <= n
    BY <2>5
  <2> QED BY <2>6
<1> QED BY <1>3, <1>4, <1>5, <1>6

LEMMA OldestOf ==
    ASSUME NEW S, NEW bound \in Nat, Messages(S, bound), NEW P \in SUBSET S, P # {}
    PROVE  Oldest(P) \in P /\ \A m \in P : Oldest(P)[1] <= m[1]
<1> DEFINE times == {m[1] : m \in P}
<1>1. times \in SUBSET Nat /\ times # {}
  BY DEF Messages
<1>2. PICK t \in times : \A v \in times : t <= v
  BY <1>1, LeastNumber
<1>3. \E m \in P : \A k \in P : m[1] <= k[1]
  BY <1>2
<1> QED BY <1>3 DEF Oldest

Paging == [at : {"idle", "more", "done"}, cursor : Nat, got : SUBSET (Nat \X Users),
           since : Nat, twice : BOOLEAN]

GroupTypes ==
    /\ members \subseteq Users
    /\ lastRead \in [Users -> Nat]
    /\ sending \in [Users -> Nat]
    /\ clock \in Nat
    /\ messages \subseteq Nat \X Users
    /\ pages \in [Users -> Paging]

\* Nothing is later than now, and no two messages are of one time.
TimesFit ==
    /\ Messages(messages, clock)
    /\ \A u \in Users :
        /\ lastRead[u] <= clock /\ sending[u] <= clock /\ pages[u].since <= clock
        /\ sending[u] # 0 => \A m \in messages : m[1] # sending[u]
    /\ \A u, v \in Users : sending[u] # 0 /\ sending[u] = sending[v] => u = v

\* What has been got is not asked for again.
NothingTwice ==
    \A u \in Users :
        LET p == pages[u]
        IN  /\ ~p.twice
            /\ p.at = "idle" => p.got = {}
            /\ p.at = "more" => \A g \in p.got : p.cursor <= g[1]

\* What is sent alone is later than anything read or got.
SentLast ==
    \A u, v \in Users : sending[u] # 0 => lastRead[v] < sending[u] /\ pages[v].since < sending[u]

\* A message from before the first page was got, or the end of its millisecond was, or it is
\* still to come.
Covers(p, m) ==
    \/ p.at = "more" /\ m[1] < p.cursor
    \/ \E g \in p.got : m[1] <= g[1] /\ Millisecond(m[1]) = Millisecond(g[1])
GotOrToCome ==
    \A u \in Users : pages[u].at # "idle" =>
        \A m \in messages : m[1] <= pages[u].since => Covers(pages[u], m)

GroupInv ==
    /\ GroupTypes
    /\ TimesFit
    /\ NothingTwice
    /\ NoOverlap => SentLast /\ GotOrToCome

LEMMA GroupStart == ChatInit => GroupInv
<1> SUFFICES ASSUME ChatInit PROVE GroupInv
  OBVIOUS
<1>1. NotPaging \in Paging /\ NotPaging.at = "idle" /\ NotPaging.got = {} /\ NotPaging.since = 0
      /\ NotPaging.twice = FALSE
  BY DEF NotPaging, Paging
<1>2. GroupTypes
  BY <1>1 DEF ChatInit, GroupTypes
<1>3. TimesFit
  BY <1>1, FS_EmptySet DEF ChatInit, TimesFit, Messages
<1>4. NothingTwice /\ SentLast /\ GotOrToCome
  BY <1>1 DEF ChatInit, NothingTwice, SentLast, GotOrToCome
<1> QED BY <1>2, <1>3, <1>4 DEF GroupInv

LEMMA PageKeeps ==
    ASSUME GroupInv, NEW u \in Users, GetPage(u)
    PROVE  GroupInv'
<1> DEFINE p == pages[u]
           S == Found(p)
           shown == Newest(S, PageSize)
           last == IF S = {} THEN <<0, u>> ELSE Oldest(shown)
           q == [at |-> IF HasMore(p) THEN "more" ELSE "done",
                 cursor |-> IF HasMore(p) THEN Millisecond(last[1]) ELSE 0,
                 got |-> p.got \cup shown,
                 since |-> IF p.at = "idle" THEN clock ELSE p.since,
                 twice |-> p.twice \/ p.got \cap shown # {}]
<1>1. /\ pages' = [pages EXCEPT ![u] = q]
      /\ Undisturbed /\ p.at # "done"
      /\ UNCHANGED <<members, lastRead, messages, sending, clock, amiss>>
  BY DEF GetPage, ShowPage
<1>2. p \in Paging /\ clock \in Nat /\ PageSize \in Nat \ {0}
  BY ChatAssumption DEF GroupInv, GroupTypes
<1>3. S \subseteq messages /\ S = {m \in messages : p.at = "more" => m[1] < p.cursor}
  BY DEF Found
<1>4. Messages(S, clock)
  BY <1>3, FS_Subset DEF GroupInv, TimesFit, Messages
<1>5. /\ shown \subseteq S
      /\ \A k \in shown : \A m \in S : k[1] <= m[1] => m \in shown
      /\ Cardinality(S) <= PageSize => shown = S
      /\ S # {} => shown # {}
  BY <1>2, <1>4, PageOf
<1>6. S # {} => last \in shown /\ \A m \in shown : last[1] <= m[1]
  BY <1>2, <1>4, <1>5, OldestOf
<1>7. last[1] \in Nat
  BY <1>3, <1>5, <1>6 DEF GroupInv, GroupTypes
<1>8. HasMore(p) => S # {}
  BY <1>2, FS_EmptySet DEF HasMore
<1>9. ~HasMore(p) => shown = S
  <2>1. Cardinality(S) \in Nat
    BY <1>4, FS_CardinalityType DEF Messages
  <2> QED BY <2>1, <1>2, <1>5 DEF HasMore
<1>10. /\ q.at = (IF HasMore(p) THEN "more" ELSE "done")
       /\ q.cursor = (IF HasMore(p) THEN Millisecond(last[1]) ELSE 0)
       /\ q.got = p.got \cup shown
       /\ q.since = (IF p.at = "idle" THEN clock ELSE p.since)
       /\ q.twice = (p.twice \/ p.got \cap shown # {})
  OBVIOUS
<1>11. q \in Paging
  BY <1>2, <1>3, <1>5, <1>7, Milliseconds DEF Paging, GroupInv, GroupTypes
<1> HIDE DEF q, last, shown, S
<1>12. \A v \in Users : pages'[v] = IF v = u THEN q ELSE pages[v]
  BY <1>1 DEF GroupInv, GroupTypes
<1>13. GroupTypes'
  BY <1>1, <1>11 DEF GroupInv, GroupTypes
<1>14. q.since <= clock
  BY <1>2, <1>10 DEF GroupInv, TimesFit
<1>15. TimesFit'
  BY <1>1, <1>12, <1>14 DEF GroupInv, TimesFit
<1>16. /\ ~q.twice /\ q.at # "idle"
       /\ q.at = "more" => \A g \in q.got : q.cursor <= g[1]
  <2>1. /\ ~p.twice
        /\ p.at = "idle" => p.got = {}
        /\ p.at = "more" => \A g \in p.got : p.cursor <= g[1]
    BY DEF GroupInv, NothingTwice
  <2>2. p.at \in {"idle", "more"} /\ p.cursor \in Nat /\ \A g \in p.got : g[1] \in Nat
    BY <1>1, <1>2 DEF Paging
  <2>3. \A g \in shown : g[1] \in Nat /\ (p.at = "more" => g[1] < p.cursor)
    BY <1>3, <1>5 DEF GroupInv, GroupTypes
  <2>4. p.got \cap shown = {}
    BY <2>1, <2>2, <2>3
  <2>5. ASSUME HasMore(p), NEW g \in q.got PROVE Millisecond(last[1]) <= g[1]
    <3>1. Millisecond(last[1]) \in Nat /\ Millisecond(last[1]) <= last[1] /\ last \in shown
      BY <1>6, <1>7, <1>8, <2>5, Milliseconds
    <3>2. CASE g \in shown
      BY <3>1, <3>2, <1>6, <1>7, <1>8, <2>3, <2>5
    <3>3. CASE g \in p.got
      <4>1. p.at = "more" /\ p.cursor <= g[1] /\ last[1] < p.cursor
        BY <3>1, <3>3, <2>1, <2>2, <2>3
      <4> QED BY <4>1, <3>1, <3>3, <2>2, <1>7
    <3> QED BY <3>2, <3>3, <2>5, <1>10
  <2> QED BY <2>1, <2>4, <2>5, <1>10
<1>17. NothingTwice'
  BY <1>12, <1>16 DEF GroupInv, NothingTwice
<1>18. ASSUME NoOverlap PROVE SentLast' /\ GotOrToCome'
  <2>1. \A v \in Users : sending[v] = 0
    BY <1>1, <1>18 DEF Undisturbed, NoOverlap
  <2>2. SentLast'
    BY <2>1, <1>1 DEF SentLast
  <2>3. ASSUME NEW m \in messages, m[1] <= q.since PROVE Covers(q, m)
    <3>0. m[1] \in Nat
      BY DEF GroupInv, GroupTypes
    <3>1. m \in S \/ \E g \in p.got : m[1] <= g[1] /\ Millisecond(m[1]) = Millisecond(g[1])
      <4>1. CASE p.at = "idle"
        BY <4>1, <1>3
      <4>2. CASE p.at = "more"
        BY <4>2, <2>3, <1>3, <1>10, <1>18 DEF GroupInv, GotOrToCome, Covers
      <4> QED BY <4>1, <4>2, <1>1, <1>2 DEF Paging
    <3>2. CASE m \in shown
      BY <3>0, <3>2, <1>10 DEF Covers
    <3>3. CASE m \in S /\ m \notin shown
      <4>1. HasMore(p) /\ last \in shown /\ last[1] \in Nat /\ m[1] < last[1]
        BY <3>0, <3>3, <1>5, <1>6, <1>7, <1>8, <1>9
      <4>2. CASE m[1] < Millisecond(last[1])
        BY <4>1, <4>2, <1>10 DEF Covers
      <4>3. CASE Millisecond(last[1]) <= m[1]
        <5>1. m[1] <= last[1] /\ Millisecond(m[1]) = Millisecond(last[1])
          BY <3>0, <4>1, <4>3, Milliseconds
        <5> QED BY <5>1, <4>1, <1>10 DEF Covers
      <4> QED BY <4>1, <4>2, <4>3, <3>0, Milliseconds
    <3>4. CASE \E g \in p.got : m[1] <= g[1] /\ Millisecond(m[1]) = Millisecond(g[1])
      BY <3>4, <1>10 DEF Covers
    <3> QED BY <3>1, <3>2, <3>3, <3>4
  <2>4. GotOrToCome'
    <3> SUFFICES ASSUME NEW v \in Users, pages'[v].at # "idle", NEW m \in messages,
                        m[1] <= pages'[v].since
                 PROVE  Covers(pages'[v], m)
      BY <1>1 DEF GotOrToCome, Covers
    <3>1. CASE v = u
      BY <3>1, <2>3, <1>12
    <3>2. CASE v # u
      BY <3>2, <1>12, <1>18 DEF GroupInv, GotOrToCome
    <3> QED BY <3>1, <3>2
  <2> QED BY <2>2, <2>4
<1> QED BY <1>1, <1>13, <1>15, <1>17, <1>18 DEF GroupInv, NoOverlap

\* Nothing is sent or got; somebody's mark, now or at a message.
LEMMA MarksKeep ==
    ASSUME GroupInv, UNCHANGED <<messages, sending, clock, pages, amiss>>,
           members' \subseteq Users, lastRead' \in [Users -> Nat],
           Undisturbed \/ lastRead' = lastRead,
           \A u \in Users : lastRead'[u] <= clock
    PROVE  GroupInv'
<1>1. GroupTypes'
  BY DEF GroupInv, GroupTypes
<1>2. TimesFit'
  BY DEF GroupInv, TimesFit
<1>3. NothingTwice'
  BY DEF GroupInv, NothingTwice
<1>4. NoOverlap => SentLast' /\ GotOrToCome'
  BY DEF GroupInv, SentLast, GotOrToCome, Covers, Undisturbed, NoOverlap
<1> QED BY <1>1, <1>2, <1>3, <1>4 DEF GroupInv, NoOverlap

LEMMA PassKeeps ==
    ASSUME GroupInv, clock' = clock + 1, UNCHANGED <<members, lastRead, messages, pages, amiss>>,
           \/ sending' = sending
           \/ \E u \in Users : /\ sending[u] = 0 /\ sending' = [sending EXCEPT ![u] = clock']
                               /\ Undisturbed
    PROVE  GroupInv'
<1>1. clock \in Nat /\ clock' \in Nat /\ clock < clock'
  BY DEF GroupInv, GroupTypes
<1>2. GroupTypes'
  BY <1>1 DEF GroupInv, GroupTypes
<1>3. Messages(messages', clock')
  BY <1>1 DEF GroupInv, TimesFit, Messages
<1>4. NothingTwice'
  BY DEF GroupInv, NothingTwice
<1>5. GotOrToCome => GotOrToCome'
  BY DEF GotOrToCome, Covers
<1>6. \A u \in Users : /\ lastRead[u] \in Nat /\ lastRead[u] <= clock
                       /\ pages[u].since \in Nat /\ pages[u].since <= clock
                       /\ sending[u] \in Nat /\ sending[u] <= clock
  BY DEF GroupInv, GroupTypes, Paging, TimesFit
<1>7. CASE sending' = sending
  <2>1. TimesFit'
    BY <1>1, <1>3, <1>6, <1>7 DEF GroupInv, TimesFit
  <2>2. SentLast => SentLast'
    BY <1>7 DEF SentLast
  <2> QED BY <1>2, <1>4, <1>5, <2>1, <2>2 DEF GroupInv, NoOverlap
<1>8. ASSUME NEW u \in Users, sending[u] = 0, sending' = [sending EXCEPT ![u] = clock'], Undisturbed
      PROVE  GroupInv'
  <2>1. \A v \in Users : sending'[v] = IF v = u THEN clock' ELSE sending[v]
    BY <1>8 DEF GroupInv, GroupTypes
  <2>2. \A m \in messages : m[1] \in Nat /\ m[1] <= clock
    BY DEF GroupInv, TimesFit, Messages
  <2>3. \A v \in Users : /\ lastRead'[v] <= clock' /\ sending'[v] <= clock' /\ pages'[v].since <= clock'
                         /\ sending'[v] # 0 => \A m \in messages' : m[1] # sending'[v]
    BY <1>1, <1>6, <2>1, <2>2 DEF GroupInv, TimesFit
  <2>4. \A v, w \in Users : sending'[v] # 0 /\ sending'[v] = sending'[w] => v = w
    BY <1>1, <1>6, <2>1 DEF GroupInv, TimesFit
  <2>5. TimesFit'
    BY <1>3, <2>3, <2>4 DEF TimesFit
  <2>6. NoOverlap => SentLast'
    BY <1>1, <1>6, <1>8, <2>1 DEF SentLast, Undisturbed, NoOverlap
  <2> QED BY <1>2, <1>4, <1>5, <2>5, <2>6 DEF GroupInv, NoOverlap
<1> QED BY <1>7, <1>8

LEMMA CreateKeeps ==
    ASSUME GroupInv, NEW u \in Users, CreateMessage(u)
    PROVE  GroupInv'
<1> DEFINE new == <<sending[u], u>>
<1>1. /\ sending[u] # 0 /\ messages' = messages \cup {new}
      /\ sending' = [sending EXCEPT ![u] = 0]
      /\ UNCHANGED <<members, lastRead, clock, pages, amiss>>
  BY DEF CreateMessage
<1>2. /\ new[1] = sending[u] /\ sending[u] \in Nat /\ sending[u] <= clock /\ clock \in Nat
      /\ new \in Nat \X Users
      /\ \A v \in Users : sending'[v] = IF v = u THEN 0 ELSE sending[v]
  BY <1>1 DEF GroupInv, GroupTypes, TimesFit
<1> HIDE DEF new
<1>3. GroupTypes'
  BY <1>1, <1>2 DEF GroupInv, GroupTypes
<1>4. \A m \in messages : m[1] # new[1]
  BY <1>1, <1>2 DEF GroupInv, TimesFit
<1>5. Messages(messages', clock')
  <2>1. IsFiniteSet(messages')
    BY <1>1, FS_AddElement DEF GroupInv, TimesFit, Messages
  <2> QED BY <1>1, <1>2, <1>4, <2>1 DEF GroupInv, TimesFit, Messages
<1>6. TimesFit'
  <2>1. \A v \in Users : lastRead'[v] <= clock' /\ sending'[v] <= clock' /\ pages'[v].since <= clock'
    BY <1>1, <1>2 DEF GroupInv, TimesFit
  <2>2. ASSUME NEW v \in Users, sending'[v] # 0, NEW m \in messages' PROVE m[1] # sending'[v]
    BY <1>1, <1>2, <2>2 DEF GroupInv, TimesFit
  <2>3. \A v, w \in Users : sending'[v] # 0 /\ sending'[v] = sending'[w] => v = w
    BY <1>2 DEF GroupInv, TimesFit
  <2> QED BY <1>5, <2>1, <2>2, <2>3 DEF TimesFit
<1>7. NothingTwice'
  BY <1>1 DEF GroupInv, NothingTwice
<1>8. NoOverlap => SentLast'
  BY <1>1, <1>2 DEF GroupInv, SentLast
<1>9. ASSUME NoOverlap PROVE GotOrToCome'
  <2>1. \A v \in Users : pages[v].since \in Nat /\ pages[v].since < new[1]
    BY <1>1, <1>2, <1>9 DEF GroupInv, GroupTypes, Paging, SentLast
  <2>2. ASSUME NEW v \in Users, pages[v].at # "idle", NEW m \in messages', m[1] <= pages[v].since
        PROVE  Covers(pages[v], m)
    <3>1. m \in messages
      BY <1>1, <1>2, <2>1, <2>2
    <3> QED BY <2>2, <3>1, <1>9 DEF GroupInv, GotOrToCome
  <2> QED BY <1>1, <2>2 DEF GotOrToCome, Covers
<1> QED BY <1>1, <1>3, <1>6, <1>7, <1>8, <1>9 DEF GroupInv, NoOverlap

LEMMA GroupStep == GroupInv /\ [DmNext \/ GroupNext \/ SocketNext]_<<chatVars, realtimeVars>> => GroupInv'
<1> SUFFICES ASSUME GroupInv, [DmNext \/ GroupNext \/ SocketNext]_<<chatVars, realtimeVars>>
             PROVE  GroupInv'
  OBVIOUS
<1>1. ASSUME UNCHANGED <<groupVars, amiss>> PROVE GroupInv'
  BY <1>1, MarksKeep DEF groupVars, GroupInv, GroupTypes, TimesFit
<1>2. DmNext => UNCHANGED <<groupVars, amiss>>
  BY DEF DmNext, OpenDm, CreateDm, AddSelf, AddOther, FailToOpen, LeaveDm
<1>3. SocketNext => UNCHANGED <<groupVars, amiss>>
  BY DEF SocketNext, HandleConnection, RefuseConnection, Track, AutoJoin, FailToAutoJoin,
    HandlePresenceSync, DropConnection, HandleDisconnect, OnChatJoin, JoinRoom, OnChatLeave, chatVars
<1>4. /\ members \subseteq Users /\ lastRead \in [Users -> Nat] /\ clock \in Nat
      /\ \A v \in Users : lastRead[v] <= clock
  BY DEF GroupInv, GroupTypes, TimesFit
<1>5. ASSUME NEW u \in Users, NEW v \in Users, AddMember(u, v) PROVE GroupInv'
  <2>1. lastRead' = lastRead \/ lastRead' = [lastRead EXCEPT ![v] = clock]
    BY <1>5 DEF AddMember
  <2>2. lastRead' \in [Users -> Nat] /\ \A w \in Users : lastRead'[w] <= clock
    BY <2>1, <1>4
  <2> QED BY <1>4, <1>5, <2>2, MarksKeep DEF AddMember
<1>6. ASSUME NEW u \in Users, RemoveMember(u) PROVE GroupInv'
  BY <1>4, <1>6, MarksKeep DEF RemoveMember
<1>7. ASSUME NEW u \in Users, NEW m \in messages, MarkChatAsRead(u, m) PROVE GroupInv'
  <2>1. m[1] \in Nat /\ m[1] <= clock
    BY DEF GroupInv, TimesFit, Messages
  <2>2. Millisecond(m[1]) \in Nat /\ Millisecond(m[1]) <= clock
    BY <2>1, <1>4, Milliseconds
  <2>3. lastRead' = [lastRead EXCEPT ![u] = Millisecond(m[1])]
    BY <1>7 DEF MarkChatAsRead
  <2>4. lastRead' \in [Users -> Nat] /\ \A w \in Users : lastRead'[w] <= clock
    BY <2>2, <2>3, <1>4
  <2> QED BY <1>4, <1>7, <2>4, MarksKeep DEF MarkChatAsRead
<1>8. Pass => GroupInv'
  BY PassKeeps DEF Pass
<1>9. ASSUME NEW u \in Users, SendMessage(u) PROVE GroupInv'
  BY <1>9, PassKeeps DEF SendMessage
<1>10. GroupNext => GroupInv'
  BY <1>5, <1>6, <1>7, <1>8, <1>9, CreateKeeps, PageKeeps DEF GroupNext
<1> QED BY <1>1, <1>2, <1>3, <1>10 DEF chatVars

LEMMA PagesHold == GroupInv => PagesAreWhole
<1> SUFFICES ASSUME GroupInv PROVE PagesAreWhole
  OBVIOUS
<1>1. \A u \in Users : ~pages[u].twice
  BY DEF GroupInv, NothingTwice
<1>2. ASSUME NoOverlap, NEW u \in Users, pages[u].at = "done", NEW m \in messages, m[1] <= pages[u].since
      PROVE  \E g \in pages[u].got : m[1] <= g[1] /\ Millisecond(m[1]) = Millisecond(g[1])
  BY <1>2 DEF GroupInv, GotOrToCome, Covers
<1> QED BY <1>1, <1>2 DEF PagesAreWhole, NoOverlap

LEMMA NewHolds ==
    ASSUME GroupInv, [DmNext \/ GroupNext \/ SocketNext]_<<chatVars, realtimeVars>>
    PROVE  [NewIsUnread]_chatVars
<1>1. messages' = messages \/ \E v \in Users : CreateMessage(v)
  BY DEF DmNext, OpenDm, CreateDm, AddSelf, AddOther, FailToOpen, LeaveDm, groupVars, chatVars,
    GroupNext, Pass, AddMember, RemoveMember, SendMessage, MarkChatAsRead, GetPage, ShowPage,
    SocketNext, HandleConnection, RefuseConnection, Track, AutoJoin, FailToAutoJoin,
    HandlePresenceSync, DropConnection, HandleDisconnect, OnChatJoin, JoinRoom, OnChatLeave
<1>2. ASSUME NEW v \in Users, CreateMessage(v), NoOverlap, NEW m \in messages' \ messages,
             NEW u \in members \ {m[2]}
      PROVE  m \in Unread(u)'
  <2>1. m = <<sending[v], v>> /\ sending[v] # 0 /\ lastRead' = lastRead /\ u \in Users
    BY <1>2 DEF CreateMessage, GroupInv, GroupTypes
  <2>2. lastRead[u] < sending[v] /\ lastRead[u] \in Nat /\ sending[v] \in Nat
    BY <2>1, <1>2 DEF GroupInv, GroupTypes, SentLast
  <2> QED BY <1>2, <2>1, <2>2 DEF Unread
<1> QED BY <1>1, <1>2 DEF NewIsUnread, NoOverlap, GroupInv, GroupTypes

\* Whatever users do at once with their chats, pages, marks, sockets and rooms: two users have
\* one direct chat, paging back gives everything once, who is online is who is shown, and what
\* is new is unread, each under the conditions the property names (ChatController, ChatService,
\* RealtimeGateway).
THEOREM ChatAlwaysIsSound == ChatSpec => ChatIsSound
<1> DEFINE Inv == DmInv /\ GroupInv /\ PresenceInv
<1>1. ChatInit /\ RealtimeInit => Inv
  BY DmStart, GroupStart, PresenceStart
<1>2. [((DmNext \/ GroupNext) /\ UNCHANGED realtimeVars) \/ RealtimeNext]_<<chatVars, realtimeVars>>
        => /\ [DmNext \/ GroupNext \/ SocketNext]_<<chatVars, realtimeVars>>
           /\ SocketNext \/ UNCHANGED realtimeVars
  BY DEF RealtimeNext, GroupNext
<1>3. Inv /\ [((DmNext \/ GroupNext) /\ UNCHANGED realtimeVars) \/ RealtimeNext]_<<chatVars, realtimeVars>>
        => Inv' /\ [NewIsUnread]_chatVars
  BY <1>2, DmStep, GroupStep, PresenceStep, NewHolds
<1>4. Inv => OneDm /\ PagesAreWhole /\ PresenceIsTrue
  BY OneDmHolds, PagesHold, PresenceHoldsTrue
<1> QED BY <1>1, <1>3, <1>4, PTL DEF ChatSpec, ChatIsSound

=============================================================================
