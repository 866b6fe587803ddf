------------------------------- MODULE WebUI -------------------------------
(***************************************************************************)
(* The page served by internal/httpserver/handlers/ui.go: one script whose  *)
(* handlers send requests and go on when the answer arrives.  Requests are  *)
(* handled by the panel, and their answers applied by the page, in any      *)
(* order; an answer may be lost (the panel restarts, the network drops),    *)
(* before or after the panel has done the work, and a request the page has  *)
(* given up may still be handled later.                                     *)
(*                                                                          *)
(* Left out: the texts of out, versionMeta, updateCheckMeta and fileMeta    *)
(* except "Saved", and the handlers that only show an answer (list,         *)
(* download and delete files, directories, backups, SSL).  A site stands    *)
(* for its id, its domain and its suggested root path.  A local file is     *)
(* read and sent in one step, and goes to a path the editor does not offer. *)
(***************************************************************************)
EXTENDS Naturals, Sequences, SequencesExt

CONSTANTS
    Site,         \* the sites an administrator may have
    Token,        \* session tokens the panel may hand out
    PhpSites,     \* the sites of runtime php
    Path,         \* relative paths an administrator may type, and names of local files
    Empty,        \* '' (an empty field, no token)
    Plans,        \* bound: the controls a user keeps to, and how many clicks
    MaxSurprises, \* bound: answers lost, and changes by others
    MaxInFlight   \* bound: a timer waits while as many of its requests are under way

ASSUME BoundsAreNumbers == {MaxSurprises, MaxInFlight} \subseteq Nat
ASSUME EmptyIsNoValue == Empty \notin Site \cup Token \cup Path
ASSUME PhpSitesAreSites == PhpSites \subseteq Site
ASSUME SomethingToShow == Site # {} /\ Token # {}

VARIABLES
    page,    \* the script's variables and what it shows
    form,    \* the input fields, and what the user last put into them
    net,     \* requests under way, of each kind, in the order they were sent
    panel,   \* the panel's sessions, sites, running update and stored file
    saves,   \* history: the last save clicked, and what the page said of it
    left     \* what remains of the bounds

vars == <<page, form, net, panel, saves, left>>

Poll == {"sites", "status"}
Kind == Poll \cup {"login", "logout", "update", "create", "delete", "load", "save", "upload"}

\* Kinds whose handler changes the panel: given up, they may still be handled.
Writes == Kind \ (Poll \cup {"load"})

\* The options of the file name's list, and the fields that go with a site.
File == {"index.html", "index.php", "index.htm"}
FileField == {"fileName", "fileDir", "uploadPath", "dirPath"}
Field == {"fileSiteID", "sslDomain", "rootPath"} \cup FileField
NoReply == [kind |-> "none"]

\* The value of a fetch: sent by a timer or by a click.
Silent == 0
Loud == 1

(***************************** the script's parts *************************)

\* startUpdatePolling, startSitesPolling
StartPolling(p, k) ==
    IF p.timer[k] THEN p ELSE [p EXCEPT !.timer[k] = TRUE, !.live[k] = @ + 1]

\* Mutant of StopPolling: the variable keeps the cleared interval.
StopPollingKeepsHandle(p, k) == IF p.timer[k] THEN [p EXCEPT !.live[k] = 0] ELSE p

\* stopUpdatePolling, stopSitesPolling
StopPolling(p, k) ==
    IF p.timer[k] THEN [p EXCEPT !.timer[k] = FALSE, !.live[k] = @ - 1] ELSE p

\* setToken, without the requests it sends
SetToken(p, t) ==
    LET q == [p EXCEPT !.token = t] IN
    IF t # Empty
    THEN StartPolling(StartPolling(q, "status"), "sites")
    ELSE [StopPolling(StopPolling(q, "status"), "sites") EXCEPT
              !.label = "Not authenticated", !.shown = {}]

\* Mutant of ApplyUpdateStatus: nothing enables the button again.
ApplyUpdateStatusSticks(p, running) ==
    [p EXCEPT !.label = IF running THEN "Updating" ELSE "Not running", !.disabled = @ \/ running]

\* applyUpdateStatus on a status, or on an error payload (no field set)
ApplyUpdateStatus(p, running) ==
    [p EXCEPT !.label = IF running THEN "Updating" ELSE "Not running", !.disabled = running]

\* callAPI: the token is read when the request is sent
CallAPI(n, p, k, on, value) ==
    [n EXCEPT ![k] = Append(@, [tok |-> p.token, on |-> on, value |-> value,
                                reply |-> NoReply, open |-> TRUE])]

\* Mutant of Fetch: sent without a token too.
FetchUnsigned(n, p, k) == CallAPI(n, p, k, Empty, Silent)

\* fetchSites, fetchUpdateStatus up to the await
Fetch(n, p, k) == IF p.token = Empty THEN n ELSE CallAPI(n, p, k, Empty, Silent)

\* the four (here: two) requests setToken sends when there is a token
SetTokenFetches(n, p) ==
    IF p.token = Empty THEN n ELSE Fetch(Fetch(n, p, "sites"), p, "status")

\* an empty field is filled from an answer, or from the local file's name
FillIfEmpty(f, name, s) ==
    IF f.value[name] = Empty THEN [f EXCEPT !.value[name] = s] ELSE f

\* defaultFileByRuntime
DefaultFileByRuntime(s) == IF s \in PhpSites THEN "index.php" ELSE "index.html"

\* selectSiteForEditor
SelectSiteForEditor(f, s) ==
    [f EXCEPT !.value["fileSiteID"] = s,
              !.value["fileName"] = DefaultFileByRuntime(s),
              !.value["fileDir"] = Empty,
              !.value["uploadPath"] = Empty,
              !.value["dirPath"] = Empty]

\* Mutant of FillEditor: every list moves the editor to its first site.
FillEditorAlways(f, s) == SelectSiteForEditor(f, s)

\* a list selects its first site when none is selected
FillEditor(f, s) == IF f.value["fileSiteID"] = Empty THEN SelectSiteForEditor(f, s) ELSE f

\* The panel starts with one site, the browser with no token or a live one.
FirstSite == CHOOSE s \in Site : TRUE
FirstToken == CHOOSE t \in Token : TRUE

\* chosen is history: what the user last put into a field, see Typed.
NewForm == [value |-> [name \in Field |-> IF name = "fileName" THEN "index.html" ELSE Empty],
            chosen |-> [name \in Field |-> Empty],
            domain |-> Empty, rootDirty |-> FALSE, content |-> 0, local |-> Empty]

NewPage == [token |-> Empty, timer |-> [k \in Poll |-> FALSE], live |-> [k \in Poll |-> 0],
            shown |-> {}, label |-> "none", disabled |-> FALSE]

Init ==
    \E stored \in SUBSET {FirstToken}, plan \in Plans :
        /\ page = SetToken(NewPage, IF stored = {} THEN Empty ELSE FirstToken)
        /\ form = NewForm
        /\ net = SetTokenFetches([k \in Kind |-> <<>>], page)
        /\ panel = [sessions |-> stored, used |-> stored, sites |-> {FirstSite},
                    updating |-> FALSE, file |-> [x \in Site \X File |-> 0]]
        /\ saves = [edits |-> 0, last |-> <<>>, alone |-> FALSE, said |-> <<>>]
        /\ left = [controls |-> plan.controls, clicks |-> plan.clicks,
                   surprises |-> MaxSurprises]

(********************************* the user *******************************)

Click(control) ==
    /\ left.clicks > 0 /\ control \in left.controls
    /\ left' = [left EXCEPT !.clicks = @ - 1]

Surprise == left.surprises > 0 /\ left' = [left EXCEPT !.surprises = @ - 1]

ClickLogin ==
    /\ Click("login")
    /\ net' = CallAPI(net, [page EXCEPT !.token = Empty], "login", Empty, 0)
    /\ UNCHANGED <<page, form, panel, saves>>

ClickLogout ==
    /\ Click("logout")
    /\ net' = CallAPI(net, page, "logout", Empty, 0)
    /\ UNCHANGED <<page, form, panel, saves>>

\* btnSites, btnSitesRefresh, btnUpdateStatus: a fetch that is not silent
ClickRefresh ==
    /\ Click("refresh") /\ page.token # Empty
    /\ \E k \in Poll : net' = CallAPI(net, page, k, Empty, Loud)
    /\ UNCHANGED <<page, form, panel, saves>>

ClickStartUpdate ==
    /\ Click("update") /\ ~page.disabled
    /\ net' = CallAPI(net, page, "update", Empty, 0)
    /\ UNCHANGED <<page, form, panel, saves>>

ClickCreateSite ==
    /\ Click("create")
    /\ net' = CallAPI(net, page, "create", form.domain, 0)
    /\ UNCHANGED <<page, form, panel, saves>>

ClickDeleteSite ==
    /\ Click("delete")
    /\ \E s \in page.shown : net' = CallAPI(net, page, "delete", s, 0)
    /\ UNCHANGED <<page, form, panel, saves>>

\* what Load and Save are about
Edited(f) == <<f.value["fileSiteID"], f.value["fileName"]>>

ClickLoadFile ==
    /\ Click("load") /\ form.value["fileSiteID"] # Empty
    /\ net' = CallAPI(net, page, "load", Edited(form), 0)
    /\ UNCHANGED <<page, form, panel, saves>>

ClickSaveFile ==
    /\ Click("save") /\ form.value["fileSiteID"] # Empty
    /\ LET e == Edited(form) IN
       /\ net' = CallAPI(net, page, "save", e, form.content)
       /\ saves' = [saves EXCEPT !.last = <<e, form.content>>, !.said = <<>>,
                                 !.alone = \A i \in DOMAIN net["save"] : net["save"][i].on # e]
    /\ UNCHANGED <<page, form, panel>>

UploadTarget(f) == IF f.value["uploadPath"] # Empty THEN f.value["uploadPath"] ELSE f.local

ClickUploadFile ==
    /\ Click("upload") /\ form.value["fileSiteID"] # Empty /\ form.local # Empty
    /\ net' = CallAPI(net, page, "upload", <<form.value["fileSiteID"], UploadTarget(form)>>, 0)
    /\ UNCHANGED <<page, form, panel, saves>>

\* The user gives up what he put into the file fields.
Unsettled(c) == [name \in Field |-> IF name \in FileField THEN Empty ELSE c[name]]

\* The user fills in a field.  While no site is selected the file fields do not
\* count as chosen: the next list selects a site and resets them.
Typed(f, name, v) ==
    LET value == [f.value EXCEPT ![name] = v]
        chosen == [f.chosen EXCEPT ![name] = v] IN
    [f EXCEPT !.value = value,
              !.chosen = IF value["fileSiteID"] = Empty THEN Unsettled(chosen) ELSE chosen]

\* The user types a site id or an SSL domain, or clicks "Use SSL" in a row of the
\* list, or clears the field.
ChooseField ==
    /\ Click("choose")
    /\ \E name \in {"fileSiteID", "sslDomain"}, v \in Site \cup {Empty} :
           form' = Typed(form, name, v)
    /\ UNCHANGED <<page, net, panel, saves>>

\* "Edit Index" in a row of the list: the user wants its site, and its default file.
ClickEditIndex ==
    /\ Click("select")
    /\ \E s \in page.shown :
           form' = [SelectSiteForEditor(form, s) EXCEPT
                        !.chosen = [Unsettled(@) EXCEPT !["fileSiteID"] = s]]
    /\ UNCHANGED <<page, net, panel, saves>>

PickFileName ==
    /\ Click("name")
    /\ \E v \in File : form' = Typed(form, "fileName", v)
    /\ UNCHANGED <<page, net, panel, saves>>

TypePath ==
    /\ Click("path")
    /\ \E name \in FileField \ {"fileName"}, v \in Path \cup {Empty} : form' = Typed(form, name, v)
    /\ UNCHANGED <<page, net, panel, saves>>

\* the change listener of uploadFile suggests a target
ChooseLocalFile ==
    /\ Click("local")
    /\ \E v \in Path : form' = FillIfEmpty([form EXCEPT !.local = v], "uploadPath", v)
    /\ UNCHANGED <<page, net, panel, saves>>

TypeRootPath ==
    /\ Click("rootPath")
    /\ \E v \in Site : form' = [Typed(form, "rootPath", v) EXCEPT !.rootDirty = TRUE]
    /\ UNCHANGED <<page, net, panel, saves>>

\* the input listener of domain suggests a root path
DomainInput(f, v) ==
    [f EXCEPT !.domain = v, !.value["rootPath"] = IF f.rootDirty THEN @ ELSE v]

TypeDomain ==
    /\ Click("domain")
    /\ \E v \in Site : form' = DomainInput(form, v)
    /\ UNCHANGED <<page, net, panel, saves>>

EditContent ==
    /\ Click("edit")
    /\ form' = [form EXCEPT !.content = saves.edits + 1]
    /\ saves' = [saves EXCEPT !.edits = @ + 1]
    /\ UNCHANGED <<page, net, panel>>

\* A reload forgets everything but localStorage; what was sent may still be handled.
Unhandled(n, k) == {i \in DOMAIN n[k] : k \in Writes /\ n[k][i].reply = NoReply}

Abandoned(n) ==
    [k \in Kind |-> LET order == SetToSeq(Unhandled(n, k)) IN
                    [j \in DOMAIN order |-> [n[k][order[j]] EXCEPT !.open = FALSE]]]

Reload ==
    /\ Click("reload")
    /\ page' = SetToken(NewPage, page.token)
    /\ net' = SetTokenFetches(Abandoned(net), page')
    /\ form' = NewForm
    /\ saves' = [saves EXCEPT !.said = <<>>]
    /\ UNCHANGED panel

(********************************* the panel ******************************)

Answer(k, i, r) == net' = [net EXCEPT ![k][i].reply = r]

\* A given up request is over once it is handled.
Handled(k, i, r) ==
    IF net[k][i].open THEN Answer(k, i, r) ELSE net' = [net EXCEPT ![k] = RemoveAt(@, i)]

Error == [kind |-> "error"]
Ok == [kind |-> "ok"]
Refuse == {<<panel, Error>>}

\* Each handler: what it may leave in the panel, with its answer.  A refused update
\* carries the updater's status unless that could not be read either.
HandleStartPanelUpdate ==
    Refuse \cup {<<panel, [kind |-> "refused", running |-> panel.updating]>>}
           \cup (IF panel.updating THEN {} ELSE {<<[panel EXCEPT !.updating = TRUE], Ok>>})

HandleLogout(r) == {<<[panel EXCEPT !.sessions = @ \ {r.tok}], Ok>>}

\* Every site is on the list: its limit of 200 is beyond the sites modelled.
HandleListSites == {<<panel, [kind |-> "ok", items |-> panel.sites]>>}

HandlePanelUpdateStatus == {<<panel, [kind |-> "ok", running |-> panel.updating]>>}

\* A deletion is only queued: the site goes later (PanelChanges).
HandleDeleteSite(r) == IF r.on \in panel.sites THEN {<<panel, Ok>>} ELSE Refuse

HandleCreateSite(r) ==
    IF r.on \in Site \ panel.sites
    THEN {<<[panel EXCEPT !.sites = @ \cup {r.on}], Ok>>} ELSE Refuse

\* The file need not be there.
HandleGetSiteContent(r) ==
    IF r.on[1] \in panel.sites
    THEN Refuse \cup {<<panel, [kind |-> "ok", value |-> panel.file[r.on]]>>} ELSE Refuse

\* os.WriteFile truncates before it writes, and may then fail.
HandleUpdateSiteContent(r) ==
    IF r.on[1] \in panel.sites
    THEN Refuse \cup {<<[panel EXCEPT !.file[r.on] = r.value], Ok>>,
                      <<[panel EXCEPT !.file[r.on] = 0], Error>>}
    ELSE Refuse

\* An upload goes to no file of the editor.
HandleUploadSiteFile(r) ==
    IF r.on[1] \in panel.sites THEN Refuse \cup {<<panel, Ok>>} ELSE Refuse

\* The handler of each kind.
Outcomes(k, r) ==
    CASE k = "sites"  -> HandleListSites
      [] k = "status" -> HandlePanelUpdateStatus
      [] k = "logout" -> HandleLogout(r)
      [] k = "update" -> HandleStartPanelUpdate
      [] k = "create" -> HandleCreateSite(r)
      [] k = "delete" -> HandleDeleteSite(r)
      [] k = "load"   -> HandleGetSiteContent(r)
      [] k = "save"   -> HandleUpdateSiteContent(r)
      [] k = "upload" -> HandleUploadSiteFile(r)

\* requireAuth, then the handler
HandleAuthenticated(k, i) ==
    LET r == net[k][i] IN
    /\ k # "login" /\ r.reply = NoReply
    /\ IF r.tok \in panel.sessions
       THEN \E o \in Outcomes(k, r) : panel' = o[1] /\ Handled(k, i, o[2])
       ELSE panel' = panel /\ Handled(k, i, Error)
    /\ UNCHANGED <<page, form, saves, left>>

\* The repository or systemctl fails before the handler has done anything.
HandlerErrs(k, i) ==
    /\ k # "login" /\ net[k][i].reply = NoReply
    /\ Surprise
    /\ Handled(k, i, Error)
    /\ UNCHANGED <<page, form, panel, saves>>

HandleLogin(i) ==
    LET r == net["login"][i] IN
    /\ r.reply = NoReply
    /\ \/ \E t \in Token \ panel.used :
            /\ panel' = [panel EXCEPT !.sessions = @ \cup {t}, !.used = @ \cup {t}]
            /\ Handled("login", i, [kind |-> "ok", token |-> t])
       \/ panel' = panel /\ Handled("login", i, Error)
    /\ UNCHANGED <<page, form, saves, left>>

UpdateEnds ==
    /\ panel.updating
    /\ panel' = [panel EXCEPT !.updating = FALSE]
    /\ UNCHANGED <<page, form, net, saves, left>>

\* A job or another administrator adds or removes a site; a session ends.
PanelChanges ==
    /\ Surprise
    /\ \/ \E s \in Site : panel' = [panel EXCEPT !.sites = IF s \in @ THEN @ \ {s} ELSE @ \cup {s}]
       \/ \E t \in panel.sessions : panel' = [panel EXCEPT !.sessions = @ \ {t}]
    /\ UNCHANGED <<page, form, net, saves>>

(****************************** answers arrive ****************************)

\* The i-th request of kind k is settled with reply r; the others stay.
Arrives(k, i, r) == net[k][i].open /\ net[k][i].reply = r /\ r # NoReply
Rest(k, i) == [net EXCEPT ![k] = RemoveAt(@, i)]

LoginArrives(i) ==
    LET r == net["login"][i].reply IN
    /\ Arrives("login", i, r)
    /\ page' = IF r.kind = "ok" THEN SetToken(page, r.token) ELSE page
    /\ net' = IF r.kind = "ok" THEN SetTokenFetches(Rest("login", i), page') ELSE Rest("login", i)
    /\ UNCHANGED <<form, panel, saves, left>>

LogoutArrives(i) ==
    /\ Arrives("logout", i, net["logout"][i].reply)
    /\ page' = SetToken(page, Empty)
    /\ net' = Rest("logout", i)
    /\ UNCHANGED <<form, panel, saves, left>>

\* fetchSites after the await: an error payload has no items
SitesFill(f, items) ==
    IF items = {} THEN {f}
    ELSE {FillEditor(FillIfEmpty(f, "sslDomain", s), s) : s \in items}

\* renderSites
RenderSites(p, items) == [p EXCEPT !.shown = items]

SitesArrive(i) ==
    LET r == net["sites"][i].reply
        items == IF r.kind = "ok" THEN r.items ELSE {} IN
    /\ Arrives("sites", i, r)
    /\ page' = RenderSites(page, items)
    /\ form' \in SitesFill(form, items)
    /\ net' = Rest("sites", i)
    /\ UNCHANGED <<panel, saves, left>>

StatusArrives(i) ==
    LET r == net["status"][i].reply IN
    /\ Arrives("status", i, r)
    /\ page' = IF r.kind = "ok" THEN ApplyUpdateStatus(page, r.running)
               ELSE [page EXCEPT !.label = "Unknown", !.disabled = FALSE]
    /\ net' = Rest("status", i)
    /\ UNCHANGED <<form, panel, saves, left>>

UpdateArrives(i) ==
    LET r == net["update"][i].reply IN
    /\ Arrives("update", i, r)
    /\ \/ /\ r.kind = "refused"
          /\ page' = StartPolling(ApplyUpdateStatus(page, r.running), "status")
          /\ net' = Rest("update", i)
       \/ /\ r.kind # "refused"
          /\ page' = StartPolling([page EXCEPT !.label = "Triggered"], "status")
          /\ net' = Fetch(Rest("update", i), page, "status")
    /\ UNCHANGED <<form, panel, saves, left>>

\* The then-branch runs for an error payload too.
CreateArrives(i) ==
    /\ Arrives("create", i, net["create"][i].reply)
    /\ form' = FillIfEmpty(form, "sslDomain", form.domain)
    /\ net' = Fetch(Rest("create", i), page, "sites")
    /\ UNCHANGED <<page, panel, saves, left>>

DeleteArrives(i) ==
    /\ Arrives("delete", i, net["delete"][i].reply)
    /\ net' = Fetch(Rest("delete", i), page, "sites")
    /\ UNCHANGED <<page, form, panel, saves, left>>

LoadArrives(i) ==
    LET r == net["load"][i].reply IN
    /\ Arrives("load", i, r)
    /\ form' = IF r.kind = "ok" THEN [form EXCEPT !.content = r.value] ELSE form
    /\ net' = Rest("load", i)
    /\ UNCHANGED <<page, panel, saves, left>>

\* Mutant of SaysSaved: the payload is not looked at, as for an upload.
SaysSavedAnyway(r) == r # NoReply

\* fileMeta says "Saved" when payload.status is 'ok'
SaysSaved(r) == r.kind = "ok"

SaveArrives(i) ==
    LET r == net["save"][i] IN
    /\ Arrives("save", i, r.reply)
    /\ saves' = IF SaysSaved(r.reply) THEN [saves EXCEPT !.said = <<r.on, r.value>>] ELSE saves
    /\ net' = Rest("save", i)
    /\ UNCHANGED <<page, form, panel, left>>

\* The upload's own target is put back, over what was typed meanwhile and for an
\* error payload too.
UploadArrives(i) ==
    /\ Arrives("upload", i, net["upload"][i].reply)
    /\ form' = [form EXCEPT !.value["uploadPath"] = net["upload"][i].on[2],
                            !.chosen["uploadPath"] = Empty]
    /\ net' = Rest("upload", i)
    /\ UNCHANGED <<page, panel, saves, left>>

(***************************** answers are lost ***************************)

\* What is left of the requests when the page gives up the i-th of kind k.
GivenUp(k, i) ==
    IF k \in Writes /\ net[k][i].reply = NoReply
    THEN [net EXCEPT ![k][i].open = FALSE] ELSE Rest(k, i)

\* the catch branches
AfterLoss(p, k, value) ==
    CASE k = "logout" -> SetToken(p, Empty)
      [] k = "status" /\ value = Silent -> [p EXCEPT !.label = "Reconnecting"]
      [] k = "update" -> StartPolling([p EXCEPT !.label = "Applying"], "status")
      [] OTHER        -> p

RequestFails(k, i) ==
    /\ Surprise /\ net[k][i].open
    /\ page' = AfterLoss(page, k, net[k][i].value)
    /\ net' = IF k = "update" THEN Fetch(GivenUp(k, i), page, "status") ELSE GivenUp(k, i)
    /\ UNCHANGED <<form, panel, saves>>

(********************************** timers ********************************)

\* Every interval the browser runs fires, whether or not the script can still stop it.
Tick(k) ==
    /\ page.live[k] > 0 /\ Len(net[k]) < MaxInFlight
    /\ net' = Fetch(net, page, k)
    /\ UNCHANGED <<page, form, panel, saves, left>>

UserActs ==
    \/ ClickLogin \/ ClickLogout \/ ClickRefresh \/ ClickStartUpdate
    \/ ClickCreateSite \/ ClickDeleteSite
    \/ ClickLoadFile \/ ClickSaveFile \/ ClickUploadFile
    \/ ChooseField \/ ClickEditIndex \/ PickFileName \/ TypePath \/ ChooseLocalFile
    \/ TypeRootPath \/ TypeDomain \/ EditContent \/ Reload

Handle(k, i) == HandleAuthenticated(k, i) \/ (k = "login" /\ HandleLogin(i))

Arrive(k, i) ==
    \/ k = "login"  /\ LoginArrives(i)
    \/ k = "logout" /\ LogoutArrives(i)
    \/ k = "sites"  /\ SitesArrive(i)
    \/ k = "status" /\ StatusArrives(i)
    \/ k = "update" /\ UpdateArrives(i)
    \/ k = "create" /\ CreateArrives(i)
    \/ k = "delete" /\ DeleteArrives(i)
    \/ k = "load"   /\ LoadArrives(i)
    \/ k = "save"   /\ SaveArrives(i)
    \/ k = "upload" /\ UploadArrives(i)

Next ==
    \/ UserActs \/ UpdateEnds \/ PanelChanges
    \/ \E k \in Poll : Tick(k)
    \/ \E k \in Kind : \E i \in DOMAIN net[k] : 
           Handle(k, i) \/ HandlerErrs(k, i) \/ Arrive(k, i) \/ RequestFails(k, i)

\* The browser's timers fire, the updater ends, and the oldest request of each
\* kind is handled and settled: nothing is assumed of the user.
Fairness ==
    /\ WF_vars(UpdateEnds)
    /\ \A k \in Poll : WF_vars(Tick(k))
    /\ \A k \in Kind : WF_vars(net[k] # <<>> /\ (Handle(k, 1) \/ Arrive(k, 1)))

Spec == Init /\ [][Next]_vars /\ Fairness

(******************************** properties ******************************)

\* While there is a token one interval of each kind runs, never two, and the
\* script can stop every one that runs; none sends a request without a token.
\* Logging in again, reloads, and the answer to Start Update that arrives (or is
\* lost) only after the logout do not upset this.
PollingSound ==
    \A k \in Poll :
        /\ page.live[k] = (IF page.timer[k] THEN 1 ELSE 0)
        /\ page.token # Empty => page.timer[k]
        /\ \A i \in DOMAIN net[k] : net[k][i].tok # Empty

\* What the user put into a field is not replaced by an answer that arrives later,
\* in two cases excepted: with no site selected (or the site field just cleared)
\* the next list selects one and resets the file name and the paths, and an
\* answered upload puts its own target back.  So Save acts on the file the user
\* picked, Issue SSL and Create on the domain and root path he typed.
UserInputKept ==
    \A name \in Field : form.chosen[name] # Empty => form.value[name] = form.chosen[name]

\* When the page says "Saved" of the last save, and no other save of that file
\* was under way when it was clicked, the panel holds what was saved.
SavedStands ==
    saves.said # <<>> /\ saves.said = saves.last /\ saves.alone
        => panel.file[saves.last[1]] = saves.last[2]

SignedIn == page.token \in panel.sessions

\* Answers out of order, error payloads rendered as an empty list and lost
\* answers are repaired: a page that stays signed in ends up showing the sites.
ListConverges == <>[]SignedIn => <>[](page.shown = panel.sites)

\* However the answers to Start Update and to the polls are lost or reordered,
\* a page that stays signed in ends with the final status and the button back.
StatusConverges == <>[]SignedIn => <>[](page.label = "Not running" /\ ~page.disabled)

=============================================================================
