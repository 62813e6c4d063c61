---------------------------- MODULE MailMaterial ----------------------------
(***************************************************************************)
(* What mails are made of: e-mail and follow-up templates, the default     *)
(* templates everybody sees, and attached files.  A template belongs to    *)
(* its maker and may belong to the workspace as well; names are unique per *)
(* maker and kind.  A file is stored before there is a campaign, and gets  *)
(* an owner only when one is created with it.  The compose page has the    *)
(* handlers for files but its form does not offer them: the files are      *)
(* those of clients of the API.                                            *)
(***************************************************************************)
EXTENDS Integers, FiniteSets

CONSTANTS
  Editors,                   \* users
  Nobody,                    \* the maker of the default templates
  MailNames, FollowUpNames,  \* names of e-mail templates and of follow-up templates
  Texts, NoText,
  Files, Campaigns,
  MaxTotal,                  \* the 25 MB limit, in files
  MaxRequests                \* bound on what the users do

MaterialAssumption ==
  /\ Nobody \notin Editors /\ Texts # {} /\ NoText \notin Texts /\ MailNames \cap FollowUpNames = {}
  /\ IsFiniteSet(Files) /\ MaxTotal \in Nat /\ MaxRequests \in Nat

ASSUME MaterialAssumption

VARIABLES
  tmpl,       \* tmpl[m][n]: [level, text], "none", "own", or "work": the workspace's too
  atWork,     \* users whose active organization is the workspace
  shown,      \* shown[u][r], the page's list: the text of template r when it was loaded
  form,       \* form[u], TemplateFormModal or the builder: the set of templates being edited
  draft,      \* draft[u], the compose page: [text, pending]
  uploading,  \* uploading[u]: files on their way to the server
  known,      \* known[u]: files whose URL the client has
  disk,       \* files in the uploads directory
  withFiles,  \* campaigns: [step, files]
  removed,    \* history: [file, held] of the files taken from the directory
  missed,     \* history: files for want of which a mail failed
  asked       \* counter of the bound

templateVars == <<tmpl, atWork, shown, form>>
fileVars == <<uploading, known, disk, withFiles, removed, missed>>
materialVars == <<templateVars, draft, fileVars, asked>>

Makers == Editors \cup {Nobody}
TemplateNames == MailNames \cup FollowUpNames
TemplateIds == Makers \X TemplateNames
AnyText == Texts \cup {NoText}
NoTemplate == [level |-> "none", text |-> NoText]
EmptyDraft == [text |-> NoText, pending |-> NoText]

MaterialTypeOK ==
  /\ tmpl \in [Makers -> [TemplateNames -> [level : {"none", "own", "work"}, text : AnyText]]]
  /\ atWork \subseteq Editors /\ shown \in [Editors -> [TemplateIds -> AnyText]]
  /\ form \in [Editors -> SUBSET TemplateIds]
  /\ draft \in [Editors -> [text : AnyText, pending : AnyText]]
  /\ uploading \in [Editors -> SUBSET Files] /\ known \in [Editors -> SUBSET Files]
  /\ disk \subseteq Files
  /\ withFiles \in [Campaigns -> [step : {"none", "posted", "stored"}, files : SUBSET Files]]
  /\ removed \subseteq [file : Files, held : BOOLEAN]
  /\ missed \subseteq Files /\ asked \in 0..MaxRequests

Defaults == [n \in TemplateNames |->
               IF n \in MailNames THEN [level |-> "own", text |-> CHOOSE t \in Texts : TRUE]
               ELSE NoTemplate]

MaterialInit ==
  /\ tmpl = [m \in Makers |-> IF m = Nobody THEN Defaults ELSE [n \in TemplateNames |-> NoTemplate]]
  /\ atWork \in SUBSET Editors /\ shown = [u \in Editors |-> [r \in TemplateIds |-> NoText]]
  /\ form = [u \in Editors |-> {}] /\ draft = [u \in Editors |-> EmptyDraft]
  /\ uploading = [u \in Editors |-> {}] /\ known = [u \in Editors |-> {}] /\ disk = {}
  /\ withFiles = [c \in Campaigns |-> [step |-> "none", files |-> {}]]
  /\ removed = {} /\ missed = {} /\ asked = 0

Ask == asked < MaxRequests /\ asked' = asked + 1

-----------------------------------------------------------------------------
(* Templates.                                                              *)

Level(u) == IF u \in atWork THEN "work" ELSE "own"

\* getOrgScope: the workspace's templates, or all that the user has made.
MayEdit(u, r) ==
  LET level == tmpl[r[1]][r[2]].level
  IN IF u \in atWork THEN level = "work" ELSE r[1] = u /\ level # "none"

SwitchWorkspace(u) ==
  /\ Ask /\ atWork' = IF u \in atWork THEN atWork \ {u} ELSE atWork \cup {u}
  /\ UNCHANGED <<tmpl, shown, form, draft, fileVars>>

\* getTemplates adds the defaults to those of the scope.
Offered(u) == {r \in TemplateIds : MayEdit(u, r) \/ (r[1] = Nobody /\ r[2] \in MailNames)}

LoadTemplates(u) ==
  /\ shown' = [shown EXCEPT ![u] = [r \in TemplateIds |-> IF r \in Offered(u)
                                                           THEN tmpl[r[1]][r[2]].text ELSE NoText]]
  /\ UNCHANGED <<tmpl, atWork, form, draft, fileVars, asked>>

NewTemplate(u, n) ==
  /\ Ask /\ tmpl[u][n].level = "none"  \* else "already exists"
  /\ \E t \in Texts : tmpl' = [tmpl EXCEPT ![u][n] = [level |-> Level(u), text |-> t]]
  /\ UNCHANGED <<atWork, shown, form, draft, fileVars>>

CreateTemplate(u) == \E n \in MailNames : NewTemplate(u, n)
CreateFollowUp(u) == \E n \in FollowUpNames : NewTemplate(u, n)
ToolCreateTemplate(u) == \E n \in MailNames : NewTemplate(u, n)  \* a taken name is an error too
ToolCreateFollowUp(u) == \E n \in FollowUpNames : NewTemplate(u, n)

\* The page offers to edit what is listed and is not a default.
EditTemplate(u) ==
  /\ Ask
  /\ \E r \in TemplateIds : /\ r[1] # Nobody /\ shown[u][r] # NoText
                           /\ form' = [form EXCEPT ![u] = {r}]
  /\ UNCHANGED <<tmpl, atWork, shown, draft, fileVars>>

\* The maker's name stays unique: a new name must be free.
Rewrite(r, n, t) ==
  LET row == [tmpl[r[1]][r[2]] EXCEPT !.text = t] IN
  /\ n = r[2] \/ tmpl[r[1]][n].level = "none"
  /\ tmpl' = [tmpl EXCEPT ![r[1]][r[2]] = NoTemplate, ![r[1]][n] = row]

\* The form sends every field, those that were not touched as they were listed.
UpdateTemplate(u, r) ==
  /\ r \in form[u] /\ r[2] \in MailNames /\ MayEdit(u, r)
  /\ \E n \in MailNames, t \in Texts : Rewrite(r, n, t)
  /\ form' = [form EXCEPT ![u] = {}] /\ UNCHANGED <<atWork, shown, draft, fileVars, asked>>

\* The builder saves its steps under the old name.
UpdateFollowUp(u, r) ==
  /\ r \in form[u] /\ r[2] \in FollowUpNames /\ MayEdit(u, r)
  /\ \E t \in Texts : Rewrite(r, r[2], t)
  /\ UNCHANGED <<atWork, shown, form, draft, fileVars, asked>>

\* A tool changes the fields it is given of a template whose id its client knows.
ToolUpdate(u, r, names) ==
  /\ Ask /\ r[2] \in names /\ MayEdit(u, r)
  /\ \E n \in names, t \in Texts : Rewrite(r, n, t)
  /\ UNCHANGED <<atWork, shown, form, draft, fileVars>>

ToolUpdateTemplate(u, r) == ToolUpdate(u, r, MailNames)
ToolUpdateFollowUp(u, r) == ToolUpdate(u, r, FollowUpNames)

DropTemplate(u, r) ==
  /\ Ask /\ MayEdit(u, r) /\ tmpl' = [tmpl EXCEPT ![r[1]][r[2]] = NoTemplate]
  /\ UNCHANGED <<atWork, shown, form, draft, fileVars>>

\* The pages offer what they have listed, but for the defaults.
Deletable(u, r) == r[1] # Nobody /\ shown[u][r] # NoText

DeleteTemplate(u, r) == r[2] \in MailNames /\ Deletable(u, r) /\ DropTemplate(u, r)
DeleteFollowUp(u, r) == r[2] \in FollowUpNames /\ Deletable(u, r) /\ DropTemplate(u, r)
ToolDeleteTemplate(u, r) == r[2] \in MailNames /\ DropTemplate(u, r)
ToolDeleteFollowUp(u, r) == r[2] \in FollowUpNames /\ DropTemplate(u, r)

-----------------------------------------------------------------------------
(* The compose page: a template replaces the text, after a question if     *)
(* there is one already.                                                   *)

TypeText(u) ==
  /\ Ask /\ \E t \in Texts : draft' = [draft EXCEPT ![u].text = t]
  /\ UNCHANGED <<templateVars, fileVars>>

SelectTemplate(u) ==
  /\ Ask
  /\ \E r \in TemplateIds :
       /\ r[2] \in MailNames /\ shown[u][r] # NoText
       /\ draft' = IF draft[u].text = NoText THEN [draft EXCEPT ![u].text = shown[u][r]]
                   ELSE [draft EXCEPT ![u].pending = shown[u][r]]
  /\ UNCHANGED <<templateVars, fileVars>>

\* "Use this template?"
Decide(u) ==
  /\ draft[u].pending # NoText
  /\ \E t \in {draft[u].text, draft[u].pending} :
       draft' = [draft EXCEPT ![u].text = t, ![u].pending = NoText]
  /\ UNCHANGED <<templateVars, fileVars, asked>>

-----------------------------------------------------------------------------
(* Files.                                                                  *)

\* Every upload has URLs of its own.
UploadFiles(u) ==
  /\ Ask /\ uploading[u] = {}
  /\ \E F \in SUBSET (Files \ (disk \cup UNION {uploading[v] \cup known[v] : v \in Editors})) :
       /\ F # {} /\ Cardinality(F) <= MaxTotal
       /\ uploading' = [uploading EXCEPT ![u] = F]
  /\ UNCHANGED <<templateVars, draft, known, disk, withFiles, removed, missed>>

\* They are written one after the other; if one fails, nobody learns of those
\* written before it.
SaveToLocal(u) ==
  /\ uploading[u] # {} /\ uploading' = [uploading EXCEPT ![u] = {}]
  /\ \E F \in SUBSET uploading[u] :
       /\ disk' = disk \cup F
       /\ known' = IF F = uploading[u] THEN [known EXCEPT ![u] = @ \cup F] ELSE known
  /\ UNCHANGED <<templateVars, draft, withFiles, removed, missed, asked>>

\* Campaigns whose rows hold the file.
Holders(f) == {c \in Campaigns : withFiles[c].step = "stored" /\ f \in withFiles[c].files}

FoundAttachment(f) == Holders(f) # {}

\* A file of no campaign is not found, and stays.  The campaign's row stays too.
DeleteAttachment(u, f) ==
  /\ Ask /\ f \in known[u]
  /\ IF FoundAttachment(f) /\ f \in disk
     THEN /\ disk' = disk \ {f}
          /\ removed' = removed \cup {[file |-> f, held |-> Holders(f) # {}]}
     ELSE UNCHANGED <<disk, removed>>
  /\ UNCHANGED <<templateVars, draft, uploading, known, withFiles, missed>>

PostCampaign(u, c) ==
  /\ Ask /\ withFiles[c].step = "none"
  /\ \E F \in SUBSET known[u] : withFiles' = [withFiles EXCEPT ![c] = [step |-> "posted", files |-> F]]
  /\ UNCHANGED <<templateVars, draft, uploading, known, disk, removed, missed>>

\* createCampaign writes the attachments with the campaign, if they are not too
\* large; it does not look whether they are there.
StoreAttachments(c) ==
  /\ withFiles[c].step = "posted"
  /\ withFiles' = [withFiles EXCEPT ![c] = IF Cardinality(@.files) <= MaxTotal
                                       THEN [@ EXCEPT !.step = "stored"]
                                       ELSE [step |-> "none", files |-> {}]]
  /\ UNCHANGED <<templateVars, draft, uploading, known, disk, removed, missed, asked>>

\* The worker fetches every file for every mail; a mail without one fails for good.
FetchAttachments(c) ==
  /\ withFiles[c].step = "stored" /\ withFiles[c].files \ disk # {}
  /\ missed' = missed \cup (withFiles[c].files \ disk)
  /\ UNCHANGED <<templateVars, draft, uploading, known, disk, withFiles, removed, asked>>

-----------------------------------------------------------------------------
MaterialNext ==
  \/ \E u \in Editors : \/ SwitchWorkspace(u) \/ LoadTemplates(u) \/ CreateTemplate(u)
                        \/ CreateFollowUp(u) \/ ToolCreateTemplate(u) \/ ToolCreateFollowUp(u)
                        \/ EditTemplate(u) \/ TypeText(u)
                        \/ SelectTemplate(u) \/ Decide(u) \/ UploadFiles(u) \/ SaveToLocal(u)
  \/ \E u \in Editors, r \in TemplateIds :
       \/ UpdateTemplate(u, r) \/ UpdateFollowUp(u, r)
       \/ ToolUpdateTemplate(u, r) \/ ToolUpdateFollowUp(u, r)
       \/ DeleteTemplate(u, r) \/ DeleteFollowUp(u, r)
       \/ ToolDeleteTemplate(u, r) \/ ToolDeleteFollowUp(u, r)
  \/ \E u \in Editors, f \in Files : DeleteAttachment(u, f)
  \/ \E u \in Editors, c \in Campaigns : PostCampaign(u, c)
  \/ \E c \in Campaigns : StoreAttachments(c) \/ FetchAttachments(c)

MaterialSpec == MaterialInit /\ [][MaterialNext]_materialVars

\* A mail fails for want of a file only if the file was deleted while a stored
\* campaign held it; deleting it earlier leaves it where the campaign will look
\* for it (deleteAttachment; the download in emailWorker).
FilesLostOnlyIfHeld == \A f \in missed : \E x \in removed : x.file = f /\ x.held

\* Nobody changes or deletes a default template, though only the deletion asks
\* whether it is one (templateControllers.ts:156).
DefaultsKept == tmpl[Nobody] = Defaults

MaterialSound == FilesLostOnlyIfHeld /\ DefaultsKept
===============================================================================
