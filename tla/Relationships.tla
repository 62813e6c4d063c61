---------------------------- MODULE Relationships ----------------------------
(***************************************************************************)
(* The contacts of a workspace: their stage in the pipeline and their      *)
(* tags, written by the forms of several users, by bulk actions and their  *)
(* undo, by logged calls and by the workers.  A form and a bulk action     *)
(* read first and write later what they have read.                         *)
(***************************************************************************)
EXTENDS Integers, FiniteSets

CONSTANTS
  Cards,      \* contacts, by their address
  Tags,       \* tags and lists of the workspace
  Editors,    \* open forms and calls being logged
  Bulks,      \* bulk actions
  NoCard,     \* no contact
  MaxEdits    \* bound on the writes

RelationsAssumption == NoCard \notin Cards /\ MaxEdits \in Nat

ASSUME RelationsAssumption

VARIABLES
  card,      \* card[p]: [stage, tags], or Absent
  tagged,    \* the tags that exist
  editor,    \* editor[f]: [step, who, seen], what a form or a call has read
  bulk,      \* bulk[k]: [step, who, prev], the row of prmBulkActionLog
  edits,     \* writes so far
  before,    \* history, before[k]: the contacts just before bulk action k was applied
  touched    \* history, touched[k]: contacts that others wrote after k had read them

relationsVars == <<card, tagged, editor, bulk, edits, before, touched>>

\* CONTACTED stands for REPLIED and BOUNCED too, HOT for the stages a person sets.
Stages == {"COLD", "CONTACTED", "HOT"}
Absent == [stage |-> "none", tags |-> {}]
Contact == [stage : Stages, tags : SUBSET Tags]
NoEditor == [step |-> "closed", who |-> NoCard, seen |-> Absent]
NoBulk == [step |-> "unused", who |-> {}, prev |-> [p \in Cards |-> Absent]]
BulkSteps == {"unused", "read", "applied", "undoing", "undone", "expired"}

RelationsTypeOK ==
  /\ card \in [Cards -> Contact \cup {Absent}]
  /\ tagged \subseteq Tags
  /\ editor \in [Editors -> [step : {"closed", "form", "call"}, who : Cards \cup {NoCard},
                             seen : Contact \cup {Absent}]]
  /\ \A k \in Bulks : bulk[k].step \in BulkSteps /\ bulk[k].who \subseteq Cards
  /\ edits \in 0..MaxEdits
  /\ touched \in [Bulks -> SUBSET Cards]

RelationsInit ==
  /\ card = [p \in Cards |-> [stage |-> "COLD", tags |-> {}]]
  /\ tagged = Tags
  /\ editor = [f \in Editors |-> NoEditor]
  /\ bulk = [k \in Bulks |-> NoBulk]
  /\ edits = 0
  /\ before = [k \in Bulks |-> [p \in Cards |-> Absent]]
  /\ touched = [k \in Bulks |-> {}]

Present == {p \in Cards : card[p] # Absent}

\* The write of contacts ps, seen by every bulk action but the one that makes it.
Wrote(ps, own) ==
  /\ edits < MaxEdits
  /\ edits' = edits + 1
  /\ touched' = [k \in Bulks |-> IF bulk[k].step # "unused" /\ k \notin own
                                 THEN touched[k] \cup ps ELSE touched[k]]

WriteCard(p, c) == card' = [card EXCEPT ![p] = c] /\ Wrote({p}, {})

(***************************************************************************)
(* One contact.                                                            *)
(***************************************************************************)
\* upsertContact (createContact, importContacts, a campaign that enrols the contact) and
\* the create tools: a new contact, or the given fields of the one with the same address.
UpsertContact(p) ==
  /\ \E stage \in Stages, tags \in SUBSET tagged, staged, retagged \in BOOLEAN :
       WriteCard(p, IF p \in Present
                    THEN [stage |-> IF staged THEN stage ELSE card[p].stage,
                          tags |-> IF retagged THEN tags ELSE card[p].tags]
                    ELSE [stage |-> IF staged THEN stage ELSE "COLD",
                          tags |-> IF retagged THEN tags ELSE {}])
  /\ UNCHANGED <<tagged, editor, bulk, before>>

\* A form shows the contact, or applyDisposition reads it before its transaction.
OpenEditor(f, p, step) ==
  /\ editor[f] = NoEditor
  /\ p \in Present
  /\ editor' = [editor EXCEPT ![f] = [step |-> step, who |-> p, seen |-> card[p]]]
  /\ UNCHANGED <<card, tagged, bulk, edits, before, touched>>

CloseEditor(f) == editor' = [editor EXCEPT ![f] = NoEditor]

\* updateContact: the form sends every field, those the user has not changed as it has read
\* them.  A tag that is gone makes the update fail.
SaveForm(f) ==
  LET seen == editor[f].seen
      p == editor[f].who
  IN /\ editor[f].step = "form"
     /\ CloseEditor(f)
     /\ \/ /\ p \in Present
           /\ \E stage \in Stages, tags \in SUBSET tagged :
                /\ stage = seen.stage \/ tags = seen.tags
                /\ WriteCard(p, [stage |-> stage, tags |-> tags])
        \/ /\ p \notin Present \/ ~(seen.tags \subseteq tagged)
           /\ UNCHANGED <<card, edits, touched>>
     /\ UNCHANGED <<tagged, bulk, before>>

\* applyDisposition: the stage of the outcome is written unless the contact was read with it.
WriteCallStage(f) ==
  LET p == editor[f].who
  IN /\ editor[f].step = "call"
     /\ CloseEditor(f)
     /\ IF p \in Present /\ editor[f].seen.stage # "HOT"
        THEN WriteCard(p, [card[p] EXCEPT !.stage = "HOT"])
        ELSE UNCHANGED <<card, edits, touched>>
     /\ UNCHANGED <<tagged, bulk, before>>

\* updateContactStageByEmail: the worker after each mail, the detector at a reply.
StageByWorker(p) ==
  /\ p \in Present
  /\ WriteCard(p, [card[p] EXCEPT !.stage = "CONTACTED"])
  /\ UNCHANGED <<tagged, editor, bulk, before>>

\* contact_tag_apply, contact_tag_remove and the list operations connect and disconnect.
TagContact(p, t) ==
  /\ p \in Present /\ t \in tagged
  /\ \E tags \in {card[p].tags \cup {t}, card[p].tags \ {t}} :
       WriteCard(p, [card[p] EXCEPT !.tags = tags])
  /\ UNCHANGED <<tagged, editor, bulk, before>>

\* deleteContact, bulkDeleteContacts
DeleteContacts(ps) ==
  /\ ps # {} /\ ps \subseteq Present
  /\ card' = [p \in Cards |-> IF p \in ps THEN Absent ELSE card[p]]
  /\ Wrote(ps, {})
  /\ UNCHANGED <<tagged, editor, bulk, before>>

\* deleteTag, deleteList: the connections go with it.
DeleteTag(t) ==
  /\ t \in tagged
  /\ tagged' = tagged \ {t}
  /\ card' = [p \in Cards |-> [card[p] EXCEPT !.tags = @ \ {t}]]
  /\ Wrote({p \in Cards : t \in card[p].tags}, {})
  /\ UNCHANGED <<editor, bulk, before>>

(***************************************************************************)
(* executePrmBulkAction, undoPrmBulkAction and the tools of that name.     *)
(***************************************************************************)
ReadBulk(k, ps) ==
  /\ bulk[k].step = "unused"
  /\ ps # {} /\ ps \subseteq Present
  /\ bulk' = [bulk EXCEPT ![k] = [step |-> "read", who |-> ps,
                                  prev |-> [p \in Cards |-> IF p \in ps THEN card[p] ELSE Absent]]]
  /\ UNCHANGED <<card, tagged, editor, edits, before, touched>>

\* What the action makes of a contact.
BulkEffects ==
  {[c \in Contact |-> [c EXCEPT !.stage = stage]] : stage \in Stages}
    \cup {[c \in Contact |-> [c EXCEPT !.tags = @ \cup {t}]] : t \in tagged}
    \cup {[c \in Contact |-> [c EXCEPT !.tags = @ \ {t}]] : t \in tagged}

\* The log holds what was read before the transaction.
ApplyBulk(k) ==
  LET ps == bulk[k].who
  IN /\ bulk[k].step = "read"
     /\ \E effect \in BulkEffects :
          card' = [p \in Cards |-> IF p \in ps \cap Present THEN effect[card[p]] ELSE card[p]]
     /\ bulk' = [bulk EXCEPT ![k].step = "applied"]
     /\ before' = [before EXCEPT ![k] = card]
     /\ Wrote(ps, {k})
     /\ UNCHANGED <<tagged, editor>>

\* The token is looked up before the transaction.
AskUndo(k) ==
  /\ bulk[k].step = "applied"
  /\ bulk' = [bulk EXCEPT ![k].step = "undoing"]
  /\ UNCHANGED <<card, tagged, editor, edits, before, touched>>

\* Every contact of the log that still exists gets its stage and its tags back, whatever has
\* become of it; with a tag that is gone nothing is undone and the token stays good.
UndoBulk(k) ==
  LET ps == bulk[k].who \cap Present
      prev == bulk[k].prev
  IN /\ bulk[k].step = "undoing"
     /\ IF \A p \in ps : prev[p].tags \subseteq tagged
        THEN /\ card' = [p \in Cards |-> IF p \in ps THEN prev[p] ELSE card[p]]
             /\ bulk' = [bulk EXCEPT ![k].step = "undone"]
             /\ Wrote(ps, {k})
        ELSE /\ bulk' = [bulk EXCEPT ![k].step = "applied"]
             /\ UNCHANGED <<card, edits, touched>>
     /\ UNCHANGED <<tagged, editor, before>>

\* UNDO_WINDOW_MS
UndoExpires(k) ==
  /\ bulk[k].step = "applied"
  /\ bulk' = [bulk EXCEPT ![k].step = "expired"]
  /\ UNCHANGED <<card, tagged, editor, edits, before, touched>>

RelationsNext ==
  \/ \E p \in Cards :
       \/ UpsertContact(p) \/ StageByWorker(p)
       \/ \E t \in Tags : TagContact(p, t)
       \/ \E f \in Editors, step \in {"form", "call"} : OpenEditor(f, p, step)
  \/ \E f \in Editors : SaveForm(f) \/ WriteCallStage(f)
  \/ \E ps \in SUBSET Cards : DeleteContacts(ps) \/ \E k \in Bulks : ReadBulk(k, ps)
  \/ \E t \in Tags : DeleteTag(t)
  \/ \E k \in Bulks : ApplyBulk(k) \/ AskUndo(k) \/ UndoBulk(k) \/ UndoExpires(k)

RelationsSpec == RelationsInit /\ [][RelationsNext]_relationsVars

(***************************************************************************)
(* Properties.                                                             *)
(***************************************************************************)
\* An undone bulk action leaves every contact that nobody else has written since the action
\* read it as it was before the action, although the log is written from a read outside the
\* transaction and another action may be undone in between (prmControllers.ts:334-462).
UndoRestores ==
  \A k \in Bulks : bulk[k].step = "undone" =>
    \A p \in bulk[k].who \ touched[k] : card[p] = before[k][p]
=============================================================================
