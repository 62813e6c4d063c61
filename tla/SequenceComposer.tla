-------------------------- MODULE SequenceComposer --------------------------
(***************************************************************************)
(* The compose page of the web client and what the server accepts of it.   *)
(* Client: app/dashboard/compose (page, ComposeForm, SequenceBuilder),     *)
(* stores/composeStore.ts, lib/followUpTemplates.ts.  Server:              *)
(* utils/sequenceValidation.ts, the checks of createCampaign               *)
(* (services/campaignService.ts), controllers/followUpTemplateControllers. *)
(*                                                                         *)
(* A route of a step is kept as a position ("n2"), so it moves to another  *)
(* step when steps are removed, copied or dragged; the compose store       *)
(* outlives the page; templates, the parse of an uploaded file and the     *)
(* answer of the server arrive later.                                      *)
(***************************************************************************)
EXTENDS Integers, Sequences, FiniteSets

SeqExt == INSTANCE SequencesExt

CONSTANTS StepIds,        \* names of steps, so that a step can be told from its position
          NoStep,
          Uploads,        \* files of recipients, one address each
          MaxDraftSteps,  \* MAX_FOLLOW_UPS, 10 in the code
          MaxChanges      \* bound on what the user does

ASSUME ComposerAssumption ==
  /\ NoStep \notin StepIds /\ IsFiniteSet(StepIds)
  /\ MaxDraftSteps \in Nat \ {0} /\ MaxChanges \in Nat
  /\ Cardinality(StepIds) >= MaxDraftSteps

VARIABLES
  draftSteps,      \* sequenceSteps of the store
  mode,            \* "simple" or "advanced", state of SequenceBuilder
  view,            \* "open", "crashed" (the error boundary) or "away" (another page)
  shifted,         \* a route was there when positions changed (history)
  saved,           \* a stored follow-up template: its steps and shifted
  fetching,        \* the template of the URL is being fetched
  columns,         \* recipientColumnData: the addresses that have columns
  to,              \* the recipients
  parses,          \* per file: "none", "parsing" or "done"
  picked,          \* per file: the columns in the render in which it was picked
  parsedTogether,  \* the files parsed at the same time as another one (history)
  submitted,       \* the body of the request the server has not answered
  last,            \* the last body answered, and how
  changes

builderVars == <<draftSteps, mode, view, shifted, saved, fetching>>
uploadVars == <<columns, to, parses, picked, parsedTogether>>
postVars == <<submitted, last>>
composerVars == <<builderVars, uploadVars, postVars, changes>>

Types == {"none", "opened"}
Rules == {"absent", "empty", "set"}

\* want and wantElse are the steps the user chose, whatever their positions became.
Steps == [id: StepIds, filled: BOOLEAN, type: Types, rules: Rules,
          match: 0..MaxDraftSteps, noMatch: 0..MaxDraftSteps,
          want: StepIds \cup {NoStep}, wantElse: StepIds \cup {NoStep}]

NewStep(id) == [id |-> id, filled |-> FALSE, type |-> "none", rules |-> "absent",
                match |-> 0, noMatch |-> 0, want |-> NoStep, wantElse |-> NoStep]

NoPost == [nodes |-> <<>>, shifted |-> FALSE, answer |-> "none"]

ComposerInit ==
  /\ draftSteps = <<>> /\ mode = "simple" /\ view = "open" /\ shifted = FALSE
  /\ saved = NoPost /\ fetching = FALSE
  /\ columns = {} /\ to = {} /\ parses = [u \in Uploads |-> "none"]
  /\ picked = [u \in Uploads |-> {}] /\ parsedTogether = {}
  /\ submitted = NoPost /\ last = NoPost /\ changes = 0

Unused == {id \in StepIds : \A i \in DOMAIN draftSteps : draftSteps[i].id # id}
Routed(s) == \E i \in DOMAIN s : s[i].match # 0 \/ s[i].noMatch # 0
Dangling(s) == \E i \in DOMAIN s : s[i].match > Len(s) \/ s[i].noMatch > Len(s)

Filled(s) == [i \in DOMAIN s |-> [s[i] EXCEPT !.filled = TRUE]]

\* The path preview of the advanced mode reads the step at every route.
ViewOf(s, m) == IF m = "advanced" /\ Dangling(s) THEN "crashed" ELSE "open"

-----------------------------------------------------------------------------
(* The sequence builder.                                                   *)

Change == view = "open" /\ changes < MaxChanges /\ changes' = changes + 1

Rearranged(s) ==
  /\ Change
  /\ draftSteps' = s /\ shifted' = (shifted \/ Routed(draftSteps))
  /\ view' = ViewOf(s, mode)
  /\ UNCHANGED <<mode, saved, fetching, uploadVars, postVars>>

Edited(i, step) ==
  /\ Change
  /\ draftSteps' = [draftSteps EXCEPT ![i] = step]
  /\ UNCHANGED <<mode, view, shifted, saved, fetching, uploadVars, postVars>>

\* Not counted as a change: at most MaxSteps in a row.
AddStep ==
  /\ view = "open" /\ Len(draftSteps) < MaxDraftSteps
  /\ \E id \in Unused : draftSteps' = Append(draftSteps, NewStep(id))
  /\ UNCHANGED <<mode, view, shifted, saved, fetching, uploadVars, postVars, changes>>

RemoveStep(i) == Rearranged(SeqExt!RemoveAt(draftSteps, i))

DuplicateStep(i) ==
  /\ Len(draftSteps) < MaxDraftSteps
  /\ \E id \in Unused : Rearranged(SeqExt!InsertAt(draftSteps, i + 1, [draftSteps[i] EXCEPT !.id = id]))

\* Steps are draggable only in the advanced mode.
MoveStep(i, j) == mode = "advanced" /\ 
                    Rearranged(SeqExt!InsertAt(SeqExt!RemoveAt(draftSteps, i), j, draftSteps[i]))

\* Another condition: "none" drops the routes, and so does the simple mode; old rules stay.
SetType(i, type) ==
  LET step == draftSteps[i]
      plain == [step EXCEPT !.type = type, !.rules = "absent", !.match = 0, !.noMatch = 0,
                            !.want = NoStep, !.wantElse = NoStep]
  IN  Edited(i, IF type = "none" \/ mode = "simple" THEN plain
                ELSE [step EXCEPT !.type = type,
                                  !.rules = IF step.rules = "absent" THEN "set" ELSE step.rules])

\* The routes are shown of a step with a condition; 0 is the entry "End sequence".
MayRoute(i) == mode = "advanced" /\ draftSteps[i].type # "none"
Ruled(step) == IF step.rules = "absent" THEN [step EXCEPT !.rules = "set"] ELSE step
IdAt(j) == IF j = 0 THEN NoStep ELSE draftSteps[j].id

\* Wrong variant: the position is counted from 0.
RouteMatchFromZero(i, j) ==
  /\ MayRoute(i)
  /\ Edited(i, [Ruled(draftSteps[i]) EXCEPT !.match = IF j > 1 THEN j - 1 ELSE 0, !.want = IdAt(j)])

RouteMatch(i, j) == MayRoute(i) /\ Edited(i, [Ruled(draftSteps[i]) EXCEPT !.match = j, !.want = IdAt(j)])

RouteNoMatch(i, j) ==
  MayRoute(i) /\ Edited(i, [Ruled(draftSteps[i]) EXCEPT !.noMatch = j, !.wantElse = IdAt(j)])

\* The user types the text of a step, or lets the builder fill every empty one.
WriteSteps ==
  /\ view = "open"
  /\ draftSteps' = Filled(draftSteps) /\ draftSteps' # draftSteps
  /\ UNCHANGED <<mode, view, shifted, saved, fetching, uploadVars, postVars, changes>>

NextPosition(s, i) == IF i < Len(s) THEN i + 1 ELSE 0

Expanded(s) ==
  [i \in DOMAIN s |->
     [s[i] EXCEPT !.rules = IF @ # "absent" THEN @ ELSE IF s[i].type = "none" THEN "empty" ELSE "set",
                  !.match = IF @ # 0 THEN @ ELSE NextPosition(s, i)]]

ConvertToAdvanced ==
  /\ Change
  /\ mode' = "advanced" /\ draftSteps' = Expanded(draftSteps) /\ view' = ViewOf(draftSteps', mode')
  /\ UNCHANGED <<shifted, saved, fetching, uploadVars, postVars>>

\* Refused with branches of one's own; from the simple mode nothing is asked.
RevertToSimple ==
  /\ Change /\ mode = "advanced"
  /\ \A i \in DOMAIN draftSteps :
       draftSteps[i].noMatch = 0 /\ draftSteps[i].match \in {0, NextPosition(draftSteps, i)}
  /\ mode' = "simple"
  /\ draftSteps' = [i \in DOMAIN draftSteps |->
                 [draftSteps[i] EXCEPT !.rules = "absent", !.match = 0, !.want = NoStep,
                                  !.wantElse = NoStep]]
  /\ shifted' = FALSE
  /\ UNCHANGED <<view, saved, fetching, uploadVars, postVars>>

Builder ==
  \/ AddStep \/ WriteSteps \/ ConvertToAdvanced \/ RevertToSimple
  \/ \E i \in DOMAIN draftSteps :
       \/ RemoveStep(i) \/ DuplicateStep(i)
       \/ \E type \in Types : SetType(i, type)
       \/ \E j \in DOMAIN draftSteps \ {i} : MoveStep(i, j)
       \/ \E j \in 0..Len(draftSteps) : RouteMatch(i, j) \/ RouteNoMatch(i, j)

-----------------------------------------------------------------------------
(* Follow-up templates.                                                    *)

SaveTemplate ==
  /\ Change /\ draftSteps # <<>>
  /\ saved' = [NoPost EXCEPT !.nodes = draftSteps, !.shifted = shifted]
  /\ UNCHANGED <<draftSteps, mode, view, shifted, fetching, uploadVars, postVars>>

Load(s) ==
  /\ draftSteps' = s /\ shifted' = saved.shifted /\ view' = ViewOf(s, mode)
  /\ UNCHANGED <<mode, saved, uploadVars, postVars>>

\* From the list of templates; empty copy is filled.
ApplyPreset ==
  /\ Change /\ saved # NoPost /\ UNCHANGED fetching /\ Load(Filled(saved.nodes))

\* The template of the URL replaces what was written while it was fetched.
TemplateArrives ==
  /\ view = "open" /\ fetching /\ fetching' = FALSE /\ UNCHANGED changes /\ Load(saved.nodes)

-----------------------------------------------------------------------------
(* Recipients from files.                                                  *)

Parsing == {u \in Uploads : parses[u] = "parsing"}

PickFile(u) ==
  /\ Change /\ parses[u] = "none"
  /\ parses' = [parses EXCEPT ![u] = "parsing"] /\ picked' = [picked EXCEPT ![u] = columns]
  /\ parsedTogether' = parsedTogether \cup (IF Parsing = {} THEN {} ELSE Parsing \cup {u})
  /\ UNCHANGED <<builderVars, columns, to, postVars>>

\* The columns are merged into those of the render in which the file was picked.
FileParsed(u) ==
  /\ u \in Parsing
  /\ parses' = [parses EXCEPT ![u] = "done"]
  /\ to' = to \cup {u} /\ columns' = picked[u] \cup {u}
  /\ picked' = [picked EXCEPT ![u] = {}]
  /\ UNCHANGED <<builderVars, parsedTogether, postVars, changes>>

RemoveRecipient(u) ==
  /\ Change /\ u \in to /\ to' = to \ {u}
  /\ UNCHANGED <<builderVars, columns, parses, picked, parsedTogether, postVars>>

ToRecipients == \E u \in Uploads : PickFile(u) \/ FileParsed(u) \/ RemoveRecipient(u)

-----------------------------------------------------------------------------
(* The campaign.                                                           *)

\* An open route goes to the next step, even if "End sequence" is shown.
Matched(s, i) == IF s[i].match # 0 THEN s[i].match ELSE NextPosition(s, i)

Targets(s, i) == {Matched(s, i), s[i].noMatch} \ {0}

RuleOf(step) ==
  IF step.rules # "absent" THEN step.rules ELSE IF step.type = "none" THEN "absent" ELSE "set"

\* What the first step leads to, itself included.
Led(s) ==
  {i \in DOMAIN s :
     \A closed \in SUBSET (DOMAIN s) :
       1 \in closed /\ (\A j \in closed : Targets(s, j) \subseteq closed) => i \in closed}

AcceptsGraph(s) ==
  /\ \A i \in DOMAIN s : RuleOf(s[i]) # "empty" /\ Targets(s, i) \subseteq DOMAIN s
  /\ \A i \in DOMAIN s \ {1} : \E j \in DOMAIN s : i \in Targets(s, j)
  /\ ~ \E circle \in (SUBSET Led(s)) \ {{}} :
         \A i \in circle : Targets(s, i) \cap circle # {}

Accepts(s) == (\A i \in DOMAIN s : s[i].filled) /\ AcceptsGraph(s)

\* The button is disabled while a request is under way; recipients can also be typed.
Submit ==
  /\ view = "open" /\ submitted = NoPost
  /\ submitted' = [nodes |-> draftSteps, shifted |-> shifted, answer |-> "asked"]
  /\ UNCHANGED <<builderVars, uploadVars, last, changes>>

\* On success the page is left; the store keeps everything.
Answer ==
  /\ submitted # NoPost /\ submitted' = NoPost
  /\ last' = [submitted EXCEPT !.answer = IF Accepts(submitted.nodes) THEN "created" ELSE "refused"]
  /\ view' = IF Accepts(submitted.nodes) THEN "away" ELSE view
  /\ UNCHANGED <<draftSteps, mode, shifted, saved, fetching, uploadVars, changes>>

\* The store is reset, but for recipientColumnData, and the page is left.
Discard ==
  /\ Change
  /\ draftSteps' = <<>> /\ shifted' = FALSE /\ to' = {} /\ view' = "away"
  /\ UNCHANGED <<mode, saved, fetching, columns, parses, picked, parsedTogether, postVars>>

\* The page is mounted again, by a visit or by "Try Again"; the builder starts in simple mode.
Visit ==
  /\ view # "open" /\ changes < MaxChanges /\ changes' = changes + 1
  /\ view' = "open" /\ mode' = "simple"
  /\ fetching' \in {FALSE, saved # NoPost}
  /\ UNCHANGED <<draftSteps, shifted, saved, uploadVars, postVars>>

ComposerNext ==
  Builder \/ SaveTemplate \/ ApplyPreset \/ TemplateArrives \/ ToRecipients \/ Submit \/ Answer
  \/ Discard \/ Visit

ComposerSpec == ComposerInit /\ [][ComposerNext]_composerVars

-----------------------------------------------------------------------------
Bodies == [nodes: UNION {[1..n -> Steps] : n \in 0..MaxDraftSteps}, shifted: BOOLEAN,
           answer: {"none", "asked", "created", "refused"}]

\* Every variable keeps its type (the store, the page and the request).
ComposerTypeOK ==
  /\ Len(draftSteps) <= MaxDraftSteps /\ \A i \in DOMAIN draftSteps : draftSteps[i] \in Steps
  /\ \A i, j \in DOMAIN draftSteps : draftSteps[i].id = draftSteps[j].id => i = j
  /\ mode \in {"simple", "advanced"} /\ view \in {"open", "crashed", "away"}
  /\ shifted \in BOOLEAN /\ fetching \in BOOLEAN /\ changes \in 0..MaxChanges
  /\ columns \subseteq Uploads /\ to \subseteq Uploads /\ parsedTogether \subseteq Uploads
  /\ parses \in [Uploads -> {"none", "parsing", "done"}] /\ picked \in [Uploads -> SUBSET Uploads]
  /\ \A b \in {submitted, last, saved} :
       /\ Len(b.nodes) <= MaxDraftSteps /\ \A i \in DOMAIN b.nodes : b.nodes[i] \in Steps
       /\ b.shifted \in BOOLEAN /\ b.answer \in {"none", "asked", "created", "refused"}

\* A step of a created campaign leads to the steps the user chose for it, and to the next
\* one where none was chosen, although only positions are stored and sent
\* (SequenceBuilder.tsx:254, 292; ComposeForm.tsx:444-448): unless steps were removed,
\* copied or dragged after routes had been chosen.
RoutesAsChosen ==
  last.answer = "created" /\ ~last.shifted =>
    LET s == last.nodes
        Is(j, id) == j # 0 /\ s[j].id = id
    IN  \A i \in DOMAIN s :
          /\ IF s[i].want = NoStep THEN Matched(s, i) = NextPosition(s, i)
             ELSE Is(Matched(s, i), s[i].want)
          /\ IF s[i].wantElse = NoStep THEN s[i].noMatch = 0
             ELSE Is(s[i].noMatch, s[i].wantElse)

\* The server refuses only an unfinished step, or a sequence that was made in the advanced
\* mode: what the simple mode builds is a graph it accepts, through every detour over
\* templates, the advanced mode and a second visit (sequenceValidation.ts:144-204).
SimpleIsAccepted ==
  last.answer = "refused" =>
    \/ \E i \in DOMAIN last.nodes : ~last.nodes[i].filled
    \/ \E i \in DOMAIN last.nodes : last.nodes[i].rules # "absent"

\* A recipient of a file has the columns of its row, which the variables of the mail are
\* filled from, unless two files were parsed at the same time (ComposeForm.tsx:291-292).
ColumnsLostOnlyByOverlap == to \subseteq columns \cup parsedTogether

\* What the compose page makes is what its user chose.
ComposedAsChosen == RoutesAsChosen /\ SimpleIsAccepted /\ ColumnsLostOnlyByOverlap
=============================================================================
