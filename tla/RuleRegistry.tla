---------------------------- MODULE RuleRegistry ----------------------------
(***************************************************************************)
(* The versions of the rules of one schema: drafts that are edited and     *)
(* published, a file per published version beside the drafts, and, where   *)
(* a database is configured, a row per version, which is then what jobs    *)
(* are given.  Requests publish and edit beside each other, a step of      *)
(* another between any two of theirs, and may fail or die at each.         *)
(*                                                                         *)
(* Of a configuration the version it says it has and its content count;    *)
(* the content Unfit stands for all that RuleSet refuses.                  *)
(***************************************************************************)
EXTENDS Integers

CONSTANTS
    RuleCalls,      \* requests that publish or edit
    Drafts, RuleVersions,
    Contents,       \* what a version can contain, by its content_sha256
    Unfit, NoContent,
    Torn,           \* a file with only a part of a content
    NoDraft, NoRecord

Configs == [version : RuleVersions, content : Contents \cup {Unfit}]

ASSUME RuleRegistryAssumption ==
    /\ Unfit \notin Contents
    /\ {NoContent, Torn} \cap Contents = {}
    /\ NoContent # Torn
    /\ NoDraft \notin Drafts

VARIABLES
    ruBase,         \* a database is configured
    ruFile,         \* version -> what its file contains
    ruRow,          \* version -> the content in its row
    ruDraft,        \* draft -> its record: status and configuration
    ruTemp,         \* draft -> the record written beside it, or NoRecord
    ruCall,         \* request -> what it does next, for which draft and configuration,
                    \* and the record it will save
    ruAnswers,      \* history: the configurations answered as published
    ruClobbered,    \* history: versions two requests wrote at a time
    ruStale         \* history: drafts of which an edit and a publication overlapped

ruVars == <<ruBase, ruFile, ruRow, ruDraft, ruTemp, ruCall, ruAnswers, ruClobbered, ruStale>>

Fit(g) == g.content # Unfit

(* get_rule: what a version is for those who ask for it. *)
Served(v) == IF ruBase THEN ruRow[v] ELSE ruFile[v]

Proceeds(c, at) == ruCall' = [ruCall EXCEPT ![c].at = at]

(* Where a published version goes: the database next, if there is one. *)
Stored(c) == Proceeds(c, IF ruBase THEN "row" ELSE "mark")

Content(c) == ruCall[c].config.content
Version(c) == ruCall[c].config.version

-----------------------------------------------------------------------------
(* Drafts.                                                                 *)

Under(c, d) == ruCall[c].at \notin {"new", "ended"} /\ ruCall[c].draft = d

(* update and confirm_mapping, or a publication, at work on a draft. *)
Edits(c, d) == Under(c, d) /\ ruCall[c].record.status = "draft"
Publishes(c, d) == Under(c, d) /\ ruCall[c].record.status = "published"

(* An import, a new schema, or a draft from a configuration or a version. *)
CreateDraft(d) ==
    /\ d \notin DOMAIN ruDraft
    /\ \E g \in Configs :
          ruDraft' = [e \in DOMAIN ruDraft \cup {d} |->
                        IF e = d THEN [status |-> "draft", config |-> g] ELSE ruDraft[e]]
    /\ UNCHANGED <<ruBase, ruFile, ruRow, ruTemp, ruCall, ruAnswers, ruClobbered, ruStale>>

(* The record of a draft is read, *)
EditDraft(c) ==
    /\ ruCall[c].at = "new"
    /\ \E d \in DOMAIN ruDraft, g \in Configs :
          /\ ruDraft[d].status = "draft"
          /\ ruCall' = [ruCall EXCEPT ![c] =
                          [at |-> "save", draft |-> d, config |-> g,
                           record |-> [status |-> "draft", config |-> g]]]
          /\ ruStale' = ruStale \cup {e \in {d} : \E q \in RuleCalls : Publishes(q, e)}
    /\ UNCHANGED <<ruBase, ruFile, ruRow, ruDraft, ruTemp, ruAnswers, ruClobbered>>

(* _write: the whole of it is written beside it, under one name for all, *)
WriteTemp(c) ==
    /\ ruCall[c].at = "save"
    /\ ruTemp' = [ruTemp EXCEPT ![ruCall[c].draft] = ruCall[c].record]
    /\ Proceeds(c, "replace")
    /\ UNCHANGED <<ruBase, ruFile, ruRow, ruDraft, ruAnswers, ruClobbered, ruStale>>

Answered(c) ==
    ruAnswers' = ruAnswers \cup {g \in {ruCall[c].config} : ruCall[c].record.status = "published"}

(* and what is there takes its place, if no other was faster. *)
ReplaceDraft(c) ==
    /\ ruCall[c].at = "replace"
    /\ LET d == ruCall[c].draft
       IN  IF ruTemp[d] = NoRecord THEN UNCHANGED <<ruDraft, ruTemp, ruAnswers>>
           ELSE /\ ruDraft' = [ruDraft EXCEPT ![d] = ruTemp[d]]
                /\ ruTemp' = [ruTemp EXCEPT ![d] = NoRecord]
                /\ Answered(c)
    /\ Proceeds(c, "ended")
    /\ UNCHANGED <<ruBase, ruFile, ruRow, ruClobbered, ruStale>>

-----------------------------------------------------------------------------
(* A publication: of rules as they are, or of a draft, whatever its status. *)

Publication(d, g) ==
    [at |-> "look", draft |-> d, config |-> g, record |-> [status |-> "published", config |-> g]]

PublishSchema(c) ==
    /\ ruCall[c].at = "new"
    /\ \E g \in Configs : Fit(g) /\ ruCall' = [ruCall EXCEPT ![c] = Publication(NoDraft, g)]
    /\ UNCHANGED <<ruBase, ruFile, ruRow, ruDraft, ruTemp, ruAnswers, ruClobbered, ruStale>>

PublishDraft(c) ==
    /\ ruCall[c].at = "new"
    /\ \E d \in DOMAIN ruDraft :
          /\ Fit(ruDraft[d].config)
          /\ ruCall' = [ruCall EXCEPT ![c] = Publication(d, ruDraft[d].config)]
          /\ ruStale' = ruStale \cup {e \in {d} : \E q \in RuleCalls : Edits(q, e)}
    /\ UNCHANGED <<ruBase, ruFile, ruRow, ruDraft, ruTemp, ruAnswers, ruClobbered>>

(* RuleRegistry.publish: a file that is there must have this content, *)
LookUpFile(c) ==
    /\ ruCall[c].at = "look"
    /\ CASE ruFile[Version(c)] = NoContent -> Proceeds(c, "open")
         [] ruFile[Version(c)] = Content(c) -> Stored(c)
         [] OTHER -> Proceeds(c, "ended")
    /\ UNCHANGED <<ruBase, ruFile, ruRow, ruDraft, ruTemp, ruAnswers, ruClobbered, ruStale>>

(* and else is written; it is empty for a while.                            *)
OpenFile(c) ==
    /\ ruCall[c].at = "open"
    /\ ruFile' = [ruFile EXCEPT ![Version(c)] = Torn]
    /\ ruClobbered' = ruClobbered \cup {v \in {Version(c)} : ruFile[v] # NoContent}
    /\ Proceeds(c, "fill")
    /\ UNCHANGED <<ruBase, ruRow, ruDraft, ruTemp, ruAnswers, ruStale>>

FillFile(c) ==
    /\ ruCall[c].at = "fill"
    /\ \E x \in {Content(c)} \cup {t \in {Torn} : Version(c) \in ruClobbered} :
          ruFile' = [ruFile EXCEPT ![Version(c)] = x]
    /\ Stored(c)
    /\ UNCHANGED <<ruBase, ruRow, ruDraft, ruTemp, ruAnswers, ruClobbered, ruStale>>

(* publish_rule: the row is looked for, *)
LookUpRow(c) ==
    /\ ruCall[c].at = "row"
    /\ CASE ruRow[Version(c)] = NoContent -> Proceeds(c, "insert")
         [] ruRow[Version(c)] = Content(c) -> Proceeds(c, "mark")
         [] OTHER -> Proceeds(c, "ended")
    /\ UNCHANGED <<ruBase, ruFile, ruRow, ruDraft, ruTemp, ruAnswers, ruClobbered, ruStale>>

(* Slip: nothing keeps the row unique. *)
SlipInsertRule(c) ==
    /\ ruCall[c].at = "insert"
    /\ ruRow' = [ruRow EXCEPT ![Version(c)] = Content(c)]
    /\ Proceeds(c, "mark")
    /\ UNCHANGED <<ruBase, ruFile, ruDraft, ruTemp, ruAnswers, ruClobbered, ruStale>>

(* and a new one inserted, unless another was first                        *)
(* (uq_tenant_schema_version).                                             *)
InsertRule(c) ==
    /\ ruCall[c].at = "insert"
    /\ IF ruRow[Version(c)] = NoContent
       THEN ruRow' = [ruRow EXCEPT ![Version(c)] = Content(c)] /\ Proceeds(c, "mark")
       ELSE UNCHANGED ruRow /\ Proceeds(c, "ended")
    /\ UNCHANGED <<ruBase, ruFile, ruDraft, ruTemp, ruAnswers, ruClobbered, ruStale>>

AnswerSchema(c) ==
    /\ ruCall[c].at = "mark" /\ ruCall[c].draft = NoDraft
    /\ Answered(c)
    /\ Proceeds(c, "ended")
    /\ UNCHANGED <<ruBase, ruFile, ruRow, ruDraft, ruTemp, ruClobbered, ruStale>>

(* mark_published: the record is read once more, and saved as above. *)
ReadDraft(c) ==
    /\ ruCall[c].at = "mark" /\ ruCall[c].draft # NoDraft
    /\ ruCall' = [ruCall EXCEPT ![c].at = "save",
                                ![c].record.config = ruDraft[ruCall[c].draft].config]
    /\ UNCHANGED <<ruBase, ruFile, ruRow, ruDraft, ruTemp, ruAnswers, ruClobbered, ruStale>>

(* A connection that is not known, an error, or the end of the process. *)
LeaveCall(c) ==
    /\ ruCall[c].at \notin {"new", "ended"}
    /\ Proceeds(c, "ended")
    /\ UNCHANGED <<ruBase, ruFile, ruRow, ruDraft, ruTemp, ruAnswers, ruClobbered, ruStale>>

-----------------------------------------------------------------------------
RuleInit ==
    /\ ruBase \in BOOLEAN
    /\ ruFile = [v \in RuleVersions |-> NoContent]
    /\ ruRow = [v \in RuleVersions |-> NoContent]
    /\ ruDraft = <<>> /\ ruTemp = [d \in Drafts |-> NoRecord]
    /\ ruCall = [c \in RuleCalls |-> [at |-> "new", draft |-> NoDraft]]
    /\ ruAnswers = {} /\ ruClobbered = {} /\ ruStale = {}

RuleNext ==
    \/ \E d \in Drafts : CreateDraft(d)
    \/ \E c \in RuleCalls :
          \/ EditDraft(c) \/ WriteTemp(c) \/ ReplaceDraft(c)
          \/ PublishSchema(c) \/ PublishDraft(c)
          \/ LookUpFile(c) \/ OpenFile(c) \/ FillFile(c)
          \/ LookUpRow(c) \/ InsertRule(c)
          \/ AnswerSchema(c) \/ ReadDraft(c) \/ LeaveCall(c)

RuleSpec == RuleInit /\ [][RuleNext]_ruVars

-----------------------------------------------------------------------------
(* Properties.                                                             *)

Kept(g) ==
    /\ ruBase \/ g.version \notin ruClobbered => Served(g.version) = g.content
    /\ g.version \notin ruClobbered => ruFile[g.version] = g.content

(* Whoever was told that a version is published is served what was         *)
(* published, then and ever after, whatever else is published, fails or    *)
(* dies meanwhile: with a database always, and a file always has that      *)
(* content unless two requests wrote it at a time.  And a draft shown as   *)
(* published is what is served, unless it was edited meanwhile.            *)
PublishedIsServed ==
    /\ \A g \in ruAnswers : Kept(g)
    /\ \A d \in DOMAIN ruDraft :
          ruDraft[d].status = "published" /\ d \notin ruStale => Kept(ruDraft[d].config)

=============================================================================
