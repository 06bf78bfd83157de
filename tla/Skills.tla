-------------------------------- MODULE Skills --------------------------------
(***************************************************************************)
(* The file tools write_file and edit_file (tools/tool_files.c), the       *)
(* console's memory_write, and the summary of the skill files that every   *)
(* system prompt contains (skills/skill_loader.c): built from the files    *)
(* when the cache has none, cached for a day, and dropped by the file      *)
(* tools when they have written a skill file.                              *)
(*                                                                         *)
(* The agent and a subagent that outlived its timeout write and read at    *)
(* the same time as the console.  Of the cache CacheMap's promise is used: *)
(* it may forget the summary at any moment.                                *)
(***************************************************************************)
EXTENDS Integers, FiniteSets

CONSTANTS SkillTask,   \* the agent, a subagent, the console
          SkillFile,   \* files whose path begins with ESPAGENT_SKILLS_PREFIX
          OtherFile,   \* other files below /spiffs
          MaxWrites    \* bound: writes and edits in all

ASSUME SkillAssumption == SkillFile \cap OtherFile = {} /\ MaxWrites \in Nat

VARIABLES
    content,  \* per file, the writes its text shows; {} after fopen with "w"
    summary,  \* the cached summary: whether there is one, and what it shows
    doing,    \* where each task stands
    writes,   \* history: writes begun
    outrun,   \* history: a summary was cached after a file it shows had changed
    cut       \* history: a skill file was cut short by write_file

skillVars == <<content, summary, doing, writes, outrun, cut>>

SkillPath == SkillFile \cup OtherFile
Text      == SUBSET (0 .. MaxWrites)
AtRest    == [pc |-> "idle"]
NoSummary == [there |-> FALSE]
Shown     == [f \in SkillFile |-> content[f]]

SkillInit ==
    /\ content = [f \in SkillPath |-> {0}]
    /\ summary = NoSummary
    /\ doing = [t \in SkillTask |-> AtRest]
    /\ writes = 0 /\ outrun = FALSE /\ cut = FALSE

Goes(t, to) == doing' = [doing EXCEPT ![t] = to]

-----------------------------------------------------------------------------
(* Writing. *)

\* write_file and memory_write: the file is empty once it is open.
WriteOpens(t, f) ==
    /\ doing[t] = AtRest /\ writes < MaxWrites
    /\ writes' = writes + 1
    /\ content' = [content EXCEPT ![f] = {}]
    /\ Goes(t, [pc |-> "write", file |-> f, text |-> {writes'}, edit |-> FALSE])
    /\ UNCHANGED <<summary, outrun, cut>>

\* edit_file reads the file and closes it, makes the new text, and opens it again.
EditReads(t, f) ==
    /\ doing[t] = AtRest /\ writes < MaxWrites
    /\ content[f] # {}
    /\ writes' = writes + 1
    /\ Goes(t, [pc |-> "edit", file |-> f, text |-> content[f] \cup {writes'}])
    /\ UNCHANGED <<content, summary, outrun, cut>>

EditOpens(t) ==
    /\ doing[t].pc = "edit"
    /\ content' = [content EXCEPT ![doing[t].file] = {}]
    /\ Goes(t, [pc |-> "write", file |-> doing[t].file, text |-> doing[t].text, edit |-> TRUE])
    /\ UNCHANGED <<summary, writes, outrun, cut>>

\* Mutant: an edit does not drop the summary.
AfterWriteOnly(t, whole) ==
    IF doing[t].file \in SkillFile /\ whole /\ ~doing[t].edit THEN [pc |-> "drop"] ELSE AtRest

\* invalidate_skill_cache_if_needed: write_file gets there only when all was written,
\* edit_file does not look.
AfterWrite(t, whole) ==
    IF doing[t].file \in SkillFile /\ (whole \/ doing[t].edit) THEN [pc |-> "drop"] ELSE AtRest

WriteEnds(t) ==
    /\ doing[t].pc = "write"
    /\ \E whole \in BOOLEAN :
          /\ content' = [content EXCEPT ![doing[t].file] = IF whole THEN doing[t].text ELSE {}]
          /\ Goes(t, AfterWrite(t, whole))
          /\ cut' = (cut \/ (~whole /\ ~doing[t].edit /\ doing[t].file \in SkillFile))
    /\ UNCHANGED <<summary, writes, outrun>>

SummaryDropped(t) ==
    /\ doing[t].pc = "drop"
    /\ summary' = NoSummary
    /\ Goes(t, AtRest)
    /\ UNCHANGED <<content, writes, outrun, cut>>

-----------------------------------------------------------------------------
(* The summary. *)

\* Without a cached summary the files are read.
SummaryBuilt(t) ==
    /\ doing[t] = AtRest /\ ~summary.there
    /\ Goes(t, [pc |-> "built", shows |-> Shown])
    /\ UNCHANGED <<content, summary, writes, outrun, cut>>

\* ... and the summary is cached, whatever has happened since.  The flashed skills make
\* it longer than nothing.
SummaryCached(t) ==
    /\ doing[t].pc = "built"
    /\ summary' = [there |-> TRUE, shows |-> doing[t].shows]
    /\ outrun' = (outrun \/ doing[t].shows # Shown)
    /\ Goes(t, AtRest)
    /\ UNCHANGED <<content, writes, cut>>

\* After a day, or earlier to make room for other keys.
SummaryForgotten ==
    /\ summary.there
    /\ summary' = NoSummary
    /\ UNCHANGED <<content, doing, writes, outrun, cut>>

-----------------------------------------------------------------------------

SkillTaskStep(t) == EditOpens(t) \/ WriteEnds(t) \/ SummaryDropped(t) \/ SummaryCached(t)

SkillNext ==
    \/ \E t \in SkillTask, f \in SkillPath : WriteOpens(t, f) \/ EditReads(t, f)
    \/ \E t \in SkillTask : SkillTaskStep(t) \/ SummaryBuilt(t)
    \/ SummaryForgotten

SkillSpec == SkillInit /\ [][SkillNext]_skillVars

-----------------------------------------------------------------------------
(* Properties. *)

SkillTypeOK ==
    /\ content \in [SkillPath -> Text]
    /\ summary.there => summary.shows \in [SkillFile -> Text]
    /\ \A t \in SkillTask : doing[t].pc \in {"idle", "edit", "write", "drop", "built"}
    /\ writes \in 0 .. MaxWrites /\ outrun \in BOOLEAN /\ cut \in BOOLEAN

\* Once no task is writing a skill file or about to drop the summary, a prompt shows the
\* skill files as they are.  Only two things leave an old summary behind: a summary that
\* was being built while a file changed, and a write_file that could not write all.
SummaryIsTrue ==
    (\A t \in SkillTask : doing[t].pc \notin {"write", "drop"})
      => ~summary.there \/ summary.shows = Shown \/ outrun \/ cut
=============================================================================
