-------------------------------- MODULE Checks --------------------------------
(***************************************************************************)
(* What makes the agent look by itself: proactive/proactive_service.c,     *)
(* which addresses its prompt to the contact noted last, and               *)
(* heartbeat/heartbeat.c, whose timer starts a worker when there is none.  *)
(*                                                                         *)
(* The target is two strings without a lock.  The agent writes them at     *)
(* every turn with a new contact, proactive_set_target on the console      *)
(* does too; the proactive task and the console read them.                 *)
(***************************************************************************)
EXTENDS Integers

CONSTANTS Contact,      \* pairs of a channel and a chat
          Noter,        \* the agent and the console
          Checker,      \* the proactive task and the console
          MaxNotes,     \* bound: contacts noted
          MaxBeats,     \* bound: periods of the timer
          MaxNoteBoots  \* bound: reboots

NoTarget == <<"", "">>

ASSUME ChecksAssumption ==
    /\ Contact \subseteq (STRING \ {""}) \X (STRING \ {""})
    /\ MaxNotes \in Nat /\ MaxBeats \in Nat /\ MaxNoteBoots \in Nat

VARIABLES
    target,      \* s_channel and s_chat_id
    hasTarget,   \* s_has_target
    flash,       \* the two keys in NVS
    noting,      \* per writer, where it stands
    checking,    \* per reader, where it stands
    lastNoted,   \* history: the contact noted last
    overlapped,  \* history: two writers, or a reboot and a writer or a refused key, have met since the
                 \* target was whole
    unsaved,     \* history: NVS has refused a key of the contact noted last
    mixedCheck,  \* history: a check went to a pair that nobody talks on, and no write went on
    beatWorker,  \* s_heartbeat_worker_running
    worker,      \* the worker: "none", "push" or "end"
    notes, beats, noteBoots

targetVars == <<target, hasTarget, flash, noting, lastNoted, overlapped, unsaved, notes>>
beatVars   == <<beatWorker, worker, beats>>
checkVars  == <<targetVars, checking, mixedCheck, beatVars, noteBoots>>

AtEase == [pc |-> "rest"]

ChecksInit ==
    /\ target = NoTarget /\ hasTarget = FALSE /\ flash = NoTarget
    /\ noting = [n \in Noter |-> AtEase]
    /\ checking = [c \in Checker |-> AtEase]
    /\ lastNoted = NoTarget /\ overlapped = FALSE /\ unsaved = FALSE /\ mixedCheck = FALSE
    /\ beatWorker = FALSE /\ worker = "none"
    /\ notes = 0 /\ beats = 0 /\ noteBoots = 0

Noted(n, to) == noting' = [noting EXCEPT ![n] = to]

-----------------------------------------------------------------------------
(* proactive_service_note_contact: a contact that is the target changes nothing. *)

NoteBegins(n, c) ==
    /\ noting[n] = AtEase /\ notes < MaxNotes
    /\ ~(hasTarget /\ target = c)
    /\ notes' = notes + 1
    /\ target' = NoTarget
    /\ Noted(n, [pc |-> "channel", contact |-> c])
    /\ lastNoted' = c
    /\ overlapped' = \E o \in Noter \ {n} : noting[o] # AtEase
    /\ unsaved' = FALSE
    /\ UNCHANGED <<hasTarget, flash, checking, mixedCheck, beatVars, noteBoots>>

NoteSteps(n) ==
    /\ noting[n].pc \in {"channel", "chat"}
    /\ LET c == noting[n].contact
       IN  IF noting[n].pc = "channel"
           THEN /\ target' = <<c[1], target[2]>>
                /\ Noted(n, [noting[n] EXCEPT !.pc = "chat"])
                /\ UNCHANGED hasTarget
           ELSE /\ target' = <<target[1], c[2]>>
                /\ Noted(n, [noting[n] EXCEPT !.pc = "save"])
                /\ hasTarget' = TRUE
    /\ UNCHANGED <<flash, checking, lastNoted, overlapped, unsaved, mixedCheck, beatVars, notes,
                   noteBoots>>

\* Mutant: only the first key is written.
NoteSavesChannel(n) ==
    /\ noting[n].pc = "save"
    /\ flash' = <<target[1], flash[2]>>
    /\ Noted(n, AtEase)
    /\ UNCHANGED <<target, hasTarget, checking, lastNoted, overlapped, unsaved, mixedCheck, beatVars,
                   notes, noteBoots>>

\* proactive_save_target: two keys, from the target as it is by then.  NVS may refuse either,
\* or both when it does not open, and nobody looks at that.
NoteSaves(n) ==
    /\ noting[n].pc \in {"save", "saved"}
    /\ \/ /\ flash' = IF noting[n].pc = "save" THEN <<target[1], flash[2]>> ELSE <<flash[1], target[2]>>
          /\ UNCHANGED unsaved
       \/ unsaved' = TRUE /\ UNCHANGED flash
    /\ Noted(n, IF noting[n].pc = "save" THEN [noting[n] EXCEPT !.pc = "saved"] ELSE AtEase)
    /\ UNCHANGED <<target, hasTarget, checking, lastNoted, overlapped, mixedCheck, beatVars, notes,
                   noteBoots>>

-----------------------------------------------------------------------------
(* proactive_service_trigger_now. *)

Writing == \E n \in Noter : noting[n].pc \in {"channel", "chat"}

CheckReads(c) ==
    /\ checking[c] = AtEase /\ hasTarget
    /\ checking' = [checking EXCEPT ![c] =
          [pc |-> "chat", channel |-> target[1], notes |-> notes, clean |-> ~Writing]]
    /\ UNCHANGED <<targetVars, mixedCheck, beatVars, noteBoots>>

\* The message; whether the queue takes it makes no difference here.
CheckAsks(c) ==
    /\ checking[c].pc = "chat"
    /\ LET r == checking[c]
       IN  mixedCheck' = (mixedCheck \/ (/\ <<r.channel, target[2]>> \notin Contact
                                         /\ r.clean /\ r.notes = notes /\ ~overlapped))
    /\ checking' = [checking EXCEPT ![c] = AtEase]
    /\ UNCHANGED <<targetVars, beatVars, noteBoots>>

-----------------------------------------------------------------------------
(* heartbeat.c. *)

\* heartbeat_timer_callback; the worker's task may not be made.
BeatFires ==
    /\ beats < MaxBeats
    /\ beats' = beats + 1
    /\ IF beatWorker THEN UNCHANGED <<beatWorker, worker>>
       ELSE \/ beatWorker' = TRUE /\ worker' = "push"
            \/ UNCHANGED <<beatWorker, worker>>
    /\ UNCHANGED <<targetVars, checking, mixedCheck, noteBoots>>

\* heartbeat_send: nothing to do, or a prompt that the queue takes or refuses.
BeatSends ==
    /\ worker = "push"
    /\ worker' = "end"
    /\ UNCHANGED <<targetVars, checking, mixedCheck, beatWorker, beats, noteBoots>>

BeatEnds ==
    /\ worker = "end"
    /\ beatWorker' = FALSE /\ worker' = "none"
    /\ UNCHANGED <<targetVars, checking, mixedCheck, beats, noteBoots>>

-----------------------------------------------------------------------------

\* proactive_load_target.
ChecksReboot ==
    /\ noteBoots < MaxNoteBoots
    /\ noteBoots' = noteBoots + 1
    /\ IF flash[1] # "" /\ flash[2] # "" THEN target' = flash /\ hasTarget' = TRUE
       ELSE target' = NoTarget /\ hasTarget' = FALSE
    /\ overlapped' = (overlapped \/ unsaved \/ \E n \in Noter : noting[n] # AtEase)
    /\ noting' = [n \in Noter |-> AtEase]
    /\ checking' = [c \in Checker |-> AtEase]
    /\ beatWorker' = FALSE /\ worker' = "none"
    /\ UNCHANGED <<flash, lastNoted, unsaved, mixedCheck, notes, beats>>

NoteStep == \E n \in Noter : NoteSteps(n) \/ NoteSaves(n)
BeatStep == BeatSends \/ BeatEnds

ChecksNext ==
    \/ \E n \in Noter, c \in Contact : NoteBegins(n, c)
    \/ NoteStep
    \/ \E c \in Checker : CheckReads(c) \/ CheckAsks(c)
    \/ BeatFires \/ BeatStep
    \/ ChecksReboot

ChecksSpec == ChecksInit /\ [][ChecksNext]_checkVars

-----------------------------------------------------------------------------
(* Properties. *)

ChecksTypeOK ==
    /\ hasTarget \in BOOLEAN /\ overlapped \in BOOLEAN /\ unsaved \in BOOLEAN /\ mixedCheck \in BOOLEAN
    /\ \A n \in Noter : noting[n].pc \in {"rest", "channel", "chat", "save", "saved"}
    /\ \A c \in Checker : checking[c].pc \in {"rest", "chat"}
    /\ worker \in {"none", "push", "end"} /\ beatWorker \in BOOLEAN
    /\ notes \in 0 .. MaxNotes /\ beats \in 0 .. MaxBeats /\ noteBoots \in 0 .. MaxNoteBoots

\* When nobody is writing, the target in memory is the contact noted last, and so is the one in
\* flash, which a reboot goes back to, unless NVS refused one of its keys.  Excepted is what two
\* writers, or a reboot in a write or after a refused one, have left; the next complete write
\* makes even that good.  And a check is addressed to a pair that somebody
\* talks on, unless a write fell into it.
TargetIsContact ==
    /\ (\A n \in Noter : noting[n] = AtEase) /\ notes > 0 /\ ~overlapped
         => target = lastNoted /\ hasTarget /\ (unsaved \/ flash = lastNoted)
    /\ ~mixedCheck
=============================================================================
