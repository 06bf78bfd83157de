------------------------------- MODULE Sessions -------------------------------
(***************************************************************************)
(* memory/session_mgr.c: the file of a chat's exchanges.  The agent reads  *)
(* the last of them at the start of a turn and appends the question and    *)
(* the answer at its end; session_clear on the console removes the file    *)
(* in between.  Boards with an older firmware named the file after the     *)
(* chat; it is read while there is no file under the new name.             *)
(***************************************************************************)
EXTENDS Integers, Sequences, SequencesExt

CONSTANTS SessionChat,
          LegacyLines,   \* per chat, what is in the file an older firmware left; <<>>: none
          MaxMsgs,       \* ESPAGENT_SESSION_MAX_MSGS
          HistoryHolds,  \* ESPAGENT_LLM_STREAM_BUF_SIZE, in units of size
          LineSize,      \* sizes of a line that the reader's buffer holds
          MaxPieces,     \* bound: pieces of a longer line that parse
          MaxTurns       \* bound: turns

\* What one fgets of the reader yields.  A line that its buffer holds is a message.  A longer
\* one comes in pieces: the first is an object that does not end; a later one may begin with
\* a number, a string, a literal or an empty array, and parses.
Kind == {"message", "noise", "piece"}

ASSUME SessionAssumption ==
    /\ MaxMsgs \in Nat \ {0} /\ HistoryHolds \in Nat
    /\ LineSize \subseteq Nat /\ MaxPieces \in Nat /\ MaxTurns \in Nat
    /\ LegacyLines \in [SessionChat -> Seq([turn : {0}, role : {"user", "assistant"},
                                           as : Kind, size : LineSize \cup {0}])]

VARIABLES
    fileOf,     \* per chat, the lines of session_<hash>.jsonl
    legacyOf,   \* per chat, the lines of session_<chat>.jsonl
    turnOf,     \* where the agent stands
    wiped,      \* history: per chat, the turns that session_clear has seen the end of
    turns       \* history: turns begun

sessionVars == <<fileOf, legacyOf, turnOf, wiped, turns>>

SessionLine == [turn : 0 .. MaxTurns, role : {"user", "assistant"}, as : Kind,
                size : LineSize \cup {0}]
Resting     == [pc |-> "rest"]

SessionInit ==
    /\ fileOf = [c \in SessionChat |-> <<>>]
    /\ legacyOf = LegacyLines
    /\ turnOf = Resting
    /\ wiped = [c \in SessionChat |-> {}]
    /\ turns = 0

-----------------------------------------------------------------------------
(* session_get_history_json. *)

\* The file that is opened; a file is never empty.
Opened(c) == IF fileOf[c] # <<>> THEN fileOf[c] ELSE legacyOf[c]

\* The reading loop: what does not parse is skipped; the ring of max_msgs places keeps the
\* rest, the newest over the oldest, a piece of a long line like a message.
Ring(lines) ==
    LET after[n \in 0 .. Len(lines)] ==
          IF n = 0 THEN [at |-> [i \in 0 .. MaxMsgs - 1 |-> Resting], count |-> 0, write |-> 0]
          ELSE LET r == after[n - 1]
               IN  IF lines[n].as = "noise" THEN r
                   ELSE [at |-> [r.at EXCEPT ![r.write] = lines[n]],
                         count |-> IF r.count < MaxMsgs THEN r.count + 1 ELSE r.count,
                         write |-> (r.write + 1) % MaxMsgs]
    IN  after[Len(lines)]

\* Mutant: the ring is read from its first place.
FromFirstPlace(lines) == [i \in 1 .. Ring(lines).count |-> Ring(lines).at[i - 1]]

\* The ring from its oldest place on.
FromOldest(lines) ==
    LET r == Ring(lines)
        start == IF r.count < MaxMsgs THEN 0 ELSE r.write
    IN  [i \in 1 .. r.count |-> r.at[(start + i - 1) % MaxMsgs]]

\* Those of the elements that have the strings role and content: no piece does.
Messages(elements) ==
    LET upTo[n \in 0 .. Len(elements)] ==
          IF n = 0 THEN <<>>
          ELSE IF elements[n].as = "message" THEN Append(upTo[n - 1], elements[n])
          ELSE upTo[n - 1]
    IN  upTo[Len(elements)]

\* The array that is made of the ring.
RingRead(lines) == Messages(FromOldest(lines))

TotalSize(lines) == FoldSeq(LAMBDA l, n : l.size + n, 0, lines)

\* What the turn begins with.  A text that is too long is cut and does not parse, and the
\* agent goes on without any history.
History(c) ==
    LET kept == RingRead(Opened(c))
    IN  IF TotalSize(kept) < HistoryHolds THEN kept ELSE <<>>

-----------------------------------------------------------------------------
(* The agent's turn, and the console. *)

TurnBegins(c) ==
    /\ turnOf = Resting /\ turns < MaxTurns
    /\ turns' = turns + 1
    /\ turnOf' = [pc |-> "user", chat |-> c, turn |-> turns', history |-> History(c)]
    /\ UNCHANGED <<fileOf, legacyOf, wiped>>

\* What a line written now will be to the reader: one message, or the pieces of a long line.
PiecesOf(role) ==
    LET one(as, size) == [turn |-> turnOf.turn, role |-> role, as |-> as, size |-> size]
    IN  {<<one("message", size)>> : size \in LineSize}
        \cup {<<one("noise", 0)>> \o [i \in 1 .. n |-> one("piece", 0)] : n \in 0 .. MaxPieces}

\* session_append, which may fail to open the file; the agent goes on either way.
Saved(role) ==
    \/ UNCHANGED fileOf
    \/ \E line \in PiecesOf(role) :
          fileOf' = [fileOf EXCEPT ![turnOf.chat] = @ \o line]

\* The question, unless the turn is a proactive check or an injected result.
UserSaved ==
    /\ turnOf.pc = "user"
    /\ turnOf' = [turnOf EXCEPT !.pc = "assistant"]
    /\ Saved("user") \/ UNCHANGED fileOf
    /\ UNCHANGED <<legacyOf, wiped, turns>>

AssistantSaved ==
    /\ turnOf.pc = "assistant"
    /\ turnOf' = Resting
    /\ Saved("assistant")
    /\ UNCHANGED <<legacyOf, wiped, turns>>

\* session_clear removes both files.
SessionClear(c) ==
    /\ fileOf[c] # <<>> \/ legacyOf[c] # <<>>
    /\ fileOf' = [fileOf EXCEPT ![c] = <<>>]
    /\ legacyOf' = [legacyOf EXCEPT ![c] = <<>>]
    /\ wiped' = [wiped EXCEPT ![c] = IF turnOf.pc # "rest" THEN 0 .. turns - 1 ELSE 0 .. turns]
    /\ UNCHANGED <<turnOf, turns>>

SessionNext ==
    \/ \E c \in SessionChat : TurnBegins(c) \/ SessionClear(c)
    \/ UserSaved \/ AssistantSaved

SessionSpec == SessionInit /\ [][SessionNext]_sessionVars

-----------------------------------------------------------------------------
(* Properties. *)

SessionTypeOK ==
    /\ fileOf \in [SessionChat -> Seq(SessionLine)]
    /\ legacyOf \in [SessionChat -> Seq(SessionLine)]
    /\ turnOf.pc \in {"rest", "user", "assistant"}
    /\ turns \in 0 .. MaxTurns

\* What parses, in its order; and the last max_msgs of some elements.
Parsed(lines) ==
    LET upTo[n \in 0 .. Len(lines)] ==
          IF n = 0 THEN <<>>
          ELSE IF lines[n].as # "noise" THEN Append(upTo[n - 1], lines[n])
          ELSE upTo[n - 1]
    IN  upTo[Len(lines)]
LastOf(k) == SubSeq(k, IF Len(k) > MaxMsgs THEN Len(k) - MaxMsgs + 1 ELSE 1, Len(k))

\* What is kept is what is a message of the last max_msgs lines, or pieces of a long line,
\* that parse: the most recent messages in their order and without a gap, fewer of them
\* when pieces took their places.  The history is that or empty; and nothing of it is from
\* before the last clear, not from the older file either (session_get_history_json,
\* session_clear).
HistoryIsRecent ==
    \A c \in SessionChat :
       LET parsed   == Parsed(Opened(c))
           messages == Messages(parsed)
           kept     == RingRead(Opened(c))
       IN  /\ kept = Messages(LastOf(parsed))
           /\ kept = SubSeq(messages, Len(messages) - Len(kept) + 1, Len(messages))
           /\ History(c) \in {<<>>, kept}
           /\ \A i \in 1 .. Len(History(c)) : History(c)[i].turn \notin wiped[c]
=============================================================================
